----------------------------- MODULE MessageBus -----------------------------
(***************************************************************************)
(* The message bus of pkg/bus: two bounded Go channels, "inbound" and      *)
(* "outbound", one RWMutex shared by both, a `closed` flag and a table of  *)
(* handlers.  A publisher holds the read lock for as long as its send      *)
(* blocks; Close and RegisterHandler need the write lock.  Consumers take  *)
(* no lock: they select between their channel and their context.           *)
(*                                                                         *)
(* The Go primitives are modelled by what they do.  A full channel parks   *)
(* its senders in arrival order, and a receive moves the first of them     *)
(* into the buffer.  A send on a closed channel panics, a receive from a   *)
(* closed and drained one returns the zero message.  An RWMutex whose      *)
(* writer has announced itself parks the readers that come later, and      *)
(* lets them all in when that writer unlocks.                              *)
(***************************************************************************)
EXTENDS Naturals, Sequences, FiniteSets

CONSTANTS Publishers,   \* goroutines that publish and look handlers up
          Writers,      \* goroutines that call Close or RegisterHandler
          NoWriter,     \* stands for: nobody has announced itself as writer
          Cap,          \* capacity of each channel (100 in the code)
          MaxPublish,   \* bound: calls of Publish* per publisher
          Stoppable     \* the channels whose consumer's context may end

Chans == {"inbound", "outbound"}

ASSUME PublishersAssumption == /\ Publishers \cap Writers = {}
                               /\ NoWriter \notin Publishers \cup Writers
ASSUME CapAssumption == Cap \in Nat \ {0}
ASSUME MaxPublishAssumption == MaxPublish \in Nat
ASSUME StoppableAssumption == Stoppable \subseteq Chans

VARIABLES queue,      \* queue[ch]: the buffered messages of channel ch
          sendq,      \* sendq[ch]: publishers parked on the full channel ch
          closed,     \* mb.closed, and whether both channels are closed
          handlers,   \* the channel names that have a handler
          readers,    \* holders of the read lock
          blocked,    \* readers parked behind an announced writer
          writer,     \* the writer that has announced itself, or NoWriter
          pc,         \* where each goroutine is
          op,         \* the call it is in
          published,  \* number of Publish* calls each publisher has begun
          ctx,        \* the context of each channel's consumer
          delivered,  \* history: what each consumer has been handed
          zeroed      \* whether a consumer was handed a zero message

lockVars == <<readers, blocked, writer>>
chanVars == <<queue, sendq, closed>>
consumerVars == <<ctx, delivered, zeroed>>
vars == <<queue, sendq, closed, handlers, readers, blocked, writer, pc, op,
          published, ctx, delivered, zeroed>>

Procs == Publishers \cup Writers
Message == Publishers \X (0..MaxPublish)
PubOps == Chans \cup {"GetHandler"}
WriteOps == {"Close", "RegisterHandler"}

(* The message a publisher is busy with: its latest. *)
Msg(p) == <<p, published[p]>>

Init ==
  /\ queue = [ch \in Chans |-> <<>>]
  /\ sendq = [ch \in Chans |-> <<>>]
  /\ closed = FALSE
  /\ handlers = {}
  /\ readers = {}
  /\ blocked = {}
  /\ writer = NoWriter
  /\ pc = [p \in Procs |-> "idle"]
  /\ op = [p \in Procs |-> "none"]
  /\ published = [p \in Publishers |-> 0]
  /\ ctx = [ch \in Chans |-> "live"]
  /\ delivered = [ch \in Chans |-> <<>>]
  /\ zeroed = [ch \in Chans |-> FALSE]

-----------------------------------------------------------------------------
(* Publishers. *)

(* PublishInbound, PublishOutbound or GetHandler is called. *)
Call(p, o) ==
  /\ pc[p] = "idle"
  /\ \/ /\ o \in Chans
        /\ published[p] < MaxPublish
        /\ published' = [published EXCEPT ![p] = @ + 1]
     \/ /\ o = "GetHandler"
        /\ UNCHANGED published
  /\ pc' = [pc EXCEPT ![p] = "rlock"]
  /\ op' = [op EXCEPT ![p] = o]
  /\ UNCHANGED <<chanVars, handlers, lockVars, consumerVars>>

(* mb.mu.RLock(): granted unless a writer has announced itself. *)
RLock(p) ==
  /\ pc[p] = "rlock"
  /\ IF writer = NoWriter
     THEN /\ readers' = readers \cup {p}
          /\ pc' = [pc EXCEPT ![p] = "check"]
          /\ UNCHANGED blocked
     ELSE /\ blocked' = blocked \cup {p}
          /\ pc' = [pc EXCEPT ![p] = "rblocked"]
          /\ UNCHANGED readers
  /\ UNCHANGED <<chanVars, handlers, writer, op, published, consumerVars>>

(* `if mb.closed { return }`; GetHandler reads the table and returns. *)
Check(p) ==
  /\ pc[p] = "check"
  /\ pc' = [pc EXCEPT ![p] =
              IF op[p] \in Chans /\ ~closed THEN "send" ELSE "runlock"]
  /\ UNCHANGED <<chanVars, handlers, lockVars, op, published, consumerVars>>

(* No room in the channel's buffer. *)
Full(ch) == Len(queue[ch]) >= Cap

(* `mb.inbound <- msg`: into the buffer, or parked while it is full. *)
Send(p) ==
  LET ch == op[p] IN
  /\ pc[p] = "send"
  /\ \/ /\ closed
        /\ pc' = [pc EXCEPT ![p] = "panicked"]
        /\ UNCHANGED <<queue, sendq>>
     \/ /\ ~closed
        /\ ~Full(ch)
        /\ queue' = [queue EXCEPT ![ch] = Append(@, Msg(p))]
        /\ pc' = [pc EXCEPT ![p] = "runlock"]
        /\ UNCHANGED sendq
     \/ /\ ~closed
        /\ Full(ch)
        /\ sendq' = [sendq EXCEPT ![ch] = Append(@, p)]
        /\ pc' = [pc EXCEPT ![p] = "parked"]
        /\ UNCHANGED queue
  /\ UNCHANGED <<closed, handlers, lockVars, op, published, consumerVars>>

(* Who still holds the read lock once p has returned.  (Faulty form: an    *)
(* early return on a closed bus that skips the unlock.)                    *)
KeepWhenClosed(p) == IF closed THEN readers ELSE readers \ {p}
Release(p) == readers \ {p}

(* The deferred mb.mu.RUnlock(), and the return to the caller. *)
RUnlock(p) ==
  /\ pc[p] = "runlock"
  /\ readers' = Release(p)
  /\ pc' = [pc EXCEPT ![p] = "idle"]
  /\ op' = [op EXCEPT ![p] = "none"]
  /\ UNCHANGED <<chanVars, handlers, blocked, writer, published, consumerVars>>

-----------------------------------------------------------------------------
(* Close and RegisterHandler. *)

CallWriter(w, o) ==
  /\ pc[w] = "idle"
  /\ pc' = [pc EXCEPT ![w] = "lock"]
  /\ op' = [op EXCEPT ![w] = o]
  /\ UNCHANGED <<chanVars, handlers, lockVars, published, consumerVars>>

(* First half of mb.mu.Lock(): one writer at a time announces itself. *)
Announce(w) ==
  /\ pc[w] = "lock"
  /\ writer = NoWriter
  /\ writer' = w
  /\ pc' = [pc EXCEPT ![w] = "announced"]
  /\ UNCHANGED <<chanVars, handlers, readers, blocked, op, published, consumerVars>>

(* What a writer waits for.  (Faulty form: nothing, as if Close took no    *)
(* lock against the publishers.)                                           *)
IgnoreReaders == TRUE
NoReaderLeft == readers = {}

(* Second half: it waits until the readers it found have left. *)
Acquire(w) ==
  /\ pc[w] = "announced"
  /\ NoReaderLeft
  /\ pc' = [pc EXCEPT ![w] = "critical"]
  /\ UNCHANGED <<chanVars, handlers, lockVars, op, published, consumerVars>>

(* The readers after a writer has left. *)
LetIn == readers \cup blocked

(* mb.mu.Unlock(): the parked readers are let in. *)
Unlock(w) ==
  /\ writer' = NoWriter
  /\ readers' = LetIn
  /\ blocked' = {}

(* Closing a channel makes the senders parked on it panic. *)
Close(w) ==
  /\ pc[w] = "critical"
  /\ op[w] = "Close"
  /\ closed' = TRUE
  /\ sendq' = [ch \in Chans |-> <<>>]
  /\ pc' = [p \in Procs |-> IF p = w THEN "idle"
                            ELSE IF pc[p] = "parked" THEN "panicked"
                            ELSE IF p \in blocked THEN "check" ELSE pc[p]]
  /\ op' = [op EXCEPT ![w] = "none"]
  /\ Unlock(w)
  /\ UNCHANGED <<queue, handlers, published, consumerVars>>

RegisterHandler(w) ==
  /\ pc[w] = "critical"
  /\ op[w] = "RegisterHandler"
  /\ handlers' = handlers \cup {w}
  /\ pc' = [p \in Procs |-> IF p = w THEN "idle"
                            ELSE IF p \in blocked THEN "check" ELSE pc[p]]
  /\ op' = [op EXCEPT ![w] = "none"]
  /\ Unlock(w)
  /\ UNCHANGED <<chanVars, published, consumerVars>>

-----------------------------------------------------------------------------
(* Consumers: ConsumeInbound and SubscribeOutbound, called in a loop until *)
(* they report that the context has ended.                                 *)

(* The consumer still calls.  (Faulty form: it gives up on a closed bus.)  *)
ConsumingWhileOpen(ch) == ctx[ch] # "returned" /\ ~closed
Consuming(ch) == ctx[ch] # "returned"

(* Nothing is left to receive.  (Faulty form: the closed flag is looked at *)
(* before the buffer.)                                                     *)
FlagFirst(ch) == TRUE
Drained(ch) == queue[ch] = <<>>

(* `case msg := <-ch`: the oldest message; the first parked sender, if     *)
(* there is one, completes its send into the slot that became free.        *)
Receive(ch) ==
  /\ Consuming(ch)
  /\ queue[ch] # <<>>
  /\ delivered' = [delivered EXCEPT ![ch] = Append(@, Head(queue[ch]))]
  /\ IF sendq[ch] = <<>>
     THEN /\ queue' = [queue EXCEPT ![ch] = Tail(@)]
          /\ UNCHANGED <<sendq, pc>>
     ELSE /\ queue' = [queue EXCEPT ![ch] = Append(Tail(@), Msg(Head(sendq[ch])))]
          /\ sendq' = [sendq EXCEPT ![ch] = Tail(@)]
          /\ pc' = [pc EXCEPT ![Head(sendq[ch])] = "runlock"]
  /\ UNCHANGED <<closed, handlers, lockVars, op, published, ctx, zeroed>>

(* The same case on a closed and drained channel: a zero message, with     *)
(* the result `true` like any other.                                       *)
ReceiveZero(ch) ==
  /\ ctx[ch] # "returned"
  /\ closed
  /\ Drained(ch)
  /\ zeroed' = [zeroed EXCEPT ![ch] = TRUE]
  /\ UNCHANGED <<chanVars, handlers, lockVars, pc, op, published, ctx, delivered>>

(* The consumer's context is cancelled. *)
Cancel(ch) ==
  /\ ch \in Stoppable
  /\ ctx[ch] = "live"
  /\ ctx' = [ctx EXCEPT ![ch] = "cancelled"]
  /\ UNCHANGED <<chanVars, handlers, lockVars, pc, op, published, delivered, zeroed>>

(* `case <-ctx.Done()`: the consumer stops consuming. *)
ReturnDone(ch) ==
  /\ ctx[ch] = "cancelled"
  /\ ctx' = [ctx EXCEPT ![ch] = "returned"]
  /\ UNCHANGED <<chanVars, handlers, lockVars, pc, op, published, delivered, zeroed>>

-----------------------------------------------------------------------------

PubStep(p) == RLock(p) \/ Check(p) \/ Send(p) \/ RUnlock(p)
WriteStep(w) == Announce(w) \/ Acquire(w) \/ Close(w) \/ RegisterHandler(w)
Consume(ch) == Receive(ch) \/ ReturnDone(ch)

Next ==
  \/ \E p \in Publishers : PubStep(p) \/ \E o \in PubOps : Call(p, o)
  \/ \E w \in Writers : WriteStep(w) \/ \E o \in WriteOps : CallWriter(w, o)
  \/ \E ch \in Chans : Consume(ch) \/ ReceiveZero(ch) \/ Cancel(ch)

Spec == Init /\ [][Next]_vars

(* Goroutines that are inside the bus keep running, and a consumer whose   *)
(* context is alive keeps calling: AgentLoop.Run and dispatchOutbound are  *)
(* loops around the call.  Nothing obliges anybody to call the bus.  Lock  *)
(* is strongly fair: Go queues the waiting writers and a release hands the *)
(* lock over (sync.Mutex switches to hand-off when a waiter starves).      *)
Fairness ==
  /\ \A p \in Publishers : WF_vars(PubStep(p))
  /\ \A w \in Writers : WF_vars(WriteStep(w)) /\ SF_vars(Announce(w))
  /\ \A ch \in Chans : WF_vars(Receive(ch))

FairSpec == Spec /\ Fairness

-----------------------------------------------------------------------------
(* Properties. *)

PcValues == {"idle", "rlock", "rblocked", "check", "send", "parked", "runlock",
             "panicked", "lock", "announced", "critical"}

(* The type of every variable. *)
TypeOK ==
  /\ queue \in [Chans -> Seq(Message)]
  /\ sendq \in [Chans -> Seq(Publishers)]
  /\ closed \in BOOLEAN
  /\ handlers \subseteq Writers
  /\ readers \subseteq Publishers
  /\ blocked \subseteq Publishers
  /\ writer \in Writers \cup {NoWriter}
  /\ pc \in [Procs -> PcValues]
  /\ op \in [Procs -> PubOps \cup WriteOps \cup {"none"}]
  /\ published \in [Publishers -> 0..MaxPublish]
  /\ ctx \in [Chans -> {"live", "cancelled", "returned"}]
  /\ delivered \in [Chans -> Seq(Message)]
  /\ zeroed \in [Chans -> BOOLEAN]

(* Close never makes a publisher panic, neither one between its check of   *)
(* `closed` and its send nor one parked on a full channel: the read lock   *)
(* held across the blocking send (bus.go:25-30) keeps Close out.           *)
NoSendOnClosedChannel == \A p \in Publishers : pc[p] # "panicked"

(* Neither channel outgrows its capacity, and a publisher is parked only   *)
(* while the channel is full: no wake-up is lost (bus.go:30,48).           *)
ParkedOnlyWhenFull ==
  \A ch \in Chans : /\ Len(queue[ch]) <= Cap
                    /\ sendq[ch] # <<>> => Len(queue[ch]) = Cap

(* A consumer that is handed a zero message (bus.go:35,53 have no `, ok`)  *)
(* has already been handed everything that was ever accepted: closing the  *)
(* bus loses nothing that was published before it.                         *)
ZeroOnlyAfterDrain ==
  \A ch \in Chans : zeroed[ch] => closed /\ queue[ch] = <<>> /\ sendq[ch] = <<>>

(* Everything published on ch and not lost: what the consumer got, the     *)
(* buffer, and the messages of the parked senders.                         *)
Log(ch) == delivered[ch] \o queue[ch]
           \o [i \in 1..Len(sendq[ch]) |-> Msg(sendq[ch][i])]

(* The abstract queue of each direction: open until Close. *)
Inbound == INSTANCE FifoQueue WITH
  log <- Log("inbound"), delivered <- delivered["inbound"], open <- ~closed
Outbound == INSTANCE FifoQueue WITH
  log <- Log("outbound"), delivered <- delivered["outbound"], open <- ~closed

(* Each direction of the bus implements the unbounded FIFO queue: through  *)
(* parked senders, cancelled consumers and Close, what is accepted is      *)
(* handed over in its order, once (bus.go:24-58,73-82).                    *)
BothAreFifo == Inbound!Spec /\ Outbound!Spec

Stopped == \E ch \in Chans : ctx[ch] # "live"

(* While both consumers are served, every call of the bus returns: full    *)
(* channels, parked readers and waiting writers never wait in a circle.    *)
CallsReturn ==
  \A p \in Procs : pc[p] # "idle" ~> (pc[p] = "idle" \/ Stopped)

(* While both consumers are served, every accepted message is handed over, *)
(* also when the bus is closed meanwhile.                                  *)
AcceptedIsDelivered ==
  \A ch \in Chans : \A n \in 1..(MaxPublish * Cardinality(Publishers)) :
    Len(Log(ch)) >= n ~> (Len(delivered[ch]) >= n \/ Stopped)
=============================================================================
