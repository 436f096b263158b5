-------------------------- MODULE MessageBus_proofs --------------------------
(***************************************************************************)
(* Proofs about the message bus, for every number of publishers, writers,  *)
(* every capacity and every number of messages.                            *)
(***************************************************************************)
EXTENDS MessageBus, SequenceTheorems, TLAPS

-----------------------------------------------------------------------------
(* Sequences in three parts: delivered, buffered, waiting. *)

LEMMA AddLast ==
  ASSUME NEW S, NEW d \in Seq(S), NEW q \in Seq(S), NEW w \in Seq(S), NEW m \in S
  PROVE  d \o q \o Append(w, m) = Append(d \o q \o w, m)
<1>1. d \o q \in Seq(S) /\ <<m>> \in Seq(S) OBVIOUS
<1>2. (d \o q) \o w \in Seq(S) BY <1>1
<1>3. Append((d \o q) \o w, m) = ((d \o q) \o w) \o <<m>> BY <1>2, AppendIsConcat
<1>4. Append(w, m) = w \o <<m>> BY AppendIsConcat
<1>5. ((d \o q) \o w) \o <<m>> = (d \o q) \o (w \o <<m>>) BY <1>1, ConcatAssociative
<1> QED BY <1>3, <1>4, <1>5

LEMMA AddBuffered ==
  ASSUME NEW S, NEW d \in Seq(S), NEW q \in Seq(S), NEW m \in S
  PROVE  d \o Append(q, m) \o <<>> = Append(d \o q \o <<>>, m)
<1>1. d \o Append(q, m) \in Seq(S) /\ d \o q \in Seq(S) /\ <<m>> \in Seq(S) OBVIOUS
<1>2. (d \o Append(q, m)) \o <<>> = d \o Append(q, m) BY <1>1, ConcatEmptySeq
<1>3. (d \o q) \o <<>> = d \o q BY <1>1, ConcatEmptySeq
<1>4. Append(q, m) = q \o <<m>> /\ Append(d \o q, m) = (d \o q) \o <<m>>
  BY <1>1, AppendIsConcat
<1>5. d \o (q \o <<m>>) = (d \o q) \o <<m>> BY <1>1, ConcatAssociative
<1> QED BY <1>2, <1>3, <1>4, <1>5

LEMMA TakeFirst ==
  ASSUME NEW S, NEW d \in Seq(S), NEW q \in Seq(S), NEW w \in Seq(S), q # <<>>
  PROVE  Append(d, Head(q)) \o Tail(q) \o w = d \o q \o w
<1>1. Head(q) \in S /\ Tail(q) \in Seq(S) /\ <<Head(q)>> \in Seq(S) OBVIOUS
<1>2. Append(d, Head(q)) = d \o <<Head(q)>> BY <1>1, AppendIsConcat
<1>3. q = <<Head(q)>> \o Tail(q) BY <1>1
<1>4. (d \o <<Head(q)>>) \o Tail(q) = d \o (<<Head(q)>> \o Tail(q))
  BY <1>1, ConcatAssociative
<1> QED BY <1>2, <1>3, <1>4

LEMMA Assoc ==
  ASSUME NEW S, NEW e \in Seq(S), NEW t \in Seq(S), NEW y \in Seq(S)
  PROVE  e \o (t \o y) = (e \o t) \o y
BY ConcatAssociative

LEMMA NextIsFirst ==
  ASSUME NEW S, NEW d \in Seq(S), NEW q \in Seq(S), NEW w \in Seq(S), q # <<>>
  PROVE  Len(d) < Len(d \o q \o w) /\ (d \o q \o w)[Len(d) + 1] = Head(q)
OBVIOUS

-----------------------------------------------------------------------------
(* What the read lock held across a send buys: whoever stands between its  *)
(* check and the end of its send holds the lock and has seen the bus open, *)
(* and a writer in its critical section is alone.                          *)
LockInv ==
  /\ \A p \in Publishers : pc[p] \in {"check", "send", "parked"} => p \in readers
  /\ \A p \in Publishers : pc[p] \in {"send", "parked"} => ~closed /\ op[p] \in Chans
  /\ \A w \in Writers : pc[w] \in {"announced", "critical"} => writer = w
  /\ \A w \in Writers : pc[w] = "critical" => readers = {}

(* The inductive invariant. *)
BusInv == TypeOK /\ LockInv /\ NoSendOnClosedChannel
          /\ ParkedOnlyWhenFull /\ ZeroOnlyAfterDrain

USE DEF Procs, Chans, PubOps, WriteOps, PcValues,
        Full, Release, NoReaderLeft, LetIn, Consuming, Drained

LEMMA BusInvInit == Init => BusInv
<1> SUFFICES ASSUME Init PROVE BusInv
  OBVIOUS
<1> USE PublishersAssumption, CapAssumption, MaxPublishAssumption DEF Init
<1>1. TypeOK
  <2>1. queue \in [Chans -> Seq(Message)] /\ delivered \in [Chans -> Seq(Message)]
    BY EmptySeq
  <2>2. sendq \in [Chans -> Seq(Publishers)]
    BY EmptySeq
  <2>3. pc \in [Procs -> PcValues] /\ op \in [Procs -> PubOps \cup WriteOps \cup {"none"}]
    OBVIOUS
  <2>4. published \in [Publishers -> 0..MaxPublish]
    OBVIOUS
  <2>5. zeroed \in [Chans -> BOOLEAN] /\ ctx \in [Chans -> {"live", "cancelled", "returned"}]
    OBVIOUS
  <2> QED
    BY <2>1, <2>2, <2>3, <2>4, <2>5 DEF TypeOK
<1>2. LockInv /\ NoSendOnClosedChannel
  BY DEF LockInv, NoSendOnClosedChannel
<1>3. ParkedOnlyWhenFull /\ ZeroOnlyAfterDrain
  BY DEF ParkedOnlyWhenFull, ZeroOnlyAfterDrain
<1> QED
  BY <1>1, <1>2, <1>3 DEF BusInv

(* The message a publisher is busy with is a message. *)
LEMMA MsgType ==
  ASSUME TypeOK, NEW p \in Publishers
  PROVE  Msg(p) \in Message
  BY MaxPublishAssumption DEF TypeOK, Msg, Message

LEMMA CallStep ==
  ASSUME BusInv, NEW p \in Publishers, NEW o \in PubOps, Call(p, o)
  PROVE  BusInv'
<1> USE PublishersAssumption, CapAssumption, MaxPublishAssumption DEF BusInv, Call,
        chanVars, lockVars, consumerVars
<1>1. TypeOK'
  <2>1. published' \in [Publishers -> 0..MaxPublish]
    <3>1. CASE o \in Chans
      <4>1. published[p] + 1 \in 0..MaxPublish
        BY <3>1 DEF TypeOK
      <4> QED
        BY <3>1, <4>1 DEF TypeOK
    <3>2. CASE o = "GetHandler"
      BY <3>2 DEF TypeOK
    <3> QED
      BY <3>1, <3>2
  <2> QED
    BY <2>1 DEF TypeOK
<1>2. LockInv'
  BY DEF TypeOK, LockInv
<1>3. NoSendOnClosedChannel'
  BY DEF TypeOK, LockInv, NoSendOnClosedChannel
<1>4. ParkedOnlyWhenFull'
  BY DEF TypeOK, ParkedOnlyWhenFull
<1>5. ZeroOnlyAfterDrain'
  BY DEF TypeOK, LockInv, ZeroOnlyAfterDrain
<1> QED
  BY <1>1, <1>2, <1>3, <1>4, <1>5

LEMMA RLockStep ==
  ASSUME BusInv, NEW p \in Publishers, RLock(p)
  PROVE  BusInv'
<1> USE PublishersAssumption, CapAssumption, MaxPublishAssumption DEF BusInv, RLock,
        chanVars, lockVars, consumerVars
<1>1. TypeOK'
  BY DEF TypeOK
<1>2. LockInv'
  <2>1. CASE writer = NoWriter
    <3>1. \A w \in Writers : pc'[w] \notin {"announced", "critical"}
      BY <2>1 DEF TypeOK, LockInv
    <3> QED
      BY <2>1, <3>1 DEF TypeOK, LockInv
  <2>2. CASE writer # NoWriter
    <3>1. /\ pc' = [pc EXCEPT ![p] = "rblocked"]
          /\ UNCHANGED <<readers, writer, closed, op>>
      BY <2>2
    <3>2. \A q \in Publishers : pc'[q] \in {"check", "send", "parked"} => pc'[q] = pc[q]
      BY <3>1 DEF TypeOK
    <3>3. \A w \in Writers : pc'[w] = pc[w]
      BY <3>1 DEF TypeOK
    <3> HIDE DEF RLock
    <3> QED
      BY <3>1, <3>2, <3>3 DEF LockInv
  <2> QED
    BY <2>1, <2>2
<1>3. NoSendOnClosedChannel'
  BY DEF TypeOK, LockInv, NoSendOnClosedChannel
<1>4. ParkedOnlyWhenFull'
  BY DEF TypeOK, ParkedOnlyWhenFull
<1>5. ZeroOnlyAfterDrain'
  BY DEF TypeOK, LockInv, ZeroOnlyAfterDrain
<1> QED
  BY <1>1, <1>2, <1>3, <1>4, <1>5

LEMMA CheckStep ==
  ASSUME BusInv, NEW p \in Publishers, Check(p)
  PROVE  BusInv'
<1> USE PublishersAssumption, CapAssumption, MaxPublishAssumption DEF BusInv, Check,
        chanVars, lockVars, consumerVars
<1>1. TypeOK'
  BY DEF TypeOK
<1>2. LockInv'
  BY DEF TypeOK, LockInv
<1>3. NoSendOnClosedChannel'
  BY DEF TypeOK, LockInv, NoSendOnClosedChannel
<1>4. ParkedOnlyWhenFull'
  BY DEF TypeOK, ParkedOnlyWhenFull
<1>5. ZeroOnlyAfterDrain'
  BY DEF TypeOK, LockInv, ZeroOnlyAfterDrain
<1> QED
  BY <1>1, <1>2, <1>3, <1>4, <1>5

LEMMA SendStep ==
  ASSUME BusInv, NEW p \in Publishers, Send(p)
  PROVE  BusInv'
<1> USE PublishersAssumption, CapAssumption, MaxPublishAssumption DEF BusInv, Send,
        chanVars, lockVars, consumerVars
<1>1. TypeOK'
  <2>1. op[p] \in Chans /\ ~closed
    BY DEF LockInv
  <2>2. Msg(p) \in Message
    BY MsgType
  <2>3. queue' \in [Chans -> Seq(Message)] /\ sendq' \in [Chans -> Seq(Publishers)]
    <3>1. /\ queue[op[p]] \in Seq(Message)
          /\ sendq[op[p]] \in Seq(Publishers)
      BY <2>1 DEF TypeOK
    <3>2. /\ Append(queue[op[p]], Msg(p)) \in Seq(Message)
          /\ Append(sendq[op[p]], p) \in Seq(Publishers)
      BY <2>2, <3>1, AppendProperties
    <3>3. \/ UNCHANGED queue
          \/ queue' = [queue EXCEPT ![op[p]] = Append(queue[op[p]], Msg(p))]
      OBVIOUS
    <3>4. \/ UNCHANGED sendq
          \/ sendq' = [sendq EXCEPT ![op[p]] = Append(sendq[op[p]], p)]
      OBVIOUS
    <3>0. TypeOK
      OBVIOUS
    <3> HIDE DEF Send, BusInv
    <3>5. queue' \in [Chans -> Seq(Message)]
      BY <3>0, <3>2, <3>3 DEF TypeOK
    <3>6. sendq' \in [Chans -> Seq(Publishers)]
      BY <3>0, <2>1, <3>2, <3>4 DEF TypeOK
    <3> QED
      BY <3>5, <3>6
  <2>4. pc' \in [Procs -> PcValues]
    BY DEF TypeOK
  <2> QED
    BY <2>3, <2>4 DEF TypeOK
<1>2. LockInv'
  BY DEF TypeOK, LockInv
<1>3. NoSendOnClosedChannel'
  BY DEF TypeOK, LockInv, NoSendOnClosedChannel
<1>4. ParkedOnlyWhenFull'
  
  <2>1. op[p] \in Chans /\ ~closed
    BY DEF LockInv
  <2>2. Msg(p) \in Message
    BY MsgType
  <2> SUFFICES ASSUME NEW ch \in Chans
               PROVE  Len(queue'[ch]) <= Cap /\ (sendq'[ch] # <<>> => Len(queue'[ch]) = Cap)
    BY DEF ParkedOnlyWhenFull
  <2>3. queue[ch] \in Seq(Message) /\ Len(queue[ch]) \in Nat
    BY DEF TypeOK
  <2>4. CASE Len(queue[op[p]]) < Cap
    <3>1. CASE ch = op[p]
      <4>1. queue'[ch] = Append(queue[ch], Msg(p)) /\ sendq'[ch] = sendq[ch]
        BY <2>1, <2>4, <3>1 DEF TypeOK
      <4>2. Len(queue'[ch]) = Len(queue[ch]) + 1
        BY <2>2, <2>3, <4>1, AppendProperties
      <4> QED
        BY <2>3, <2>4, <3>1, <4>1, <4>2 DEF ParkedOnlyWhenFull
    <3>2. CASE ch # op[p]
      BY <2>1, <2>4, <3>2 DEF TypeOK, ParkedOnlyWhenFull
    <3> QED
      BY <3>1, <3>2
  <2>5. CASE Len(queue[op[p]]) >= Cap
    <3>1. Full(op[p]) /\ UNCHANGED queue
          /\ sendq' = [sendq EXCEPT ![op[p]] = Append(sendq[op[p]], p)]
      BY <2>1, <2>5
    <3>2. CASE ch = op[p]
      BY <2>3, <2>5, <3>1, <3>2 DEF ParkedOnlyWhenFull
    <3>3. CASE ch # op[p]
      BY <2>3, <3>1, <3>3 DEF TypeOK, ParkedOnlyWhenFull
    <3> QED
      BY <3>2, <3>3
  <2> QED
    BY <2>1, <2>4, <2>5 DEF TypeOK
<1>5. ZeroOnlyAfterDrain'
  BY DEF TypeOK, LockInv, ZeroOnlyAfterDrain
<1> QED
  BY <1>1, <1>2, <1>3, <1>4, <1>5

LEMMA RUnlockStep ==
  ASSUME BusInv, NEW p \in Publishers, RUnlock(p)
  PROVE  BusInv'
<1> USE PublishersAssumption, CapAssumption, MaxPublishAssumption DEF BusInv, RUnlock,
        chanVars, lockVars, consumerVars
<1>1. TypeOK'
  BY DEF TypeOK
<1>2. LockInv'
  BY DEF TypeOK, LockInv
<1>3. NoSendOnClosedChannel'
  BY DEF TypeOK, LockInv, NoSendOnClosedChannel
<1>4. ParkedOnlyWhenFull'
  BY DEF TypeOK, ParkedOnlyWhenFull
<1>5. ZeroOnlyAfterDrain'
  BY DEF TypeOK, LockInv, ZeroOnlyAfterDrain
<1> QED
  BY <1>1, <1>2, <1>3, <1>4, <1>5

LEMMA CallWriterStep ==
  ASSUME BusInv, NEW w \in Writers, NEW o \in WriteOps, CallWriter(w, o)
  PROVE  BusInv'
<1> USE PublishersAssumption, CapAssumption, MaxPublishAssumption DEF BusInv, CallWriter,
        chanVars, lockVars, consumerVars
<1>1. TypeOK'
  BY DEF TypeOK
<1>2. LockInv'
  BY DEF TypeOK, LockInv
<1>3. NoSendOnClosedChannel'
  BY DEF TypeOK, LockInv, NoSendOnClosedChannel
<1>4. ParkedOnlyWhenFull'
  BY DEF TypeOK, ParkedOnlyWhenFull
<1>5. ZeroOnlyAfterDrain'
  BY DEF TypeOK, LockInv, ZeroOnlyAfterDrain
<1> QED
  BY <1>1, <1>2, <1>3, <1>4, <1>5

LEMMA AnnounceStep ==
  ASSUME BusInv, NEW w \in Writers, Announce(w)
  PROVE  BusInv'
<1> USE PublishersAssumption, CapAssumption, MaxPublishAssumption DEF BusInv, Announce,
        chanVars, lockVars, consumerVars
<1>1. TypeOK'
  BY DEF TypeOK
<1>2. LockInv'
  BY DEF TypeOK, LockInv
<1>3. NoSendOnClosedChannel'
  BY DEF TypeOK, LockInv, NoSendOnClosedChannel
<1>4. ParkedOnlyWhenFull'
  BY DEF TypeOK, ParkedOnlyWhenFull
<1>5. ZeroOnlyAfterDrain'
  BY DEF TypeOK, LockInv, ZeroOnlyAfterDrain
<1> QED
  BY <1>1, <1>2, <1>3, <1>4, <1>5

LEMMA AcquireStep ==
  ASSUME BusInv, NEW w \in Writers, Acquire(w)
  PROVE  BusInv'
<1> USE PublishersAssumption, CapAssumption, MaxPublishAssumption DEF BusInv, Acquire,
        chanVars, lockVars, consumerVars
<1>1. TypeOK'
  BY DEF TypeOK
<1>2. LockInv'
  BY DEF TypeOK, LockInv
<1>3. NoSendOnClosedChannel'
  BY DEF TypeOK, LockInv, NoSendOnClosedChannel
<1>4. ParkedOnlyWhenFull'
  BY DEF TypeOK, ParkedOnlyWhenFull
<1>5. ZeroOnlyAfterDrain'
  BY DEF TypeOK, LockInv, ZeroOnlyAfterDrain
<1> QED
  BY <1>1, <1>2, <1>3, <1>4, <1>5

LEMMA CloseStep ==
  ASSUME BusInv, NEW w \in Writers, Close(w)
  PROVE  BusInv'
<1> USE PublishersAssumption, CapAssumption, MaxPublishAssumption DEF BusInv, Close, Unlock,
        chanVars, lockVars, consumerVars
<1>1. TypeOK'
  BY DEF TypeOK
<1>2. LockInv'
  BY DEF TypeOK, LockInv
<1>3. NoSendOnClosedChannel'
  BY DEF TypeOK, LockInv, NoSendOnClosedChannel
<1>4. ParkedOnlyWhenFull'
  BY DEF TypeOK, ParkedOnlyWhenFull
<1>5. ZeroOnlyAfterDrain'
  BY DEF TypeOK, LockInv, ZeroOnlyAfterDrain
<1> QED
  BY <1>1, <1>2, <1>3, <1>4, <1>5

LEMMA RegisterHandlerStep ==
  ASSUME BusInv, NEW w \in Writers, RegisterHandler(w)
  PROVE  BusInv'
<1> USE PublishersAssumption, CapAssumption, MaxPublishAssumption DEF BusInv, RegisterHandler, Unlock,
        chanVars, lockVars, consumerVars
<1>1. TypeOK'
  BY DEF TypeOK
<1>2. LockInv'
  BY DEF TypeOK, LockInv
<1>3. NoSendOnClosedChannel'
  BY DEF TypeOK, LockInv, NoSendOnClosedChannel
<1>4. ParkedOnlyWhenFull'
  BY DEF TypeOK, ParkedOnlyWhenFull
<1>5. ZeroOnlyAfterDrain'
  BY DEF TypeOK, LockInv, ZeroOnlyAfterDrain
<1> QED
  BY <1>1, <1>2, <1>3, <1>4, <1>5

LEMMA ReceiveStep ==
  ASSUME BusInv, NEW ch \in Chans, Receive(ch)
  PROVE  BusInv'
<1> USE PublishersAssumption, CapAssumption, MaxPublishAssumption DEF BusInv, Receive,
        chanVars, lockVars, consumerVars
<1> DEFINE q == queue[ch]
           s == Head(sendq[ch])
<1>1. /\ q \in Seq(Message) /\ q # <<>> /\ Len(q) \in Nat \ {0}
      /\ Head(q) \in Message /\ Tail(q) \in Seq(Message) /\ Len(Tail(q)) = Len(q) - 1
  BY EmptySeq, HeadTailProperties DEF TypeOK
<1>2. delivered' \in [Chans -> Seq(Message)]
  BY <1>1, AppendProperties DEF TypeOK
<1>3. CASE sendq[ch] = <<>>
  <2>1. queue' = [queue EXCEPT ![ch] = Tail(q)] /\ UNCHANGED <<sendq, pc>>
    BY <1>3
  <2>2. TypeOK'
    BY <1>1, <1>2, <2>1 DEF TypeOK
  <2>3. LockInv' /\ NoSendOnClosedChannel'
    BY <2>1 DEF LockInv, NoSendOnClosedChannel
  <2>4. ParkedOnlyWhenFull'
    BY <1>1, <1>3, <2>1 DEF TypeOK, ParkedOnlyWhenFull
  <2>5. ZeroOnlyAfterDrain'
    BY <1>1, <2>1 DEF TypeOK, ZeroOnlyAfterDrain
  <2> QED
    BY <2>2, <2>3, <2>4, <2>5
<1>4. CASE sendq[ch] # <<>>
  <2>1. /\ queue' = [queue EXCEPT ![ch] = Append(Tail(q), Msg(s))]
        /\ sendq' = [sendq EXCEPT ![ch] = Tail(sendq[ch])]
        /\ pc' = [pc EXCEPT ![s] = "runlock"]
    BY <1>4
  <2>2. s \in Publishers /\ Tail(sendq[ch]) \in Seq(Publishers)
    BY <1>4, HeadTailProperties DEF TypeOK
  <2>3. Msg(s) \in Message
    BY <2>2, MsgType
  <2>4. /\ Append(Tail(q), Msg(s)) \in Seq(Message)
        /\ Len(Append(Tail(q), Msg(s))) = Len(q)
    BY <1>1, <2>3, AppendProperties
  <2>5. TypeOK'
    BY <1>2, <2>1, <2>2, <2>4 DEF TypeOK
  <2>6. LockInv' /\ NoSendOnClosedChannel'
    BY <2>1, <2>2 DEF TypeOK, LockInv, NoSendOnClosedChannel
  <2>7. ParkedOnlyWhenFull'
    <3> SUFFICES ASSUME NEW c \in Chans
                 PROVE  Len(queue'[c]) <= Cap /\ (sendq'[c] # <<>> => Len(queue'[c]) = Cap)
      BY DEF ParkedOnlyWhenFull
    <3>1. CASE c = ch
      BY <1>4, <2>1, <2>4, <3>1 DEF TypeOK, ParkedOnlyWhenFull
    <3>2. CASE c # ch
      BY <2>1, <3>2 DEF TypeOK, ParkedOnlyWhenFull
    <3> QED
      BY <3>1, <3>2
  <2>8. ZeroOnlyAfterDrain'
    BY <1>1, <2>1 DEF TypeOK, ZeroOnlyAfterDrain
  <2> QED
    BY <2>5, <2>6, <2>7, <2>8
<1> QED
  BY <1>3, <1>4

LEMMA ReceiveZeroStep ==
  ASSUME BusInv, NEW ch \in Chans, ReceiveZero(ch)
  PROVE  BusInv'
<1> USE PublishersAssumption, CapAssumption, MaxPublishAssumption DEF BusInv, ReceiveZero,
        chanVars, lockVars, consumerVars
<1>1. TypeOK'
  BY DEF TypeOK
<1>2. LockInv'
  BY DEF TypeOK, LockInv
<1>3. NoSendOnClosedChannel'
  BY DEF TypeOK, LockInv, NoSendOnClosedChannel
<1>4. ParkedOnlyWhenFull'
  BY DEF TypeOK, ParkedOnlyWhenFull
<1>5. ZeroOnlyAfterDrain'
  BY DEF TypeOK, ParkedOnlyWhenFull, ZeroOnlyAfterDrain
<1> QED
  BY <1>1, <1>2, <1>3, <1>4, <1>5

LEMMA CancelStep ==
  ASSUME BusInv, NEW ch \in Chans, Cancel(ch)
  PROVE  BusInv'
<1> USE PublishersAssumption, CapAssumption, MaxPublishAssumption DEF BusInv, Cancel,
        chanVars, lockVars, consumerVars
<1>1. TypeOK'
  BY DEF TypeOK
<1>2. LockInv'
  BY DEF TypeOK, LockInv
<1>3. NoSendOnClosedChannel'
  BY DEF TypeOK, LockInv, NoSendOnClosedChannel
<1>4. ParkedOnlyWhenFull'
  BY DEF TypeOK, ParkedOnlyWhenFull
<1>5. ZeroOnlyAfterDrain'
  BY DEF TypeOK, LockInv, ZeroOnlyAfterDrain
<1> QED
  BY <1>1, <1>2, <1>3, <1>4, <1>5

LEMMA ReturnDoneStep ==
  ASSUME BusInv, NEW ch \in Chans, ReturnDone(ch)
  PROVE  BusInv'
<1> USE PublishersAssumption, CapAssumption, MaxPublishAssumption DEF BusInv, ReturnDone,
        chanVars, lockVars, consumerVars
<1>1. TypeOK'
  BY DEF TypeOK
<1>2. LockInv'
  BY DEF TypeOK, LockInv
<1>3. NoSendOnClosedChannel'
  BY DEF TypeOK, LockInv, NoSendOnClosedChannel
<1>4. ParkedOnlyWhenFull'
  BY DEF TypeOK, ParkedOnlyWhenFull
<1>5. ZeroOnlyAfterDrain'
  BY DEF TypeOK, LockInv, ZeroOnlyAfterDrain
<1> QED
  BY <1>1, <1>2, <1>3, <1>4, <1>5

LEMMA BusInvStep == BusInv /\ [Next]_vars => BusInv'
<1> SUFFICES ASSUME BusInv, [Next]_vars PROVE BusInv'
  OBVIOUS
<1>1. CASE UNCHANGED vars
  BY <1>1 DEF BusInv, vars, TypeOK, LockInv, NoSendOnClosedChannel,
              ParkedOnlyWhenFull, ZeroOnlyAfterDrain
<1>2. ASSUME NEW p \in Publishers, PubStep(p) PROVE BusInv'
  BY <1>2, RLockStep, CheckStep, SendStep, RUnlockStep DEF PubStep
<1>3. ASSUME NEW p \in Publishers, NEW o \in PubOps, Call(p, o) PROVE BusInv'
  BY <1>3, CallStep
<1>4. ASSUME NEW w \in Writers, WriteStep(w) PROVE BusInv'
  BY <1>4, AnnounceStep, AcquireStep, CloseStep, RegisterHandlerStep DEF WriteStep
<1>5. ASSUME NEW w \in Writers, NEW o \in WriteOps, CallWriter(w, o) PROVE BusInv'
  BY <1>5, CallWriterStep
<1>6. ASSUME NEW ch \in Chans, Consume(ch) \/ ReceiveZero(ch) \/ Cancel(ch) PROVE BusInv'
  BY <1>6, ReceiveStep, ReturnDoneStep, ReceiveZeroStep, CancelStep DEF Consume
<1> QED
  BY <1>1, <1>2, <1>3, <1>4, <1>5, <1>6 DEF Next

THEOREM BusInvariant == Spec => []BusInv
<1> QED
  BY BusInvInit, BusInvStep, PTL DEF Spec

(* Every variable keeps its type. *)
THEOREM TypeCorrect == Spec => []TypeOK
<1>1. BusInv => TypeOK
  BY DEF BusInv
<1> QED
  BY <1>1, BusInvariant, PTL

(* However publishers, Close and RegisterHandler interleave, no publisher  *)
(* sends on a closed channel (bus.go:24-31,42-49 against bus.go:73-82).    *)
THEOREM NoPanic == Spec => []NoSendOnClosedChannel
<1>1. BusInv => NoSendOnClosedChannel
  BY DEF BusInv
<1> QED
  BY <1>1, BusInvariant, PTL

(* The channels respect their capacity, and publishers are parked on them  *)
(* only while they are full (bus.go:18-19,30,48).                          *)
THEOREM Parked == Spec => []ParkedOnlyWhenFull
<1>1. BusInv => ParkedOnlyWhenFull
  BY DEF BusInv
<1> QED
  BY <1>1, BusInvariant, PTL

(* A consumer that is handed a zero message has been handed everything     *)
(* that was accepted (bus.go:33-40,51-58 against bus.go:73-82).            *)
THEOREM DrainedBeforeZero == Spec => []ZeroOnlyAfterDrain
<1>1. BusInv => ZeroOnlyAfterDrain
  BY DEF BusInv
<1> QED
  BY <1>1, BusInvariant, PTL

-----------------------------------------------------------------------------
(* The parked senders of a channel are parked there, each once: whoever is *)
(* parked begins no other publication.                                     *)
WaitInv ==
  \A ch \in Chans :
    /\ \A i \in 1..Len(sendq[ch]) : pc[sendq[ch][i]] = "parked" /\ op[sendq[ch][i]] = ch
    /\ \A i, j \in 1..Len(sendq[ch]) : sendq[ch][i] = sendq[ch][j] => i = j

Waiting(ch) == [i \in 1..Len(sendq[ch]) |-> Msg(sendq[ch][i])]

(* One step of one direction, as the queue of FifoQueue sees it. *)
Unseen(ch) == UNCHANGED <<Log(ch), delivered[ch], closed>>
Accepts(ch) == /\ ~closed
               /\ \E m \in Message : Log(ch)' = Append(Log(ch), m)
               /\ UNCHANGED <<delivered[ch], closed>>
Delivers(ch) == /\ Len(delivered[ch]) < Len(Log(ch))
                /\ delivered'[ch] = Append(delivered[ch], Log(ch)[Len(delivered[ch]) + 1])
                /\ UNCHANGED <<Log(ch), closed>>
Shuts(ch) == ~closed /\ closed' /\ UNCHANGED <<Log(ch), delivered[ch]>>
FifoStep(ch) == Unseen(ch) \/ Accepts(ch) \/ Delivers(ch) \/ Shuts(ch)

LEMMA WaitingType ==
  ASSUME TypeOK, NEW ch \in Chans
  PROVE  /\ Waiting(ch) \in Seq(Message) /\ Len(Waiting(ch)) = Len(sendq[ch])
         /\ queue[ch] \in Seq(Message) /\ delivered[ch] \in Seq(Message)
         /\ sendq[ch] \in Seq(Publishers) /\ Len(sendq[ch]) \in Nat
<1>1. sendq[ch] \in Seq(Publishers) /\ Len(sendq[ch]) \in Nat BY DEF TypeOK
<1>2. \A i \in 1..Len(sendq[ch]) : sendq[ch][i] \in Publishers BY <1>1
<1>3. \A i \in 1..Len(sendq[ch]) : Msg(sendq[ch][i]) \in Message BY <1>2, MsgType
<1>4. Waiting(ch) \in Seq(Message) /\ Len(Waiting(ch)) = Len(sendq[ch])
  BY <1>1, <1>3 DEF Waiting
<1> QED BY <1>1, <1>4 DEF TypeOK

LEMMA LogIs == ASSUME NEW ch \in Chans
               PROVE  Log(ch) = delivered[ch] \o queue[ch] \o Waiting(ch)
BY DEF Log, Waiting

(* Nobody is parked while a writer is in its critical section. *)
LEMMA NobodyParked ==
  ASSUME BusInv, WaitInv, NEW w \in Writers, pc[w] = "critical", NEW ch \in Chans
  PROVE  sendq[ch] = <<>>
<1>1. TypeOK /\ LockInv BY DEF BusInv
<1>2. \A p \in Publishers : pc[p] # "parked" BY <1>1 DEF LockInv
<1>3. sendq[ch] \in Seq(Publishers) BY <1>1 DEF TypeOK
<1>4. CASE sendq[ch] # <<>>
  <2>1. 1 \in 1..Len(sendq[ch]) /\ sendq[ch][1] \in Publishers BY <1>3, <1>4
  <2>2. pc[sendq[ch][1]] = "parked" BY <2>1 DEF WaitInv
  <2> QED BY <1>2, <2>1, <2>2
<1> QED BY <1>4

(* A step that parks nobody and lets nobody go. *)
LEMMA ParkedKept ==
  ASSUME TypeOK, WaitInv, UNCHANGED <<sendq, queue, delivered>>,
         \A p \in Publishers : pc[p] = "parked" =>
           pc'[p] = "parked" /\ op'[p] = op[p] /\ published'[p] = published[p]
  PROVE  WaitInv' /\ \A ch \in Chans : UNCHANGED <<Log(ch), delivered[ch]>>
<1>1. ASSUME NEW ch \in Chans, NEW i \in 1..Len(sendq[ch])
      PROVE  /\ sendq[ch][i] \in Publishers
             /\ pc[sendq[ch][i]] = "parked" /\ op[sendq[ch][i]] = ch
  <2>1. sendq[ch] \in Seq(Publishers) BY DEF TypeOK
  <2> QED BY <1>1, <2>1 DEF WaitInv
<1>2. WaitInv' BY <1>1 DEF WaitInv
<1>3. ASSUME NEW ch \in Chans PROVE Waiting(ch)' = Waiting(ch)
  BY <1>1 DEF Waiting, Msg
<1>4. ASSUME NEW ch \in Chans PROVE UNCHANGED <<Log(ch), delivered[ch]>>
  BY <1>3 DEF Log, Waiting
<1> QED BY <1>2, <1>4

LEMMA SendFifo ==
  ASSUME BusInv, WaitInv, NEW p \in Publishers, Send(p), NEW ch \in Chans
  PROVE  FifoStep(ch) /\ WaitInv'
<1>0. TypeOK /\ LockInv /\ ParkedOnlyWhenFull BY DEF BusInv
<1> DEFINE o == op[p]
           m == Msg(p)
<1>1. pc[p] = "send" /\ o \in Chans /\ ~closed /\ m \in Message
  BY <1>0, MsgType DEF Send, LockInv
<1>2. UNCHANGED <<closed, op, published, delivered>> BY DEF Send, consumerVars
<1>3. \A c \in Chans : \A i \in 1..Len(sendq[c]) :
        /\ sendq[c][i] \in Publishers /\ sendq[c][i] # p
        /\ pc[sendq[c][i]] = "parked" /\ op[sendq[c][i]] = c
  <2> SUFFICES ASSUME NEW c \in Chans, NEW i \in 1..Len(sendq[c])
               PROVE  /\ sendq[c][i] \in Publishers /\ sendq[c][i] # p
                      /\ pc[sendq[c][i]] = "parked" /\ op[sendq[c][i]] = c
    OBVIOUS
  <2>1. sendq[c] \in Seq(Publishers) BY <1>0 DEF TypeOK
  <2>2. pc[sendq[c][i]] = "parked" /\ op[sendq[c][i]] = c BY DEF WaitInv
  <2> QED BY <1>1, <2>1, <2>2
<1>4. \A c \in Chans : /\ delivered[c] \in Seq(Message) /\ queue[c] \in Seq(Message)
                       /\ Waiting(c) \in Seq(Message) /\ sendq[c] \in Seq(Publishers)
                       /\ Len(sendq[c]) \in Nat
  BY <1>0, WaitingType
<1>5. CASE ~Full(o)
  <2>1. /\ queue' = [queue EXCEPT ![o] = Append(queue[o], m)] /\ UNCHANGED sendq
        /\ pc' = [pc EXCEPT ![p] = "runlock"]
    BY <1>1, <1>5 DEF Send
  <2>2. WaitInv'
    <3>1. \A q \in Publishers : q # p => pc'[q] = pc[q] BY <1>0, <2>1 DEF TypeOK
    <3>2. \A c \in Chans : \A i, j \in 1..Len(sendq[c]) : sendq[c][i] = sendq[c][j] => i = j
      BY DEF WaitInv
    <3>3. \A c \in Chans : \A i \in 1..Len(sendq[c]) :
            pc'[sendq[c][i]] = "parked" /\ op'[sendq[c][i]] = c
      BY <1>2, <1>3, <3>1
    <3> QED BY <2>1, <3>2, <3>3 DEF WaitInv
  <2>3. Waiting(ch)' = Waiting(ch) BY <1>2, <2>1 DEF Waiting, Msg
  <2>4. CASE ch # o
    <3>1. queue'[ch] = queue[ch] BY <1>0, <2>1, <2>4 DEF TypeOK
    <3> QED BY <1>2, <2>2, <2>3, <3>1 DEF FifoStep, Unseen, Log, Waiting
  <2>5. CASE ch = o
    <3>1. queue'[ch] = Append(queue[ch], m) BY <1>0, <2>1, <2>5 DEF TypeOK
    <3>2. Len(queue[ch]) < Cap BY <1>4, <1>5, <2>5, CapAssumption
    <3>3. sendq[ch] = <<>> BY <1>0, <3>2 DEF ParkedOnlyWhenFull
    <3>4. Waiting(ch) = <<>> BY <3>3 DEF Waiting
    <3>5. Log(ch) = delivered[ch] \o queue[ch] \o <<>> BY <3>4 DEF Log, Waiting
    <3>6. Log(ch)' = delivered[ch] \o Append(queue[ch], m) \o <<>>
      BY <1>2, <2>3, <3>1, <3>4 DEF Log, Waiting
    <3>7. Log(ch)' = Append(Log(ch), m)
      <4> DEFINE d == delivered[ch]
                 b == queue[ch]
      <4>1. d \in Seq(Message) /\ b \in Seq(Message) BY <1>4
      <4> HIDE DEF m, d, b
      <4>2. d \o Append(b, m) \o <<>> = Append(d \o b \o <<>>, m)
        BY <1>1, <4>1, AddBuffered
      <4> QED BY <3>5, <3>6, <4>2 DEF d, b
    <3> QED BY <1>1, <1>2, <2>2, <3>7 DEF FifoStep, Accepts
  <2> QED BY <2>4, <2>5
<1>6. CASE Full(o)
  <2>1. /\ sendq' = [sendq EXCEPT ![o] = Append(sendq[o], p)] /\ UNCHANGED queue
        /\ pc' = [pc EXCEPT ![p] = "parked"]
    BY <1>1, <1>6 DEF Send
  <2>2. /\ sendq'[o] = Append(sendq[o], p) /\ pc'[p] = "parked"
        /\ \A c \in Chans : c # o => sendq'[c] = sendq[c]
        /\ \A q \in Publishers : q # p => pc'[q] = pc[q]
    BY <1>0, <1>1, <2>1 DEF TypeOK
  <2>3. /\ Len(sendq'[o]) = Len(sendq[o]) + 1
        /\ \A i \in 1..Len(sendq'[o]) :
             sendq'[o][i] = IF i = Len(sendq[o]) + 1 THEN p ELSE sendq[o][i]
    <3>1. sendq[o] \in Seq(Publishers) BY <1>1, <1>4
    <3> QED BY <2>2, <3>1, AppendProperties
  <2>4. WaitInv'
    <3> SUFFICES ASSUME NEW c \in Chans
                 PROVE  /\ \A i \in 1..Len(sendq'[c]) :
                             pc'[sendq'[c][i]] = "parked" /\ op'[sendq'[c][i]] = c
                        /\ \A i, j \in 1..Len(sendq'[c]) :
                             sendq'[c][i] = sendq'[c][j] => i = j
      BY DEF WaitInv
    <3>1. CASE c # o
      <4>1. sendq'[c] = sendq[c] BY <2>2, <3>1
      <4>2. \A i \in 1..Len(sendq[c]) : pc'[sendq[c][i]] = "parked" /\ op'[sendq[c][i]] = c
        BY <1>2, <1>3, <2>2
      <4>3. \A i, j \in 1..Len(sendq[c]) : sendq[c][i] = sendq[c][j] => i = j
        BY DEF WaitInv
      <4> QED BY <4>1, <4>2, <4>3
    <3>2. CASE c = o
      <4>1. Len(sendq[o]) \in Nat BY <1>1, <1>4
      <4>2. \A i \in 1..Len(sendq'[o]) :
              pc'[sendq'[o][i]] = "parked" /\ op'[sendq'[o][i]] = o
        BY <1>1, <1>2, <1>3, <2>2, <2>3, <4>1
      <4>3. \A i, j \in 1..Len(sendq[o]) : sendq[o][i] = sendq[o][j] => i = j
        BY <1>1 DEF WaitInv
      <4>4. \A i, j \in 1..Len(sendq'[o]) : sendq'[o][i] = sendq'[o][j] => i = j
        BY <1>1, <1>3, <2>3, <4>1, <4>3
      <4> QED BY <3>2, <4>2, <4>4
    <3> QED BY <3>1, <3>2
  <2>5. CASE ch # o
    <3>1. Waiting(ch)' = Waiting(ch) BY <1>2, <2>2, <2>5 DEF Waiting, Msg
    <3> QED BY <1>2, <2>1, <2>4, <3>1 DEF FifoStep, Unseen, Log, Waiting
  <2>6. CASE ch = o
    <3>1. Waiting(ch)' = Append(Waiting(ch), m)
      <4>1. Waiting(ch)' = [i \in 1..Len(sendq'[ch]) |-> Msg(sendq'[ch][i])]
        BY <1>2 DEF Waiting, Msg
      <4>2. Len(sendq[ch]) \in Nat BY <1>4
      <4>3. /\ Waiting(ch)' \in Seq(Message)
            /\ Len(Waiting(ch)') = Len(sendq[ch]) + 1
            /\ \A i \in 1..Len(sendq[ch]) + 1 :
                 Waiting(ch)'[i] = IF i = Len(sendq[ch]) + 1 THEN m ELSE Waiting(ch)[i]
        <5>1. \A i \in 1..Len(sendq'[ch]) :
                Msg(sendq'[ch][i]) = IF i = Len(sendq[ch]) + 1 THEN m ELSE Waiting(ch)[i]
          BY <2>3, <2>6, <4>2 DEF Waiting
        <5>2. \A i \in 1..Len(sendq[ch]) : Waiting(ch)[i] \in Message
          BY <1>4, <4>2 DEF Waiting
        <5>3. \A i \in 1..Len(sendq'[ch]) : Msg(sendq'[ch][i]) \in Message
          BY <1>1, <2>3, <2>6, <4>2, <5>1, <5>2
        <5> QED BY <2>3, <2>6, <4>1, <4>2, <5>1, <5>3
      <4>4. /\ Append(Waiting(ch), m) \in Seq(Message)
            /\ Len(Append(Waiting(ch), m)) = Len(sendq[ch]) + 1
            /\ \A i \in 1..Len(sendq[ch]) + 1 :
                 Append(Waiting(ch), m)[i] = IF i = Len(sendq[ch]) + 1 THEN m ELSE Waiting(ch)[i]
        <5>1. Waiting(ch) \in Seq(Message) /\ Len(Waiting(ch)) = Len(sendq[ch])
          BY <1>0, WaitingType
        <5> HIDE DEF m
        <5> QED BY <1>1, <4>2, <5>1, AppendProperties
      <4> HIDE DEF m
      <4> QED BY <4>3, <4>4, SeqEqual
    <3>2. Log(ch)' = delivered[ch] \o queue[ch] \o Append(Waiting(ch), m)
      BY <1>2, <2>1, <3>1 DEF Log, Waiting
    <3>3. Log(ch)' = Append(Log(ch), m)
      <4> DEFINE d == delivered[ch]
                 b == queue[ch]
                 w == Waiting(ch)
      <4>1. Log(ch) = d \o b \o w BY LogIs
      <4>2. d \in Seq(Message) /\ b \in Seq(Message) /\ w \in Seq(Message) BY <1>4
      <4> HIDE DEF m, d, b, w
      <4>3. d \o b \o Append(w, m) = Append(d \o b \o w, m)
        BY <1>1, <4>2, AddLast
      <4> QED BY <3>2, <4>1, <4>3 DEF d, b, w
    <3> QED BY <1>1, <1>2, <2>4, <3>3 DEF FifoStep, Accepts
  <2> QED BY <2>5, <2>6
<1> QED BY <1>5, <1>6

LEMMA ReceiveFifo ==
  ASSUME BusInv, WaitInv, NEW o \in Chans, Receive(o), NEW ch \in Chans
  PROVE  FifoStep(ch) /\ WaitInv'
<1>0. TypeOK BY DEF BusInv
<1>1. /\ queue[o] # <<>> /\ delivered' = [delivered EXCEPT ![o] = Append(delivered[o], Head(queue[o]))]
      /\ UNCHANGED <<closed, op, published>>
  BY DEF Receive
<1>2. \A c \in Chans : \A i \in 1..Len(sendq[c]) :
        /\ sendq[c][i] \in Publishers
        /\ pc[sendq[c][i]] = "parked" /\ op[sendq[c][i]] = c
  <2> SUFFICES ASSUME NEW c \in Chans, NEW i \in 1..Len(sendq[c])
               PROVE  /\ sendq[c][i] \in Publishers
                      /\ pc[sendq[c][i]] = "parked" /\ op[sendq[c][i]] = c
    OBVIOUS
  <2>1. sendq[c] \in Seq(Publishers) BY <1>0 DEF TypeOK
  <2>2. pc[sendq[c][i]] = "parked" /\ op[sendq[c][i]] = c BY DEF WaitInv
  <2> QED BY <2>1, <2>2
<1> DEFINE d == delivered[o]
           b == queue[o]
           w == Waiting(o)
<1>3. d \in Seq(Message) /\ b \in Seq(Message) /\ w \in Seq(Message) /\ b # <<>>
  BY <1>0, <1>1, WaitingType
<1>4. Log(o) = d \o b \o w BY LogIs
<1>5. delivered'[o] = Append(d, Head(b)) /\ \A c \in Chans : c # o => delivered'[c] = delivered[c]
  BY <1>0, <1>1 DEF TypeOK
<1>6. Len(delivered[o]) < Len(Log(o)) /\ Log(o)[Len(delivered[o]) + 1] = Head(queue[o])
  <2> HIDE DEF d, b, w
  <2>1. Len(d) < Len(d \o b \o w) /\ (d \o b \o w)[Len(d) + 1] = Head(b)
    BY <1>3, NextIsFirst
  <2> QED BY <1>4, <2>1 DEF d, b
<1>7. CASE sendq[o] = <<>>
  <2>1. queue' = [queue EXCEPT ![o] = Tail(queue[o])] /\ UNCHANGED <<sendq, pc>>
    BY <1>7 DEF Receive
  <2>2. WaitInv' BY <1>1, <2>1 DEF WaitInv
  <2>3. \A c \in Chans : Waiting(c)' = Waiting(c) BY <1>1, <2>1 DEF Waiting, Msg
  <2>4. CASE ch # o
    <3>1. queue'[ch] = queue[ch] BY <1>0, <2>1, <2>4 DEF TypeOK
    <3> QED BY <1>1, <1>5, <2>2, <2>3, <2>4, <3>1 DEF FifoStep, Unseen, Log, Waiting
  <2>5. CASE ch = o
    <3>1. queue'[o] = Tail(b) BY <1>0, <2>1 DEF TypeOK
    <3>2. Log(o)' = Append(d, Head(b)) \o Tail(b) \o w
      BY <1>5, <2>3, <3>1 DEF Log, Waiting
    <3>3. Log(o)' = Log(o)
      <4> HIDE DEF d, b, w
      <4>1. Append(d, Head(b)) \o Tail(b) \o w = d \o b \o w BY <1>3, TakeFirst
      <4> QED BY <1>4, <3>2, <4>1
    <3> QED BY <1>1, <1>5, <1>6, <2>2, <2>5, <3>3 DEF FifoStep, Delivers
  <2> QED BY <2>4, <2>5
<1>8. CASE sendq[o] # <<>>
  <2> DEFINE h == Head(sendq[o])
  <2>1. /\ queue' = [queue EXCEPT ![o] = Append(Tail(queue[o]), Msg(h))]
        /\ sendq' = [sendq EXCEPT ![o] = Tail(sendq[o])]
        /\ pc' = [pc EXCEPT ![h] = "runlock"]
    BY <1>8 DEF Receive
  <2>2. sendq[o] \in Seq(Publishers) /\ Len(sendq[o]) \in Nat \ {0} /\ h = sendq[o][1]
    BY <1>0, <1>8 DEF TypeOK
  <2>3. /\ sendq'[o] = Tail(sendq[o])
        /\ \A c \in Chans : c # o => sendq'[c] = sendq[c] /\ queue'[c] = queue[c]
        /\ queue'[o] = Append(Tail(b), Msg(h))
        /\ \A q \in Publishers : q # h => pc'[q] = pc[q]
    BY <1>0, <2>1 DEF TypeOK
  <2>4. /\ Len(sendq'[o]) = Len(sendq[o]) - 1
        /\ \A i \in 1..Len(sendq'[o]) : i + 1 \in 1..Len(sendq[o]) /\ sendq'[o][i] = sendq[o][i + 1]
    BY <2>2, <2>3, <1>8, HeadTailProperties
  <2>5. WaitInv'
    <3> SUFFICES ASSUME NEW c \in Chans
                 PROVE  /\ \A i \in 1..Len(sendq'[c]) :
                             pc'[sendq'[c][i]] = "parked" /\ op'[sendq'[c][i]] = c
                        /\ \A i, j \in 1..Len(sendq'[c]) :
                             sendq'[c][i] = sendq'[c][j] => i = j
      BY DEF WaitInv
    <3>0. op[h] = o /\ \A i, j \in 1..Len(sendq[o]) : sendq[o][i] = sendq[o][j] => i = j
      BY <1>2, <2>2 DEF WaitInv
    <3> HIDE DEF h
    <3>1. CASE c # o
      <4>1. \A i \in 1..Len(sendq[c]) : sendq[c][i] # h BY <1>2, <3>0, <3>1
      <4>2. \A i, j \in 1..Len(sendq[c]) : sendq[c][i] = sendq[c][j] => i = j BY DEF WaitInv
      <4> QED BY <1>1, <1>2, <2>3, <3>1, <4>1, <4>2
    <3>2. CASE c = o
      <4>1. \A i \in 1..Len(sendq'[o]) : sendq'[o][i] # h
        <5> SUFFICES ASSUME NEW i \in 1..Len(sendq'[o]) PROVE sendq'[o][i] # h OBVIOUS
        <5>1. i + 1 \in 1..Len(sendq[o]) /\ i + 1 # 1 /\ 1 \in 1..Len(sendq[o])
          BY <2>2, <2>4
        <5> QED BY <2>2, <2>4, <3>0, <5>1
      <4>2. \A i \in 1..Len(sendq'[o]) :
              /\ sendq'[o][i] \in Publishers
              /\ pc[sendq'[o][i]] = "parked" /\ op[sendq'[o][i]] = o
        BY <1>2, <2>4
      <4>3. \A i \in 1..Len(sendq'[o]) :
              pc'[sendq'[o][i]] = "parked" /\ op'[sendq'[o][i]] = o
        BY <1>1, <2>3, <4>1, <4>2
      <4>4. \A i, j \in 1..Len(sendq'[o]) : sendq'[o][i] = sendq'[o][j] => i = j
        <5> SUFFICES ASSUME NEW i \in 1..Len(sendq'[o]), NEW j \in 1..Len(sendq'[o]),
                            sendq'[o][i] = sendq'[o][j]
                     PROVE  i = j
          OBVIOUS
        <5>1. i + 1 = j + 1 BY <2>4, <3>0
        <5> QED BY <5>1
      <4> QED BY <3>2, <4>3, <4>4
    <3> QED BY <3>1, <3>2
  <2>6. CASE ch # o
    <3>1. Waiting(ch)' = Waiting(ch) BY <1>1, <2>3, <2>6 DEF Waiting, Msg
    <3> QED BY <1>1, <1>5, <2>3, <2>5, <2>6, <3>1 DEF FifoStep, Unseen, Log, Waiting
  <2>7. CASE ch = o
    <3>1. Head(w) = Msg(h) /\ w # <<>> /\ Waiting(o)' = Tail(w)
      <4>1. Len(w) = Len(sendq[o]) /\ w \in Seq(Message) BY <1>0, WaitingType
      <4>2. w # <<>> /\ Head(w) = w[1] BY <2>2, <4>1
      <4>3. w[1] = Msg(h) BY <2>2 DEF Waiting
      <4>4. /\ Tail(w) \in Seq(Message) /\ Len(Tail(w)) = Len(sendq[o]) - 1
            /\ \A i \in 1..Len(Tail(w)) : Tail(w)[i] = w[i + 1]
        BY <4>1, <4>2, HeadTailProperties
      <4>5. Waiting(o)' = [i \in 1..Len(sendq'[o]) |-> Msg(sendq'[o][i])]
        BY <1>1 DEF Waiting, Msg
      <4>6. \A i \in 1..Len(sendq'[o]) : Msg(sendq'[o][i]) = w[i + 1] /\ w[i + 1] \in Message
        BY <2>4, <4>1 DEF Waiting
      <4>7. /\ Waiting(o)' \in Seq(Message) /\ Len(Waiting(o)') = Len(Tail(w))
            /\ \A i \in 1..Len(Waiting(o)') : Waiting(o)'[i] = Tail(w)[i]
        <5> HIDE DEF w
        <5>1. Len(sendq'[o]) \in Nat BY <2>2, <2>4
        <5> QED BY <2>4, <4>4, <4>5, <4>6, <5>1
      <4>8. Waiting(o)' = Tail(w)
        <5> HIDE DEF w
        <5> QED BY <4>4, <4>7, SeqEqual
      <4> QED BY <4>2, <4>3, <4>8
    <3>2. Msg(h) \in Message BY <1>0, <2>2, MsgType
    <3> DEFINE e == Append(d, Head(b))
               t == Tail(b)
               y == <<Msg(h)>>
               v == Tail(w)
    <3>3. Log(o)' = Log(o)
      <4>1. /\ e \in Seq(Message) /\ t \in Seq(Message) /\ y \in Seq(Message)
            /\ v \in Seq(Message)
        <5> HIDE DEF d, b, w, h
        <5> QED BY <1>3, <3>1, <3>2, HeadTailProperties
      <4>2. w = y \o v
        <5> HIDE DEF d, b, w, h
        <5> QED BY <1>3, <3>1, <3>2
      <4>3. queue'[o] = t \o y
        <5> HIDE DEF d, t, w, h
        <5> QED BY <2>3, <3>2, <4>1, AppendIsConcat DEF t
      <4>4. e \o t \o w = Log(o)
        <5> HIDE DEF d, b, w, h
        <5> QED BY <1>3, <1>4, TakeFirst
      <4>5. Log(o)' = (e \o (t \o y)) \o v
        BY <1>5, <3>1, <4>3 DEF Log, Waiting
      <4> HIDE DEF e, t, y, v, d, b, w, h
      <4>6. e \o (t \o y) = (e \o t) \o y BY <4>1, Assoc
      <4> DEFINE x == e \o t
      <4>7. x \in Seq(Message) BY <4>1
      <4> HIDE DEF x
      <4>8. x \o (y \o v) = (x \o y) \o v BY <4>1, <4>7, Assoc
      <4> QED BY <4>2, <4>4, <4>5, <4>6, <4>8 DEF x
    <3>4. Delivers(o)
      <4>1. delivered'[o] = Append(delivered[o], Head(queue[o])) BY <1>5
      <4> HIDE DEF d, b, w, h, e, t, y, v
      <4> QED BY <1>1, <1>6, <3>3, <4>1 DEF Delivers
    <3> QED BY <2>5, <2>7, <3>4 DEF FifoStep
  <2> QED BY <2>6, <2>7
<1> QED BY <1>7, <1>8

(* The senders parked on a closed channel would be lost; there are none. *)
LEMMA CloseFifo ==
  ASSUME BusInv, WaitInv, NEW w \in Writers, Close(w), NEW ch \in Chans
  PROVE  FifoStep(ch) /\ WaitInv'
<1>1. /\ pc[w] = "critical" /\ closed' = TRUE /\ sendq' = [c \in Chans |-> <<>>]
      /\ UNCHANGED <<queue, published, delivered>>
  BY DEF Close, consumerVars
<1>2. \A c \in Chans : sendq[c] = <<>> /\ sendq'[c] = <<>> BY <1>1, NobodyParked
<1>3. WaitInv' BY <1>2 DEF WaitInv
<1>4. Waiting(ch)' = Waiting(ch) BY <1>1, <1>2 DEF Waiting, Msg
<1>5. UNCHANGED <<Log(ch), delivered[ch]>> BY <1>1, <1>4 DEF Log, Waiting
<1>6. closed \in BOOLEAN BY DEF BusInv, TypeOK
<1> QED BY <1>1, <1>3, <1>5, <1>6 DEF FifoStep, Unseen, Shuts

LEMMA RegisterFifo ==
  ASSUME BusInv, WaitInv, NEW w \in Writers, RegisterHandler(w), NEW ch \in Chans
  PROVE  FifoStep(ch) /\ WaitInv'
<1>1. pc[w] = "critical" /\ UNCHANGED <<queue, sendq, closed, published, delivered>>
  BY DEF RegisterHandler, consumerVars, chanVars
<1>2. \A c \in Chans : sendq[c] = <<>> /\ sendq'[c] = <<>> BY <1>1, NobodyParked
<1>3. WaitInv' BY <1>2 DEF WaitInv
<1>4. Waiting(ch)' = Waiting(ch) BY <1>1, <1>2 DEF Waiting, Msg
<1> QED BY <1>1, <1>3, <1>4 DEF FifoStep, Unseen, Log, Waiting

(* Every other step leaves both directions as they are. *)
LEMMA QuietFifo ==
  ASSUME BusInv, WaitInv, UNCHANGED <<sendq, queue, delivered, closed>>,
         \A p \in Publishers : pc[p] = "parked" =>
           pc'[p] = "parked" /\ op'[p] = op[p] /\ published'[p] = published[p],
         NEW ch \in Chans
  PROVE  FifoStep(ch) /\ WaitInv'
BY ParkedKept DEF BusInv, FifoStep, Unseen

LEMMA FifoOfStep ==
  ASSUME BusInv, WaitInv, [Next]_vars, NEW ch \in Chans
  PROVE  FifoStep(ch) /\ WaitInv'
<1>0. TypeOK BY DEF BusInv
<1> DEFINE Quiet == /\ UNCHANGED <<sendq, queue, delivered, closed>>
                    /\ \A p \in Publishers : pc[p] = "parked" =>
                         pc'[p] = "parked" /\ op'[p] = op[p] /\ published'[p] = published[p]
<1>1. ASSUME NEW p \in Publishers, NEW o \in PubOps, Call(p, o) PROVE Quiet
  <2>1. pc[p] = "idle" /\ pc' = [pc EXCEPT ![p] = "rlock"] /\ op' = [op EXCEPT ![p] = o]
        /\ (published' = [published EXCEPT ![p] = @ + 1] \/ UNCHANGED published)
    BY <1>1 DEF Call
  <2>2. UNCHANGED <<sendq, queue, delivered, closed>> BY <1>1 DEF Call, chanVars, consumerVars
  <2> QED BY <1>0, <2>1, <2>2 DEF TypeOK
<1>2. ASSUME NEW p \in Publishers, RLock(p) \/ Check(p) \/ RUnlock(p) PROVE Quiet
  <2>1. /\ pc[p] # "parked" /\ UNCHANGED published
        /\ \A q \in Procs : q # p => pc'[q] = pc[q] /\ op'[q] = op[q]
    BY <1>0, <1>2 DEF RLock, Check, RUnlock, TypeOK
  <2>2. UNCHANGED <<sendq, queue, delivered, closed>>
    BY <1>2 DEF RLock, Check, RUnlock, chanVars, consumerVars
  <2> QED BY <2>1, <2>2
<1>3. ASSUME NEW w \in Writers, NEW o \in WriteOps,
             CallWriter(w, o) \/ Announce(w) \/ Acquire(w)
      PROVE  Quiet
  <2>1. /\ UNCHANGED published
        /\ \A q \in Procs : q # w => pc'[q] = pc[q] /\ op'[q] = op[q]
    BY <1>0, <1>3 DEF CallWriter, Announce, Acquire, TypeOK
  <2>2. UNCHANGED <<sendq, queue, delivered, closed>>
    BY <1>3 DEF CallWriter, Announce, Acquire, chanVars, consumerVars
  <2> QED BY <2>1, <2>2, PublishersAssumption
<1>4. ASSUME NEW c \in Chans, ReturnDone(c) \/ ReceiveZero(c) \/ Cancel(c) PROVE Quiet
  BY <1>4 DEF ReturnDone, ReceiveZero, Cancel, chanVars
<1>5. CASE UNCHANGED vars BY <1>5, QuietFifo DEF vars
<1>6. Quiet => FifoStep(ch) /\ WaitInv' BY QuietFifo
<1> HIDE DEF Quiet
<1>7. ASSUME NEW p \in Publishers, PubStep(p) \/ \E o \in PubOps : Call(p, o)
      PROVE  FifoStep(ch) /\ WaitInv'
  BY <1>1, <1>2, <1>6, <1>7, SendFifo DEF PubStep
<1>8. ASSUME NEW w \in Writers, WriteStep(w) \/ \E o \in WriteOps : CallWriter(w, o)
      PROVE  FifoStep(ch) /\ WaitInv'
  <2>1. "Close" \in WriteOps OBVIOUS
  <2> QED BY <1>3, <1>6, <1>8, <2>1, CloseFifo, RegisterFifo DEF WriteStep
<1>9. ASSUME NEW c \in Chans, Consume(c) \/ ReceiveZero(c) \/ Cancel(c)
      PROVE  FifoStep(ch) /\ WaitInv'
  BY <1>4, <1>6, <1>9, ReceiveFifo DEF Consume
<1> QED BY <1>5, <1>7, <1>8, <1>9 DEF Next

LEMMA FifoInit == Init => WaitInv /\ Inbound!Init /\ Outbound!Init
<1> SUFFICES ASSUME Init PROVE WaitInv /\ Inbound!Init /\ Outbound!Init OBVIOUS
<1>1. \A ch \in Chans : sendq[ch] = <<>> /\ queue[ch] = <<>> /\ delivered[ch] = <<>>
  BY DEF Init
<1>2. WaitInv BY <1>1 DEF WaitInv
<1>3. ASSUME NEW ch \in Chans PROVE Log(ch) = <<>>
  <2>1. Waiting(ch) = <<>> BY <1>1 DEF Waiting
  <2>2. Log(ch) = <<>> \o <<>> \o <<>> BY <1>1, <2>1, LogIs
  <2> QED BY <2>2
<1>4. closed = FALSE BY DEF Init
<1> QED BY <1>1, <1>2, <1>3, <1>4 DEF Inbound!Init, Outbound!Init

(* Each direction of the bus, whatever the publishers, the writers and the *)
(* other direction do, is the unbounded FIFO queue: in order, once, and    *)
(* nothing lost by Close (bus.go:24-58, 73-82).                            *)
THEOREM Fifo == Spec => BothAreFifo
<1>1. BusInv /\ WaitInv /\ [Next]_vars => WaitInv'
  BY FifoOfStep
<1>2. BusInv /\ WaitInv /\ [Next]_vars => [Inbound!Next]_(Inbound!fifoVars)
  <2> SUFFICES ASSUME BusInv, WaitInv, [Next]_vars
               PROVE  [Inbound!Next]_(Inbound!fifoVars)
    OBVIOUS
  <2>1. FifoStep("inbound") BY FifoOfStep
  <2> QED BY <2>1 DEF FifoStep, Unseen, Accepts, Delivers, Shuts, Inbound!Next,
          Inbound!Accept, Inbound!Deliver, Inbound!Shut, Inbound!fifoVars
<1>3. BusInv /\ WaitInv /\ [Next]_vars => [Outbound!Next]_(Outbound!fifoVars)
  <2> SUFFICES ASSUME BusInv, WaitInv, [Next]_vars
               PROVE  [Outbound!Next]_(Outbound!fifoVars)
    OBVIOUS
  <2>1. FifoStep("outbound") BY FifoOfStep
  <2> QED BY <2>1 DEF FifoStep, Unseen, Accepts, Delivers, Shuts, Outbound!Next,
          Outbound!Accept, Outbound!Deliver, Outbound!Shut, Outbound!fifoVars
<1> QED BY <1>1, <1>2, <1>3, BusInvariant, FifoInit, PTL
        DEF Spec, BothAreFifo, Inbound!Spec, Outbound!Spec
=============================================================================
