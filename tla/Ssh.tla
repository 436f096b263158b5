-------------------------------- MODULE Ssh ---------------------------------
(***************************************************************************)
(* The SSH channel (pkg/channels/ssh.go) and one user of it, who may have  *)
(* several connections: the maps sessions and streamChans have one entry   *)
(* for the user, every connection has a Bubble Tea program of its own.     *)
(*                                                                         *)
(* A program handles one event at a time.  Its listeners are goroutines:   *)
(* each reads one item of a Go channel and turns it into an event, and the *)
(* events of different listeners arrive in any order.                      *)
(***************************************************************************)
EXTENDS Naturals, Sequences

CONSTANTS Conns,      \* connections of the user, at most one login each
          SshRounds,  \* the messages the user types, numbered from 1
          Items,      \* what other goroutines send to the user meanwhile
          SshChunks,  \* bound: chunks streamed in a round
          OutCap,     \* capacity of outChan (64 in the code)
          ChunkCap    \* capacity of the chunk channel (256 in the code)

ASSUME SshAssumption ==
  /\ Conns \subseteq Nat \ {0} /\ SshRounds \subseteq Nat \ {0} /\ Items \cap SshRounds = {}
  /\ {SshChunks, OutCap, ChunkCap} \subseteq Nat

VARIABLES allowed,     \* whether the allow list names the user
          conn,        \* "never", "open" or "closed"
          sessions,    \* sessions[chatID]: the connection, or 0
          streamChans, \* streamChans[chatID]: the round it was made for, or 0
          chunkChans,  \* the buffered chunks of each chunk channel
          closedChan,  \* the chunk channels that are closed
          outChan,     \* the buffered responses of each connection
          outListen,   \* number of goroutines in listenOutbound
          chunkListen, \* chunkListen[c][r]: those in listenStreamChunks
          events,      \* what listeners have read and Update has not seen
          ui,          \* the program of each connection
          typedIn,     \* typedIn[r]: the connection a message was typed in
          agent,       \* the round of the agent loop, the chunks sent in it
          bus,         \* the queues to the agent and to the dispatcher
          handed,      \* history: what Send has delivered
          failed,      \* history: what Send has not
          calm         \* history: rounds that nothing came between

sshVars == <<allowed, conn, sessions, streamChans, chunkChans, closedChan, outChan,
             outListen, chunkListen, events, ui, typedIn, agent, bus, handed, failed, calm>>
wireVars == <<sessions, streamChans, chunkChans, closedChan, outChan>>
pastVars == <<handed, failed, calm>>

TypedMessage(r) == [role |-> "user", text |-> <<<<"typed", r, 0>>>>]
Replied(t) == [role |-> "assistant", text |-> t]
ChunkEvent(r, n) == <<"chunk", r, n>>
FinalEvent(x) == <<"final", x, 0>>

TypedRounds == {r \in SshRounds : typedIn[r] # 0}
Open == {c \in Conns : conn[c] = "open"}
SshPending == {r \in TypedRounds : r \notin handed \cup failed}

SshInit ==
  /\ allowed \in BOOLEAN
  /\ conn = [c \in Conns |-> "never"]
  /\ sessions = 0 /\ streamChans = 0
  /\ chunkChans = [r \in SshRounds |-> <<>>] /\ closedChan = {}
  /\ outChan = [c \in Conns |-> <<>>]
  /\ outListen = [c \in Conns |-> 0]
  /\ chunkListen = [c \in Conns |-> [r \in SshRounds |-> 0]]
  /\ events = [c \in Conns |-> {}]
  /\ ui = [c \in Conns |-> [messages |-> <<>>, processing |-> FALSE, streamChan |-> 0]]
  /\ typedIn = [r \in SshRounds |-> 0]
  /\ agent = [round |-> 0, chunks |-> 0]
  /\ bus = [inbound |-> <<>>, outbound |-> <<>>]
  /\ handed = {} /\ failed = {} /\ calm = {}

-----------------------------------------------------------------------------
(* teaHandler and the program's Init. *)
Connect(c) ==
  /\ conn[c] = "never"
  /\ conn' = [conn EXCEPT ![c] = "open"]
  /\ sessions' = c
  /\ outListen' = [outListen EXCEPT ![c] = 1]
  /\ calm' = IF Open = {} THEN calm \ SshPending ELSE {}
  /\ UNCHANGED <<allowed, streamChans, chunkChans, closedChan, outChan, chunkListen, events,
                 ui, typedIn, agent, bus, handed, failed>>

(* Ctrl+C removes the user's session, whose connection it may not be; a    *)
(* connection that drops removes nothing.                                  *)
Leave(c) ==
  /\ conn[c] = "open"
  /\ conn' = [conn EXCEPT ![c] = "closed"]
  /\ sessions' \in {0, sessions}
  /\ calm' = calm \ (SshPending \cup {r \in SshRounds : typedIn[r] = c})
  /\ UNCHANGED <<allowed, streamChans, chunkChans, closedChan, outChan, outListen,
                 chunkListen, events, ui, typedIn, agent, bus, handed, failed>>

(* Enter: sendMessage, refused while a message is being processed. *)
sendMessage(c, r) ==
  /\ conn[c] = "open" /\ ~ui[c].processing
  /\ r \notin TypedRounds /\ \A q \in SshRounds : q < r => q \in TypedRounds
  /\ typedIn' = [typedIn EXCEPT ![r] = c]
  /\ ui' = [ui EXCEPT ![c] = [messages |-> Append(@.messages, TypedMessage(r)),
                              processing |-> TRUE, streamChan |-> r]]
  /\ streamChans' = r
  /\ chunkListen' = [chunkListen EXCEPT ![c][r] = @ + 1]
  /\ bus' = IF allowed THEN [bus EXCEPT !.inbound = Append(@, r)] ELSE bus
  /\ calm' = IF /\ sessions = c /\ Open = {c} /\ SshPending = {}
                /\ bus.outbound = <<>> /\ outChan[c] = <<>>
                /\ \A e \in events[c] : e[1] # "final"
             THEN calm \cup {r} ELSE calm
  /\ UNCHANGED <<allowed, conn, sessions, chunkChans, closedChan, outChan, outListen, events,
                 agent, handed, failed>>

-----------------------------------------------------------------------------
(* Listeners. *)
listenOutbound(c) ==
  /\ conn[c] = "open" /\ outListen[c] > 0 /\ outChan[c] # <<>>
  /\ events' = [events EXCEPT ![c] = @ \cup {FinalEvent(Head(outChan[c]))}]
  /\ outChan' = [outChan EXCEPT ![c] = Tail(@)]
  /\ outListen' = [outListen EXCEPT ![c] = @ - 1]
  /\ UNCHANGED <<allowed, conn, sessions, streamChans, chunkChans, closedChan, chunkListen,
                 ui, typedIn, agent, bus, handed, failed, calm>>

listenStreamChunks(c, r) ==
  /\ conn[c] = "open" /\ chunkListen[c][r] > 0
  /\ \/ /\ chunkChans[r] # <<>>
        /\ events' = [events EXCEPT ![c] = @ \cup {Head(chunkChans[r])}]
        /\ chunkChans' = [chunkChans EXCEPT ![r] = Tail(@)]
     \/ /\ chunkChans[r] = <<>> /\ r \in closedChan
        /\ events' = [events EXCEPT ![c] = @ \cup {<<"done", r, chunkListen[c][r]>>}]
        /\ UNCHANGED chunkChans
  /\ chunkListen' = [chunkListen EXCEPT ![c][r] = @ - 1]
  /\ UNCHANGED <<allowed, conn, sessions, streamChans, closedChan, outChan, outListen,
                 ui, typedIn, agent, bus, handed, failed, calm>>

(* Update: a chunk is appended to the assistant's last message, a response *)
(* replaces it; the end of a stream starts one more listener.  (Faulty     *)
(* form: only the end of a stream starts one.)                             *)
LastIsAssistant(m) == m # <<>> /\ m[Len(m)].role = "assistant"

ListenAfterStream(c, e) ==
  outListen' = [outListen EXCEPT ![c] = IF e[1] = "done" THEN @ + 1 ELSE @]
ListenAgain(c, e) ==
  outListen' = [outListen EXCEPT ![c] = IF e[1] # "chunk" THEN @ + 1 ELSE @]

Update(c, e) ==
  LET m == ui[c].messages
      s == ui[c].streamChan IN
  /\ conn[c] = "open" /\ e \in events[c]
  /\ events' = [events EXCEPT ![c] = @ \ {e}]
  /\ ListenAgain(c, e)
  /\ \/ /\ e[1] = "chunk"
        /\ ui' = [ui EXCEPT ![c].messages =
                    IF LastIsAssistant(m) THEN [m EXCEPT ![Len(m)].text = Append(@, e)]
                    ELSE Append(m, Replied(<<e>>))]
        /\ chunkListen' = [chunkListen EXCEPT ![c][s] = @ + 1]
     \/ /\ e[1] = "done" /\ UNCHANGED <<ui, chunkListen>>
     \/ /\ e[1] = "final"
        /\ ui' = [ui EXCEPT ![c].processing = FALSE,
                            ![c].messages =
                    IF LastIsAssistant(m) THEN [m EXCEPT ![Len(m)].text = <<e>>]
                    ELSE Append(m, Replied(<<e>>))]
        /\ UNCHANGED chunkListen
  /\ UNCHANGED <<allowed, conn, wireVars, typedIn, agent, bus, pastVars>>

-----------------------------------------------------------------------------
(* The agent loop: chunks go to whatever channel the user has now, and are *)
(* dropped when there is none or its buffer is full.                       *)
SshConsume ==
  /\ agent.round = 0 /\ bus.inbound # <<>>
  /\ agent' = [round |-> Head(bus.inbound), chunks |-> 0]
  /\ bus' = [bus EXCEPT !.inbound = Tail(@)]
  /\ UNCHANGED <<allowed, conn, wireVars, outListen, chunkListen, events, ui, typedIn, pastVars>>

SshChunk ==
  LET r == streamChans
      x == ChunkEvent(agent.round, agent.chunks + 1) IN
  /\ agent.round # 0 /\ agent.chunks < SshChunks
  /\ agent' = [agent EXCEPT !.chunks = @ + 1]
  /\ chunkChans' = IF r # 0 /\ Len(chunkChans[r]) < ChunkCap
                   THEN [chunkChans EXCEPT ![r] = Append(@, x)] ELSE chunkChans
  /\ UNCHANGED <<allowed, conn, sessions, streamChans, closedChan, outChan, outListen,
                 chunkListen, events, ui, typedIn, bus, pastVars>>

(* FlushStream, and the response is handed to the bus. *)
SshAnswer ==
  /\ agent.round # 0
  /\ streamChans' = 0
  /\ closedChan' = closedChan \cup ({streamChans} \ {0})
  /\ bus' = [bus EXCEPT !.outbound = Append(@, agent.round)]
  /\ agent' = [round |-> 0, chunks |-> 0]
  /\ UNCHANGED <<allowed, conn, sessions, chunkChans, outChan, outListen, chunkListen,
                 events, ui, typedIn, pastVars>>

(* Another goroutine sends something to the user. *)
Item(x) ==
  /\ x \notin handed \cup failed /\ \A i \in DOMAIN bus.outbound : bus.outbound[i] # x
  /\ bus' = [bus EXCEPT !.outbound = Append(@, x)]
  /\ calm' = calm \ TypedRounds
  /\ UNCHANGED <<allowed, conn, wireVars, outListen, chunkListen, events, ui, typedIn,
                 agent, handed, failed>>

(* Send: to the session of this moment, with a timeout. *)
SshSend ==
  LET x == Head(bus.outbound)
      open == sessions # 0 /\ Len(outChan[sessions]) < OutCap IN
  /\ bus.outbound # <<>>
  /\ bus' = [bus EXCEPT !.outbound = Tail(@)]
  /\ \/ /\ open
        /\ outChan' = [outChan EXCEPT ![sessions] = Append(@, x)]
        /\ handed' = handed \cup {x}
        /\ UNCHANGED failed
     \/ /\ ~open
        /\ failed' = failed \cup {x}
        /\ UNCHANGED <<outChan, handed>>
  /\ UNCHANGED <<allowed, conn, sessions, streamChans, chunkChans, closedChan, outListen,
                 chunkListen, events, ui, typedIn, agent, calm>>

SshNext ==
  \/ \E c \in Conns : \/ Connect(c) \/ Leave(c) \/ listenOutbound(c)
                      \/ \E r \in SshRounds : sendMessage(c, r) \/ listenStreamChunks(c, r)
                      \/ \E e \in events[c] : Update(c, e)
  \/ SshConsume \/ SshChunk \/ SshAnswer \/ SshSend
  \/ \E x \in Items : Item(x)

SshSpec == SshInit /\ [][SshNext]_sshVars

-----------------------------------------------------------------------------
(* An allowed user with one connection, whom nothing else is sent: the     *)
(* answer replaces what was streamed of it, though chunks it has overtaken *)
(* may follow it, and the program does not wait for an answer that has     *)
(* come (ssh.go:131-181, 349-397).                                         *)
AnswersShown ==
  \A r \in calm : allowed /\ r \in handed =>
    LET c == typedIn[r]
        underway == \/ \E i \in DOMAIN outChan[c] : outChan[c][i] = r
                    \/ FinalEvent(r) \in events[c] IN
    \/ underway /\ (outListen[c] > 0 \/ \E e \in events[c] : e[1] # "chunk")
    \/ /\ ~underway
       /\ \E i \in DOMAIN ui[c].messages : ui[c].messages[i].text[1] = FinalEvent(r)
       /\ ui[c].processing => \E q \in TypedRounds : q > r
=============================================================================
