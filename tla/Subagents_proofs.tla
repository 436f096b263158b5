-------------------------- MODULE Subagents_proofs --------------------------
(***************************************************************************)
(* What holds of the subagents for any number of them, any limit, any      *)
(* capacity of the inbound channel and any rounds: the slots, the reports, *)
(* and where a report goes.                                                *)
(***************************************************************************)
EXTENDS Subagents, FiniteSetTheorems, SequenceTheorems, TLAPS

Statuses == {"", "running", "completed", "failed", "cancelled"}
Messages == [task : Tasks \cup {Free}, chat : Chats \cup {None}, status : Statuses]
AliveTasks == {t \in Tasks : Alive(t)}

Types ==
  /\ mu \in Tasks \cup {Free}
  /\ activeCount \in 0..MaxConcurrent
  /\ status \in [Tasks -> Statuses]
  /\ origin \in [Tasks -> Chats \cup {None}]
  /\ pc \in [Tasks -> {"none", "started", "running", "announcing", "leaving", "gone"}]
  /\ reported \in [Tasks -> Nat]
  /\ inbound \in Seq(Messages)
  /\ Len(inbound) <= Capacity
  /\ originChat \in Chats \cup {None}
  /\ at \in [Spawners -> {"idle", "context", "round", "called", "spawn"}]
  /\ chat \in [Spawners -> Chats \cup {None}]
  /\ from \in [Spawners -> Chats \cup {None}]
  /\ crossed \in [Spawners -> BOOLEAN]
  /\ done \in BOOLEAN

(* The lock is held by whoever announces. *)
LockOK == \A t \in Tasks : pc[t] = "announcing" => mu = t

(* How far a subagent is tells its status and whether it has reported. *)
TaskOK(t) ==
  /\ pc[t] \in {"none", "started", "running", "announcing"} => reported[t] = 0
  /\ pc[t] \in {"announcing", "leaving", "gone"} =>
       status[t] \in {"completed", "failed", "cancelled"}
  /\ pc[t] \in {"leaving", "gone"} =>
       reported[t] = 1 \/ (reported[t] = 0 /\ status[t] = "cancelled")

(* A queued report is its task's only one, and its task's status is final. *)
QueuedOK ==
  \A i \in 1..Len(inbound) : inbound[i].task \in Tasks =>
    inbound[i].status = status[inbound[i].task] /\ reported[inbound[i].task] = 1

SlotsInv == SlotsMatchGoroutines /\ IsFiniteSet(AliveTasks)

(* What a spawner is about to read, or has read, is its own chat, unless   *)
(* another one came between.                                               *)
ChatOK ==
  \A p \in Spawners :
    /\ at[p] = "called" /\ ~crossed[p] => originChat = chat[p]
    /\ at[p] = "spawn" /\ ~crossed[p] => from[p] = chat[p]

SubInv ==
  /\ Types
  /\ LockOK
  /\ \A t \in Tasks : TaskOK(t)
  /\ QueuedOK
  /\ SlotsInv
  /\ ChatOK

-----------------------------------------------------------------------------
LEMMA FreeIsNoTask == Free \notin Tasks
BY BoundAssumption DEF Free, Tasks

LEMMA Bounds == MaxTasks \in Nat /\ MaxSent \in Nat /\ MaxJobs \in Nat
                /\ MaxConcurrent \in Nat \ {0} /\ Capacity \in Nat \ {0}
BY BoundAssumption, LimitAssumption

LEMMA SubInit == Init => SubInv
<1> SUFFICES ASSUME Init PROVE SubInv OBVIOUS
<1>1. Types
  <2>1. inbound \in Seq(Messages) /\ Len(inbound) = 0
    <3>1. inbound = <<>> BY DEF Init
    <3>2. <<>> \in Seq(Messages) /\ Len(<<>>) = 0 OBVIOUS
    <3> QED BY <3>1, <3>2
  <2>2. /\ status \in [Tasks -> Statuses] /\ origin \in [Tasks -> Chats \cup {None}]
        /\ reported \in [Tasks -> Nat]
        /\ pc \in [Tasks -> {"none", "started", "running", "announcing", "leaving", "gone"}]
    BY DEF Init, Statuses
  <2>3. /\ at \in [Spawners -> {"idle", "context", "round", "called", "spawn"}]
        /\ chat \in [Spawners -> Chats \cup {None}]
        /\ from \in [Spawners -> Chats \cup {None}]
        /\ crossed \in [Spawners -> BOOLEAN]
    BY DEF Init
  <2>4. activeCount \in 0..MaxConcurrent /\ Len(inbound) <= Capacity
    <3>1. activeCount = 0 BY DEF Init
    <3> QED BY <2>1, <3>1, Bounds
  <2> QED BY <2>1, <2>2, <2>3, <2>4 DEF Init, Types
<1>2. AliveTasks = {} BY DEF AliveTasks, Alive, Init
<1>3. SlotsInv
  BY <1>2, FS_EmptySet DEF SlotsInv, SlotsMatchGoroutines, AliveTasks, Init
<1>4. LockOK /\ \A t \in Tasks : TaskOK(t) BY DEF Init, LockOK, TaskOK
<1>5. QueuedOK
  <2>1. inbound = <<>> BY DEF Init
  <2>2. Len(<<>>) = 0 OBVIOUS
  <2> QED BY <2>1, <2>2 DEF QueuedOK
<1>6. ChatOK BY DEF Init, ChatOK
<1> QED BY <1>1, <1>3, <1>4, <1>5, <1>6 DEF SubInv

-----------------------------------------------------------------------------
(* The parts a step leaves alone. *)

LEMMA SlotsKept ==
  ASSUME SlotsInv, UNCHANGED <<pc, activeCount>>
  PROVE  SlotsInv'
BY DEF SlotsInv, SlotsMatchGoroutines, AliveTasks, Alive

(* A subagent goes on without being born or gone. *)
LEMMA SlotsStep ==
  ASSUME SlotsInv, Types, UNCHANGED activeCount,
         NEW t \in Tasks, Alive(t),
         NEW there \in {"running", "announcing", "leaving"},
         pc' = [pc EXCEPT ![t] = there]
  PROVE  SlotsInv'
<1>1. ASSUME NEW u \in Tasks PROVE Alive(u)' <=> Alive(u)
  BY <1>1 DEF Alive, Types
<1>2. AliveTasks' = AliveTasks BY <1>1 DEF AliveTasks
<1> QED BY <1>2 DEF SlotsInv, SlotsMatchGoroutines, AliveTasks

LEMMA TasksKept ==
  ASSUME LockOK, \A t \in Tasks : TaskOK(t), UNCHANGED managerVars
  PROVE  LockOK' /\ \A t \in Tasks : TaskOK(t)'
BY DEF LockOK, TaskOK, managerVars

LEMMA QueuedKept ==
  ASSUME QueuedOK, UNCHANGED <<status, reported, inbound>>
  PROVE  QueuedOK'
BY DEF QueuedOK

LEMMA ChatKept ==
  ASSUME ChatOK, UNCHANGED roundVars
  PROVE  ChatOK'
BY DEF ChatOK, roundVars

(* A queue of which some are taken and to which nothing is added. *)
LEMMA QueuedTaken ==
  ASSUME Types, QueuedOK, UNCHANGED <<status, reported>>, inbound # <<>>,
         inbound' = Tail(inbound)
  PROVE  QueuedOK'
<1>1. inbound \in Seq(Messages) /\ Len(inbound) \in Nat BY DEF Types
<1>2. Len(inbound') = Len(inbound) - 1 BY <1>1
<1>3. ASSUME NEW i \in 1..Len(inbound')
      PROVE  i + 1 \in 1..Len(inbound) /\ inbound'[i] = inbound[i + 1]
  BY <1>1, <1>2, <1>3
<1> QED BY <1>3 DEF QueuedOK

(* A queue to which at most a message is added that is no report, or the   *)
(* report of a task that has just made it.                                 *)
LEMMA Enqueued ==
  ASSUME Types, NEW m \in Messages, Enqueue(m)
  PROVE  /\ inbound' \in Seq(Messages) /\ Len(inbound') <= Capacity
         /\ \A i \in 1..Len(inbound') :
              \/ i \in 1..Len(inbound) /\ inbound'[i] = inbound[i]
              \/ inbound'[i] = m
<1>1. inbound \in Seq(Messages) /\ Len(inbound) \in Nat BY DEF Types
<1>2. inbound' = Append(inbound, m) /\ Len(inbound) < Capacity BY DEF Enqueue
<1> QED BY <1>1, <1>2, Bounds

-----------------------------------------------------------------------------
(* The rounds. *)

LEMMA UserSendsKeeps == ASSUME SubInv, NEW c \in UserChats, UserSends(c) PROVE SubInv'
<1> DEFINE m == [task |-> Free, chat |-> c, status |-> ""]
<1>0. Types /\ LockOK /\ (\A t \in Tasks : TaskOK(t)) /\ QueuedOK /\ SlotsInv /\ ChatOK
  BY DEF SubInv
<1>1. m \in Messages BY DEF Messages, Statuses, Chats
<1>2. Enqueue(m) /\ UNCHANGED <<managerVars, roundVars, done>> BY DEF UserSends
<1>3. /\ inbound' \in Seq(Messages) /\ Len(inbound') <= Capacity
      /\ \A i \in 1..Len(inbound') :
           (i \in 1..Len(inbound) /\ inbound'[i] = inbound[i]) \/ inbound'[i] = m
  BY <1>0, <1>1, <1>2, Enqueued
<1>4. Types' BY <1>0, <1>2, <1>3 DEF Types, managerVars, roundVars
<1>5. QueuedOK'
  <2>1. m.task \notin Tasks BY FreeIsNoTask
  <2> HIDE DEF m
  <2>2. UNCHANGED <<status, reported>> BY <1>2 DEF managerVars
  <2> QED BY <2>1, <2>2, <1>0, <1>3 DEF QueuedOK
<1>6. SlotsInv' BY <1>0, <1>2, SlotsKept DEF managerVars
<1>7. LockOK' /\ \A t \in Tasks : TaskOK(t)' BY <1>0, <1>2, TasksKept
<1>8. ChatOK' BY <1>0, <1>2, ChatKept
<1> QED BY <1>4, <1>5, <1>6, <1>7, <1>8 DEF SubInv

LEMMA ConsumeKeeps == ASSUME SubInv, Consume PROVE SubInv'
<1>0. Types /\ LockOK /\ (\A t \in Tasks : TaskOK(t)) /\ QueuedOK /\ SlotsInv /\ ChatOK
  BY DEF SubInv
<1>1. /\ Loop \in Spawners /\ at[Loop] = "idle" /\ inbound # <<>> /\ inbound' = Tail(inbound)
      /\ chat' = [chat EXCEPT ![Loop] = Head(inbound).chat]
      /\ at' = [at EXCEPT ![Loop] = "context"]
      /\ UNCHANGED <<managerVars, originChat, from, crossed, done>>
  BY DEF Consume, Goto
<1>2. Head(inbound) \in Messages /\ Tail(inbound) \in Seq(Messages) /\ Len(Tail(inbound)) <= Capacity
  <2>1. inbound \in Seq(Messages) /\ Len(inbound) \in Nat /\ Len(inbound) <= Capacity
    BY <1>0 DEF Types
  <2> QED BY <2>1, <1>1, Bounds
<1>3. Head(inbound).chat \in Chats \cup {None} BY <1>2 DEF Messages
<1>4. Types' BY <1>0, <1>1, <1>2, <1>3 DEF Types, managerVars
<1>5. QueuedOK' BY <1>0, <1>1, QueuedTaken DEF managerVars
<1>6. SlotsInv' BY <1>0, <1>1, SlotsKept DEF managerVars
<1>7. LockOK' /\ \A t \in Tasks : TaskOK(t)' BY <1>0, <1>1, TasksKept
<1>8. ChatOK' BY <1>0, <1>1 DEF ChatOK, Types
<1> QED BY <1>4, <1>5, <1>6, <1>7, <1>8 DEF SubInv

LEMMA JobStartsKeeps == ASSUME SubInv, NEW c \in JobChats, JobStarts(c) PROVE SubInv'
<1>0. Types /\ LockOK /\ (\A t \in Tasks : TaskOK(t)) /\ QueuedOK /\ SlotsInv /\ ChatOK
  BY DEF SubInv
<1>1. /\ Cron \in Spawners /\ at[Cron] = "idle"
      /\ chat' = [chat EXCEPT ![Cron] = c]
      /\ at' = [at EXCEPT ![Cron] = "context"]
      /\ UNCHANGED <<managerVars, inbound, originChat, from, crossed, done>>
  BY DEF JobStarts, Goto
<1>2. Types' BY <1>0, <1>1 DEF Types, managerVars, Chats
<1>3. QueuedOK' BY <1>0, <1>1, QueuedKept DEF managerVars
<1>4. SlotsInv' BY <1>0, <1>1, SlotsKept DEF managerVars
<1>5. LockOK' /\ \A t \in Tasks : TaskOK(t)' BY <1>0, <1>1, TasksKept
<1>6. ChatOK' BY <1>0, <1>1 DEF ChatOK, Types
<1> QED BY <1>2, <1>3, <1>4, <1>5, <1>6 DEF SubInv

(* A step of a round that touches no subagent. *)
LEMMA RoundStep ==
  ASSUME SubInv, UNCHANGED <<managerVars, inbound, done>>, ChatOK',
         originChat' \in Chats \cup {None},
         at' \in [Spawners -> {"idle", "context", "round", "called", "spawn"}],
         chat' \in [Spawners -> Chats \cup {None}],
         from' \in [Spawners -> Chats \cup {None}],
         crossed' \in [Spawners -> BOOLEAN]
  PROVE  SubInv'
<1>0. Types /\ LockOK /\ (\A t \in Tasks : TaskOK(t)) /\ QueuedOK /\ SlotsInv BY DEF SubInv
<1>1. Types' BY <1>0 DEF Types, managerVars
<1>2. QueuedOK' BY <1>0, QueuedKept DEF managerVars
<1>3. SlotsInv' BY <1>0, SlotsKept DEF managerVars
<1>4. LockOK' /\ \A t \in Tasks : TaskOK(t)' BY <1>0, TasksKept
<1> QED BY <1>1, <1>2, <1>3, <1>4 DEF SubInv

LEMMA SetContextKeeps == ASSUME SubInv, NEW p \in Spawners, SetContext(p) PROVE SubInv'
<1>0. Types /\ ChatOK BY DEF SubInv
<1>1. /\ at[p] \in {"context", "round"} /\ originChat' = chat[p]
      /\ crossed' = [q \in Spawners |-> q # p /\ (crossed[q] \/ at[q] = "called")]
      /\ at' = [at EXCEPT ![p] = IF at[p] = "context" THEN "round" ELSE "called"]
      /\ UNCHANGED <<managerVars, inbound, chat, from, done>>
  BY DEF SetContext, Goto, Context
<1>2. /\ originChat' \in Chats \cup {None} /\ crossed' \in [Spawners -> BOOLEAN]
      /\ at' \in [Spawners -> {"idle", "context", "round", "called", "spawn"}]
  BY <1>0, <1>1 DEF Types
<1>3. ASSUME NEW q \in Spawners
      PROVE  /\ at'[q] = "called" /\ ~crossed'[q] => originChat' = chat'[q]
             /\ at'[q] = "spawn" /\ ~crossed'[q] => from'[q] = chat'[q]
  <2>1. CASE q = p BY <2>1, <1>0, <1>1 DEF Types
  <2>2. CASE q # p BY <2>2, <1>0, <1>1 DEF Types, ChatOK
  <2> QED BY <2>1, <2>2
<1>4. ChatOK' BY <1>3 DEF ChatOK
<1> QED BY <1>0, <1>1, <1>2, <1>4, RoundStep DEF Types

LEMMA ExecuteKeeps == ASSUME SubInv, NEW p \in Spawners, Execute(p) PROVE SubInv'
<1>0. Types /\ ChatOK BY DEF SubInv
<1>1. /\ at[p] = "called" /\ from' = [from EXCEPT ![p] = originChat]
      /\ at' = [at EXCEPT ![p] = "spawn"]
      /\ UNCHANGED <<managerVars, inbound, originChat, chat, crossed, done>>
  BY DEF Execute, Goto
<1>2. ChatOK' BY <1>0, <1>1 DEF ChatOK, Types
<1> QED BY <1>0, <1>1, <1>2, RoundStep DEF Types

LEMMA EndRoundKeeps == ASSUME SubInv, NEW p \in Spawners, EndRound(p) PROVE SubInv'
<1>0. Types /\ ChatOK BY DEF SubInv
<1>1. /\ at[p] = "round" /\ chat' = [chat EXCEPT ![p] = None]
      /\ at' = [at EXCEPT ![p] = "idle"]
      /\ UNCHANGED <<managerVars, inbound, originChat, from, crossed, done>>
  BY DEF EndRound, Goto
<1>2. ChatOK' BY <1>0, <1>1 DEF ChatOK, Types
<1> QED BY <1>0, <1>1, <1>2, RoundStep DEF Types

(* The tool returns to its round, with nothing read any more. *)
LEMMA Returned ==
  ASSUME Types, ChatOK, NEW p \in Spawners, at[p] = "spawn", Returns(p),
         UNCHANGED <<originChat, chat>>
  PROVE  /\ at' \in [Spawners -> {"idle", "context", "round", "called", "spawn"}]
         /\ from' \in [Spawners -> Chats \cup {None}]
         /\ crossed' \in [Spawners -> BOOLEAN]
         /\ ChatOK'
<1>1. /\ at' = [at EXCEPT ![p] = "round"] /\ from' = [from EXCEPT ![p] = None]
      /\ crossed' = [crossed EXCEPT ![p] = FALSE]
  BY DEF Returns, Goto
<1>2. ChatOK' BY <1>1 DEF ChatOK, Types
<1> QED BY <1>1, <1>2 DEF Types

LEMMA TooManyKeeps == ASSUME SubInv, NEW p \in Spawners, TooMany(p) PROVE SubInv'
<1>0. Types /\ ChatOK BY DEF SubInv
<1>1. /\ at[p] = "spawn" /\ Returns(p)
      /\ UNCHANGED <<managerVars, inbound, originChat, chat, done>>
  BY DEF TooMany
<1> QED BY <1>0, <1>1, Returned, RoundStep DEF Types

LEMMA SpawnKeeps ==
  ASSUME SubInv, NEW p \in Spawners, NEW t \in Tasks, Spawn(p, t) PROVE SubInv'
<1>0. Types /\ LockOK /\ (\A u \in Tasks : TaskOK(u)) /\ QueuedOK /\ SlotsInv /\ ChatOK
  BY DEF SubInv
<1>1. /\ at[p] = "spawn" /\ activeCount < MaxConcurrent /\ pc[t] = "none"
      /\ activeCount' = activeCount + 1
      /\ status' = [status EXCEPT ![t] = "running"]
      /\ origin' = [origin EXCEPT ![t] = from[p]]
      /\ pc' = [pc EXCEPT ![t] = "started"]
      /\ Returns(p)
      /\ UNCHANGED <<mu, inbound, originChat, chat, done, reported>>
  BY DEF Spawn, HasRoom
<1>2. /\ activeCount' \in 0..MaxConcurrent
      /\ status' \in [Tasks -> Statuses]
      /\ origin' \in [Tasks -> Chats \cup {None}]
      /\ pc' \in [Tasks -> {"none", "started", "running", "announcing", "leaving", "gone"}]
  <2>1. activeCount' \in 0..MaxConcurrent BY <1>0, <1>1, Bounds DEF Types
  <2>2. "running" \in Statuses BY DEF Statuses
  <2>3. status' \in [Tasks -> Statuses] BY <2>2, <1>0, <1>1 DEF Types
  <2> QED BY <2>1, <2>3, <1>0, <1>1 DEF Types
<1>3. /\ at' \in [Spawners -> {"idle", "context", "round", "called", "spawn"}]
      /\ from' \in [Spawners -> Chats \cup {None}]
      /\ crossed' \in [Spawners -> BOOLEAN] /\ ChatOK'
  BY <1>0, <1>1, Returned
<1>4. Types' BY <1>0, <1>1, <1>2, <1>3 DEF Types
<1>5. LockOK' BY <1>0, <1>1 DEF LockOK, Types
<1>6. \A u \in Tasks : TaskOK(u)' BY <1>0, <1>1 DEF TaskOK, Types
<1>7. QueuedOK'
  <2>1. reported[t] = 0 BY <1>0, <1>1 DEF TaskOK
  <2> QED BY <2>1, <1>0, <1>1 DEF QueuedOK, Types
<1>8. SlotsInv'
  <2>1. t \notin AliveTasks BY <1>1 DEF AliveTasks, Alive
  <2>2. ASSUME NEW u \in Tasks PROVE Alive(u)' <=> u = t \/ Alive(u)
    BY <1>0, <1>1 DEF Alive, Types
  <2>3. AliveTasks' = AliveTasks \cup {t} BY <2>2 DEF AliveTasks
  <2>4. activeCount = Cardinality(AliveTasks) /\ IsFiniteSet(AliveTasks)
    BY <1>0 DEF SlotsInv, SlotsMatchGoroutines, AliveTasks
  <2>5. IsFiniteSet(AliveTasks') /\ activeCount' = Cardinality(AliveTasks')
    BY <1>1, <2>1, <2>3, <2>4, FS_AddElement
  <2> QED BY <2>5 DEF SlotsInv, SlotsMatchGoroutines, AliveTasks
<1> QED BY <1>3, <1>4, <1>5, <1>6, <1>7, <1>8 DEF SubInv

LEMMA CancelKeeps == ASSUME SubInv, Cancel PROVE SubInv'
<1>0. Types /\ LockOK /\ (\A t \in Tasks : TaskOK(t)) /\ QueuedOK /\ SlotsInv /\ ChatOK
  BY DEF SubInv
<1>1. done' \in BOOLEAN /\ UNCHANGED <<managerVars, roundVars, inbound>> BY DEF Cancel
<1>2. Types' BY <1>0, <1>1 DEF Types, managerVars, roundVars
<1>3. QueuedOK' BY <1>0, <1>1, QueuedKept DEF managerVars
<1>4. SlotsInv' BY <1>0, <1>1, SlotsKept DEF managerVars
<1>5. LockOK' /\ \A t \in Tasks : TaskOK(t)' BY <1>0, <1>1, TasksKept
<1>6. ChatOK' BY <1>0, <1>1, ChatKept
<1> QED BY <1>2, <1>3, <1>4, <1>5, <1>6 DEF SubInv

-----------------------------------------------------------------------------
(* runTask. *)

LEMMA CancelledBeforeKeeps ==
  ASSUME SubInv, NEW t \in Tasks, CancelledBefore(t) PROVE SubInv'
<1>0. Types /\ LockOK /\ (\A u \in Tasks : TaskOK(u)) /\ QueuedOK /\ SlotsInv /\ ChatOK
  BY DEF SubInv
<1>1. /\ pc[t] = "started" /\ pc' = [pc EXCEPT ![t] = "leaving"]
      /\ status' = [status EXCEPT ![t] = "cancelled"]
      /\ UNCHANGED <<mu, activeCount, origin, reported, inbound, roundVars, done>>
  BY DEF CancelledBefore, Step, AfterCancelled
<1>2. /\ status' \in [Tasks -> Statuses]
      /\ pc' \in [Tasks -> {"none", "started", "running", "announcing", "leaving", "gone"}]
  <2>1. "cancelled" \in Statuses BY DEF Statuses
  <2> QED BY <2>1, <1>0, <1>1 DEF Types
<1>3. Types' BY <1>0, <1>1, <1>2 DEF Types, roundVars
<1>4. LockOK' BY <1>0, <1>1 DEF LockOK, Types
<1>5. \A u \in Tasks : TaskOK(u)' BY <1>0, <1>1 DEF TaskOK, Types
<1>6. QueuedOK'
  <2>1. reported[t] = 0 BY <1>0, <1>1 DEF TaskOK
  <2> QED BY <2>1, <1>0, <1>1 DEF QueuedOK, Types
<1>7. SlotsInv' BY <1>0, <1>1, SlotsStep DEF Types, Alive
<1>8. ChatOK' BY <1>0, <1>1, ChatKept
<1> QED BY <1>3, <1>4, <1>5, <1>6, <1>7, <1>8 DEF SubInv

LEMMA RunToolLoopKeeps ==
  ASSUME SubInv, NEW t \in Tasks, RunToolLoop(t) PROVE SubInv'
<1>0. Types /\ LockOK /\ (\A u \in Tasks : TaskOK(u)) /\ QueuedOK /\ SlotsInv /\ ChatOK
  BY DEF SubInv
<1>1. /\ pc[t] = "started" /\ pc' = [pc EXCEPT ![t] = "running"]
      /\ UNCHANGED <<mu, activeCount, status, origin, reported, inbound, roundVars, done>>
  BY DEF RunToolLoop, Step
<1>2. Types' BY <1>0, <1>1 DEF Types, roundVars
<1>3. LockOK' BY <1>0, <1>1 DEF LockOK, Types
<1>4. \A u \in Tasks : TaskOK(u)' BY <1>0, <1>1 DEF TaskOK, Types
<1>5. QueuedOK' BY <1>0, <1>1, QueuedKept
<1>6. SlotsInv' BY <1>0, <1>1, SlotsStep DEF Types, Alive
<1>7. ChatOK' BY <1>0, <1>1, ChatKept
<1> QED BY <1>2, <1>3, <1>4, <1>5, <1>6, <1>7 DEF SubInv

LEMMA FinishKeeps ==
  ASSUME SubInv, NEW t \in Tasks, NEW failed \in BOOLEAN, Finish(t, failed) PROVE SubInv'
<1> DEFINE ended == IF ~failed THEN "completed" ELSE IF done THEN "cancelled" ELSE "failed"
<1>0. Types /\ LockOK /\ (\A u \in Tasks : TaskOK(u)) /\ QueuedOK /\ SlotsInv /\ ChatOK
  BY DEF SubInv
<1>1. /\ mu = Free /\ pc[t] = "running" /\ pc' = [pc EXCEPT ![t] = "announcing"]
      /\ mu' = t /\ status' = [status EXCEPT ![t] = ended]
      /\ UNCHANGED <<activeCount, origin, reported, inbound, roundVars, done>>
  BY DEF Finish, Step
<1>2. ended \in {"completed", "failed", "cancelled"} OBVIOUS
<1> HIDE DEF ended
<1>3. /\ status' \in [Tasks -> Statuses] /\ mu' \in Tasks \cup {Free}
      /\ pc' \in [Tasks -> {"none", "started", "running", "announcing", "leaving", "gone"}]
  <2>1. ended \in Statuses BY <1>2 DEF Statuses
  <2> QED BY <2>1, <1>0, <1>1 DEF Types
<1>4. Types' BY <1>0, <1>1, <1>3 DEF Types, roundVars
<1>5. LockOK' BY <1>0, <1>1, FreeIsNoTask DEF LockOK, Types
<1>6. \A u \in Tasks : TaskOK(u)' BY <1>0, <1>1, <1>2 DEF TaskOK, Types
<1>7. QueuedOK'
  <2>1. reported[t] = 0 BY <1>0, <1>1 DEF TaskOK
  <2> QED BY <2>1, <1>0, <1>1 DEF QueuedOK, Types
<1>8. SlotsInv' BY <1>0, <1>1, SlotsStep DEF Types, Alive
<1>9. ChatOK' BY <1>0, <1>1, ChatKept
<1> QED BY <1>4, <1>5, <1>6, <1>7, <1>8, <1>9 DEF SubInv

LEMMA AnnounceKeeps ==
  ASSUME SubInv, NEW t \in Tasks, Announce(t) PROVE SubInv'
<1> DEFINE m == Report(t)
<1>0. Types /\ LockOK /\ (\A u \in Tasks : TaskOK(u)) /\ QueuedOK /\ SlotsInv /\ ChatOK
  BY DEF SubInv
<1>1. /\ pc[t] = "announcing" /\ pc' = [pc EXCEPT ![t] = "leaving"] /\ Enqueue(m)
      /\ mu' = Free
      /\ UNCHANGED <<activeCount, status, origin, roundVars, done>>
  BY DEF Announce, Step, Released
<1>2. m \in Messages /\ m.task = t /\ m.status = status[t]
  BY <1>0 DEF Report, Messages, Types
<1> HIDE DEF m
<1>3. /\ inbound' \in Seq(Messages) /\ Len(inbound') <= Capacity
      /\ \A i \in 1..Len(inbound') :
           (i \in 1..Len(inbound) /\ inbound'[i] = inbound[i]) \/ inbound'[i] = m
  BY <1>0, <1>1, <1>2, Enqueued
<1>4. reported' = [reported EXCEPT ![t] = @ + 1]
  <2>1. inbound' = Append(inbound, m) BY <1>1 DEF Enqueue
  <2>2. inbound \in Seq(Messages) /\ Len(inbound) \in Nat BY <1>0 DEF Types
  <2>3. Len(inbound') # Len(inbound) BY <1>2, <2>1, <2>2
  <2> QED BY <2>3 DEF Announce
<1>5. reported[t] = 0 /\ reported' = [reported EXCEPT ![t] = 1]
  <2>1. reported[t] = 0 BY <1>0, <1>1 DEF TaskOK
  <2> QED BY <2>1, <1>4
<1>6. /\ pc' \in [Tasks -> {"none", "started", "running", "announcing", "leaving", "gone"}]
      /\ reported' \in [Tasks -> Nat]
  BY <1>0, <1>1, <1>5 DEF Types
<1>7. Types' BY <1>0, <1>1, <1>3, <1>6 DEF Types, roundVars
<1>8. LockOK' BY <1>0, <1>1 DEF LockOK, Types
<1>9. \A u \in Tasks : TaskOK(u)' BY <1>0, <1>1, <1>5 DEF TaskOK, Types
<1>10. QueuedOK' BY <1>0, <1>1, <1>2, <1>3, <1>5 DEF QueuedOK, Types
<1>11. SlotsInv' BY <1>0, <1>1, SlotsStep DEF Types, Alive
<1>12. ChatOK' BY <1>0, <1>1, ChatKept
<1> QED BY <1>7, <1>8, <1>9, <1>10, <1>11, <1>12 DEF SubInv

LEMMA LeaveKeeps ==
  ASSUME SubInv, NEW t \in Tasks, Leave(t) PROVE SubInv'
<1>0. Types /\ LockOK /\ (\A u \in Tasks : TaskOK(u)) /\ QueuedOK /\ SlotsInv /\ ChatOK
  BY DEF SubInv
<1>1. /\ pc[t] = "leaving" /\ pc' = [pc EXCEPT ![t] = "gone"]
      /\ activeCount' = activeCount - 1
      /\ UNCHANGED <<mu, status, origin, reported, inbound, roundVars, done>>
  BY DEF Leave, Step
<1>2. SlotsInv' /\ activeCount' \in 0..MaxConcurrent
  <2>1. t \in AliveTasks BY <1>1 DEF AliveTasks, Alive
  <2>2. ASSUME NEW u \in Tasks PROVE Alive(u)' <=> u # t /\ Alive(u)
    BY <1>0, <1>1 DEF Alive, Types
  <2>3. AliveTasks' = AliveTasks \ {t} BY <2>2 DEF AliveTasks
  <2>4. activeCount = Cardinality(AliveTasks) /\ IsFiniteSet(AliveTasks)
    BY <1>0 DEF SlotsInv, SlotsMatchGoroutines, AliveTasks
  <2>5. IsFiniteSet(AliveTasks') /\ activeCount' = Cardinality(AliveTasks')
    BY <1>1, <2>1, <2>3, <2>4, FS_RemoveElement
  <2>6. Cardinality(AliveTasks') \in Nat BY <2>5, FS_CardinalityType
  <2>7. activeCount' \in 0..MaxConcurrent BY <1>0, <1>1, <2>5, <2>6, Bounds DEF Types
  <2> QED BY <2>5, <2>7 DEF SlotsInv, SlotsMatchGoroutines, AliveTasks
<1>3. Types' BY <1>0, <1>1, <1>2 DEF Types, roundVars
<1>4. LockOK' BY <1>0, <1>1 DEF LockOK, Types
<1>5. \A u \in Tasks : TaskOK(u)' BY <1>0, <1>1 DEF TaskOK, Types
<1>6. QueuedOK' BY <1>0, <1>1, QueuedKept
<1>7. ChatOK' BY <1>0, <1>1, ChatKept
<1> QED BY <1>2, <1>3, <1>4, <1>5, <1>6, <1>7 DEF SubInv

-----------------------------------------------------------------------------
LEMMA SubStep == SubInv /\ [Next]_vars => SubInv'
<1> SUFFICES ASSUME SubInv, [Next]_vars PROVE SubInv' OBVIOUS
<1>1. ASSUME NEW c \in UserChats, UserSends(c) PROVE SubInv' BY <1>1, UserSendsKeeps
<1>2. ASSUME NEW c \in JobChats, JobStarts(c) PROVE SubInv' BY <1>2, JobStartsKeeps
<1>3. CASE Consume BY <1>3, ConsumeKeeps
<1>4. CASE Cancel BY <1>4, CancelKeeps
<1>5. ASSUME NEW p \in Spawners, SpawnerNext(p) PROVE SubInv'
  BY <1>5, SetContextKeeps, ExecuteKeeps, TooManyKeeps, EndRoundKeeps, SpawnKeeps
  DEF SpawnerNext
<1>6. ASSUME NEW t \in Tasks, RunsTask(t) PROVE SubInv'
  BY <1>6, CancelledBeforeKeeps, RunToolLoopKeeps, FinishKeeps, AnnounceKeeps, LeaveKeeps
  DEF RunsTask
<1>7. CASE UNCHANGED vars
  <2>1. UNCHANGED <<managerVars, roundVars, inbound, done>>
    BY <1>7 DEF vars, managerVars, roundVars
  <2>2. Types /\ LockOK /\ (\A u \in Tasks : TaskOK(u)) /\ QueuedOK /\ SlotsInv /\ ChatOK
    BY DEF SubInv
  <2>3. Types' BY <2>1, <2>2 DEF Types, managerVars, roundVars
  <2>4. QueuedOK' BY <2>1, <2>2, QueuedKept DEF managerVars
  <2>5. SlotsInv' BY <2>1, <2>2, SlotsKept DEF managerVars
  <2>6. LockOK' /\ \A t \in Tasks : TaskOK(t)' BY <2>1, <2>2, TasksKept
  <2>7. ChatOK' BY <2>1, <2>2, ChatKept
  <2> QED BY <2>3, <2>4, <2>5, <2>6, <2>7 DEF SubInv
<1> QED BY <1>1, <1>2, <1>3, <1>4, <1>5, <1>6, <1>7 DEF Next

(* The inductive invariant holds throughout. *)
THEOREM SubInvariant == Spec => []SubInv
<1>1. Init => SubInv BY SubInit
<1>2. SubInv /\ [Next]_vars => SubInv' BY SubStep
<1> QED BY <1>1, <1>2, PTL DEF Spec

(* Every variable keeps its type, and the manager never counts more        *)
(* subagents than its limit (subagent.go:94-100).                          *)
THEOREM SubagentsTypeCorrect == Spec => []TypeOK
<1>1. SubInv => TypeOK
  <2> SUFFICES ASSUME Types PROVE TypeOK BY DEF SubInv
  <2> QED BY DEF Types, TypeOK, Statuses
<1> QED BY <1>1, SubInvariant, PTL

(* However subagents end, their number is what the manager counts: the     *)
(* limit neither leaks nor is passed (subagent.go:94-100, 124-128).        *)
THEOREM SlotsNeverLeak == Spec => []SlotsMatchGoroutines
<1>1. SubInv => SlotsMatchGoroutines BY DEF SubInv, SlotsInv
<1> QED BY <1>1, SubInvariant, PTL

(* A subagent that left has reported exactly once, unless it was cancelled *)
(* before it ran, and a queued report tells how its subagent ended         *)
(* (subagent.go:150-158, 199-242).                                         *)
THEOREM WhoLeftHasReported == Spec => []LeftMeansReported
<1>1. SubInv => LeftMeansReported
  <2> SUFFICES ASSUME SubInv PROVE LeftMeansReported OBVIOUS
  <2>1. Types /\ (\A t \in Tasks : TaskOK(t)) /\ QueuedOK BY DEF SubInv
  <2>2. ASSUME NEW t \in Tasks, reported[t] > 0
        PROVE  reported[t] = 1 /\ status[t] # "running"
    <3>1. TaskOK(t) BY <2>1
    <3>2. pc[t] \in {"none", "started", "running", "announcing", "leaving", "gone"}
      BY <2>1 DEF Types
    <3>3. reported[t] # 0 BY <2>2, SMT
    <3> QED BY <3>1, <3>2, <3>3 DEF TaskOK
  <2>3. ASSUME NEW t \in Tasks, pc[t] \in {"leaving", "gone"}
        PROVE  reported[t] = 1 \/ (reported[t] = 0 /\ status[t] = "cancelled")
    BY <2>1, <2>3 DEF TaskOK
  <2> QED BY <2>1, <2>2, <2>3 DEF LeftMeansReported, QueuedOK
<1> QED BY <1>1, SubInvariant, PTL

(* A report names the chat of the round that spawned its subagent, however *)
(* many rounds overlap, unless another one has set the context in between  *)
(* (subagent.go:238, registry.go:66-69, spawn.go:55-58).                   *)
THEOREM ReportsGoHome == Spec => ReportGoesHome
<1> DEFINE Home == \A p \in Spawners, t \in Tasks :
                     at[p] = "spawn" /\ at'[p] # "spawn" /\ pc[t] # pc'[t] /\ ~crossed[p] =>
                       origin'[t] = chat[p]
<1>1. SubInv /\ [Next]_vars => [Home]_vars
  <2> SUFFICES ASSUME SubInv, Next,
                      NEW p \in Spawners, NEW t \in Tasks, at[p] = "spawn", at'[p] # "spawn",
                      pc[t] # pc'[t], ~crossed[p]
               PROVE  origin'[t] = chat[p]
    OBVIOUS
  <2>1. Types /\ ChatOK BY DEF SubInv
  <2>2. \A q \in Spawners, u \in Tasks : Spawn(q, u) => origin'[t] = chat[p]
    <3> SUFFICES ASSUME NEW q \in Spawners, NEW u \in Tasks, Spawn(q, u)
                 PROVE  origin'[t] = chat[p]
      OBVIOUS
    <3>1. /\ pc' = [pc EXCEPT ![u] = "started"] /\ origin' = [origin EXCEPT ![u] = from[q]]
          /\ at' = [at EXCEPT ![q] = "round"]
      BY DEF Spawn, Returns, Goto
    <3>2. u = t /\ q = p BY <2>1, <3>1 DEF Types
    <3> QED BY <2>1, <3>1, <3>2 DEF Types, ChatOK
  <2>3. ASSUME NEW q \in Spawners, SpawnerNext(q) PROVE origin'[t] = chat[p]
    BY <2>2, <2>3
    DEF SpawnerNext, SetContext, Execute, TooMany, EndRound, managerVars
  <2>4. \A u \in Tasks : RunsTask(u) => at' = at
    BY DEF RunsTask, CancelledBefore, RunToolLoop, Finish, Announce, Leave, roundVars
  <2>5. \A c : UserSends(c) \/ JobStarts(c) \/ Consume \/ Cancel => pc' = pc
    BY DEF UserSends, JobStarts, Consume, Cancel, managerVars
  <2> QED BY <2>3, <2>4, <2>5 DEF Next
<1> QED BY <1>1, SubInvariant, PTL DEF Spec, ReportGoesHome
=============================================================================
