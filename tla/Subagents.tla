------------------------------ MODULE Subagents ------------------------------
(***************************************************************************)
(* SubagentManager and the spawn tool: rounds of the agent (the message    *)
(* loop's, which is also the only consumer of the inbound channel, and a   *)
(* cron job's) start subagents, which run in goroutines of their own and   *)
(* report back with a message on that channel.  A subagent publishes its   *)
(* report while it holds the manager's lock, which Spawn needs too.        *)
(*                                                                         *)
(* The tool's channel and chat ID are one field here, written at once;     *)
(* the lock's readers, who hold it for one step, take it like writers.     *)
(* The bus stays open.                                                     *)
(***************************************************************************)
EXTENDS Naturals, Sequences, FiniteSets

CONSTANTS Loop, Cron,     \* the goroutines whose rounds may spawn
          Spawners,       \* those of them that take part
          MaxTasks,       \* bound: subagents ever spawned
          UserChats,      \* where messages come from
          JobChats,       \* where jobs belong
          None,           \* no chat
          MaxConcurrent,  \* the manager's limit
          Capacity,       \* slots of the inbound channel
          MaxSent,        \* bound: messages the channels send to the agent
          MaxJobs,        \* bound: cron rounds
          MayCancel       \* the context may be cancelled

Chats == UserChats \cup JobChats
Tasks == 1..MaxTasks      \* numbered by nextID
Free == 0                 \* the lock is held by nobody

ASSUME SpawnersAssumption == Spawners \subseteq {Loop, Cron} /\ Loop # Cron
ASSUME NoneAssumption == None \notin Chats
ASSUME LimitAssumption == MaxConcurrent \in Nat \ {0} /\ Capacity \in Nat \ {0}
ASSUME BoundAssumption == {MaxTasks, MaxSent, MaxJobs} \subseteq Nat

VARIABLES mu,           \* the manager's lock
          activeCount,
          status,       \* of each subagent, "" before it is spawned
          origin,       \* of each subagent, the chat its report names
          pc,           \* where each subagent is
          inbound,      \* the inbound channel
          originChat,   \* the spawn tool's field
          at,           \* where each spawner is
          chat,         \* the chat of its round
          from,         \* what it read from the field
          sent, jobs, done,
          crossed,      \* history: another context came between a
                        \* spawner's own and its read of the field
          reported      \* history: the reports accepted by the channel

managerVars == <<mu, activeCount, status, origin, pc, reported>>
roundVars == <<originChat, at, chat, from, crossed>>
vars == <<mu, activeCount, status, origin, pc, inbound, originChat, at, chat, from,
          crossed, sent, jobs, done, reported>>

Report(t) == [task |-> t, chat |-> origin[t], status |-> status[t]]

Init ==
  /\ mu = Free
  /\ activeCount = 0
  /\ status = [t \in Tasks |-> ""]
  /\ origin = [t \in Tasks |-> None]
  /\ pc = [t \in Tasks |-> "none"]
  /\ inbound = <<>>
  /\ originChat = None
  /\ at = [p \in Spawners |-> "idle"]
  /\ chat = [p \in Spawners |-> None]
  /\ from = [p \in Spawners |-> None]
  /\ crossed = [p \in Spawners |-> FALSE]
  /\ sent = 0 /\ jobs = 0 /\ done = FALSE
  /\ reported = [t \in Tasks |-> 0]

-----------------------------------------------------------------------------
(* Rounds. *)

Goto(p, label) == at' = [at EXCEPT ![p] = label]

(* PublishInbound: the sender waits for room.  (Faulty form: it gives up.) *)
EnqueueOrDrop(m) == inbound' = IF Len(inbound) < Capacity THEN Append(inbound, m) ELSE inbound
Enqueue(m) == Len(inbound) < Capacity /\ inbound' = Append(inbound, m)

(* A channel hands a message to the bus. *)
UserSends(c) ==
  /\ sent < MaxSent
  /\ sent' = sent + 1
  /\ Enqueue([task |-> Free, chat |-> c, status |-> ""])
  /\ UNCHANGED <<managerVars, roundVars, jobs, done>>

(* Run takes the next message, a user's or a report, and starts its round. *)
Consume ==
  /\ Loop \in Spawners
  /\ at[Loop] = "idle"
  /\ ~done
  /\ inbound # <<>>
  /\ chat' = [chat EXCEPT ![Loop] = Head(inbound).chat]
  /\ inbound' = Tail(inbound)
  /\ Goto(Loop, "context")
  /\ UNCHANGED <<managerVars, originChat, from, crossed, sent, jobs, done>>

JobStarts(c) ==
  /\ Cron \in Spawners
  /\ at[Cron] = "idle"
  /\ jobs < MaxJobs
  /\ jobs' = jobs + 1
  /\ chat' = [chat EXCEPT ![Cron] = c]
  /\ Goto(Cron, "context")
  /\ UNCHANGED <<managerVars, inbound, originChat, from, crossed, sent, done>>

(* SetContext, when the round begins and again when the LLM calls spawn.   *)
(* (Faulty form: the first context stays.)                                 *)
FirstContext(c) == IF originChat = None THEN c ELSE originChat
Context(c) == c

SetContext(p) ==
  /\ at[p] \in {"context", "round"}
  /\ originChat' = Context(chat[p])
  /\ crossed' = [q \in Spawners |-> q # p /\ (crossed[q] \/ at[q] = "called")]
  /\ Goto(p, IF at[p] = "context" THEN "round" ELSE "called")
  /\ UNCHANGED <<managerVars, inbound, chat, from, sent, jobs, done>>

(* The tool reads the field before it asks for the lock. *)
Execute(p) ==
  /\ at[p] = "called"
  /\ from' = [from EXCEPT ![p] = originChat]
  /\ Goto(p, "spawn")
  /\ UNCHANGED <<managerVars, inbound, originChat, chat, crossed, sent, jobs, done>>

(* Whether the manager takes one more. *)
HasRoom == activeCount < MaxConcurrent

(* The tool returns to the round. *)
Returns(p) ==
  /\ Goto(p, "round")
  /\ from' = [from EXCEPT ![p] = None]
  /\ crossed' = [crossed EXCEPT ![p] = FALSE]

Spawn(p, t) ==
  /\ at[p] = "spawn"
  /\ mu = Free
  /\ HasRoom
  /\ pc[t] = "none"
  /\ \A u \in Tasks : u < t => pc[u] # "none"
  /\ activeCount' = activeCount + 1
  /\ status' = [status EXCEPT ![t] = "running"]
  /\ origin' = [origin EXCEPT ![t] = from[p]]
  /\ pc' = [pc EXCEPT ![t] = "started"]
  /\ Returns(p)
  /\ UNCHANGED <<mu, inbound, originChat, chat, sent, jobs, done, reported>>

(* The limit is reached, or the bound MaxTasks. *)
TooMany(p) ==
  /\ at[p] = "spawn"
  /\ mu = Free
  /\ ~HasRoom \/ \A t \in Tasks : pc[t] # "none"
  /\ Returns(p)
  /\ UNCHANGED <<managerVars, inbound, originChat, chat, sent, jobs, done>>

EndRound(p) ==
  /\ at[p] = "round"
  /\ Goto(p, "idle")
  /\ chat' = [chat EXCEPT ![p] = None]
  /\ UNCHANGED <<managerVars, inbound, originChat, from, crossed, sent, jobs, done>>

Cancel ==
  /\ MayCancel
  /\ ~done
  /\ done' = TRUE
  /\ UNCHANGED <<managerVars, roundVars, inbound, sent, jobs>>

-----------------------------------------------------------------------------
(* runTask. *)

Step(t, here, there) == pc[t] = here /\ pc' = [pc EXCEPT ![t] = there]

(* The context is already cancelled: the task says so and reports nothing. *)
(* (Faulty form: it loses its slot.)                                       *)
LosesSlot == "gone"
AfterCancelled == "leaving"

CancelledBefore(t) ==
  /\ done
  /\ mu = Free
  /\ Step(t, "started", AfterCancelled)
  /\ status' = [status EXCEPT ![t] = "cancelled"]
  /\ UNCHANGED <<mu, activeCount, origin, reported, inbound, roundVars, sent, jobs, done>>

(* The tool loop runs.  The settings are read under the lock on the way;   *)
(* nothing shows before Finish, which waits for the lock again.            *)
RunToolLoop(t) ==
  /\ ~done
  /\ Step(t, "started", "running")
  /\ UNCHANGED <<mu, activeCount, status, origin, reported, inbound, roundVars, sent,
                 jobs, done>>

(* It has an answer or an error; the lock is taken for what follows. *)
Finish(t, failed) ==
  /\ mu = Free
  /\ Step(t, "running", "announcing")
  /\ mu' = t
  /\ status' = [status EXCEPT ![t] = IF ~failed THEN "completed"
                                     ELSE IF done THEN "cancelled" ELSE "failed"]
  /\ UNCHANGED <<activeCount, origin, reported, inbound, roundVars, sent, jobs, done>>

(* Who holds the lock after the report.  (Faulty form: an error keeps it.) *)
KeptOnError(t) == IF status[t] = "failed" THEN t ELSE Free
Released(t) == Free

Announce(t) ==
  /\ Step(t, "announcing", "leaving")
  /\ Enqueue(Report(t))
  /\ reported' = IF inbound' = inbound THEN reported
                ELSE [reported EXCEPT ![t] = @ + 1]
  /\ mu' = Released(t)
  /\ UNCHANGED <<activeCount, status, origin, roundVars, sent, jobs, done>>

(* The slot is given back. *)
Leave(t) ==
  /\ mu = Free
  /\ Step(t, "leaving", "gone")
  /\ activeCount' = activeCount - 1
  /\ UNCHANGED <<mu, status, origin, reported, inbound, roundVars, sent, jobs, done>>

SpawnerNext(p) ==
  \/ SetContext(p) \/ Execute(p) \/ TooMany(p) \/ EndRound(p)
  \/ \E t \in Tasks : Spawn(p, t)

RunsTask(t) ==
  \/ CancelledBefore(t) \/ RunToolLoop(t)
  \/ \E failed \in BOOLEAN : Finish(t, failed)
  \/ Announce(t) \/ Leave(t)

Next ==
  \/ \E c \in UserChats : UserSends(c)
  \/ \E c \in JobChats : JobStarts(c)
  \/ Consume \/ Cancel
  \/ \E p \in Spawners : SpawnerNext(p)
  \/ \E t \in Tasks : RunsTask(t)

Spec == Init /\ [][Next]_vars

(* Goroutines are scheduled, LLM calls come back, and rounds come to an    *)
(* end; messages need not arrive.                                          *)
Advances(p) ==
  \/ SetContext(p) \/ Execute(p) \/ TooMany(p) \/ \E t \in Tasks : Spawn(p, t)
  \/ p = Loop /\ Consume

Fairness ==
  /\ \A p \in Spawners : WF_vars(Advances(p)) /\ SF_vars(EndRound(p))
  /\ \A t \in Tasks : WF_vars(RunsTask(t))

LiveSpec == Spec /\ Fairness

-----------------------------------------------------------------------------
(* Properties. *)

Alive(t) == pc[t] \notin {"none", "gone"}

(* The type of every variable; the count never passes the limit. *)
TypeOK ==
  /\ mu \in Tasks \cup {Free}
  /\ activeCount \in 0..MaxConcurrent
  /\ status \in [Tasks -> {"", "running", "completed", "failed", "cancelled"}]
  /\ origin \in [Tasks -> Chats \cup {None}]
  /\ pc \in [Tasks -> {"none", "started", "running", "announcing", "leaving", "gone"}]
  /\ Len(inbound) <= Capacity
  /\ originChat \in Chats \cup {None}
  /\ at \in [Spawners -> {"idle", "context", "round", "called", "spawn"}]
  /\ done \in BOOLEAN

(* Whatever way a subagent ends, its slot is counted exactly as long as    *)
(* its goroutine lives: the limit neither leaks nor is passed              *)
(* (subagent.go:94-100, 124-128).                                          *)
SlotsMatchGoroutines == activeCount = Cardinality({t \in Tasks : Alive(t)})

(* A subagent that left has reported exactly once, with the result it      *)
(* ended with, unless it was cancelled before it ran; nobody reports while *)
(* still running (subagent.go:150-158, 199-242).                           *)
LeftMeansReported ==
  /\ \A t \in Tasks :
       pc[t] \in {"leaving", "gone"} =>
         (reported[t] = 1 \/ (reported[t] = 0 /\ status[t] = "cancelled"))
  /\ \A t \in Tasks : reported[t] > 0 => reported[t] = 1 /\ status[t] # "running"
  /\ \A i \in 1..Len(inbound) : inbound[i].task \in Tasks =>
       inbound[i].status = status[inbound[i].task] /\ reported[inbound[i].task] = 1

(* A report names the chat of the round that spawned the subagent, however *)
(* rounds overlap, unless another round has set the context between the    *)
(* call and the tool's read of it (subagent.go:238, "for routing back";    *)
(* registry.go:66-69, spawn.go:55-58).                                     *)
ReportGoesHome ==
  [][\A p \in Spawners, t \in Tasks :
       at[p] = "spawn" /\ at'[p] # "spawn" /\ pc[t] # pc'[t] /\ ~crossed[p] =>
         origin'[t] = chat[p]]_vars

(* The circle: a subagent holds the lock and waits for room in the inbound *)
(* channel, and the channel's only consumer waits in Spawn for the lock.   *)
Circle == /\ Loop \in Spawners /\ at[Loop] = "spawn"
          /\ Len(inbound) = Capacity
          /\ mu # Free

(* No subagent stays forever, however full the inbound channel is, unless  *)
(* the circle closes or the agent is shut down; with MaxTasks subagents at *)
(* most, that is: again and again, none is left                            *)
(* (subagent.go:116-243, loop.go:173-195).                                 *)
LeavesUnlessCircle == []<>((\A t \in Tasks : ~Alive(t)) \/ Circle \/ done)

(* A subagent that was started reports back (spawn.go:34: "The subagent    *)
(* will complete the task and report back when done"), and returns its     *)
(* slot.                                                                   *)
EveryTaskReports == \A t \in Tasks : pc[t] = "started" ~> pc[t] = "gone"
=============================================================================
