----------------------------- MODULE CronService -----------------------------
(***************************************************************************)
(* The scheduler of pkg/cron: a table of jobs under a lock, a file it is   *)
(* written to, and a run loop that collects the due jobs under the lock    *)
(* and executes them one after the other outside it.  Calls of the API     *)
(* come from other goroutines at any moment, also from the job being run.  *)
(* The process may crash anywhere, in particular inside os.WriteFile,      *)
(* which truncates the file first; a save may fail without a trace.        *)
(*                                                                         *)
(* Abstracted: a job is its schedule, its enabled flag, its next run,      *)
(* whether it is deleted after its run and whether its payload has a       *)
(* command; the other fields decide nothing here.  IDs are numbered in creation order,  *)
(* which is the order of the slice cs.store.Jobs.  A missing file and an   *)
(* empty one are the same.                                                 *)
(***************************************************************************)
EXTENDS Naturals, FiniteSets

CONSTANTS Schedules,      \* the schedules callers ask for
          InitialFiles,   \* contents the store may have when first opened
          NoJob,          \* stands for an absent job
          MaxJobs,        \* bound: jobs ever created
          MaxTime,        \* bound: the clock
          MaxLoops,       \* bound: successful calls of Start
          MaxCrashes,     \* bound: crashes of the process
          MaxFailures     \* bound: failing saves

Ids == 1..MaxJobs
Loops == 1..MaxLoops
Never == 0      \* a nil NextRunAtMS; the clock starts at 1

Schedule == [kind : {"at", "every", "cron"}, arg : Nat]
Job == [sched : Schedule, enabled : BOOLEAN, next : Nat, del : BOOLEAN, cmd : BOOLEAN]
Table == [Ids -> Job \cup {NoJob}]

ASSUME BoundsAssumption == /\ MaxJobs \in Nat /\ MaxTime \in Nat
                           /\ MaxLoops \in Nat /\ MaxCrashes \in Nat
                           /\ MaxFailures \in Nat
ASSUME SchedulesAssumption == Schedules \subseteq Schedule
ASSUME NoJobAssumption == NoJob \notin Job

Present(table) == {id \in Ids : table[id] # NoJob}

ASSUME InitialFilesAssumption ==   \* IDs are numbered in creation order
  \A f \in InitialFiles : f \in Table /\ \E n \in 0..MaxJobs : Present(f) = 1..n

VARIABLES jobs,      \* cs.store.Jobs
          file,      \* what the store file says
          torn,      \* the file was truncated and not written: not JSON
          saving,    \* the caller inside saveStoreUnsafe, which holds the lock
          up,        \* the process runs
          running,   \* cs.running
          pc,        \* where each run loop is
          due,       \* the jobs each loop has collected and not finished
          cur,       \* the job each loop is executing
          told,      \* the loops whose stopChan is closed
          now,       \* the clock
          crashes, failures,
          created,   \* number of jobs created so far
          runs,      \* history: executions of each job begun so far
          last,      \* history: when the latest of them began
          wanted,    \* history: added with success, and nothing ended them
          gone,      \* history: absent from the table at a successful save
          overlap    \* history: Start came before a stopped loop had
                     \* found its stopChan closed

storeVars == <<jobs, file, torn, saving>>
loopVars == <<pc, due, cur, told>>
histVars == <<runs, last, wanted, gone, overlap>>
boundVars == <<crashes, failures, created>>
vars == <<jobs, file, torn, saving, up, running, pc, due, cur, told, now,
          crashes, failures, created, runs, last, wanted, gone, overlap>>

(* A schedule's next run seen from time t.  (Faulty form: a one-time job   *)
(* is armed once more in the very millisecond of its run.)                 *)
ComputeNextOrNow(s, t) ==
  CASE s.kind = "at"    -> IF s.arg >= t THEN s.arg ELSE Never
    [] s.kind = "every" -> IF s.arg > 0 THEN t + s.arg ELSE Never
    [] OTHER            -> IF s.arg > 0 THEN ((t \div s.arg) + 1) * s.arg ELSE Never
ComputeNext(s, t) ==
  CASE s.kind = "at"    -> IF s.arg > t THEN s.arg ELSE Never
    [] s.kind = "every" -> IF s.arg > 0 THEN t + s.arg ELSE Never
    [] OTHER            -> IF s.arg > 0 THEN ((t \div s.arg) + 1) * s.arg ELSE Never

(* recomputeNextRuns.  (Faulty form: what the file says is trusted.)       *)
TrustFile(table) == table
Recompute(table) ==
  [id \in Ids |-> IF table[id] # NoJob /\ table[id].enabled
                  THEN [table[id] EXCEPT !.next = ComputeNext(table[id].sched, now)]
                  ELSE table[id]]

NoTable == [id \in Ids |-> NoJob]

(* loadStore: the table is emptied first and stays empty on any error.     *)
LoadStore == IF torn THEN NoTable ELSE file

Init ==
  /\ file \in InitialFiles
  /\ jobs = file
  /\ torn = FALSE
  /\ saving = "no"
  /\ up = TRUE
  /\ running = FALSE
  /\ pc = [l \in Loops |-> "none"]
  /\ due = [l \in Loops |-> {}]
  /\ cur = [l \in Loops |-> Never]
  /\ told = {}
  /\ now = 1
  /\ crashes = 0
  /\ failures = 0
  /\ created = Cardinality(Present(file))
  /\ runs = [id \in Ids |-> 0]
  /\ last = [id \in Ids |-> Never]
  /\ wanted = Present(file)
  /\ gone = {}
  /\ overlap = FALSE

LockFree == up /\ saving = "no"

-----------------------------------------------------------------------------
(* saveStoreUnsafe, called with the lock held; `saving` names its caller.  *)

StartedLoop(l) == /\ pc[l] = "none"
                  /\ \A k \in Loops : k < l => pc[k] # "none"

(* What a save writes.  (Faulty form: merged into what the file holds.)    *)
Merged == [id \in Ids |-> IF jobs[id] = NoJob THEN file[id] ELSE jobs[id]]
Written == jobs

(* What follows a save of Start: the loop is started. *)
StartLoop ==
  /\ running' = TRUE
  /\ \E l \in Loops : StartedLoop(l) /\ pc' = [pc EXCEPT ![l] = "wait"]

SaveDone ==
  /\ saving # "no"
  /\ file' = Written
  /\ torn' = FALSE
  /\ saving' = "no"
  /\ wanted' = IF saving = "add" THEN wanted \cup {created} ELSE wanted
  /\ gone' = gone \cup {id \in 1..created : jobs[id] = NoJob}
  /\ IF saving = "start" THEN StartLoop ELSE UNCHANGED <<running, pc>>
  /\ UNCHANGED <<jobs, up, due, cur, told, now, boundVars, runs, last, overlap>>

(* The file cannot be written.  AddJob and Start report it, the others     *)
(* log it; the table keeps its change in every case.                       *)
SaveFails ==
  /\ saving # "no"
  /\ failures < MaxFailures
  /\ failures' = failures + 1
  /\ saving' = "no"
  /\ UNCHANGED <<jobs, file, torn, up, running, loopVars, now, crashes, created, histVars>>

-----------------------------------------------------------------------------
(* The API. *)

Start ==
  /\ LockFree
  /\ ~running
  /\ \E l \in Loops : StartedLoop(l)
  /\ IF torn
     THEN jobs' = LoadStore /\ UNCHANGED saving
     ELSE jobs' = Recompute(LoadStore) /\ saving' = "start"
  /\ overlap' = (overlap \/ \E l \in Loops : pc[l] \notin {"none", "exited"})
  /\ UNCHANGED <<file, torn, up, running, loopVars, now, boundVars, runs, last, wanted, gone>>

Stop ==
  /\ LockFree
  /\ running
  /\ running' = FALSE
  /\ told' = {l \in Loops : pc[l] # "none"}
  /\ UNCHANGED <<storeVars, up, pc, due, cur, now, boundVars, histVars>>

(* One-time jobs are marked to be deleted after their run. *)
NewJob(s) == [sched |-> s, enabled |-> TRUE, next |-> ComputeNext(s, now),
              del |-> s.kind = "at", cmd |-> FALSE]

AddJob(s) ==
  /\ LockFree
  /\ created < MaxJobs
  /\ created' = created + 1
  /\ jobs' = [jobs EXCEPT ![created + 1] = NewJob(s)]
  /\ saving' = "add"
  /\ UNCHANGED <<file, torn, up, running, loopVars, now, crashes, failures, histVars>>

(* UpdateJob overwrites the whole record with the caller's copy.  (Faulty  *)
(* form: a job that is not found is appended.)                             *)
Upsert(id, copy) ==
  /\ LockFree
  /\ jobs' = [jobs EXCEPT ![id] = copy]
  /\ saving' = "update"
  /\ UNCHANGED <<file, torn, up, running, loopVars, now, boundVars, histVars>>
UpdateJob(id, copy) ==
  /\ LockFree
  /\ IF jobs[id] # NoJob
     THEN jobs' = [jobs EXCEPT ![id] = copy] /\ saving' = "update"
     ELSE UNCHANGED <<jobs, saving>>
  /\ UNCHANGED <<file, torn, up, running, loopVars, now, boundVars, histVars>>

(* removeJobUnsafe on the table.  (Faulty form: it cuts the slice there.)  *)
CutAt(id) == [k \in Ids |-> IF k >= id THEN NoJob ELSE jobs[k]]
Without(id) == [jobs EXCEPT ![id] = NoJob]

RemoveJob(id) ==
  /\ LockFree
  /\ jobs[id] # NoJob
  /\ jobs' = Without(id)
  /\ saving' = "remove"
  /\ wanted' = wanted \ {id}
  /\ UNCHANGED <<file, torn, up, running, loopVars, now, boundVars, runs, last, gone, overlap>>

(* The next run of a job that is enabled.  (Faulty form: at once.)         *)
AtOnce(job) == now
NextWhenEnabled(job) == ComputeNext(job.sched, now)

EnableJob(id, enabled) ==
  /\ LockFree
  /\ jobs[id] # NoJob
  /\ jobs' = [jobs EXCEPT ![id] =
       [@ EXCEPT !.enabled = enabled,
                 !.next = IF enabled THEN NextWhenEnabled(jobs[id]) ELSE Never]]
  /\ saving' = "enable"
  /\ UNCHANGED <<file, torn, up, running, loopVars, now, boundVars, histVars>>

-----------------------------------------------------------------------------
(* The run loop. *)

(* Where stopChan is looked at.  (Faulty form: between two jobs as well.)  *)
BetweenJobs(l) == pc[l] \in {"wait", "exec"}
Waiting(l) == pc[l] = "wait"

(* runLoop finds its stopChan closed and returns. *)
LoopExits(l) ==
  /\ up
  /\ Waiting(l)
  /\ l \in told
  /\ pc' = [pc EXCEPT ![l] = "exited"]
  /\ UNCHANGED <<storeVars, up, running, due, cur, told, now, boundVars, histVars>>

DueJobs == {id \in Present(jobs) : /\ jobs[id].enabled
                                   /\ jobs[id].next # Never
                                   /\ jobs[id].next <= now}

(* checkJobs up to its unlock, at any tick: also at one that is ready      *)
(* together with stopChan.                                                 *)
CheckJobs(l) ==
  /\ LockFree
  /\ pc[l] = "wait"
  /\ running
  /\ due' = [due EXCEPT ![l] = DueJobs]
  /\ pc' = [pc EXCEPT ![l] = IF DueJobs = {} THEN "wait" ELSE "exec"]
  /\ jobs' = [id \in Ids |-> IF id \in DueJobs THEN [jobs[id] EXCEPT !.next = Never]
                             ELSE jobs[id]]
  /\ saving' = "check"
  /\ UNCHANGED <<file, torn, up, running, cur, told, now, boundVars, histVars>>

(* The loop is done with the job id. *)
Drop(l, id) ==
  /\ due' = [due EXCEPT ![l] = @ \ {id}]
  /\ pc' = [pc EXCEPT ![l] = IF due[l] = {id} THEN "wait" ELSE "exec"]
  /\ cur' = [cur EXCEPT ![l] = Never]

(* executeJobByID up to the call of onJob: the job is copied out under the *)
(* read lock; one that was removed meanwhile is skipped.                   *)
Begin(l) ==
  /\ LockFree
  /\ pc[l] = "exec"
  /\ \E id \in due[l] :
       /\ \A other \in due[l] : id <= other
       /\ IF jobs[id] = NoJob
          THEN Drop(l, id) /\ UNCHANGED <<runs, last>>
          ELSE /\ pc' = [pc EXCEPT ![l] = "run"]
               /\ cur' = [cur EXCEPT ![l] = id]
               /\ runs' = [runs EXCEPT ![id] = @ + 1]
               /\ last' = [last EXCEPT ![id] = now]
               /\ UNCHANGED due
  /\ UNCHANGED <<storeVars, up, running, told, now, boundVars, wanted, gone, overlap>>

(* The job's record after its run. *)
AfterRun(job) ==
  IF job.sched.kind = "at"
  THEN IF job.del THEN NoJob ELSE [job EXCEPT !.enabled = FALSE, !.next = Never]
  ELSE [job EXCEPT !.next = ComputeNext(job.sched, now)]

(* onJob returns, and executeJobByID updates the job if it still exists. *)
Finish(l) ==
  LET id == cur[l] IN
  /\ LockFree
  /\ pc[l] = "run"
  /\ Drop(l, id)
  /\ IF jobs[id] = NoJob
     THEN UNCHANGED <<jobs, saving, wanted>>
     ELSE /\ jobs' = [jobs EXCEPT ![id] = AfterRun(@)]
          /\ saving' = "finish"
          /\ wanted' = IF jobs'[id] = NoJob THEN wanted \ {id} ELSE wanted
  /\ UNCHANGED <<file, torn, up, running, told, now, boundVars, runs, last, gone, overlap>>

-----------------------------------------------------------------------------
(* The environment. *)

Tick ==
  /\ now < MaxTime
  /\ now' = now + 1
  /\ UNCHANGED <<storeVars, up, running, loopVars, boundVars, histVars>>

(* The process dies; a write under way leaves a truncated file, and with   *)
(* it go the jobs that were only there.                                    *)
Crash ==
  /\ up
  /\ crashes < MaxCrashes
  /\ crashes' = crashes + 1
  /\ up' = FALSE
  /\ running' = FALSE
  /\ torn' = (torn \/ saving # "no")
  /\ saving' = "no"
  /\ jobs' = NoTable
  /\ pc' = [l \in Loops |-> IF pc[l] = "none" THEN "none" ELSE "exited"]
  /\ due' = [l \in Loops |-> {}]
  /\ cur' = [l \in Loops |-> Never]
  /\ told' = {}
  /\ wanted' = IF torn' THEN {} ELSE wanted
  /\ UNCHANGED <<file, now, failures, created, runs, last, gone, overlap>>

(* NewCronService in the next process; an error of loadStore is ignored. *)
NewCronService ==
  /\ ~up
  /\ up' = TRUE
  /\ jobs' = LoadStore
  /\ UNCHANGED <<file, torn, saving, running, loopVars, now, boundVars, histVars>>

-----------------------------------------------------------------------------

LoopStep(l) == LoopExits(l) \/ CheckJobs(l) \/ Begin(l) \/ Finish(l)

Api == \/ Start
       \/ Stop
       \/ \E s \in Schedules : AddJob(s)
       \/ \E id \in Ids : RemoveJob(id) \/ \E b \in BOOLEAN : EnableJob(id, b)

Next == \/ Api
        \/ SaveDone \/ SaveFails
        \/ \E l \in Loops : LoopStep(l)
        \/ Tick \/ Crash \/ NewCronService

Spec == Init /\ [][Next]_vars

(* The loop's goroutine is scheduled, its ticker keeps ticking, a save     *)
(* ends and the job handler returns.                                       *)
Fairness == /\ WF_vars(SaveDone)
            /\ \A l \in Loops : /\ SF_vars(CheckJobs(l))
                                /\ SF_vars(Begin(l))
                                /\ SF_vars(Finish(l))

FairSpec == Spec /\ Fairness

-----------------------------------------------------------------------------
(* Properties. *)

(* The type of every variable. *)
TypeOK ==
  /\ jobs \in Table
  /\ file \in Table
  /\ torn \in BOOLEAN
  /\ saving \in {"no", "start", "add", "update", "remove", "enable", "check", "finish"}
  /\ up \in BOOLEAN
  /\ running \in BOOLEAN
  /\ pc \in [Loops -> {"none", "wait", "exec", "run", "exited"}]
  /\ due \in [Loops -> SUBSET Ids]
  /\ cur \in [Loops -> Ids \cup {Never}]
  /\ told \subseteq Loops
  /\ now \in Nat
  /\ crashes \in 0..MaxCrashes
  /\ failures \in 0..MaxFailures
  /\ created \in 0..MaxJobs
  /\ runs \in [Ids -> Nat]
  /\ last \in [Ids -> Nat]
  /\ wanted \subseteq Ids
  /\ gone \subseteq Ids
  /\ overlap \in BOOLEAN

Periodic(job) == job.sched.kind # "at" /\ job.sched.arg > 0
Pending(id) == \E l \in Loops : id \in due[l]

(* While the service runs no enabled recurring job is forgotten: it has a  *)
(* next run, or a loop has collected it and will give it one               *)
(* (service.go:134-174,216-243,281-289,430-454).                           *)
RecurringStaysArmed ==
  running => \A id \in Present(jobs) :
    jobs[id].enabled /\ Periodic(jobs[id]) => jobs[id].next # Never \/ Pending(id)

(* A one-time job is executed at most once, whatever crashes, restarts,    *)
(* failing saves and re-enabling happen (service.go:153-162,228-234,245).  *)
OneTimeAtMostOnce ==
  \A id \in Present(jobs) : jobs[id].sched.kind = "at" => runs[id] <= 1

(* An execution never comes early: a one-time job not before its time, a   *)
(* job repeated every n not within n of its previous execution, however    *)
(* it was enabled, reloaded or restarted in between, unless Start has been *)
(* called while a stopped loop was still busy (service.go:81-132,245-279). *)
NeverEarly ==
  [][\A id \in Ids : runs'[id] # runs[id] /\ ~overlap =>
       CASE jobs[id].sched.kind = "at"    -> now >= jobs[id].sched.arg
         [] jobs[id].sched.kind = "every" -> now >= last[id] + jobs[id].sched.arg
         [] OTHER                         -> now > last[id]]_vars

(* A job whose AddJob reported success is in the file until somebody ends  *)
(* it: neither failing saves nor crashes between two saves lose it, only a *)
(* crash in the middle of a write does (service.go:346-387,403-428).       *)
AddedIsDurable ==
  saving = "no" /\ ~torn => wanted \subseteq Present(file)

(* Once a save has succeeded without a job, be it removed or one-time and  *)
(* run, the job never comes back: not by its execution ending, not from    *)
(* the file after a crash (service.go:201-243,315-344,403-428).            *)
GoneStaysGone == gone \cap (Present(jobs) \cup Present(file)) = {}

(* A due job of a running service is collected, unless a call of the API   *)
(* makes it not due, and a collected job is executed, unless it is removed *)
(* or the process dies first (service.go:134-199).                         *)
DueIsRun ==
  \A id \in Ids :
    /\ (running /\ id \in DueJobs) ~> (Pending(id) \/ ~running \/ id \notin DueJobs)
    /\ Pending(id) ~> ((\E l \in Loops : cur[l] = id) \/ jobs[id] = NoJob \/ ~up)
=============================================================================
