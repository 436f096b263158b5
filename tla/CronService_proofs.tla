------------------------- MODULE CronService_proofs -------------------------
(***************************************************************************)
(* Proofs about the scheduler and its clients, for any number of jobs, run *)
(* loops, crashes, failing saves and commands: its type invariant, that    *)
(* recurring jobs stay armed, that a job that is gone stays gone and one   *)
(* that was added lasts (CronInv, Durable); that a one-time job runs at    *)
(* most once (OnceInv); that no execution comes early (EarlyInv); and that *)
(* the cron tool's copy of a job revives nothing (ClientsInv).             *)
(***************************************************************************)
EXTENDS CronClients, FiniteSetTheorems, TLAPS

(* What the table promises while the service runs, or is about to: Start   *)
(* has computed the next runs before its save.                             *)
Armed ==
  running \/ saving = "start" =>
    \A id \in Present(jobs) :
      jobs[id].enabled /\ Periodic(jobs[id]) => jobs[id].next # Never \/ Pending(id)

(* A loop that is not at work has nothing collected, and one that executes *)
(* a job has collected it.                                                 *)
Collected ==
  \A l \in Loops : /\ pc[l] \in {"none", "wait", "exited"} => due[l] = {}
                   /\ pc[l] = "run" => cur[l] \in due[l]

(* The lock and the running flag are a living process's. *)
Alive == (running \/ saving # "no") => up

(* Jobs have been created before they are saved or gone. *)
Numbered ==
  /\ saving = "add" => created > 0
  /\ Present(jobs) \subseteq 1..created
  /\ Present(file) \subseteq 1..created
  /\ gone \subseteq 1..created

CronInv == TypeOK /\ Armed /\ Collected /\ Alive /\ Numbered /\ GoneStaysGone

-----------------------------------------------------------------------------

(* A next run is a time, and a recurring schedule always has one. *)
LEMMA NextRun ==
  ASSUME NEW s \in Schedule, NEW t \in Nat
  PROVE  /\ ComputeNext(s, t) \in Nat
         /\ s.kind # "at" /\ s.arg > 0 => ComputeNext(s, t) # Never
<1>1. s.arg \in Nat /\ s.kind \in {"at", "every", "cron"}
  BY DEF Schedule
<1>2. CASE s.kind = "at"
  BY <1>1, <1>2 DEF ComputeNext, Never
<1>3. CASE s.kind = "every"
  BY <1>1, <1>3 DEF ComputeNext, Never
<1>4. CASE s.kind = "cron"
  <2>1. CASE s.arg = 0
    BY <1>4, <2>1 DEF ComputeNext, Never
  <2>2. CASE s.arg > 0
    <3> DEFINE k == t \div s.arg
    <3>1. k \in Nat
      BY <1>1, <2>2
    <3>2. (k + 1) * s.arg \in Nat /\ (k + 1) * s.arg > 0
      <4> HIDE DEF k
      <4> QED  BY <3>1, <1>1, <2>2
    <3> QED  BY <1>4, <2>2, <3>2 DEF ComputeNext, Never
  <2> QED  BY <1>1, <2>1, <2>2
<1> QED  BY <1>1, <1>2, <1>3, <1>4

(* Records of jobs keep their type through each change of them. *)
LEMMA JobChanges ==
  ASSUME NEW job \in Job, NEW n \in Nat, NEW b \in BOOLEAN
  PROVE  /\ [job EXCEPT !.next = n] \in Job
         /\ [job EXCEPT !.enabled = b, !.next = n] \in Job
         /\ job.sched \in Schedule /\ job.enabled \in BOOLEAN /\ job.next \in Nat
BY DEF Job

(* Recomputing a table keeps its jobs, and gives every enabled recurring   *)
(* one a next run.                                                         *)
LEMMA Recomputed ==
  ASSUME NEW table \in Table, now \in Nat
  PROVE  /\ Recompute(table) \in Table
         /\ Present(Recompute(table)) = Present(table)
         /\ \A id \in Ids : LET job == Recompute(table)[id] IN
              job # NoJob /\ job.enabled /\ Periodic(job) => job.next # Never
<1> SUFFICES ASSUME NEW id \in Ids
             PROVE  LET job == Recompute(table)[id] IN
                    /\ job \in Job \cup {NoJob}
                    /\ job = NoJob <=> table[id] = NoJob
                    /\ job # NoJob /\ job.enabled /\ Periodic(job) => job.next # Never
  BY DEF Recompute, Table, Present
<1> DEFINE n == ComputeNext(table[id].sched, now)
<1>1. CASE table[id] # NoJob /\ table[id].enabled
  <2>1. table[id] \in Job /\ table[id].sched \in Schedule
    BY <1>1 DEF Table, Job
  <2>2. n \in Nat
    BY <2>1, NextRun
  <2>3. Recompute(table)[id] = [table[id] EXCEPT !.next = n]
    BY <1>1 DEF Recompute
  <2>4. [table[id] EXCEPT !.next = n] \in Job
    BY <2>1, <2>2, JobChanges
  <2>5. /\ [table[id] EXCEPT !.next = n].sched = table[id].sched
        /\ [table[id] EXCEPT !.next = n].next = n
    BY <2>1 DEF Job
  <2>6. table[id].sched.kind # "at" /\ table[id].sched.arg > 0 => n # Never
    BY <2>1, NextRun
  <2> HIDE DEF n
  <2> QED  BY <1>1, <2>3, <2>4, <2>5, <2>6, NoJobAssumption DEF Periodic
<1>2. CASE table[id] = NoJob
  BY <1>2 DEF Recompute
<1>3. CASE table[id] # NoJob /\ ~table[id].enabled
  BY <1>3 DEF Recompute, Table
<1> QED  BY <1>1, <1>2, <1>3

-----------------------------------------------------------------------------
(* The initial states. *)
LEMMA InitCron == Init => CronInv
<1> SUFFICES ASSUME Init PROVE CronInv
  OBVIOUS
<1> USE DEF Init
<1>1. PICK n \in 0..MaxJobs : Present(file) = 1..n
  BY InitialFilesAssumption
<1>2. file \in Table /\ created = n
  <2>1. MaxJobs \in Nat /\ n \in Nat
    BY BoundsAssumption
  <2>2. Cardinality(1..n) = n
    BY <2>1, FS_Interval
  <2> QED  BY <1>1, <2>2, InitialFilesAssumption
<1>3. TypeOK
  <2>1. Present(file) \subseteq Ids
    BY DEF Present
  <2>2. cur \in [Loops -> Ids \cup {Never}] /\ last \in [Ids -> Nat] /\ runs \in [Ids -> Nat]
    BY DEF Never
  <2>3. due \in [Loops -> SUBSET Ids] /\ pc \in [Loops -> {"none", "wait", "exec", "run", "exited"}]
    OBVIOUS
  <2>4. /\ jobs \in Table /\ file \in Table /\ wanted \subseteq Ids /\ created \in 0..MaxJobs
    BY <1>1, <1>2, <2>1
  <2>5. crashes \in 0..MaxCrashes /\ failures \in 0..MaxFailures /\ now \in Nat
    BY BoundsAssumption
  <2>6. /\ torn \in BOOLEAN /\ up \in BOOLEAN /\ running \in BOOLEAN /\ overlap \in BOOLEAN
        /\ saving = "no" /\ told \subseteq Loops /\ gone \subseteq Ids
    OBVIOUS
  <2> HIDE DEF Init
  <2> QED  BY <2>2, <2>3, <2>4, <2>5, <2>6 DEF TypeOK
<1>4. Armed /\ Collected /\ Alive
  BY DEF Armed, Collected, Alive, Loops
<1>5. Numbered /\ GoneStaysGone
  BY <1>1, <1>2 DEF Numbered, GoneStaysGone
<1> QED  BY <1>3, <1>4, <1>5 DEF CronInv

(* Stop ends the promise and touches no job. *)
LEMMA StopInv == CronInv /\ Stop => CronInv'
<1> SUFFICES ASSUME CronInv, Stop PROVE CronInv'
  OBVIOUS
<1> USE DEF CronInv, Stop, storeVars, loopVars, histVars, boundVars
<1>1. TypeOK'
  BY BoundsAssumption DEF TypeOK, LockFree
<1>2. Armed' /\ Collected' /\ Alive'
  BY DEF Armed, Collected, Alive, Pending, Present, LockFree
<1>3. Numbered' /\ GoneStaysGone'
  BY DEF Numbered, GoneStaysGone, Present, LockFree
<1> QED  BY <1>1, <1>2, <1>3

(* Time passes. *)
LEMMA TickInv == CronInv /\ Tick => CronInv'
<1> SUFFICES ASSUME CronInv, Tick PROVE CronInv'
  OBVIOUS
<1> USE DEF CronInv, Tick, storeVars, loopVars, histVars, boundVars
<1>1. TypeOK'
  BY BoundsAssumption DEF TypeOK, LockFree
<1>2. Armed' /\ Collected' /\ Alive'
  BY DEF Armed, Collected, Alive, Pending, Present, LockFree
<1>3. Numbered' /\ GoneStaysGone'
  BY DEF Numbered, GoneStaysGone, Present, LockFree
<1> QED  BY <1>1, <1>2, <1>3

(* A failing save changes nothing but the lock. *)
LEMMA SaveFailsInv == CronInv /\ SaveFails => CronInv'
<1> SUFFICES ASSUME CronInv, SaveFails PROVE CronInv'
  OBVIOUS
<1> USE DEF CronInv, SaveFails, storeVars, loopVars, histVars, boundVars
<1>1. TypeOK'
  BY BoundsAssumption DEF TypeOK, LockFree
<1>2. Armed' /\ Collected' /\ Alive'
  BY DEF Armed, Collected, Alive, Pending, Present, LockFree
<1>3. Numbered' /\ GoneStaysGone'
  BY DEF Numbered, GoneStaysGone, Present, LockFree
<1> QED  BY <1>1, <1>2, <1>3

(* A stopped loop returns with nothing collected. *)
LEMMA LoopExitsInv ==
  ASSUME CronInv, NEW l \in Loops, LoopExits(l)
  PROVE  CronInv'
<1> USE DEF CronInv, LoopExits, LockFree, storeVars, loopVars, histVars, boundVars
<1>1. TypeOK'
  BY DEF TypeOK
<1>2. Armed' /\ Collected' /\ Alive'
  BY DEF Armed, Collected, Alive, Pending, Present, TypeOK, Waiting
<1>3. Numbered' /\ GoneStaysGone'
  BY DEF Numbered, GoneStaysGone, Present
<1> QED  BY <1>1, <1>2, <1>3

(* A new process reads the file and does not run its loop yet. *)
LEMMA NewCronServiceInv ==
  ASSUME CronInv, NewCronService
  PROVE  CronInv'
<1> USE DEF CronInv, NewCronService, LockFree, storeVars, loopVars, histVars, boundVars
<1> NoTable \in Table /\ Present(NoTable) = {}
  BY DEF NoTable, Table, Present
<1>1. TypeOK'
  BY DEF TypeOK, LoadStore
<1>2. Armed' /\ Collected' /\ Alive'
  BY DEF Armed, Collected, Alive
<1>3. Numbered' /\ GoneStaysGone'
  BY DEF Numbered, GoneStaysGone, LoadStore, Alive, Present
<1> QED  BY <1>1, <1>2, <1>3

(* A crash leaves the file, and nothing to keep a promise about. *)
LEMMA CrashInv ==
  ASSUME CronInv, Crash
  PROVE  CronInv'
<1> USE DEF CronInv, Crash, LockFree, storeVars, loopVars, histVars, boundVars
<1> NoTable \in Table /\ Present(NoTable) = {}
  BY DEF NoTable, Table, Present
<1>1. TypeOK'
  <2>1. due' \in [Loops -> SUBSET Ids] /\ cur' \in [Loops -> Ids \cup {Never}] /\ pc' \in [Loops -> {"none", "wait", "exec", "run", "exited"}]
    BY DEF TypeOK
  <2>2. torn' \in BOOLEAN /\ wanted' \subseteq Ids /\ told' \subseteq Loops /\ jobs' \in Table
    BY DEF TypeOK
  <2>3. crashes' \in 0..MaxCrashes
    BY BoundsAssumption DEF TypeOK
  <2>4. /\ file' \in Table /\ now' \in Nat /\ failures' \in 0..MaxFailures /\ created' \in 0..MaxJobs
        /\ runs' \in [Ids -> Nat] /\ last' \in [Ids -> Nat] /\ gone' \subseteq Ids /\ overlap' \in BOOLEAN
        /\ up' = FALSE /\ running' = FALSE /\ saving' = "no"
    BY DEF TypeOK
  <2> HIDE DEF Crash
  <2> QED  BY <2>1, <2>2, <2>3, <2>4 DEF TypeOK
<1>2. Armed' /\ Collected' /\ Alive'
  BY DEF Armed, Collected, Alive
<1>3. Numbered' /\ GoneStaysGone'
  BY DEF Numbered, GoneStaysGone, Present
<1> QED  BY <1>1, <1>2, <1>3

(* Start computes the next run of every job it loads. *)
LEMMA StartInv ==
  ASSUME CronInv, Start
  PROVE  CronInv'
<1> USE DEF CronInv, Start, LockFree, storeVars, loopVars, histVars, boundVars
<1> NoTable \in Table /\ Present(NoTable) = {}
  BY DEF NoTable, Table, Present
<1>0. LoadStore \in Table /\ Present(LoadStore) \subseteq Present(file)
  BY DEF TypeOK, LoadStore
<1> DEFINE R == Recompute(LoadStore)
<1>a. /\ R \in Table /\ Present(R) = Present(LoadStore)
      /\ \A id \in Ids : R[id] # NoJob /\ R[id].enabled /\ Periodic(R[id]) => R[id].next # Never
  BY <1>0, Recomputed DEF TypeOK
<1> HIDE DEF R
<1>b. /\ Present(jobs') \subseteq Present(file)
      /\ jobs' \in Table
  BY <1>0, <1>a DEF LoadStore, R, Present
<1>1. TypeOK'
  BY <1>b DEF TypeOK
<1>2. Armed' /\ Collected' /\ Alive'
  <2>1. Armed'
    BY <1>a DEF Armed, Present, R
  <2>2. Collected' /\ Alive'
    BY DEF Collected, Alive
  <2> QED  BY <2>1, <2>2
<1>3. Numbered' /\ GoneStaysGone'
  BY <1>b DEF Numbered, GoneStaysGone, Present
<1> QED  BY <1>1, <1>2, <1>3

(* A save makes the file what the table is. *)
LEMMA SaveDoneInv ==
  ASSUME CronInv, SaveDone
  PROVE  CronInv'
<1> USE DEF CronInv, SaveDone, LockFree, storeVars, loopVars, histVars, boundVars
<1>1. TypeOK'
  <2>1. pc' \in [Loops -> {"none", "wait", "exec", "run", "exited"}] /\ running' \in BOOLEAN
    BY DEF TypeOK, StartLoop, StartedLoop
  <2>2. created \in Nat /\ created <= MaxJobs /\ 1..created \subseteq Ids
    BY BoundsAssumption DEF TypeOK, Ids
  <2>3. wanted' \subseteq Ids
    <3>1. CASE saving = "add"
      BY <3>1, <2>2 DEF TypeOK, Numbered
    <3>2. CASE saving # "add"
      BY <3>2 DEF TypeOK
    <3> QED  BY <3>1, <3>2
  <2>4. gone' \subseteq Ids
    BY <2>2 DEF TypeOK
  <2> QED  BY <2>1, <2>3, <2>4 DEF TypeOK, Written
<1>2. Armed' /\ Collected' /\ Alive'
  <2>1. Armed' /\ Alive'
    BY DEF Armed, Alive, Pending, Present, StartLoop
  <2>2. Collected'
    BY DEF Collected, TypeOK, StartLoop, StartedLoop
  <2> QED  BY <2>1, <2>2
<1>3. Numbered' /\ GoneStaysGone'
  BY DEF Numbered, GoneStaysGone, Present, Written
<1> QED  BY <1>1, <1>2, <1>3

(* A new job is armed and has a number of its own. *)
LEMMA AddJobInv ==
  ASSUME CronInv, NEW s \in Schedules, AddJob(s)
  PROVE  CronInv'
<1> USE DEF CronInv, AddJob, LockFree, storeVars, loopVars, histVars, boundVars
<1> DEFINE new == created + 1
           job == NewJob(s)
<1>a. new \in Ids /\ created \in Nat /\ s \in Schedule
  BY BoundsAssumption, SchedulesAssumption DEF TypeOK, Ids
<1>b. job \in Job /\ (Periodic(job) => job.next # Never)
  BY <1>a, NextRun DEF NewJob, Job, Periodic, TypeOK
<1>c. /\ jobs' \in Table /\ jobs'[new] = job
      /\ \A id \in Ids : id # new => jobs'[id] = jobs[id]
  <2>1. jobs' = [jobs EXCEPT ![new] = job]
    OBVIOUS
  <2> HIDE DEF job
  <2> QED  BY <2>1, <1>a, <1>b DEF TypeOK, Table
<1>d. Present(jobs') \subseteq Present(jobs) \cup {new}
  BY <1>c DEF Present
<1> HIDE DEF job
<1>1. TypeOK'
  <2>1. created' \in 0..MaxJobs
    BY <1>a, BoundsAssumption DEF Ids
  <2>2. jobs' \in Table /\ saving' = "add"
    BY <1>c
  <2> QED  BY <2>1, <2>2 DEF TypeOK
<1>2. Armed' /\ Collected' /\ Alive'
  BY <1>b, <1>c DEF Armed, Collected, Alive, Pending, Present
<1>3. Numbered' /\ GoneStaysGone'
  BY <1>a, <1>d DEF Numbered, GoneStaysGone, Present
<1> QED  BY <1>1, <1>2, <1>3

(* Without a job, the others are as they were. *)
LEMMA RemoveJobInv ==
  ASSUME CronInv, NEW id \in Ids, RemoveJob(id)
  PROVE  CronInv'
<1> USE DEF CronInv, RemoveJob, LockFree, storeVars, loopVars, histVars, boundVars
<1>a. jobs' \in Table /\ \A k \in Ids : jobs'[k] \in {jobs[k], NoJob}
  BY DEF TypeOK, Table, Without
<1>1. TypeOK'
  BY <1>a DEF TypeOK
<1>2. Armed' /\ Collected' /\ Alive'
  BY <1>a DEF Armed, Collected, Alive, Pending, Present
<1>3. Numbered' /\ GoneStaysGone'
  BY <1>a DEF Numbered, GoneStaysGone, Present
<1> QED  BY <1>1, <1>2, <1>3

(* A job that is enabled gets a next run; one that is disabled needs none. *)
LEMMA EnableJobInv ==
  ASSUME CronInv, NEW id \in Ids, NEW b \in BOOLEAN, EnableJob(id, b)
  PROVE  CronInv'
<1> USE DEF CronInv, EnableJob, LockFree, storeVars, loopVars, histVars, boundVars
<1> DEFINE n == IF b THEN NextWhenEnabled(jobs[id]) ELSE Never
           job == [jobs[id] EXCEPT !.enabled = b, !.next = n]
<1>a. jobs[id] \in Job /\ jobs[id].sched \in Schedule /\ now \in Nat
  BY DEF TypeOK, Table, Job
<1>b. n \in Nat /\ (b /\ Periodic(jobs[id]) => n # Never)
  BY <1>a, NextRun DEF NextWhenEnabled, Periodic, Never
<1> HIDE DEF n
<1>c. job \in Job /\ job.enabled = b /\ job.next = n /\ job.sched = jobs[id].sched
  BY <1>a, <1>b DEF Job
<1>d. /\ jobs' = [jobs EXCEPT ![id] = job]
      /\ jobs' \in Table /\ jobs'[id] = job
      /\ \A k \in Ids : k # id => jobs'[k] = jobs[k]
  BY <1>c DEF TypeOK, Table, n
<1>e. Present(jobs') = Present(jobs)
  BY <1>c, <1>d, NoJobAssumption DEF Present
<1>f. b /\ Periodic(job) => job.next # Never
  BY <1>b, <1>c DEF Periodic
<1> HIDE DEF job
<1>1. TypeOK'
  BY <1>d DEF TypeOK
<1>2. Armed' /\ Collected' /\ Alive'
  BY <1>c, <1>d, <1>e, <1>f DEF Armed, Collected, Alive, Pending, Present
<1>3. Numbered' /\ GoneStaysGone'
  BY <1>e DEF Numbered, GoneStaysGone, Present
<1> QED  BY <1>1, <1>2, <1>3

(* What loses its next run at a check has been collected. *)
LEMMA CheckJobsInv ==
  ASSUME CronInv, NEW l \in Loops, CheckJobs(l)
  PROVE  CronInv'
<1> USE DEF CronInv, CheckJobs, LockFree, storeVars, loopVars, histVars, boundVars
<1>a. /\ jobs' \in Table
      /\ \A id \in Ids \ DueJobs : jobs'[id] = jobs[id]
      /\ \A id \in DueJobs : jobs'[id] \in Job
  BY DEF TypeOK, Table, DueJobs, Present, Job, Never
<1>b. Present(jobs') = Present(jobs) /\ DueJobs \subseteq Ids
  BY <1>a, NoJobAssumption DEF Present, DueJobs
<1>c. due[l] = {} /\ due' = [due EXCEPT ![l] = DueJobs]
  BY DEF Collected
<1>1. TypeOK'
  <2>1. due' \in [Loops -> SUBSET Ids] /\ pc' \in [Loops -> {"none", "wait", "exec", "run", "exited"}]
    BY <1>b DEF TypeOK
  <2> HIDE DEF DueJobs
  <2> QED  BY <1>a, <2>1 DEF TypeOK
<1>2. Armed' /\ Collected' /\ Alive'
  <2>1. \A id \in Ids : Pending(id) => Pending(id)'
    BY <1>c DEF Pending, TypeOK
  <2>2. \A id \in DueJobs : Pending(id)'
    BY <1>c DEF Pending, TypeOK
  <2>3. Armed'
    BY <1>a, <1>b, <2>1, <2>2 DEF Armed, Present
  <2>4. Collected'
    BY <1>c DEF Collected, TypeOK
  <2> QED  BY <2>3, <2>4 DEF Alive
<1>3. Numbered' /\ GoneStaysGone'
  BY <1>b DEF Numbered, GoneStaysGone, Present
<1> QED  BY <1>1, <1>2, <1>3

(* A loop that drops a job keeps the others it has collected. *)
LEMMA Dropped ==
  ASSUME TypeOK, Collected, NEW l \in Loops, NEW id \in Ids, Drop(l, id)
  PROVE  /\ due' \in [Loops -> SUBSET Ids]
         /\ pc' \in [Loops -> {"none", "wait", "exec", "run", "exited"}]
         /\ cur' \in [Loops -> Ids \cup {Never}]
         /\ Collected'
         /\ \A k \in Ids : k # id /\ Pending(k) => Pending(k)'
<1> USE DEF Drop, TypeOK
<1>1. due' \in [Loops -> SUBSET Ids]
  OBVIOUS
<1>2. pc' \in [Loops -> {"none", "wait", "exec", "run", "exited"}]
  OBVIOUS
<1>3. cur' \in [Loops -> Ids \cup {Never}]
  OBVIOUS
<1>4. Collected'
  BY DEF Collected
<1>5. \A k \in Ids : k # id /\ Pending(k) => Pending(k)'
  BY DEF Pending
<1> QED  BY <1>1, <1>2, <1>3, <1>4, <1>5

(* A loop executes a job it has collected, or skips one that was removed. *)
LEMMA BeginInv ==
  ASSUME CronInv, NEW l \in Loops, Begin(l)
  PROVE  CronInv'
<1> USE DEF CronInv, Begin, LockFree, storeVars, loopVars, histVars, boundVars
<1>a. PICK id \in due[l] : Begin(l)!3!(id)
  OBVIOUS
<1>b. id \in Ids
  BY DEF TypeOK
<1>1. TypeOK'
  <2>1. CASE jobs[id] = NoJob
    BY <1>a, <1>b, <2>1, Dropped DEF TypeOK
  <2>2. CASE jobs[id] # NoJob
    <3>1. pc' \in [Loops -> {"none", "wait", "exec", "run", "exited"}]
      BY <1>a, <2>2 DEF TypeOK
    <3>2. cur' \in [Loops -> Ids \cup {Never}]
      BY <1>a, <1>b, <2>2 DEF TypeOK
    <3>3. runs' \in [Ids -> Nat] /\ last' \in [Ids -> Nat]
      BY <1>a, <1>b, <2>2 DEF TypeOK
    <3> QED  BY <1>a, <2>2, <3>1, <3>2, <3>3 DEF TypeOK
  <2> QED  BY <2>1, <2>2
<1>2. Armed' /\ Collected' /\ Alive'
  <2>1. CASE jobs[id] = NoJob
    <3>1. Collected' /\ \A k \in Ids : k # id /\ Pending(k) => Pending(k)'
      BY <1>a, <1>b, <2>1, Dropped
    <3> QED  BY <2>1, <3>1 DEF Armed, Alive, Present
  <2>2. CASE jobs[id] # NoJob
    BY <1>a, <2>2 DEF Armed, Collected, Alive, Pending, Present, TypeOK
  <2> QED  BY <2>1, <2>2
<1>3. Numbered' /\ GoneStaysGone'
  BY DEF Numbered, GoneStaysGone, Present
<1> QED  BY <1>1, <1>2, <1>3

(* After its run a recurring job has a next run again. *)
LEMMA FinishInv ==
  ASSUME CronInv, NEW l \in Loops, Finish(l)
  PROVE  CronInv'
<1> USE DEF CronInv, Finish, LockFree, storeVars, loopVars, histVars, boundVars
<1> DEFINE id == cur[l]
<1>a. id \in Ids /\ Drop(l, id) /\ now \in Nat
  BY DEF TypeOK, Collected
<1>b. /\ Collected' /\ \A k \in Ids : k # id /\ Pending(k) => Pending(k)'
      /\ due' \in [Loops -> SUBSET Ids]
      /\ pc' \in [Loops -> {"none", "wait", "exec", "run", "exited"}]
      /\ cur' \in [Loops -> Ids \cup {Never}]
  BY <1>a, Dropped
<1>c. CASE jobs[id] = NoJob
  <2>1. TypeOK'
    BY <1>b, <1>c DEF TypeOK
  <2>2. Armed'
    BY <1>a, <1>b, <1>c DEF Armed, Present
  <2> QED  BY <1>b, <1>c, <2>1, <2>2 DEF Alive, Numbered, GoneStaysGone, Present
<1>d. CASE jobs[id] # NoJob
  <2> DEFINE job == AfterRun(jobs[id])
  <2>1. jobs[id] \in Job /\ jobs[id].sched \in Schedule
    BY <1>a, <1>d DEF TypeOK, Table, Job
  <2>2. /\ job \in Job \cup {NoJob}
        /\ job # NoJob /\ job.enabled /\ Periodic(job) => job.next # Never
    <3> DEFINE n == ComputeNext(jobs[id].sched, now)
    <3>1. n \in Nat /\ (Periodic(jobs[id]) => n # Never)
      BY <1>a, <2>1, NextRun DEF Periodic
    <3>2. CASE jobs[id].sched.kind = "at"
      BY <2>1, <3>2 DEF AfterRun, Job, Never
    <3>3. CASE jobs[id].sched.kind # "at"
      <4> HIDE DEF n
      <4>1. job = [jobs[id] EXCEPT !.next = n]
        BY <3>3 DEF AfterRun, n
      <4>2. job \in Job /\ job.next = n /\ job.sched = jobs[id].sched
        BY <2>1, <3>1, <4>1 DEF Job
      <4> HIDE DEF job
      <4> QED  BY <3>1, <4>2 DEF Periodic
    <3> QED  BY <3>2, <3>3
  <2> HIDE DEF job
  <2>3. /\ jobs' = [jobs EXCEPT ![id] = job]
        /\ saving' = "finish" /\ wanted' \subseteq wanted
    BY <1>a, <1>d DEF job
  <2>4. /\ jobs' \in Table /\ jobs'[id] = job
        /\ \A k \in Ids : k # id => jobs'[k] = jobs[k]
    BY <1>a, <2>2, <2>3 DEF TypeOK, Table
  <2>5. Present(jobs') \subseteq Present(jobs)
    BY <1>d, <2>4 DEF Present
  <2>6. TypeOK'
    BY <1>b, <2>3, <2>4 DEF TypeOK
  <2>7. Armed'
    BY <1>b, <2>2, <2>3, <2>4, <2>5 DEF Armed, Present
  <2> QED  BY <1>b, <2>3, <2>5, <2>6, <2>7 DEF Alive, Numbered, GoneStaysGone, Present
<1> QED  BY <1>c, <1>d

-----------------------------------------------------------------------------
(* Every step keeps the invariant. *)
LEMMA CronStep == CronInv /\ [Next]_vars => CronInv'
<1> SUFFICES ASSUME CronInv, [Next]_vars PROVE CronInv'
  OBVIOUS
<1>1. CASE Api
  <2>1. CASE Start
    BY <2>1, StartInv
  <2>2. CASE Stop
    BY <2>2, StopInv
  <2>3. ASSUME NEW s \in Schedules, AddJob(s) PROVE CronInv'
    BY <2>3, AddJobInv
  <2>4. ASSUME NEW id \in Ids, RemoveJob(id) PROVE CronInv'
    BY <2>4, RemoveJobInv
  <2>5. ASSUME NEW id \in Ids, NEW b \in BOOLEAN, EnableJob(id, b) PROVE CronInv'
    BY <2>5, EnableJobInv
  <2> QED  BY <1>1, <2>1, <2>2, <2>3, <2>4, <2>5 DEF Api
<1>2. CASE SaveDone
  BY <1>2, SaveDoneInv
<1>3. CASE SaveFails
  BY <1>3, SaveFailsInv
<1>4. ASSUME NEW l \in Loops, LoopStep(l) PROVE CronInv'
  BY <1>4, LoopExitsInv, CheckJobsInv, BeginInv, FinishInv DEF LoopStep
<1>5. CASE Tick
  BY <1>5, TickInv
<1>6. CASE Crash
  BY <1>6, CrashInv
<1>7. CASE NewCronService
  BY <1>7, NewCronServiceInv
<1>8. CASE UNCHANGED vars
  BY <1>8 DEF CronInv, TypeOK, Armed, Collected, Alive, Numbered, GoneStaysGone,
              Pending, Present, vars
<1> QED  BY <1>1, <1>2, <1>3, <1>4, <1>5, <1>6, <1>7, <1>8 DEF Next

(* The strengthening that the theorems below are read off. *)
THEOREM CronInvariant == Spec => []CronInv
BY InitCron, CronStep, PTL DEF Spec

(* Every variable of the scheduler keeps its type, whatever the number of  *)
(* jobs, run loops, crashes and failing saves (service.go:17-79).          *)
THEOREM ServiceTypeCorrect == Spec => []TypeOK
<1>1. CronInv => TypeOK
  BY DEF CronInv
<1> QED  BY <1>1, CronInvariant, PTL

(* No enabled recurring job is ever forgotten by a running service         *)
(* (service.go:134-174,216-243,281-289,430-454).                           *)
THEOREM RecurringForever == Spec => []RecurringStaysArmed
<1>1. CronInv => RecurringStaysArmed
  BY DEF CronInv, Armed, RecurringStaysArmed
<1> QED  BY <1>1, CronInvariant, PTL

(* A job that was absent from the table at a successful save never comes   *)
(* back, neither from a run that ends later nor from the file after a      *)
(* crash (service.go:201-243,315-344,403-428).                             *)
THEOREM GoneForever == Spec => []GoneStaysGone
<1>1. CronInv => GoneStaysGone
  BY DEF CronInv
<1> QED  BY <1>1, CronInvariant, PTL

-----------------------------------------------------------------------------
(* Durability.  Whatever is wanted is in the table of a living process and *)
(* in the file; of a torn file nothing is wanted.                          *)
Durable ==
  /\ torn => wanted = {}
  /\ up => wanted \subseteq Present(jobs)
  /\ wanted \subseteq Present(file)
  /\ saving = "add" => created \in Present(jobs)

(* Steps that end no job the table has, or cease to want it. *)
LEMMA StillDurable ==
  ASSUME Durable, file' = file, torn' = torn, up' = up, created' = created,
         wanted' \subseteq wanted, saving' # "add" \/ saving' = saving,
         \A id \in Ids : id \in wanted' /\ jobs[id] # NoJob => jobs'[id] # NoJob,
         saving' = "add" => jobs' = jobs
  PROVE  Durable'
BY DEF Durable, Present

LEMMA DurableStep == CronInv /\ Durable /\ [Next]_vars => Durable'
<1> SUFFICES ASSUME CronInv, Durable, [Next]_vars PROVE Durable'
  OBVIOUS
<1>0. TypeOK /\ Alive
  BY DEF CronInv
<1>1. CASE Start
  <2>1. /\ file' = file /\ torn' = torn /\ up' = up /\ up /\ wanted' = wanted
        /\ saving' # "add" /\ created' = created
    BY <1>1 DEF Start, LockFree, boundVars
  <2>2. CASE torn
    BY <2>1, <2>2 DEF Durable, Present
  <2>3. CASE ~torn
    <3>1. Present(jobs') = Present(file)
      BY <1>0, <1>1, <2>3, Recomputed DEF Start, LoadStore, TypeOK
    <3> QED  BY <2>1, <3>1 DEF Durable, Present
  <2> QED  BY <2>2, <2>3
<1>2. CASE Stop \/ Tick \/ \E l \in Loops : LoopExits(l)
  BY <1>2, StillDurable DEF Stop, Tick, LoopExits, storeVars, boundVars, histVars
<1>3. CASE SaveFails
  BY <1>3, StillDurable DEF SaveFails, histVars
<1>4. CASE SaveDone
  <2>1. /\ jobs' = jobs /\ file' = jobs /\ torn' = FALSE /\ saving' = "no" /\ up' = up /\ up
        /\ wanted' \in {wanted, wanted \cup {created}}
        /\ saving # "add" => wanted' = wanted
    BY <1>0, <1>4 DEF SaveDone, Written, Alive
  <2> QED  BY <2>1 DEF Durable, Present
<1>5. ASSUME NEW s \in Schedules, AddJob(s) PROVE Durable'
  <2>1. /\ created + 1 \in Ids /\ jobs' = [jobs EXCEPT ![created + 1] = NewJob(s)]
        /\ created' = created + 1
    BY <1>0, <1>5, BoundsAssumption DEF AddJob, TypeOK, Ids
  <2>2. NewJob(s) \in Job
    BY <1>0, SchedulesAssumption, NextRun DEF NewJob, Job, TypeOK
  <2>3. \A id \in Ids : jobs[id] # NoJob \/ id = created' => jobs'[id] # NoJob
    <3> DEFINE job == NewJob(s)
    <3>1. job \in Job /\ jobs' = [jobs EXCEPT ![created + 1] = job]
      BY <2>1, <2>2
    <3> HIDE DEF job
    <3> QED  BY <1>0, <2>1, <3>1, NoJobAssumption DEF TypeOK, Table
  <2> QED  BY <1>5, <2>1, <2>3 DEF Durable, Present, AddJob, histVars
<1>6. ASSUME NEW id \in Ids, RemoveJob(id) PROVE Durable'
  <2>1. \A k \in Ids : k # id => jobs'[k] = jobs[k]
    BY <1>0, <1>6 DEF RemoveJob, Without, TypeOK, Table
  <2> QED  BY <1>6, <2>1, StillDurable DEF RemoveJob, boundVars
<1>7. ASSUME NEW id \in Ids, NEW b \in BOOLEAN, EnableJob(id, b) PROVE Durable'
  <2> DEFINE job == [jobs[id] EXCEPT !.enabled = b,
                                    !.next = IF b THEN NextWhenEnabled(jobs[id]) ELSE Never]
  <2>1. jobs' = [jobs EXCEPT ![id] = job]
    BY <1>7 DEF EnableJob
  <2>2. job \in Job
    <3>1. jobs[id] \in Job /\ jobs[id].sched \in Schedule
      BY <1>0, <1>7 DEF EnableJob, TypeOK, Table, Job
    <3>2. NextWhenEnabled(jobs[id]) \in Nat
      BY <1>0, <3>1, NextRun DEF NextWhenEnabled, TypeOK
    <3> QED  BY <3>1, <3>2, JobChanges DEF Never
  <2> HIDE DEF job
  <2>3. \A k \in Ids : jobs[k] # NoJob => jobs'[k] # NoJob
    BY <1>0, <2>1, <2>2, NoJobAssumption DEF TypeOK, Table
  <2> QED  BY <1>7, <2>3, StillDurable DEF EnableJob, boundVars, histVars
<1>8. ASSUME NEW l \in Loops, CheckJobs(l) PROVE Durable'
  <2>1. \A k \in Ids : jobs[k] # NoJob => jobs'[k] # NoJob
    <3> SUFFICES ASSUME NEW k \in Ids, jobs[k] # NoJob PROVE jobs'[k] # NoJob
      OBVIOUS
    <3>1. jobs[k] \in Job
      BY <1>0 DEF TypeOK, Table
    <3>2. [jobs[k] EXCEPT !.next = Never] \in Job
      BY <3>1 DEF Job, Never
    <3>3. jobs'[k] \in {jobs[k], [jobs[k] EXCEPT !.next = Never]}
      BY <1>8 DEF CheckJobs
    <3> QED  BY <3>1, <3>2, <3>3, NoJobAssumption
  <2> QED  BY <1>8, <2>1, StillDurable DEF CheckJobs, boundVars, histVars
<1>9. ASSUME NEW l \in Loops, Begin(l) PROVE Durable'
  BY <1>9, StillDurable DEF Begin, storeVars, boundVars
<1>10. ASSUME NEW l \in Loops, Finish(l) PROVE Durable'
  <2>1. /\ file' = file /\ torn' = torn /\ up' = up /\ created' = created
        /\ wanted' \subseteq wanted /\ saving = "no" /\ saving' # "add"
    BY <1>10 DEF Finish, boundVars, LockFree
  <2>2. ASSUME NEW k \in Ids, k \in wanted', jobs[k] # NoJob PROVE jobs'[k] # NoJob
    <3>1. CASE k = cur[l]
      BY <1>10, <2>2, <3>1 DEF Finish
    <3>2. CASE k # cur[l]
      BY <1>0, <1>10, <2>2, <3>2 DEF Finish, TypeOK, Table
    <3> QED  BY <3>1, <3>2
  <2> QED  BY <2>1, <2>2, StillDurable
<1>11. CASE Crash
  BY <1>11 DEF Crash, Durable, Present
<1>12. CASE NewCronService
  <2>1. /\ file' = file /\ torn' = torn /\ wanted' = wanted /\ saving' = "no"
        /\ ~torn => jobs' = file
    BY <1>0, <1>12 DEF NewCronService, LoadStore, Alive, histVars, TypeOK
  <2> QED  BY <2>1 DEF Durable, Present
<1>13. CASE UNCHANGED vars
  BY <1>13 DEF vars, Durable, Present
<1> QED  BY <1>1, <1>2, <1>3, <1>4, <1>5, <1>6, <1>7, <1>8, <1>9, <1>10, <1>11, <1>12,
            <1>13 DEF Next, Api, LoopStep

(* A job whose addition was reported as done is in the file until it is    *)
(* ended or the file is torn: failing saves and crashes between two saves  *)
(* do not lose it (service.go:346-387,403-428).                            *)
THEOREM AdditionsLast == Spec => []AddedIsDurable
<1>1. Init => Durable
  BY DEF Init, Durable
<1>2. Durable => AddedIsDurable
  BY DEF Durable, AddedIsDurable
<1> QED  BY <1>1, <1>2, CronInvariant, DurableStep, PTL DEF Spec

-----------------------------------------------------------------------------
(***************************************************************************)
(* A one-time job is executed at most once.  The argument: a job is        *)
(* collected only while it has a next run; of a one-time job that is its   *)
(* time, which has come by then, so that nothing that computes a next run  *)
(* afterwards (Start, EnableJob) yields one.                               *)
(***************************************************************************)

At(table, id) == table[id] # NoJob /\ table[id].sched.kind = "at"

Began(id) == runs[id] > 0 \/ Pending(id)
Queued(l, id) == id \in due[l] /\ cur[l] # id

(* The table and the file agree on what a job is. *)
SameSchedule ==
  \A id \in Ids : jobs[id] # NoJob /\ file[id] # NoJob => jobs[id].sched = file[id].sched

(* What has been collected was due. *)
Late(table) == \A id \in Ids : At(table, id) /\ Began(id) => table[id].sched.arg <= now

(* The next run of a one-time job is its time, and is spent once. *)
Spent ==
  running \/ saving = "start" =>
    \A id \in Ids : At(jobs, id) /\ jobs[id].enabled =>
      /\ jobs[id].next # Never => jobs[id].next = jobs[id].sched.arg
      /\ Began(id) => jobs[id].next = Never

(* Nothing has happened to numbers that are not in use. *)
Unused == \A id \in Ids : id > created => ~Began(id)

Idle == \A l \in Loops : pc[l] # "run" => cur[l] = Never

(* Executions begun and executions still to begin are together at most one. *)
Once ==
  \A id \in Ids : At(jobs, id) \/ At(file, id) =>
    /\ runs[id] <= 1
    /\ \A l \in Loops : Queued(l, id) => runs[id] = 0
    /\ \A l, k \in Loops : Queued(l, id) /\ Queued(k, id) => l = k

OnceInv == /\ CronInv /\ SameSchedule /\ Late(jobs) /\ Late(file)
           /\ Spent /\ Unused /\ Idle /\ Once

-----------------------------------------------------------------------------
LEMMA InitOnce == Init => OnceInv
<1> SUFFICES ASSUME Init PROVE OnceInv
  OBVIOUS
<1>1. CronInv
  BY InitCron
<1>2. \A id \in Ids : ~Began(id)
  BY DEF Init, Began, Pending
<1>3. SameSchedule /\ Spent /\ Idle
  BY DEF Init, SameSchedule, Spent, Idle
<1>4. Late(jobs) /\ Late(file) /\ Unused
  BY <1>2 DEF Late, Unused
<1>5. Once
  BY DEF Init, Once, Queued
<1> QED  BY <1>1, <1>3, <1>4, <1>5 DEF OnceInv

(* A time that has come gives a one-time job no next run. *)
LEMMA NoMore ==
  ASSUME NEW s \in Schedule, NEW t \in Nat, s.kind = "at"
  PROVE  /\ ComputeNext(s, t) # Never => ComputeNext(s, t) = s.arg
         /\ s.arg <= t => ComputeNext(s, t) = Never
<1>1. s.arg \in Nat
  BY DEF Schedule
<1>2. ComputeNext(s, t) = IF s.arg > t THEN s.arg ELSE Never
  BY DEF ComputeNext
<1> QED  BY <1>1, <1>2

(* Entries of a table that keep their schedule, or are new. *)
Kept(old, file0, new) ==
  \A id \in Ids : new[id] # NoJob =>
    \/ old[id] # NoJob /\ new[id].sched = old[id].sched
    \/ file0[id] # NoJob /\ new[id].sched = file0[id].sched
    \/ id > created

(* Steps that execute nothing and collect nothing. *)
LEMMA Frame ==
  ASSUME OnceInv, CronInv', UNCHANGED <<runs, due, cur>>,
         now' >= now, created' >= created,
         Kept(jobs, file, jobs'), Kept(jobs, file, file'),
         \A l \in Loops : pc'[l] = "run" <=> pc[l] = "run",
         SameSchedule', Spent'
  PROVE  OnceInv'
<1> USE DEF OnceInv
<1>1. \A id \in Ids : /\ Began(id)' <=> Began(id)
                      /\ \A l \in Loops : Queued(l, id)' <=> Queued(l, id)
  BY DEF Began, Pending, Queued
<1>2. \A id \in Ids : Began(id) => ~(id > created)
  BY DEF Unused
<1>3. ASSUME NEW id \in Ids, At(jobs, id)' \/ At(file, id)'
      PROVE  id > created \/ At(jobs, id) \/ At(file, id)
  BY <1>3 DEF Kept, At
<1>4. Late(jobs)'
  BY <1>1, <1>2 DEF Late, At, Kept, CronInv, TypeOK, Table, Job, Schedule
<1>5. Late(file)'
  BY <1>1, <1>2 DEF Late, At, Kept, CronInv, TypeOK, Table, Job, Schedule
<1>6. Unused'
  BY <1>1 DEF Unused, CronInv, TypeOK, Ids
<1>7. Idle'
  BY DEF Idle
<1>8. Once'
  <2> SUFFICES ASSUME NEW id \in Ids, At(jobs, id)' \/ At(file, id)'
               PROVE  /\ runs[id] <= 1
                      /\ \A l \in Loops : Queued(l, id) => runs[id] = 0
                      /\ \A l, k \in Loops : Queued(l, id) /\ Queued(k, id) => l = k
    BY <1>1 DEF Once
  <2>1. CASE id > created
    <3>1. ~Began(id)
      BY <2>1, <1>2
    <3> QED  BY <3>1 DEF Began, Pending, Queued, CronInv, TypeOK
  <2>2. CASE At(jobs, id) \/ At(file, id)
    BY <2>2 DEF Once
  <2> QED  BY <1>3, <2>1, <2>2
<1> QED  BY <1>4, <1>5, <1>6, <1>7, <1>8

-----------------------------------------------------------------------------
(* The steps of the frame. *)

LEMMA StartOnce == OnceInv /\ Start => OnceInv'
<1> SUFFICES ASSUME OnceInv, Start PROVE OnceInv'
  OBVIOUS
<1>1. CronInv'
  BY StartInv DEF OnceInv
<1>2. TypeOK /\ Late(file)
  BY DEF OnceInv, CronInv
<1>3. CASE torn
  <2>1. jobs' = NoTable /\ file' = file /\ running' = FALSE /\ saving' = "no"
    BY <1>3, <1>2 DEF Start, LoadStore, LockFree, TypeOK
  <2>2. SameSchedule' /\ Spent' /\ Kept(jobs, file, jobs') /\ Kept(jobs, file, file')
    BY <2>1 DEF SameSchedule, Spent, Kept, NoTable
  <2> QED  BY <1>1, <1>2, <2>2, Frame DEF Start, storeVars, loopVars, boundVars, TypeOK
<1>4. CASE ~torn
  <2>1. jobs' = Recompute(file) /\ file' = file /\ runs' = runs /\ due' = due
    BY <1>4 DEF Start, LoadStore, loopVars
  <2>2. ASSUME NEW id \in Ids, file[id] # NoJob
        PROVE  /\ jobs'[id].sched = file[id].sched
               /\ jobs'[id].enabled =>
                    jobs'[id].next = ComputeNext(file[id].sched, now)
    <3>1. file[id] \in Job
      BY <1>2, <2>2 DEF TypeOK, Table
    <3>2. jobs'[id] = IF file[id].enabled
                      THEN [file[id] EXCEPT !.next = ComputeNext(file[id].sched, now)]
                      ELSE file[id]
      BY <2>1, <2>2 DEF Recompute
    <3> QED  BY <3>1, <3>2 DEF Job
  <2>3. \A id \in Ids : jobs'[id] # NoJob => file[id] # NoJob
    BY <2>1 DEF Recompute
  <2>4. SameSchedule' /\ Kept(jobs, file, jobs') /\ Kept(jobs, file, file')
    BY <2>1, <2>2, <2>3 DEF SameSchedule, Kept
  <2>5. Spent'
    <3> SUFFICES ASSUME NEW id \in Ids, At(jobs', id), jobs'[id].enabled
                 PROVE  /\ jobs'[id].next # Never => jobs'[id].next = jobs'[id].sched.arg
                        /\ Began(id) => jobs'[id].next = Never
      BY <2>1 DEF Spent, At, Began, Pending
    <3>1. /\ file[id] # NoJob /\ file[id].sched \in Schedule /\ file[id].sched.kind = "at"
          /\ jobs'[id].next = ComputeNext(file[id].sched, now)
          /\ jobs'[id].sched = file[id].sched
      BY <1>2, <2>2, <2>3 DEF At, TypeOK, Table, Job
    <3>2. Began(id) => file[id].sched.arg <= now
      BY <1>2, <3>1 DEF Late, At
    <3> QED  BY <1>2, <3>1, <3>2, NoMore DEF TypeOK
  <2> QED  BY <1>1, <1>2, <2>4, <2>5, Frame DEF Start, storeVars, loopVars, boundVars, TypeOK
<1> QED  BY <1>3, <1>4

LEMMA SaveDoneOnce == OnceInv /\ SaveDone => OnceInv'
<1> SUFFICES ASSUME OnceInv, SaveDone PROVE OnceInv'
  OBVIOUS
<1>1. CronInv' /\ TypeOK
  BY SaveDoneInv DEF OnceInv, CronInv
<1>2. jobs' = jobs /\ file' = jobs /\ saving' = "no" /\ runs' = runs /\ due' = due
  BY DEF SaveDone, Written
<1>3. SameSchedule' /\ Kept(jobs, file, jobs') /\ Kept(jobs, file, file')
  BY <1>2 DEF SameSchedule, Kept
<1>4. Spent'
  <2>1. running' => running \/ saving = "start"
    BY DEF SaveDone
  <2> QED  BY <1>2, <2>1 DEF OnceInv, Spent, At, Began, Pending
<1>5. \A l \in Loops : pc'[l] = "run" <=> pc[l] = "run"
  BY <1>1 DEF SaveDone, StartLoop, StartedLoop, TypeOK
<1> QED  BY <1>1, <1>3, <1>4, <1>5, Frame DEF SaveDone, boundVars, TypeOK

LEMMA AddJobOnce ==
  ASSUME OnceInv, NEW s \in Schedules, AddJob(s)
  PROVE  OnceInv'
<1> DEFINE new == created + 1
           job == NewJob(s)
<1>1. CronInv' /\ TypeOK /\ Numbered
  BY AddJobInv DEF OnceInv, CronInv
<1>2. new \in Ids /\ created \in Nat /\ s \in Schedule
  BY <1>1, BoundsAssumption, SchedulesAssumption DEF TypeOK, Ids, AddJob
<1>3. file' = file /\ runs' = runs /\ due' = due /\ running' = running /\ saving = "no"
  BY DEF AddJob, loopVars, histVars, LockFree
<1>4. jobs' = [jobs EXCEPT ![new] = job]
  BY DEF AddJob
<1>5. job.sched = s /\ job.next = ComputeNext(s, now)
  BY DEF NewJob
<1> HIDE DEF job
<1>6. jobs'[new] = job /\ \A id \in Ids : id # new => jobs'[id] = jobs[id]
  BY <1>1, <1>2, <1>4 DEF TypeOK, Table
<1>7. file[new] = NoJob /\ ~Began(new)
  BY <1>1, <1>2 DEF Numbered, Present, OnceInv, Unused
<1>8. SameSchedule' /\ Kept(jobs, file, jobs') /\ Kept(jobs, file, file')
  BY <1>2, <1>3, <1>6, <1>7 DEF SameSchedule, Kept, OnceInv
<1>9. Spent'
  <2> SUFFICES ASSUME running, NEW id \in Ids, At(jobs', id), jobs'[id].enabled
               PROVE  /\ jobs'[id].next # Never => jobs'[id].next = jobs'[id].sched.arg
                      /\ Began(id) => jobs'[id].next = Never
    BY <1>3 DEF Spent, At, Began, Pending, AddJob
  <2>1. CASE id = new
    BY <1>1, <1>2, <1>5, <1>6, <1>7, <2>1, NoMore DEF At, TypeOK
  <2>2. CASE id # new
    BY <1>6, <2>2 DEF OnceInv, Spent, At
  <2> QED  BY <2>1, <2>2
<1> QED  BY <1>1, <1>2, <1>8, <1>9, Frame DEF AddJob, loopVars, histVars, TypeOK

LEMMA RemoveJobOnce ==
  ASSUME OnceInv, NEW id \in Ids, RemoveJob(id)
  PROVE  OnceInv'
<1>1. CronInv' /\ TypeOK
  BY RemoveJobInv DEF OnceInv, CronInv
<1>2. /\ file' = file /\ runs' = runs /\ due' = due /\ running' = running /\ saving = "no"
      /\ saving' = "remove"
  BY DEF RemoveJob, loopVars, LockFree
<1>3. \A k \in Ids : jobs'[k] # NoJob => jobs'[k] = jobs[k]
  BY <1>1 DEF RemoveJob, Without, TypeOK, Table
<1>4. SameSchedule' /\ Spent' /\ Kept(jobs, file, jobs') /\ Kept(jobs, file, file')
  BY <1>2, <1>3 DEF SameSchedule, Kept, OnceInv, Spent, At, Began, Pending
<1> QED  BY <1>1, <1>4, Frame DEF RemoveJob, loopVars, boundVars, TypeOK

LEMMA EnableJobOnce ==
  ASSUME OnceInv, NEW id \in Ids, NEW b \in BOOLEAN, EnableJob(id, b)
  PROVE  OnceInv'
<1>1. CronInv' /\ TypeOK
  BY EnableJobInv DEF OnceInv, CronInv
<1>2. /\ file' = file /\ runs' = runs /\ due' = due /\ running' = running /\ saving = "no"
      /\ saving' = "enable" /\ jobs[id] # NoJob
  BY DEF EnableJob, loopVars, histVars, LockFree
<1>3. /\ \A k \in Ids : k # id => jobs'[k] = jobs[k]
      /\ jobs'[id].sched = jobs[id].sched /\ jobs'[id].enabled = b
      /\ b => jobs'[id].next = ComputeNext(jobs[id].sched, now)
      /\ jobs[id].sched \in Schedule
  BY <1>1, <1>2 DEF EnableJob, NextWhenEnabled, TypeOK, Table, Job
<1>4. SameSchedule' /\ Kept(jobs, file, jobs') /\ Kept(jobs, file, file')
  BY <1>2, <1>3 DEF SameSchedule, Kept, OnceInv
<1>5. Spent'
  <2> SUFFICES ASSUME running, NEW k \in Ids, At(jobs', k), jobs'[k].enabled
               PROVE  /\ jobs'[k].next # Never => jobs'[k].next = jobs'[k].sched.arg
                      /\ Began(k) => jobs'[k].next = Never
    BY <1>2 DEF Spent, At, Began, Pending
  <2>1. CASE k = id
    <3>1. Began(id) => jobs[id].sched.arg <= now
      BY <1>2, <1>3, <2>1 DEF OnceInv, Late, At
    <3> QED  BY <1>1, <1>3, <2>1, <3>1, NoMore DEF At, TypeOK
  <2>2. CASE k # id
    BY <1>3, <2>2 DEF OnceInv, Spent, At
  <2> QED  BY <2>1, <2>2
<1> QED  BY <1>1, <1>4, <1>5, Frame DEF EnableJob, loopVars, boundVars, histVars, TypeOK

LEMMA NewCronServiceOnce == OnceInv /\ NewCronService => OnceInv'
<1> SUFFICES ASSUME OnceInv, NewCronService PROVE OnceInv'
  OBVIOUS
<1>1. CronInv' /\ TypeOK /\ Alive
  BY NewCronServiceInv DEF OnceInv, CronInv
<1>2. running' = FALSE /\ saving' = "no" /\ file' = file
  BY <1>1 DEF NewCronService, Alive, TypeOK
<1>3. \A id \in Ids : jobs'[id] # NoJob => jobs'[id] = file[id]
  BY DEF NewCronService, LoadStore, NoTable
<1>4. SameSchedule' /\ Spent' /\ Kept(jobs, file, jobs') /\ Kept(jobs, file, file')
  BY <1>2, <1>3 DEF SameSchedule, Kept, Spent
<1> QED  BY <1>1, <1>4, Frame DEF NewCronService, loopVars, boundVars, histVars, TypeOK

(* Steps that leave the table and the file alone. *)
LEMMA QuietOnce ==
  ASSUME OnceInv, Stop \/ SaveFails \/ Tick \/ \E l \in Loops : LoopExits(l)
  PROVE  OnceInv'
<1>1. CronInv' /\ TypeOK
  BY StopInv, SaveFailsInv, TickInv, LoopExitsInv DEF OnceInv, CronInv
<1>2. /\ jobs' = jobs /\ file' = file /\ runs' = runs /\ due' = due /\ cur' = cur
      /\ running' => running
      /\ saving' = "start" => saving = "start"
      /\ now' >= now /\ created' >= created
  BY <1>1 DEF Stop, SaveFails, Tick, LoopExits, storeVars, loopVars, boundVars, histVars, TypeOK
<1>3. \A l \in Loops : pc'[l] = "run" <=> pc[l] = "run"
  BY <1>1 DEF Stop, SaveFails, Tick, LoopExits, loopVars, TypeOK, Waiting
<1>4. SameSchedule' /\ Kept(jobs, file, jobs') /\ Kept(jobs, file, file')
  BY <1>2 DEF SameSchedule, Kept, OnceInv
<1>5. Spent'
  BY <1>2 DEF OnceInv, Spent, At, Began, Pending
<1> QED  BY <1>1, <1>2, <1>3, <1>4, <1>5, Frame

-----------------------------------------------------------------------------
(* The steps of the loops, and a crash. *)

(* A one-time job that is due has not begun. *)
LEMMA DueIsNew ==
  ASSUME OnceInv, running, NEW id \in DueJobs, At(jobs, id)
  PROVE  /\ ~Began(id)
         /\ jobs[id].sched.arg <= now
BY DEF OnceInv, Spent, DueJobs, Present, Began, At, CronInv, TypeOK

LEMMA CheckJobsOnce ==
  ASSUME OnceInv, NEW l \in Loops, CheckJobs(l)
  PROVE  OnceInv'
<1>1. CronInv' /\ TypeOK /\ Collected
  BY CheckJobsInv DEF OnceInv, CronInv
<1>2. /\ running /\ pc[l] = "wait" /\ due[l] = {} /\ due' = [due EXCEPT ![l] = DueJobs]
      /\ runs' = runs /\ cur' = cur /\ file' = file /\ now' = now /\ created' = created
      /\ running' = running
  BY <1>1 DEF CheckJobs, Collected, histVars, boundVars
<1>3. ASSUME NEW id \in Ids
      PROVE  /\ jobs[id] = NoJob <=> jobs'[id] = NoJob
             /\ jobs[id] # NoJob => /\ jobs'[id].sched = jobs[id].sched
                                    /\ jobs'[id].enabled = jobs[id].enabled
                                    /\ jobs'[id].next = IF id \in DueJobs THEN Never ELSE jobs[id].next
  <2>1. CASE id \in DueJobs
    <3>1. jobs[id] \in Job
      BY <1>1, <2>1 DEF TypeOK, Table, DueJobs, Present
    <3>2. jobs'[id] = [jobs[id] EXCEPT !.next = Never]
      BY <2>1 DEF CheckJobs
    <3>3. [jobs[id] EXCEPT !.next = Never] \in Job
      BY <3>1 DEF Job, Never
    <3> QED  BY <2>1, <3>1, <3>2, <3>3, NoJobAssumption DEF Job
  <2>2. CASE id \notin DueJobs
    BY <2>2 DEF CheckJobs
  <2> QED  BY <2>1, <2>2
<1>4. DueJobs \subseteq Ids /\ \A id \in DueJobs : jobs[id] # NoJob
  BY DEF DueJobs, Present
<1>5. ASSUME NEW id \in Ids
      PROVE  /\ Pending(id)' <=> Pending(id) \/ id \in DueJobs
             /\ Began(id)' <=> Began(id) \/ id \in DueJobs
             /\ \A k \in Loops : k # l => (Queued(k, id)' <=> Queued(k, id))
             /\ Queued(l, id)' => id \in DueJobs
             /\ ~Queued(l, id)
  BY <1>1, <1>2 DEF Pending, Began, Queued, TypeOK
<1>6. ASSUME NEW id \in DueJobs, At(jobs, id) \/ At(file, id)
      PROVE  At(jobs, id) /\ jobs[id].sched.arg <= now /\ ~Began(id)
  <2>1. At(jobs, id)
    BY <1>4, <1>6 DEF OnceInv, SameSchedule, At
  <2> QED  BY <1>2, <2>1, DueIsNew
<1>7. SameSchedule'
  BY <1>2, <1>3 DEF OnceInv, SameSchedule
<1>8. Late(jobs)' /\ Late(file)'
  <2>1. Late(jobs)'
    BY <1>2, <1>3, <1>5, <1>6 DEF OnceInv, Late, At
  <2>2. Late(file)'
    <3> SUFFICES ASSUME NEW id \in Ids, At(file, id), Began(id)'
                 PROVE  file[id].sched.arg <= now
      BY <1>2 DEF Late, At
    <3>1. CASE id \in DueJobs
      BY <1>4, <1>6, <3>1 DEF OnceInv, SameSchedule, At
    <3>2. CASE id \notin DueJobs
      BY <1>5, <3>2 DEF OnceInv, Late
    <3> QED  BY <3>1, <3>2
  <2> QED  BY <2>1, <2>2
<1>9. Spent'
  <2> SUFFICES ASSUME NEW id \in Ids, At(jobs', id), jobs'[id].enabled
               PROVE  /\ jobs'[id].next # Never => jobs'[id].next = jobs'[id].sched.arg
                      /\ Began(id)' => jobs'[id].next = Never
    BY <1>2 DEF Spent, At
  <2>1. At(jobs, id) /\ jobs[id].enabled
    BY <1>3 DEF At
  <2> QED  BY <1>2, <1>3, <1>5, <2>1 DEF OnceInv, Spent, At
<1>10. Unused' /\ Idle'
  <2>1. Unused'
    <3>1. \A id \in DueJobs : ~(id > created)
      BY <1>1, <1>4 DEF OnceInv, CronInv, Numbered, Present, TypeOK, Ids
    <3> QED  BY <1>2, <1>5, <3>1 DEF OnceInv, Unused
  <2>2. \A k \in Loops : pc'[k] # "run" => pc[k] # "run"
    BY <1>1, <1>2 DEF CheckJobs, TypeOK
  <2> QED  BY <1>2, <2>1, <2>2 DEF OnceInv, Idle
<1>11. Once'
  <2> SUFFICES ASSUME NEW id \in Ids, At(jobs, id) \/ At(file, id)
               PROVE  /\ runs[id] <= 1
                      /\ \A k \in Loops : Queued(k, id)' => runs[id] = 0
                      /\ \A j, k \in Loops : Queued(j, id)' /\ Queued(k, id)' => j = k
    BY <1>2, <1>3 DEF Once, At
  <2>1. CASE id \in DueJobs
    <3>1. ~Began(id)
      BY <1>6, <2>1
    <3>2. runs[id] = 0 /\ \A k \in Loops : ~Queued(k, id)
      BY <1>1, <3>1 DEF Began, Pending, Queued, TypeOK
    <3> QED  BY <1>5, <3>2
  <2>2. CASE id \notin DueJobs
    BY <1>5, <2>2 DEF OnceInv, Once
  <2> QED  BY <2>1, <2>2
<1> QED  BY <1>1, <1>7, <1>8, <1>9, <1>10, <1>11 DEF OnceInv

(* A loop that drops a job has begun nothing. *)
LEMMA DropOnce ==
  ASSUME OnceInv, CronInv', NEW l \in Loops, NEW id \in Ids, Drop(l, id),
         pc[l] = "exec" \/ cur[l] = id,
         runs' = runs, file' = file, now' = now, created' = created,
         running' = running, saving' = "start" => saving = "start",
         \A k \in Ids : jobs'[k] # NoJob =>
           /\ jobs[k] # NoJob /\ jobs'[k].sched = jobs[k].sched
           /\ At(jobs, k) /\ jobs'[k].enabled =>
                jobs[k].enabled /\ jobs'[k].next = jobs[k].next
  PROVE  OnceInv'
<1>1. TypeOK /\ Collected
  BY DEF OnceInv, CronInv
<1>2. cur[l] \in {Never, id} /\ cur' = [cur EXCEPT ![l] = Never]
      /\ due' = [due EXCEPT ![l] = @ \ {id}]
  BY DEF Drop, OnceInv, Idle
<1>3. ASSUME NEW k \in Ids
      PROVE  /\ Began(k)' => Began(k)
             /\ \A j \in Loops : Queued(j, k)' => Queued(j, k)
  <2>1. \A j \in Loops : k \in due'[j] => k \in due[j]
    BY <1>1, <1>2 DEF TypeOK
  <2>2. Began(k)' => Began(k)
    BY <2>1 DEF Began, Pending
  <2>3. k # Never
    BY BoundsAssumption DEF Ids, Never
  <2>4. ASSUME NEW j \in Loops, Queued(j, k)' PROVE Queued(j, k)
    <3>1. CASE j = l
      BY <1>1, <1>2, <2>3, <2>4, <3>1 DEF Queued, TypeOK
    <3>2. CASE j # l
      BY <1>1, <1>2, <2>4, <3>2 DEF Queued, TypeOK
    <3> QED  BY <3>1, <3>2
  <2> QED  BY <2>2, <2>4
<1>4. SameSchedule'
  BY DEF OnceInv, SameSchedule
<1>5. Late(jobs)' /\ Late(file)'
  BY <1>3 DEF OnceInv, Late, At
<1>6. Spent'
  BY <1>3 DEF OnceInv, Spent, At
<1>7. Unused'
  BY <1>3 DEF OnceInv, Unused
<1>8. Idle'
  BY <1>1, <1>2 DEF Drop, OnceInv, Idle, TypeOK
<1>9. Once'
  BY <1>3 DEF OnceInv, Once, At
<1> QED  BY <1>4, <1>5, <1>6, <1>7, <1>8, <1>9 DEF OnceInv

LEMMA BeginOnce ==
  ASSUME OnceInv, NEW l \in Loops, Begin(l)
  PROVE  OnceInv'
<1>1. CronInv' /\ TypeOK /\ Collected
  BY BeginInv DEF OnceInv, CronInv
<1>2. PICK id \in due[l] : Begin(l)!3!(id)
  BY DEF Begin
<1>3. /\ id \in Ids /\ pc[l] = "exec" /\ cur[l] = Never
      /\ jobs' = jobs /\ file' = file /\ now' = now /\ created' = created
      /\ running' = running /\ saving' = saving
  BY <1>1 DEF Begin, OnceInv, Idle, TypeOK, storeVars, boundVars
<1>4. CASE jobs[id] = NoJob
  <2>1. Drop(l, id) /\ runs' = runs
    BY <1>2, <1>4
  <2> QED  BY <1>1, <1>3, <2>1, DropOnce
<1>5. CASE jobs[id] # NoJob
  <2>1. /\ due' = due /\ cur' = [cur EXCEPT ![l] = id]
        /\ runs' = [runs EXCEPT ![id] = @ + 1]
        /\ pc' = [pc EXCEPT ![l] = "run"]
    BY <1>2, <1>5
  <2>2. Pending(id) /\ Queued(l, id)
    BY <1>1, <1>2, <1>3, BoundsAssumption DEF Pending, Queued, Ids, Never
  <2>3. ASSUME NEW k \in Ids
        PROVE  /\ Began(k)' <=> Began(k)
               /\ \A j \in Loops : Queued(j, k)' => Queued(j, k) /\ ~(j = l /\ k = id)
               /\ runs'[k] = IF k = id THEN runs[k] + 1 ELSE runs[k]
    <3>1. runs'[k] = IF k = id THEN runs[k] + 1 ELSE runs[k]
      BY <1>1, <1>3, <2>1 DEF TypeOK
    <3>2. Pending(k)' <=> Pending(k)
      BY <2>1 DEF Pending
    <3>3. Began(k)' <=> Began(k)
      BY <1>1, <2>2, <3>1, <3>2 DEF Began, TypeOK
    <3>4. ASSUME NEW j \in Loops, Queued(j, k)'
          PROVE  Queued(j, k) /\ ~(j = l /\ k = id)
      <4>1. CASE j = l
        BY <1>1, <1>3, <2>1, <3>4, <4>1, BoundsAssumption DEF Queued, TypeOK, Ids, Never
      <4>2. CASE j # l
        BY <1>1, <2>1, <3>4, <4>2 DEF Queued, TypeOK
      <4> QED  BY <4>1, <4>2
    <3> QED  BY <3>1, <3>3, <3>4
  <2>4. SameSchedule' /\ Late(jobs)' /\ Late(file)' /\ Unused'
    BY <1>3, <2>3 DEF OnceInv, SameSchedule, Late, At, Unused
  <2>5. Spent'
    BY <1>3, <2>3 DEF OnceInv, Spent, At
  <2>6. Idle'
    BY <1>1, <2>1 DEF OnceInv, Idle, TypeOK
  <2>7. Once'
    <3> SUFFICES ASSUME NEW k \in Ids, At(jobs, k) \/ At(file, k)
                 PROVE  /\ runs'[k] <= 1
                        /\ \A j \in Loops : Queued(j, k)' => runs'[k] = 0
                        /\ \A i, j \in Loops : Queued(i, k)' /\ Queued(j, k)' => i = j
      BY <1>3 DEF Once, At
    <3>1. /\ runs[k] <= 1 /\ runs[k] \in Nat
          /\ \A j \in Loops : Queued(j, k) => runs[k] = 0
          /\ \A i, j \in Loops : Queued(i, k) /\ Queued(j, k) => i = j
      BY <1>1 DEF OnceInv, Once, TypeOK
    <3>2. CASE k = id
      BY <2>2, <2>3, <3>1, <3>2
    <3>3. CASE k # id
      BY <2>3, <3>1, <3>3
    <3> QED  BY <3>2, <3>3
  <2> QED  BY <1>1, <2>4, <2>5, <2>6, <2>7 DEF OnceInv
<1> QED  BY <1>4, <1>5

LEMMA FinishOnce ==
  ASSUME OnceInv, NEW l \in Loops, Finish(l)
  PROVE  OnceInv'
<1> DEFINE id == cur[l]
<1>1. CronInv' /\ TypeOK /\ Collected
  BY FinishInv DEF OnceInv, CronInv
<1>2. /\ id \in Ids /\ Drop(l, id) /\ runs' = runs /\ file' = file /\ now' = now
      /\ created' = created /\ running' = running /\ (saving' = "start" => saving = "start")
  BY <1>1 DEF Finish, Collected, TypeOK, LockFree, boundVars
<1>3. ASSUME NEW k \in Ids, jobs'[k] # NoJob
      PROVE  /\ jobs[k] # NoJob /\ jobs'[k].sched = jobs[k].sched
             /\ At(jobs, k) /\ jobs'[k].enabled =>
                  jobs[k].enabled /\ jobs'[k].next = jobs[k].next
  <2>1. CASE k = id /\ jobs[id] # NoJob
    <3>1. jobs[id] \in Job /\ jobs'[id] = AfterRun(jobs[id])
      BY <1>1, <1>2, <2>1 DEF Finish, TypeOK, Table
    <3>2. CASE jobs[id].sched.kind = "at"
      <4>1. jobs'[id] = [jobs[id] EXCEPT !.enabled = FALSE, !.next = Never]
        BY <1>3, <2>1, <3>1, <3>2 DEF AfterRun
      <4> QED  BY <2>1, <3>1, <4>1 DEF Job
    <3>3. CASE jobs[id].sched.kind # "at"
      <4>1. jobs'[id] = [jobs[id] EXCEPT !.next = ComputeNext(jobs[id].sched, now)]
        BY <3>1, <3>3 DEF AfterRun
      <4> QED  BY <2>1, <3>1, <3>3, <4>1 DEF Job, At
    <3> QED  BY <3>2, <3>3
  <2>2. CASE k # id \/ jobs[id] = NoJob
    BY <1>1, <1>2, <1>3, <2>2 DEF Finish, TypeOK, Table
  <2> QED  BY <2>1, <2>2
<1>4. cur[l] = id
  OBVIOUS
<1> HIDE DEF id
<1> QED  BY <1>1, <1>2, <1>3, <1>4, DropOnce

LEMMA CrashOnce == OnceInv /\ Crash => OnceInv'
<1> SUFFICES ASSUME OnceInv, Crash PROVE OnceInv'
  OBVIOUS
<1>1. CronInv' /\ TypeOK
  BY CrashInv DEF OnceInv, CronInv
<1>2. /\ running' = FALSE /\ saving' = "no" /\ jobs' = NoTable /\ file' = file
      /\ runs' = runs /\ now' = now /\ created' = created
      /\ \A l \in Loops : due'[l] = {} /\ cur'[l] = Never
  BY DEF Crash
<1>3. \A id \in Ids : /\ Began(id)' => Began(id)
                      /\ jobs'[id] = NoJob
                      /\ \A l \in Loops : ~Queued(l, id)'
  BY <1>2 DEF Began, Pending, Queued, NoTable
<1>4. SameSchedule' /\ Spent' /\ Idle' /\ Unused'
  BY <1>2, <1>3 DEF OnceInv, SameSchedule, Spent, Idle, Unused
<1>5. Late(jobs)' /\ Late(file)'
  BY <1>2, <1>3 DEF OnceInv, Late, At
<1>6. Once'
  BY <1>2, <1>3 DEF OnceInv, Once, At
<1> QED  BY <1>1, <1>4, <1>5, <1>6 DEF OnceInv

-----------------------------------------------------------------------------
LEMMA OnceStep == OnceInv /\ [Next]_vars => OnceInv'
<1> SUFFICES ASSUME OnceInv, [Next]_vars PROVE OnceInv'
  OBVIOUS
<1>1. CASE Api
  <2>1. CASE Start
    BY <2>1, StartOnce
  <2>2. CASE Stop
    BY <2>2, QuietOnce
  <2>3. ASSUME NEW s \in Schedules, AddJob(s) PROVE OnceInv'
    BY <2>3, AddJobOnce
  <2>4. ASSUME NEW id \in Ids, RemoveJob(id) PROVE OnceInv'
    BY <2>4, RemoveJobOnce
  <2>5. ASSUME NEW id \in Ids, NEW b \in BOOLEAN, EnableJob(id, b) PROVE OnceInv'
    BY <2>5, EnableJobOnce
  <2> QED  BY <1>1, <2>1, <2>2, <2>3, <2>4, <2>5 DEF Api
<1>2. CASE SaveDone
  BY <1>2, SaveDoneOnce
<1>3. CASE SaveFails \/ Tick
  BY <1>3, QuietOnce
<1>4. ASSUME NEW l \in Loops, LoopStep(l) PROVE OnceInv'
  BY <1>4, QuietOnce, CheckJobsOnce, BeginOnce, FinishOnce DEF LoopStep
<1>5. CASE Crash
  BY <1>5, CrashOnce
<1>6. CASE NewCronService
  BY <1>6, NewCronServiceOnce
<1>7. CASE UNCHANGED vars
  <2>1. CronInv'
    BY <1>7, CronStep DEF OnceInv
  <2> QED  BY <1>7, <2>1 DEF OnceInv, SameSchedule, Late, Spent, Unused, Idle, Once, At,
                             Began, Queued, Pending, vars
<1> QED  BY <1>1, <1>2, <1>3, <1>4, <1>5, <1>6, <1>7 DEF Next

(* A one-time job is executed at most once, through any number of          *)
(* overlapping run loops, restarts, crashes, failing saves and calls of    *)
(* the API (service.go:81-132,134-243,245-289).                            *)
THEOREM AtMostOnce == Spec => []OneTimeAtMostOnce
<1>1. Spec => []OnceInv
  BY InitOnce, OnceStep, PTL DEF Spec
<1>2. OnceInv => OneTimeAtMostOnce
  BY DEF OnceInv, Once, OneTimeAtMostOnce, At, Present
<1> QED  BY <1>1, <1>2, PTL

-----------------------------------------------------------------------------
(***************************************************************************)
(* No execution comes early.  The argument: as long as Start has not       *)
(* overtaken a stopped loop there is one loop, so that between an          *)
(* execution and the moment the job is armed again nobody else collects    *)
(* it; and whatever arms a job computes its next run from a moment that is *)
(* not before its last execution.                                          *)
(***************************************************************************)

(* The earliest moment of the next execution of a recurring job. *)
Earliest(id) == IF jobs[id].sched.kind = "every" THEN last[id] + jobs[id].sched.arg
                ELSE last[id] + 1
Recurs(id) == jobs[id] # NoJob /\ jobs[id].sched.kind # "at"

LiveLoop(l) == pc[l] \notin {"none", "exited"}

(* As long as Start has not overtaken a stopped loop there is one loop. *)
Alone == /\ \A l, k \in Loops : LiveLoop(l) /\ LiveLoop(k) => l = k
         /\ saving = "start" => \A l \in Loops : ~LiveLoop(l)

(* What is armed is armed late enough, unless its run is still going on,   *)
(* which will arm it again.                                                *)
ArmedLate ==
  running \/ saving = "start" =>
    \A id \in Ids : /\ Recurs(id) /\ jobs[id].enabled /\ ~Pending(id)
                    /\ jobs[id].next # Never
                    => jobs[id].next >= Earliest(id)

(* What waits for its execution may be executed. *)
QueuedLate ==
  \A l \in Loops, id \in Ids : Recurs(id) /\ Queued(l, id) => now >= Earliest(id)

EarlyInv ==
  /\ OnceInv
  /\ \A id \in Ids : last[id] <= now
  /\ ~up => \A l \in Loops : due[l] = {}
  /\ ~overlap => Alone /\ ArmedLate /\ QueuedLate

-----------------------------------------------------------------------------
(* A next run computed now is not before the earliest moment. *)
LEMMA LateEnough ==
  ASSUME NEW sched \in Schedule, NEW t \in Nat, NEW u \in Nat, u <= t,
         sched.kind # "at", ComputeNext(sched, t) # Never
  PROVE  ComputeNext(sched, t) >= IF sched.kind = "every" THEN u + sched.arg ELSE u + 1
<1>1. sched.arg \in Nat /\ sched.kind \in {"every", "cron"} BY DEF Schedule
<1>2. CASE sched.kind = "every"
  <2>1. sched.arg > 0 /\ ComputeNext(sched, t) = t + sched.arg
    BY <1>1, <1>2 DEF ComputeNext
  <2> QED BY <1>1, <1>2, <2>1
<1>3. CASE sched.kind = "cron"
  <2>1. sched.arg > 0 /\ ComputeNext(sched, t) = ((t \div sched.arg) + 1) * sched.arg
    BY <1>1, <1>3 DEF ComputeNext
  <2>2. ASSUME NEW a \in Nat, a > 0 PROVE ((t \div a) + 1) * a >= t + 1
    BY <2>2
  <2>3. ComputeNext(sched, t) >= t + 1 BY <1>1, <2>1, <2>2
  <2>4. ComputeNext(sched, t) \in Nat BY NextRun
  <2> QED BY <1>3, <2>3, <2>4
<1> QED BY <1>1, <1>2, <1>3

(* A job keeps its schedule as long as it is in the table. *)
SameJobs == \A id \in Ids : jobs'[id] # NoJob =>
              \/ jobs[id] # NoJob /\ jobs'[id].sched = jobs[id].sched
              \/ ~Pending(id)

(* Steps that neither start, collect nor execute anything. *)
LEMMA EarlyFrame ==
  ASSUME EarlyInv, OnceInv', UNCHANGED <<due, cur, last, overlap>>, now' >= now,
         up' = up, saving' = "start" => saving = "start",
         \A l \in Loops : LiveLoop(l)' => LiveLoop(l),
         SameJobs, ~overlap => ArmedLate'
  PROVE  EarlyInv'
<1>1. TypeOK /\ TypeOK' BY DEF EarlyInv, OnceInv, CronInv
<1>2. \A id \in Ids : last'[id] <= now' BY <1>1 DEF EarlyInv, TypeOK
<1>3. ~up' => \A l \in Loops : due'[l] = {} BY DEF EarlyInv
<1>4. ASSUME ~overlap PROVE Alone' BY <1>4 DEF EarlyInv, Alone
<1>5. ASSUME ~overlap PROVE QueuedLate'
  <2> SUFFICES ASSUME NEW l \in Loops, NEW id \in Ids, Recurs(id)', Queued(l, id)'
               PROVE  now' >= Earliest(id)'
    BY DEF QueuedLate
  <2>1. Queued(l, id) /\ Pending(id) BY DEF Queued, Pending
  <2>2. jobs[id] # NoJob /\ jobs'[id].sched = jobs[id].sched BY <2>1 DEF SameJobs, Recurs
  <2>3. Recurs(id) /\ Earliest(id)' = Earliest(id) BY <2>2 DEF Recurs, Earliest
  <2>4. now >= Earliest(id) BY <1>5, <2>1, <2>3 DEF EarlyInv, QueuedLate
  <2>5. Earliest(id) \in Nat
    BY <1>1, <2>2 DEF Earliest, TypeOK, Table, Job, Schedule
  <2> QED BY <1>1, <2>3, <2>4, <2>5 DEF TypeOK
<1> QED BY <1>2, <1>3, <1>4, <1>5 DEF EarlyInv

(* Jobs whose records keep what matters stay armed late. *)
LEMMA StillArmedLate ==
  ASSUME ArmedLate, UNCHANGED <<due, last>>,
         running' \/ saving' = "start" => running \/ saving = "start",
         \A id \in Ids : jobs'[id] # NoJob =>
           /\ jobs[id] # NoJob /\ jobs'[id].sched = jobs[id].sched
           /\ jobs'[id].enabled => jobs[id].enabled
           /\ jobs'[id].next = jobs[id].next
  PROVE  ArmedLate'
<1> SUFFICES ASSUME running' \/ saving' = "start", NEW id \in Ids, Recurs(id)',
                    jobs'[id].enabled, ~Pending(id)', jobs'[id].next # Never
             PROVE  jobs'[id].next >= Earliest(id)'
  BY DEF ArmedLate
<1>1. /\ Recurs(id) /\ jobs[id].enabled /\ jobs'[id].next = jobs[id].next
      /\ jobs'[id].sched = jobs[id].sched
  BY DEF Recurs
<1>2. ~Pending(id) /\ Earliest(id)' = Earliest(id) BY <1>1 DEF Pending, Earliest
<1> QED BY <1>1, <1>2 DEF ArmedLate

-----------------------------------------------------------------------------
LEMMA InitEarly == Init => EarlyInv
<1> SUFFICES ASSUME Init PROVE EarlyInv OBVIOUS
<1>1. OnceInv BY InitOnce
<1>2. \A id \in Ids : last[id] <= now BY DEF Init, Never
<1>3. Alone /\ ArmedLate /\ QueuedLate /\ up
  BY DEF Init, Alone, LiveLoop, ArmedLate, QueuedLate, Queued
<1> QED BY <1>1, <1>2, <1>3 DEF EarlyInv

(* Steps that leave the table alone, and arm nothing. *)
LEMMA QuietEarly ==
  ASSUME EarlyInv, Stop \/ SaveFails \/ Tick \/ \E l \in Loops : LoopExits(l)
  PROVE  EarlyInv'
<1>1. OnceInv' /\ TypeOK BY QuietOnce DEF EarlyInv, OnceInv, CronInv
<1>2. /\ jobs' = jobs /\ due' = due /\ cur' = cur /\ last' = last /\ overlap' = overlap
      /\ running' => running
      /\ saving' = "start" => saving = "start"
      /\ now' >= now /\ up' = up
  BY <1>1 DEF Stop, SaveFails, Tick, LoopExits, storeVars, loopVars, boundVars, histVars, TypeOK
<1>3. \A l \in Loops : LiveLoop(l)' => LiveLoop(l)
  BY <1>1 DEF Stop, SaveFails, Tick, LoopExits, loopVars, TypeOK, Waiting, LiveLoop
<1>4. ~overlap => ArmedLate' BY <1>2, StillArmedLate DEF EarlyInv
<1> QED BY <1>1, <1>2, <1>3, <1>4, EarlyFrame DEF SameJobs

LEMMA RemoveJobEarly ==
  ASSUME EarlyInv, NEW id \in Ids, RemoveJob(id)
  PROVE  EarlyInv'
<1>1. OnceInv' /\ TypeOK BY RemoveJobOnce DEF EarlyInv, OnceInv, CronInv
<1>2. /\ due' = due /\ cur' = cur /\ pc' = pc /\ last' = last /\ overlap' = overlap
      /\ running' = running /\ saving' = "remove" /\ now' = now /\ up' = up
  BY DEF RemoveJob, loopVars
<1>3. \A k \in Ids : jobs'[k] # NoJob => jobs'[k] = jobs[k]
  BY <1>1 DEF RemoveJob, Without, TypeOK, Table
<1>4. ~overlap => ArmedLate' BY <1>2, <1>3, StillArmedLate DEF EarlyInv
<1> QED BY <1>1, <1>2, <1>3, <1>4, EarlyFrame DEF SameJobs, LiveLoop, TypeOK

LEMMA AddJobEarly ==
  ASSUME EarlyInv, NEW s \in Schedules, AddJob(s)
  PROVE  EarlyInv'
<1> DEFINE new == created + 1
           job == NewJob(s)
<1>1. OnceInv' /\ TypeOK /\ OnceInv BY AddJobOnce DEF EarlyInv, OnceInv, CronInv
<1>2. new \in Ids /\ created \in Nat /\ s \in Schedule
  BY <1>1, BoundsAssumption, SchedulesAssumption DEF TypeOK, Ids, AddJob
<1>3. /\ due' = due /\ cur' = cur /\ pc' = pc /\ last' = last /\ overlap' = overlap
      /\ running' = running /\ saving' = "add" /\ saving = "no" /\ now' = now /\ up' = up
  BY DEF AddJob, loopVars, histVars, LockFree
<1>4. jobs' = [jobs EXCEPT ![new] = job] BY DEF AddJob
<1>5. job.sched = s /\ job.next = ComputeNext(s, now) BY DEF NewJob
<1> HIDE DEF job
<1>6. jobs'[new] = job /\ \A id \in Ids : id # new => jobs'[id] = jobs[id]
  BY <1>1, <1>2, <1>4 DEF TypeOK, Table
<1>7. ~Pending(new) BY <1>1, <1>2 DEF OnceInv, Unused, Began
<1>8. SameJobs BY <1>6, <1>7 DEF SameJobs
<1>9. ASSUME ~overlap PROVE ArmedLate'
  <2> SUFFICES ASSUME running, NEW id \in Ids, Recurs(id)', jobs'[id].enabled, ~Pending(id)',
                      jobs'[id].next # Never
               PROVE  jobs'[id].next >= Earliest(id)'
    BY <1>3 DEF ArmedLate
  <2>1. CASE id = new
    <3>1. last[id] \in Nat /\ last[id] <= now /\ now \in Nat BY <1>1 DEF EarlyInv, TypeOK
    <3>2. s.kind # "at" /\ ComputeNext(s, now) # Never BY <1>5, <1>6, <2>1 DEF Recurs
    <3> QED BY <1>2, <1>3, <1>5, <1>6, <2>1, <3>1, <3>2, LateEnough DEF Earliest
  <2>2. CASE id # new
    BY <1>3, <1>6, <1>9, <2>2 DEF EarlyInv, ArmedLate, Recurs, Pending, Earliest
  <2> QED BY <2>1, <2>2
<1> QED BY <1>1, <1>3, <1>8, <1>9, EarlyFrame DEF LiveLoop, TypeOK

LEMMA EnableJobEarly ==
  ASSUME EarlyInv, NEW id \in Ids, NEW b \in BOOLEAN, EnableJob(id, b)
  PROVE  EarlyInv'
<1>1. OnceInv' /\ TypeOK BY EnableJobOnce DEF EarlyInv, OnceInv, CronInv
<1>2. /\ due' = due /\ cur' = cur /\ pc' = pc /\ last' = last /\ overlap' = overlap
      /\ running' = running /\ saving' = "enable" /\ saving = "no" /\ now' = now /\ up' = up
      /\ jobs[id] # NoJob
  BY DEF EnableJob, loopVars, histVars, LockFree
<1>3. /\ \A k \in Ids : k # id => jobs'[k] = jobs[k]
      /\ jobs'[id].sched = jobs[id].sched /\ jobs'[id].enabled = b
      /\ b => jobs'[id].next = ComputeNext(jobs[id].sched, now)
      /\ jobs[id].sched \in Schedule
  BY <1>1, <1>2 DEF EnableJob, NextWhenEnabled, TypeOK, Table, Job
<1>4. SameJobs BY <1>2, <1>3 DEF SameJobs
<1>5. ASSUME ~overlap PROVE ArmedLate'
  <2> SUFFICES ASSUME running, NEW k \in Ids, Recurs(k)', jobs'[k].enabled, ~Pending(k)',
                      jobs'[k].next # Never
               PROVE  jobs'[k].next >= Earliest(k)'
    BY <1>2 DEF ArmedLate
  <2>1. CASE k = id
    <3>1. last[id] \in Nat /\ last[id] <= now /\ now \in Nat BY <1>1 DEF EarlyInv, TypeOK
    <3> QED BY <1>2, <1>3, <2>1, <3>1, LateEnough DEF Earliest, Recurs
  <2>2. CASE k # id
    BY <1>2, <1>3, <1>5, <2>2 DEF EarlyInv, ArmedLate, Recurs, Pending, Earliest
  <2> QED BY <2>1, <2>2
<1> QED BY <1>1, <1>2, <1>4, <1>5, EarlyFrame DEF LiveLoop, TypeOK

(* Start arms every job it loads for a moment late enough. *)
LEMMA StartEarly == EarlyInv /\ Start => EarlyInv'
<1> SUFFICES ASSUME EarlyInv, Start PROVE EarlyInv' OBVIOUS
<1>1. OnceInv' /\ TypeOK /\ Collected BY StartOnce DEF EarlyInv, OnceInv, CronInv
<1>2. /\ due' = due /\ cur' = cur /\ pc' = pc /\ last' = last /\ now' = now /\ up' = up
      /\ up /\ ~running /\ running' = running /\ file' = file
      /\ overlap' = (overlap \/ \E l \in Loops : LiveLoop(l))
  BY DEF Start, loopVars, LockFree, LiveLoop
<1>3. ASSUME ~overlap' PROVE Alone' /\ QueuedLate'
  <2>1. \A l \in Loops : ~LiveLoop(l) BY <1>2, <1>3
  <2>2. \A l \in Loops : due[l] = {} BY <1>1, <2>1 DEF Collected, LiveLoop, TypeOK
  <2> QED BY <1>2, <2>1, <2>2 DEF Alone, QueuedLate, Queued, LiveLoop
<1>4. ArmedLate'
  <2>1. CASE torn BY <1>2, <2>1 DEF Start, ArmedLate, LockFree
  <2>2. CASE ~torn
    <3> SUFFICES ASSUME NEW id \in Ids, Recurs(id)', jobs'[id].enabled, jobs'[id].next # Never
                 PROVE  jobs'[id].next >= Earliest(id)'
      BY DEF ArmedLate
    <3>1. jobs' = Recompute(file) BY <2>2 DEF Start, LoadStore
    <3>2. file[id] \in Job BY <1>1, <3>1 DEF Recurs, Recompute, TypeOK, Table
    <3>3. jobs'[id] = IF file[id].enabled
                      THEN [file[id] EXCEPT !.next = ComputeNext(file[id].sched, now)]
                      ELSE file[id]
      BY <3>1 DEF Recompute, Recurs
    <3>4. /\ jobs'[id].sched = file[id].sched /\ file[id].sched \in Schedule
          /\ jobs'[id].next = ComputeNext(file[id].sched, now)
      BY <3>2, <3>3 DEF Job
    <3>5. last[id] \in Nat /\ last[id] <= now /\ now \in Nat BY <1>1 DEF EarlyInv, TypeOK
    <3> QED BY <1>2, <3>4, <3>5, LateEnough DEF Recurs, Earliest
  <2> QED BY <2>1, <2>2
<1> QED BY <1>1, <1>2, <1>3, <1>4 DEF EarlyInv

LEMMA SaveDoneEarly == EarlyInv /\ SaveDone => EarlyInv'
<1> SUFFICES ASSUME EarlyInv, SaveDone PROVE EarlyInv' OBVIOUS
<1>1. OnceInv' /\ TypeOK BY SaveDoneOnce DEF EarlyInv, OnceInv, CronInv
<1>2. /\ due' = due /\ cur' = cur /\ last' = last /\ now' = now /\ up' = up
      /\ overlap' = overlap /\ jobs' = jobs /\ saving' = "no"
      /\ running' => running \/ saving = "start"
  BY DEF SaveDone, StartLoop
<1>3. ASSUME ~overlap PROVE Alone'
  <2>1. CASE saving = "start"
    <3>1. PICK l \in Loops : pc' = [pc EXCEPT ![l] = "wait"]
      BY <2>1 DEF SaveDone, StartLoop
    <3>2. \A k \in Loops : ~LiveLoop(k) BY <1>3, <2>1 DEF EarlyInv, Alone
    <3> QED BY <1>1, <1>2, <3>1, <3>2 DEF Alone, LiveLoop, TypeOK
  <2>2. CASE saving # "start"
    BY <1>2, <1>3, <2>2 DEF SaveDone, EarlyInv, Alone, LiveLoop
  <2> QED BY <2>1, <2>2
<1>4. ASSUME ~overlap PROVE ArmedLate' BY <1>2, <1>4, StillArmedLate DEF EarlyInv
<1>5. ASSUME ~overlap PROVE QueuedLate'
  BY <1>2, <1>5 DEF EarlyInv, QueuedLate, Queued, Recurs, Earliest
<1> QED BY <1>1, <1>2, <1>3, <1>4, <1>5 DEF EarlyInv

(* What is collected was armed, and its moment has come. *)
LEMMA CheckJobsEarly ==
  ASSUME EarlyInv, NEW l \in Loops, CheckJobs(l)
  PROVE  EarlyInv'
<1>1. OnceInv' /\ TypeOK /\ Collected BY CheckJobsOnce DEF EarlyInv, OnceInv, CronInv
<1>2. /\ running /\ pc[l] = "wait" /\ due[l] = {} /\ due' = [due EXCEPT ![l] = DueJobs]
      /\ last' = last /\ cur' = cur /\ now' = now /\ up' = up /\ up /\ overlap' = overlap
      /\ running' = running /\ saving' = "check"
      /\ pc' = [pc EXCEPT ![l] = IF DueJobs = {} THEN "wait" ELSE "exec"]
  BY <1>1 DEF CheckJobs, Collected, histVars, LockFree
<1>3. ASSUME NEW id \in Ids, jobs'[id] # NoJob
      PROVE  /\ jobs[id] # NoJob /\ jobs'[id].sched = jobs[id].sched
             /\ jobs'[id].enabled = jobs[id].enabled
             /\ jobs'[id].next = IF id \in DueJobs THEN Never ELSE jobs[id].next
  <2>1. CASE id \in DueJobs
    <3>1. jobs[id] \in Job BY <1>1, <2>1 DEF TypeOK, Table, DueJobs, Present
    <3>2. jobs'[id] = [jobs[id] EXCEPT !.next = Never] BY <2>1 DEF CheckJobs
    <3> QED BY <2>1, <3>1, <3>2, NoJobAssumption DEF Job
  <2>2. CASE id \notin DueJobs BY <1>3, <2>2 DEF CheckJobs
  <2> QED BY <2>1, <2>2
<1>4. ASSUME ~overlap PROVE Alone'
  BY <1>1, <1>2, <1>4 DEF EarlyInv, Alone, LiveLoop, TypeOK
<1>5. ASSUME ~overlap, NEW k \in Loops, k # l PROVE due[k] = {}
  <2>1. LiveLoop(l) BY <1>2 DEF LiveLoop
  <2>2. ~LiveLoop(k) BY <1>5, <2>1 DEF EarlyInv, Alone
  <2> QED BY <1>1, <2>2 DEF Collected, LiveLoop
<1>6. ASSUME ~overlap PROVE ArmedLate'
  <2> SUFFICES ASSUME NEW id \in Ids, Recurs(id)', jobs'[id].enabled, ~Pending(id)',
                      jobs'[id].next # Never
               PROVE  jobs'[id].next >= Earliest(id)'
    BY DEF ArmedLate
  <2>1. id \notin DueJobs BY <1>3 DEF Recurs
  <2>2. Recurs(id) /\ jobs[id].enabled /\ jobs[id].next # Never BY <1>3, <2>1 DEF Recurs
  <2>3. ~Pending(id) BY <1>2, <1>5, <1>6 DEF Pending
  <2>4. jobs[id].next >= Earliest(id) BY <1>2, <1>6, <2>2, <2>3 DEF EarlyInv, ArmedLate
  <2> QED BY <1>2, <1>3, <2>1, <2>4 DEF Recurs, Earliest
<1>7. ASSUME ~overlap PROVE QueuedLate'
  <2> SUFFICES ASSUME NEW k \in Loops, NEW id \in Ids, Recurs(id)', Queued(k, id)'
               PROVE  now' >= Earliest(id)'
    BY DEF QueuedLate
  <2>1. k = l /\ id \in DueJobs BY <1>1, <1>2, <1>5, <1>7 DEF Queued, TypeOK
  <2>2. Recurs(id) /\ Earliest(id)' = Earliest(id) BY <1>2, <1>3 DEF Recurs, Earliest
  <2>3. jobs[id].enabled /\ jobs[id].next # Never /\ jobs[id].next <= now
    BY <2>1 DEF DueJobs
  <2>4. ~Pending(id) BY <1>2, <1>5, <1>7 DEF Pending
  <2>5. jobs[id].next >= Earliest(id) BY <1>2, <1>7, <2>2, <2>3, <2>4 DEF EarlyInv, ArmedLate
  <2>6. jobs[id] \in Job BY <1>1, <2>2 DEF Recurs, TypeOK, Table
  <2>7. Earliest(id) \in Nat /\ jobs[id].next \in Nat /\ now \in Nat
    BY <1>1, <2>6 DEF Earliest, TypeOK, Job, Schedule
  <2> QED BY <1>2, <2>2, <2>3, <2>5, <2>7
<1> QED BY <1>1, <1>2, <1>4, <1>6, <1>7 DEF EarlyInv

(* While a job runs it may be armed too early; it is armed again when its  *)
(* run ends.                                                               *)
LEMMA BeginEarly ==
  ASSUME EarlyInv, NEW l \in Loops, Begin(l)
  PROVE  EarlyInv'
<1>1. OnceInv' /\ OnceInv /\ TypeOK /\ Collected BY BeginOnce DEF EarlyInv, OnceInv, CronInv
<1>2. PICK id \in due[l] : Begin(l)!3!(id) BY DEF Begin
<1>3. /\ id \in Ids /\ pc[l] = "exec" /\ cur[l] = Never /\ now' = now /\ up' = up /\ up
      /\ jobs' = jobs /\ running' = running /\ saving' = saving /\ saving = "no"
      /\ overlap' = overlap
  BY <1>1 DEF Begin, OnceInv, Idle, TypeOK, storeVars, LockFree
<1>4. \A k \in Loops : LiveLoop(k)' => LiveLoop(k)
  BY <1>1, <1>2, <1>3 DEF LiveLoop, Drop, TypeOK
<1>5. ASSUME ~overlap PROVE Alone' BY <1>3, <1>4, <1>5 DEF EarlyInv, Alone
<1>6. ASSUME ~overlap, NEW k \in Loops, k # l PROVE due[k] = {}
  <2>1. LiveLoop(l) BY <1>3 DEF LiveLoop
  <2>2. ~LiveLoop(k) BY <1>6, <2>1 DEF EarlyInv, Alone
  <2> QED BY <1>1, <2>2 DEF Collected, LiveLoop
<1>7. CASE jobs[id] = NoJob
  <2>1. /\ due' = [due EXCEPT ![l] = @ \ {id}] /\ cur' = [cur EXCEPT ![l] = Never]
        /\ last' = last
    BY <1>2, <1>7 DEF Drop
  <2>2. ASSUME NEW k \in Ids, jobs[k] # NoJob
        PROVE  Pending(k) => Pending(k)'
    BY <1>1, <1>7, <2>1, <2>2 DEF Pending, TypeOK
  <2>3. ASSUME ~overlap PROVE ArmedLate'
    BY <1>3, <2>1, <2>2, <2>3 DEF EarlyInv, ArmedLate, Recurs, Earliest
  <2>4. \A k \in Loops, j \in Ids : Queued(k, j)' => Queued(k, j)
    BY <1>1, <1>3, <2>1 DEF Queued, TypeOK, Never, Ids
  <2>5. ASSUME ~overlap PROVE QueuedLate'
    BY <1>3, <2>1, <2>4, <2>5 DEF EarlyInv, QueuedLate, Recurs, Earliest
  <2> QED BY <1>1, <1>3, <1>5, <2>1, <2>3, <2>5 DEF EarlyInv
<1>8. CASE jobs[id] # NoJob
  <2>1. /\ due' = due /\ cur' = [cur EXCEPT ![l] = id] /\ last' = [last EXCEPT ![id] = now]
    BY <1>2, <1>8
  <2>2. \A k \in Ids : last'[k] = (IF k = id THEN now ELSE last[k]) BY <1>1, <2>1 DEF TypeOK
  <2>3. \A k \in Ids : last'[k] <= now' BY <1>1, <1>3, <2>2 DEF EarlyInv, TypeOK
  <2>4. Pending(id)' BY <1>2, <2>1 DEF Pending
  <2>5. ASSUME ~overlap PROVE ArmedLate'
    BY <1>3, <2>1, <2>2, <2>4, <2>5 DEF EarlyInv, ArmedLate, Recurs, Earliest, Pending
  <2>6. ASSUME ~overlap PROVE QueuedLate'
    <3> SUFFICES ASSUME NEW k \in Loops, NEW j \in Ids, Recurs(j)', Queued(k, j)'
                 PROVE  now' >= Earliest(j)'
      BY DEF QueuedLate
    <3>1. k = l BY <1>6, <2>1, <2>6 DEF Queued
    <3>2. j # id BY <1>1, <2>1, <3>1 DEF Queued, TypeOK
    <3>3. Queued(l, j) BY <1>3, <2>1, <3>1, BoundsAssumption DEF Queued, Never, Ids
    <3> QED BY <1>3, <2>2, <2>6, <3>2, <3>3 DEF EarlyInv, QueuedLate, Recurs, Earliest
  <2> QED BY <1>1, <1>3, <1>5, <2>1, <2>3, <2>5, <2>6 DEF EarlyInv
<1> QED BY <1>7, <1>8

LEMMA FinishEarly ==
  ASSUME EarlyInv, NEW l \in Loops, Finish(l)
  PROVE  EarlyInv'
<1> DEFINE id == cur[l]
<1>1. OnceInv' /\ TypeOK /\ Collected BY FinishOnce DEF EarlyInv, OnceInv, CronInv
<1>2. /\ id \in Ids /\ pc[l] = "run" /\ now' = now /\ up' = up /\ up /\ last' = last
      /\ running' = running /\ saving = "no" /\ saving' # "start" /\ overlap' = overlap
      /\ due' = [due EXCEPT ![l] = @ \ {id}] /\ cur' = [cur EXCEPT ![l] = Never]
      /\ pc' = [pc EXCEPT ![l] = IF due[l] = {id} THEN "wait" ELSE "exec"]
  BY <1>1 DEF Finish, Drop, Collected, TypeOK, LockFree
<1>3. ASSUME NEW k \in Ids, jobs'[k] # NoJob
      PROVE  /\ jobs[k] # NoJob /\ jobs'[k].sched = jobs[k].sched
             /\ k # id => jobs'[k] = jobs[k]
             /\ k = id /\ Recurs(k) => jobs'[k].next = ComputeNext(jobs[k].sched, now)
  <2>1. CASE k = id /\ jobs[id] # NoJob
    <3>1. jobs[id] \in Job /\ jobs'[id] = AfterRun(jobs[id])
      BY <1>1, <1>2, <2>1 DEF Finish, TypeOK, Table
    <3>2. CASE jobs[id].sched.kind = "at"
      <4>1. jobs'[id] = [jobs[id] EXCEPT !.enabled = FALSE, !.next = Never]
        BY <1>3, <2>1, <3>1, <3>2 DEF AfterRun
      <4> QED BY <2>1, <3>1, <3>2, <4>1 DEF Job, Recurs
    <3>3. CASE jobs[id].sched.kind # "at"
      <4>1. jobs'[id] = [jobs[id] EXCEPT !.next = ComputeNext(jobs[id].sched, now)]
        BY <3>1, <3>3 DEF AfterRun
      <4> QED BY <2>1, <3>1, <3>3, <4>1 DEF Job
    <3> QED BY <3>2, <3>3
  <2>2. CASE k # id \/ jobs[id] = NoJob
    BY <1>1, <1>2, <1>3, <2>2 DEF Finish, TypeOK, Table
  <2> QED BY <2>1, <2>2
<1>4. \A k \in Loops : LiveLoop(k)' => LiveLoop(k)
  BY <1>1, <1>2 DEF LiveLoop, TypeOK
<1>5. ASSUME ~overlap PROVE Alone' BY <1>2, <1>4, <1>5 DEF EarlyInv, Alone
<1>6. ASSUME NEW k \in Ids, k # id PROVE Pending(k) => Pending(k)'
  BY <1>1, <1>2, <1>6 DEF Pending, TypeOK
<1>7. ASSUME ~overlap PROVE ArmedLate'
  <2> SUFFICES ASSUME running, NEW k \in Ids, Recurs(k)', jobs'[k].enabled, ~Pending(k)',
                      jobs'[k].next # Never
               PROVE  jobs'[k].next >= Earliest(k)'
    BY <1>2 DEF ArmedLate
  <2>1. Recurs(k) /\ Earliest(k)' = Earliest(k) BY <1>2, <1>3 DEF Recurs, Earliest
  <2>2. CASE k = id
    <3>1. last[k] \in Nat /\ last[k] <= now /\ now \in Nat BY <1>1 DEF EarlyInv, TypeOK
    <3>2. jobs[k].sched \in Schedule BY <1>1, <2>1 DEF Recurs, TypeOK, Table, Job
    <3>3. jobs'[k].next = ComputeNext(jobs[k].sched, now) BY <1>3, <2>1, <2>2 DEF Recurs
    <3> QED BY <2>1, <3>1, <3>2, <3>3, LateEnough DEF Recurs, Earliest
  <2>3. CASE k # id
    <3>1. ~Pending(k) /\ jobs'[k] = jobs[k] BY <1>3, <1>6, <2>3 DEF Recurs
    <3> QED BY <1>7, <2>1, <3>1 DEF EarlyInv, ArmedLate
  <2> QED BY <2>2, <2>3
<1>8. ASSUME ~overlap PROVE QueuedLate'
  <2>1. \A k \in Loops, j \in Ids : Queued(k, j)' => Queued(k, j)
    <3> SUFFICES ASSUME NEW k \in Loops, NEW j \in Ids, Queued(k, j)' PROVE Queued(k, j)
      OBVIOUS
    <3>1. CASE k = l BY <1>1, <1>2, <3>1 DEF Queued, TypeOK
    <3>2. CASE k # l BY <1>1, <1>2, <3>2 DEF Queued, TypeOK
    <3> QED BY <3>1, <3>2
  <2>2. \A j \in Ids : Recurs(j)' => Recurs(j) /\ Earliest(j)' = Earliest(j)
    BY <1>2, <1>3 DEF Recurs, Earliest
  <2> QED BY <1>2, <1>8, <2>1, <2>2 DEF EarlyInv, QueuedLate
<1>9. ~up' => \A k \in Loops : due'[k] = {} BY <1>2
<1> QED BY <1>1, <1>2, <1>5, <1>7, <1>8, <1>9 DEF EarlyInv

(* A crash forgets what was collected, and the new process has collected   *)
(* nothing.                                                                *)
LEMMA RestartEarly == EarlyInv /\ (Crash \/ NewCronService) => EarlyInv'
<1> SUFFICES ASSUME EarlyInv, Crash \/ NewCronService PROVE EarlyInv' OBVIOUS
<1>1. OnceInv' /\ TypeOK /\ Alive BY CrashOnce, NewCronServiceOnce DEF EarlyInv, OnceInv, CronInv
<1>2. /\ \A l \in Loops : due'[l] = {}
      /\ last' = last /\ now' = now /\ overlap' = overlap /\ ~running' /\ saving' = "no"
  BY <1>1 DEF Crash, NewCronService, EarlyInv, Alive, loopVars, histVars
<1>3. \A l \in Loops : LiveLoop(l)' => LiveLoop(l)
  BY <1>1 DEF Crash, NewCronService, LiveLoop, loopVars, TypeOK
<1>4. ArmedLate' /\ QueuedLate' BY <1>2 DEF ArmedLate, QueuedLate, Queued
<1>5. ~overlap => Alone' BY <1>2, <1>3 DEF EarlyInv, Alone
<1> QED BY <1>1, <1>2, <1>4, <1>5 DEF EarlyInv

LEMMA EarlyStep == EarlyInv /\ [Next]_vars => EarlyInv'
<1> SUFFICES ASSUME EarlyInv, [Next]_vars PROVE EarlyInv' OBVIOUS
<1>1. CASE Api
  <2>1. CASE Start BY <2>1, StartEarly
  <2>2. CASE Stop BY <2>2, QuietEarly
  <2>3. ASSUME NEW s \in Schedules, AddJob(s) PROVE EarlyInv' BY <2>3, AddJobEarly
  <2>4. ASSUME NEW id \in Ids, RemoveJob(id) PROVE EarlyInv' BY <2>4, RemoveJobEarly
  <2>5. ASSUME NEW id \in Ids, NEW b \in BOOLEAN, EnableJob(id, b) PROVE EarlyInv'
    BY <2>5, EnableJobEarly
  <2> QED BY <1>1, <2>1, <2>2, <2>3, <2>4, <2>5 DEF Api
<1>2. CASE SaveDone BY <1>2, SaveDoneEarly
<1>3. CASE SaveFails \/ Tick BY <1>3, QuietEarly
<1>4. ASSUME NEW l \in Loops, LoopStep(l) PROVE EarlyInv'
  BY <1>4, QuietEarly, CheckJobsEarly, BeginEarly, FinishEarly DEF LoopStep
<1>5. CASE Crash \/ NewCronService BY <1>5, RestartEarly
<1>6. CASE UNCHANGED vars
  <2>1. OnceInv' BY <1>6, OnceStep DEF EarlyInv
  <2> QED BY <1>6, <2>1 DEF EarlyInv, Alone, LiveLoop, ArmedLate, QueuedLate, Recurs, Earliest,
                            Queued, Pending, vars
<1> QED BY <1>1, <1>2, <1>3, <1>4, <1>5, <1>6 DEF Next

(* What a step may not do: execute a job before its moment. *)
LEMMA StepNotEarly ==
  ASSUME EarlyInv, [Next]_vars, NEW id \in Ids, runs'[id] # runs[id], ~overlap
  PROVE  CASE jobs[id].sched.kind = "at"    -> now >= jobs[id].sched.arg
           [] jobs[id].sched.kind = "every" -> now >= last[id] + jobs[id].sched.arg
           [] OTHER                         -> now > last[id]
<1>1. TypeOK /\ OnceInv BY DEF EarlyInv, OnceInv, CronInv
<1>2. PICK l \in Loops : Begin(l)
  <2>1. ~(SaveDone \/ SaveFails \/ Tick \/ Crash \/ NewCronService \/ UNCHANGED vars)
    BY DEF SaveDone, SaveFails, Tick, Crash, NewCronService, vars, histVars
  <2>2. ~Api BY DEF Api, Start, Stop, AddJob, RemoveJob, EnableJob, histVars
  <2>3. \A l \in Loops : ~(LoopExits(l) \/ CheckJobs(l) \/ Finish(l))
    BY DEF LoopExits, CheckJobs, Finish, histVars
  <2> QED BY <2>1, <2>2, <2>3 DEF Next, LoopStep
<1>3. PICK k \in due[l] : Begin(l)!3!(k) BY <1>2 DEF Begin
<1>4. k = id /\ jobs[id] # NoJob BY <1>1, <1>3 DEF TypeOK
<1>5. Queued(l, id) /\ Pending(id)
  <2>1. cur[l] = Never /\ id # Never
    BY <1>1, <1>2, BoundsAssumption DEF Begin, OnceInv, Idle, Never, Ids
  <2> QED BY <1>3, <1>4, <2>1 DEF Queued, Pending
<1>6. jobs[id] \in Job /\ jobs[id].sched \in Schedule BY <1>1, <1>4 DEF TypeOK, Table, Job
<1>7. CASE jobs[id].sched.kind = "at"
  <2>1. jobs[id].sched.arg <= now BY <1>1, <1>4, <1>5, <1>7 DEF OnceInv, Late, At, Began
  <2> QED BY <1>1, <1>6, <1>7, <2>1 DEF TypeOK, Schedule
<1>8. CASE jobs[id].sched.kind # "at"
  <2>1. now >= Earliest(id) BY <1>4, <1>5, <1>8 DEF EarlyInv, QueuedLate, Recurs
  <2>2. last[id] \in Nat /\ now \in Nat BY <1>1 DEF TypeOK
  <2> QED BY <1>8, <2>1, <2>2 DEF Earliest
<1> QED BY <1>7, <1>8

(* No execution ever comes early, unless Start has overtaken a loop that   *)
(* was told to stop and is still busy (service.go:81-132,245-279).         *)
THEOREM NeverTooEarly == Spec => NeverEarly
<1> DEFINE A == \A id \in Ids : runs'[id] # runs[id] /\ ~overlap =>
       CASE jobs[id].sched.kind = "at"    -> now >= jobs[id].sched.arg
         [] jobs[id].sched.kind = "every" -> now >= last[id] + jobs[id].sched.arg
         [] OTHER                         -> now > last[id]
<1>1. EarlyInv /\ [Next]_vars => A BY StepNotEarly
<1> QED BY <1>1, InitEarly, EarlyStep, PTL DEF Spec, NeverEarly

-----------------------------------------------------------------------------
(***************************************************************************)
(* The scheduler with its clients.                                         *)
(***************************************************************************)

(* The copy that addJob holds is of a job that has been armed. *)
HeldArmed ==
  held # NoCopy =>
    /\ held \in [id : Ids, added : BOOLEAN, job : Job]
    /\ Periodic(held.job) => held.job.next # Never

(* Before the first command the scheduler keeps its invariant, the cron    *)
(* tool included.                                                          *)
ClientsInv ==
  /\ commands \in Nat
  /\ commands = 0 => CronInv /\ HeldArmed /\ cli = NoCommand

(* The record that AddJob makes, of which the tool keeps a copy. *)
LEMMA NewJobArmed ==
  ASSUME NEW s \in Schedules, now \in Nat
  PROVE  /\ NewJob(s) \in Job
         /\ Periodic(NewJob(s)) => NewJob(s).next # Never
<1>1. s \in Schedule BY SchedulesAssumption
<1>2. s.kind \in {"at", "every", "cron"} /\ s.arg \in Nat BY <1>1 DEF Schedule
<1>3. ComputeNext(s, now) \in Nat /\ (s.kind # "at" /\ s.arg > 0 => ComputeNext(s, now) # Never)
  BY <1>1, NextRun
<1> QED BY <1>1, <1>2, <1>3 DEF NewJob, Job, Periodic

(* UpdateJob puts an armed record in the place of a job of the table. *)
LEMMA UpdateJobInv ==
  ASSUME CronInv, NEW id \in Ids, NEW job \in Job, UpdateJob(id, job),
         Periodic(job) => job.next # Never
  PROVE  CronInv'
<1> USE DEF CronInv, UpdateJob, LockFree, storeVars, loopVars, histVars, boundVars
<1>1. CASE jobs[id] = NoJob
  BY <1>1 DEF TypeOK, Armed, Collected, Alive, Numbered, GoneStaysGone, Pending, Present
<1>2. CASE jobs[id] # NoJob
  <2>a. /\ jobs' = [jobs EXCEPT ![id] = job]
        /\ jobs' \in Table /\ jobs'[id] = job
        /\ \A k \in Ids : k # id => jobs'[k] = jobs[k]
    BY <1>2 DEF TypeOK, Table
  <2>b. Present(jobs') = Present(jobs)
    BY <1>2, <2>a, NoJobAssumption DEF Present
  <2>1. TypeOK' BY <1>2, <2>a DEF TypeOK
  <2>2. Armed' /\ Collected' /\ Alive'
    BY <1>2, <2>a, <2>b DEF Armed, Collected, Alive, Pending, Present
  <2>3. Numbered' /\ GoneStaysGone'
    BY <1>2, <2>b DEF Numbered, GoneStaysGone, Present
  <2> QED BY <2>1, <2>2, <2>3
<1> QED BY <1>1, <1>2

(* A step of the service or of the tool. *)
LEMMA ToolKeeps ==
  ASSUME CronInv, HeldArmed, ToolNext
  PROVE  CronInv' /\ HeldArmed'
<1>1. CASE Service
  <2>1. CronInv' BY <1>1, CronStep DEF Service, Next, LoopStep
  <2> QED BY <1>1, <2>1 DEF Service, HeldArmed, toolVars
<1>2. ASSUME NEW s \in Schedules, AddWithCommand(s) PROVE CronInv' /\ HeldArmed'
  <2>1. CronInv' BY <1>2, AddJobInv DEF AddWithCommand
  <2>2. now \in Nat BY DEF CronInv, TypeOK
  <2>3. created' \in Ids BY <1>2, BoundsAssumption DEF AddWithCommand, AddJob, CronInv, TypeOK, Ids
  <2>4. held' = [id |-> created', added |-> FALSE, job |-> NewJob(s)]
    BY <1>2 DEF AddWithCommand
  <2>5. held' \in [id : Ids, added : BOOLEAN, job : Job] /\ held'.job = NewJob(s)
    BY <2>2, <2>3, <2>4, NewJobArmed
  <2> QED BY <2>1, <2>2, <2>5, NewJobArmed DEF HeldArmed
<1>3. CASE AddReturns
  <2>1. CronInv' BY <1>3, SaveDoneInv DEF AddReturns
  <2>2. CASE held = NoCopy BY <1>3, <2>1, <2>2 DEF AddReturns, HeldArmed
  <2>3. CASE held # NoCopy
    <3>1. held' = [held EXCEPT !.added = TRUE] BY <1>3, <2>3 DEF AddReturns
    <3>2. held' \in [id : Ids, added : BOOLEAN, job : Job] /\ held'.job = held.job
      BY <2>3, <3>1 DEF HeldArmed
    <3> QED BY <2>1, <2>3, <3>2 DEF HeldArmed
  <2> QED BY <2>2, <2>3
<1>4. CASE AddFails
  BY <1>4, SaveFailsInv DEF AddFails, HeldArmed
<1>5. CASE UpdateWithCommand
  <2> DEFINE job == [held.job EXCEPT !.cmd = TRUE]
  <2>1. held.id \in Ids /\ held.job \in Job /\ (Periodic(held.job) => held.job.next # Never)
    BY <1>5 DEF UpdateWithCommand, HeldArmed
  <2>2. job \in Job /\ job.sched = held.job.sched /\ job.next = held.job.next
    BY <2>1 DEF Job
  <2>3. Periodic(job) => job.next # Never BY <2>1, <2>2 DEF Periodic
  <2>4. UpdateJob(held.id, job) BY <1>5 DEF UpdateWithCommand
  <2> HIDE DEF job
  <2>5. CronInv' BY <2>1, <2>2, <2>3, <2>4, UpdateJobInv
  <2> QED BY <1>5, <2>5 DEF UpdateWithCommand, HeldArmed
<1>6. ASSUME NEW l \in Loops, ExecuteJob(l) PROVE CronInv' /\ HeldArmed'
  <2>1. CronInv' BY <1>6, BeginInv DEF ExecuteJob
  <2> QED BY <1>6, <2>1 DEF ExecuteJob, HeldArmed
<1>7. CASE CrashTool
  BY <1>7, CrashInv DEF CrashTool, HeldArmed
<1> QED BY <1>1, <1>2, <1>3, <1>4, <1>5, <1>6, <1>7 DEF ToolNext

(* The first step of a command is to be counted. *)
LEMMA ClientsStep == ClientsInv /\ [ClientsNext]_allVars => ClientsInv'
<1> SUFFICES ASSUME ClientsInv, [ClientsNext]_allVars PROVE ClientsInv'
  OBVIOUS
<1>1. CASE ToolNext /\ UNCHANGED cliVars
  BY <1>1, ToolKeeps DEF ClientsInv, cliVars
<1>2. CASE CliNext /\ UNCHANGED toolVars
  <2>1. CASE CliOpen BY <2>1 DEF CliOpen, ClientsInv
  <2>2. CASE cli # NoCommand /\ commands' = commands BY <2>2 DEF ClientsInv
  <2> QED BY <1>2, <2>1, <2>2
    DEF CliNext, CliQuit, CliAdd, CliRemove, CliEnable
<1>3. CASE UNCHANGED allVars
  <2>1. UNCHANGED vars /\ UNCHANGED <<held, cli, commands>>
    BY <1>3 DEF allVars, toolVars, cliVars
  <2>2. CronInv => CronInv' BY <2>1, CronStep
  <2> QED BY <2>1, <2>2 DEF ClientsInv, HeldArmed
<1> QED BY <1>1, <1>2, <1>3 DEF ClientsNext

(* Whatever the cron tool does between its two calls, the scheduler keeps  *)
(* its invariant as long as no command has been issued (cron.go:176-209).  *)
THEOREM UncommandedInvariant == ClientsSpec => [](commands = 0 => CronInv)
<1>1. ClientsInit => ClientsInv
  BY InitCron DEF ClientsInit, ToolInit, CliInit, ClientsInv, HeldArmed
<1>2. ClientsInv => (commands = 0 => CronInv) BY DEF ClientsInv
<1> QED BY <1>1, <1>2, ClientsStep, PTL DEF ClientsSpec

(* Without commands, what a save has made final stays so: the copy that    *)
(* addJob writes back does not revive a job that was removed or has run    *)
(* (cron.go:196-209, service.go:389-402).                                  *)
THEOREM CopyRevivesNothing == ClientsSpec => []GoneUnlessCommanded
<1>1. (commands = 0 => CronInv) => GoneUnlessCommanded
  BY DEF CronInv, GoneUnlessCommanded
<1> QED BY <1>1, UncommandedInvariant, PTL
=============================================================================
