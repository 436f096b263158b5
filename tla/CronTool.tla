------------------------------ MODULE CronTool ------------------------------
(***************************************************************************)
(* The agent's cron tool (pkg/tools/cron.go) on top of the scheduler.  A   *)
(* job with a shell command is added in two calls: AddJob without the      *)
(* command, then UpdateJob with the caller's copy of the record, in which  *)
(* the command is set.  The run loop works between the two.                *)
(***************************************************************************)
EXTENDS CronService

VARIABLES held,      \* the record addJob holds between its two calls
          asked,     \* history: the jobs that were asked for with a command
          blank      \* history: of these, the jobs executed without it

toolVars == <<held, asked, blank>>

NoCopy == [id |-> Never]

ToolInit == held = NoCopy /\ asked = {} /\ blank = {}

(* addJob with a command: the call of AddJob. *)
AddWithCommand(s) ==
  /\ held = NoCopy
  /\ AddJob(s)
  /\ held' = [id |-> created', added |-> FALSE, job |-> NewJob(s)]
  /\ asked' = asked \cup {created'}
  /\ UNCHANGED blank

(* AddJob returns the copy; another caller's save changes nothing here. *)
AddReturns ==
  /\ SaveDone
  /\ held' = IF held = NoCopy THEN held ELSE [held EXCEPT !.added = TRUE]
  /\ UNCHANGED <<asked, blank>>

(* AddJob returns an error and addJob ends; the job stays in the table. *)
AddFails ==
  /\ SaveFails
  /\ held' = IF held # NoCopy /\ ~held.added THEN NoCopy ELSE held
  /\ UNCHANGED <<asked, blank>>

(* `job.Payload.Command = command; t.cronService.UpdateJob(job)`: the      *)
(* result is ignored.                                                      *)
UpdateWithCommand ==
  /\ held # NoCopy
  /\ held.added
  /\ UpdateJob(held.id, [held.job EXCEPT !.cmd = TRUE])
  /\ held' = NoCopy
  /\ UNCHANGED <<asked, blank>>

(* ExecuteJob runs the command if the copy it is given has one, otherwise  *)
(* it delivers or processes the message.                                   *)
ExecuteJob(l) ==
  /\ Begin(l)
  /\ blank' = blank \cup {id \in asked : runs'[id] # runs[id] /\ ~jobs[id].cmd}
  /\ UNCHANGED <<held, asked>>

(* The tool's goroutine dies with the process. *)
CrashTool ==
  /\ Crash
  /\ held' = NoCopy
  /\ UNCHANGED <<asked, blank>>

(* Everything else the service does leaves the tool alone. *)
Service ==
  /\ \/ Api
     \/ \E l \in Loops : LoopExits(l) \/ CheckJobs(l) \/ Finish(l)
     \/ Tick
     \/ NewCronService
  /\ UNCHANGED toolVars

ToolNext == \/ Service
            \/ \E s \in Schedules : AddWithCommand(s)
            \/ AddReturns \/ AddFails
            \/ UpdateWithCommand
            \/ \E l \in Loops : ExecuteJob(l)
            \/ CrashTool

(* The type of the tool's state. *)
ToolTypeOK ==
  /\ held = NoCopy \/ held \in [id : Ids, added : BOOLEAN, job : Job]
  /\ blank \subseteq asked
  /\ asked \subseteq Ids
=============================================================================
