--------------------------- MODULE MCCronService ---------------------------
(* CronService on small instances.                                         *)
EXTENDS CronService

SchedulesAll == {[kind |-> "at", arg |-> 2], [kind |-> "every", arg |-> 1],
                 [kind |-> "cron", arg |-> 2]}

(* A fresh installation, and a file with a one-time job that an editor     *)
(* wrote without deleteAfterRun.                                           *)
KeptJob == [sched |-> [kind |-> "at", arg |-> 2], enabled |-> TRUE,
            next |-> 2, del |-> FALSE, cmd |-> FALSE]
EmptyFile == [id \in 1..MaxJobs |-> NoJob]
FilesBoth == {EmptyFile, [EmptyFile EXCEPT ![1] = KeptJob]}
============================================================================
