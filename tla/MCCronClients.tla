---------------------------- MODULE MCCronClients ----------------------------
(* CronClients on small instances.                                         *)
EXTENDS CronClients

SchedulesTwo == {[kind |-> "at", arg |-> 2], [kind |-> "every", arg |-> 1]}
FilesEmpty == {[id \in 1..MaxJobs |-> NoJob]}
==============================================================================
