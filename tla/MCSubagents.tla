---------------------------- MODULE MCSubagents ----------------------------
(* Subagents on small instances.                                           *)
EXTENDS Subagents

CONSTANTS a, b

ChatA == {a}
ChatB == {b}
LoopOnly == {Loop}
Both == {Loop, Cron}
=============================================================================
