----------------------------- MODULE CronClients -----------------------------
(***************************************************************************)
(* The gateway's scheduler with its two other clients: the agent's cron    *)
(* tool, in the same process, and the `millibee cron` commands, which are  *)
(* processes of their own and share nothing but the store file.            *)
(***************************************************************************)
EXTENDS CronTool, CronCli

allVars == <<vars, toolVars, cliVars>>

ClientsInit == Init /\ ToolInit /\ CliInit

ClientsNext == \/ ToolNext /\ UNCHANGED cliVars
               \/ CliNext /\ UNCHANGED toolVars

ClientsSpec == ClientsInit /\ [][ClientsNext]_allVars

ClientsFairSpec == ClientsSpec /\ Fairness

-----------------------------------------------------------------------------
(* Properties. *)

(* The type of every variable. *)
ClientsTypeOK == TypeOK /\ ToolTypeOK /\ CliTypeOK

(* Without commands, what a save has made final stays so: the copy that    *)
(* addJob writes back does not revive a job that was removed or has run    *)
(* (cron.go:196-209, service.go:389-402).                                  *)
GoneUnlessCommanded == commands = 0 => GoneStaysGone

(* A job that `millibee cron remove` reported as removed is not executed   *)
(* afterwards (cmd_cron.go:57 "Remove a job by ID", 198-205).              *)
RemoveIsFinal ==
  [][\A id \in reported : runs'[id] = runs[id]]_allVars
=============================================================================
