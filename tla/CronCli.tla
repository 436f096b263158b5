------------------------------- MODULE CronCli -------------------------------
(***************************************************************************)
(* The `millibee cron` commands (cmd/millibee/cmd_cron.go) beside a        *)
(* gateway that runs the scheduler.  Each command is a process of its own  *)
(* that opens the same store file with NewCronService, changes its private *)
(* table and saves it; nothing tells the gateway, and nothing locks the    *)
(* file.  A command that reads while the gateway writes may find the file  *)
(* truncated; the error is ignored and the command goes on with no jobs.   *)
(***************************************************************************)
EXTENDS CronService

CONSTANT MaxCommands      \* bound: commands issued

VARIABLES cli,       \* the running command's table, or NoCommand
          commands,  \* number of commands issued
          reported   \* history: the jobs a command reported as removed

cliVars == <<cli, commands, reported>>

ASSUME MaxCommandsAssumption == MaxCommands \in Nat

NoCommand == <<>>

CliInit == cli = NoCommand /\ commands = 0 /\ reported = {}

(* NewCronService(storePath, nil). *)
CliOpen ==
  /\ cli = NoCommand
  /\ commands < MaxCommands
  /\ commands' = commands + 1
  /\ \/ cli' = LoadStore
     \/ saving # "no" /\ cli' = NoTable
  /\ UNCHANGED <<vars, reported>>

(* The command's saveStoreUnsafe.  A save of the gateway that is under way *)
(* ends later and wins.                                                    *)
CliSave(table) ==
  /\ file' = table
  /\ torn' = FALSE
  /\ cli' = NoCommand
  /\ UNCHANGED <<jobs, saving, up, running, loopVars, now, crashes, failures, histVars>>

(* `millibee cron add`, which has no one-time jobs. *)
CliAdd(s) ==
  /\ cli # NoCommand
  /\ s.kind # "at"
  /\ created < MaxJobs
  /\ created' = created + 1
  /\ CliSave([cli EXCEPT ![created + 1] = NewJob(s)])
  /\ UNCHANGED <<commands, reported>>

(* `millibee cron remove <id>`: "Removed job". *)
CliRemove(id) ==
  /\ cli # NoCommand
  /\ cli[id] # NoJob
  /\ CliSave([cli EXCEPT ![id] = NoJob])
  /\ reported' = reported \cup {id}
  /\ UNCHANGED <<created, commands>>

(* `millibee cron enable|disable <id>`. *)
CliEnable(id, enabled) ==
  /\ cli # NoCommand
  /\ cli[id] # NoJob
  /\ CliSave([cli EXCEPT ![id] =
       [@ EXCEPT !.enabled = enabled,
                 !.next = IF enabled THEN NextWhenEnabled(cli[id]) ELSE Never]])
  /\ UNCHANGED <<created, commands, reported>>

(* `millibee cron list`, and commands whose job is not found. *)
CliQuit ==
  /\ cli # NoCommand
  /\ cli' = NoCommand
  /\ UNCHANGED <<vars, commands, reported>>

CliNext ==
  \/ CliOpen \/ CliQuit
  \/ \E s \in Schedules : CliAdd(s)
  \/ \E id \in Ids : CliRemove(id) \/ \E b \in BOOLEAN : CliEnable(id, b)

(* The type of the command's state. *)
CliTypeOK ==
  /\ cli = NoCommand \/ cli \in Table
  /\ commands \in 0..MaxCommands
  /\ reported \subseteq Ids
=============================================================================
