----------------------------- MODULE ShellTool ------------------------------
(***************************************************************************)
(* The exec tool (pkg/tools/shell.go): one command under a time-out, its   *)
(* shell in a process group of its own, and the descendants it leaves.     *)
(* cmd.Wait returns when the shell is gone and nobody holds the pipe the   *)
(* output comes through any more (os/exec, external).                      *)
(***************************************************************************)
EXTENDS Naturals, FiniteSets

CONSTANTS Commands,   \* records: what the guard finds in each, see Guard
          Allowlist,  \* tools.exec.enable_allowlist, with patterns
          Restrict,   \* restrict_to_workspace
          MaxChildren \* bound: descendants

VARIABLES call,      \* what Execute is at
          shell,     \* the shell
          children,  \* live descendants: in the group or not, at the pipe or not
          born,      \* descendants so far
          ctx,       \* the context of the command
          waited,    \* the goroutine of cmd.Wait: nothing, or what it got
          result

shellVars == <<call, shell, children, born, ctx, waited, result>>

Init == /\ call = "idle" /\ shell = "none" /\ children = {} /\ born = 0
        /\ ctx = "live" /\ waited = "no" /\ result = "none"

(* guardCommand, in its order. *)
Guard(c) ==
  \/ c.long \/ c.http \/ c.denied
  \/ Allowlist /\ ~c.allowed
  \/ Restrict /\ c.outside

Refuse(c) ==
  /\ call = "idle" /\ Guard(c)
  /\ call' = "returned" /\ result' = "blocked"
  /\ UNCHANGED <<shell, children, born, ctx, waited>>

(* The caller's context may be over already: Start fails, as it may anyway. *)
Start(c) ==
  /\ call = "idle" /\ ~Guard(c)
  /\ \/ call' = "select" /\ shell' = "running" /\ UNCHANGED result
     \/ call' = "returned" /\ result' = "failed to start" /\ UNCHANGED shell
  /\ UNCHANGED <<children, born, ctx, waited>>

-----------------------------------------------------------------------------
(* The command.  A process is in no group and holds no pipe that its       *)
(* parent did not.                                                         *)
Fork(group, pipe) ==
  /\ \/ shell = "running"
     \/ \E c \in children : (group => c.group) /\ (pipe => c.pipe)
  /\ born < MaxChildren
  /\ born' = born + 1
  /\ children' = children \cup {[id |-> born, group |-> group, pipe |-> pipe]}
  /\ UNCHANGED <<call, shell, ctx, waited, result>>

ChildExits(c) ==
  /\ c \in children /\ children' = children \ {c}
  /\ UNCHANGED <<call, shell, born, ctx, waited, result>>

ShellExits(code) ==
  /\ shell = "running" /\ shell' = code
  /\ UNCHANGED <<call, children, born, ctx, waited, result>>

(* 60 seconds are over, or the caller gives up. *)
Over(why) ==
  /\ ctx = "live" /\ call \in {"select", "grace", "forced", "answer"}
  /\ ctx' = why
  /\ UNCHANGED <<call, shell, children, born, waited, result>>

(* exec.CommandContext: its own goroutine kills the shell, and no more. *)
Watcher ==
  /\ ctx # "live" /\ shell = "running"
  /\ shell' = "killed"
  /\ UNCHANGED <<call, children, born, ctx, waited, result>>

Wait ==
  /\ call # "idle" /\ waited = "no" /\ shell \notin {"none", "running"}
  /\ ~\E c \in children : c.pipe
  /\ waited' = shell
  /\ UNCHANGED <<call, shell, children, born, ctx, result>>

-----------------------------------------------------------------------------
(* The first of cmd.Wait and the context.                                  *)
Ended ==
  /\ call \in {"select", "grace", "forced"} /\ waited # "no"
  /\ call' = "answer"
  /\ UNCHANGED <<shell, children, born, ctx, waited, result>>

(* terminateProcessTree: the group, and the shell again.  (Faulty form:    *)
(* the shell only.)                                                        *)
ShellOnly == {}
Group == {c \in children : c.group}
Terminate ==
  /\ call = "select" /\ ctx # "live"
  /\ children' = children \ Group
  /\ shell' = IF shell = "running" THEN "killed" ELSE shell
  /\ call' = "grace"
  /\ UNCHANGED <<born, ctx, waited, result>>

(* After two seconds more the shell is killed once more, and the call      *)
(* waits for cmd.Wait alone.                                               *)
Insist ==
  /\ call = "grace"
  /\ call' = "forced"
  /\ UNCHANGED <<shell, children, born, ctx, waited, result>>

(* A command that failed when the time was over is said to have timed out. *)
Return ==
  /\ call = "answer"
  /\ call' = "returned"
  /\ result' = IF waited # "ok" /\ ctx = "deadline" THEN "timed out"
               ELSE IF waited = "ok" THEN "output" ELSE "exit code"
  /\ UNCHANGED <<shell, children, born, ctx, waited>>

Caller == Ended \/ Terminate \/ Insist \/ Return
ShellNext ==
  \/ \E c \in Commands : Refuse(c) \/ Start(c)
  \/ \E group, pipe \in BOOLEAN : Fork(group, pipe)
  \/ \E c \in children : ChildExits(c)
  \/ \E code \in {"ok", "failed"} : ShellExits(code)
  \/ \E why \in {"deadline", "cancelled"} : Over(why)
  \/ Watcher \/ Wait \/ Caller

-----------------------------------------------------------------------------
(* The processes that outlive the time-out and hold the output. *)
Strays == {c \in children : ~c.group /\ c.pipe}
=============================================================================
