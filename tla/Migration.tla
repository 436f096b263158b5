------------------------------ MODULE Migration -----------------------------
(***************************************************************************)
(* `millibee migrate` on the workspace (pkg/migrate/migrate.go,            *)
(* workspace.go): a plan is made from what is there, the user is asked,    *)
(* and the plan is carried out action by action.  Copying truncates the    *)
(* destination first.  The process may die at any point and be started     *)
(* again; the user and the agent write to the workspace meanwhile.         *)
(* The configuration file is module Config's.                              *)
(*                                                                         *)
(* A file holds one version: the migrated one, Torn, or a number that says *)
(* which of the user's versions it is.  The files are planned in order.    *)
(***************************************************************************)
EXTENDS Naturals, Sequences, FiniteSets

CONSTANTS WorkspaceFiles, \* the files that may be migrated, in order
          MaxVersions,    \* bound: what the user writes
          MaxRuns         \* bound: runs of the command

VARIABLES src,   \* the source files that are there
          dst,   \* the destination
          bak,   \* the .bak files
          step,  \* what the run is at
          plan,  \* the actions that are left
          owed,  \* per file: the version that is not to be lost, or NoFile
          wrote, runs  \* counters

migrationVars == <<src, dst, bak, step, plan, owed, wrote, runs>>

NoFile == <<"nothing">>
Migrated == <<"theirs">>
HalfWritten == <<"torn">>
Mine(v) == <<"mine", v>>
Whole(x) == x \notin {NoFile, HalfWritten}
FileNames == {WorkspaceFiles[i] : i \in DOMAIN WorkspaceFiles}

(* No file is listed twice. *)
ASSUME FilesAssumption ==
  /\ WorkspaceFiles \in Seq(FileNames)
  /\ \A i, j \in DOMAIN WorkspaceFiles : WorkspaceFiles[i] = WorkspaceFiles[j] => i = j

MigrationInit ==
  /\ src \in SUBSET FileNames
  /\ dst = [f \in FileNames |-> NoFile] /\ bak = dst /\ owed = dst
  /\ step = "none" /\ plan = <<>> /\ wrote = 0 /\ runs = 0

(* The user or the agent writes a file, but not while it is being copied.  *)
(* Their own change is nobody's loss.                                      *)
UserWrites(f) ==
  /\ wrote < MaxVersions /\ wrote' = wrote + 1
  /\ step = "copy" => Head(plan).file # f
  /\ step = "backup" => Head(plan).file # f
  /\ dst' = [dst EXCEPT ![f] = Mine(wrote)]
  /\ owed' = [owed EXCEPT ![f] = IF @ = dst[f] THEN NoFile ELSE @]
  /\ UNCHANGED <<src, bak, step, plan, runs>>

-----------------------------------------------------------------------------
(* planFileCopy: a file that is not there is skipped. *)
Kind(f, force) == IF f \notin src THEN "skip"
                  ELSE IF dst[f] # NoFile /\ ~force THEN "backup" ELSE "copy"

(* Run: with --config-only nothing is planned here, and with --dry-run or  *)
(* without the user's consent nothing is done; --refresh copies by force   *)
(* and asks, --force does not ask.                                         *)
RunMigration(force) ==
  /\ step = "none" /\ runs < MaxRuns /\ runs' = runs + 1
  /\ plan' = [i \in DOMAIN WorkspaceFiles |->
               [file |-> WorkspaceFiles[i], kind |-> Kind(WorkspaceFiles[i], force)]]
  /\ owed' = [f \in FileNames |-> IF ~force /\ Whole(dst[f]) THEN dst[f] ELSE NoFile]
  /\ step' = "asked"
  /\ UNCHANGED <<src, dst, bak, wrote>>

Confirm ==
  /\ step = "asked" /\ step' = "next"
  /\ UNCHANGED <<src, dst, bak, plan, owed, wrote, runs>>
Decline ==
  /\ step = "asked" /\ step' = "none" /\ plan' = <<>>
  /\ UNCHANGED <<src, dst, bak, owed, wrote, runs>>

-----------------------------------------------------------------------------
(* Execute: an action begins; a destination that is truncated is torn      *)
(* until it is copied.                                                     *)
Skip ==
  /\ step = "next" /\ plan # <<>> /\ Head(plan).kind = "skip"
  /\ plan' = Tail(plan)
  /\ UNCHANGED <<src, dst, bak, step, owed, wrote, runs>>

BeginBackup ==
  /\ step = "next" /\ plan # <<>> /\ Head(plan).kind = "backup"
  /\ bak' = [bak EXCEPT ![Head(plan).file] = HalfWritten]
  /\ step' = "backup"
  /\ UNCHANGED <<src, dst, plan, owed, wrote, runs>>

Backup ==
  /\ step = "backup"
  /\ bak' = [bak EXCEPT ![Head(plan).file] = dst[Head(plan).file]]
  /\ dst' = [dst EXCEPT ![Head(plan).file] = HalfWritten]
  /\ step' = "copy"
  /\ UNCHANGED <<src, plan, owed, wrote, runs>>

BeginCopy ==
  /\ step = "next" /\ plan # <<>> /\ Head(plan).kind = "copy"
  /\ dst' = [dst EXCEPT ![Head(plan).file] = HalfWritten]
  /\ step' = "copy"
  /\ UNCHANGED <<src, bak, plan, owed, wrote, runs>>

Copied ==
  /\ step = "copy"
  /\ dst' = [dst EXCEPT ![Head(plan).file] = Migrated]
  /\ plan' = Tail(plan) /\ step' = "next"
  /\ UNCHANGED <<src, bak, owed, wrote, runs>>

(* A backup that fails is the end of its action.  (Faulty form: the file   *)
(* is copied over all the same.)                                           *)
CopyAnyway ==
  /\ step = "backup"
  /\ dst' = [dst EXCEPT ![Head(plan).file] = HalfWritten] /\ step' = "copy"
  /\ UNCHANGED <<src, bak, plan, owed, wrote, runs>>
BackupFails ==
  /\ step = "backup"
  /\ plan' = Tail(plan) /\ step' = "next"
  /\ UNCHANGED <<src, dst, bak, owed, wrote, runs>>

CopyFails ==
  /\ step = "copy"
  /\ plan' = Tail(plan) /\ step' = "next"
  /\ UNCHANGED <<src, dst, bak, owed, wrote, runs>>

MigrationDone == /\ step = "next" /\ plan = <<>> /\ step' = "none"
                 /\ UNCHANGED <<src, dst, bak, plan, owed, wrote, runs>>

MigrationDies == /\ step # "none" /\ step' = "none" /\ plan' = <<>>
                 /\ UNCHANGED <<src, dst, bak, owed, wrote, runs>>

MigrationNext ==
  \/ \E f \in FileNames : UserWrites(f)
  \/ \E force \in BOOLEAN : RunMigration(force)
  \/ Confirm \/ Decline \/ Skip \/ BeginBackup \/ Backup \/ BeginCopy \/ Copied
  \/ BackupFails \/ CopyFails \/ MigrationDone \/ MigrationDies

MigrationSpec == MigrationInit /\ [][MigrationNext]_migrationVars

-----------------------------------------------------------------------------
(* What was whole in the workspace when a run without --force or --refresh *)
(* planned is whole in its place or in its .bak, however the run ends,     *)
(* until the next one begins ("destination exists, will backup and         *)
(* overwrite", workspace.go:64).  The next one backs up what it finds,     *)
(* torn or not, over that .bak.                                            *)
BackedUp == \A f \in FileNames : owed[f] # NoFile => owed[f] \in {dst[f], bak[f]}
=============================================================================
