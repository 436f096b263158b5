------------------------------ MODULE FileTools -----------------------------
(***************************************************************************)
(* write_file, append_file and edit_file (pkg/tools/filesystem.go,         *)
(* edit.go) in the hands of several rounds of one workspace, with crashes. *)
(* Append and edit read the file, make the new contents and write them     *)
(* back; a write goes to a temporary file, which is then renamed.          *)
(*                                                                         *)
(* A file is missing, or a sequence of marks; a call brings one mark: it   *)
(* is all of the file (write), its end (append), or takes the place of     *)
(* another mark (edit).                                                    *)
(***************************************************************************)
EXTENDS Naturals, Sequences

CONSTANTS Rounds,   \* rounds that work at the same time
          Paths,
          Marks,
          MaxLen,   \* bound: marks of a file
          MaxFileCalls  \* bound: calls

VARIABLES files,  \* what is under each path
          tmp,    \* temporary files: owner and what is in them
          call,   \* the call each round is in: step, path, what it does,
                  \* the contents it computed, whether others wrote meanwhile
          calls,  \* calls so far
          truth   \* what the answers of the calls add up to

fileVars == <<files, tmp, call, calls, truth>>

Missing == <<"missing">>
Incomplete == <<"torn">>
Text(marks) == <<"text", marks>>
NoCall == [step |-> "none"]

FilesInit == /\ files = [p \in Paths |-> Missing] /\ truth = files
             /\ tmp = {} /\ calls = 0
             /\ call = [r \in Rounds |-> NoCall]

-----------------------------------------------------------------------------
(* replaceEditContent: the text to be replaced occurs once. *)
Occurs(marks, m) == {i \in DOMAIN marks : marks[i] = m}
MarksOf(content) == IF content = Missing THEN <<>> ELSE content[2]

(* The contents after a call on `old`, or Refused. *)
Refused == <<"refused">>
Computed(op, old) ==
  CASE op.kind = "write" -> Text(<<op.mark>>)
    [] op.kind = "append" -> Text(Append(MarksOf(old), op.mark))
    [] op.kind = "edit" ->
         IF old # Missing /\ \E i \in DOMAIN old[2] : Occurs(old[2], op.was) = {i}
         THEN Text([i \in DOMAIN old[2] |-> IF old[2][i] = op.was THEN op.mark ELSE old[2][i]])
         ELSE Refused

Ops == [kind : {"write", "append"}, mark : Marks]
       \cup [kind : {"edit"}, was : Marks, mark : Marks]

(* A call begins.  A write computes nothing from the file. *)
Execute(r, p, op) ==
  /\ call[r] = NoCall /\ calls < MaxFileCalls
  /\ calls' = calls + 1
  /\ call' = [call EXCEPT ![r] = [step |-> IF op.kind = "write" THEN "make" ELSE "read",
                                  path |-> p, op |-> op, new |-> Missing, alone |-> TRUE]]
  /\ UNCHANGED <<files, tmp, truth>>

(* ReadFile: a file that is not there is empty for append, and an error    *)
(* for edit; any other error ends the call.                                *)
ReadFile(r) ==
  LET c == call[r] IN
  /\ c.step = "read"
  /\ call' = [call EXCEPT ![r] = IF Computed(c.op, files[c.path]) = Refused THEN NoCall
                                 ELSE [c EXCEPT !.step = "make", !.new = files[c.path]]]
  /\ UNCHANGED <<files, tmp, calls, truth>>

(* Any other error ends the call.  (Faulty form: append goes on with what  *)
(* it has, which is nothing.)                                              *)
AppendsToNothing(r) ==
  /\ call[r].step = "read" /\ call[r].op.kind = "append"
  /\ call' = [call EXCEPT ![r].step = "make"]
  /\ UNCHANGED <<files, tmp, calls, truth>>
ReadFails(r) ==
  /\ call[r].step = "read"
  /\ call' = [call EXCEPT ![r] = NoCall]
  /\ UNCHANGED <<files, tmp, calls, truth>>

(* WriteFile, first half: a temporary file, which is torn until it is all  *)
(* there; an error removes it.                                             *)
WriteTemp(r) ==
  /\ call[r].step = "make"
  /\ Len(MarksOf(call[r].new)) < MaxLen
  /\ call' = [call EXCEPT ![r].step = "temp"]
  /\ tmp' = tmp \cup {<<r, Incomplete>>}
  /\ UNCHANGED <<files, calls, truth>>

Synced(r) ==
  /\ call[r].step = "temp"
  /\ tmp' = (tmp \ {<<r, Incomplete>>}) \cup {<<r, Computed(call[r].op, call[r].new)>>}
  /\ call' = [call EXCEPT ![r].step = "rename"]
  /\ UNCHANGED <<files, calls, truth>>

WriteFails(r) ==
  /\ call[r].step \in {"make", "temp", "rename"}
  /\ tmp' = {t \in tmp : t[1] # r}
  /\ call' = [call EXCEPT ![r] = NoCall]
  /\ UNCHANGED <<files, calls, truth>>

(* What the file should be: the call done at once, at the end; unless      *)
(* another one has written the file since this one read it.                *)
RenameTemp(r) ==
  LET c == call[r] IN
  /\ c.step = "rename"
  /\ \E t \in tmp :
       /\ t[1] = r
       /\ files' = [files EXCEPT ![c.path] = t[2]]
       /\ tmp' = tmp \ {t}
  /\ truth' = [truth EXCEPT ![c.path] = IF c.alone THEN Computed(c.op, @) ELSE files'[c.path]]
  /\ call' = [s \in Rounds |-> IF s = r THEN NoCall
                               ELSE IF call[s] # NoCall /\ call[s].step # "read" /\ call[s].path = c.path
                               THEN [call[s] EXCEPT !.alone = FALSE] ELSE call[s]]
  /\ UNCHANGED calls

(* The process dies: nobody reads the temporary files it leaves. *)
Dies ==
  /\ call' = [r \in Rounds |-> NoCall]
  /\ tmp' = {}
  /\ UNCHANGED <<files, calls, truth>>

FileNext ==
  \/ \E r \in Rounds :
       \/ \E p \in Paths, op \in Ops : Execute(r, p, op)
       \/ ReadFile(r) \/ ReadFails(r) \/ WriteTemp(r) \/ Synced(r) \/ WriteFails(r) \/ RenameTemp(r)
  \/ Dies

FilesSpec == FilesInit /\ [][FileNext]_fileVars

-----------------------------------------------------------------------------
(* A file is always what the calls that were reported to have worked made  *)
(* of it, one after the other: a call that failed, or died, has left it    *)
(* alone, it is never torn ("This prevents the target file from being left *)
(* in a truncated or partial state", filesystem.go:295), and only a call   *)
(* that wrote between the read and the rename of another can be lost       *)
(* (edit.go:131-157).                                                      *)
FilesAreAsReported == \A p \in Paths : files[p] = truth[p]
=============================================================================
