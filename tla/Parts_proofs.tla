---------------------------- MODULE Parts_proofs -----------------------------
(***************************************************************************)
(* The safety of components that MCParts and MCLive run on small           *)
(* instances, for any number of actors: the file tools, git, the vault of  *)
(* notes, the skills, the last channel, the migration, the limits of       *)
(* tools, and the start of the gateway.  Each has an inductive invariant   *)
(* of its own; what it says besides the property is what a step that was   *)
(* begun has in hand.                                                      *)
(***************************************************************************)
EXTENDS FileTools, GitRepo, MemoryVault, SkillInstall, Heartbeat, Migration,
        ToolGuards, Gateway, SequenceTheorems, WellFoundedInduction, TLAPS

-----------------------------------------------------------------------------
(* The file tools.  What has to be known besides is where the temporary    *)
(* files are between the steps of a call, and that a call nobody has       *)
(* written over still holds what is in the file.                           *)
Contents == {Missing} \cup {Text(marks) : marks \in Seq(Marks)}

Calls == [step : {"read", "make", "temp", "rename"}, path : Paths, op : Ops,
          new : Contents, alone : BOOLEAN]

FileTypeOK ==
  /\ files \in [Paths -> Contents]
  /\ call \in [Rounds -> {NoCall} \cup Calls]

(* What a round is about to put in place, and that it can. *)
Makes(r) == Computed(call[r].op, call[r].new)
Accepted(r) == call[r].step \in {"make", "temp", "rename"} => Makes(r) \in Contents

(* The temporary files of a round: none, one that is torn, or the new      *)
(* contents.                                                               *)
Temporary(r) ==
  \A t \in tmp : t[1] = r =>
    \/ call[r].step = "temp" /\ t = <<r, Incomplete>>
    \/ call[r].step = "rename" /\ t = <<r, Makes(r)>>

(* A call that computes from what it read has read what is still there,    *)
(* unless another has written meanwhile.                                   *)
Current(r) ==
  call[r].step \in {"make", "temp", "rename"} /\ call[r].alone /\ call[r].op.kind # "write"
  => call[r].new = files[call[r].path]

FilesInv ==
  /\ FileTypeOK
  /\ truth = files
  /\ \A r \in Rounds : Accepted(r) /\ Temporary(r) /\ Current(r)

-----------------------------------------------------------------------------
(* A call on a file makes a file of it, or is refused; only an edit can be *)
(* refused.                                                                *)
LEMMA ComputedIsContents ==
  ASSUME NEW op \in Ops, NEW old \in Contents
  PROVE  /\ Computed(op, old) \in Contents \cup {Refused}
         /\ op.kind # "edit" => Computed(op, old) \in Contents
<1>1. MarksOf(old) \in Seq(Marks) BY DEF MarksOf, Contents, Missing, Text
<1>2. CASE op.kind = "write"
  <2>1. op.mark \in Marks BY <1>2 DEF Ops
  <2>2. <<op.mark>> \in Seq(Marks) BY <2>1
  <2> QED BY <1>2, <2>2 DEF Computed, Contents
<1>3. CASE op.kind = "append"
  <2>1. op.mark \in Marks BY <1>3 DEF Ops
  <2>2. Append(MarksOf(old), op.mark) \in Seq(Marks) BY <1>1, <2>1
  <2> QED BY <1>3, <2>2 DEF Computed, Contents
<1>4. CASE op.kind = "edit"
  <2>1. op.mark \in Marks BY <1>4 DEF Ops
  <2>2. CASE old = Missing BY <1>4, <2>2 DEF Computed
  <2>3. CASE old # Missing
    <3>1. old[2] \in Seq(Marks) BY <2>3 DEF Contents, Text
    <3> DEFINE edited == [i \in DOMAIN old[2] |-> IF old[2][i] = op.was THEN op.mark ELSE old[2][i]]
    <3>2. edited \in Seq(Marks) BY <2>1, <3>1
    <3>3. Text(edited) \in Contents BY <3>2 DEF Contents
    <3>4. Computed(op, old) \in {Text(edited), Refused} BY <1>4 DEF Computed
    <3> QED BY <3>3, <3>4, <1>4
  <2> QED BY <2>2, <2>3
<1>5. op.kind \in {"write", "append", "edit"} BY DEF Ops
<1> QED BY <1>2, <1>3, <1>4, <1>5

(* What a write makes does not depend on the file. *)
LEMMA WriteForgets ==
  ASSUME NEW op, NEW x, NEW y, op.kind = "write"
  PROVE  Computed(op, x) = Computed(op, y)
  BY DEF Computed

(* At first there are no files and no calls. *)
LEMMA FilesInitially == FilesInit => FilesInv
<1> SUFFICES ASSUME FilesInit PROVE FilesInv OBVIOUS
<1>1. Missing \in Contents BY DEF Contents
<1>2. \A r \in Rounds : call[r].step = "none" BY DEF FilesInit, NoCall
<1>3. FileTypeOK BY <1>1 DEF FilesInit, FileTypeOK
<1>4. tmp = {} /\ truth = files BY DEF FilesInit
<1> QED BY <1>2, <1>3, <1>4 DEF FilesInv, Accepted, Temporary, Current

(* Every step of a call, and a crash, keep it.  A step of one round         *)
(* disturbs what is said of another only where it renames.                 *)
LEMMA FilesInductive == FilesInv /\ [FileNext]_fileVars => FilesInv'
<1> SUFFICES ASSUME FilesInv, [FileNext]_fileVars PROVE FilesInv' OBVIOUS
<1> USE DEF FilesInv
<1>n. NoCall.step = "none" BY DEF NoCall
<1>1. ASSUME NEW r \in Rounds, NEW p \in Paths, NEW op \in Ops, Execute(r, p, op)
      PROVE  FilesInv'
  <2> DEFINE c == [step |-> IF op.kind = "write" THEN "make" ELSE "read",
                   path |-> p, op |-> op, new |-> Missing, alone |-> TRUE]
  <2>1. Missing \in Contents BY DEF Contents
  <2>2. c \in Calls BY <2>1 DEF Calls
  <2>3. call' = [call EXCEPT ![r] = c] /\ UNCHANGED <<files, tmp, truth>> BY <1>1 DEF Execute
  <2>4. call' \in [Rounds -> {NoCall} \cup Calls] /\ call'[r] = c
        /\ \A s \in Rounds : s # r => call'[s] = call[s]
    BY <2>2, <2>3 DEF FileTypeOK
  <2>5. FileTypeOK' BY <2>3, <2>4 DEF FileTypeOK
  <2>6. call[r].step = "none" BY <1>1, <1>n DEF Execute
  <2>7. \A t \in tmp : t[1] # r BY <2>6 DEF Temporary
  <2>8. Accepted(r)' BY <2>1, <2>4, ComputedIsContents DEF Accepted, Makes
  <2>9. Current(r)' BY <2>4 DEF Current
  <2>10. \A s \in Rounds : s # r => Accepted(s)' /\ Temporary(s)' /\ Current(s)'
    BY <2>3, <2>4 DEF Accepted, Temporary, Current, Makes
  <2>11. Temporary(r)' BY <2>3, <2>7 DEF Temporary
  <2> QED BY <2>3, <2>5, <2>8, <2>9, <2>10, <2>11
<1>2. ASSUME NEW r \in Rounds, ReadFile(r) PROVE FilesInv'
  <2> DEFINE c == call[r]
             d == [c EXCEPT !.step = "make", !.new = files[c.path]]
  <2>1. c \in Calls BY <1>2, <1>n DEF ReadFile, FileTypeOK
  <2>2. files[c.path] \in Contents BY <2>1 DEF Calls, FileTypeOK
  <2>3. UNCHANGED <<files, tmp, truth>> BY <1>2 DEF ReadFile
  <2>4. \A t \in tmp : t[1] # r BY <1>2 DEF ReadFile, Temporary
  <2>5. CASE Computed(c.op, files[c.path]) = Refused
    <3>1. call' = [call EXCEPT ![r] = NoCall] BY <1>2, <2>5 DEF ReadFile
    <3> QED BY <2>3, <2>4, <3>1, <1>n
            DEF FileTypeOK, Accepted, Temporary, Current, Makes
  <2>6. CASE Computed(c.op, files[c.path]) # Refused
    <3>1. call' = [call EXCEPT ![r] = d] BY <1>2, <2>6 DEF ReadFile
    <3>2. d \in Calls /\ d.step = "make" /\ d.new = files[c.path] /\ d.op = c.op
          /\ d.path = c.path /\ d.alone = c.alone
      BY <2>1, <2>2 DEF Calls
    <3> HIDE DEF d
    <3>3. call' \in [Rounds -> {NoCall} \cup Calls] /\ call'[r] = d
          /\ \A s \in Rounds : s # r => call'[s] = call[s]
      BY <3>1, <3>2 DEF FileTypeOK
    <3>4. FileTypeOK' BY <2>3, <3>3 DEF FileTypeOK
    <3>5. c.op \in Ops BY <2>1 DEF Calls
    <3>6. Computed(c.op, files[c.path]) \in Contents BY <2>2, <2>6, <3>5, ComputedIsContents
    <3>7. Accepted(r)' BY <3>2, <3>3, <3>6 DEF Accepted, Makes
    <3>8. Current(r)' BY <2>3, <3>2, <3>3 DEF Current
    <3>9. Temporary(r)' BY <2>3, <2>4 DEF Temporary
    <3>10. \A s \in Rounds : s # r => Accepted(s)' /\ Temporary(s)' /\ Current(s)'
      BY <2>3, <3>3 DEF Accepted, Temporary, Current, Makes
    <3> QED BY <2>3, <3>4, <3>7, <3>8, <3>9, <3>10
  <2> QED BY <2>5, <2>6
<1>3. ASSUME NEW r \in Rounds, ReadFails(r) PROVE FilesInv'
  <2>1. \A t \in tmp : t[1] # r BY <1>3 DEF ReadFails, Temporary
  <2>2. call' = [call EXCEPT ![r] = NoCall] /\ UNCHANGED <<files, tmp, truth>>
    BY <1>3 DEF ReadFails
  <2> QED BY <2>1, <2>2, <1>n DEF FileTypeOK, Accepted, Temporary, Current, Makes
<1>4. ASSUME NEW r \in Rounds, WriteTemp(r) PROVE FilesInv'
  <2> DEFINE d == [call[r] EXCEPT !.step = "temp"]
  <2>1. call[r] \in Calls BY <1>4, <1>n DEF WriteTemp, FileTypeOK
  <2>2. d \in Calls /\ d.step = "temp" /\ d.new = call[r].new /\ d.op = call[r].op
        /\ d.path = call[r].path /\ d.alone = call[r].alone
    BY <2>1 DEF Calls
  <2>3. call' = [call EXCEPT ![r] = d] BY <1>4 DEF WriteTemp
  <2> HIDE DEF d
  <2>4. call' \in [Rounds -> {NoCall} \cup Calls] /\ call'[r] = d
        /\ \A s \in Rounds : s # r => call'[s] = call[s]
    BY <2>2, <2>3 DEF FileTypeOK
  <2>5. UNCHANGED <<files, truth>> /\ tmp' = tmp \cup {<<r, Incomplete>>} BY <1>4 DEF WriteTemp
  <2>6. \A t \in tmp : t[1] # r BY <1>4 DEF WriteTemp, Temporary
  <2>7. Accepted(r)' /\ Current(r)'
    BY <1>4, <2>2, <2>4, <2>5 DEF WriteTemp, Accepted, Current, Makes
  <2>8. Temporary(r)' BY <2>2, <2>4, <2>5, <2>6 DEF Temporary
  <2>9. \A s \in Rounds : s # r => Accepted(s)' /\ Temporary(s)' /\ Current(s)'
    BY <2>4, <2>5 DEF Accepted, Temporary, Current, Makes
  <2> QED BY <2>4, <2>5, <2>7, <2>8, <2>9 DEF FileTypeOK
<1>5. ASSUME NEW r \in Rounds, Synced(r) PROVE FilesInv'
  <2> DEFINE d == [call[r] EXCEPT !.step = "rename"]
  <2>1. call[r] \in Calls BY <1>5, <1>n DEF Synced, FileTypeOK
  <2>2. d \in Calls /\ d.step = "rename" /\ d.new = call[r].new /\ d.op = call[r].op
        /\ d.path = call[r].path /\ d.alone = call[r].alone
    BY <2>1 DEF Calls
  <2>3. call' = [call EXCEPT ![r] = d] BY <1>5 DEF Synced
  <2> HIDE DEF d
  <2>4. call' \in [Rounds -> {NoCall} \cup Calls] /\ call'[r] = d
        /\ \A s \in Rounds : s # r => call'[s] = call[s]
    BY <2>2, <2>3 DEF FileTypeOK
  <2>5. UNCHANGED <<files, truth>> /\ tmp' = (tmp \ {<<r, Incomplete>>}) \cup {<<r, Makes(r)>>}
    BY <1>5 DEF Synced, Makes
  <2>6. \A t \in tmp : t[1] = r => t = <<r, Incomplete>> BY <1>5 DEF Synced, Temporary
  <2>7. Accepted(r)' /\ Current(r)' /\ Makes(r)' = Makes(r)
    BY <1>5, <2>2, <2>4, <2>5 DEF Synced, Accepted, Current, Makes
  <2>8. Temporary(r)' BY <2>2, <2>4, <2>5, <2>6, <2>7 DEF Temporary
  <2>9. \A s \in Rounds : s # r => Accepted(s)' /\ Temporary(s)' /\ Current(s)'
    BY <2>4, <2>5 DEF Accepted, Temporary, Current, Makes
  <2> QED BY <2>4, <2>5, <2>7, <2>8, <2>9 DEF FileTypeOK
<1>6. ASSUME NEW r \in Rounds, WriteFails(r) PROVE FilesInv'
  <2>1. /\ call' = [call EXCEPT ![r] = NoCall] /\ tmp' = {t \in tmp : t[1] # r}
        /\ UNCHANGED <<files, truth>>
    BY <1>6 DEF WriteFails
  <2> QED BY <2>1, <1>n DEF FileTypeOK, Accepted, Temporary, Current, Makes
<1>7. ASSUME NEW r \in Rounds, RenameTemp(r) PROVE FilesInv'
  <2> DEFINE c == call[r]
  <2>1. c \in Calls BY <1>7, <1>n DEF RenameTemp, FileTypeOK
  <2>2. PICK t \in tmp : t[1] = r /\ files' = [files EXCEPT ![c.path] = t[2]] /\ tmp' = tmp \ {t}
    BY <1>7 DEF RenameTemp
  <2>3. t = <<r, Makes(r)>> /\ Makes(r) \in Contents
    BY <1>7, <2>2 DEF RenameTemp, Temporary, Accepted
  <2>4. files' = [files EXCEPT ![c.path] = Makes(r)] BY <2>2, <2>3
  <2>5. c.path \in Paths /\ files \in [Paths -> Contents] BY <2>1 DEF Calls, FileTypeOK
  <2>6. files' \in [Paths -> Contents] /\ files'[c.path] = Makes(r) BY <2>3, <2>4, <2>5
  <2>7. c.alone => Makes(r) = Computed(c.op, files[c.path])
    <3>1. CASE c.op.kind = "write" BY <3>1, WriteForgets DEF Makes
    <3>2. CASE c.op.kind # "write" BY <1>7, <3>2 DEF RenameTemp, Current, Makes
    <3> QED BY <3>1, <3>2
  <2>8. truth' = [truth EXCEPT ![c.path] = IF c.alone THEN Computed(c.op, truth[c.path])
                                           ELSE files'[c.path]]
    BY <1>7 DEF RenameTemp
  <2>9. truth' = files' BY <2>4, <2>5, <2>6, <2>7, <2>8
  <2>10. call' = [s \in Rounds |->
                    IF s = r THEN NoCall
                    ELSE IF call[s] # NoCall /\ call[s].step # "read" /\ call[s].path = c.path
                    THEN [call[s] EXCEPT !.alone = FALSE] ELSE call[s]]
    BY <1>7 DEF RenameTemp
  <2>11. ASSUME NEW s \in Rounds, s # r
         PROVE  /\ call'[s] \in {NoCall} \cup Calls
                /\ Accepted(s)' /\ Temporary(s)' /\ Current(s)'
    <3> DEFINE e == call[s]
               d == [e EXCEPT !.alone = FALSE]
    <3>1. e \in {NoCall} \cup Calls BY DEF FileTypeOK
    <3>2. CASE e # NoCall /\ e.step # "read" /\ e.path = c.path
      <4>1. call'[s] = d BY <2>10, <2>11, <3>2
      <4>2. d \in Calls /\ d.step = e.step /\ d.new = e.new /\ d.op = e.op /\ ~d.alone
        BY <3>1, <3>2 DEF Calls
      <4> HIDE DEF d
      <4>3. Accepted(s)' /\ Current(s)' /\ Makes(s)' = Makes(s)
        BY <4>1, <4>2 DEF Accepted, Current, Makes
      <4>4. Temporary(s)' BY <2>2, <4>1, <4>2, <4>3 DEF Temporary
      <4> QED BY <4>1, <4>2, <4>3, <4>4
    <3>3. CASE ~(e # NoCall /\ e.step # "read" /\ e.path = c.path)
      <4>1. call'[s] = e BY <2>10, <2>11, <3>3
      <4>2. Accepted(s)' /\ Makes(s)' = Makes(s) BY <4>1 DEF Accepted, Makes
      <4>3. Temporary(s)' BY <2>2, <4>1, <4>2 DEF Temporary
      <4>4. Current(s)'
        <5>1. CASE e.step \in {"make", "temp", "rename"}
          <6>1. e \in Calls BY <3>1, <5>1, <1>n
          <6>2. e.path # c.path BY <3>3, <5>1, <1>n
          <6>3. e.path \in Paths BY <6>1 DEF Calls
          <6>4. files'[e.path] = files[e.path] BY <2>4, <2>5, <6>2, <6>3
          <6> QED BY <4>1, <6>4 DEF Current
        <5>2. CASE e.step \notin {"make", "temp", "rename"} BY <4>1, <5>2 DEF Current
        <5> QED BY <5>1, <5>2
      <4> QED BY <3>1, <4>1, <4>2, <4>3, <4>4
    <3> QED BY <3>2, <3>3
  <2>12. call'[r] = NoCall BY <2>10
  <2>13. \A u \in tmp' : u[1] # r
    BY <1>7, <2>2, <2>3 DEF RenameTemp, Temporary
  <2>14. Accepted(r)' /\ Temporary(r)' /\ Current(r)'
    BY <2>12, <2>13, <1>n DEF Accepted, Temporary, Current
  <2>15. FileTypeOK' BY <2>6, <2>10, <2>11, <2>12 DEF FileTypeOK
  <2> QED BY <2>9, <2>11, <2>14, <2>15
<1>8. CASE Dies
  <2>1. call' = [r \in Rounds |-> NoCall] /\ tmp' = {} /\ UNCHANGED <<files, truth>>
    BY <1>8 DEF Dies
  <2> QED BY <2>1, <1>n DEF FileTypeOK, Accepted, Temporary, Current
<1>9. CASE UNCHANGED fileVars
  BY <1>9 DEF fileVars, FileTypeOK, Accepted, Temporary, Current, Makes
<1> QED BY <1>1, <1>2, <1>3, <1>4, <1>5, <1>6, <1>7, <1>8, <1>9 DEF FileNext

(* The contents of every file are what the calls reported to have worked   *)
(* made of it, whoever calls and whatever fails or dies.                   *)
THEOREM FilesReported == FilesSpec => []FilesAreAsReported
<1>1. FilesInv => FilesAreAsReported BY DEF FilesInv, FilesAreAsReported
<1> QED BY <1>1, FilesInitially, FilesInductive, PTL DEF FilesSpec

(* No file is ever torn, or a refusal written down as contents. *)
FilesAreWhole == \A p \in Paths : files[p] \in Contents

(* A write that is cut short, fails, or dies leaves no half of itself. *)
THEOREM FilesWhole == FilesSpec => []FilesAreWhole
<1>1. FilesInv => FilesAreWhole BY DEF FilesInv, FileTypeOK, FilesAreWhole
<1> QED BY <1>1, FilesInitially, FilesInductive, PTL DEF FilesSpec

-----------------------------------------------------------------------------
(* Git.  What somebody is about to say of the index is what is in it, as   *)
(* long as nobody else has changed it since.                               *)
Texts == {Blank, NoDifferences} \cup {Diff(fs) : fs \in SUBSET Tracked}
Speeches == [text : Texts, alone : BOOLEAN]
CommitRecords == [files : SUBSET Tracked, text : Texts, alone : BOOLEAN]

GitTypeOK ==
  /\ unstaged \in SUBSET Tracked /\ staged \in SUBSET Tracked
  /\ commits \in Seq(CommitRecords) /\ stash \in Seq(SUBSET Tracked) /\ pushed \in Nat
  /\ errand \in [Committers -> {"idle", "asking", "committing"}]
  /\ said \in [Committers -> Speeches]

SaidOf(a) ==
  errand[a] # "idle" /\ said[a].alone => said[a].text \in {Diff(staged), DiffText(staged)}

GitInv == GitTypeOK /\ (\A a \in Committers : SaidOf(a)) /\ CommitHoldsWhatWasSaid

(* Whoever else is about to say something of an index that has changed     *)
(* knows that it may have.                                                 *)
LEMMA OthersKnow ==
  ASSUME GitInv, NEW a \in Committers, staged' \in SUBSET Tracked,
         NEW b \in Committers, b # a
  PROVE  /\ Stale(a)[b] \in Speeches
         /\ errand[b] # "idle" /\ Stale(a)[b].alone =>
              Stale(a)[b].text \in {Diff(staged'), DiffText(staged')}
<1>1. said[b] \in Speeches BY DEF GitInv, GitTypeOK
<1>2. [said[b] EXCEPT !.alone = FALSE] \in Speeches BY <1>1 DEF Speeches
<1>3. Stale(a)[b] = IF errand[b] = "idle" \/ staged' = staged THEN said[b]
                    ELSE [said[b] EXCEPT !.alone = FALSE]
  BY DEF Stale
<1>4. CASE errand[b] = "idle" \/ staged' = staged
  <2>1. Stale(a)[b] = said[b] BY <1>3, <1>4
  <2>2. SaidOf(b) BY DEF GitInv
  <2> QED BY <1>1, <1>4, <2>1, <2>2 DEF SaidOf, DiffText
<1>5. CASE ~(errand[b] = "idle" \/ staged' = staged)
  <2>1. Stale(a)[b] = [said[b] EXCEPT !.alone = FALSE] BY <1>3, <1>5
  <2>2. Stale(a)[b].alone = FALSE BY <1>1, <2>1 DEF Speeches
  <2> QED BY <1>2, <2>1, <2>2
<1> QED BY <1>4, <1>5

(* A step of one committer, of which the others know, that adds no commit. *)
LEMMA ToolKeeps ==
  ASSUME GitInv, NEW a \in Committers, NEW mine \in Speeches,
         NEW at \in {"idle", "asking", "committing"},
         unstaged' \in SUBSET Tracked, staged' \in SUBSET Tracked,
         stash' \in Seq(SUBSET Tracked), pushed' \in Nat,
         errand' = [errand EXCEPT ![a] = at],
         said' = [Stale(a) EXCEPT ![a] = mine],
         at # "idle" /\ mine.alone => mine.text \in {Diff(staged'), DiffText(staged')},
         commits' \in Seq(CommitRecords), CommitHoldsWhatWasSaid'
  PROVE  GitInv'
<1>1. ASSUME NEW b \in Committers PROVE said'[b] \in Speeches /\ SaidOf(b)'
  <2>1. said'[b] = IF b = a THEN mine ELSE Stale(a)[b] BY DEF Stale
  <2>2. errand'[b] = IF b = a THEN at ELSE errand[b] BY DEF GitInv, GitTypeOK
  <2>3. CASE b = a
    BY <2>1, <2>2, <2>3 DEF SaidOf, DiffText
  <2>4. CASE b # a
    <3>1. said'[b] = Stale(a)[b] /\ errand'[b] = errand[b] BY <2>1, <2>2, <2>4
    <3>2. /\ Stale(a)[b] \in Speeches
          /\ errand[b] # "idle" /\ Stale(a)[b].alone =>
               Stale(a)[b].text \in {Diff(staged'), DiffText(staged')}
      BY <2>4, OthersKnow
    <3> QED BY <3>1, <3>2 DEF SaidOf, DiffText
  <2> QED BY <2>3, <2>4
<1>2. DOMAIN said' = Committers /\ said' = [b \in Committers |-> said'[b]]
  BY DEF Stale
<1>3. said' \in [Committers -> Speeches] BY <1>1, <1>2
<1>4. errand' \in [Committers -> {"idle", "asking", "committing"}] BY DEF GitInv, GitTypeOK
<1> QED BY <1>1, <1>3, <1>4 DEF GitInv, GitTypeOK

(* A commit in peace holds what was said; what others commit says nothing. *)
LEMMA Committed ==
  ASSUME GitInv, NEW c \in CommitRecords, c.alone => c.text = Diff(c.files),
         commits' = Append(commits, c)
  PROVE  commits' \in Seq(CommitRecords) /\ CommitHoldsWhatWasSaid'
<1>1. commits \in Seq(CommitRecords) BY DEF GitInv, GitTypeOK
<1>2. commits' \in Seq(CommitRecords) /\ Len(commits') = Len(commits) + 1
      /\ \A i \in 1 .. Len(commits') : commits'[i] = IF i = Len(commits) + 1 THEN c ELSE commits[i]
  BY <1>1
<1>3. ASSUME NEW i \in DOMAIN commits', commits'[i].alone
      PROVE  commits'[i].text = Diff(commits'[i].files)
  <2>1. i \in 1 .. Len(commits') BY <1>2
  <2>2. CASE i = Len(commits) + 1 BY <1>2, <1>3, <2>1, <2>2
  <2>3. CASE i # Len(commits) + 1
    <3>1. i \in DOMAIN commits /\ commits'[i] = commits[i] BY <1>1, <1>2, <2>1, <2>3
    <3> QED BY <1>3, <3>1 DEF GitInv, CommitHoldsWhatWasSaid
  <2> QED BY <2>2, <2>3
<1> QED BY <1>2, <1>3 DEF CommitHoldsWhatWasSaid

(* No step of git's breaks the invariant. *)
LEMMA GitInductive == GitInv /\ [GitNext]_gitVars => GitInv'
<1> SUFFICES ASSUME GitInv, [GitNext]_gitVars PROVE GitInv' OBVIOUS
<1>t. /\ unstaged \in SUBSET Tracked /\ staged \in SUBSET Tracked
      /\ commits \in Seq(CommitRecords) /\ stash \in Seq(SUBSET Tracked) /\ pushed \in Nat
      /\ errand \in [Committers -> {"idle", "asking", "committing"}]
      /\ said \in [Committers -> Speeches]
      /\ \A a \in Committers : SaidOf(a)
      /\ CommitHoldsWhatWasSaid
  BY DEF GitInv, GitTypeOK
<1>n. NothingSaid \in Speeches BY DEF NothingSaid, Speeches, Texts
<1>c. commits' = commits => commits' \in Seq(CommitRecords) /\ CommitHoldsWhatWasSaid'
  BY <1>t DEF CommitHoldsWhatWasSaid
(* With nothing to say and nothing said differently. *)
<1>f. ASSUME NEW a \in Committers, Free(a), Others(a)
      PROVE  /\ errand' = [errand EXCEPT ![a] = "idle"]
             /\ said' = [Stale(a) EXCEPT ![a] = said[a]] /\ said[a] \in Speeches
  <2>1. errand[a] = "idle" /\ errand' = errand BY <1>f DEF Free
  <2>2. errand' = [errand EXCEPT ![a] = "idle"] BY <2>1, <1>t
  <2>3. said' = Stale(a) /\ Stale(a)[a] = said[a] BY <1>f DEF Others, Stale
  <2>4. said' = [Stale(a) EXCEPT ![a] = said[a]] BY <2>3 DEF Stale
  <2> QED BY <2>2, <2>4, <1>t
<1>k. ASSUME NEW a \in Committers, staged' = staged
      PROVE  Stale(a) = said
  BY <1>k, <1>t DEF Stale
<1>1. ASSUME NEW f \in Tracked, EditTracked(f) PROVE GitInv'
  <2>1. unstaged' \in SUBSET Tracked /\ UNCHANGED <<staged, commits, stash, pushed, errand, said>>
    BY <1>1, <1>t DEF EditTracked
  <2> QED BY <2>1, <1>t DEF GitInv, GitTypeOK, SaidOf, DiffText, CommitHoldsWhatWasSaid
<1>2. ASSUME NEW a \in Committers, NEW fs \in SUBSET Tracked, GitAdd(a, fs) PROVE GitInv'
  <2>1. /\ unstaged' \in SUBSET Tracked /\ staged' \in SUBSET Tracked
        /\ UNCHANGED <<commits, stash, pushed>> /\ Free(a) /\ Others(a)
    BY <1>2, <1>t DEF GitAdd, Stage
  <2> QED BY <2>1, <1>c, <1>f, <1>t, ToolKeeps
<1>3. ASSUME NEW a \in Committers, NEW fs \in SUBSET Tracked, GitReset(a, fs) PROVE GitInv'
  <2>1. /\ unstaged' \in SUBSET Tracked /\ staged' \in SUBSET Tracked
        /\ UNCHANGED <<commits, stash, pushed>> /\ Free(a) /\ Others(a)
    BY <1>3, <1>t DEF GitReset, Unstage
  <2> QED BY <2>1, <1>c, <1>f, <1>t, ToolKeeps
<1>4. ASSUME NEW a \in Committers, NEW f \in Tracked, GitCheckout(a, f) PROVE GitInv'
  <2>1. /\ unstaged' \in SUBSET Tracked /\ UNCHANGED <<staged, commits, stash, pushed, errand, said>>
    BY <1>4, <1>t DEF GitCheckout, Free
  <2> QED BY <2>1, <1>t DEF GitInv, GitTypeOK, SaidOf, DiffText, CommitHoldsWhatWasSaid
<1>5. ASSUME NEW a \in Committers, GitStashPush(a) PROVE GitInv'
  <2>1. /\ unstaged' \in SUBSET Tracked /\ staged' \in SUBSET Tracked
        /\ UNCHANGED <<commits, pushed>> /\ Free(a) /\ Others(a)
    BY <1>5, <1>t DEF GitStashPush
  <2>2. stash' \in Seq(SUBSET Tracked)
    <3>1. unstaged \cup staged \in SUBSET Tracked BY <1>t
    <3> QED BY <1>5, <1>t, <3>1 DEF GitStashPush
  <2> QED BY <2>1, <2>2, <1>c, <1>f, <1>t, ToolKeeps
<1>6. ASSUME NEW a \in Committers, GitStashPop(a) PROVE GitInv'
  <2>1. /\ unstaged' = unstaged \cup stash[Len(stash)] /\ stash # <<>>
        /\ stash' = SubSeq(stash, 1, Len(stash) - 1)
        /\ UNCHANGED <<staged, commits, pushed, errand, said>>
    BY <1>6 DEF GitStashPop, Free
  <2>2. Len(stash) \in DOMAIN stash /\ stash[Len(stash)] \in SUBSET Tracked BY <2>1, <1>t
  <2>3. stash' \in Seq(SUBSET Tracked) BY <2>1, <1>t
  <2> QED BY <2>1, <2>2, <2>3, <1>t DEF GitInv, GitTypeOK, SaidOf, DiffText, CommitHoldsWhatWasSaid
<1>7. ASSUME NEW a \in Committers, GitPush(a) PROVE GitInv'
  <2>1. /\ pushed' = Len(commits) /\ UNCHANGED <<unstaged, staged, commits, stash, errand, said>>
    BY <1>7 DEF GitPush, Free
  <2>2. pushed' \in Nat BY <2>1, <1>t
  <2> QED BY <2>1, <2>2, <1>t DEF GitInv, GitTypeOK, SaidOf, DiffText, CommitHoldsWhatWasSaid
<1>8. ASSUME NEW a \in Committers, GitPull(a) PROVE GitInv'
  <2> DEFINE c == [files |-> {}, text |-> Blank, alone |-> FALSE]
  <2>1. /\ commits' = Append(commits, c)
        /\ UNCHANGED <<unstaged, staged, stash, pushed, errand, said>>
    BY <1>8 DEF GitPull, Free
  <2>2. c \in CommitRecords /\ ~c.alone BY DEF CommitRecords, Texts
  <2> HIDE DEF c
  <2>3. commits' \in Seq(CommitRecords) /\ CommitHoldsWhatWasSaid' BY <2>1, <2>2, Committed
  <2> QED BY <2>1, <2>3, <1>t DEF GitInv, GitTypeOK, SaidOf, DiffText
<1>9. ASSUME NEW a \in Committers, NEW fs \in SUBSET Tracked, GitCommit(a, fs) PROVE GitInv'
  <2> DEFINE mine == [text |-> Diff(staged'), alone |-> TRUE]
  <2>1. /\ unstaged' \in SUBSET Tracked /\ staged' \in SUBSET Tracked
        /\ UNCHANGED <<commits, stash, pushed>>
        /\ errand' = [errand EXCEPT ![a] = "committing"]
        /\ said' = [Stale(a) EXCEPT ![a] = mine]
    BY <1>9, <1>t DEF GitCommit, Stage
  <2>2. mine \in Speeches /\ mine.text = Diff(staged') BY <2>1 DEF Speeches, Texts
  <2> HIDE DEF mine
  <2> QED BY <2>1, <2>2, <1>c, <1>t, ToolKeeps
<1>10. ASSUME NEW a \in Committers, CommitEnds(a) PROVE GitInv'
  <2>1. /\ errand[a] = "committing" /\ errand' = [errand EXCEPT ![a] = "idle"]
        /\ said' = [Stale(a) EXCEPT ![a] = NothingSaid]
        /\ UNCHANGED <<unstaged, stash, pushed>>
    BY <1>10 DEF CommitEnds
  <2>2. CASE CommitIndex(said[a].text, said[a].alone)
    <3> DEFINE c == [files |-> staged, text |-> said[a].text, alone |-> said[a].alone]
    <3>1. staged # {} /\ staged' = {} /\ commits' = Append(commits, c)
      BY <2>2 DEF CommitIndex
    <3>2. c \in CommitRecords
      <4>1. said[a] \in Speeches BY <1>t
      <4> QED BY <1>t, <4>1 DEF Speeches, CommitRecords
    <3>3. c.alone => c.text = Diff(c.files)
      <4>1. SaidOf(a) BY <1>t
      <4>2. DiffText(staged) = Diff(staged) BY <3>1 DEF DiffText
      <4> QED BY <2>1, <4>1, <4>2 DEF SaidOf
    <3> HIDE DEF c
    <3>4. commits' \in Seq(CommitRecords) /\ CommitHoldsWhatWasSaid'
      BY <3>1, <3>2, <3>3, Committed
    <3> QED BY <2>1, <3>1, <3>4, <1>n, <1>t, ToolKeeps
  <2>3. CASE UNCHANGED <<staged, commits>>
    BY <2>1, <2>3, <1>c, <1>n, <1>t, ToolKeeps
  <2> QED BY <1>10, <2>2, <2>3 DEF CommitEnds
<1>11. ASSUME NEW a \in Committers, CommitCommand(a) PROVE GitInv'
  <2> DEFINE mine == [text |-> DiffText(staged), alone |-> TRUE]
  <2>1. /\ errand' = [errand EXCEPT ![a] = "asking"] /\ said' = [said EXCEPT ![a] = mine]
        /\ UNCHANGED <<unstaged, staged, commits, stash, pushed>>
    BY <1>11 DEF CommitCommand, repoVars
  <2>2. mine \in Speeches /\ mine.text = DiffText(staged)
    BY <1>t DEF DiffText, Speeches, Texts
  <2> HIDE DEF mine
  <2>3. said' = [Stale(a) EXCEPT ![a] = mine] BY <2>1, <1>k
  <2>4. mine.text \in {Diff(staged'), DiffText(staged')} BY <2>1, <2>2 DEF DiffText
  <2> QED BY <2>1, <2>2, <2>3, <2>4, <1>c, <1>t, ToolKeeps
<1>12. ASSUME NEW a \in Committers, NoMessage(a) PROVE GitInv'
  <2>1. /\ errand' = [errand EXCEPT ![a] = "idle"] /\ said' = [said EXCEPT ![a] = NothingSaid]
        /\ UNCHANGED <<unstaged, staged, commits, stash, pushed>>
    BY <1>12 DEF NoMessage, repoVars
  <2>2. said' = [Stale(a) EXCEPT ![a] = NothingSaid] BY <2>1, <1>k
  <2> QED BY <2>1, <2>2, <1>c, <1>n, <1>t, ToolKeeps
<1>13. ASSUME NEW a \in Committers, MessageComes(a) PROVE GitInv'
  <2>1. /\ errand[a] = "asking" /\ errand' = [errand EXCEPT ![a] = "committing"]
        /\ UNCHANGED <<unstaged, staged, said, commits, stash, pushed>>
    BY <1>13 DEF MessageComes, Named
  <2>2. said' = [Stale(a) EXCEPT ![a] = said[a]] BY <2>1, <1>k, <1>t
  <2>3. said[a] \in Speeches /\ SaidOf(a) BY <1>t
  <2>4. said[a].alone => said[a].text \in {Diff(staged'), DiffText(staged')}
    BY <2>1, <2>3 DEF SaidOf, DiffText
  <2> QED BY <2>1, <2>2, <2>3, <2>4, <1>c, <1>t, ToolKeeps
<1>14. CASE UNCHANGED gitVars
  BY <1>14, <1>t
     DEF gitVars, repoVars, GitInv, GitTypeOK, SaidOf, DiffText, CommitHoldsWhatWasSaid
<1> QED
  BY <1>1, <1>2, <1>3, <1>4, <1>5, <1>6, <1>7, <1>8, <1>9, <1>10, <1>11, <1>12, <1>13, <1>14
     DEF GitNext

(* Before the first command nothing is said and nothing is committed. *)
LEMMA GitInitially == GitInit => GitInv
  BY DEF GitInit, GitInv, GitTypeOK, SaidOf, CommitHoldsWhatWasSaid, NothingSaid, Speeches, Texts

(* A commit made in peace holds what was said of it, whoever else is at    *)
(* work in the repository (git.go:341-367, loop.go:1346-1377).             *)
THEOREM CommitsHoldWhatWasSaid == GitSpec => []CommitHoldsWhatWasSaid
<1>1. GitInv => CommitHoldsWhatWasSaid BY DEF GitInv
<1> QED BY <1>1, GitInitially, GitInductive, PTL DEF GitSpec

-----------------------------------------------------------------------------
(* The memory vault.  Unless writers overlapped, one at most is busy; the  *)
(* index it writes is the one it scanned, and nothing changed since; and a *)
(* note whose first day is known has that day, is being filled by a writer *)
(* that keeps it, or both.                                                 *)
VaultTypeOK ==
  /\ notes \in [NotePaths -> Notes \cup {NoNote}]
  /\ noteIndex \in Indexes \cup {NoNote}
  /\ writing \in [Writers -> {"idle", "write", "fill", "scan", "index"}]
  /\ DOMAIN job = Writers
  /\ scanned \in [Writers -> Indexes \cup {NoNote}]
  /\ today \in Nat /\ overlapped \in BOOLEAN /\ handEdited \in BOOLEAN
  /\ firstDay \in [NotePaths -> Nat]

JobOf(w) == /\ job[w].path \in NotePaths /\ job[w].created \in Nat
            /\ job[w].updated \in Nat /\ job[w].tags \in SUBSET Tags
HasAJob == \A w \in Writers : writing[w] \in {"write", "fill"} => JobOf(w)
OneIsBusy ==
  ~overlapped => \A w, v \in Writers : writing[w] # "idle" /\ writing[v] # "idle" => w = v

IndexShows == \/ noteIndex = ScanAll
              \/ noteIndex = NoNote /\ \A p \in NotePaths : notes[p] = NoNote
IndexFollows ==
  ~overlapped /\ ~handEdited =>
    /\ (\A w \in Writers : writing[w] = "idle") => IndexShows
    /\ \A w \in Writers : writing[w] = "index" => scanned[w] = ScanAll

Dated(p) == notes[p] # NoNote /\ notes[p].text /\ notes[p].created = firstDay[p]
BeingFilled(p) ==
  notes[p] = Cut /\ \E w \in Writers : writing[w] = "fill" /\ job[w].path = p
KnownDays == \A p \in NotePaths : firstDay[p] # 0 => Dated(p) \/ BeingFilled(p)
KeepsTheDay ==
  ~overlapped => \A w \in Writers :
    writing[w] \in {"write", "fill"} /\ firstDay[job[w].path] # 0 =>
      job[w].created = firstDay[job[w].path]

VaultInv == VaultTypeOK /\ HasAJob /\ OneIsBusy /\ IndexFollows /\ KnownDays /\ KeepsTheDay

LEMMA CutIsANote == Plain \in Notes /\ Cut \in Notes /\ ~Cut.text
BY DEF Plain, Cut, Notes

LEMMA ScanIsAnIndex ==
  ASSUME notes \in [NotePaths -> Notes \cup {NoNote}] PROVE ScanAll \in Indexes
BY DEF ScanAll, Indexes, Notes, Rows

LEMMA SaveKeeps ==
  ASSUME VaultInv, NEW w \in Writers, NEW p \in NotePaths,
         NEW ts \in SUBSET Tags, SaveNote(w, p, ts)
  PROVE  VaultInv'
<1>t. VaultTypeOK BY DEF VaultInv
<1>1. /\ writing[w] = "idle" /\ writing' = [writing EXCEPT ![w] = "write"]
      /\ job' = [job EXCEPT ![w] = [path |-> p, created |-> Created(p), updated |-> today,
                                    tags |-> ts, text |-> TRUE]]
      /\ overlapped' = (overlapped \/ ~OnlyWriter(w))
      /\ UNCHANGED <<notes, noteIndex, scanned, today, handEdited, firstDay>>
  BY DEF SaveNote, NowAt
<1>2. /\ writing'[w] = "write" /\ \A v \in Writers \ {w} : writing'[v] = writing[v]
      /\ job'[w].path = p /\ job'[w].created = Created(p) /\ job'[w].updated = today
      /\ job'[w].tags = ts /\ \A v \in Writers \ {w} : job'[v] = job[v]
  BY <1>1, <1>t DEF VaultTypeOK
<1>c. Created(p) \in Nat BY <1>t DEF Created, VaultTypeOK, Notes
<1>3. VaultTypeOK'
  <2>1. writing' \in [Writers -> {"idle", "write", "fill", "scan", "index"}]
    BY <1>1, <1>t DEF VaultTypeOK
  <2>2. DOMAIN job' = Writers BY <1>1, <1>t DEF VaultTypeOK
  <2> QED BY <2>1, <2>2, <1>1, <1>t DEF VaultTypeOK
<1>4. HasAJob' BY <1>2, <1>c, <1>t DEF VaultInv, HasAJob, JobOf, VaultTypeOK
<1>o. ~overlapped' => ~overlapped /\ \A v \in Writers : writing[v] = "idle"
  BY <1>1 DEF OnlyWriter
<1>5. OneIsBusy' BY <1>o, <1>2 DEF OneIsBusy
<1>6. IndexFollows' BY <1>o, <1>2 DEF IndexFollows
<1>7. KnownDays'
  <2> SUFFICES ASSUME NEW q \in NotePaths, firstDay[q] # 0
               PROVE  Dated(q)' \/ BeingFilled(q)'
    BY <1>1 DEF KnownDays
  <2>1. CASE Dated(q) BY <2>1, <1>1 DEF Dated
  <2>2. CASE BeingFilled(q)
    <3>1. PICK v \in Writers : writing[v] = "fill" /\ job[v].path = q BY <2>2 DEF BeingFilled
    <3>2. v # w BY <3>1, <1>1
    <3> QED BY <2>2, <3>1, <3>2, <1>1, <1>2 DEF BeingFilled
  <2> QED BY <2>1, <2>2 DEF VaultInv, KnownDays
<1>8. KeepsTheDay'
  <2> SUFFICES ASSUME ~overlapped', firstDay[p] # 0 PROVE Created(p) = firstDay[p]
    BY <1>o, <1>1, <1>2 DEF KeepsTheDay
  <2>1. Dated(p) BY <1>o DEF VaultInv, KnownDays, BeingFilled
  <2> QED BY <2>1 DEF Dated, Created
<1> QED BY <1>3, <1>4, <1>5, <1>6, <1>7, <1>8 DEF VaultInv

LEMMA TruncateKeeps ==
  ASSUME VaultInv, NEW w \in Writers, TruncateNote(w) PROVE VaultInv'
<1>t. VaultTypeOK BY DEF VaultInv
<1>1. /\ writing[w] = "write" /\ writing' = [writing EXCEPT ![w] = "fill"]
      /\ notes' = [notes EXCEPT ![job[w].path] = Cut]
      /\ UNCHANGED <<noteIndex, job, scanned, today, overlapped, handEdited, firstDay>>
  BY DEF TruncateNote, NowAt
<1>p. job[w].path \in NotePaths BY <1>1 DEF VaultInv, HasAJob, JobOf
<1>2. /\ writing'[w] = "fill" /\ \A v \in Writers \ {w} : writing'[v] = writing[v]
      /\ notes'[job[w].path] = Cut
      /\ \A q \in NotePaths \ {job[w].path} : notes'[q] = notes[q]
  BY <1>1, <1>p, <1>t DEF VaultTypeOK
<1>3. VaultTypeOK'
  <2>1. writing' \in [Writers -> {"idle", "write", "fill", "scan", "index"}]
    BY <1>1, <1>t DEF VaultTypeOK
  <2>2. notes' \in [NotePaths -> Notes \cup {NoNote}]
    BY <1>1, <1>t, CutIsANote DEF VaultTypeOK
  <2> QED BY <2>1, <2>2, <1>1, <1>t DEF VaultTypeOK
<1>4. HasAJob' BY <1>1, <1>2 DEF VaultInv, HasAJob, JobOf
<1>5. OneIsBusy' BY <1>1, <1>2 DEF VaultInv, OneIsBusy
<1>6. IndexFollows'
  <2>1. ~overlapped => \A v \in Writers \ {w} : writing[v] = "idle"
    BY <1>1 DEF VaultInv, OneIsBusy
  <2> QED BY <2>1, <1>1, <1>2 DEF IndexFollows
<1>7. KnownDays'
  <2> SUFFICES ASSUME NEW q \in NotePaths, firstDay[q] # 0
               PROVE  Dated(q)' \/ BeingFilled(q)'
    BY <1>1 DEF KnownDays
  <2>1. CASE q = job[w].path BY <2>1, <1>1, <1>2 DEF BeingFilled
  <2>2. CASE q # job[w].path /\ Dated(q) BY <2>2, <1>1, <1>2 DEF Dated
  <2>3. CASE q # job[w].path /\ BeingFilled(q) BY <2>3, <1>1, <1>2 DEF BeingFilled
  <2> QED BY <2>1, <2>2, <2>3 DEF VaultInv, KnownDays
<1>8. KeepsTheDay' BY <1>1, <1>2 DEF VaultInv, KeepsTheDay
<1> QED BY <1>3, <1>4, <1>5, <1>6, <1>7, <1>8 DEF VaultInv

LEMMA FillKeeps ==
  ASSUME VaultInv, NEW w \in Writers, FillNote(w) PROVE VaultInv'
<1> DEFINE p == job[w].path
           note == [created |-> job[w].created, updated |-> job[w].updated,
                    tags |-> job[w].tags, text |-> TRUE]
<1>t. VaultTypeOK BY DEF VaultInv
<1>1. /\ writing[w] = "fill" /\ writing' = [writing EXCEPT ![w] = "scan"]
      /\ notes' = [notes EXCEPT ![p] = note]
      /\ firstDay' = [firstDay EXCEPT ![p] =
           IF overlapped THEN 0 ELSE IF firstDay[p] = 0 THEN job[w].created ELSE firstDay[p]]
      /\ UNCHANGED <<noteIndex, job, scanned, today, overlapped, handEdited>>
  BY DEF FillNote, NowAt
<1>p. JobOf(w) BY <1>1 DEF VaultInv, HasAJob
<1>n. note \in Notes /\ note.text /\ note.created = job[w].created BY <1>p DEF JobOf, Notes
<1>q. p \in NotePaths /\ job[w].created \in Nat BY <1>p DEF JobOf
<1>e. p = job[w].path OBVIOUS
<1> HIDE DEF note, p
<1>2. /\ writing'[w] = "scan" /\ \A v \in Writers \ {w} : writing'[v] = writing[v]
      /\ notes'[p] = note /\ \A q \in NotePaths \ {p} : notes'[q] = notes[q]
      /\ firstDay'[p] = IF overlapped THEN 0
                        ELSE IF firstDay[p] = 0 THEN job[w].created ELSE firstDay[p]
      /\ \A q \in NotePaths \ {p} : firstDay'[q] = firstDay[q]
  BY <1>1, <1>q, <1>t DEF VaultTypeOK
<1>3. VaultTypeOK'
  <2>1. writing' \in [Writers -> {"idle", "write", "fill", "scan", "index"}]
    BY <1>1, <1>t DEF VaultTypeOK
  <2>2. notes' \in [NotePaths -> Notes \cup {NoNote}] BY <1>1, <1>n, <1>t DEF VaultTypeOK
  <2>3. firstDay' \in [NotePaths -> Nat] BY <1>1, <1>q, <1>t DEF VaultTypeOK
  <2> QED BY <2>1, <2>2, <2>3, <1>1, <1>t DEF VaultTypeOK
<1>4. HasAJob' BY <1>1, <1>2 DEF VaultInv, HasAJob, JobOf
<1>5. OneIsBusy' BY <1>1, <1>2 DEF VaultInv, OneIsBusy
<1>o. ~overlapped => \A v \in Writers \ {w} : writing[v] = "idle"
  BY <1>1 DEF VaultInv, OneIsBusy
<1>6. IndexFollows' BY <1>o, <1>1, <1>2 DEF IndexFollows
<1>7. KnownDays'
  <2> SUFFICES ASSUME NEW q \in NotePaths, firstDay'[q] # 0
               PROVE  Dated(q)' \/ BeingFilled(q)'
    BY DEF KnownDays
  <2>1. CASE q = p
    <3>1. ~overlapped BY <2>1, <1>2
    <3>2. firstDay[p] # 0 => job[w].created = firstDay[p]
      BY <3>1, <1>1, <1>e DEF VaultInv, KeepsTheDay
    <3>3. note # NoNote BY <1>n, NoNoteAssumption
    <3>4. firstDay'[p] = job[w].created BY <3>1, <3>2, <1>2
    <3> QED BY <2>1, <3>3, <3>4, <1>2, <1>n DEF Dated
  <2>2. CASE q # p /\ Dated(q) BY <2>2, <1>2 DEF Dated
  <2>3. CASE q # p /\ BeingFilled(q)
    <3>1. PICK v \in Writers : writing[v] = "fill" /\ job[v].path = q BY <2>3 DEF BeingFilled
    <3>2. v # w BY <2>3, <3>1, <1>e
    <3> QED BY <2>3, <3>1, <3>2, <1>1, <1>2 DEF BeingFilled
  <2> QED BY <2>1, <2>2, <2>3, <1>2 DEF VaultInv, KnownDays
<1>8. KeepsTheDay' BY <1>o, <1>1, <1>2 DEF KeepsTheDay
<1> QED BY <1>3, <1>4, <1>5, <1>6, <1>7, <1>8 DEF VaultInv

(* A step to the scan, or of the scan, or of the index. *)
LEMMA IndexKeeps ==
  ASSUME VaultInv, NEW w \in Writers, ScanNotes(w) \/ WriteIndex(w)
  PROVE  VaultInv'
<1>t. VaultTypeOK BY DEF VaultInv
<1>u. UNCHANGED <<notes, today, overlapped, handEdited, firstDay>>
  BY DEF ScanNotes, WriteIndex
<1>s. ScanAll \in Indexes /\ ScanAll' = ScanAll
  BY <1>t, <1>u, ScanIsAnIndex DEF VaultTypeOK, ScanAll
<1>1. CASE ScanNotes(w)
  <2>1. /\ writing[w] = "scan" /\ writing' = [writing EXCEPT ![w] = "index"]
        /\ scanned' = [scanned EXCEPT ![w] = ScanAll] /\ UNCHANGED <<noteIndex, job>>
    BY <1>1 DEF ScanNotes, NowAt
  <2>2. /\ writing'[w] = "index" /\ \A v \in Writers \ {w} : writing'[v] = writing[v]
        /\ scanned'[w] = ScanAll /\ \A v \in Writers \ {w} : scanned'[v] = scanned[v]
    BY <2>1, <1>t DEF VaultTypeOK
  <2>3. VaultTypeOK'
    <3>1. writing' \in [Writers -> {"idle", "write", "fill", "scan", "index"}]
      BY <2>1, <1>t DEF VaultTypeOK
    <3>2. scanned' \in [Writers -> Indexes \cup {NoNote}] BY <2>1, <1>s, <1>t DEF VaultTypeOK
    <3> QED BY <3>1, <3>2, <2>1, <1>u, <1>t DEF VaultTypeOK
  <2>4. HasAJob' BY <2>1, <2>2 DEF VaultInv, HasAJob, JobOf
  <2>5. OneIsBusy' BY <2>1, <2>2, <1>u DEF VaultInv, OneIsBusy
  <2>6. IndexFollows' BY <2>1, <2>2, <1>s, <1>u DEF VaultInv, IndexFollows
  <2>7. KnownDays'
    <3> SUFFICES ASSUME NEW q \in NotePaths, firstDay[q] # 0
                 PROVE  Dated(q)' \/ BeingFilled(q)'
      BY <1>u DEF KnownDays
    <3>1. CASE Dated(q) BY <3>1, <1>u DEF Dated
    <3>2. CASE BeingFilled(q)
      <4>1. PICK v \in Writers : writing[v] = "fill" /\ job[v].path = q BY <3>2 DEF BeingFilled
      <4> QED BY <3>2, <4>1, <2>1, <2>2, <1>u DEF BeingFilled
    <3> QED BY <3>1, <3>2 DEF VaultInv, KnownDays
  <2>8. KeepsTheDay' BY <2>1, <2>2, <1>u DEF VaultInv, KeepsTheDay
  <2> QED BY <2>3, <2>4, <2>5, <2>6, <2>7, <2>8 DEF VaultInv
<1>2. CASE WriteIndex(w)
  <2>1. /\ writing[w] = "index" /\ writing' = [writing EXCEPT ![w] = "idle"]
        /\ noteIndex' = scanned[w] /\ scanned' = [scanned EXCEPT ![w] = NoNote]
        /\ job' = [job EXCEPT ![w] = [path |-> NoNote]]
    BY <1>2 DEF WriteIndex, NowAt
  <2>2. /\ writing'[w] = "idle" /\ \A v \in Writers \ {w} : writing'[v] = writing[v]
        /\ \A v \in Writers \ {w} : scanned'[v] = scanned[v] /\ job'[v] = job[v]
    BY <2>1, <1>t DEF VaultTypeOK
  <2>3. VaultTypeOK'
    <3>1. writing' \in [Writers -> {"idle", "write", "fill", "scan", "index"}]
      BY <2>1, <1>t DEF VaultTypeOK
    <3>2. /\ scanned' \in [Writers -> Indexes \cup {NoNote}]
          /\ noteIndex' \in Indexes \cup {NoNote}
      BY <2>1, <1>t DEF VaultTypeOK
    <3>3. DOMAIN job' = Writers BY <2>1, <1>t DEF VaultTypeOK
    <3> QED BY <3>1, <3>2, <3>3, <1>u, <1>t DEF VaultTypeOK
  <2>4. HasAJob' BY <2>2 DEF VaultInv, HasAJob, JobOf
  <2>5. OneIsBusy' BY <2>2, <1>u DEF VaultInv, OneIsBusy
  <2>6. IndexFollows'
    <3> SUFFICES ASSUME ~overlapped, ~handEdited
                 PROVE  IndexShows' /\ \A v \in Writers : writing'[v] = "index" =>
                                         scanned'[v] = ScanAll'
      BY <1>u DEF IndexFollows
    <3>1. scanned[w] = ScanAll BY <2>1 DEF VaultInv, IndexFollows
    <3>2. IndexShows' BY <3>1, <2>1, <1>s DEF IndexShows
    <3> QED BY <3>2, <2>1, <2>2, <1>s DEF VaultInv, IndexFollows
  <2>7. KnownDays'
    <3> SUFFICES ASSUME NEW q \in NotePaths, firstDay[q] # 0
                 PROVE  Dated(q)' \/ BeingFilled(q)'
      BY <1>u DEF KnownDays
    <3>1. CASE Dated(q) BY <3>1, <1>u DEF Dated
    <3>2. CASE BeingFilled(q)
      <4>1. PICK v \in Writers : writing[v] = "fill" /\ job[v].path = q BY <3>2 DEF BeingFilled
      <4>2. v # w BY <4>1, <2>1
      <4> QED BY <3>2, <4>1, <4>2, <2>2, <1>u DEF BeingFilled
    <3> QED BY <3>1, <3>2 DEF VaultInv, KnownDays
  <2>8. KeepsTheDay' BY <2>2, <1>u DEF VaultInv, KeepsTheDay
  <2> QED BY <2>3, <2>4, <2>5, <2>6, <2>7, <2>8 DEF VaultInv
<1> QED BY <1>1, <1>2

LEMMA RebuildKeeps ==
  ASSUME VaultInv, NightlyRebuild PROVE VaultInv'
<1>t. VaultTypeOK BY DEF VaultInv
<1>r. Rebuilder \in Writers BY DEF Writers
<1>1. /\ writing[Rebuilder] = "idle" /\ writing' = [writing EXCEPT ![Rebuilder] = "scan"]
      /\ overlapped' = ~OnlyWriter(Rebuilder) /\ handEdited' = FALSE
      /\ UNCHANGED <<notes, noteIndex, job, scanned, today, firstDay>>
  BY DEF NightlyRebuild, NowAt
<1>2. writing'[Rebuilder] = "scan"
      /\ \A v \in Writers \ {Rebuilder} : writing'[v] = writing[v]
  BY <1>1, <1>r, <1>t DEF VaultTypeOK
<1>3. VaultTypeOK'
  <2>1. writing' \in [Writers -> {"idle", "write", "fill", "scan", "index"}]
    BY <1>1, <1>t DEF VaultTypeOK
  <2>2. overlapped' \in BOOLEAN BY <1>1
  <2> QED BY <2>1, <2>2, <1>1, <1>t DEF VaultTypeOK
<1>4. HasAJob' BY <1>1, <1>2 DEF VaultInv, HasAJob, JobOf
<1>o. ~overlapped' => \A v \in Writers \ {Rebuilder} : writing'[v] = "idle"
  BY <1>1, <1>2 DEF OnlyWriter
<1>5. OneIsBusy' BY <1>o DEF OneIsBusy
<1>6. IndexFollows' BY <1>o, <1>2, <1>r DEF IndexFollows
<1>7. KnownDays'
  <2> SUFFICES ASSUME NEW q \in NotePaths, firstDay[q] # 0
               PROVE  Dated(q)' \/ BeingFilled(q)'
    BY <1>1 DEF KnownDays
  <2>1. CASE Dated(q) BY <2>1, <1>1 DEF Dated
  <2>2. CASE BeingFilled(q)
    <3>1. PICK v \in Writers : writing[v] = "fill" /\ job[v].path = q BY <2>2 DEF BeingFilled
    <3>2. v # Rebuilder BY <3>1, <1>1
    <3> QED BY <2>2, <3>1, <3>2, <1>1, <1>2 DEF BeingFilled
  <2> QED BY <2>1, <2>2 DEF VaultInv, KnownDays
<1>8. KeepsTheDay' BY <1>o, <1>2 DEF KeepsTheDay
<1> QED BY <1>3, <1>4, <1>5, <1>6, <1>7, <1>8 DEF VaultInv

LEMMA EditKeeps ==
  ASSUME VaultInv, NEW p \in NotePaths, EditNote(p) PROVE VaultInv'
<1>t. VaultTypeOK BY DEF VaultInv
<1>1. /\ notes' = [notes EXCEPT ![p] = Plain] /\ firstDay' = [firstDay EXCEPT ![p] = 0]
      /\ handEdited' = TRUE
      /\ overlapped' = (overlapped \/ \E w \in Writers : writing[w] # "idle")
      /\ UNCHANGED <<noteIndex, writing, job, scanned, today>>
  BY DEF EditNote
<1>2. /\ firstDay'[p] = 0
      /\ \A q \in NotePaths \ {p} : firstDay'[q] = firstDay[q] /\ notes'[q] = notes[q]
  BY <1>1, <1>t DEF VaultTypeOK
<1>3. VaultTypeOK'
  <2>1. notes' \in [NotePaths -> Notes \cup {NoNote}]
    BY <1>1, <1>t, CutIsANote DEF VaultTypeOK
  <2>2. firstDay' \in [NotePaths -> Nat] BY <1>1, <1>t DEF VaultTypeOK
  <2>3. overlapped' \in BOOLEAN /\ handEdited' \in BOOLEAN BY <1>1, <1>t DEF VaultTypeOK
  <2> QED BY <2>1, <2>2, <2>3, <1>1, <1>t DEF VaultTypeOK
<1>4. HasAJob' BY <1>1 DEF VaultInv, HasAJob, JobOf
<1>5. OneIsBusy' BY <1>1 DEF VaultInv, OneIsBusy
<1>6. IndexFollows' BY <1>1 DEF IndexFollows
<1>7. KnownDays'
  <2> SUFFICES ASSUME NEW q \in NotePaths, firstDay'[q] # 0
               PROVE  Dated(q)' \/ BeingFilled(q)'
    BY DEF KnownDays
  <2>1. q # p BY <1>2
  <2>2. CASE Dated(q) BY <2>1, <2>2, <1>2 DEF Dated
  <2>3. CASE BeingFilled(q) BY <2>1, <2>3, <1>1, <1>2 DEF BeingFilled
  <2> QED BY <2>1, <2>2, <2>3, <1>2 DEF VaultInv, KnownDays
<1>8. KeepsTheDay'
  <2> SUFFICES ASSUME ~overlapped', NEW w \in Writers, writing[w] \in {"write", "fill"}
               PROVE  FALSE
    BY <1>1 DEF KeepsTheDay
  <2> QED BY <1>1
<1> QED BY <1>3, <1>4, <1>5, <1>6, <1>7, <1>8 DEF VaultInv

LEMMA DeathKeeps ==
  ASSUME VaultInv, VaultDies PROVE VaultInv'
<1>t. VaultTypeOK BY DEF VaultInv
<1>1. /\ writing' = [w \in Writers |-> "idle"]
      /\ job' = [w \in Writers |-> [path |-> NoNote]]
      /\ scanned' = [w \in Writers |-> NoNote] /\ overlapped' = TRUE
      /\ firstDay' = [p \in NotePaths |-> IF notes[p] = Cut THEN 0 ELSE firstDay[p]]
      /\ UNCHANGED <<notes, noteIndex, today, handEdited>>
  BY DEF VaultDies
<1>2. VaultTypeOK'
  <2>1. writing' \in [Writers -> {"idle", "write", "fill", "scan", "index"}] BY <1>1
  <2>2. scanned' \in [Writers -> Indexes \cup {NoNote}] /\ DOMAIN job' = Writers BY <1>1
  <2>3. firstDay' \in [NotePaths -> Nat] BY <1>1, <1>t DEF VaultTypeOK
  <2> QED BY <2>1, <2>2, <2>3, <1>1, <1>t DEF VaultTypeOK
<1>3. HasAJob' /\ OneIsBusy' /\ IndexFollows' /\ KeepsTheDay'
  BY <1>1 DEF HasAJob, OneIsBusy, IndexFollows, KeepsTheDay
<1>4. KnownDays' BY <1>1, CutIsANote DEF VaultInv, KnownDays, Dated, BeingFilled
<1> QED BY <1>2, <1>3, <1>4 DEF VaultInv

LEMMA VaultInductive ==
  ASSUME VaultInv, [VaultNext]_vaultVars PROVE VaultInv'
<1>1. CASE NextDay
  <2>1. /\ today' = today + 1
        /\ UNCHANGED <<notes, noteIndex, writing, job, scanned, overlapped, handEdited, firstDay>>
    BY <1>1 DEF NextDay
  <2>2. today' \in Nat BY <2>1 DEF VaultInv, VaultTypeOK
  <2> QED
    BY <2>1, <2>2 DEF VaultInv, VaultTypeOK, HasAJob, JobOf, OneIsBusy, IndexFollows, IndexShows,
       ScanAll, KnownDays, Dated, BeingFilled, KeepsTheDay
<1>2. CASE UNCHANGED vaultVars
  BY <1>2 DEF vaultVars, VaultInv, VaultTypeOK, HasAJob, JobOf, OneIsBusy, IndexFollows,
     IndexShows, ScanAll, KnownDays, Dated, BeingFilled, KeepsTheDay
<1> QED
  BY <1>1, <1>2, SaveKeeps, TruncateKeeps, FillKeeps, IndexKeeps, RebuildKeeps, EditKeeps,
     DeathKeeps DEF VaultNext

LEMMA VaultInitially == VaultInit => VaultInv
<1> SUFFICES ASSUME VaultInit PROVE VaultInv OBVIOUS
<1>1. VaultTypeOK BY DEF VaultInit, VaultTypeOK
<1>2. HasAJob /\ OneIsBusy /\ KeepsTheDay
  BY DEF VaultInit, HasAJob, OneIsBusy, KeepsTheDay
<1>3. IndexFollows BY DEF VaultInit, IndexFollows, IndexShows
<1>4. KnownDays BY DEF VaultInit, KnownDays
<1> QED BY <1>1, <1>2, <1>3, <1>4 DEF VaultInv

(* Between saves the prompt shows exactly the notes there are, for any     *)
(* notes, tags, rounds and days (vault.go:14, 247-285).                    *)
THEOREM PromptShowsTheNotes == VaultSpec => []PromptShowsNotes
<1>1. VaultInv => PromptShowsNotes
  <2> SUFFICES ASSUME VaultInv, ~overlapped, ~handEdited, \A w \in Writers : writing[w] = "idle"
               PROVE  /\ MemoryContext = Search({})
                      /\ \A p \in MemoryContext, t \in Tags :
                           noteIndex # NoNote => (t \in noteIndex[p].tags <=> p \in Search({t}))
                      /\ \A p \in NotePaths :
                           firstDay[p] # 0 => ReadNote(p) /\ notes[p].created = firstDay[p]
    BY DEF PromptShowsNotes
  <2>t. notes \in [NotePaths -> Notes \cup {NoNote}] BY DEF VaultInv, VaultTypeOK
  <2>1. \A p \in NotePaths : firstDay[p] # 0 => ReadNote(p) /\ notes[p].created = firstDay[p]
    BY DEF VaultInv, KnownDays, Dated, BeingFilled, ReadNote
  <2>2. IndexShows BY DEF VaultInv, IndexFollows
  <2>3. CASE noteIndex = ScanAll
    <3>1. noteIndex # NoNote BY <2>3, <2>t, ScanIsAnIndex, NoNoteAssumption
    <3>2. \A p \in NotePaths : notes[p] # NoNote =>
            /\ noteIndex[p] # NoNote /\ noteIndex[p].tags = notes[p].tags
      BY <2>3, <2>t, NoNoteAssumption DEF ScanAll, Notes, Rows
    <3>3. \A p \in NotePaths : notes[p] = NoNote => noteIndex[p] = NoNote BY <2>3 DEF ScanAll
    <3>4. MemoryContext = Search({}) BY <3>1, <3>2, <3>3 DEF MemoryContext, Search
    <3>5. \A p \in MemoryContext, t \in Tags : t \in noteIndex[p].tags <=> p \in Search({t})
      BY <3>2, <3>4 DEF Search
    <3> QED BY <3>4, <3>5, <2>1
  <2>4. CASE noteIndex = NoNote /\ \A p \in NotePaths : notes[p] = NoNote
    BY <2>1, <2>4 DEF MemoryContext, Search
  <2> QED BY <2>2, <2>3, <2>4 DEF IndexShows
<1>2. VaultInv /\ [VaultNext]_vaultVars => VaultInv' BY VaultInductive
<1> QED BY <1>1, <1>2, VaultInitially, PTL DEF VaultSpec

-----------------------------------------------------------------------------
(* The skills.  While nothing went wrong, at most one installer is past    *)
(* its check, by the tool's mutex or because the command runs alone; what  *)
(* its directory holds follows from the step it is at, and every other     *)
(* directory is whole and judged.                                          *)
AtWork == {"fetch", "extract", "judge", "origin"}

InstallTypeOK ==
  /\ skillDir \in [Skills -> SkillDirs \cup {NoSkill}]
  /\ shipped \in [Skills -> SUBSET {"global", "builtin"}]
  /\ mutex \in InstallRounds \cup {NoSkill}
  /\ installing \in [Installers -> {"idle", "called"} \cup AtWork]
  /\ slug \in [Installers -> Skills \cup {NoSkill}]
  /\ force \in [Installers -> BOOLEAN] /\ by \in [Installers -> Kinds]
  /\ unclean \in BOOLEAN

KnowsItsSkill ==
  \A i \in Installers : installing[i] # "idle" =>
    slug[i] \in Skills /\ (by[i] = "tool" <=> i \in InstallRounds)
HoldsTheMutex == \A i \in InstallRounds : mutex = i <=> installing[i] \in AtWork
CommandIsAlone ==
  ~unclean => \A i \in SkillShells : installing[i] # "idle" =>
                \A j \in Installers \ {i} : installing[j] = "idle"
FromRegistry == \A i \in Installers : installing[i] \in {"judge", "origin"} => by[i] # "github"

DirAt(i) ==
  LET d == skillDir[slug[i]] IN
  /\ installing[i] = "fetch" => d = NoSkill
  /\ installing[i] = "extract" => d = Partial
  /\ installing[i] \in {"judge", "origin"} => d # NoSkill /\ d.whole
  /\ installing[i] = "origin" => d.passed
InWork == ~unclean => \A i \in Installers : DirAt(i)

GoodSkill(d) == d # NoSkill => d.whole /\ (d.of # "github" => d.passed)
OthersAreGood ==
  ~unclean => \A s \in Skills :
    (\A i \in Installers : installing[i] \in AtWork => slug[i] # s) => GoodSkill(skillDir[s])

InstallInv == /\ InstallTypeOK /\ KnowsItsSkill /\ HoldsTheMutex /\ CommandIsAlone
              /\ FromRegistry /\ InWork /\ OthersAreGood

(* While nothing went wrong, one installer at most is past its check. *)
LEMMA OneAtWork ==
  ASSUME InstallInv, ~unclean,
         NEW i \in Installers, NEW j \in Installers, installing[i] \in AtWork,
         installing[j] # "idle", i \in SkillShells \/ j \in SkillShells
                                   \/ installing[j] \in AtWork
  PROVE  i = j
<1>1. installing[i] # "idle" BY DEF AtWork
<1>2. CASE i \in SkillShells
  BY <1>2, <1>1 DEF InstallInv, CommandIsAlone
<1>3. CASE j \in SkillShells
  BY <1>3, <1>1 DEF InstallInv, CommandIsAlone
<1>4. CASE i \in InstallRounds /\ j \in InstallRounds /\ installing[j] \in AtWork
  BY <1>4 DEF InstallInv, HoldsTheMutex
<1> QED BY <1>2, <1>3, <1>4 DEF Installers

(* A step of i past its check: it leaves every other skill alone, and its  *)
(* own as the step it comes to says.                                       *)
LEMMA StepAtWork ==
  ASSUME InstallInv, NEW i \in Installers, installing[i] \in AtWork,
         NEW to \in AtWork \cup {"idle"}, installing' = [installing EXCEPT ![i] = to],
         NEW d \in SkillDirs \cup {NoSkill}, skillDir' = [skillDir EXCEPT ![slug[i]] = d],
         mutex' = IF to = "idle" /\ mutex = i THEN NoSkill ELSE mutex,
         UNCHANGED <<shipped, slug, force, by>>,
         unclean' \in BOOLEAN, unclean => unclean',
         to \in {"judge", "origin"} => by[i] # "github",
         ~unclean' => /\ to = "fetch" => d = NoSkill
                      /\ to = "extract" => d = Partial
                      /\ to \in {"judge", "origin"} => d # NoSkill /\ d.whole
                      /\ to = "origin" => d.passed
                      /\ to = "idle" => GoodSkill(d)
  PROVE  InstallInv'
<1>t. /\ skillDir \in [Skills -> SkillDirs \cup {NoSkill}]
      /\ mutex \in InstallRounds \cup {NoSkill}
      /\ installing \in [Installers -> {"idle", "called"} \cup AtWork]
      /\ unclean \in BOOLEAN
  BY DEF InstallInv, InstallTypeOK
<1>a. installing[i] # "idle" /\ "idle" \notin AtWork BY DEF AtWork
<1>s. slug[i] \in Skills BY <1>a DEF InstallInv, KnowsItsSkill
<1>b. installing'[i] = to /\ \A j \in Installers \ {i} : installing'[j] = installing[j]
  BY <1>t
<1>c. skillDir'[slug[i]] = d /\ \A s \in Skills \ {slug[i]} : skillDir'[s] = skillDir[s]
  BY <1>t, <1>s
<1>d. InstallRounds \subseteq Installers /\ SkillShells \subseteq Installers BY DEF Installers
<1>1. InstallTypeOK'
  <2>1. skillDir' \in [Skills -> SkillDirs \cup {NoSkill}] BY <1>t
  <2>2. installing' \in [Installers -> {"idle", "called"} \cup AtWork] BY <1>t
  <2>3. mutex' \in InstallRounds \cup {NoSkill} BY <1>t
  <2> QED BY <2>1, <2>2, <2>3 DEF InstallInv, InstallTypeOK
<1>2. KnowsItsSkill' BY <1>a, <1>b DEF InstallInv, KnowsItsSkill
<1>3. HoldsTheMutex'
  <2> SUFFICES ASSUME NEW k \in InstallRounds
               PROVE  mutex' = k <=> installing'[k] \in AtWork
    BY DEF HoldsTheMutex
  <2>1. mutex = k <=> installing[k] \in AtWork BY DEF InstallInv, HoldsTheMutex
  <2>2. k # NoSkill BY <1>d, InstallAssumption
  <2>3. CASE k = i BY <2>1, <2>2, <2>3, <1>a, <1>b
  <2>4. CASE k # i BY <2>1, <2>2, <2>4, <1>b, <1>d
  <2> QED BY <2>3, <2>4
<1>4. CommandIsAlone'
  <2> SUFFICES ASSUME ~unclean', NEW k \in SkillShells, installing'[k] # "idle",
                      NEW j \in Installers \ {k}
               PROVE  installing'[j] = "idle"
    BY DEF CommandIsAlone
  <2>1. installing[k] # "idle" BY <1>a, <1>b, <1>d
  <2>2. installing[j] = "idle" BY <2>1 DEF InstallInv, CommandIsAlone
  <2> QED BY <2>2, <1>a, <1>b
<1>5. FromRegistry' BY <1>b DEF InstallInv, FromRegistry
<1>6. ASSUME ~unclean', NEW j \in Installers \ {i} PROVE installing[j] \notin AtWork
  BY <1>6, <1>a, OneAtWork
<1>7. InWork'
  <2> SUFFICES ASSUME ~unclean', NEW j \in Installers PROVE DirAt(j)'
    BY DEF InWork
  <2>1. CASE j = i BY <2>1, <1>b, <1>c DEF DirAt
  <2>2. CASE j # i BY <2>2, <1>b, <1>6 DEF DirAt, AtWork
  <2> QED BY <2>1, <2>2
<1>8. OthersAreGood'
  <2> SUFFICES ASSUME ~unclean', NEW s \in Skills,
                      \A j \in Installers : installing'[j] \in AtWork => slug[j] # s
               PROVE  GoodSkill(skillDir'[s])
    BY DEF OthersAreGood
  <2>1. CASE s = slug[i] BY <2>1, <1>b, <1>c
  <2>2. CASE s # slug[i]
    <3>1. \A j \in Installers : installing[j] \in AtWork => slug[j] # s BY <2>2, <1>6
    <3> QED BY <2>2, <3>1, <1>c DEF InstallInv, OthersAreGood
  <2> QED BY <2>1, <2>2
<1> QED BY <1>1, <1>2, <1>3, <1>4, <1>5, <1>7, <1>8 DEF InstallInv

(* An operation that begins. *)
LEMMA BegunKeeps ==
  ASSUME InstallInv, NEW i \in Installers, NEW s \in Skills, NEW f \in BOOLEAN,
         NEW b \in Kinds, b = "tool" <=> i \in InstallRounds, Begun(i, s, f, b)
  PROVE  InstallInv'
<1>t. InstallTypeOK BY DEF InstallInv
<1>1. /\ installing[i] = "idle" /\ installing' = [installing EXCEPT ![i] = "called"]
      /\ slug' = [slug EXCEPT ![i] = s] /\ force' = [force EXCEPT ![i] = f]
      /\ by' = [by EXCEPT ![i] = b]
      /\ unclean' = (unclean \/ \E j \in Installers \ {i} : installing[j] # "idle"
                                     /\ {i, j} \cap SkillShells # {})
      /\ UNCHANGED <<skillDir, shipped, mutex>>
  BY DEF Begun, Proceed
<1>b. /\ installing'[i] = "called" /\ slug'[i] = s /\ by'[i] = b
      /\ \A j \in Installers \ {i} : /\ installing'[j] = installing[j] /\ slug'[j] = slug[j]
                                     /\ by'[j] = by[j]
  BY <1>1, <1>t DEF InstallTypeOK
<1>a. "called" \notin AtWork /\ "idle" \notin AtWork BY DEF AtWork
<1>d. InstallRounds \subseteq Installers /\ SkillShells \subseteq Installers BY DEF Installers
<1>2. InstallTypeOK'
  <2>1. installing' \in [Installers -> {"idle", "called"} \cup AtWork]
    BY <1>1, <1>t DEF InstallTypeOK
  <2>2. slug' \in [Installers -> Skills \cup {NoSkill}] BY <1>1, <1>t DEF InstallTypeOK
  <2>3. force' \in [Installers -> BOOLEAN] BY <1>1, <1>t DEF InstallTypeOK
  <2>4. by' \in [Installers -> Kinds] BY <1>1, <1>t DEF InstallTypeOK
  <2>5. unclean' \in BOOLEAN BY <1>1, <1>t DEF InstallTypeOK
  <2> QED BY <2>1, <2>2, <2>3, <2>4, <2>5, <1>1, <1>t DEF InstallTypeOK
<1>3. KnowsItsSkill' BY <1>b DEF InstallInv, KnowsItsSkill
<1>4. HoldsTheMutex' BY <1>1, <1>a, <1>b, <1>d DEF InstallInv, HoldsTheMutex
<1>5. CommandIsAlone'
  <2> SUFFICES ASSUME ~unclean', NEW k \in SkillShells, installing'[k] # "idle",
                      NEW j \in Installers \ {k}
               PROVE  installing'[j] = "idle"
    BY DEF CommandIsAlone
  <2>1. CASE k = i
    <3>1. k \in {i, j} \cap SkillShells BY <2>1
    <3> QED BY <2>1, <3>1, <1>1, <1>b
  <2>2. CASE k # i
    <3>1. installing[k] # "idle" /\ k \in {i, k} \cap SkillShells BY <2>2, <1>b, <1>d
    <3> QED BY <2>2, <3>1, <1>1, <1>d
  <2> QED BY <2>1, <2>2
<1>6. FromRegistry' BY <1>b DEF InstallInv, FromRegistry
<1>7. InWork'
  <2> SUFFICES ASSUME ~unclean', NEW j \in Installers PROVE DirAt(j)' BY DEF InWork
  <2>1. CASE j = i BY <2>1, <1>b DEF DirAt
  <2>2. CASE j # i BY <2>2, <1>1, <1>b DEF DirAt, InstallInv, InWork
  <2> QED BY <2>1, <2>2
<1>8. OthersAreGood'
  <2> SUFFICES ASSUME ~unclean', NEW x \in Skills,
                      \A j \in Installers : installing'[j] \in AtWork => slug'[j] # x
               PROVE  GoodSkill(skillDir'[x])
    BY DEF OthersAreGood
  <2>1. ~unclean /\ skillDir' = skillDir BY <1>1
  <2>2. \A j \in Installers : installing[j] \in AtWork => slug[j] # x BY <1>1, <1>a, <1>b
  <2> QED BY <2>1, <2>2 DEF InstallInv, OthersAreGood
<1> QED BY <1>2, <1>3, <1>4, <1>5, <1>6, <1>7, <1>8 DEF InstallInv

(* The check. *)
LEMMA CheckKeeps ==
  ASSUME InstallInv, NEW i \in Installers, CheckSkill(i)
  PROVE  InstallInv'
<1>t. InstallTypeOK BY DEF InstallInv
<1>1. /\ installing[i] = "called" /\ (i \in InstallRounds => mutex = NoSkill)
      /\ UNCHANGED <<shipped, slug, force, by, unclean>>
  BY DEF CheckSkill, args
<1>a. /\ "called" \notin AtWork /\ "idle" \notin AtWork /\ "fetch" \in AtWork
      /\ "judge" \in AtWork /\ "origin" \in AtWork /\ "extract" \in AtWork
  BY DEF AtWork
<1>d. InstallRounds \subseteq Installers /\ SkillShells \subseteq Installers BY DEF Installers
<1>s. slug[i] \in Skills BY <1>1 DEF InstallInv, KnowsItsSkill
<1>2. CASE Proceed(i, "idle") /\ UNCHANGED <<skillDir, mutex>>
  <2>1. installing'[i] = "idle" /\ \A j \in Installers \ {i} : installing'[j] = installing[j]
    BY <1>2, <1>t DEF InstallTypeOK, Proceed
  <2>2. InstallTypeOK' BY <1>1, <1>2, <1>t DEF InstallTypeOK, Proceed
  <2>3. KnowsItsSkill' BY <2>1, <1>1 DEF InstallInv, KnowsItsSkill
  <2>4. HoldsTheMutex' BY <2>1, <1>1, <1>2, <1>a, <1>d DEF InstallInv, HoldsTheMutex
  <2>5. CommandIsAlone' BY <2>1, <1>1, <1>d DEF InstallInv, CommandIsAlone
  <2>6. FromRegistry' BY <2>1, <1>1 DEF InstallInv, FromRegistry
  <2>7. InWork' BY <2>1, <1>1, <1>2 DEF InstallInv, InWork, DirAt
  <2>8. OthersAreGood' BY <2>1, <1>1, <1>2, <1>a DEF InstallInv, OthersAreGood
  <2> QED BY <2>2, <2>3, <2>4, <2>5, <2>6, <2>7, <2>8 DEF InstallInv
<1>3. CASE /\ ~(skillDir[slug[i]] # NoSkill /\ ~force[i])
           /\ skillDir' = IF force[i] THEN Removed(slug[i]) ELSE skillDir
           /\ mutex' = IF i \in InstallRounds THEN i ELSE mutex
           /\ Proceed(i, "fetch")
  <2>1. installing'[i] = "fetch" /\ \A j \in Installers \ {i} : installing'[j] = installing[j]
    BY <1>3, <1>t DEF InstallTypeOK, Proceed
  <2>2. /\ skillDir' \in [Skills -> SkillDirs \cup {NoSkill}] /\ skillDir'[slug[i]] = NoSkill
        /\ \A s \in Skills \ {slug[i]} : skillDir'[s] = skillDir[s]
    BY <1>3, <1>s, <1>t DEF InstallTypeOK, Removed
  <2>3. InstallTypeOK'
    <3>1. installing' \in [Installers -> {"idle", "called"} \cup AtWork]
      BY <1>3, <1>a, <1>t DEF InstallTypeOK, Proceed
    <3>2. mutex' \in InstallRounds \cup {NoSkill} BY <1>3, <1>t DEF InstallTypeOK
    <3> QED BY <3>1, <3>2, <2>2, <1>1, <1>t DEF InstallTypeOK
  <2>4. KnowsItsSkill' BY <2>1, <1>1 DEF InstallInv, KnowsItsSkill
  <2>5. HoldsTheMutex'
    <3> SUFFICES ASSUME NEW k \in InstallRounds
                 PROVE  mutex' = k <=> installing'[k] \in AtWork
      BY DEF HoldsTheMutex
    <3>1. mutex = k <=> installing[k] \in AtWork BY DEF InstallInv, HoldsTheMutex
    <3>2. k # NoSkill BY <1>d, InstallAssumption
    <3>3. CASE k = i BY <3>3, <2>1, <1>3, <1>a
    <3>4. CASE k # i /\ i \in InstallRounds BY <3>1, <3>2, <3>4, <2>1, <1>1, <1>3, <1>d
    <3>5. CASE i \notin InstallRounds BY <3>1, <3>5, <2>1, <1>3, <1>d
    <3> QED BY <3>3, <3>4, <3>5
  <2>6. CommandIsAlone' BY <2>1, <1>1, <1>d DEF InstallInv, CommandIsAlone
  <2>7. FromRegistry' BY <2>1, <1>1 DEF InstallInv, FromRegistry
  <2>8. ASSUME ~unclean, NEW j \in Installers PROVE installing[j] \notin AtWork
    <3> SUFFICES ASSUME installing[j] \in AtWork PROVE FALSE OBVIOUS
    <3>1. CASE i \in SkillShells \/ j \in SkillShells
      <4>1. j = i BY <3>1, <2>8, <1>1, OneAtWork
      <4> QED BY <4>1, <1>1, <1>a
    <3>2. CASE i \in InstallRounds /\ j \in InstallRounds
      <4>1. mutex = j BY <3>2 DEF InstallInv, HoldsTheMutex
      <4> QED BY <4>1, <3>2, <1>1, InstallAssumption DEF Installers
    <3> QED BY <3>1, <3>2 DEF Installers
  <2>9. InWork'
    <3> SUFFICES ASSUME ~unclean', NEW j \in Installers PROVE DirAt(j)' BY DEF InWork
    <3>1. CASE j = i BY <3>1, <2>1, <2>2, <1>1 DEF DirAt
    <3>2. CASE j # i BY <3>2, <2>1, <2>8, <1>1, <1>a DEF DirAt
    <3> QED BY <3>1, <3>2
  <2>10. OthersAreGood'
    <3> SUFFICES ASSUME ~unclean', NEW s \in Skills PROVE GoodSkill(skillDir'[s])
      BY DEF OthersAreGood
    <3>1. GoodSkill(skillDir[s]) BY <2>8, <1>1 DEF InstallInv, OthersAreGood
    <3> QED BY <3>1, <2>2 DEF GoodSkill
  <2> QED BY <2>3, <2>4, <2>5, <2>6, <2>7, <2>9, <2>10 DEF InstallInv
<1> QED BY <1>2, <1>3 DEF CheckSkill

(* A directory that is written with what it holds is as it was. *)
LEMMA SameDir ==
  ASSUME NEW g \in [Skills -> SkillDirs \cup {NoSkill}], NEW x \in Skills
  PROVE  g = [g EXCEPT ![x] = g[x]]
OBVIOUS

(* Each step past the check; the steps come to an end with InstallDone.    *)
LEMMA WorkKeeps ==
  ASSUME InstallInv, NEW i \in Installers,
         FetchSkill(i) \/ ExtractSkill(i) \/ Judge(i) \/ WriteOrigin(i) \/ KillInstaller(i)
  PROVE  InstallInv'
<1> DEFINE dir == skillDir[slug[i]]
<1>t. /\ skillDir \in [Skills -> SkillDirs \cup {NoSkill}] /\ unclean \in BOOLEAN
      /\ installing[i] \in {"idle", "called"} \cup AtWork /\ by[i] \in Kinds
  BY DEF InstallInv, InstallTypeOK
<1>a. AtWork = {"fetch", "extract", "judge", "origin"} BY DEF AtWork
<1>b. installing[i] \in AtWork
  BY <1>t, <1>a DEF FetchSkill, ExtractSkill, Judge, WriteOrigin, KillInstaller
<1>s. slug[i] \in Skills BY <1>b, <1>a DEF InstallInv, KnowsItsSkill
<1>d. dir \in SkillDirs \cup {NoSkill} /\ skillDir = [skillDir EXCEPT ![slug[i]] = dir]
  BY <1>t, <1>s, SameDir
<1>p. Partial \in SkillDirs BY DEF Partial, SkillDirs, Kinds
<1>w. ~unclean => DirAt(i) BY DEF InstallInv, InWork
<1>r. installing[i] \in {"judge", "origin"} => by[i] # "github"
  BY DEF InstallInv, FromRegistry
<1>g. GoodSkill(NoSkill) BY DEF GoodSkill
<1>u. UNCHANGED <<shipped, slug, force, by>>
  BY DEF FetchSkill, ExtractSkill, Judge, WriteOrigin, KillInstaller, args
<1>n. NoSkill \notin SkillDirs BY InstallAssumption
<1>e. ASSUME NEW d \in SkillDirs \cup {NoSkill}, skillDir' = [skillDir EXCEPT ![slug[i]] = d],
             InstallDone(i), unclean' \in BOOLEAN, unclean => unclean',
             ~unclean' => GoodSkill(d)
      PROVE  InstallInv'
  <2>1. /\ installing' = [installing EXCEPT ![i] = "idle"]
        /\ mutex' = IF "idle" = "idle" /\ mutex = i THEN NoSkill ELSE mutex
    BY <1>e DEF InstallDone, Proceed
  <2> QED BY <2>1, <1>b, <1>e, <1>u, StepAtWork
<1>c. ASSUME NEW to \in AtWork, NEW d \in SkillDirs \cup {NoSkill},
             skillDir' = [skillDir EXCEPT ![slug[i]] = d], Proceed(i, to),
             UNCHANGED <<mutex, unclean>>,
             to \in {"judge", "origin"} => by[i] # "github",
             ~unclean => /\ to = "fetch" => d = NoSkill
                         /\ to = "extract" => d = Partial
                         /\ to \in {"judge", "origin"} => d # NoSkill /\ d.whole
                         /\ to = "origin" => d.passed
      PROVE  InstallInv'
  <2>1. to # "idle" /\ to \in AtWork \cup {"idle"} BY <1>c, <1>a
  <2>2. installing' = [installing EXCEPT ![i] = to] /\ unclean' \in BOOLEAN
    BY <1>c, <1>t DEF Proceed
  <2> QED BY <2>1, <2>2, <1>b, <1>c, <1>u, StepAtWork
<1> HIDE DEF dir
<1>1. CASE FetchSkill(i)
  <2>1. installing[i] = "fetch" /\ unclean' = unclean BY <1>1 DEF FetchSkill
  <2>2. ~unclean => dir = NoSkill BY <2>1, <1>w DEF DirAt, dir
  <2>3. CASE InstallDone(i) /\ by[i] = "github" /\ skillDir' = skillDir
    BY <2>1, <2>2, <2>3, <1>d, <1>e, <1>g, <1>t
  <2>4. CASE InstallDone(i) /\ skillDir' = [skillDir EXCEPT ![slug[i]] = NoSkill]
    BY <2>1, <2>4, <1>e, <1>g, <1>t
  <2>5. CASE /\ skillDir' = [skillDir EXCEPT ![slug[i]] = IF @ = NoSkill THEN Partial ELSE @]
             /\ Proceed(i, "extract") /\ UNCHANGED mutex
    <3>1. skillDir' = [skillDir EXCEPT ![slug[i]] = IF dir = NoSkill THEN Partial ELSE dir]
      BY <2>5 DEF dir
    <3> QED BY <3>1, <2>1, <2>2, <2>5, <1>a, <1>c, <1>d, <1>p
  <2> QED BY <1>1, <2>3, <2>4, <2>5 DEF FetchSkill
<1>2. CASE ExtractSkill(i)
  <2>1. installing[i] = "extract" BY <1>2 DEF ExtractSkill
  <2>2. ~unclean => dir = Partial BY <2>1, <1>w DEF DirAt, dir
  <2>3. CASE /\ by[i] # "github" /\ InstallDone(i) /\ UNCHANGED unclean
             /\ skillDir' = [skillDir EXCEPT ![slug[i]] = NoSkill]
    BY <2>3, <1>e, <1>g, <1>t
  <2>4. CASE by[i] = "github" /\ InstallDone(i) /\ unclean' = TRUE /\ UNCHANGED skillDir
    BY <2>4, <1>d, <1>e
  <2>5. ASSUME NEW valid \in BOOLEAN, UNCHANGED unclean,
               skillDir' = [skillDir EXCEPT ![slug[i]] = [Partial EXCEPT
                       !.whole = (@ \/ skillDir[slug[i]] = Partial \/ skillDir[slug[i]] = NoSkill),
                       !.valid = valid, !.of = by[i]]],
               IF by[i] = "github" THEN InstallDone(i) ELSE Proceed(i, "judge") /\ UNCHANGED mutex
        PROVE  InstallInv'
    <3> DEFINE d == [Partial EXCEPT !.whole = (@ \/ dir = Partial \/ dir = NoSkill),
                                    !.valid = valid, !.of = by[i]]
    <3>1. skillDir' = [skillDir EXCEPT ![slug[i]] = d] BY <2>5 DEF dir
    <3>2. d \in SkillDirs /\ d.of = by[i] /\ d.whole = (FALSE \/ dir = Partial \/ dir = NoSkill)
      BY <1>t DEF SkillDirs, Partial
    <3> HIDE DEF d
    <3>3. ~unclean => d.whole BY <2>2, <3>2
    <3>4. CASE by[i] = "github"
      BY <2>5, <3>1, <3>2, <3>3, <3>4, <1>e, <1>t DEF GoodSkill
    <3>5. CASE by[i] # "github"
      BY <2>5, <3>1, <3>2, <3>3, <3>5, <1>a, <1>c, <1>n
    <3> QED BY <3>4, <3>5
  <2> QED BY <1>2, <2>3, <2>4, <2>5 DEF ExtractSkill
<1>3. CASE Judge(i)
  <2>1. installing[i] = "judge" /\ unclean' = unclean BY <1>3 DEF Judge
  <2>2. ~unclean => dir # NoSkill /\ dir.whole BY <2>1, <1>w DEF DirAt, dir
  <2>3. CASE InstallDone(i) /\ skillDir' = [skillDir EXCEPT ![slug[i]] = NoSkill]
    BY <2>1, <2>3, <1>e, <1>g, <1>t
  <2>4. CASE /\ skillDir' = IF skillDir[slug[i]] = NoSkill THEN skillDir
                            ELSE [skillDir EXCEPT ![slug[i]].passed = TRUE]
             /\ IF i \in InstallRounds THEN Proceed(i, "origin") /\ UNCHANGED mutex
                ELSE InstallDone(i)
    <3> DEFINE d == IF dir = NoSkill THEN dir ELSE [dir EXCEPT !.passed = TRUE]
    <3>1. skillDir' = [skillDir EXCEPT ![slug[i]] = d] BY <2>4, <1>d DEF dir
    <3>2. d \in SkillDirs \cup {NoSkill} BY <1>d DEF SkillDirs
    <3>3. ~unclean => d # NoSkill /\ d.whole /\ d.passed
      BY <2>2, <1>d, <1>n DEF SkillDirs
    <3> HIDE DEF d
    <3>4. by[i] # "github" BY <2>1, <1>r
    <3>5. CASE i \in InstallRounds
      BY <2>1, <2>4, <3>1, <3>2, <3>3, <3>4, <3>5, <1>a, <1>c
    <3>6. CASE i \notin InstallRounds
      BY <2>1, <2>4, <3>1, <3>2, <3>3, <3>6, <1>e, <1>t DEF GoodSkill
    <3> QED BY <3>5, <3>6
  <2> QED BY <1>3, <2>3, <2>4 DEF Judge
<1>4. CASE WriteOrigin(i)
  <2>1. installing[i] = "origin" /\ unclean' = unclean /\ InstallDone(i)
    BY <1>4 DEF WriteOrigin
  <2>2. ~unclean => dir # NoSkill /\ dir.whole /\ dir.passed
    BY <2>1, <1>w DEF DirAt, dir
  <2>3. PICK ok \in BOOLEAN : skillDir' = IF skillDir[slug[i]] = NoSkill THEN skillDir
                                          ELSE [skillDir EXCEPT ![slug[i]].origin = ok]
    BY <1>4 DEF WriteOrigin
  <2> DEFINE d == IF dir = NoSkill THEN dir ELSE [dir EXCEPT !.origin = ok]
  <2>4. skillDir' = [skillDir EXCEPT ![slug[i]] = d] BY <2>3, <1>d DEF dir
  <2>5. d \in SkillDirs \cup {NoSkill} BY <1>d DEF SkillDirs
  <2>6. ~unclean => d.whole /\ d.passed BY <2>2, <1>d, <1>n DEF SkillDirs
  <2> HIDE DEF d
  <2> QED BY <2>1, <2>4, <2>5, <2>6, <1>e, <1>t DEF GoodSkill
<1>5. CASE KillInstaller(i)
  <2>1. InstallDone(i) /\ unclean' = TRUE /\ skillDir' = skillDir BY <1>5 DEF KillInstaller
  <2> QED BY <2>1, <1>d, <1>e
<1> QED BY <1>1, <1>2, <1>3, <1>4, <1>5

(* skills remove: no installer is past its check, unless they overlap. *)
LEMMA UninstallKeeps ==
  ASSUME InstallInv, NEW i \in Installers, NEW s \in Skills, Uninstall(i, s)
  PROVE  InstallInv'
<1>1. /\ installing[i] = "idle" /\ skillDir' = [skillDir EXCEPT ![s] = NoSkill]
      /\ unclean' = (unclean \/ \E j \in Installers \ {i} : installing[j] # "idle")
      /\ UNCHANGED <<shipped, mutex, installing, slug, force, by>>
  BY DEF Uninstall, args
<1>t. InstallTypeOK BY DEF InstallInv
<1>2. /\ skillDir' \in [Skills -> SkillDirs \cup {NoSkill}] /\ skillDir'[s] = NoSkill
      /\ \A x \in Skills \ {s} : skillDir'[x] = skillDir[x]
  BY <1>1, <1>t DEF InstallTypeOK
<1>3. InstallTypeOK' BY <1>1, <1>2, <1>t DEF InstallTypeOK
<1>4. KnowsItsSkill' /\ HoldsTheMutex' /\ FromRegistry'
  BY <1>1 DEF InstallInv, KnowsItsSkill, HoldsTheMutex, FromRegistry
<1>5. CommandIsAlone' BY <1>1 DEF InstallInv, CommandIsAlone
<1>6. ~unclean' => \A j \in Installers : installing[j] = "idle" BY <1>1
<1>7. InWork' BY <1>1, <1>6 DEF InWork, DirAt
<1>8. OthersAreGood'
  <2> SUFFICES ASSUME ~unclean', NEW x \in Skills PROVE GoodSkill(skillDir'[x])
    BY DEF OthersAreGood
  <2>1. GoodSkill(skillDir[x]) BY <1>1, <1>6 DEF InstallInv, OthersAreGood, AtWork
  <2> QED BY <2>1, <1>2 DEF GoodSkill
<1> QED BY <1>3, <1>4, <1>5, <1>7, <1>8 DEF InstallInv

LEMMA InstallInductive ==
  ASSUME InstallInv, [InstallNext]_installVars PROVE InstallInv'
<1>1. ASSUME NEW i \in Installers, CheckSkill(i) PROVE InstallInv' BY <1>1, CheckKeeps
<1>2. ASSUME NEW i \in Installers,
             FetchSkill(i) \/ ExtractSkill(i) \/ Judge(i) \/ WriteOrigin(i) \/ KillInstaller(i)
      PROVE  InstallInv'
  BY <1>2, WorkKeeps
<1>3. ASSUME NEW i \in Installers, NEW s \in Skills,
             InstallFromRegistry(i, s) \/ InstallFromGitHub(i, s)
      PROVE  InstallInv'
  <2>1. i \notin InstallRounds
    BY <1>3, InstallAssumption DEF InstallFromRegistry, InstallFromGitHub
  <2>2. "registry" \in Kinds /\ "github" \in Kinds BY DEF Kinds
  <2> QED BY <1>3, <2>1, <2>2, BegunKeeps DEF InstallFromRegistry, InstallFromGitHub
<1>4. ASSUME NEW i \in Installers, NEW s \in Skills, NEW f \in BOOLEAN, InstallSkill(i, s, f)
      PROVE  InstallInv'
  <2>1. i \in InstallRounds /\ "tool" \in Kinds BY <1>4 DEF InstallSkill, Kinds
  <2> QED BY <1>4, <2>1, BegunKeeps DEF InstallSkill
<1>5. ASSUME NEW i \in Installers, NEW s \in Skills, Uninstall(i, s) PROVE InstallInv'
  BY <1>5, UninstallKeeps
<1>6. CASE UNCHANGED installVars
  BY <1>6 DEF installVars, InstallInv, InstallTypeOK, KnowsItsSkill, HoldsTheMutex,
     CommandIsAlone, FromRegistry, InWork, DirAt, OthersAreGood
<1> QED BY <1>1, <1>2, <1>3, <1>4, <1>5, <1>6 DEF InstallNext

LEMMA InstallInitially == InstallInit => InstallInv
<1> SUFFICES ASSUME InstallInit PROVE InstallInv OBVIOUS
<1>1. InstallTypeOK BY DEF InstallInit, InstallTypeOK, Kinds
<1>2. \A i \in Installers : installing[i] = "idle" BY DEF InstallInit
<1>3. HoldsTheMutex
  BY <1>2, InstallAssumption DEF HoldsTheMutex, InstallInit, AtWork, Installers
<1>4. OthersAreGood BY DEF OthersAreGood, InstallInit, GoodSkill
<1> QED BY <1>1, <1>2, <1>3, <1>4
        DEF InstallInv, KnowsItsSkill, CommandIsAlone, FromRegistry, InWork, DirAt

(* What the prompt lists of a name loads from where it is listed, if the   *)
(* workspace's skill of that name is valid.                                *)
LEMMA ListedLoads ==
  ASSUME InstallTypeOK, NEW l \in ListSkills, HasFile(l[1]) => skillDir[l[1]].valid
  PROVE  LoadSkill(l[1]) = l[2]
BY DEF ListSkills, LoadSkill, HasFile, InstallTypeOK

(* Between installations every skill is whole and judged, for any skills,  *)
(* rounds and commands (skills_install.go:79-188, loader.go:72-210).       *)
THEOREM InstalledSkillsAreWhole == InstallSpec => []InstalledIsWhole
<1>1. InstallInv => InstalledIsWhole
  <2> SUFFICES ASSUME InstallInv, ~unclean, \A i \in Installers : installing[i] = "idle"
               PROVE  /\ mutex = NoSkill
                      /\ \A s \in Skills : GoodSkill(skillDir[s])
                      /\ \A l \in ListSkills : (HasFile(l[1]) => skillDir[l[1]].valid)
                                                 => LoadSkill(l[1]) = l[2]
    BY DEF InstalledIsWhole, GoodSkill
  <2>1. "idle" \notin AtWork BY DEF AtWork
  <2>2. mutex = NoSkill
    BY <2>1 DEF InstallInv, InstallTypeOK, HoldsTheMutex, Installers
  <2>3. \A s \in Skills : GoodSkill(skillDir[s]) BY <2>1 DEF InstallInv, OthersAreGood
  <2> QED BY <2>2, <2>3, ListedLoads DEF InstallInv
<1>2. InstallInv /\ [InstallNext]_installVars => InstallInv' BY InstallInductive
<1>3. InstallInit => InstallInv BY InstallInitially
<1> QED BY <1>1, <1>2, <1>3, PTL DEF InstallSpec

-----------------------------------------------------------------------------
(* The last channel.  A save puts what the agent's Manager has into the    *)
(* file, by way of the temporary one; only a user's round leaves the       *)
(* user's channel there; and a process that runs has taken over what an    *)
(* earlier version had saved.                                              *)
Channels == Chats \cup {NoChannel}
UserSaves == {"user", "user renames"}
BeatSaves == {"beat", "beat renames"}

StateTypeOK ==
  /\ stateFile \in Channels /\ tempFile \in Channels /\ oldFile \in Channels
  /\ mem \in [Managers -> Channels] /\ user \in Channels
  /\ saving \in {"nobody"} \cup UserSaves \cup BeatSaves
  /\ up \in BOOLEAN /\ outdated \in BOOLEAN

SavesAChat == saving # "nobody" => mem["agent"] # NoChannel
RenamesIt == saving \in {"user renames", "beat renames"} => tempFile = mem["agent"]
SavesTheUsers == saving \in UserSaves => ~outdated /\ mem["agent"] = user
BeatIsLater == saving \in BeatSaves => outdated
TookOver == up /\ stateFile = NoChannel => oldFile = NoChannel
Finds ==
  ~outdated /\ saving = "nobody" => user = IF up THEN stateFile ELSE Loaded(stateFile, oldFile)

NobodySaves == ~up => saving = "nobody"

StateInv == /\ StateTypeOK /\ SavesAChat /\ RenamesIt /\ SavesTheUsers /\ BeatIsLater
            /\ TookOver /\ Finds /\ NobodySaves

(* A beat that records no channel disturbs nothing. *)
LEMMA StateUntouched ==
  ASSUME StateInv, UNCHANGED <<stateFile, tempFile, oldFile, mem, saving, up, user, outdated>>
  PROVE  StateInv' /\ ChannelStays
<1>1. StateInv'
  BY DEF StateInv, StateTypeOK, SavesAChat, RenamesIt, SavesTheUsers, BeatIsLater, TookOver, Finds,
         NobodySaves, Loaded
<1>2. ChannelStays BY DEF StateInv, Finds, ChannelStays
<1> QED BY <1>1, <1>2

(* Every step keeps the invariant and does what the property says. *)
LEMMA StateInductive ==
  ASSUME StateInv, [HeartbeatNext]_heartbeatVars
  PROVE  StateInv' /\ [ChannelStays]_heartbeatVars
<1>t. /\ stateFile \in Channels /\ tempFile \in Channels /\ oldFile \in Channels
      /\ mem \in [Managers -> Channels] /\ user \in Channels
      /\ saving \in {"nobody"} \cup UserSaves \cup BeatSaves
      /\ up \in BOOLEAN /\ outdated \in BOOLEAN
  BY DEF StateInv, StateTypeOK
<1>i. SavesAChat /\ RenamesIt /\ SavesTheUsers /\ BeatIsLater /\ TookOver /\ Finds /\ NobodySaves
  BY DEF StateInv
<1>a. "agent" \in Managers /\ "heartbeat" \in Managers BY DEF Managers
<1>1. CASE Boot
  <2>1. /\ ~up /\ up' = TRUE /\ mem' = [m \in Managers |-> Loaded(stateFile, oldFile)]
        /\ stateFile' = Loaded(stateFile, oldFile)
        /\ UNCHANGED <<tempFile, oldFile, saving, user, outdated>>
    BY <1>1 DEF Boot
  <2>2. Loaded(stateFile, oldFile) \in Channels BY <1>t DEF Loaded
  <2>3. StateTypeOK' BY <2>1, <2>2, <1>t DEF StateTypeOK
  <2>4. SavesAChat' /\ RenamesIt' /\ SavesTheUsers' /\ BeatIsLater' /\ NobodySaves'
    BY <2>1, <1>i DEF NobodySaves, SavesAChat, RenamesIt, SavesTheUsers, BeatIsLater, UserSaves,
       BeatSaves
  <2>5. TookOver' BY <2>1 DEF TookOver, Loaded
  <2>6. Finds' BY <2>1, <1>i DEF Finds
  <2>7. ChannelStays
    BY <2>1, <2>6 DEF ChannelStays, Loaded, Finds
  <2> QED BY <2>3, <2>4, <2>5, <2>6, <2>7 DEF StateInv
<1>2. CASE ProcessDies
  <2>1. /\ up /\ up' = FALSE /\ saving' = "nobody"
        /\ outdated' = (outdated \/ saving # "nobody")
        /\ UNCHANGED <<stateFile, tempFile, oldFile, mem, user>>
    BY <1>2 DEF ProcessDies
  <2>2. StateTypeOK' BY <2>1, <1>t DEF StateTypeOK
  <2>3. SavesAChat' /\ RenamesIt' /\ SavesTheUsers' /\ BeatIsLater'
    BY <2>1 DEF SavesAChat, RenamesIt, SavesTheUsers, BeatIsLater, UserSaves, BeatSaves
  <2>4. NobodySaves' /\ TookOver' /\ Finds' BY <2>1, <1>i DEF NobodySaves, TookOver, Finds, Loaded
  <2>5. ChannelStays BY <2>1 DEF ChannelStays
  <2> QED BY <2>2, <2>3, <2>4, <2>5 DEF StateInv
<1>3. ASSUME NEW c \in Chats, UserRound(c) PROVE StateInv' /\ ChannelStays
  <2>1. /\ up /\ saving = "nobody" /\ saving' = "user" /\ mem' = [mem EXCEPT !["agent"] = c]
        /\ user' = c /\ outdated' = FALSE /\ UNCHANGED <<stateFile, tempFile, oldFile, up>>
    BY <1>3 DEF UserRound, SetLastChannel
  <2>2. c \in Channels /\ c # NoChannel BY NoChannelAssumption DEF Channels
  <2>3. mem'["agent"] = c BY <2>1, <1>a, <1>t
  <2>4. StateTypeOK' BY <2>1, <2>2, <1>t DEF StateTypeOK, UserSaves
  <2>5. SavesAChat' /\ RenamesIt' /\ SavesTheUsers' /\ BeatIsLater'
    BY <2>1, <2>2, <2>3 DEF SavesAChat, RenamesIt, SavesTheUsers, BeatIsLater, BeatSaves
  <2>6. NobodySaves' /\ TookOver' /\ Finds' /\ ChannelStays
    BY <2>1, <1>i DEF NobodySaves, TookOver, Finds, ChannelStays
  <2> QED BY <2>4, <2>5, <2>6 DEF StateInv
<1>4. CASE WriteState
  <2>1. /\ up /\ saving \in {"user", "beat"}
        /\ saving' = IF saving = "user" THEN "user renames" ELSE "beat renames"
        /\ tempFile' = mem["agent"] /\ UNCHANGED <<stateFile, oldFile, mem, up, user, outdated>>
    BY <1>4 DEF WriteState, WriteStateTemp
  <2>2. StateTypeOK' BY <2>1, <1>a, <1>t DEF StateTypeOK, UserSaves, BeatSaves
  <2>3. SavesAChat' /\ RenamesIt' /\ SavesTheUsers' /\ BeatIsLater'
    BY <2>1, <1>i DEF SavesAChat, RenamesIt, SavesTheUsers, BeatIsLater, UserSaves, BeatSaves
  <2>4. NobodySaves' /\ TookOver' /\ Finds' /\ ChannelStays
    BY <2>1, <1>i DEF NobodySaves, TookOver, Finds, ChannelStays
  <2> QED BY <2>2, <2>3, <2>4 DEF StateInv
<1>5. CASE RenameState
  <2>1. /\ up /\ saving \in {"user renames", "beat renames"} /\ saving' = "nobody"
        /\ stateFile' = tempFile /\ tempFile' = NoChannel
        /\ UNCHANGED <<oldFile, mem, up, user, outdated>>
    BY <1>5 DEF RenameState
  <2>2. tempFile = mem["agent"] /\ mem["agent"] # NoChannel
    BY <2>1, <1>i DEF SavesAChat, RenamesIt
  <2>3. ~outdated => mem["agent"] = user
    BY <2>1, <1>i DEF SavesTheUsers, BeatIsLater, UserSaves, BeatSaves
  <2>4. StateTypeOK' BY <2>1, <1>t DEF StateTypeOK, Channels
  <2>5. SavesAChat' /\ RenamesIt' /\ SavesTheUsers' /\ BeatIsLater'
    BY <2>1 DEF SavesAChat, RenamesIt, SavesTheUsers, BeatIsLater, UserSaves, BeatSaves
  <2>6. NobodySaves' /\ TookOver' /\ Finds' /\ ChannelStays
    BY <2>1, <2>2, <2>3 DEF NobodySaves, TookOver, Finds, ChannelStays
  <2> QED BY <2>4, <2>5, <2>6 DEF StateInv
<1>6. CASE StateSaveFails
  <2>1. /\ saving' = "nobody" /\ outdated' = TRUE
        /\ UNCHANGED <<stateFile, tempFile, oldFile, mem, up, user>>
    BY <1>6 DEF StateSaveFails, beatVars
  <2>2. StateTypeOK' BY <2>1, <1>t DEF StateTypeOK
  <2>3. SavesAChat' /\ RenamesIt' /\ SavesTheUsers' /\ BeatIsLater'
    BY <2>1 DEF SavesAChat, RenamesIt, SavesTheUsers, BeatIsLater, UserSaves, BeatSaves
  <2>4. NobodySaves' /\ TookOver' /\ Finds' /\ ChannelStays
    BY <2>1, <1>i DEF NobodySaves, TookOver, Finds, ChannelStays
  <2> QED BY <2>2, <2>3, <2>4 DEF StateInv
<1>7. CASE DayEnds
  BY <1>7, StateUntouched DEF DayEnds, stateVars
<1>8. ASSUME NEW t \in Timers, Beat(t) PROVE StateInv' /\ ChannelStays
  <2>1. up /\ UNCHANGED <<stateFile, tempFile, oldFile, up, user>> BY <1>8 DEF Beat, BeatAt
  <2>2. CASE mem["heartbeat"] = NoChannel
    BY <1>8, <2>1, <2>2, StateUntouched DEF Beat
  <2>3. CASE mem["heartbeat"] # NoChannel
    <3>1. /\ saving = "nobody" /\ saving' = "beat" /\ outdated' = TRUE
          /\ mem' = [mem EXCEPT !["agent"] = mem["heartbeat"]]
      BY <1>8, <2>3 DEF Beat, SetLastChannel
    <3>2. mem'["agent"] = mem["heartbeat"] /\ mem["heartbeat"] \in Channels
      BY <3>1, <1>a, <1>t
    <3>3. StateTypeOK' BY <2>1, <3>1, <3>2, <1>t DEF StateTypeOK, BeatSaves
    <3>4. SavesAChat' /\ RenamesIt' /\ SavesTheUsers' /\ BeatIsLater'
      BY <2>3, <3>1, <3>2 DEF SavesAChat, RenamesIt, SavesTheUsers, BeatIsLater, UserSaves
    <3>5. NobodySaves' /\ TookOver' /\ Finds' /\ ChannelStays
      BY <2>1, <3>1, <1>i DEF NobodySaves, TookOver, Finds, ChannelStays
    <3> QED BY <3>3, <3>4, <3>5 DEF StateInv
  <2> QED BY <2>2, <2>3
<1>9. ASSUME NEW t \in Timers,
             BeginBeat(t) \/ RebuildAtNight(t) \/ Stamped(t) \/ NoPrompt(t) \/ EndBeat(t)
      PROVE  StateInv' /\ ChannelStays
  <2>1. UNCHANGED <<stateFile, tempFile, oldFile, mem, saving, up, user, outdated>>
    BY <1>9 DEF BeginBeat, RebuildAtNight, Stamped, NoPrompt, EndBeat, stateVars
  <2> QED BY <2>1, StateUntouched
<1>10. CASE UNCHANGED heartbeatVars
  <2>1. UNCHANGED <<stateFile, tempFile, oldFile, mem, saving, up, user, outdated>>
    BY <1>10 DEF heartbeatVars, stateVars
  <2> QED BY <2>1, StateUntouched
<1> QED
  BY <1>1, <1>2, <1>3, <1>4, <1>5, <1>6, <1>7, <1>8, <1>9, <1>10 DEF HeartbeatNext

(* When the process is started, the last user's channel is in a file. *)
LEMMA StateInitially == HeartbeatInit => StateInv
  BY DEF HeartbeatInit, StateInv, StateTypeOK, SavesAChat, RenamesIt, SavesTheUsers, BeatIsLater,
         TookOver, Finds, NobodySaves, Loaded, Channels, Managers, UserSaves, BeatSaves

(* The user's last channel survives every crash, for any chats, rounds,    *)
(* heartbeats and failures (state.go:75-90, 131-155).                      *)
THEOREM ChannelSurvives == HeartbeatSpec => LastChannelSurvives
<1>1. StateInv /\ [HeartbeatNext]_heartbeatVars => StateInv' BY StateInductive
<1>2. StateInv /\ [HeartbeatNext]_heartbeatVars => [ChannelStays]_heartbeatVars
  BY StateInductive
<1> QED BY <1>1, <1>2, StateInitially, PTL DEF HeartbeatSpec, LastChannelSurvives

-----------------------------------------------------------------------------
(* The migration.  What is owed of a file the plan has yet to come to is   *)
(* in its place, and the plan will not simply copy over it; what is owed   *)
(* of the file that is being copied is in its .bak; and a plan names no    *)
(* file twice, so that a .bak, once made, is left alone.                   *)
PlannedActions == [file : FileNames, kind : {"skip", "backup", "copy"}]

PlanOK ==
  /\ plan \in Seq(PlannedActions)
  /\ \A i, j \in 1..Len(plan) : plan[i].file = plan[j].file => i = j
  /\ step \in {"backup", "copy"} => plan # <<>>
FilesOK == DOMAIN dst = FileNames /\ DOMAIN bak = FileNames /\ DOMAIN owed = FileNames
OwedInPlace ==
  \A i \in 1..Len(plan) : LET f == plan[i].file IN
    owed[f] # NoFile /\ ~(step = "copy" /\ i = 1) =>
      owed[f] = dst[f] /\ plan[i].kind # "copy"
OwedInBackup ==
  step = "copy" /\ owed[plan[1].file] # NoFile => owed[plan[1].file] = bak[plan[1].file]

MigrationInv == PlanOK /\ FilesOK /\ OwedInPlace /\ OwedInBackup /\ BackedUp

LEMMA PlanFiles == PlanOK => \A i \in 1..Len(plan) : plan[i].file \in FileNames
<1> SUFFICES ASSUME PlanOK, NEW i \in 1..Len(plan) PROVE plan[i].file \in FileNames
  OBVIOUS
<1>1. plan[i] \in PlannedActions BY DEF PlanOK
<1> QED BY <1>1 DEF PlannedActions

(* The action at the head of a plan, and the plan without it. *)
LEMMA PlanHead ==
  ASSUME PlanOK, plan # <<>>
  PROVE  /\ Head(plan) = plan[1] /\ 1 \in 1..Len(plan) /\ plan[1] \in PlannedActions
         /\ plan[1].file \in FileNames
         /\ Tail(plan) \in Seq(PlannedActions)
         /\ \A i \in 1..Len(Tail(plan)) : i + 1 \in 1..Len(plan) /\ i + 1 # 1
                                            /\ Tail(plan)[i] = plan[i + 1]
         /\ \A i, j \in 1..Len(Tail(plan)) :
              Tail(plan)[i].file = Tail(plan)[j].file => i = j
         /\ \A i \in 1..Len(Tail(plan)) : Tail(plan)[i].file # plan[1].file
<1>1. plan \in Seq(PlannedActions) BY DEF PlanOK
<1>2. Len(plan) \in Nat /\ Len(plan) >= 1 BY <1>1, EmptySeq
<1>3. Head(plan) = plan[1] /\ plan[1] \in PlannedActions BY <1>1, <1>2
<1>4. /\ Tail(plan) \in Seq(PlannedActions) /\ Len(Tail(plan)) = Len(plan) - 1
      /\ \A i \in 1..Len(Tail(plan)) : Tail(plan)[i] = plan[i + 1]
  BY <1>1, HeadTailProperties
<1>5. \A i \in 1..Len(Tail(plan)) : i + 1 \in 1..Len(plan) /\ i + 1 # 1 BY <1>2, <1>4
<1>6. \A i, j \in 1..Len(Tail(plan)) : Tail(plan)[i].file = Tail(plan)[j].file => i = j
  <2> SUFFICES ASSUME NEW i \in 1..Len(Tail(plan)), NEW j \in 1..Len(Tail(plan)),
                      Tail(plan)[i].file = Tail(plan)[j].file
               PROVE  i = j
    OBVIOUS
  <2>1. plan[i + 1].file = plan[j + 1].file BY <1>4
  <2>2. i + 1 = j + 1 BY <2>1, <1>5 DEF PlanOK
  <2> QED BY <2>2
<1>7. \A i \in 1..Len(Tail(plan)) : Tail(plan)[i].file # plan[1].file
  BY <1>2, <1>4, <1>5 DEF PlanOK
<1>8. plan[1].file \in FileNames BY <1>3 DEF PlannedActions
<1> QED BY <1>2, <1>3, <1>4, <1>5, <1>6, <1>7, <1>8

(* An action that ends leaves what is owed where it is. *)
LEMMA ActionEnds ==
  ASSUME MigrationInv, plan # <<>>, plan' = Tail(plan), step' = "next",
         UNCHANGED <<bak, owed>>, DOMAIN dst' = FileNames,
         \A f \in FileNames \ {plan[1].file} : dst'[f] = dst[f],
         owed[plan[1].file] # NoFile => owed[plan[1].file] \in {dst'[plan[1].file], bak[plan[1].file]}
  PROVE  MigrationInv'
<1>h. PlanOK BY DEF MigrationInv
<1>1. PlanOK' BY <1>h, PlanHead DEF PlanOK
<1>2. FilesOK' BY DEF MigrationInv, FilesOK
<1>3. OwedInPlace'
  <2> SUFFICES ASSUME NEW i \in 1..Len(plan'), owed[plan'[i].file] # NoFile
               PROVE  /\ owed[plan'[i].file] = dst'[plan'[i].file]
                      /\ plan'[i].kind # "copy"
    BY DEF OwedInPlace
  <2>1. i + 1 \in 1..Len(plan) /\ i + 1 # 1 /\ plan'[i] = plan[i + 1]
        /\ plan'[i].file # plan[1].file
    BY <1>h, PlanHead
  <2>2. plan[i + 1] \in PlannedActions BY <2>1, <1>h DEF PlanOK
  <2>3. plan[i + 1].file \in FileNames BY <2>2 DEF PlannedActions
  <2>4. owed[plan[i + 1].file] = dst[plan[i + 1].file] /\ plan[i + 1].kind # "copy"
    BY <2>1 DEF MigrationInv, OwedInPlace
  <2> QED BY <2>1, <2>3, <2>4
<1>4. OwedInBackup' BY DEF OwedInBackup
<1>5. BackedUp' BY DEF MigrationInv, BackedUp
<1> QED BY <1>1, <1>2, <1>3, <1>4, <1>5 DEF MigrationInv

LEMMA UserWritesKeeps ==
  ASSUME MigrationInv, NEW f \in FileNames, UserWrites(f) PROVE MigrationInv'
<1>1. /\ step \in {"copy", "backup"} => Head(plan).file # f
      /\ dst' = [dst EXCEPT ![f] = Mine(wrote)]
      /\ owed' = [owed EXCEPT ![f] = IF owed[f] = dst[f] THEN NoFile ELSE owed[f]]
      /\ UNCHANGED <<src, bak, step, plan, runs>>
  BY DEF UserWrites
<1>2. /\ owed'[f] = IF owed[f] = dst[f] THEN NoFile ELSE owed[f]
      /\ \A g \in FileNames \ {f} : owed'[g] = owed[g] /\ dst'[g] = dst[g]
  BY <1>1 DEF MigrationInv, FilesOK
<1>3. PlanOK' /\ FilesOK' BY <1>1 DEF MigrationInv, PlanOK, FilesOK
<1>h. PlanOK BY DEF MigrationInv
<1>4. step = "copy" => plan # <<>> /\ plan[1].file # f /\ plan[1].file \in FileNames
  BY <1>1, <1>h, PlanHead DEF PlanOK
<1>5. OwedInPlace'
  <2> SUFFICES ASSUME NEW i \in 1..Len(plan), owed'[plan[i].file] # NoFile,
                      ~(step = "copy" /\ i = 1)
               PROVE  owed'[plan[i].file] = dst'[plan[i].file] /\ plan[i].kind # "copy"
    BY <1>1 DEF OwedInPlace
  <2>1. plan[i] \in PlannedActions BY <1>h DEF PlanOK
  <2>2. plan[i].file \in FileNames BY <2>1 DEF PlannedActions
  <2>3. owed[plan[i].file] # NoFile BY <2>2, <1>2
  <2>4. owed[plan[i].file] = dst[plan[i].file] /\ plan[i].kind # "copy"
    BY <2>3 DEF MigrationInv, OwedInPlace
  <2> QED BY <2>2, <2>4, <1>2
<1>6. OwedInBackup' BY <1>1, <1>2, <1>4 DEF MigrationInv, OwedInBackup
<1>7. BackedUp' BY <1>1, <1>2 DEF MigrationInv, BackedUp
<1> QED BY <1>3, <1>5, <1>6, <1>7 DEF MigrationInv

LEMMA RunKeeps ==
  ASSUME MigrationInv, NEW forced \in BOOLEAN, RunMigration(forced)
  PROVE  MigrationInv'
<1>1. /\ plan' = [i \in DOMAIN WorkspaceFiles |->
                   [file |-> WorkspaceFiles[i], kind |-> Kind(WorkspaceFiles[i], forced)]]
      /\ owed' = [f \in FileNames |-> IF ~forced /\ Whole(dst[f]) THEN dst[f] ELSE NoFile]
      /\ step' = "asked" /\ UNCHANGED <<src, dst, bak>>
  BY DEF RunMigration
<1>2. Len(WorkspaceFiles) \in Nat /\ DOMAIN WorkspaceFiles = 1..Len(WorkspaceFiles)
  BY FilesAssumption
<1>3. \A i \in 1..Len(WorkspaceFiles) :
        [file |-> WorkspaceFiles[i], kind |-> Kind(WorkspaceFiles[i], forced)] \in PlannedActions
  BY FilesAssumption DEF PlannedActions, Kind
<1>4. plan' \in [1..Len(WorkspaceFiles) -> PlannedActions] BY <1>1, <1>2, <1>3
<1>5. plan' \in Seq(PlannedActions) /\ Len(plan') = Len(WorkspaceFiles) BY <1>2, <1>4
<1>6. \A i \in 1..Len(plan') : /\ plan'[i].file = WorkspaceFiles[i]
                               /\ plan'[i].kind = Kind(WorkspaceFiles[i], forced)
  BY <1>1, <1>2, <1>5
<1>7. PlanOK' BY <1>1, <1>2, <1>5, <1>6, FilesAssumption DEF PlanOK
<1>8. FilesOK' BY <1>1 DEF MigrationInv, FilesOK
<1>9. OwedInPlace'
  <2> SUFFICES ASSUME NEW i \in 1..Len(plan'), owed'[plan'[i].file] # NoFile
               PROVE  owed'[plan'[i].file] = dst[plan'[i].file] /\ plan'[i].kind # "copy"
    BY <1>1 DEF OwedInPlace
  <2>1. plan'[i].file \in FileNames BY <1>2, <1>5, <1>6, FilesAssumption
  <2>2. ~forced /\ dst[plan'[i].file] # NoFile /\ owed'[plan'[i].file] = dst[plan'[i].file]
    BY <2>1, <1>1 DEF Whole
  <2> QED BY <2>2, <1>6 DEF Kind
<1>10. OwedInBackup' BY <1>1 DEF OwedInBackup
<1>11. BackedUp' BY <1>1 DEF BackedUp
<1> QED BY <1>7, <1>8, <1>9, <1>10, <1>11 DEF MigrationInv

LEMMA BackupKeeps ==
  ASSUME MigrationInv, BeginBackup \/ Backup PROVE MigrationInv'
<1>h. PlanOK /\ plan # <<>> /\ UNCHANGED <<plan, owed>>
  BY DEF MigrationInv, PlanOK, BeginBackup, Backup
<1>f. /\ Head(plan) = plan[1] /\ plan[1].file \in FileNames /\ 1 \in 1..Len(plan)
      /\ \A i \in 1..Len(plan) : plan[i].file = plan[1].file => i = 1
  BY <1>h, PlanHead DEF PlanOK
<1>p. \A i \in 1..Len(plan) : plan[i].file \in FileNames
  BY <1>h, PlanFiles
<1>1. CASE BeginBackup
  <2>1. /\ step = "next" /\ step' = "backup" /\ dst' = dst
        /\ bak' = [bak EXCEPT ![plan[1].file] = HalfWritten]
    BY <1>1, <1>f DEF BeginBackup
  <2>2. \A f \in FileNames \ {plan[1].file} : bak'[f] = bak[f] BY <2>1 DEF MigrationInv, FilesOK
  <2>3. PlanOK' BY <2>1, <1>h DEF PlanOK
  <2>4. FilesOK' BY <2>1, <1>h DEF MigrationInv, FilesOK
  <2>5. OwedInPlace' BY <2>1, <1>h DEF MigrationInv, OwedInPlace
  <2>6. OwedInBackup' BY <2>1 DEF OwedInBackup
  <2>7. owed[plan[1].file] # NoFile => owed[plan[1].file] = dst[plan[1].file]
    BY <2>1, <1>f DEF MigrationInv, OwedInPlace
  <2>8. BackedUp' BY <2>1, <2>2, <2>7, <1>h DEF MigrationInv, BackedUp
  <2> QED BY <2>3, <2>4, <2>5, <2>6, <2>8 DEF MigrationInv
<1>2. CASE Backup
  <2>1. /\ step = "backup" /\ step' = "copy"
        /\ bak' = [bak EXCEPT ![plan[1].file] = dst[plan[1].file]]
        /\ dst' = [dst EXCEPT ![plan[1].file] = HalfWritten]
    BY <1>2, <1>f DEF Backup
  <2>2. /\ bak'[plan[1].file] = dst[plan[1].file]
        /\ \A f \in FileNames \ {plan[1].file} : bak'[f] = bak[f] /\ dst'[f] = dst[f]
    BY <2>1, <1>f DEF MigrationInv, FilesOK
  <2>3. PlanOK' BY <2>1, <1>h DEF PlanOK
  <2>4. FilesOK' BY <2>1, <1>h DEF MigrationInv, FilesOK
  <2>5. OwedInPlace'
    <3> SUFFICES ASSUME NEW i \in 1..Len(plan), i # 1, owed[plan[i].file] # NoFile
                 PROVE  owed[plan[i].file] = dst'[plan[i].file] /\ plan[i].kind # "copy"
      BY <2>1, <1>h DEF OwedInPlace
    <3>1. plan[i].file \in FileNames \ {plan[1].file} BY <1>f, <1>p
    <3> QED BY <3>1, <2>2 DEF MigrationInv, OwedInPlace
  <2>6. owed[plan[1].file] # NoFile => owed[plan[1].file] = dst[plan[1].file]
    BY <2>1, <1>f DEF MigrationInv, OwedInPlace
  <2>7. OwedInBackup' BY <2>2, <2>6, <1>h DEF OwedInBackup
  <2>8. BackedUp' BY <2>2, <2>6, <1>h DEF MigrationInv, BackedUp
  <2> QED BY <2>3, <2>4, <2>5, <2>7, <2>8 DEF MigrationInv
<1> QED BY <1>1, <1>2

LEMMA BeginCopyKeeps ==
  ASSUME MigrationInv, BeginCopy PROVE MigrationInv'
<1>h. PlanOK /\ plan # <<>> BY DEF MigrationInv, BeginCopy
<1>f. /\ Head(plan) = plan[1] /\ plan[1].file \in FileNames /\ 1 \in 1..Len(plan)
      /\ \A i \in 1..Len(plan) : plan[i].file = plan[1].file => i = 1
  BY <1>h, PlanHead DEF PlanOK
<1>p. \A i \in 1..Len(plan) : plan[i].file \in FileNames
  BY <1>h, PlanFiles
<1>1. /\ step = "next" /\ plan[1].kind = "copy" /\ step' = "copy"
      /\ dst' = [dst EXCEPT ![plan[1].file] = HalfWritten]
      /\ UNCHANGED <<bak, plan, owed>>
  BY <1>f DEF BeginCopy
<1>2. \A f \in FileNames \ {plan[1].file} : dst'[f] = dst[f] BY <1>1 DEF MigrationInv, FilesOK
<1>3. owed[plan[1].file] = NoFile BY <1>1, <1>f DEF MigrationInv, OwedInPlace
<1>4. PlanOK' /\ FilesOK' BY <1>1, <1>h DEF MigrationInv, PlanOK, FilesOK
<1>5. OwedInPlace'
  <2> SUFFICES ASSUME NEW i \in 1..Len(plan), i # 1, owed[plan[i].file] # NoFile
               PROVE  owed[plan[i].file] = dst'[plan[i].file] /\ plan[i].kind # "copy"
    BY <1>1 DEF OwedInPlace
  <2>1. plan[i].file \in FileNames \ {plan[1].file} BY <1>f, <1>p
  <2> QED BY <2>1, <1>1, <1>2 DEF MigrationInv, OwedInPlace
<1>6. OwedInBackup' BY <1>1, <1>3 DEF OwedInBackup
<1>7. BackedUp' BY <1>1, <1>2, <1>3 DEF MigrationInv, BackedUp
<1> QED BY <1>4, <1>5, <1>6, <1>7 DEF MigrationInv

(* An action that is skipped, is done, or fails. *)
LEMMA EndsKeep ==
  ASSUME MigrationInv, Skip \/ Copied \/ BackupFails \/ CopyFails PROVE MigrationInv'
<1>h. /\ PlanOK /\ plan # <<>> /\ plan' = Tail(plan) /\ step' = "next"
      /\ UNCHANGED <<bak, owed>>
  BY DEF MigrationInv, PlanOK, Skip, Copied, BackupFails, CopyFails
<1>f. Head(plan) = plan[1] /\ plan[1].file \in FileNames /\ 1 \in 1..Len(plan)
  BY <1>h, PlanHead
<1>1. CASE dst' = dst
  <2>1. owed[plan[1].file] # NoFile => owed[plan[1].file] \in {dst[plan[1].file], bak[plan[1].file]}
    BY <1>f DEF MigrationInv, BackedUp
  <2> QED BY <1>1, <2>1, <1>h, ActionEnds DEF MigrationInv, FilesOK
<1>2. CASE Copied
  <2>1. dst' = [dst EXCEPT ![plan[1].file] = Migrated] /\ step = "copy"
    BY <1>2, <1>f DEF Copied
  <2>2. DOMAIN dst' = FileNames /\ \A f \in FileNames \ {plan[1].file} : dst'[f] = dst[f]
    BY <2>1 DEF MigrationInv, FilesOK
  <2>3. owed[plan[1].file] # NoFile => owed[plan[1].file] = bak[plan[1].file]
    BY <2>1 DEF MigrationInv, OwedInBackup
  <2> QED BY <2>2, <2>3, <1>h, ActionEnds
<1> QED BY <1>1, <1>2 DEF Skip, BackupFails, CopyFails

LEMMA MigrationInductive ==
  ASSUME MigrationInv, [MigrationNext]_migrationVars PROVE MigrationInv'
<1>1. CASE Confirm
  BY <1>1 DEF Confirm, MigrationInv, PlanOK, FilesOK, OwedInPlace, OwedInBackup, BackedUp
<1>2. CASE Decline \/ MigrationDies
  <2>1. step' = "none" /\ plan' = <<>> /\ UNCHANGED <<dst, bak, owed>>
    BY <1>2 DEF Decline, MigrationDies
  <2>2. PlanOK' BY <2>1 DEF PlanOK
  <2>3. OwedInPlace' BY <2>1 DEF OwedInPlace
  <2> QED BY <2>1, <2>2, <2>3 DEF MigrationInv, FilesOK, OwedInBackup, BackedUp
<1>3. CASE MigrationDone
  BY <1>3 DEF MigrationDone, MigrationInv, PlanOK, FilesOK, OwedInPlace, OwedInBackup, BackedUp
<1>4. CASE UNCHANGED migrationVars
  BY <1>4 DEF migrationVars, MigrationInv, PlanOK, FilesOK, OwedInPlace, OwedInBackup, BackedUp
<1> QED
  BY <1>1, <1>2, <1>3, <1>4, UserWritesKeeps, RunKeeps, BackupKeeps, BeginCopyKeeps, EndsKeep
     DEF MigrationNext

LEMMA MigrationInitially == MigrationInit => MigrationInv
<1> SUFFICES ASSUME MigrationInit PROVE MigrationInv OBVIOUS
<1>1. plan = <<>> /\ step = "none" /\ dst = [f \in FileNames |-> NoFile] /\ bak = dst /\ owed = dst
  BY DEF MigrationInit
<1>2. PlanOK BY <1>1 DEF PlanOK
<1>3. OwedInPlace BY <1>1 DEF OwedInPlace
<1> QED BY <1>1, <1>2, <1>3 DEF MigrationInv, FilesOK, OwedInBackup, BackedUp

(* What a run without force found whole stays in its place or in its .bak, *)
(* however the run ends, for any files (workspace.go:48-72).               *)
THEOREM MigrationLosesNothing == MigrationSpec => []BackedUp
<1>1. MigrationInv /\ [MigrationNext]_migrationVars => MigrationInv' BY MigrationInductive
<1>2. MigrationInv => BackedUp BY DEF MigrationInv
<1> QED BY <1>1, <1>2, MigrationInitially, PTL DEF MigrationSpec

-----------------------------------------------------------------------------
(* Tools.  A bucket holds the last of the times at which its tool was let  *)
(* through; those it has dropped are a minute old.  What is offered to a   *)
(* round was chosen with all but the last of the names it has used.        *)
Names == Tools \cup Strangers

GuardTypeOK ==
  /\ now \in Nat
  /\ bucket \in [Limited -> Seq(Nat)] /\ passed \in [Limited -> Seq(Nat)]
  /\ iteration \in [GuardRounds -> Nat] /\ used \in [GuardRounds -> Seq(Names)]
  /\ DOMAIN named = GuardRounds /\ DOMAIN offered = GuardRounds

(* The bucket is what follows the k-th time of the history. *)
Holds(b, p, k, time) ==
  /\ k \in 0 .. Len(p) /\ b = SubSeq(p, k + 1, Len(p))
  /\ \A i \in 1 .. k : p[i] + Minute <= time
BucketHolds == \A t \in Limited : \E k \in Nat : Holds(bucket[t], passed[t], k, now)

Spaced(p, max) ==
  \A i, j \in 1 .. Len(p) : j = i + max => p[i] + Minute <= p[j]
AllSpaced == \A t \in Limited : Spaced(passed[t], Policy[t].perMin)

StillOffered(r) ==
  /\ Len(used[r]) <= iteration[r] /\ iteration[r] <= Len(used[r]) + 1
  /\ \A i \in 1 .. Len(used[r]) : i < iteration[r] /\ used[r][i] \in Tools =>
       used[r][i] \in offered[r]

GuardInv ==
  GuardTypeOK /\ BucketHolds /\ AllSpaced /\ (\A r \in GuardRounds : StillOffered(r))

(* A set of numbers has a least one. *)
LEMMA LeastNumber ==
  ASSUME NEW S, S \subseteq Nat, NEW n \in S
  PROVE  \E m \in S : \A k \in S : m <= k
<1>1. PICK m \in S : \A k \in S : ~ (<<k, m>> \in OpToRel(<, Nat))
  BY NatLessThanWellFounded, WFMin
<1>2. \A k \in S : ~ (k < m)
  BY <1>1 DEF OpToRel
<1> QED
  BY <1>2

(* Pruning takes a number of times from the front, all of them old.        *)
LEMMA Pruned ==
  ASSUME NEW b \in Seq(Nat), NEW time \in Nat
  PROVE  \E c \in 0 .. Len(b) : /\ Since(b, time) = SubSeq(b, c + 1, Len(b))
                                /\ \A j \in 1 .. c : b[j] + Minute <= time
<1> DEFINE Late == {i \in 1 .. Len(b) + 1 : i <= Len(b) => b[i] + Minute > time}
           IsFirst(i) == /\ \A j \in 1 .. i - 1 : b[j] + Minute <= time
                         /\ i <= Len(b) => b[i] + Minute > time
           first == CHOOSE i \in 1 .. Len(b) + 1 : IsFirst(i)
<1>1. Minute \in Nat /\ Len(b) \in Nat
  BY GuardAssumption
<1>2. Len(b) + 1 \in Late /\ Late \subseteq Nat
  BY <1>1
<1>3. PICK m \in Late : \A k \in Late : m <= k
  BY <1>2, LeastNumber
<1>4. IsFirst(m)
  <2> SUFFICES ASSUME NEW j \in 1 .. m - 1 PROVE b[j] + Minute <= time
    OBVIOUS
  <2>1. j \in 1 .. Len(b) /\ ~ (m <= j)
    BY <1>1, <1>3
  <2>2. j \notin Late
    BY <1>3, <2>1
  <2>3. b[j] \in Nat
    BY <2>1
  <2> QED
    BY <1>1, <2>1, <2>2, <2>3
<1>5. first \in 1 .. Len(b) + 1 /\ IsFirst(first)
  BY <1>3, <1>4
<1>6. Since(b, time) = SubSeq(b, first, Len(b))
  BY DEF Since
<1> HIDE DEF first
<1>7. first - 1 \in 0 .. Len(b) /\ (first - 1) + 1 = first
  BY <1>1, <1>5
<1> QED
  BY <1>5, <1>6, <1>7

(* What is left of a sequence without its first n members, and that the   *)
(* end of its end is its end.                                              *)
LEMMA EndOf ==
  ASSUME NEW p \in Seq(Nat), NEW n \in 0 .. Len(p), NEW y, y = SubSeq(p, n + 1, Len(p))
  PROVE  /\ y \in Seq(Nat) /\ Len(y) = Len(p) - n
         /\ \A j \in 1 .. Len(y) : y[j] = p[n + j]
<1> DEFINE z == SubSeq(p, n + 1, Len(p))
<1>1. n \in Nat /\ Len(p) \in Nat /\ n <= Len(p) /\ n + 1 \in Int /\ Len(p) \in Int
  OBVIOUS
<1>2. \A i \in n + 1 .. Len(p) : p[i] \in Nat
  BY ONLY <1>1, p \in Seq(Nat)
<1>3. /\ z \in Seq(Nat)
      /\ Len(z) = IF n + 1 <= Len(p) THEN Len(p) - (n + 1) + 1 ELSE 0
      /\ \A j \in 1 .. Len(p) - (n + 1) + 1 : z[j] = p[(n + 1) + j - 1]
  BY ONLY <1>1, <1>2, SubSeqProperties
<1>4. y = z
  OBVIOUS
<1> HIDE DEF z
<1>5. Len(z) = Len(p) - n
  BY ONLY <1>1, <1>3
<1>6. ASSUME NEW j \in 1 .. Len(z) PROVE z[j] = p[n + j]
  <2>1. j \in 1 .. Len(p) - (n + 1) + 1 /\ (n + 1) + j - 1 = n + j
    BY ONLY <1>1, <1>5, j \in 1 .. Len(z)
  <2> QED
    BY ONLY <1>3, <2>1
<1> QED
  BY ONLY <1>3, <1>4, <1>5, <1>6

LEMMA SameMembers ==
  ASSUME NEW x \in Seq(Nat), NEW y \in Seq(Nat), Len(x) = Len(y),
         \A j \in 1 .. Len(x) : x[j] = y[j]
  PROVE  x = y
  OBVIOUS

LEMMA EndOfEnd ==
  ASSUME NEW p \in Seq(Nat), NEW k \in 0 .. Len(p), NEW c \in 0 .. Len(p) - k,
         NEW b, b = SubSeq(p, k + 1, Len(p)),
         NEW x, x = SubSeq(b, c + 1, Len(b)),
         NEW y, y = SubSeq(p, (k + c) + 1, Len(p))
  PROVE  x = y
<1>1. k \in Nat /\ c \in Nat /\ Len(p) \in Nat /\ k + c \in 0 .. Len(p)
  OBVIOUS
<1>2. b \in Seq(Nat) /\ Len(b) = Len(p) - k /\ \A j \in 1 .. Len(b) : b[j] = p[k + j]
  BY EndOf
<1>3. x \in Seq(Nat) /\ Len(x) = Len(b) - c /\ \A j \in 1 .. Len(x) : x[j] = b[c + j]
  <2>1. b \in Seq(Nat) /\ c \in 0 .. Len(b)
    BY <1>2
  <2> QED
    BY ONLY <2>1, x = SubSeq(b, c + 1, Len(b)), EndOf
<1>4. /\ y \in Seq(Nat) /\ Len(y) = Len(p) - (k + c)
      /\ \A j \in 1 .. Len(y) : y[j] = p[(k + c) + j]
  BY ONLY <1>1, p \in Seq(Nat), y = SubSeq(p, (k + c) + 1, Len(p)), EndOf
<1>5. ASSUME NEW j \in 1 .. Len(x) PROVE x[j] = y[j]
  <2>1. c + j \in 1 .. Len(b) /\ j \in 1 .. Len(y) /\ k + (c + j) = (k + c) + j
    BY ONLY <1>1, <1>2, <1>3, <1>4, j \in 1 .. Len(x)
  <2> QED
    BY ONLY <1>2, <1>3, <1>4, <2>1, j \in 1 .. Len(x)
<1>6. Len(x) = Len(y)
  BY ONLY <1>1, <1>2, <1>3, <1>4
<1> QED
  BY <1>3, <1>4, <1>5, <1>6, SameMembers

(* Time only makes what was dropped older, and appending to both keeps     *)
(* the one the end of the other.                                           *)
LEMMA HoldsLater ==
  ASSUME NEW p \in Seq(Nat), NEW k \in Nat, NEW b, NEW time \in Nat, NEW later \in Nat,
         time <= later, Holds(b, p, k, time)
  PROVE  Holds(b, p, k, later)
<1>1. Minute \in Nat
  BY GuardAssumption
<1> QED
  BY <1>1 DEF Holds

LEMMA HoldsMore ==
  ASSUME NEW p \in Seq(Nat), NEW k \in Nat, NEW b, NEW time \in Nat, Holds(b, p, k, time)
  PROVE  Holds(Append(b, time), Append(p, time), k, time)
<1>1. k \in 0 .. Len(p) /\ b = SubSeq(p, k + 1, Len(p)) /\ Len(p) \in Nat /\ k \in Nat
  BY DEF Holds
<1>2. b \in Seq(Nat) /\ Len(b) = Len(p) - k /\ \A j \in 1 .. Len(b) : b[j] = p[k + j]
  BY <1>1, EndOf
<1> DEFINE q == Append(p, time)
           x == Append(b, time)
           y == SubSeq(q, k + 1, Len(q))
<1>3. q \in Seq(Nat) /\ Len(q) = Len(p) + 1 /\ q[Len(p) + 1] = time
      /\ \A i \in 1 .. Len(p) : q[i] = p[i]
  OBVIOUS
<1>4. x \in Seq(Nat) /\ Len(x) = Len(b) + 1 /\ x[Len(b) + 1] = time
      /\ \A i \in 1 .. Len(b) : x[i] = b[i]
  BY <1>2
<1> HIDE DEF q, x
<1>5. y \in Seq(Nat) /\ Len(y) = Len(q) - k /\ \A j \in 1 .. Len(y) : y[j] = q[k + j]
  <2>1. k \in 0 .. Len(q)
    BY <1>1, <1>3
  <2> QED
    BY <1>3, <2>1, EndOf
<1> HIDE DEF y
<1>6. ASSUME NEW j \in 1 .. Len(x) PROVE x[j] = y[j]
  <2>1. j \in 1 .. Len(y)
    BY <1>1, <1>2, <1>3, <1>4, <1>5
  <2>2. CASE j <= Len(b)
    <3>1. k + j \in 1 .. Len(p) /\ j \in 1 .. Len(b)
      BY <1>1, <1>2, <2>2
    <3> QED
      BY <1>2, <1>3, <1>4, <1>5, <2>1, <3>1
  <2>3. CASE j = Len(b) + 1
    <3>1. k + j = Len(p) + 1
      BY <1>1, <1>2, <2>3
    <3> QED
      BY <1>3, <1>4, <1>5, <2>1, <2>3, <3>1
  <2>4. Len(b) \in Nat
    BY <1>2
  <2> QED
    BY <1>4, <2>2, <2>3, <2>4
<1>7. x = y
  <2>1. Len(x) = Len(y)
    BY <1>1, <1>2, <1>3, <1>4, <1>5
  <2> QED
    BY <1>4, <1>5, <1>6, <2>1, SameMembers
<1>8. \A i \in 1 .. k : q[i] + Minute <= time
  <2>1. \A i \in 1 .. k : p[i] + Minute <= time
    BY DEF Holds
  <2>2. \A i \in 1 .. k : i \in 1 .. Len(p)
    BY <1>1
  <2> QED
    BY <1>3, <2>1, <2>2
<1>9. Holds(x, q, k, time)
  <2>1. k \in 0 .. Len(q)
    BY <1>1, <1>3
  <2>2. x = SubSeq(q, k + 1, Len(q))
    BY <1>7 DEF y
  <2> QED
    BY <1>8, <2>1, <2>2 DEF Holds
<1> QED
  BY <1>9 DEF x, q

(* What Allow does to the bucket of a tool, and to the history.            *)
LEMMA Window ==
  ASSUME NEW t \in Limited, GuardTypeOK, BucketHolds, AllSpaced, Allow(t)
  PROVE  /\ bucket' \in [Limited -> Seq(Nat)] /\ passed' \in [Limited -> Seq(Nat)]
         /\ \E k \in Nat : Holds(bucket'[t], passed'[t], k, now)
         /\ Spaced(passed'[t], Policy[t].perMin)
         /\ \A u \in Limited \ {t} : bucket'[u] = bucket[u] /\ passed'[u] = passed[u]
<1> DEFINE p == passed[t]
           b == bucket[t]
           max == Policy[t].perMin
<1>1. p \in Seq(Nat) /\ b \in Seq(Nat) /\ now \in Nat /\ Len(p) \in Nat
  BY DEF GuardTypeOK
<1>2. max \in Nat /\ max > 0 /\ Minute \in Nat
  BY GuardAssumption DEF Limited
<1>3. PICK k \in Nat : Holds(b, p, k, now)
  BY DEF BucketHolds
<1>4. k \in 0 .. Len(p) /\ b = SubSeq(p, k + 1, Len(p)) /\ \A i \in 1 .. k : p[i] + Minute <= now
  BY <1>3 DEF Holds
<1>5. PICK c \in 0 .. Len(b) : /\ Recent(t) = SubSeq(b, c + 1, Len(b))
                               /\ \A j \in 1 .. c : b[j] + Minute <= now
  BY <1>1, Pruned DEF Recent
<1>6. Len(b) = Len(p) - k
  BY <1>1, <1>4
<1>7. c \in 0 .. Len(p) - k
  BY <1>5, <1>6
<1>8. /\ \A j \in 1 .. Len(b) : b[j] = p[k + j]
      /\ Recent(t) = SubSeq(p, (k + c) + 1, Len(p))
  <2>1. \A j \in 1 .. Len(b) : b[j] = p[k + j]
    BY <1>1, <1>4, EndOf
  <2>2. Recent(t) = SubSeq(p, (k + c) + 1, Len(p))
    <3>1. Recent(t) = SubSeq(b, c + 1, Len(b)) /\ p \in Seq(Nat)
      BY <1>1, <1>5
    <3>2. k \in 0 .. Len(p) /\ b = SubSeq(p, k + 1, Len(p))
      BY <1>4
    <3> HIDE DEF p, b
    <3> QED
      BY ONLY <1>7, <3>1, <3>2, EndOfEnd
  <2> QED
    BY <2>1, <2>2
<1>9. k + c \in 0 .. Len(p) /\ \A i \in 1 .. k + c : p[i] + Minute <= now
  <2>1. k + c \in 0 .. Len(p)
    BY <1>1, <1>4, <1>7
  <2>2. ASSUME NEW i \in 1 .. k + c PROVE p[i] + Minute <= now
    <3>1. CASE i <= k
      BY <1>4, <3>1
    <3>2. CASE i > k
      <4>1. i - k \in 1 .. c /\ i - k \in 1 .. Len(b) /\ k + (i - k) = i
        BY <1>1, <1>4, <1>5, <3>2
      <4>2. b[i - k] = p[i]
        BY <1>8, <4>1
      <4> QED
        BY <1>5, <4>1, <4>2
    <3> QED
      BY <1>4, <3>1, <3>2
  <2> QED
    BY <2>1, <2>2
<1>10. Holds(Recent(t), p, k + c, now)
  BY <1>8, <1>9 DEF Holds
<1>11. Recent(t) \in Seq(Nat) /\ Len(Recent(t)) = Len(p) - (k + c)
  BY <1>1, <1>8, <1>9, EndOf
<1>12. Spaced(p, max)
  BY DEF AllSpaced
<1>13. CASE Len(Recent(t)) >= max
  <2>1. bucket' = [bucket EXCEPT ![t] = Recent(t)] /\ passed' = passed
    BY <1>13 DEF Allow
  <2> QED
    BY <1>4, <1>7, <1>10, <1>11, <1>12, <2>1 DEF GuardTypeOK
<1>14. CASE Len(Recent(t)) < max
  <2> DEFINE q == Append(p, now)
  <2>1. /\ bucket' = [bucket EXCEPT ![t] = Append(Recent(t), now)]
        /\ passed' = [passed EXCEPT ![t] = q]
    BY <1>2, <1>11, <1>14 DEF Allow
  <2>2. Holds(Append(Recent(t), now), q, k + c, now)
    BY <1>1, <1>9, <1>10, HoldsMore
  <2>3. q \in Seq(Nat) /\ Len(q) = Len(p) + 1 /\ q[Len(p) + 1] = now
        /\ \A n \in 1 .. Len(p) : q[n] = p[n]
    BY <1>1
  <2> HIDE DEF q
  <2>4. Spaced(q, max)
    <3> SUFFICES ASSUME NEW i \in 1 .. Len(q), NEW j \in 1 .. Len(q), j = i + max
                 PROVE  q[i] + Minute <= q[j]
      BY DEF Spaced
    <3>1. i \in 1 .. Len(p)
      <4>1. i \in Nat /\ i >= 1 /\ i + max <= Len(p) + 1
        BY <1>1, <2>3
      <4> HIDE DEF max
      <4> QED
        BY <1>1, <1>2, <4>1
    <3>2. CASE j <= Len(p)
      <4>1. j \in 1 .. Len(p)
        BY <1>1, <3>2
      <4>2. p[i] + Minute <= p[j]
        BY <1>12, <3>1, <4>1 DEF Spaced
      <4> QED
        BY <2>3, <3>1, <4>1, <4>2
    <3>3. CASE j = Len(p) + 1
      <4>1. i \in 1 .. k + c
        <5>1. Len(p) - (k + c) < max /\ i + max = Len(p) + 1 /\ k + c \in 0 .. Len(p)
          BY <1>9, <1>11, <1>14, <3>3
        <5> HIDE DEF max
        <5> QED
          BY <1>1, <1>2, <3>1, <5>1
      <4> QED
        BY <1>9, <2>3, <3>1, <3>3, <4>1
    <3> QED
      BY <1>1, <2>3, <3>2, <3>3
  <2>5. q \in Seq(Nat) /\ Append(Recent(t), now) \in Seq(Nat) /\ k + c \in Nat
    BY <1>1, <1>9, <1>11, <2>3
  <2> QED
    BY <2>1, <2>2, <2>4, <2>5 DEF GuardTypeOK
<1> QED
  BY <1>2, <1>11, <1>13, <1>14

(* A request offers again all that was used, and the groups of the message.*)
LEMMA OffersUsed ==
  ASSUME NEW message, NEW names, NEW i \in DOMAIN names, names[i] \in Tools
  PROVE  names[i] \in Offer(message, names)
<1>1. Tool[names[i]] \in SelectActiveGroups(message, names)
  BY DEF SelectActiveGroups, ToolGroup
<1> QED
  BY <1>1 DEF Offer

LEMMA GuardInductive == GuardInv /\ [GuardNext]_guardVars => GuardInv'
<1> SUFFICES ASSUME GuardInv, [GuardNext]_guardVars PROVE GuardInv'
  OBVIOUS
<1>a. GuardTypeOK /\ BucketHolds /\ AllSpaced /\ (\A r \in GuardRounds : StillOffered(r))
  BY DEF GuardInv
<1>b. UNCHANGED <<now, bucket, passed>> => BucketHolds' /\ AllSpaced'
  BY <1>a DEF BucketHolds, AllSpaced
<1>c. UNCHANGED <<iteration, used, offered>> => \A r \in GuardRounds : StillOffered(r)'
  BY <1>a DEF StillOffered
<1>1. ASSUME NEW r \in GuardRounds, Answer(r) PROVE GuardInv'
  <2>1. GuardTypeOK'
    BY <1>1, <1>a DEF Answer, GuardTypeOK
  <2>2. ASSUME NEW s \in GuardRounds PROVE StillOffered(s)'
    <3>1. CASE s = r
      <4>1. used'[s] = <<>> /\ iteration'[s] = 0
        BY <1>1, <1>a, <3>1 DEF Answer, GuardTypeOK
      <4> QED
        BY <4>1 DEF StillOffered
    <3>2. CASE s # r
      <4>1. used'[s] = used[s] /\ iteration'[s] = iteration[s] /\ offered'[s] = offered[s]
        BY <1>1, <1>a, <3>2 DEF Answer, GuardTypeOK
      <4> QED
        BY <1>a, <4>1 DEF StillOffered
    <3> QED
      BY <3>1, <3>2
  <2> QED
    BY <1>1, <1>b, <2>1, <2>2 DEF Answer, GuardInv
<1>2. ASSUME NEW r \in GuardRounds, NEW message, Request(r, message) PROVE GuardInv'
  <2>1. GuardTypeOK'
    BY <1>2, <1>a DEF Request, GuardTypeOK
  <2>2. ASSUME NEW s \in GuardRounds PROVE StillOffered(s)'
    <3>1. CASE s = r
      <4>1. /\ used'[s] = used[s] /\ iteration'[s] = iteration[s] + 1
            /\ Len(used[s]) = iteration[s] /\ offered'[s] = Offer(message, used[s])
            /\ used[s] \in Seq(Names) /\ iteration[s] \in Nat
        BY <1>2, <1>a, <3>1 DEF Request, GuardTypeOK
      <4>2. \A i \in 1 .. Len(used[s]) : used[s][i] \in Tools => used[s][i] \in Offer(message, used[s])
        BY <4>1, OffersUsed
      <4> QED
        BY <4>1, <4>2 DEF StillOffered
    <3>2. CASE s # r
      <4>1. used'[s] = used[s] /\ iteration'[s] = iteration[s] /\ offered'[s] = offered[s]
        BY <1>2, <1>a, <3>2 DEF Request, GuardTypeOK
      <4> QED
        BY <1>a, <4>1 DEF StillOffered
    <3> QED
      BY <3>1, <3>2
  <2> QED
    BY <1>2, <1>b, <2>1, <2>2 DEF Request, GuardInv
<1>3. ASSUME NEW r \in GuardRounds, NEW t \in Names, NEW size, CallTool(r, t, size) PROVE GuardInv'
  <2>1. /\ used' = [used EXCEPT ![r] = Append(@, t)]
        /\ UNCHANGED <<now, named, iteration, offered>> /\ Len(used[r]) < iteration[r]
    BY <1>3 DEF CallTool
  <2>2. /\ bucket' \in [Limited -> Seq(Nat)] /\ passed' \in [Limited -> Seq(Nat)]
        /\ BucketHolds' /\ AllSpaced'
    <3>1. CASE Asks(t, size)
      <4>1. t \in Limited /\ Allow(t)
        BY <1>3, <3>1 DEF CallTool, Asks
      <4>2. /\ \E k \in Nat : Holds(bucket'[t], passed'[t], k, now)
            /\ Spaced(passed'[t], Policy[t].perMin)
            /\ \A u \in Limited \ {t} : bucket'[u] = bucket[u] /\ passed'[u] = passed[u]
            /\ bucket' \in [Limited -> Seq(Nat)] /\ passed' \in [Limited -> Seq(Nat)]
        BY <1>a, <4>1, Window
      <4>3. ASSUME NEW u \in Limited
            PROVE  /\ \E k \in Nat : Holds(bucket'[u], passed'[u], k, now')
                   /\ Spaced(passed'[u], Policy[u].perMin)
        <5>1. CASE u = t
          BY <2>1, <4>2, <5>1
        <5>2. CASE u # t
          BY <1>a, <2>1, <4>2, <5>2 DEF BucketHolds, AllSpaced
        <5> QED
          BY <5>1, <5>2
      <4> QED
        BY <4>2, <4>3 DEF BucketHolds, AllSpaced
    <3>2. CASE ~Asks(t, size)
      <4>1. UNCHANGED <<bucket, passed>>
        BY <1>3, <3>2 DEF CallTool
      <4> QED
        BY <1>a, <1>b, <2>1, <4>1 DEF GuardTypeOK
    <3> QED
      BY <3>1, <3>2
  <2>3. used[r] \in Seq(Names) /\ iteration[r] \in Nat
    BY <1>a DEF GuardTypeOK
  <2>4. GuardTypeOK'
    BY <1>a, <2>1, <2>2, <2>3 DEF GuardTypeOK
  <2>5. ASSUME NEW s \in GuardRounds PROVE StillOffered(s)'
    <3>1. CASE s = r
      <4>1. used'[r] = Append(used[r], t) /\ StillOffered(r)
        BY <1>a, <2>1 DEF GuardTypeOK
      <4>2. Len(used'[r]) = Len(used[r]) + 1 /\ \A i \in 1 .. Len(used[r]) : used'[r][i] = used[r][i]
        BY <2>3, <4>1
      <4>3. Len(used[r]) \in Nat /\ iteration[r] = Len(used[r]) + 1
        BY <2>1, <2>3, <4>1 DEF StillOffered
      <4>4. ASSUME NEW i \in 1 .. Len(used'[r]), i < iteration[r], used'[r][i] \in Tools
            PROVE  used'[r][i] \in offered[r]
        <5>1. i \in 1 .. Len(used[r])
          BY <4>2, <4>3, <4>4
        <5> QED
          BY <4>1, <4>2, <4>4, <5>1 DEF StillOffered
      <4> QED
        BY <2>1, <3>1, <4>2, <4>3, <4>4 DEF StillOffered
    <3>2. CASE s # r
      <4>1. used'[s] = used[s] /\ iteration'[s] = iteration[s] /\ offered'[s] = offered[s]
        BY <1>a, <2>1, <3>2 DEF GuardTypeOK
      <4> QED
        BY <1>a, <4>1 DEF StillOffered
    <3> QED
      BY <3>1, <3>2
  <2> QED
    BY <2>2, <2>4, <2>5 DEF GuardInv
<1>4. CASE Tick
  <2>1. now' = now + 1 /\ now \in Nat /\ UNCHANGED <<bucket, passed, iteration, used, offered, named>>
    BY <1>4, <1>a DEF Tick, GuardTypeOK
  <2>2. GuardTypeOK' /\ AllSpaced'
    BY <1>a, <2>1 DEF GuardTypeOK, AllSpaced
  <2>3. BucketHolds'
    <3> SUFFICES ASSUME NEW t \in Limited PROVE \E k \in Nat : Holds(bucket[t], passed[t], k, now')
      BY <2>1 DEF BucketHolds
    <3>1. PICK k \in Nat : Holds(bucket[t], passed[t], k, now)
      BY <1>a DEF BucketHolds
    <3>2. passed[t] \in Seq(Nat) /\ now' \in Nat /\ now <= now'
      BY <1>a, <2>1 DEF GuardTypeOK
    <3> QED
      BY <2>1, <3>1, <3>2, HoldsLater
  <2> QED
    BY <1>c, <2>1, <2>2, <2>3 DEF GuardInv
<1>5. CASE UNCHANGED guardVars
  BY <1>5, <1>a, <1>b, <1>c DEF guardVars, GuardInv, GuardTypeOK
<1> QED
  BY <1>1, <1>2, <1>3, <1>4, <1>5 DEF GuardNext, Names

(* Limits and offers, for any rounds, tools and policies: in no minute is  *)
(* a tool let through more often than its policy says, and what a round    *)
(* has used is offered to it again.                                        *)
THEOREM GuardsAreKept == GuardSpec => []GuardsHold
<1>1. GuardInit => GuardInv
  <2> SUFFICES ASSUME GuardInit PROVE GuardInv
    OBVIOUS
  <2>1. GuardTypeOK
    BY DEF GuardInit, GuardTypeOK
  <2>2. ASSUME NEW t \in Limited PROVE Holds(bucket[t], passed[t], 0, now)
    <3>1. bucket[t] = <<>> /\ passed[t] = <<>>
      BY DEF GuardInit
    <3> QED
      BY <3>1 DEF Holds
  <2>3. BucketHolds
    BY <2>2 DEF BucketHolds
  <2>4. AllSpaced
    BY DEF GuardInit, AllSpaced, Spaced
  <2>5. \A r \in GuardRounds : StillOffered(r)
    BY DEF GuardInit, StillOffered
  <2> QED
    BY <2>1, <2>3, <2>4, <2>5 DEF GuardInv
<1>2. GuardInv => GuardsHold
  <2> SUFFICES ASSUME GuardInv PROVE GuardsHold
    OBVIOUS
  <2>1. ASSUME NEW t \in Limited, NEW i \in DOMAIN passed[t],
               i + Policy[t].perMin \in DOMAIN passed[t]
        PROVE  passed[t][i + Policy[t].perMin] - passed[t][i] >= Minute
    <3> DEFINE j == i + Policy[t].perMin
    <3>1. passed[t] \in Seq(Nat) /\ Spaced(passed[t], Policy[t].perMin) /\ Minute \in Nat
      BY GuardAssumption DEF GuardInv, GuardTypeOK, AllSpaced
    <3>2. DOMAIN passed[t] = 1 .. Len(passed[t])
      BY <3>1
    <3>3. passed[t][i] + Minute <= passed[t][j]
      BY <2>1, <3>1, <3>2 DEF Spaced
    <3>4. passed[t][i] \in Nat /\ passed[t][j] \in Nat
      BY <2>1, <3>1
    <3> QED
      BY <3>1, <3>3, <3>4
  <2>2. ASSUME NEW r \in GuardRounds, NEW i \in DOMAIN used[r], i < iteration[r], used[r][i] \in Tools
        PROVE  used[r][i] \in offered[r]
    <3>1. used[r] \in Seq(Names) /\ StillOffered(r)
      BY DEF GuardInv, GuardTypeOK
    <3> QED
      BY <2>2, <3>1 DEF StillOffered
  <2> QED
    BY <2>1, <2>2 DEF GuardsHold
<1> QED
  BY <1>1, <1>2, GuardInductive, PTL DEF GuardSpec

-----------------------------------------------------------------------------
(* The gateway.  While channels are being started the manager's lock is    *)
(* held, from before the dispatcher runs; so a message whose channel has   *)
(* been looked up was looked up after they were.                           *)
NotYetStarted == {"cron", "heartbeat", "devices", "StartAll"}

GatewayInv ==
  /\ main \in NotYetStarted => dispatcher = "none"
  /\ main = "channels" => locked \/ dispatcher = "none"
  /\ dispatcher = "send" => main \notin {"StartAll", "channels"}

(* Services start before the channels do, but for the agent.               *)
LEMMA InOrder ==
  ASSUME StartService
  PROVE  IF main = "agent" THEN main' = "up" ELSE main' \in {"heartbeat", "devices", "StartAll"}
<1> DEFINE at == CHOOSE i \in DOMAIN Order : Order[i] = main
<1>1. /\ DOMAIN Order = 1 .. 8
      /\ Order[1] = "cron" /\ Order[2] = "heartbeat" /\ Order[3] = "devices"
      /\ Order[4] = "StartAll" /\ Order[5] = "channels" /\ Order[6] = "health"
      /\ Order[7] = "agent" /\ Order[8] = "up"
  BY DEF Order
<1>2. main \in {"cron", "heartbeat", "devices", "agent"}
  BY DEF StartService
<1>3. \E i \in DOMAIN Order : Order[i] = main
  BY <1>1, <1>2
<1>4. at \in {1, 2, 3, 4, 5, 6, 7, 8} /\ Order[at] = main
  BY <1>1, <1>3
<1>5. main' = Order[1 + at]
  BY DEF StartService, After
<1> HIDE DEF at
<1> QED
  BY <1>1, <1>2, <1>4, <1>5

LEMMA GatewayInductive == GatewayInv /\ [GatewayNext]_gatewayVars => GatewayInv'
<1> SUFFICES ASSUME GatewayInv, [GatewayNext]_gatewayVars PROVE GatewayInv'
  OBVIOUS
<1> USE DEF GatewayInv, NotYetStarted, managerVars, flowVars
<1>1. CASE StartService
  <2>1. IF main = "agent" THEN main' = "up" ELSE main' \in {"heartbeat", "devices", "StartAll"}
    BY <1>1, InOrder
  <2> QED
    BY <1>1, <2>1 DEF StartService
<1>2. CASE StartHealth \/ StartAll \/ AllStarted
  BY <1>2 DEF StartHealth, StartAll, AllStarted
<1>3. CASE StopService \/ StopAll \/ Exit \/ Interrupt
  BY <1>3 DEF StopService, StopAll, Exit, Interrupt
<1>4. ASSUME NEW c \in Known, StartChannel(c) \/ StopChannel(c) PROVE GatewayInv'
  BY <1>4 DEF StartChannel, StopChannel
<1>5. CASE Take \/ Leave
  BY <1>5 DEF Take, Leave
<1>6. CASE SkipInternal \/ Lookup \/ Send
  BY <1>6 DEF SkipInternal, Lookup, Send, Drop
<1>7. ASSUME NEW p \in Publishers, NEW c \in Targets, Publish(p, c) PROVE GatewayInv'
  BY <1>7 DEF Publish
<1>8. CASE UNCHANGED gatewayVars
  BY <1>8 DEF gatewayVars
<1> QED
  BY <1>1, <1>2, <1>3, <1>4, <1>5, <1>6, <1>7, <1>8 DEF GatewayNext, MainStep, Dispatch

(* Whatever becomes of a message, only Send refuses one. *)
LEMMA OnlySendRefuses ==
  ASSUME GatewayInv, GatewayNext PROVE RefusesOnlyTheDead
<1> USE DEF managerVars, flowVars
<1>1. CASE Send
  <2> SUFFICES ASSUME NEW m \in Publishers \X (1 .. MaxMessages) \X Targets,
                      <<m, "refused">> \in fate' \ fate
               PROVE  Failed(m[3])
    BY DEF RefusesOnlyTheDead
  <2>1. m = inHand /\ inHand[3] \notin running
    BY <1>1 DEF Send, Drop
  <2> QED
    BY <1>1, <2>1 DEF Send, Failed, GatewayInv
<1>2. CASE SkipInternal
  BY <1>2 DEF SkipInternal, Drop, RefusesOnlyTheDead
<1>3. CASE Lookup
  BY <1>3 DEF Lookup, Drop, RefusesOnlyTheDead
<1>4. CASE UNCHANGED fate
  BY <1>4 DEF RefusesOnlyTheDead
<1>5. MainStep \/ Interrupt \/ Take \/ Leave => UNCHANGED fate
  BY DEF MainStep, StartService, StartHealth, StartAll, AllStarted, StopService, StopAll,
         Exit, StartChannel, StopChannel, Interrupt, Take, Leave
<1>6. ASSUME NEW p \in Publishers, NEW c \in Targets, Publish(p, c) PROVE UNCHANGED fate
  BY <1>6 DEF Publish
<1> QED
  BY <1>1, <1>2, <1>3, <1>4, <1>5, <1>6 DEF GatewayNext, Dispatch

(* No channel refuses a message because it is still being started.         *)
THEOREM RefusalsAreFinal == GatewaySpec => RefusedOnlyByTheDead
<1>1. GatewayInit => GatewayInv
  BY DEF GatewayInit, GatewayInv, NotYetStarted
<1>2. GatewayInv /\ [GatewayNext]_gatewayVars => [RefusesOnlyTheDead]_gatewayVars
  BY OnlySendRefuses
<1> QED
  BY <1>1, <1>2, GatewayInductive, PTL DEF GatewaySpec, RefusedOnlyByTheDead
=============================================================================
