------------------------------- MODULE GitRepo -------------------------------
(***************************************************************************)
(* The git tools (pkg/tools/git.go) and the /commit command                *)
(* (agent/loop.go) on one repository.  A git call is one process and one   *)
(* step; git itself is external, and modelled by what the tools rely on.   *)
(* Two rounds, or a round and a command, of the gateway and of another     *)
(* process work in the same workspace: the loop's, a cron job's, the       *)
(* heartbeat's or that of `millibee agent`.                                *)
(*                                                                         *)
(* A file is changed or not, and a change is staged or not: what a commit  *)
(* holds is the set of files staged.  Branches and conflicts are left out. *)
(***************************************************************************)
EXTENDS Naturals, Sequences

CONSTANTS Committers, \* rounds that overlap
          Tracked,    \* files
          AllowPush,  \* tools.git.allow_push
          MaxLog,     \* bound: commits
          MaxStash    \* bound: stashes

VARIABLES unstaged, \* files changed since they were staged or committed
          staged,   \* the index: files staged
          commits,  \* the commits: files, what was said of them, and whether
                    \* the index was left alone since it was said
          stash,    \* sets of files
          pushed,   \* commits the remote has
          errand,   \* what each round is at
          said      \* what each is about to say: a diff, no text, or nothing

repoVars == <<unstaged, staged, commits, stash, pushed>>
gitVars == <<repoVars, errand, said>>

Blank == <<"blank">>
NoDifferences == <<"none">>
Diff(fs) == <<"diff", fs>>
NothingSaid == [text |-> Blank, alone |-> TRUE]

GitInit ==
  /\ unstaged = {} /\ staged = {} /\ commits = <<>> /\ stash = <<>> /\ pushed = 0
  /\ errand = [a \in Committers |-> "idle"]
  /\ said = [a \in Committers |-> NothingSaid]

(* Somebody writes files. *)
EditTracked(f) == /\ unstaged' = unstaged \cup {f}
                  /\ UNCHANGED <<staged, commits, stash, pushed, errand, said>>

-----------------------------------------------------------------------------
(* Git. *)
Stage(fs) == staged' = staged \cup fs /\ unstaged' = unstaged \ fs
Unstage(fs) == staged' = staged \ fs /\ unstaged' = unstaged \cup (fs \cap staged)
CommitIndex(text, alone) ==
  /\ staged # {} /\ Len(commits) < MaxLog
  /\ commits' = Append(commits, [files |-> staged, text |-> text, alone |-> alone])
  /\ staged' = {}

(* Whoever else has read the index no longer knows it. *)
Stale(a) == [b \in Committers |-> IF b = a \/ errand[b] = "idle" \/ staged' = staged
                                 THEN said[b]
                                 ELSE [said[b] EXCEPT !.alone = FALSE]]
Others(a) == said' = Stale(a)
-----------------------------------------------------------------------------
(* The tools of a call each. *)
Free(a) == errand[a] = "idle" /\ UNCHANGED errand

GitAdd(a, fs) ==
  /\ Free(a) /\ fs # {} /\ fs \subseteq unstaged
  /\ Stage(fs) /\ Others(a) /\ UNCHANGED <<commits, stash, pushed>>

(* git_reset: without files, everything staged. *)
GitReset(a, fs) ==
  /\ Free(a)
  /\ Unstage(IF fs = {} THEN staged ELSE fs) /\ Others(a)
  /\ UNCHANGED <<commits, stash, pushed>>

(* git_checkout of a file, whose changes since they were staged are gone.  *)
GitCheckout(a, f) ==
  /\ Free(a)
  /\ unstaged' = unstaged \ {f} /\ UNCHANGED <<staged, commits, stash, pushed, said>>

GitStashPush(a) ==
  /\ Free(a) /\ unstaged \cup staged # {} /\ Len(stash) < MaxStash
  /\ stash' = Append(stash, unstaged \cup staged)
  /\ unstaged' = {} /\ staged' = {} /\ Others(a) /\ UNCHANGED <<commits, pushed>>

(* It fails, and keeps the stash, on files that have changed since. *)
GitStashPop(a) ==
  /\ Free(a) /\ stash # <<>>
  /\ LET last == stash[Len(stash)] IN
     /\ last \cap (unstaged \cup staged) = {}
     /\ unstaged' = unstaged \cup last
     /\ stash' = SubSeq(stash, 1, Len(stash) - 1)
  /\ UNCHANGED <<staged, commits, pushed, said>>

GitPush(a) ==
  /\ Free(a) /\ AllowPush
  /\ pushed' = Len(commits) /\ UNCHANGED <<unstaged, staged, commits, stash, said>>

(* git_pull and git_merge: a commit of somebody else's, on top. *)
GitPull(a) ==
  /\ Free(a) /\ Len(commits) < MaxLog
  /\ commits' = Append(commits, [files |-> {}, text |-> Blank, alone |-> FALSE])
  /\ UNCHANGED <<unstaged, staged, stash, pushed, said>>

-----------------------------------------------------------------------------
(* git_commit: with files, it stages them first, in a call of its own; if  *)
(* the commit fails they stay staged.                                      *)
GitCommit(a, files) ==
  /\ errand[a] = "idle" /\ files \subseteq unstaged
  /\ IF files = {} THEN UNCHANGED <<unstaged, staged>> ELSE Stage(files)
  /\ said' = [Stale(a) EXCEPT ![a] = [text |-> Diff(staged'), alone |-> TRUE]]
  /\ errand' = [errand EXCEPT ![a] = "committing"]
  /\ UNCHANGED <<commits, stash, pushed>>

(* git commit -m: it may fail, on a hook, a lock or an empty index. *)
CommitEnds(a) ==
  /\ errand[a] = "committing"
  /\ errand' = [errand EXCEPT ![a] = "idle"]
  /\ \/ CommitIndex(said[a].text, said[a].alone)
     \/ UNCHANGED <<staged, commits>>
  /\ said' = [Stale(a) EXCEPT ![a] = NothingSaid]
  /\ UNCHANGED <<unstaged, stash, pushed>>

(* The staged diff as git_diff words it: an empty one is not blank. *)
DiffText(fs) == IF fs = {} THEN NoDifferences ELSE Diff(fs)

(* /commit reads the diff; with a blank one it would look for changes that *)
(* are not staged, and give up.                                            *)
CommitCommand(a) ==
  /\ errand[a] = "idle" /\ DiffText(staged) # Blank
  /\ said' = [said EXCEPT ![a] = [text |-> DiffText(staged), alone |-> TRUE]]
  /\ errand' = [errand EXCEPT ![a] = "asking"]
  /\ UNCHANGED repoVars

(* generateCommitMessage: an error, or a message that is blank, ends it. *)
NoMessage(a) ==
  /\ errand[a] = "asking"
  /\ errand' = [errand EXCEPT ![a] = "idle"] /\ said' = [said EXCEPT ![a] = NothingSaid]
  /\ UNCHANGED repoVars

(* The git_commit of /commit names no files.  (Faulty form: all that       *)
(* changed.)                                                               *)
AllUnstaged == unstaged
Named == {}
MessageComes(a) ==
  /\ errand[a] = "asking"
  /\ IF Named = {} THEN UNCHANGED <<unstaged, staged, said>>
     ELSE Stage(Named) /\ Others(a)
  /\ errand' = [errand EXCEPT ![a] = "committing"]
  /\ UNCHANGED <<commits, stash, pushed>>

GitNext ==
  \/ \E f \in Tracked : EditTracked(f)
  \/ \E a \in Committers :
       \/ \E fs \in SUBSET Tracked : GitAdd(a, fs) \/ GitReset(a, fs) \/ GitCommit(a, fs)
       \/ \E f \in Tracked : GitCheckout(a, f)
       \/ GitStashPush(a) \/ GitStashPop(a) \/ GitPush(a) \/ GitPull(a)
       \/ CommitCommand(a) \/ NoMessage(a) \/ MessageComes(a) \/ CommitEnds(a)

GitSpec == GitInit /\ [][GitNext]_gitVars

-----------------------------------------------------------------------------
(* A commit made in peace, with nobody else at the index since its message *)
(* was written or its files were named, holds what was said of it, no less *)
(* and no more (git.go:341-367, loop.go:1346-1377).                        *)
CommitHoldsWhatWasSaid ==
  \A i \in DOMAIN commits : commits[i].alone => commits[i].text = Diff(commits[i].files)

(* "No staged changes. Use `git add` first" (loop.go:1359): no commit is   *)
(* made under a message that was written when nothing was staged.          *)
NothingIsNotCommitted == \A i \in DOMAIN commits : commits[i].text # NoDifferences
=============================================================================
