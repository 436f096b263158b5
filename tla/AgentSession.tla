----------------------------- MODULE AgentSession -----------------------------
(***************************************************************************)
(* One conversation of an agent: the session store of pkg/session under    *)
(* the rounds of pkg/agent/loop.go.  Rounds of the message loop and of the *)
(* cron scheduler share the agent's main session and interleave at every   *)
(* call of the store, a background goroutine summarizes the history, the   *)
(* context may have to be compressed in the middle of a round, /clear may  *)
(* come at any time, and the process may crash.                            *)
(*                                                                         *)
(* A summary is the set of the messages it tells of.  Whether the history  *)
(* is long enough to be summarized, what the LLM answers and whether it    *)
(* fails is nondeterministic.                                              *)
(***************************************************************************)
EXTENDS SessionHistory, FiniteSets

CONSTANTS Loop,         \* the goroutine of AgentLoop.Run
          Cron,         \* the goroutine of the cron scheduler
          Runners,      \* those of them that take part
          Summarizer,   \* the goroutine of maybeSummarize
          OldSessions,  \* histories the file may hold when the process starts
          MaxRounds,    \* bound: rounds of each runner
          MaxIterations,\* agent.MaxIterations
          MaxRetries,   \* retries after context errors (2 in the code)
          BatchMax,     \* messages summarized in one part (10 in the code)
          MaxTroubles,  \* bound: context errors, failing saves, /clear
                        \* and crashes, taken together
          MaxSummaries  \* bound: runs of the summarizer

Savers == Runners \cup {Summarizer}
NoSummary == {}

VARIABLES msgs,      \* session.Messages
          summary,   \* session.Summary
          disk,      \* the session's file
          next,      \* the number of the next message
          pc,        \* where each runner and the summarizer is
          after,     \* what follows the store call a runner is in
          req,       \* the request a runner has built from the session
          iter, retry, open, turn,  \* of a runner's round: iteration, retries,
                     \* tool calls not answered yet, and the turn they are of
          snap,      \* what each Save has copied and not yet written
          work,      \* what forceCompression and the summarizer have copied
          rounds, troubles, summaries,  \* counters for the bounds
          lost,      \* history: messages given up without being summarized,
                     \* or that a new summary no longer tells of
          cleared    \* history: what /clear was asked to forget while
                     \* nobody held a copy of it

storeVars == <<msgs, summary, disk, next>>
roundVars == <<after, req, iter, retry, open, turn>>
boundVars == <<rounds, troubles, summaries>>
ghostVars == <<lost, cleared>>
vars == <<msgs, summary, disk, next, pc, after, req, iter, retry, open, turn, snap,
          work, rounds, troubles, summaries, lost, cleared>>

Empty == [msgs |-> <<>>, summary |-> NoSummary]
NoRequest == [msgs |-> <<>>, summary |-> NoSummary, upto |-> 0]

Init ==
  /\ msgs \in OldSessions
  /\ summary = NoSummary
  /\ disk = [msgs |-> msgs, summary |-> NoSummary]
  /\ next = Len(msgs) + 1
  /\ pc = [p \in Savers |-> "idle"]
  /\ after = [r \in Runners |-> "idle"]
  /\ req = [r \in Runners |-> NoRequest]
  /\ iter = [r \in Runners |-> 1]
  /\ retry = [r \in Runners |-> 0]
  /\ open = [r \in Runners |-> 0]
  /\ turn = [r \in Runners |-> 0]
  /\ snap = [p \in Savers |-> Empty]
  /\ work = [p \in Savers |-> Empty]
  /\ rounds = [r \in Runners |-> 0]
  /\ troubles = 0 /\ summaries = 0
  /\ lost = {} /\ cleared = {}

Trouble == troubles < MaxTroubles /\ troubles' = troubles + 1

Goto(p, label) == pc' = [pc EXCEPT ![p] = label]

(* AddMessage, AddFullMessage. *)
Add(m) == msgs' = Append(msgs, m) /\ next' = next + 1

-----------------------------------------------------------------------------
(* A round: runAgentLoop and runLLMIteration. *)

(* The order in which a round reads its session.  (Faulty form: the other  *)
(* way round.)                                                             *)
SummaryFirst == <<"summary", "history">>
ReadOrder == <<"history", "summary">>

Read(r, part) ==
  req' = [req EXCEPT ![r] = IF part = "history"
                            THEN [@ EXCEPT !.msgs = msgs, !.upto = next]
                            ELSE [@ EXCEPT !.summary = summary]]

(* A round begins, or its request is built anew after a compression:       *)
(* GetHistory.                                                             *)
ReadFirst(r) ==
  /\ \/ /\ pc[r] = "idle"
        /\ rounds[r] < MaxRounds[r]
        /\ rounds' = [rounds EXCEPT ![r] = @ + 1]
        /\ after' = [after EXCEPT ![r] = "user"]
     \/ /\ pc[r] = "rebuild"
        /\ after' = [after EXCEPT ![r] = "llm"]
        /\ UNCHANGED rounds
  /\ Read(r, ReadOrder[1])
  /\ Goto(r, "read")
  /\ UNCHANGED <<storeVars, iter, retry, open, turn, snap, work, troubles,
                 summaries, ghostVars>>

(* GetSummary. *)
ReadSecond(r) ==
  /\ pc[r] = "read"
  /\ Read(r, ReadOrder[2])
  /\ Goto(r, after[r])
  /\ UNCHANGED <<storeVars, after, iter, retry, open, turn, snap, work, boundVars, ghostVars>>

(* BuildMessages: what a runner sends to the LLM before its own message.   *)
BuildMessages(r) == sanitizeHistoryForProvider(req[r].msgs)

AddUser(r) ==
  /\ pc[r] = "user"
  /\ Add(User(next))
  /\ Goto(r, "llm")
  /\ UNCHANGED <<summary, disk, roundVars, snap, work, boundVars, ghostVars>>

EndRound(r) ==
  /\ req' = [req EXCEPT ![r] = NoRequest]
  /\ iter' = [iter EXCEPT ![r] = 1]
  /\ retry' = [retry EXCEPT ![r] = 0]
  /\ turn' = [turn EXCEPT ![r] = 0]
  /\ after' = [after EXCEPT ![r] = "idle"]
  /\ UNCHANGED open

(* The LLM asks for tool calls: the turn goes to the session at once. *)
AsksForTools(r) ==
  /\ pc[r] = "llm"
  /\ \E k \in 1..MaxCalls :
       /\ Add(Assistant(next, k))
       /\ open' = [open EXCEPT ![r] = k]
  /\ turn' = [turn EXCEPT ![r] = next]
  /\ Goto(r, "tools")
  /\ UNCHANGED <<summary, disk, after, req, iter, retry, snap, work, boundVars, ghostVars>>

(* One call is executed and its result added.  After the last iteration a  *)
(* final LLM call without tools leads to the answer.                       *)
ExecuteTool(r) ==
  /\ pc[r] = "tools"
  /\ Add(ToolResult(next, turn[r]))
  /\ open' = [open EXCEPT ![r] = @ - 1]
  /\ IF open[r] > 1
     THEN UNCHANGED <<pc, iter, retry>>
     ELSE /\ Goto(r, IF iter[r] < MaxIterations THEN "llm" ELSE "answer")
          /\ iter' = [iter EXCEPT ![r] = @ + 1]
          /\ retry' = [retry EXCEPT ![r] = 0]
  /\ UNCHANGED <<summary, disk, after, req, turn, snap, work, boundVars, ghostVars>>

Answers(r) ==
  /\ pc[r] = "llm"
  /\ Goto(r, "answer")
  /\ UNCHANGED <<storeVars, roundVars, snap, work, boundVars, ghostVars>>

(* The LLM fails for good: the round ends, what it added stays unsaved. *)
LLMFails(r) ==
  /\ pc[r] = "llm"
  /\ Goto(r, "idle")
  /\ EndRound(r)
  /\ UNCHANGED <<storeVars, snap, work, boundVars, ghostVars>>

(* A context error may be retried. *)
Retriable(r) == retry[r] < MaxRetries

ContextError(r) ==
  /\ pc[r] = "llm"
  /\ Retriable(r)
  /\ Trouble
  /\ retry' = [retry EXCEPT ![r] = @ + 1]
  /\ Goto(r, "compress")
  /\ UNCHANGED <<storeVars, after, req, iter, open, turn, snap, work, rounds,
                 summaries, ghostVars>>

(* forceCompression: GetHistory, then SetHistory and Save; a short history *)
(* is left alone.                                                          *)
CompressRead(r) ==
  /\ pc[r] = "compress"
  /\ work' = [work EXCEPT ![r] = [msgs |-> msgs, summary |-> NoSummary]]
  /\ Goto(r, IF Len(msgs) <= KeepLast THEN "rebuild" ELSE "set")
  /\ UNCHANGED <<storeVars, roundVars, snap, boundVars, ghostVars>>

SetHistory(r) ==
  /\ pc[r] = "set"
  /\ msgs' = Compress(work[r].msgs)
  /\ lost' = lost \cup (Numbers(msgs) \ (Numbers(msgs') \cup summary))
  /\ after' = [after EXCEPT ![r] = "rebuild"]
  /\ Goto(r, "save")
  /\ UNCHANGED <<summary, disk, next, req, iter, retry, open, turn, snap, work,
                 boundVars, cleared>>

AddAnswer(r) ==
  /\ pc[r] = "answer"
  /\ Add(Assistant(next, 0))
  /\ after' = [after EXCEPT ![r] = "summarize"]
  /\ Goto(r, "save")
  /\ UNCHANGED <<summary, disk, req, iter, retry, open, turn, snap, work, boundVars, ghostVars>>

(* maybeSummarize, the end of a round: LoadOrStore lets one summarizer in  *)
(* at a time.                                                              *)
maybeSummarize(r) ==
  /\ pc[r] = "summarize"
  /\ \/ /\ pc[Summarizer] = "idle"
        /\ summaries < MaxSummaries
        /\ summaries' = summaries + 1
        /\ pc' = [pc EXCEPT ![r] = "idle", ![Summarizer] = "history"]
     \/ /\ Goto(r, "idle")
        /\ UNCHANGED summaries
  /\ EndRound(r)
  /\ UNCHANGED <<storeVars, snap, work, rounds, troubles, ghostVars>>

NobodyHoldsACopy == \A p \in Savers : work[p] = Empty /\ snap[p] = Empty

(* The summary that /clear leaves.  (Faulty form: the old one.)            *)
Kept == summary
AfterClear == NoSummary

(* The command /clear, which the message loop handles between two rounds. *)
ClearSession(r) ==
  /\ r = Loop
  /\ pc[r] = "idle"
  /\ Trouble
  /\ cleared' = IF NobodyHoldsACopy THEN cleared \cup Numbers(msgs) \cup summary
                                     ELSE cleared
  /\ lost' = lost \cup Numbers(msgs) \cup summary
  /\ msgs' = <<>>
  /\ summary' = AfterClear
  /\ Goto(r, "save")
  /\ UNCHANGED <<disk, next, roundVars, snap, work, rounds, summaries>>

-----------------------------------------------------------------------------
(* Save: a copy under the read lock, then a temporary file and a rename.   *)

Snapshot(p) ==
  /\ pc[p] = "save"
  /\ snap' = [snap EXCEPT ![p] = [msgs |-> msgs, summary |-> summary]]
  /\ work' = [work EXCEPT ![p] = Empty]
  /\ Goto(p, "rename")
  /\ UNCHANGED <<storeVars, roundVars, boundVars, ghostVars>>

Saved(p) == IF p = Summarizer THEN "idle" ELSE after[p]

Rename(p) ==
  /\ pc[p] = "rename"
  /\ disk' = snap[p]
  /\ snap' = [snap EXCEPT ![p] = Empty]
  /\ Goto(p, Saved(p))
  /\ UNCHANGED <<msgs, summary, next, roundVars, work, boundVars, ghostVars>>

(* Writing fails; no caller looks at the error. *)
SaveFails(p) ==
  /\ pc[p] = "rename"
  /\ Trouble
  /\ snap' = [snap EXCEPT ![p] = Empty]
  /\ Goto(p, Saved(p))
  /\ UNCHANGED <<storeVars, roundVars, work, rounds, summaries, ghostVars>>

-----------------------------------------------------------------------------
(* summarizeSession. *)

(* What is asked to be summarized: user messages and assistant turns but   *)
(* the last KeepLast messages.                                             *)
ToSummarize(h) ==
  {h[i].n : i \in {j \in 1 .. Len(h) - KeepLast : h[j].role # "tool"}}

(* The order of the summarizer's updates.  (Faulty form: the other.)       *)
TruncateFirst == <<"Truncate", "SetSummary">>
UpdateOrder == <<"SetSummary", "Truncate">>

(* GetHistory. *)
SumReadHistory ==
  /\ pc[Summarizer] = "history"
  /\ work' = [work EXCEPT ![Summarizer] = [msgs |-> msgs, summary |-> NoSummary]]
  /\ Goto(Summarizer, "old")
  /\ UNCHANGED <<storeVars, roundVars, snap, boundVars, ghostVars>>

GivesUp == /\ Goto(Summarizer, "idle")
           /\ work' = [work EXCEPT ![Summarizer] = Empty]

(* GetSummary, and the guards that end the work before the LLM is asked. *)
SumReadSummary ==
  /\ pc[Summarizer] = "old"
  /\ IF ToSummarize(work[Summarizer].msgs) = {}
     THEN GivesUp
     ELSE /\ work' = [work EXCEPT ![Summarizer].summary = summary]
          /\ Goto(Summarizer, "ask")
  /\ UNCHANGED <<storeVars, roundVars, snap, boundVars, ghostVars>>

(* The LLM summarizes: one part together with the existing summary, or two *)
(* parts without it, of which any may fail.  An empty result ends the work.*)
SumAsk ==
  LET new == ToSummarize(work[Summarizer].msgs)
      old == work[Summarizer].summary
      done(result) == /\ work' = [work EXCEPT ![Summarizer].summary = result]
                      /\ Goto(Summarizer, UpdateOrder[1])
  IN
  /\ pc[Summarizer] = "ask"
  /\ \/ GivesUp
     \/ Cardinality(new) <= BatchMax /\ done(new \cup old)
     \/ Cardinality(new) > BatchMax /\ \E parts \in SUBSET new : done(parts)
  /\ UNCHANGED <<storeVars, roundVars, snap, boundVars, ghostVars>>

Updated(step) == IF step = UpdateOrder[1] THEN UpdateOrder[2] ELSE "save"

SetSummary ==
  /\ pc[Summarizer] = "SetSummary"
  /\ summary' = work[Summarizer].summary
  /\ lost' = lost \cup (summary \ summary')
  /\ Goto(Summarizer, Updated("SetSummary"))
  /\ UNCHANGED <<msgs, disk, next, roundVars, snap, work, boundVars, cleared>>

(* Messages that came while the LLM was at work are not summarized. *)
Truncate ==
  /\ pc[Summarizer] = "Truncate"
  /\ msgs' = TruncateHistory(msgs)
  /\ lost' = lost \cup (Numbers(msgs) \ (Numbers(msgs') \cup work[Summarizer].summary))
  /\ Goto(Summarizer, Updated("Truncate"))
  /\ UNCHANGED <<summary, disk, next, roundVars, snap, work, boundVars, cleared>>

-----------------------------------------------------------------------------
(* The process dies, and the next one loads the file, which may still have *)
(* what was cleared.                                                       *)
Crash ==
  /\ Trouble
  /\ msgs' = disk.msgs
  /\ summary' = disk.summary
  /\ cleared' = {}
  /\ lost' = lost \cup ((1 .. next - 1) \ (Numbers(disk.msgs) \cup disk.summary))
  /\ pc' = [p \in Savers |-> "idle"]
  /\ after' = [r \in Runners |-> "idle"]
  /\ req' = [r \in Runners |-> NoRequest]
  /\ iter' = [r \in Runners |-> 1]
  /\ retry' = [r \in Runners |-> 0]
  /\ open' = [r \in Runners |-> 0]
  /\ turn' = [r \in Runners |-> 0]
  /\ snap' = [p \in Savers |-> Empty]
  /\ work' = [p \in Savers |-> Empty]
  /\ UNCHANGED <<disk, next, rounds, summaries>>

-----------------------------------------------------------------------------

Round(r) ==
  \/ ReadFirst(r) \/ ReadSecond(r) \/ AddUser(r)
  \/ AsksForTools(r) \/ ExecuteTool(r) \/ Answers(r) \/ LLMFails(r)
  \/ ContextError(r) \/ CompressRead(r) \/ SetHistory(r)
  \/ AddAnswer(r) \/ maybeSummarize(r) \/ ClearSession(r)

Summarize == SumReadHistory \/ SumReadSummary \/ SumAsk \/ SetSummary \/ Truncate

Save(p) == Snapshot(p) \/ Rename(p) \/ SaveFails(p)

Next == \/ \E r \in Runners : Round(r)
        \/ Summarize
        \/ \E p \in Savers : Save(p)
        \/ Crash

Spec == Init /\ [][Next]_vars

-----------------------------------------------------------------------------
(* Properties. *)

InOrder(h) == \A i \in DOMAIN h : h[i].n < IF i = Len(h) THEN next ELSE h[i + 1].n

(* In memory and in the file every message appears at most once and in the *)
(* order of arrival, although compression writes back an older copy of the *)
(* history and a slow Save may overwrite a newer one (loop.go:929-976,     *)
(* manager.go:172-249).                                                    *)
InOrderOnce == InOrder(msgs) /\ InOrder(disk.msgs)

(* A request built from the session tells the LLM of everything said so    *)
(* far, in full or in the summary, but for what was given up for good: the *)
(* history is read before the summary, and the summary is written before   *)
(* the history is cut (loop.go:460-463, 1137-1141).                        *)
RequestHasNoGap ==
  \A r \in Runners : pc[r] \in {"user", "llm"} =>
    1 .. req[r].upto - 1 \subseteq Numbers(req[r].msgs) \cup req[r].summary \cup lost

(* The file has no gap either: whenever the process dies, what is loaded   *)
(* is a beginning of the conversation, its older part summarized           *)
(* (loop.go:1137-1141, manager.go:188-207).                                *)
DiskHasNoGap ==
  \A n \in Numbers(disk.msgs) :
    1 .. n \subseteq Numbers(disk.msgs) \cup disk.summary \cup lost

(* The three of them. *)
ConversationIsWhole == InOrderOnce /\ RequestHasNoGap /\ DiskHasNoGap

(* After /clear nothing of the old conversation comes back, neither in     *)
(* full nor in the summary, unless the summarizer, a compression or a Save *)
(* of another round held a copy of it then, or the process died            *)
(* (loop.go:1254-1262, 926-976, 1063-1141).                                *)
ClearIsFinal == cleared \cap (Numbers(msgs) \cup summary) = {}
=============================================================================
