--------------------------- MODULE SessionHistory ---------------------------
(***************************************************************************)
(* The operations on a conversation's history: what TruncateHistory and    *)
(* forceCompression leave of it (pkg/session/manager.go, agent/loop.go)    *)
(* and what sanitizeHistoryForProvider lets through to the LLM             *)
(* (pkg/agent/context.go).                                                 *)
(*                                                                         *)
(* A message is its number in the order of arrival, its role, the number   *)
(* of tool calls an assistant turn asks for, and the turn a tool result    *)
(* belongs to.  The contents decide nothing here.                          *)
(***************************************************************************)
EXTENDS Naturals, Sequences, SequencesExt

CONSTANTS KeepLast,   \* messages kept for continuity (4 in the code)
          MaxCalls    \* bound: tool calls of one assistant turn

User(n) == [n |-> n, role |-> "user", calls |-> 0, of |-> 0]
Assistant(n, calls) == [n |-> n, role |-> "assistant", calls |-> calls, of |-> 0]
ToolResult(n, turn) == [n |-> n, role |-> "tool", calls |-> 0, of |-> turn]

Numbers(h) == {h[i].n : i \in DOMAIN h}
HasCalls(m) == m.role = "assistant" /\ m.calls > 0

-----------------------------------------------------------------------------
(* sanitizeHistoryForProvider. *)

(* An assistant turn with calls that only tool results separate from the   *)
(* end.  (Faulty form: it must be the last message.)                       *)
LastHasCalls(kept) == kept # <<>> /\ HasCalls(Last(kept))
HasParent(kept) ==
  \E i \in DOMAIN kept : /\ HasCalls(kept[i])
                         /\ \A j \in i + 1 .. Len(kept) : kept[j].role = "tool"

(* What may come before an assistant turn with calls. *)
ValidBefore(kept) == kept # <<>> /\ Last(kept).role \in {"user", "tool"}

Passes(kept, m) ==
  CASE m.role = "tool" -> HasParent(kept)
    [] HasCalls(m)     -> ValidBefore(kept)
    [] OTHER           -> TRUE

(* The loop over the history: what is kept of its first n messages. *)
Scan(h) ==
  LET kept[n \in 0 .. Len(h)] ==
        IF n = 0 THEN <<>>
        ELSE IF Passes(kept[n - 1], h[n]) THEN Append(kept[n - 1], h[n])
        ELSE kept[n - 1]
  IN  kept[Len(h)]

(* An assistant turn at the very end has lost its results.  (Faulty form:  *)
(* any assistant turn at the end is dropped.)                              *)
DropLastAssistant(kept) ==
  IF kept # <<>> /\ Last(kept).role = "assistant" THEN Front(kept) ELSE kept
DropTrailing(kept) ==
  IF kept # <<>> /\ HasCalls(Last(kept)) THEN Front(kept) ELSE kept

sanitizeHistoryForProvider(h) == DropTrailing(Scan(h))

-----------------------------------------------------------------------------
(* TruncateHistory(key, KeepLast). *)
TruncateHistory(h) ==
  IF Len(h) <= KeepLast THEN h ELSE SubSeq(h, Len(h) - KeepLast + 1, Len(h))

(* forceCompression: messages 2 to Len(h) - 1 are the conversation, of     *)
(* which the first CutPoint(h) are dropped: half of it, and the tool       *)
(* results that follow, but never the last one.  (Faulty form: half of it  *)
(* and no more.)                                                           *)
HalfWay(h) == (Len(h) - 2) \div 2
CutPoint(h) ==
  LET conversation == Len(h) - 2 IN
  CHOOSE mid \in conversation \div 2 .. conversation - 1 :
    /\ mid = conversation - 1 \/ h[mid + 2].role # "tool"
    /\ \A m \in conversation \div 2 .. mid - 1 : h[m + 2].role = "tool"

(* What is left. *)
Compressed(h, mid) ==
  [i \in 1 .. Len(h) - mid |-> IF i = 1 THEN h[1] ELSE h[i + mid]]

(* The history after forceCompression; it leaves short histories alone. *)
Compress(h) == IF Len(h) <= KeepLast THEN h ELSE Compressed(h, CutPoint(h))
=============================================================================
