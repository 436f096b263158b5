------------------------------ MODULE Histories ------------------------------
(***************************************************************************)
(* SessionHistory on every history, whatever its order of roles:           *)
(* truncation and concurrent rounds can leave any.                         *)
(***************************************************************************)
EXTENDS SessionHistory

CONSTANTS HistoryCalls,  \* bound: tool calls of one assistant turn
          MaxHistory     \* bound: length of the histories

ASSUME HistoryAssumption ==
  {KeepLast, HistoryCalls, MaxHistory} \subseteq Nat /\ KeepLast >= 2

VARIABLE hist            \* the history under consideration

HistoryInit == hist = <<>>

Grow == /\ Len(hist) < MaxHistory
        /\ LET n == Len(hist) + 1 IN
           hist' \in {Append(hist, m) : m \in {User(n), ToolResult(n, 0)}
                                             \cup {Assistant(n, k) : k \in 0..HistoryCalls}}

HistorySpec == HistoryInit /\ [][Grow]_hist

-----------------------------------------------------------------------------
Sanitized == sanitizeHistoryForProvider(hist)

(* The reference.  A set S of positions of the history makes the message   *)
(* at i count: a tool result behind an assistant turn with calls that      *)
(* counts, with nothing but results between them; an assistant turn with   *)
(* calls right behind a user message or a result, of those that count.     *)
Counts(i, S) ==
  CASE hist[i].role = "tool" ->
         \E p \in S : /\ p < i /\ HasCalls(hist[p])
                     /\ \A q \in S : p < q /\ q < i => hist[q].role = "tool"
    [] HasCalls(hist[i]) ->
         \E p \in S : /\ p < i /\ hist[p].role # "assistant"
                     /\ \A q \in S : q < i => q <= p
    [] OTHER -> TRUE
CountedBy(S) == S \subseteq DOMAIN hist /\ \A i \in DOMAIN hist : i \in S <=> Counts(i, S)

(* Those that count are sent, but for a turn with calls that is the last.  *)
WithoutTrailing(S) == {i \in S : ~(HasCalls(hist[i]) /\ \A q \in S : q <= i)}

(* What is sent are the messages the reference names, which names exactly  *)
(* one set of them, and in their order (context.go:188-258).               *)
AgreesWithReference ==
  /\ \E S \in SUBSET DOMAIN hist : CountedBy(S)
  /\ \A S \in SUBSET DOMAIN hist : CountedBy(S) => Numbers(Sanitized) = WithoutTrailing(S)
  /\ \A i \in 1 .. Len(Sanitized) - 1 : Sanitized[i].n < Sanitized[i + 1].n

(* No user message and no answer without calls is ever withheld from the   *)
(* LLM, whatever surrounds it (context.go:238-255).                        *)
NothingSaidIsWithheld ==
  \A i \in DOMAIN hist :
    hist[i].role # "tool" /\ ~HasCalls(hist[i]) => hist[i].n \in Numbers(Sanitized)

(* Compression keeps the first and the last message, never grows the       *)
(* history, and what it leaves starts with no tool result that the cut     *)
(* separated from its turn, unless the conversation ends with it           *)
(* (loop.go:943-971).                                                      *)
CompressionCutsClean ==
  LET c == Compress(hist) IN
  Len(hist) > KeepLast =>
    /\ c[1] = hist[1] /\ Last(c) = Last(hist)
    /\ Len(c) <= Len(hist) /\ Len(c) >= 3
    /\ c[2].role = "tool" => Len(c) = 3

(* What is sent of a history is what the reference says, and compression   *)
(* cuts no turn in two (context.go:188-258, loop.go:943-971).              *)
HistoryIsSound == AgreesWithReference /\ NothingSaidIsWithheld /\ CompressionCutsClean
=============================================================================
