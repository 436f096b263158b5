------------------------------ MODULE Fallback ------------------------------
(***************************************************************************)
(* FallbackChain.Execute and ChatStream on a shared CooldownTracker, under *)
(* the retry loop of runLLMIteration that compresses the history when the  *)
(* error "is a context error".  Several rounds call at once.               *)
(*                                                                         *)
(* A failure of a provider has a kind, what ClassifyError makes of it, and *)
(* may mention one of the words the retry loop looks for: "token",         *)
(* "context", "invalidparameter", "length".  A request that is too large   *)
(* is a format error, or an unclassified one, that mentions one.           *)
(***************************************************************************)
EXTENDS Cooldown

CONSTANTS Callers,
          Candidates,    \* the providers of the candidates, in order
          Failures,      \* what a provider may answer with
          Modes,         \* "chat", "stream"
          CanStream,     \* the agent's provider streams
          MayCancel      \* contexts may be cancelled

ASSUME CandidatesAssumption == Candidates \in Seq(Providers) /\ Len(Candidates) > 1
ASSUME FailuresAssumption ==
  Failures \subseteq [kind : {"rate_limit", "timeout", "auth", "billing", "format", "unknown"},
                      words : BOOLEAN]
ASSUME ModesAssumption == Modes \subseteq {"chat", "stream"} /\ CanStream \in BOOLEAN

VARIABLES pc,         \* idle, try, running, returned
          mode,
          attempts,   \* of the current pass over the candidates
          result,     \* "", ok, cancelled, aborted, exhausted
          mentions,   \* the error has one of the words
          cancelled,
          retry,
          tooLarge,   \* history: a provider said so in this call
          compressed  \* history: the call has compressed the history

callVars == <<pc, mode, attempts, result, mentions, cancelled, retry, tooLarge, compressed>>
vars == <<trackerVars, callVars>>

MaxRetries == 2
Attempt == [what : {"skipped", "unsupported", "failed"}, words : BOOLEAN]
Retriable(f) == f.kind \notin {"format", "unknown"}
TooLarge(f) == f.kind \in {"format", "unknown"} /\ f.words

Init ==
  /\ TrackerInit
  /\ pc = [c \in Callers |-> "idle"]
  /\ mode = [c \in Callers |-> "chat"]
  /\ attempts = [c \in Callers |-> <<>>]
  /\ result = [c \in Callers |-> ""]
  /\ mentions = [c \in Callers |-> FALSE]
  /\ cancelled = [c \in Callers |-> FALSE]
  /\ retry = [c \in Callers |-> 0]
  /\ tooLarge = [c \in Callers |-> FALSE]
  /\ compressed = [c \in Callers |-> FALSE]

Provider(c) == Candidates[Len(attempts[c]) + 1]

Returns(c, r, words) ==
  /\ pc' = [pc EXCEPT ![c] = "returned"]
  /\ result' = [result EXCEPT ![c] = r]
  /\ mentions' = [mentions EXCEPT ![c] = words]

(* An attempt is recorded, and the next candidate is tried if there is one. *)
Attempted(c, entry) ==
  LET all == Append(attempts[c], entry)
  IN  /\ attempts' = [attempts EXCEPT ![c] = all]
      /\ IF Len(all) < Len(Candidates)
         THEN pc' = [pc EXCEPT ![c] = "try"] /\ UNCHANGED <<result, mentions>>
         ELSE Returns(c, "exhausted", \E k \in DOMAIN all : all[k].words)

Call(c, m) ==
  /\ pc[c] = "idle"
  /\ pc' = [pc EXCEPT ![c] = "try"]
  /\ mode' = [mode EXCEPT ![c] = m]
  /\ UNCHANGED <<trackerVars, attempts, result, mentions, cancelled, retry, tooLarge, compressed>>

Cancel(c) ==
  /\ MayCancel
  /\ pc[c] \in {"try", "running"}
  /\ ~cancelled[c]
  /\ cancelled' = [cancelled EXCEPT ![c] = TRUE]
  /\ UNCHANGED <<trackerVars, pc, mode, attempts, result, mentions, retry, tooLarge, compressed>>

Unsupported(c) == mode[c] = "stream" /\ ~CanStream

(* The loop's head: a cancelled context, a cooldown, no streamer, or a run. *)
Abort(c) ==
  /\ pc[c] = "try"
  /\ cancelled[c]
  /\ Returns(c, "cancelled", TRUE)
  /\ UNCHANGED <<trackerVars, mode, attempts, cancelled, retry, tooLarge, compressed>>

Skip(c) ==
  /\ pc[c] = "try"
  /\ ~cancelled[c]
  /\ ~IsAvailable(Provider(c))
  /\ Attempted(c, [what |-> "skipped", words |-> FALSE])
  /\ UNCHANGED <<trackerVars, mode, cancelled, retry, tooLarge, compressed>>

NoStreamer(c) ==
  /\ pc[c] = "try"
  /\ ~cancelled[c]
  /\ IsAvailable(Provider(c))
  /\ Unsupported(c)
  /\ Attempted(c, [what |-> "unsupported", words |-> FALSE])
  /\ UNCHANGED <<trackerVars, mode, cancelled, retry, tooLarge, compressed>>

Run(c) ==
  /\ pc[c] = "try"
  /\ ~cancelled[c]
  /\ IsAvailable(Provider(c))
  /\ ~Unsupported(c)
  /\ pc' = [pc EXCEPT ![c] = "running"]
  /\ UNCHANGED <<trackerVars, mode, attempts, result, mentions, cancelled, retry, tooLarge,
                 compressed>>

Succeeds(c) ==
  /\ pc[c] = "running"
  /\ MarkSuccess(Provider(c))
  /\ Returns(c, "ok", FALSE)
  /\ UNCHANGED <<mode, attempts, cancelled, retry, tooLarge, compressed>>

(* An error with the context cancelled, not classified or not retriable    *)
(* ends the pass; any other marks the provider and goes on.                *)
Fails(c, f) ==
  /\ pc[c] = "running"
  /\ tooLarge' = [tooLarge EXCEPT ![c] = @ \/ (TooLarge(f) /\ ~cancelled[c])]
  /\ \/ /\ cancelled[c]
        /\ Returns(c, "cancelled", TRUE)
        /\ UNCHANGED <<trackerVars, attempts>>
     \/ /\ ~cancelled[c]
        /\ ~Retriable(f)
        /\ Returns(c, "aborted", f.words)
        /\ UNCHANGED <<trackerVars, attempts>>
     \/ /\ ~cancelled[c]
        /\ Retriable(f)
        /\ MarkFailure(Provider(c), f.kind = "billing")
        /\ Attempted(c, [what |-> "failed", words |-> f.words])
  /\ UNCHANGED <<mode, cancelled, retry, compressed>>

(* Whether the retry loop goes round again.  (Faulty forms: for ever; for  *)
(* any error.)                                                             *)
AnyError(c) == result[c] # "ok" /\ retry[c] < MaxRetries
Always(c) == mentions[c]
MayRetry(c) == mentions[c] /\ retry[c] < MaxRetries

(* forceCompression, and the next pass with what is left of the history. *)
CompressAndRetry(c) ==
  /\ pc[c] = "returned"
  /\ MayRetry(c)
  /\ compressed' = [compressed EXCEPT ![c] = TRUE]
  /\ retry' = [retry EXCEPT ![c] = AtMost(@ + 1, MaxRetries)]
  /\ attempts' = [attempts EXCEPT ![c] = <<>>]
  /\ result' = [result EXCEPT ![c] = ""]
  /\ mentions' = [mentions EXCEPT ![c] = FALSE]
  /\ pc' = [pc EXCEPT ![c] = "try"]
  /\ UNCHANGED <<trackerVars, mode, cancelled, tooLarge>>

Finish(c) ==
  /\ pc[c] = "returned"
  /\ ~MayRetry(c)
  /\ pc' = [pc EXCEPT ![c] = "idle"]
  /\ attempts' = [attempts EXCEPT ![c] = <<>>]
  /\ result' = [result EXCEPT ![c] = ""]
  /\ mentions' = [mentions EXCEPT ![c] = FALSE]
  /\ cancelled' = [cancelled EXCEPT ![c] = FALSE]
  /\ retry' = [retry EXCEPT ![c] = 0]
  /\ tooLarge' = [tooLarge EXCEPT ![c] = FALSE]
  /\ compressed' = [compressed EXCEPT ![c] = FALSE]
  /\ mode' = [mode EXCEPT ![c] = "chat"]
  /\ UNCHANGED trackerVars

Tick == TickTracker /\ UNCHANGED callVars

Answered(c) == Succeeds(c) \/ \E f \in Failures : Fails(c, f)
Advances(c) == Abort(c) \/ Skip(c) \/ NoStreamer(c) \/ Run(c) \/ CompressAndRetry(c) \/ Finish(c)

Next ==
  \/ \E c \in Callers :
       \/ \E m \in Modes : Call(c, m)
       \/ Cancel(c) \/ Abort(c) \/ Skip(c) \/ NoStreamer(c) \/ Run(c) \/ Succeeds(c)
       \/ \E f \in Failures : Fails(c, f)
       \/ CompressAndRetry(c) \/ Finish(c)
  \/ Tick

Spec == Init /\ [][Next]_vars

-----------------------------------------------------------------------------
(* Properties. *)

(* The type of every variable. *)
TypeOK ==
  /\ TrackerTypeOK
  /\ pc \in [Callers -> {"idle", "try", "running", "returned"}]
  /\ mode \in [Callers -> Modes \cup {"chat"}]
  /\ attempts \in [Callers -> Seq(Attempt)]
  /\ \A c \in Callers : pc[c] \in {"try", "running"} => Len(attempts[c]) < Len(Candidates)
  /\ result \in [Callers -> {"", "ok", "cancelled", "aborted", "exhausted"}]
  /\ retry \in [Callers -> 0..MaxRetries]
  /\ cancelled \in [Callers -> BOOLEAN]
  /\ mentions \in [Callers -> BOOLEAN]
  /\ compressed \in [Callers -> BOOLEAN]

(* A call that nobody cancels compresses the history only if the request  *)
(* was too large (loop.go:669, "Retry loop for context/token errors"), as  *)
(* long as no other error mentions one of the words.                       *)
OnlyTooLargeIsCompressed ==
  \A c \in Callers : compressed[c] /\ ~cancelled[c] => tooLarge[c]
=============================================================================
