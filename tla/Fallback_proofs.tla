--------------------------- MODULE Fallback_proofs ---------------------------
(***************************************************************************)
(* Proofs about the fallback chain and its cooldown tracker, for any       *)
(* number of providers, candidates and concurrent calls, any rising steps  *)
(* and any window that no step exceeds: waits are served in full and end   *)
(* when they are over, under any use of the tracker and so under that of   *)
(* the calls; and only a request that is too large is compressed.          *)
(***************************************************************************)
EXTENDS Fallback, SequenceTheorems, TLAPS

(***************************************************************************)
(* The tracker.                                                            *)
(***************************************************************************)

(* What is left of a wait that was imposed with the count at n: it is at   *)
(* most the wait for that count, and it ends with the window of the last   *)
(* failure, so that a failure outside the window finds no wait running.    *)
Bounded(left, n, steps, since) ==
  left > 0 => n > 0 /\ left <= steps[AtMost(n, Len(steps))] /\ left + since <= Window

Waits ==
  \A p \in Providers :
    /\ owed[p] = AtLeast(cooldownLeft[p], disabledLeft[p])
    /\ Bounded(cooldownLeft[p], errorCount[p], Standard, sinceFailure[p])
    /\ Bounded(disabledLeft[p], billingCount[p], Billing, sinceFailure[p])

IInv == TrackerTypeOK /\ Waits

(* A step of a backoff is positive, within the window, and not below the   *)
(* step of a smaller count.                                                *)
LEMMA StepIsRising ==
  ASSUME NEW s, Rising(s), NEW n \in Nat \ {0}, NEW m \in Nat \ {0}, n <= m
  PROVE  /\ s[AtMost(n, Len(s))] \in Nat \ {0}
         /\ s[AtMost(n, Len(s))] <= Window
         /\ s[AtMost(n, Len(s))] <= s[AtMost(m, Len(s))]
<1>1. Len(s) \in Nat \ {0} BY DEF Rising
<1>2. AtMost(n, Len(s)) \in 1..Len(s) /\ AtMost(m, Len(s)) \in 1..Len(s)
  BY <1>1 DEF AtMost
<1>3. AtMost(n, Len(s)) <= AtMost(m, Len(s)) BY <1>1 DEF AtMost
<1> QED BY <1>1, <1>2, <1>3 DEF Rising

LEMMA StepsAreCounted == Steps \in Nat \ {0}
  BY StepsAssumption DEF Steps, AtLeast, Rising

(* The count after a failure is positive and not below what it was. *)
LEMMA CountGrows ==
  ASSUME NEW n \in 0..Steps
  PROVE  OneMore(n) \in 1..Steps /\ n <= OneMore(n)
BY StepsAreCounted DEF OneMore, AtMost

(* The wait after one more failure is at least the one that is running. *)
LEMMA WaitGrows ==
  ASSUME NEW s, Rising(s), NEW n \in 0..Steps, NEW left \in Nat,
         NEW since \in 0..(Window + 1), Bounded(left, n, s, since),
         NEW k, k = IF since > Window THEN 0 ELSE n
  PROVE  /\ s[AtMost(OneMore(k), Len(s))] \in Nat
         /\ s[AtMost(OneMore(k), Len(s))] >= left
         /\ Bounded(s[AtMost(OneMore(k), Len(s))], OneMore(k), s, 0)
<1> USE WindowAssumption
<1>1. k \in 0..Steps BY StepsAreCounted
<1>2. OneMore(k) \in Nat \ {0} /\ k <= OneMore(k)
  BY <1>1, CountGrows, StepsAreCounted
<1>3. /\ s[AtMost(OneMore(k), Len(s))] \in Nat \ {0}
      /\ s[AtMost(OneMore(k), Len(s))] <= Window
  BY <1>2, StepIsRising
<1>4. s[AtMost(OneMore(k), Len(s))] >= left
  <2>1. CASE left = 0 BY <2>1, <1>3
  <2>2. CASE left > 0
    <3>1. n > 0 /\ left <= s[AtMost(n, Len(s))] /\ k = n
      BY <2>2 DEF Bounded
    <3>2. n \in Nat \ {0} BY <3>1, StepsAreCounted
    <3>3. s[AtMost(n, Len(s))] \in Nat /\ s[AtMost(n, Len(s))] <= s[AtMost(OneMore(k), Len(s))]
      BY <3>1, <3>2, <1>2, StepIsRising
    <3> QED BY <3>1, <3>3, <1>3
  <2> QED BY <2>1, <2>2
<1> QED BY <1>2, <1>3, <1>4 DEF Bounded

LEMMA Initially == TrackerInit => IInv
<1> SUFFICES ASSUME TrackerInit PROVE IInv OBVIOUS
<1> USE WindowAssumption, StepsAreCounted DEF TrackerInit
<1>1. TrackerTypeOK BY DEF TrackerTypeOK
<1>2. ASSUME NEW p \in Providers
      PROVE  owed[p] = 0 /\ cooldownLeft[p] = 0 /\ disabledLeft[p] = 0
  OBVIOUS
<1>3. \A n, steps, since : Bounded(0, n, steps, since) BY DEF Bounded
<1>4. AtLeast(0, 0) = 0 BY DEF AtLeast
<1>5. Waits
  <2> HIDE DEF TrackerInit
  <2> QED BY <1>2, <1>3, <1>4 DEF Waits
<1> QED BY <1>1, <1>5 DEF IInv

LEMMA FailureKeeps ==
  ASSUME IInv, NEW p \in Providers, NEW billing \in BOOLEAN, MarkFailure(p, billing)
  PROVE  IInv'
<1> DEFINE n == OneMore(Counted(errorCount, p))
           b == OneMore(Counted(billingCount, p))
           standard == CalculateStandardCooldown(n)
           disable == CalculateBillingCooldown(b)
<1> USE WindowAssumption, StepsAreCounted
<1>1. TrackerTypeOK /\ Waits BY DEF IInv
<1>2. /\ errorCount[p] \in 0..Steps /\ billingCount[p] \in 0..Steps
      /\ cooldownLeft[p] \in Nat /\ disabledLeft[p] \in Nat
      /\ sinceFailure[p] \in 0..(Window + 1) /\ owed[p] \in Nat
  BY <1>1 DEF TrackerTypeOK
<1>3. /\ Counted(errorCount, p) \in 0..Steps /\ Counted(billingCount, p) \in 0..Steps
      /\ Counted(errorCount, p) = IF sinceFailure[p] > Window THEN 0 ELSE errorCount[p]
      /\ Counted(billingCount, p) = IF sinceFailure[p] > Window THEN 0 ELSE billingCount[p]
  BY <1>2 DEF Counted
<1>4. n \in 1..Steps /\ b \in 1..Steps BY <1>3, CountGrows
<1>5. /\ Bounded(cooldownLeft[p], errorCount[p], Standard, sinceFailure[p])
      /\ Bounded(disabledLeft[p], billingCount[p], Billing, sinceFailure[p])
      /\ owed[p] = AtLeast(cooldownLeft[p], disabledLeft[p])
  BY <1>1 DEF Waits
<1>6. standard \in Nat /\ standard >= cooldownLeft[p] /\ Bounded(standard, n, Standard, 0)
  BY <1>2, <1>3, <1>5, StepsAssumption, WaitGrows DEF CalculateStandardCooldown
<1>7. disable \in Nat /\ disable >= disabledLeft[p] /\ Bounded(disable, b, Billing, 0)
  BY <1>2, <1>3, <1>5, StepsAssumption, WaitGrows DEF CalculateBillingCooldown
(* What the failure does not set runs on: its count is unchanged unless    *)
(* the window is over, and then nothing is left of it.                     *)
<1>8. Bounded(disabledLeft[p], Counted(billingCount, p), Billing, 0)
  BY <1>2, <1>3, <1>5 DEF Bounded
<1>9. Bounded(cooldownLeft[p], n, Standard, 0)
  <2>1. CASE cooldownLeft[p] = 0 BY <2>1 DEF Bounded
  <2>2. CASE cooldownLeft[p] > 0
    <3>1. standard = Standard[AtMost(n, Len(Standard))]
      BY DEF CalculateStandardCooldown
    <3>2. cooldownLeft[p] + sinceFailure[p] <= Window BY <2>2, <1>5 DEF Bounded
    <3> QED BY <3>1, <3>2, <1>2, <1>4, <1>6 DEF Bounded
  <2> QED BY <2>1, <2>2, <1>2
<1>10. /\ errorCount' = [errorCount EXCEPT ![p] = n]
       /\ billingCount' = [billingCount EXCEPT ![p] = IF billing THEN b
                                                     ELSE Counted(billingCount, p)]
       /\ disabledLeft' = [disabledLeft EXCEPT ![p] = IF billing THEN disable
                                                     ELSE disabledLeft[p]]
       /\ cooldownLeft' = [cooldownLeft EXCEPT ![p] = IF billing THEN cooldownLeft[p]
                                                     ELSE standard]
       /\ sinceFailure' = [sinceFailure EXCEPT ![p] = 0]
       /\ owed' = [owed EXCEPT ![p] = AtLeast(owed[p], IF billing THEN disable ELSE standard)]
  BY DEF MarkFailure, Untouched
<1> HIDE DEF n, b, standard, disable
<1>11. TrackerTypeOK'
  <2>1. AtLeast(owed[p], IF billing THEN disable ELSE standard) \in Nat
    BY <1>2, <1>6, <1>7 DEF AtLeast
  <2> QED BY <1>1, <1>2, <1>3, <1>4, <1>6, <1>7, <1>10, <2>1 DEF TrackerTypeOK
<1>12. Waits'
  <2> SUFFICES ASSUME NEW q \in Providers
               PROVE  /\ owed'[q] = AtLeast(cooldownLeft'[q], disabledLeft'[q])
                      /\ Bounded(cooldownLeft'[q], errorCount'[q], Standard, sinceFailure'[q])
                      /\ Bounded(disabledLeft'[q], billingCount'[q], Billing, sinceFailure'[q])
    BY DEF Waits, Bounded
  <2>1. CASE q # p
    <3>1. /\ owed'[q] = owed[q] /\ cooldownLeft'[q] = cooldownLeft[q]
          /\ disabledLeft'[q] = disabledLeft[q] /\ errorCount'[q] = errorCount[q]
          /\ billingCount'[q] = billingCount[q] /\ sinceFailure'[q] = sinceFailure[q]
      BY <1>1, <1>10, <2>1 DEF TrackerTypeOK
    <3> QED BY <3>1, <1>1 DEF Waits
  <2>2. CASE q = p /\ billing
    <3>1. /\ owed'[q] = AtLeast(owed[p], disable) /\ cooldownLeft'[q] = cooldownLeft[p]
          /\ disabledLeft'[q] = disable /\ errorCount'[q] = n
          /\ billingCount'[q] = b /\ sinceFailure'[q] = 0
      BY <1>1, <1>10, <2>2 DEF TrackerTypeOK
    <3>2. AtLeast(owed[p], disable) = AtLeast(cooldownLeft[p], disable)
      BY <1>2, <1>5, <1>7 DEF AtLeast
    <3> QED BY <3>1, <3>2, <1>7, <1>9
  <2>3. CASE q = p /\ ~billing
    <3>1. /\ owed'[q] = AtLeast(owed[p], standard) /\ cooldownLeft'[q] = standard
          /\ disabledLeft'[q] = disabledLeft[p] /\ errorCount'[q] = n
          /\ billingCount'[q] = Counted(billingCount, p) /\ sinceFailure'[q] = 0
      BY <1>1, <1>10, <2>3 DEF TrackerTypeOK
    <3>2. AtLeast(owed[p], standard) = AtLeast(standard, disabledLeft[p])
      BY <1>2, <1>5, <1>6 DEF AtLeast
    <3> QED BY <3>1, <3>2, <1>6, <1>8
  <2> QED BY <2>1, <2>2, <2>3
<1> QED BY <1>11, <1>12 DEF IInv

LEMMA SuccessKeeps ==
  ASSUME IInv, NEW p \in Providers, MarkSuccess(p)
  PROVE  IInv'
<1> USE WindowAssumption, StepsAreCounted
<1>1. TrackerTypeOK /\ Waits BY DEF IInv
<1>2. TrackerTypeOK' BY <1>1 DEF TrackerTypeOK, MarkSuccess, Lifted
<1>3. Waits'
  <2> SUFFICES ASSUME NEW q \in Providers
               PROVE  /\ owed'[q] = AtLeast(cooldownLeft'[q], disabledLeft'[q])
                      /\ Bounded(cooldownLeft'[q], errorCount'[q], Standard, sinceFailure'[q])
                      /\ Bounded(disabledLeft'[q], billingCount'[q], Billing, sinceFailure'[q])
    BY DEF Waits, Bounded
  <2>1. CASE q # p
    BY <2>1, <1>1 DEF TrackerTypeOK, MarkSuccess, Waits
  <2>2. CASE q = p
    BY <2>2, <1>1 DEF TrackerTypeOK, MarkSuccess, Lifted, Bounded, AtLeast
  <2> QED BY <2>1, <2>2
<1> QED BY <1>2, <1>3 DEF IInv

LEMMA TickKeeps ==
  ASSUME IInv, TickTracker
  PROVE  IInv'
<1> USE WindowAssumption, StepsAreCounted
<1>1. TrackerTypeOK /\ Waits BY DEF IInv
<1>2. \A n \in Nat : Decremented(n) \in Nat BY DEF Decremented
<1>3. \A n \in 0..(Window + 1) : AtMost(n + 1, Window + 1) \in 0..(Window + 1)
  BY DEF AtMost
<1>4. TrackerTypeOK'
  BY <1>1, <1>2, <1>3 DEF TrackerTypeOK, TickTracker, Passes
<1>5. Waits'
  <2> SUFFICES ASSUME NEW q \in Providers
               PROVE  /\ owed'[q] = AtLeast(cooldownLeft'[q], disabledLeft'[q])
                      /\ Bounded(cooldownLeft'[q], errorCount'[q], Standard, sinceFailure'[q])
                      /\ Bounded(disabledLeft'[q], billingCount'[q], Billing, sinceFailure'[q])
    BY DEF Waits, Bounded
  <2>1. /\ owed'[q] = Decremented(owed[q])
        /\ cooldownLeft'[q] = Decremented(cooldownLeft[q])
        /\ disabledLeft'[q] = Decremented(disabledLeft[q])
        /\ sinceFailure'[q] = AtMost(sinceFailure[q] + 1, Window + 1)
        /\ errorCount'[q] = errorCount[q] /\ billingCount'[q] = billingCount[q]
    BY DEF TickTracker, Passes
  <2>2. /\ errorCount[q] \in 0..Steps /\ billingCount[q] \in 0..Steps
        /\ cooldownLeft[q] \in Nat /\ disabledLeft[q] \in Nat
        /\ sinceFailure[q] \in 0..(Window + 1) /\ owed[q] \in Nat
    BY <1>1 DEF TrackerTypeOK
  <2>3. /\ owed[q] = AtLeast(cooldownLeft[q], disabledLeft[q])
        /\ Bounded(cooldownLeft[q], errorCount[q], Standard, sinceFailure[q])
        /\ Bounded(disabledLeft[q], billingCount[q], Billing, sinceFailure[q])
    BY <1>1 DEF Waits
  <2>4. owed'[q] = AtLeast(cooldownLeft'[q], disabledLeft'[q])
    BY <2>1, <2>2, <2>3 DEF AtLeast, Decremented
  <2>5. ASSUME NEW s, NEW n \in 1..Steps, Rising(s) PROVE s[AtMost(n, Len(s))] \in Nat
    BY <2>5, StepIsRising
  <2>6. ASSUME NEW s, Rising(s), NEW n \in 0..Steps, NEW left \in Nat,
               Bounded(left, n, s, sinceFailure[q])
        PROVE  Bounded(Decremented(left), n, s, AtMost(sinceFailure[q] + 1, Window + 1))
    <3>1. CASE Decremented(left) = 0 BY <3>1 DEF Bounded
    <3>2. CASE Decremented(left) # 0
      <4>1. left > 0 /\ Decremented(left) = left - 1 BY <3>2, <2>6 DEF Decremented
      <4>2. n \in 1..Steps /\ left <= s[AtMost(n, Len(s))] /\ left + sinceFailure[q] <= Window
        BY <4>1, <2>6 DEF Bounded
      <4>3. s[AtMost(n, Len(s))] \in Nat BY <4>2, <2>6, <2>5
      <4>4. AtMost(sinceFailure[q] + 1, Window + 1) = sinceFailure[q] + 1
        BY <4>1, <4>2, <2>2, <2>6 DEF AtMost
      <4>5. left - 1 <= s[AtMost(n, Len(s))] BY <4>2, <4>3, <2>6
      <4>6. (left - 1) + (sinceFailure[q] + 1) <= Window BY <4>2, <2>2, <2>6
      <4> QED BY <4>1, <4>2, <4>4, <4>5, <4>6 DEF Bounded
    <3> QED BY <3>1, <3>2
  <2> QED BY <2>1, <2>2, <2>3, <2>4, <2>6, StepsAssumption
<1> QED BY <1>4, <1>5 DEF IInv

(* The waits that are running are those imposed, and they end within the   *)
(* window.                                                                 *)
THEOREM TrackerInvariant == TrackerSpec => []IInv
<1>1. IInv /\ [TrackerNext]_trackerVars => IInv'
  <2> SUFFICES ASSUME IInv, [TrackerNext]_trackerVars PROVE IInv' OBVIOUS
  <2>1. ASSUME NEW p \in Providers, NEW billing \in BOOLEAN, MarkFailure(p, billing)
        PROVE  IInv'
    BY <2>1, FailureKeeps
  <2>2. ASSUME NEW p \in Providers, MarkSuccess(p) PROVE IInv'
    BY <2>2, SuccessKeeps
  <2>3. CASE TickTracker BY <2>3, TickKeeps
  <2>4. CASE UNCHANGED trackerVars
    BY <2>4 DEF IInv, TrackerTypeOK, Waits, Bounded, trackerVars
  <2> QED BY <2>1, <2>2, <2>3, <2>4 DEF TrackerNext
<1> QED BY Initially, <1>1, PTL DEF TrackerSpec

(* Every variable of the tracker keeps its type. *)
THEOREM TrackerTypeCorrect == TrackerSpec => []TrackerTypeOK
<1>1. IInv => TrackerTypeOK BY DEF IInv
<1> QED BY <1>1, TrackerInvariant, PTL

(* No wait is cut short: neither by a later failure of another kind with a *)
(* shorter step, nor by the end of the failure window.                     *)
THEOREM Served == TrackerSpec => []WaitsAreServed
<1>1. IInv => WaitsAreServed
  BY DEF IInv, TrackerTypeOK, Waits, WaitsAreServed, IsAvailable, AtLeast
<1> QED BY <1>1, TrackerInvariant, PTL

(* And no provider is kept unavailable beyond its waits. *)
THEOREM NotLonger == TrackerSpec => []NoLongerThanOwed
<1>1. IInv => NoLongerThanOwed
  BY DEF IInv, TrackerTypeOK, Waits, NoLongerThanOwed, IsAvailable, AtLeast
<1> QED BY <1>1, TrackerInvariant, PTL

-----------------------------------------------------------------------------
(***************************************************************************)
(* The calls use the tracker through its two operations only, on providers *)
(* of their candidates: what is proved of the tracker under any use holds  *)
(* under theirs.                                                           *)
(***************************************************************************)

(* Where a call is among the candidates; a call begins with none tried. *)
CallsOK ==
  /\ pc \in [Callers -> {"idle", "try", "running", "returned"}]
  /\ attempts \in [Callers -> Seq(Attempt)]
  /\ \A c \in Callers : pc[c] \in {"try", "running"} => Len(attempts[c]) < Len(Candidates)
  /\ \A c \in Callers : pc[c] = "idle" => attempts[c] = <<>>

LEMMA CandidateIsProvider ==
  ASSUME CallsOK, NEW c \in Callers, pc[c] \in {"try", "running"}
  PROVE  Provider(c) \in Providers
<1>1. attempts[c] \in Seq(Attempt) /\ Len(attempts[c]) < Len(Candidates) BY DEF CallsOK
<1>2. Len(attempts[c]) \in Nat BY <1>1
<1>3. Candidates \in Seq(Providers) /\ Len(Candidates) \in Nat BY CandidatesAssumption
<1>4. Len(attempts[c]) + 1 \in 1..Len(Candidates) BY <1>1, <1>2, <1>3
<1> QED BY <1>3, <1>4 DEF Provider

(* After an attempt there are more candidates, or the call has returned. *)
LEMMA AttemptedKeeps ==
  ASSUME CallsOK, NEW c \in Callers, pc[c] \in {"try", "running"},
         NEW entry \in Attempt, Attempted(c, entry)
  PROVE  CallsOK'
<1> DEFINE all == Append(attempts[c], entry)
<1>1. all \in Seq(Attempt) /\ Len(all) \in Nat BY DEF CallsOK
<1>2. attempts' = [attempts EXCEPT ![c] = all] BY DEF Attempted
<1>3. \/ Len(all) < Len(Candidates) /\ pc' = [pc EXCEPT ![c] = "try"]
      \/ pc' = [pc EXCEPT ![c] = "returned"]
  BY DEF Attempted, Returns
<1> HIDE DEF all
<1> QED BY <1>1, <1>2, <1>3 DEF CallsOK

LEMMA CallsInitially == Init => CallsOK
<1> SUFFICES ASSUME Init PROVE CallsOK OBVIOUS
<1>1. <<>> \in Seq(Attempt) OBVIOUS
<1>2. pc = [c \in Callers |-> "idle"] /\ attempts = [c \in Callers |-> <<>>] BY DEF Init
<1>3. \A c \in Callers : pc[c] = "idle" /\ attempts[c] = <<>> BY <1>2
<1>4. /\ pc \in [Callers -> {"idle", "try", "running", "returned"}]
      /\ attempts \in [Callers -> Seq(Attempt)]
  BY <1>1, <1>2
<1> QED BY <1>3, <1>4 DEF CallsOK

LEMMA CallsInductive == CallsOK /\ [Next]_vars => CallsOK'
<1> SUFFICES ASSUME CallsOK, [Next]_vars PROVE CallsOK' OBVIOUS
<1>1. ASSUME NEW c \in Callers, NEW m \in Modes, Call(c, m) PROVE CallsOK'
  <2>1. attempts[c] = <<>> BY <1>1 DEF Call, CallsOK
  <2>2. 0 < Len(Candidates) BY CandidatesAssumption
  <2> QED BY <1>1, <2>1, <2>2 DEF Call, CallsOK
<1>2. ASSUME NEW c \in Callers, Skip(c) \/ NoStreamer(c) PROVE CallsOK'
  BY <1>2, AttemptedKeeps DEF Skip, NoStreamer, Attempt
<1>3. ASSUME NEW c \in Callers, NEW f \in Failures, Fails(c, f) PROVE CallsOK'
  <2>1. f.words \in BOOLEAN BY FailuresAssumption
  <2>2. CASE UNCHANGED attempts /\ pc' = [pc EXCEPT ![c] = "returned"]
    BY <2>2 DEF CallsOK
  <2>3. CASE Attempted(c, [what |-> "failed", words |-> f.words])
    BY <1>3, <2>1, <2>3, AttemptedKeeps DEF Fails, Attempt
  <2> QED BY <1>3, <2>2, <2>3 DEF Fails, Returns
<1>4. ASSUME NEW c \in Callers, Abort(c) \/ Succeeds(c) PROVE CallsOK'
  BY <1>4 DEF Abort, Succeeds, Returns, CallsOK
<1>5. ASSUME NEW c \in Callers, Run(c) PROVE CallsOK'
  BY <1>5 DEF Run, CallsOK
<1>6. ASSUME NEW c \in Callers, CompressAndRetry(c) \/ Finish(c) PROVE CallsOK'
  <2>1. <<>> \in Seq(Attempt) /\ Len(<<>>) = 0 /\ 0 < Len(Candidates)
    BY CandidatesAssumption
  <2>2. attempts' = [attempts EXCEPT ![c] = <<>>] /\ pc' \in {[pc EXCEPT ![c] = "try"], [pc EXCEPT ![c] = "idle"]}
    BY <1>6 DEF CompressAndRetry, Finish
  <2> QED BY <2>1, <2>2 DEF CallsOK
<1>7. ASSUME NEW c \in Callers, Cancel(c) PROVE CallsOK'
  BY <1>7 DEF Cancel, CallsOK
<1>8. CASE Tick \/ UNCHANGED vars
  BY <1>8 DEF Tick, callVars, vars, CallsOK
<1> QED BY <1>1, <1>2, <1>3, <1>4, <1>5, <1>6, <1>7, <1>8 DEF Next

(* Every step of a call is a step of the tracker, or leaves it alone. *)
LEMMA StepOfTracker == CallsOK /\ [Next]_vars => [TrackerNext]_trackerVars
<1> SUFFICES ASSUME CallsOK, [Next]_vars PROVE [TrackerNext]_trackerVars OBVIOUS
<1>1. ASSUME NEW c \in Callers, Succeeds(c) PROVE TrackerNext
  BY <1>1, CandidateIsProvider DEF Succeeds, TrackerNext
<1>2. ASSUME NEW c \in Callers, NEW f \in Failures, Fails(c, f)
      PROVE  TrackerNext \/ UNCHANGED trackerVars
  <2>1. CASE MarkFailure(Provider(c), f.kind = "billing")
    <3>1. Provider(c) \in Providers BY <1>2, CandidateIsProvider DEF Fails
    <3>2. (f.kind = "billing") \in BOOLEAN OBVIOUS
    <3> QED BY <2>1, <3>1, <3>2 DEF TrackerNext
  <2> QED BY <1>2, <2>1 DEF Fails
<1>3. ASSUME NEW c \in Callers,
             \/ \E m \in Modes : Call(c, m)
             \/ Cancel(c) \/ Abort(c) \/ Skip(c) \/ NoStreamer(c) \/ Run(c)
             \/ CompressAndRetry(c) \/ Finish(c)
      PROVE  UNCHANGED trackerVars
  BY <1>3 DEF Call, Cancel, Abort, Skip, NoStreamer, Run, CompressAndRetry, Finish
<1>4. CASE Tick BY <1>4 DEF Tick, TrackerNext
<1>5. CASE UNCHANGED vars BY <1>5 DEF vars
<1> QED BY <1>1, <1>2, <1>3, <1>4, <1>5 DEF Next

(* The calls, seen at the tracker, are one of its uses. *)
THEOREM CallsUseTracker == Spec => TrackerSpec
<1>1. Init => TrackerInit BY DEF Init
<1> QED BY <1>1, CallsInitially, CallsInductive, StepOfTracker, PTL DEF Spec, TrackerSpec

(* Under concurrent calls no wait is cut short by a later failure. *)
THEOREM CallsServeWaits == Spec => []WaitsAreServed
  BY CallsUseTracker, Served, PTL

(* And no provider is held back for longer than a failure imposed. *)
THEOREM CallsAreNotHeldUp == Spec => []NoLongerThanOwed
  BY CallsUseTracker, NotLonger, PTL

-----------------------------------------------------------------------------
(***************************************************************************)
(* What the calls keep about their errors and retries.                     *)
(***************************************************************************)

CallsTyped ==
  /\ mode \in [Callers -> Modes \cup {"chat"}]
  /\ result \in [Callers -> {"", "ok", "cancelled", "aborted", "exhausted"}]
  /\ retry \in [Callers -> 0..MaxRetries]
  /\ cancelled \in [Callers -> BOOLEAN]
  /\ mentions \in [Callers -> BOOLEAN]
  /\ compressed \in [Callers -> BOOLEAN]
  /\ tooLarge \in [Callers -> BOOLEAN]

LEMMA RetriesBounded == MaxRetries \in Nat /\ 0 \in 0..MaxRetries
  BY DEF MaxRetries

(* What a call returns with is one of the results. *)
LEMMA ReturnTyped ==
  ASSUME CallsTyped, NEW c \in Callers,
         NEW r \in {"ok", "cancelled", "aborted", "exhausted"}, NEW words \in BOOLEAN,
         Returns(c, r, words)
  PROVE  /\ result' \in [Callers -> {"", "ok", "cancelled", "aborted", "exhausted"}]
         /\ mentions' \in [Callers -> BOOLEAN]
BY DEF Returns, CallsTyped

LEMMA AttemptedTyped ==
  ASSUME CallsTyped, NEW c \in Callers, NEW entry, Attempted(c, entry)
  PROVE  /\ result' \in [Callers -> {"", "ok", "cancelled", "aborted", "exhausted"}]
         /\ mentions' \in [Callers -> BOOLEAN]
<1> DEFINE all == Append(attempts[c], entry)
           words == \E k \in DOMAIN all : all[k].words
<1>1. words \in BOOLEAN OBVIOUS
<1>2. UNCHANGED <<result, mentions>> \/ Returns(c, "exhausted", words) BY DEF Attempted
<1> HIDE DEF words
<1> QED BY <1>1, <1>2, ReturnTyped DEF CallsTyped

LEMMA TypedInitially == Init => CallsTyped
<1> SUFFICES ASSUME Init PROVE CallsTyped OBVIOUS
<1>1. \A S, x : x \in S => [c \in Callers |-> x] \in [Callers -> S] OBVIOUS
<1>2. mode \in [Callers -> Modes \cup {"chat"}] BY DEF Init
<1>3. result \in [Callers -> {"", "ok", "cancelled", "aborted", "exhausted"}] BY DEF Init
<1>4. retry \in [Callers -> 0..MaxRetries] BY <1>1, RetriesBounded DEF Init
<1>5. /\ cancelled \in [Callers -> BOOLEAN] /\ mentions \in [Callers -> BOOLEAN]
      /\ compressed \in [Callers -> BOOLEAN] /\ tooLarge \in [Callers -> BOOLEAN]
  BY DEF Init
<1> QED BY <1>2, <1>3, <1>4, <1>5 DEF CallsTyped

LEMMA TypedInductive == CallsTyped /\ [Next]_vars => CallsTyped'
<1> SUFFICES ASSUME CallsTyped, [Next]_vars PROVE CallsTyped' OBVIOUS
<1>1. ASSUME NEW c \in Callers, NEW m \in Modes, Call(c, m) PROVE CallsTyped'
  BY <1>1 DEF Call, CallsTyped
<1>2. ASSUME NEW c \in Callers, Cancel(c) \/ Run(c) PROVE CallsTyped'
  BY <1>2 DEF Cancel, Run, CallsTyped
<1>3. ASSUME NEW c \in Callers, Abort(c) \/ Succeeds(c) PROVE CallsTyped'
  <2>1. Returns(c, "cancelled", TRUE) \/ Returns(c, "ok", FALSE)
    BY <1>3 DEF Abort, Succeeds
  <2> QED BY <1>3, <2>1, ReturnTyped DEF Abort, Succeeds, CallsTyped
<1>4. ASSUME NEW c \in Callers, Skip(c) \/ NoStreamer(c) PROVE CallsTyped'
  <2>1. PICK entry \in Attempt : Attempted(c, entry) BY <1>4 DEF Skip, NoStreamer, Attempt
  <2> QED BY <1>4, <2>1, AttemptedTyped DEF Skip, NoStreamer, CallsTyped
<1>5. ASSUME NEW c \in Callers, NEW f \in Failures, Fails(c, f) PROVE CallsTyped'
  <2>1. f.words \in BOOLEAN BY FailuresAssumption
  <2>2. \/ Returns(c, "cancelled", TRUE) \/ Returns(c, "aborted", f.words)
        \/ Attempted(c, [what |-> "failed", words |-> f.words])
    BY <1>5 DEF Fails
  <2>3. /\ result' \in [Callers -> {"", "ok", "cancelled", "aborted", "exhausted"}]
        /\ mentions' \in [Callers -> BOOLEAN]
    BY <2>1, <2>2, ReturnTyped, AttemptedTyped
  <2>4. tooLarge' = [tooLarge EXCEPT ![c] = @ \/ (TooLarge(f) /\ ~cancelled[c])]
    BY <1>5 DEF Fails
  <2>5. (tooLarge[c] \/ (TooLarge(f) /\ ~cancelled[c])) \in BOOLEAN OBVIOUS
  <2>6. tooLarge' \in [Callers -> BOOLEAN] BY <2>4, <2>5 DEF CallsTyped
  <2> QED BY <1>5, <2>3, <2>6 DEF Fails, CallsTyped
<1>6. ASSUME NEW c \in Callers, CompressAndRetry(c) PROVE CallsTyped'
  <2>1. retry[c] \in 0..MaxRetries BY DEF CallsTyped
  <2>2. AtMost(retry[c] + 1, MaxRetries) \in 0..MaxRetries BY <2>1, RetriesBounded DEF AtMost
  <2>3. retry' = [retry EXCEPT ![c] = AtMost(retry[c] + 1, MaxRetries)]
    BY <1>6 DEF CompressAndRetry
  <2>4. retry' \in [Callers -> 0..MaxRetries] BY <2>2, <2>3 DEF CallsTyped
  <2> QED BY <1>6, <2>4 DEF CompressAndRetry, CallsTyped
<1>7. ASSUME NEW c \in Callers, Finish(c) PROVE CallsTyped'
  BY <1>7, RetriesBounded DEF Finish, CallsTyped
<1>8. CASE Tick \/ UNCHANGED vars
  BY <1>8 DEF Tick, callVars, vars, CallsTyped
<1> QED BY <1>1, <1>2, <1>3, <1>4, <1>5, <1>6, <1>7, <1>8 DEF Next

(* Every variable of the tracker and of the calls keeps its type; the      *)
(* retries stay within their limit and the candidates within the list      *)
(* (fallback.go:99-190, loop.go:669-752).                                  *)
THEOREM CallsTypeCorrect == Spec => []TypeOK
<1>1. Init => CallsTyped BY TypedInitially
<1>2. CallsOK /\ CallsTyped /\ TrackerTypeOK => TypeOK BY DEF CallsOK, CallsTyped, TypeOK
<1> QED BY <1>1, <1>2, TypedInductive, CallsInitially, CallsInductive, CallsUseTracker,
           TrackerTypeCorrect, PTL DEF Spec

-----------------------------------------------------------------------------
(***************************************************************************)
(* Only a request that is too large is compressed.  This is about errors   *)
(* whose words tell the two apart: one that lets the chain go on to the    *)
(* next candidate mentions none of the words the retry loop looks for.     *)
(***************************************************************************)

WordsTell == \A f \in Failures : Retriable(f) => ~f.words

(* An error that mentions a word is of a cancelled call, or of a request   *)
(* that was too large: the attempts that were passed over mention none.    *)
NoWord(c) == \A k \in 1..Len(attempts[c]) : ~attempts[c][k].words
Told(c) == (mentions[c] \/ compressed[c]) /\ ~cancelled[c] => tooLarge[c]
WordsInv == \A c \in Callers : NoWord(c) /\ Told(c)

CallInv == CallsOK /\ CallsTyped /\ WordsInv

(* An attempt without a word adds none, also when it was the last one. *)
LEMMA AttemptWithoutWord ==
  ASSUME CallInv, NEW c \in Callers, NEW entry \in Attempt, ~entry.words,
         Attempted(c, entry), UNCHANGED <<compressed, cancelled>>,
         \A d \in Callers : tooLarge[d] => tooLarge'[d]
  PROVE  WordsInv'
<1> DEFINE all == Append(attempts[c], entry)
<1>1. attempts[c] \in Seq(Attempt) BY DEF CallInv, CallsOK
<1>2. /\ Len(all) = Len(attempts[c]) + 1 /\ Len(attempts[c]) \in Nat /\ DOMAIN all = 1..Len(all)
      /\ \A k \in 1..Len(attempts[c]) : all[k] = attempts[c][k]
      /\ all[Len(attempts[c]) + 1] = entry
  BY <1>1
<1>3. \A k \in 1..Len(all) : ~all[k].words
  <2> SUFFICES ASSUME NEW k \in 1..Len(all) PROVE ~all[k].words OBVIOUS
  <2>1. CASE k = Len(attempts[c]) + 1 BY <1>2, <2>1
  <2>2. CASE k \in 1..Len(attempts[c]) BY <1>2, <2>2 DEF CallInv, WordsInv, NoWord
  <2> QED BY <1>2, <2>1, <2>2
<1>4. /\ attempts' = [attempts EXCEPT ![c] = all]
      /\ UNCHANGED mentions \/ mentions' = [mentions EXCEPT ![c] = \E k \in DOMAIN all : all[k].words]
  BY DEF Attempted, Returns
<1>5. \A d \in Callers : mentions'[d] => mentions[d]
  BY <1>2, <1>3, <1>4 DEF CallInv, CallsTyped
<1>6. \A d \in Callers : NoWord(d)'
  BY <1>3, <1>4 DEF CallInv, CallsOK, WordsInv, NoWord
<1>7. \A d \in Callers : Told(d)' BY <1>5 DEF CallInv, WordsInv, Told
<1> QED BY <1>6, <1>7 DEF WordsInv

(* Every step of a call keeps it. *)
LEMMA WordsInductive ==
  ASSUME WordsTell, CallInv, [Next]_vars
  PROVE  WordsInv'
<1> USE DEF CallInv
<1>1. ASSUME NEW c \in Callers, NEW m \in Modes, Call(c, m) PROVE WordsInv'
  BY <1>1 DEF Call, WordsInv, NoWord, Told
<1>2. ASSUME NEW c \in Callers, Cancel(c) PROVE WordsInv'
  BY <1>2 DEF Cancel, WordsInv, NoWord, Told, CallsTyped
<1>3. ASSUME NEW c \in Callers, Abort(c) \/ Succeeds(c) PROVE WordsInv'
  BY <1>3 DEF Abort, Succeeds, Returns, WordsInv, NoWord, Told, CallsTyped
<1>4. ASSUME NEW c \in Callers, Skip(c) \/ NoStreamer(c) PROVE WordsInv'
  <2>1. PICK entry \in Attempt : ~entry.words /\ Attempted(c, entry)
    BY <1>4 DEF Skip, NoStreamer, Attempt
  <2> QED BY <1>4, <2>1, AttemptWithoutWord DEF Skip, NoStreamer
<1>5. ASSUME NEW c \in Callers, Run(c) PROVE WordsInv'
  BY <1>5 DEF Run, WordsInv, NoWord, Told
<1>6. ASSUME NEW c \in Callers, NEW f \in Failures, Fails(c, f) PROVE WordsInv'
  <2>1. /\ tooLarge' = [tooLarge EXCEPT ![c] = @ \/ (TooLarge(f) /\ ~cancelled[c])]
        /\ UNCHANGED <<cancelled, compressed>>
    BY <1>6 DEF Fails
  <2>2. f.words \in BOOLEAN BY FailuresAssumption
  <2>3. tooLarge'[c] = (tooLarge[c] \/ (TooLarge(f) /\ ~cancelled[c]))
    BY <2>1 DEF CallsTyped
  <2>4. \A d \in Callers : tooLarge[d] => tooLarge'[d]
    BY <2>1, <2>3 DEF CallsTyped
  <2>5. CASE /\ cancelled[c]
             /\ Returns(c, "cancelled", TRUE)
             /\ UNCHANGED <<trackerVars, attempts>>
    BY <2>1, <2>4, <2>5 DEF Returns, WordsInv, NoWord, Told, CallsTyped
  <2>6. CASE /\ ~cancelled[c]
             /\ ~Retriable(f)
             /\ Returns(c, "aborted", f.words)
             /\ UNCHANGED <<trackerVars, attempts>>
    <3>1. f.words => TooLarge(f) BY <2>6 DEF Retriable, TooLarge
    <3>2. f.words => tooLarge'[c] BY <2>3, <2>6, <3>1
    <3>3. mentions' = [mentions EXCEPT ![c] = f.words] BY <2>6 DEF Returns
    <3>4. \A d \in Callers : d # c => mentions'[d] = mentions[d] BY <3>3 DEF CallsTyped
    <3>5. mentions'[c] = f.words BY <3>3 DEF CallsTyped
    <3>6. \A d \in Callers : Told(d)'
      BY <2>1, <2>4, <3>2, <3>4, <3>5 DEF WordsInv, Told
    <3> QED BY <2>6, <3>6 DEF WordsInv, NoWord
  <2>7. CASE /\ ~cancelled[c]
             /\ Retriable(f)
             /\ MarkFailure(Provider(c), f.kind = "billing")
             /\ Attempted(c, [what |-> "failed", words |-> f.words])
    <3> DEFINE entry == [what |-> "failed", words |-> f.words]
    <3>1. ~f.words BY <2>7 DEF WordsTell
    <3>2. entry \in Attempt /\ ~entry.words BY <2>2, <3>1 DEF Attempt
    <3>3. Attempted(c, entry) BY <2>7
    <3> HIDE DEF entry
    <3> QED BY <2>1, <2>4, <3>2, <3>3, AttemptWithoutWord
  <2> QED BY <1>6, <2>5, <2>6, <2>7 DEF Fails
<1>7. ASSUME NEW c \in Callers, CompressAndRetry(c) PROVE WordsInv'
  <2>1. mentions[c] BY <1>7 DEF CompressAndRetry, MayRetry
  <2>2. attempts' = [attempts EXCEPT ![c] = <<>>] BY <1>7 DEF CompressAndRetry
  <2>3. \A d \in Callers : NoWord(d)'
    BY <2>2 DEF WordsInv, NoWord, CallsOK
  <2>4. \A d \in Callers : Told(d)'
    BY <1>7, <2>1 DEF CompressAndRetry, WordsInv, Told, CallsTyped
  <2> QED BY <2>3, <2>4 DEF WordsInv
<1>8. ASSUME NEW c \in Callers, Finish(c) PROVE WordsInv'
  <2>1. attempts' = [attempts EXCEPT ![c] = <<>>] BY <1>8 DEF Finish
  <2>2. \A d \in Callers : NoWord(d)'
    BY <2>1 DEF WordsInv, NoWord, CallsOK
  <2>3. \A d \in Callers : Told(d)'
    BY <1>8 DEF Finish, WordsInv, Told, CallsTyped
  <2> QED BY <2>2, <2>3 DEF WordsInv
<1>9. CASE Tick \/ UNCHANGED vars
  BY <1>9 DEF Tick, callVars, vars, WordsInv, NoWord, Told
<1> QED BY <1>1, <1>2, <1>3, <1>4, <1>5, <1>6, <1>7, <1>8, <1>9 DEF Next

(* A call that nobody cancels compresses its history only if a provider    *)
(* said that the request was too large, as long as no other error          *)
(* mentions one of the words (loop.go:669-752).                            *)
THEOREM CompressedWhenTooLarge ==
  ASSUME WordsTell
  PROVE  Spec => []OnlyTooLargeIsCompressed
<1>1. Init => CallInv
  <2> SUFFICES ASSUME Init PROVE CallInv OBVIOUS
  <2>1. CallsTyped BY TypedInitially
  <2>2. \A c \in Callers : attempts[c] = <<>> /\ ~mentions[c] /\ ~compressed[c] BY DEF Init
  <2>3. \A c \in Callers : NoWord(c) BY <2>2 DEF NoWord
  <2>4. WordsInv BY <2>2, <2>3 DEF WordsInv, Told
  <2> QED BY CallsInitially, <2>1, <2>4 DEF CallInv
<1>2. CallInv /\ [Next]_vars => CallInv'
  BY CallsInductive, TypedInductive, WordsInductive DEF CallInv
<1>3. CallInv => OnlyTooLargeIsCompressed
  BY DEF CallInv, WordsInv, Told, OnlyTooLargeIsCompressed
<1> QED BY <1>1, <1>2, <1>3, PTL DEF Spec
=============================================================================
