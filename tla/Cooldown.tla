------------------------------ MODULE Cooldown ------------------------------
(***************************************************************************)
(* CooldownTracker: for every provider the failures since its last success *)
(* and two ends, of the cooldown after a failure and of the longer disable *)
(* after a billing failure.  Times are kept as what is left of them, so    *)
(* that Tick shortens them; a failure longer ago than the window is as     *)
(* long ago as the next tick beyond it.  The steps of the two backoffs are *)
(* constants: 1, 5, 25, 60 minutes and 5, 10, 20, 24 hours in the code,    *)
(* with a window of 24 hours.  Counts beyond the last step change nothing  *)
(* and are kept at it.                                                     *)
(***************************************************************************)
EXTENDS Naturals, Sequences

CONSTANTS Providers,
          Standard, Billing,   \* the steps of the backoffs
          Window               \* the failure window

Rising(s) ==
  /\ s \in Seq(Nat \ {0}) /\ Len(s) > 0
  /\ \A i, j \in 1..Len(s) : i <= j => s[i] <= s[j]
  /\ \A i \in 1..Len(s) : s[i] <= Window

ASSUME WindowAssumption == Window \in Nat
ASSUME StepsAssumption == Rising(Standard) /\ Rising(Billing)

VARIABLES errorCount, billingCount,   \* failures that count
          cooldownLeft, disabledLeft, \* until CooldownEnd, DisabledUntil
          sinceFailure,               \* since LastFailure
          owed                        \* history: the wait imposed and not yet over

trackerVars == <<errorCount, billingCount, cooldownLeft, disabledLeft, sinceFailure, owed>>

AtMost(n, m) == IF n < m THEN n ELSE m
AtLeast(n, m) == IF n > m THEN n ELSE m
Decremented(n) == IF n = 0 THEN 0 ELSE n - 1
Steps == AtLeast(Len(Standard), Len(Billing))

CalculateStandardCooldown(n) == Standard[AtMost(n, Len(Standard))]
CalculateBillingCooldown(n) == Billing[AtMost(n, Len(Billing))]

TrackerInit ==
  /\ errorCount = [p \in Providers |-> 0]
  /\ billingCount = [p \in Providers |-> 0]
  /\ cooldownLeft = [p \in Providers |-> 0]
  /\ disabledLeft = [p \in Providers |-> 0]
  /\ sinceFailure = [p \in Providers |-> Window + 1]
  /\ owed = [p \in Providers |-> 0]

IsAvailable(p) == disabledLeft[p] = 0 /\ cooldownLeft[p] = 0

(* The counts a failure adds to: those of the window. *)
Counted(count, p) == IF sinceFailure[p] > Window THEN 0 ELSE count[p]
OneMore(n) == AtMost(n + 1, Steps)

(* Which end a billing failure leaves for the standard cooldown, and the   *)
(* other way round.  (Faulty form: there is one end, and the last failure  *)
(* sets it.)                                                               *)
OnlyOne(left, p) == 0
Untouched(left, p) == left[p]

(* The last failure of p was a billing failure, or some other one. *)
MarkFailure(p, billing) ==
  LET n == OneMore(Counted(errorCount, p))
      b == OneMore(Counted(billingCount, p))
      wait == IF billing THEN CalculateBillingCooldown(b) ELSE CalculateStandardCooldown(n)
  IN
  /\ errorCount' = [errorCount EXCEPT ![p] = n]
  /\ billingCount' = [billingCount EXCEPT ![p] = IF billing THEN b
                                                 ELSE Counted(billingCount, p)]
  /\ disabledLeft' = [disabledLeft EXCEPT ![p] = IF billing THEN wait
                                                 ELSE Untouched(disabledLeft, p)]
  /\ cooldownLeft' = [cooldownLeft EXCEPT ![p] = IF billing THEN Untouched(cooldownLeft, p)
                                                 ELSE wait]
  /\ sinceFailure' = [sinceFailure EXCEPT ![p] = 0]
  /\ owed' = [owed EXCEPT ![p] = AtLeast(@, wait)]

(* What a success leaves of a disable.  (Faulty form: all of it.) *)
StillDisabled(p) == disabledLeft[p]
Lifted(p) == 0

MarkSuccess(p) ==
  /\ errorCount' = [errorCount EXCEPT ![p] = 0]
  /\ billingCount' = [billingCount EXCEPT ![p] = 0]
  /\ cooldownLeft' = [cooldownLeft EXCEPT ![p] = 0]
  /\ disabledLeft' = [disabledLeft EXCEPT ![p] = Lifted(p)]
  /\ owed' = [owed EXCEPT ![p] = 0]
  /\ UNCHANGED sinceFailure

Passes(left) == [p \in Providers |-> Decremented(left[p])]

TickTracker ==
  /\ cooldownLeft' = Passes(cooldownLeft)
  /\ disabledLeft' = Passes(disabledLeft)
  /\ owed' = Passes(owed)
  /\ sinceFailure' = [p \in Providers |-> AtMost(sinceFailure[p] + 1, Window + 1)]
  /\ UNCHANGED <<errorCount, billingCount>>

(* The tracker under any use at all. *)
TrackerNext ==
  \/ \E p \in Providers, billing \in BOOLEAN : MarkFailure(p, billing)
  \/ \E p \in Providers : MarkSuccess(p)
  \/ TickTracker

TrackerSpec == TrackerInit /\ [][TrackerNext]_trackerVars

-----------------------------------------------------------------------------
(* Properties. *)

(* The type of every variable. *)
TrackerTypeOK ==
  /\ errorCount \in [Providers -> 0..Steps]
  /\ billingCount \in [Providers -> 0..Steps]
  /\ cooldownLeft \in [Providers -> Nat]
  /\ disabledLeft \in [Providers -> Nat]
  /\ sinceFailure \in [Providers -> 0..(Window + 1)]
  /\ owed \in [Providers -> Nat]

(* No wait is cut short by a later failure, whatever its kind, nor by the  *)
(* end of the failure window: until a success, a provider is unavailable   *)
(* for as long as the longest wait any failure imposed                     *)
(* (cooldown.go:42-65, 83-105; cooldown_test.go:181, "BillingTakes-        *)
(* Precedence").                                                           *)
WaitsAreServed == \A p \in Providers : owed[p] > 0 => ~IsAvailable(p)

(* And it is not unavailable for longer. *)
NoLongerThanOwed == \A p \in Providers : owed[p] = 0 => IsAvailable(p)
=============================================================================
