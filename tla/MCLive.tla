------------------------------- MODULE MCLive --------------------------------
(***************************************************************************)
(* What must eventually happen in three components, on small instances.  A *)
(* behaviour is one of a single component, as in MCParts: the gateway has  *)
(* variables of its own, the other two share s1, s2, ...  Fairness is what *)
(* the code's scheduling justifies: clocks run, goroutines that can go on  *)
(* do, providers answer; the user, the interrupt, and the command of the   *)
(* exec tool owe nothing.                                                  *)
(***************************************************************************)
EXTENDS Gateway

VARIABLES part, s1, s2, s3, s4, s5, s6, s7, s8, s9, s10, s11, s12, s13, s14, s15

Callers == {"user", "cron"}
Kinds == {[kind |-> "rate_limit", words |-> FALSE], [kind |-> "billing", words |-> FALSE],
          [kind |-> "format", words |-> TRUE]}
Command(found) == [f \in {"long", "http", "denied", "allowed", "outside"} |-> f = found]

(* Two models of one provider. *)
Fa == INSTANCE Fallback WITH
     Callers <- Callers, Providers <- {"p"}, Candidates <- <<"p", "p">>, Failures <- Kinds,
     Modes <- {"chat", "stream"}, CanStream <- FALSE, MayCancel <- TRUE,
     Standard <- <<1>>, Billing <- <<1>>, Window <- 1,
     errorCount <- s1, billingCount <- s2, cooldownLeft <- s3, disabledLeft <- s4,
     sinceFailure <- s5, owed <- s6, pc <- s7, mode <- s8, attempts <- s9, result <- s10,
     mentions <- s11, cancelled <- s12, retry <- s13, tooLarge <- s14, compressed <- s15
Sh == INSTANCE ShellTool WITH
     Commands <- {Command("allowed"), Command("denied"), Command("")},
     Allowlist <- FALSE, Restrict <- TRUE, MaxChildren <- 2,
     call <- s1, shell <- s2, children <- s3, born <- s4, ctx <- s5, waited <- s6, result <- s7

After7 == <<s8, s9, s10, s11, s12, s13, s14, s15>>
Pool == <<s1, s2, s3, s4, s5, s6, s7, After7>>
vars == <<part, Pool, gatewayVars>>
Idle7 == /\ s8 = 0 /\ s9 = 0 /\ s10 = 0 /\ s11 = 0 /\ s12 = 0 /\ s13 = 0 /\ s14 = 0
         /\ s15 = 0
Idle == s1 = 0 /\ s2 = 0 /\ s3 = 0 /\ s4 = 0 /\ s5 = 0 /\ s6 = 0 /\ s7 = 0 /\ Idle7

Calls(A) == part = "calls" /\ UNCHANGED <<part, gatewayVars>> /\ A
Gates(A) == part = "gateway" /\ UNCHANGED <<part, Pool>> /\ A
Executes(A) == part = "exec" /\ UNCHANGED <<part, After7, gatewayVars>> /\ A

Init ==
  /\ \/ part = "calls" /\ Fa!Init
     \/ part = "gateway" /\ Idle
     \/ part = "exec" /\ Sh!Init /\ Idle7
  /\ GatewayInit /\ (part # "gateway" => channels = {})
Next == Calls(Fa!Next) \/ Gates(GatewayNext) \/ Executes(Sh!ShellNext)

(* Time passes, a call goes on, a provider answers. *)
CallsGoOn ==
  /\ WF_vars(Calls(Fa!Tick))
  /\ \A c \in Callers : WF_vars(Calls(Fa!Advances(c))) /\ WF_vars(Calls(Fa!Answered(c)))

(* main goes on when it is not waiting for the interrupt, and the          *)
(* dispatcher is a goroutine that waits for nothing but the lock.          *)
GatewayGoesOn == WF_vars(Gates(MainStep)) /\ WF_vars(Gates(Dispatch))

(* The time-out fires; the three goroutines of a call run. *)
ExecGoesOn == /\ WF_vars(Executes(Sh!Over("deadline"))) /\ WF_vars(Executes(Sh!Watcher))
              /\ WF_vars(Executes(Sh!Wait)) /\ WF_vars(Executes(Sh!Caller))

Spec == Init /\ [][Next]_vars /\ CallsGoOn /\ GatewayGoesOn /\ ExecGoesOn

-----------------------------------------------------------------------------
(* A call of the fallback chain returns, whatever the providers answer and *)
(* however often its history is compressed (loop.go:669-718).              *)
CallerAt(c, where) == part = "calls" /\ s7[c] = where
CallsReturn == \A c \in Callers : CallerAt(c, "try") ~> CallerAt(c, "idle")

(* A publisher that waits for the full outbound channel goes on while a    *)
(* channel is enabled, unless the gateway is stopped (manager.go:98-107).  *)
Waits(p) == part = "gateway" /\ Parked(p)
PublishReturns == \A p \in Publishers : Waits(p) /\ channels # {} ~> ~Waits(p) \/ ~live

(* The call of a command that was started returns, whatever the command    *)
(* does and whether or not it ends, unless a process that has left its     *)
(* group holds the output for ever (shell.go:189-207).                     *)
CallAt(where) == part = "exec" /\ s1 = where
ExecReturns ==
  <>[](part = "exec" => Sh!Strays = {}) => (CallAt("select") ~> CallAt("returned"))
=============================================================================
