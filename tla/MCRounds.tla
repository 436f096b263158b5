------------------------------- MODULE MCRounds ------------------------------
(***************************************************************************)
(* What the rounds of an agent share besides its session, on small         *)
(* instances: the providers they call, and the message tool they answer    *)
(* with.  A behaviour is one of a single component, as in MCParts.         *)
(***************************************************************************)
EXTENDS Fallback, AgentReplies, TLC

CONSTANTS p, q, c1, c2

VARIABLE part

(* Two callers, two providers. *)
TwoProviders == {p, q}
TwoCandidates == <<p, q>>
TwoCallers == {c1, c2}
ShortSteps == <<1, 2>>
OneStep == <<1>>

F(k, w) == [kind |-> k, words |-> w]
Three == {F("rate_limit", FALSE), F("billing", FALSE), F("format", TRUE)}
Symmetry == Permutations(Callers)

(* Two rounds of the three goroutines, with two agents and two chats. *)
Goroutines == {Loop, Cron, Heartbeat}
TwoAgents == {Default, "other"}
TwoChats == {<<"telegram", "A">>, <<"ssh", "B">>}
AllKinds == {"user", "command", "system"}
Named == {NoChat, <<"telegram", "A">>}
OneOrTwo == [a \in Actors |-> IF a = Loop THEN 2 ELSE 1]

RoundsInit == part \in {"calls", "replies"} /\ Init /\ RepliesInit
RoundsNext ==
  \/ part = "calls" /\ UNCHANGED <<part, repliesVars>> /\ Next
  \/ part = "replies" /\ UNCHANGED <<part, vars>> /\ RepliesNext
  \/ part = "replies" /\ UNCHANGED <<part, vars, repliesVars>>   \* all rounds have ended
RoundsSpec == RoundsInit /\ [][RoundsNext]_<<part, vars, repliesVars>>
=============================================================================
