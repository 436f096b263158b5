----------------------------- MODULE ToolGuards -----------------------------
(***************************************************************************)
(* What stands between the model and the tools of an agent: the groups of  *)
(* tools it is offered (pkg/tools/selector.go), the registry               *)
(* (registry.go), the policy of a tool (middleware.go) and its sliding     *)
(* window (ratelimit.go).  Rounds of several goroutines share one          *)
(* registry; a call holds the window's lock.                               *)
(***************************************************************************)
EXTENDS Naturals, Sequences, FiniteSets

CONSTANTS GuardRounds, \* rounds of the agent, of several goroutines
          Tool,        \* registered tool -> its group
          Keyworded,   \* groups a message can name by a keyword
          Strangers,   \* names the model may make up
          MaxRequests,
          Policy,      \* tool with a policy -> [enabled, size, perMin]
          Minute,      \* ticks of a minute
          MaxTime      \* bound

Tools == DOMAIN Tool
Always == {"core", "memory"}

ASSUME GuardAssumption ==
  /\ Minute \in Nat /\ MaxRequests \in Nat
  /\ \A t \in DOMAIN Policy : Policy[t].perMin \in Nat

VARIABLES now,
          bucket,     \* each bucket's times, of the tools with a limit
          named,      \* groups the message of a round names
          iteration,  \* of each round; 0 outside of it
          used,       \* the tools each round has called so far
          offered,    \* the tools its last request offered
          passed      \* history: when each limited tool was let through

guardVars == <<now, bucket, named, iteration, used, offered, passed>>

Limited == {t \in DOMAIN Policy : Policy[t].perMin > 0}

GuardInit ==
  /\ now = 0 /\ bucket = [t \in Limited |-> <<>>]
  /\ named = [r \in GuardRounds |-> {}] /\ iteration = [r \in GuardRounds |-> 0]
  /\ used = [r \in GuardRounds |-> <<>>] /\ offered = [r \in GuardRounds |-> {}]
  /\ passed = [t \in Limited |-> <<>>]

(* ToolGroup: the table, a prefix, or else core. *)
ToolGroup(name) == IF name \in Tools THEN Tool[name] ELSE "core"

(* SelectActiveGroups.  (Faulty form: what was used is not kept.)          *)
ByMessage(message, names) == Always \cup message
SelectActiveGroups(message, names) ==
  Always \cup message \cup {ToolGroup(names[i]) : i \in DOMAIN names}

(* ToProviderDefsFiltered. *)
Offer(message, names) == {t \in Tools : Tool[t] \in SelectActiveGroups(message, names)}

(* runLLMIteration: the next request, while there are iterations left.     *)
Request(r, message) ==
  /\ iteration[r] < MaxRequests
  /\ Len(used[r]) = iteration[r]   \* an answer without tools ends the round
  /\ iteration[r] # 0 => message = named[r]
  /\ named' = [named EXCEPT ![r] = message]
  /\ iteration' = [iteration EXCEPT ![r] = @ + 1]
  /\ offered' = [offered EXCEPT ![r] = Offer(message, used[r])]
  /\ UNCHANGED <<now, bucket, used, passed>>

(* Allow: times of a minute ago or older are pruned.  A bucket is in the   *)
(* order of its calls, so the first one that is left is followed by others *)
(* that are; a full bucket refuses.  (Faulty form: the one of a tick less  *)
(* than a minute ago goes, too.)                                           *)
Since(times, time) ==
  LET first == CHOOSE i \in 1 .. Len(times) + 1 :
                 /\ \A j \in 1 .. i - 1 : times[j] + Minute <= time
                 /\ i <= Len(times) => times[i] + Minute > time
  IN  SubSeq(times, first, Len(times))
TooShort(t) == Since(bucket[t], now + 1)
Recent(t) == Since(bucket[t], now)
Allow(t) ==
  IF Len(Recent(t)) >= Policy[t].perMin
  THEN bucket' = [bucket EXCEPT ![t] = Recent(t)] /\ UNCHANGED passed
  ELSE /\ bucket' = [bucket EXCEPT ![t] = Append(Recent(t), now)]
       /\ passed' = [passed EXCEPT ![t] = Append(@, now)]

(* ExecuteWithContext: an unknown tool, one that is disabled and arguments *)
(* that are too long are refused before the window is asked.               *)
Asks(t, size) ==
  t \in Limited /\ Policy[t].enabled /\ (Policy[t].size = 0 \/ size <= Policy[t].size)

CallTool(r, t, size) ==
  /\ iteration[r] \in 1..MaxRequests /\ Len(used[r]) < iteration[r]
  /\ t \in Tools \cup Strangers      \* whether it was offered or not
  /\ used' = [used EXCEPT ![r] = Append(@, t)]
  /\ IF Asks(t, size) THEN Allow(t) ELSE UNCHANGED <<bucket, passed>>
  /\ UNCHANGED <<now, named, iteration, offered>>

(* The round ends, and the next one starts over. *)
Answer(r) ==
  /\ iteration[r] # 0
  /\ iteration' = [iteration EXCEPT ![r] = 0] /\ used' = [used EXCEPT ![r] = <<>>]
  /\ named' = [named EXCEPT ![r] = {}] /\ offered' = [offered EXCEPT ![r] = {}]
  /\ UNCHANGED <<now, bucket, passed>>

Tick == now < MaxTime /\ now' = now + 1
        /\ UNCHANGED <<bucket, named, iteration, used, offered, passed>>

GuardNext ==
  \/ \E r \in GuardRounds :
       \/ Answer(r)
       \/ \E message \in SUBSET Keyworded : Request(r, message)
       \/ \E t \in Tools \cup Strangers, size \in {1, 2} : CallTool(r, t, size)
  \/ Tick

GuardSpec == GuardInit /\ [][GuardNext]_guardVars

-----------------------------------------------------------------------------
(* In no minute whatsoever does a tool run more often than its policy      *)
(* says, whoever calls it (ratelimit.go:24-47); and a tool a round has     *)
(* called stays on offer in all its later requests (selector.go:79-104).   *)
GuardsHold ==
  /\ \A t \in Limited : \A i \in DOMAIN passed[t] :
       LET j == i + Policy[t].perMin IN
       j \in DOMAIN passed[t] => passed[t][j] - passed[t][i] >= Minute
  /\ \A r \in GuardRounds : \A i \in DOMAIN used[r] :
       i < iteration[r] /\ used[r][i] \in Tools => used[r][i] \in offered[r]
=============================================================================
