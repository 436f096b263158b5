---------------------------- MODULE AgentReplies ----------------------------
(***************************************************************************)
(* Who hears what: the rounds of AgentLoop.Run, of cron jobs that go       *)
(* through the agent, and of the heartbeat, each in a goroutine of its     *)
(* own, and the `message` tool they share.  The tool keeps the chat it     *)
(* sends to by default and whether it has sent something "in this round"   *)
(* in plain fields that every round on the same agent overwrites; Run      *)
(* looks at the flag to decide whether the response is still to be sent.   *)
(*                                                                         *)
(* A chat is a channel and an ID.  The fields are read and written one at  *)
(* a time, without a lock.  System messages of an internal origin and      *)
(* empty responses, which change nothing here, are left out.               *)
(***************************************************************************)
EXTENDS Naturals, Sequences, FiniteSets

CONSTANTS Loop, Cron, Heartbeat,   \* the goroutines
          Actors,                  \* those of them that take part
          Default, Agents,         \* the default agent, and all agents
          Chats,                   \* the users' chats: <<channel, ID>>
          Kinds,                   \* what Run receives: user, command, system
          Targets,                 \* chats the LLM may name in a call, or NoChat
          NoChat,
          MaxRounds, MaxCalls      \* bounds: rounds in all, calls per round of each

VARIABLES defaultChannel, defaultChatID, sentInRound,  \* of each agent's tool
          place,      \* where each goroutine is
          round,   \* the round it is in
          call,    \* the call of the message tool it is in
          calls,   \* number of calls in its round
          begun,   \* number of rounds begun
          out,     \* history: the messages handed to the bus
          ended    \* history: the rounds that have ended

toolVars == <<defaultChannel, defaultChatID, sentInRound>>
repliesVars == <<defaultChannel, defaultChatID, sentInRound, place, round, call, calls,
          begun, out, ended>>

NoRound == [n |-> 0]
NoCall == [ok |-> FALSE]

RepliesInit ==
  /\ defaultChannel = [a \in Agents |-> NoChat]
  /\ defaultChatID = [a \in Agents |-> NoChat]
  /\ sentInRound = [a \in Agents |-> FALSE]
  /\ place = [p \in Actors |-> "idle"]
  /\ round = [p \in Actors |-> NoRound]
  /\ call = [p \in Actors |-> NoCall]
  /\ calls = [p \in Actors |-> 0]
  /\ begun = 0
  /\ out = {}
  /\ ended = {}

Goto(p, label) == place' = [place EXCEPT ![p] = label]

(* PublishOutbound: what is said, by which round, to which chat. *)
Publish(p, what, chat) ==
  out' = out \cup {[n |-> round[p].n, what |-> what, to |-> chat, i |-> calls[p]]}

InRound(agent) == {p \in Actors : place[p] # "idle" /\ round[p].agent = agent}

(* A round begins: a message arrives and is routed, a job is due, or the   *)
(* heartbeat ticks.  Commands are answered before any tool is prepared,    *)
(* system messages and the heartbeat are the default agent's.  `alone`     *)
(* keeps whether no other round of the agent overlaps.                     *)
Begin(p, kind, agent, chat) ==
  /\ place[p] = "idle"
  /\ begun < MaxRounds
  /\ begun' = begun + 1
  /\ kind \in CASE p = Loop -> Kinds [] p = Cron -> {"job"} [] OTHER -> {"heartbeat"}
  /\ kind \in {"system", "heartbeat"} => agent = Default
  /\ round' = [q \in Actors |->
       IF q = p THEN [n |-> begun', actor |-> p, agent |-> agent, chat |-> chat,
                      kind |-> kind, alone |-> InRound(agent) = {}]
       ELSE IF q \in InRound(agent) THEN [round[q] EXCEPT !.alone = FALSE]
       ELSE round[q]]
  /\ calls' = [calls EXCEPT ![p] = 0]
  /\ Goto(p, IF kind = "command" THEN "reply" ELSE "setchannel")
  /\ UNCHANGED <<toolVars, call, out, ended>>

(* What a new context says about the round.  (Faulty forms: the default    *)
(* chat is set once only; the flag is not reset.)                          *)
FirstChannel(a, chat) == IF defaultChannel[a] = NoChat THEN chat[1] ELSE defaultChannel[a]
NewChannel(a, chat) == chat[1]
Carried(a) == sentInRound[a]
Fresh(a) == FALSE

(* SetContext, from updateToolContexts and again from ExecuteWithContext.  *)
SetChannel(p) ==
  LET a == round[p].agent IN
  /\ place[p] = "setchannel"
  /\ defaultChannel' = [defaultChannel EXCEPT ![a] = NewChannel(a, round[p].chat)]
  /\ Goto(p, "setchat")
  /\ UNCHANGED <<defaultChatID, sentInRound, round, call, calls, begun, out, ended>>

SetChatID(p) ==
  LET a == round[p].agent IN
  /\ place[p] = "setchat"
  /\ defaultChatID' = [defaultChatID EXCEPT ![a] = round[p].chat[2]]
  /\ sentInRound' = [sentInRound EXCEPT ![a] = Fresh(a)]
  /\ Goto(p, IF call[p] = NoCall THEN "llm" ELSE "execute")
  /\ UNCHANGED <<defaultChannel, round, call, calls, begun, out, ended>>

(* The LLM calls the message tool, with or without a target; a call        *)
(* without content is refused.                                             *)
CallsMessage(p, target, ok) ==
  /\ place[p] = "llm"
  /\ calls[p] < MaxCalls[p]
  /\ calls' = [calls EXCEPT ![p] = @ + 1]
  /\ call' = [call EXCEPT ![p] = [target |-> target, ok |-> ok, channel |-> NoChat]]
  /\ Goto(p, "setchannel")
  /\ UNCHANGED <<toolVars, round, begun, out, ended>>

Execute(p) ==
  /\ place[p] = "execute"
  /\ call[p].ok
  /\ call' = [call EXCEPT ![p].channel =
       IF call[p].target = NoChat THEN defaultChannel[round[p].agent] ELSE call[p].target[1]]
  /\ Goto(p, "send")
  /\ UNCHANGED <<toolVars, round, calls, begun, out, ended>>

(* Whether a refused call counts as sent.  (Faulty form: it does.)         *)
CountRefused(a) == TRUE
AfterRefusal(a) == sentInRound[a]

Refuse(p) ==
  LET a == round[p].agent IN
  /\ place[p] = "execute"
  /\ ~call[p].ok
  /\ sentInRound' = [sentInRound EXCEPT ![a] = AfterRefusal(a)]
  /\ call' = [call EXCEPT ![p] = NoCall]
  /\ Goto(p, "llm")
  /\ UNCHANGED <<defaultChannel, defaultChatID, round, calls, begun, out, ended>>

Send(p) ==
  /\ place[p] = "send"
  /\ LET id == IF call[p].target = NoChat THEN defaultChatID[round[p].agent]
                                          ELSE call[p].target[2]
     IN  Publish(p, IF call[p].target = NoChat THEN "message" ELSE "elsewhere",
                 <<call[p].channel, id>>)
  /\ Goto(p, "mark")
  /\ UNCHANGED <<toolVars, round, call, calls, begun, ended>>

Mark(p) ==
  /\ place[p] = "mark"
  /\ sentInRound' = [sentInRound EXCEPT ![round[p].agent] = TRUE]
  /\ call' = [call EXCEPT ![p] = NoCall]
  /\ Goto(p, "llm")
  /\ UNCHANGED <<defaultChannel, defaultChatID, round, calls, begun, out, ended>>

EndRound(p, replied) ==
  /\ ended' = ended \cup {[round |-> round[p], replied |-> replied]}
  /\ round' = [round EXCEPT ![p] = NoRound]
  /\ calls' = [calls EXCEPT ![p] = 0]
  /\ Goto(p, "idle")

(* The LLM has answered, or failed for good.  A system round sends its     *)
(* answer itself; the answers of a job and of the heartbeat go nowhere.    *)
Answers(p, fails) ==
  /\ place[p] = "llm"
  /\ IF p = Loop THEN Goto(p, "reply") /\ UNCHANGED <<round, calls, ended>>
                 ELSE EndRound(p, FALSE)
  /\ IF round[p].kind = "system" /\ ~fails
     THEN Publish(p, "answer", round[p].chat)
     ELSE UNCHANGED out
  /\ UNCHANGED <<toolVars, call, begun>>

(* Whether Run keeps the response back.  (Faulty form: it never does.)     *)
NeverWithheld(a) == FALSE
Withheld(a) == sentInRound[a]

(* Run publishes the response, unless the default agent's message tool has *)
(* sent something; what it publishes for a system message goes to the      *)
(* channel "system", which nobody reads.                                   *)
Reply(p) ==
  /\ place[p] = "reply"
  /\ EndRound(p, ~Withheld(Default))
  /\ IF Withheld(Default) \/ round[p].kind = "system"
     THEN UNCHANGED out
     ELSE Publish(p, "reply", round[p].chat)
  /\ UNCHANGED <<toolVars, call, begun>>

RepliesNext == \E p \in Actors :
  \/ \E kind \in Kinds \cup {"job", "heartbeat"}, agent \in Agents, chat \in Chats :
       Begin(p, kind, agent, chat)
  \/ SetChannel(p) \/ SetChatID(p)
  \/ \E target \in Targets, ok \in BOOLEAN : CallsMessage(p, target, ok)
  \/ Execute(p) \/ Refuse(p) \/ Send(p) \/ Mark(p)
  \/ \E fails \in BOOLEAN : Answers(p, fails)
  \/ Reply(p)

RepliesSpec == RepliesInit /\ [][RepliesNext]_repliesVars

-----------------------------------------------------------------------------
(* Properties. *)

Said(n, what) == {m \in out : m.n = n /\ m.what \in what}
OfKind(kinds) == {e \in ended : e.round.kind \in kinds}

(* A response of Run is withheld only if the message tool of the default   *)
(* agent has sent something, also when rounds interleave: refused calls    *)
(* and unfinished ones never silence anybody (loop.go:207-220,             *)
(* message.go:65-103).                                                     *)
WithheldOnlyIfSent ==
  (\E e \in ended : e.round.actor = Loop /\ ~e.replied) =>
    \E m \in out : m.what \in {"message", "elsewhere"}

(* What a round says through the message tool without naming a target goes *)
(* to the chat the round belongs to, whatever rounds of other agents do    *)
(* meanwhile, as long as no round of the same agent overlaps it            *)
(* (base.go:13-18, message.go:50-54, registry.go:66-69).                   *)
DefaultGoesHome ==
  LET Home(r) == r.alone => \A m \in Said(r.n, {"message"}) : m.to = r.chat
  IN  /\ \A e \in ended : Home(e.round)
      /\ \A p \in Actors : round[p] # NoRound => Home(round[p])

(* The user rounds whose flag Run reads: the default agent's, alone.       *)
OwnFlag == {e \in OfKind({"user"}) : e.round.agent = Default /\ e.round.alone}

(* A user message to the default agent is answered in its chat, by the     *)
(* message tool or by the response of the round, unless the LLM has spoken *)
(* to somebody else instead: what earlier rounds and rounds of other       *)
(* agents have said silences nobody (loop.go:207-228).                     *)
UserIsAnswered ==
  \A e \in OwnFlag : Said(e.round.n, {"elsewhere"}) = {} =>
    \E m \in Said(e.round.n, {"message", "reply"}) : m.to = e.round.chat

(* A user of the default agent hears no second message with the response   *)
(* when the round's last call of the message tool was sent                 *)
(* (loop.go:208-209).                                                      *)
NoSecondMessage ==
  \A e \in OwnFlag : \A r \in Said(e.round.n, {"reply"}) :
    \A m \in Said(e.round.n, {"message"}) : m.i < r.i

(* The four of them. *)
RepliesGoHome == WithheldOnlyIfSent /\ DefaultGoesHome /\ UserIsAnswered /\ NoSecondMessage

(* Every user message is answered in its chat whatever overlaps: Run       *)
(* checks whether the message tool "already sent a response during this    *)
(* round" (loop.go:208).                                                   *)
EveryUserIsAnswered ==
  \A e \in OfKind({"user"}) :
    \E m \in Said(e.round.n, {"message", "reply"}) : m.to = e.round.chat
=============================================================================
