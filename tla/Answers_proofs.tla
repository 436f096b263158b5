--------------------------- MODULE Answers_proofs ---------------------------
(***************************************************************************)
(* What is said to a user reaches the chat it is for, and stays there.     *)
(*                                                                         *)
(* The rounds of the agents: rounds meet in the fields of the message tool *)
(* and nowhere else, so that a step of one round leaves what is said of    *)
(* another alone unless both are of one agent; then neither counts as      *)
(* alone.  The channels: an answer that nothing came between is in one     *)
(* place at a time, from the queue of the agent to the screen, and what    *)
(* the channel keeps for the chat (a placeholder, a session, the streaming *)
(* flag) is that answer's until it has been shown.                         *)
(***************************************************************************)
EXTENDS AgentReplies, Channels, SequenceTheorems, TLAPS

-----------------------------------------------------------------------------
(* The rounds of the agents *)

(* What is assumed: there is a default agent, and a chat is a channel and  *)
(* an ID.                                                                  *)
Instance == Default \in Agents /\ \A chat \in Chats : chat = <<chat[1], chat[2]>>

Round == [n : Nat \ {0}, actor : Actors, agent : Agents, chat : Chats,
          kind : Kinds \cup {"job", "heartbeat"}, alone : BOOLEAN]
Call == [target : Targets, ok : BOOLEAN,
         channel : {NoChat} \cup {c[1] : c \in Chats \cup (Targets \ {NoChat})}]

Steps == {"idle", "setchannel", "setchat", "llm", "execute", "send", "mark", "reply"}
Active(p) == place[p] # "idle"

RepliesTypeOK ==
  /\ place \in [Actors -> Steps]
  /\ round \in [Actors -> {NoRound} \cup Round]
  /\ call \in [Actors -> {NoCall} \cup Call]
  /\ calls \in [Actors -> Nat]
  /\ begun \in Nat
  /\ sentInRound \in [Agents -> BOOLEAN]
  /\ defaultChannel \in [Agents -> {NoChat} \cup {c[1] : c \in Chats}]
  /\ DOMAIN defaultChatID = Agents
  /\ \A m \in out : m.n \in Nat /\ m.i \in Nat

(* Something was said through the tool, by the round n or by any. *)
Through == {"message", "elsewhere"}
Spoke(n) == \E m \in out : m.n = n /\ m.what \in Through
SomeoneSpoke == \E m \in out : m.what \in Through

(* Rounds have numbers of their own, and one that is alone has its agent   *)
(* to itself; no flag is set before something was said.                    *)
Apart ==
  /\ \A m \in out : m.n <= begun
  /\ \A p, q \in Actors : p # q /\ Active(p) /\ Active(q) =>
       /\ round[p].n # round[q].n
       /\ round[p].alone => round[q].agent # round[p].agent
  /\ \A p \in Actors, e \in ended : Active(p) => e.round.n # round[p].n
  /\ (\E a \in Agents : sentInRound[a]) => SomeoneSpoke

(* A round that is going on: only a call that is over, or about to be, may *)
(* have said something.                                                    *)
RoundOK(p) ==
  /\ round[p] \in Round /\ round[p].n <= begun /\ round[p].actor = p
  /\ round[p].kind = "user" => p = Loop
  /\ place[p] \in {"execute", "send", "mark"} => call[p] # NoCall
  /\ place[p] = "mark" => Spoke(round[p].n)
  /\ place[p] = "reply" => p = Loop
  /\ \A m \in Said(round[p].n, {"message"}) :
       /\ m.i <= calls[p]
       /\ place[p] \in {"setchannel", "setchat", "execute", "send"} => m.i < calls[p]
  /\ Said(round[p].n, {"reply"}) = {}

(* A round that is alone finds in the tool what it has put there. *)
Prepared == {"llm", "execute", "send", "mark"}
AloneOK(p) ==
  LET r == round[p]
      a == r.agent
  IN  /\ place[p] \in Prepared \cup {"setchat"} => defaultChannel[a] = r.chat[1]
      /\ place[p] \in Prepared => defaultChatID[a] = r.chat[2]
      /\ place[p] = "send" /\ call[p].target = NoChat => call[p].channel = r.chat[1]
      /\ \A m \in Said(r.n, {"message"}) : m.to = r.chat
      /\ place[p] \in Prepared \cup {"reply"} /\ r.kind # "command" /\ sentInRound[a] => Spoke(r.n)
      /\ place[p] \in {"llm", "reply"} /\ r.kind # "command" /\ ~sentInRound[a] =>
           \A m \in Said(r.n, {"message"}) : m.i < calls[p]

(* A round that has ended. *)
EndedOK(e) ==
  LET r == e.round IN
  /\ r \in Round /\ r.n <= begun
  /\ r.actor = Loop /\ ~e.replied => SomeoneSpoke
  /\ r.alone => \A m \in Said(r.n, {"message"}) : m.to = r.chat
  /\ r.alone /\ r.kind = "user" /\ r.agent = Default =>
       /\ \/ Said(r.n, {"elsewhere"}) # {}
          \/ \E m \in Said(r.n, {"message", "reply"}) : m.to = r.chat
       /\ \A s \in Said(r.n, {"reply"}), m \in Said(r.n, {"message"}) : m.i < s.i

RepliesInv ==
  /\ RepliesTypeOK /\ Apart
  /\ \A p \in Actors : IF Active(p) THEN RoundOK(p) /\ (round[p].alone => AloneOK(p))
                                    ELSE round[p] = NoRound
  /\ \A e \in ended : EndedOK(e)

-----------------------------------------------------------------------------
(* A step of p's round, as the other rounds see it. *)
StepOf(p) ==
  /\ Active(p) /\ begun' = begun
  /\ \A q \in Actors \ {p} : /\ place'[q] = place[q] /\ round'[q] = round[q]
                            /\ call'[q] = call[q] /\ calls'[q] = calls[q]
  /\ \A b \in Agents \ {round[p].agent} : /\ defaultChannel'[b] = defaultChannel[b]
                                          /\ defaultChatID'[b] = defaultChatID[b]
                                          /\ sentInRound'[b] = sentInRound[b]
  /\ out \subseteq out'
  /\ \A m \in out' : m \in out \/ m.n = round[p].n

(* It says nothing in the name of another round. *)
LEMMA SaidByOthers ==
  ASSUME NEW p, StepOf(p), NEW n, n # round[p].n, NEW what
  PROVE  Said(n, what)' = Said(n, what)
  BY DEF StepOf, Said

(* What is said of another round stays true: the tool of its agent is not  *)
(* touched while it is alone.                                              *)
LEMMA OthersKeep ==
  ASSUME RepliesInv, NEW p \in Actors, StepOf(p), NEW q \in Actors, q # p, Active(q)
  PROVE  Active(q)' /\ RoundOK(q)' /\ (round'[q].alone => AloneOK(q)')
<1>1. /\ place'[q] = place[q] /\ round'[q] = round[q] /\ call'[q] = call[q] /\ calls'[q] = calls[q]
      /\ begun' = begun
  BY DEF StepOf
<1>2. Active(p) /\ round[q].n # round[p].n BY DEF StepOf, RepliesInv, Apart
<1>3. \A n, what : n # round[p].n => Said(n, what)' = Said(n, what) BY SaidByOthers
<1>4. Spoke(round[q].n) => Spoke(round[q].n)' BY <1>1 DEF Spoke, StepOf
<1>5. RoundOK(q) /\ (round[q].alone => AloneOK(q)) BY DEF RepliesInv
<1>6. Said(round[q].n, {"message"})' = Said(round[q].n, {"message"})
      /\ Said(round[q].n, {"reply"})' = Said(round[q].n, {"reply"})
  BY <1>1, <1>2, <1>3
<1>7. RoundOK(q)'
  <2> USE <1>1, <1>4, <1>5, <1>6
  <2>1. round'[q] \in Round /\ round'[q].n <= begun' /\ round'[q].actor = q BY DEF RoundOK
  <2>2. /\ round'[q].kind = "user" => q = Loop
        /\ place'[q] \in {"execute", "send", "mark"} => call'[q] # NoCall
        /\ place'[q] = "mark" => Spoke(round[q].n)'
        /\ place'[q] = "reply" => q = Loop
    BY DEF RoundOK
  <2> QED BY <2>1, <2>2 DEF RoundOK
<1>8. ASSUME round[q].alone PROVE AloneOK(q)'
  <2>1. round[q].agent \in Agents /\ round[q].agent # round[p].agent
    BY <1>2, <1>5, <1>8 DEF RepliesInv, Apart, RoundOK, Round
  <2>2. /\ defaultChannel'[round[q].agent] = defaultChannel[round[q].agent]
        /\ defaultChatID'[round[q].agent] = defaultChatID[round[q].agent]
        /\ sentInRound'[round[q].agent] = sentInRound[round[q].agent]
    BY <2>1 DEF StepOf
  <2> QED BY <1>1, <1>4, <1>5, <1>6, <1>8, <2>2 DEF AloneOK
<1> QED BY <1>1, <1>7, <1>8 DEF Active

(* What is said of a round that has ended stays true. *)
LEMMA EndedKeep ==
  ASSUME RepliesInv, NEW p \in Actors, StepOf(p), NEW e \in ended
  PROVE  EndedOK(e)'
<1>1. EndedOK(e) BY DEF RepliesInv
<1>2. e.round.n # round[p].n BY DEF RepliesInv, Apart, StepOf
<1>3. \A what : Said(e.round.n, what)' = Said(e.round.n, what) BY <1>2, SaidByOthers
<1>4. SomeoneSpoke => SomeoneSpoke' BY DEF SomeoneSpoke, StepOf
<1>5. begun' = begun BY DEF StepOf
<1> QED BY <1>1, <1>3, <1>4, <1>5 DEF EndedOK

(* A step in the middle of a round. *)
LEMMA Continues ==
  ASSUME RepliesInv, NEW p \in Actors, StepOf(p), RepliesTypeOK', Active(p)',
         round'[p] = round[p], ended' = ended,
         (\E a \in Agents : sentInRound'[a]) => SomeoneSpoke',
         RoundOK(p)', round[p].alone => AloneOK(p)'
  PROVE  RepliesInv'
<1>1. \A q \in Actors : Active(q)' <=> Active(q) BY DEF StepOf, Active
<1>2. \A q \in Actors : round'[q] = round[q] BY DEF StepOf
<1>3. Apart'
  <2>1. \A m \in out' : m.n <= begun'
    BY DEF RepliesInv, Apart, RoundOK, StepOf
  <2> QED BY <1>1, <1>2, <2>1 DEF RepliesInv, Apart
<1>4. \A q \in Actors : IF Active(q)' THEN RoundOK(q)' /\ (round'[q].alone => AloneOK(q)')
                                      ELSE round'[q] = NoRound
  BY <1>1, <1>2, OthersKeep DEF RepliesInv
<1>5. \A e \in ended : EndedOK(e)' BY EndedKeep
<1> QED BY <1>3, <1>4, <1>5 DEF RepliesInv

(* The last step of a round. *)
LEMMA Ends ==
  ASSUME RepliesInv, NEW p \in Actors, StepOf(p), RepliesTypeOK', NEW replied,
         EndRound(p, replied), NEW last, last = [round |-> round[p], replied |-> replied],
         EndedOK(last)', sentInRound' = sentInRound
  PROVE  RepliesInv'
<1>1. place'[p] = "idle" /\ round'[p] = NoRound /\ ended' = ended \cup {last}
  BY DEF EndRound, Goto, RepliesInv, RepliesTypeOK
<1>2. \A q \in Actors : Active(q)' => Active(q) /\ q # p /\ round'[q] = round[q]
  BY <1>1 DEF StepOf, Active
<1>3. Apart'
  <2>1. \A m \in out' : m.n <= begun'
    BY DEF RepliesInv, Apart, RoundOK, StepOf
  <2>2. SomeoneSpoke => SomeoneSpoke' BY DEF SomeoneSpoke, StepOf
  <2>3. \A q \in Actors, e \in ended' : Active(q)' => e.round.n # round'[q].n
    BY <1>1, <1>2 DEF RepliesInv, Apart, StepOf
  <2>4. \A q, r \in Actors : q # r /\ Active(q)' /\ Active(r)' =>
          /\ round'[q].n # round'[r].n
          /\ round'[q].alone => round'[r].agent # round'[q].agent
    BY <1>2 DEF RepliesInv, Apart
  <2> QED BY <2>1, <2>2, <2>3, <2>4 DEF RepliesInv, Apart
<1>4. \A q \in Actors : IF Active(q)' THEN RoundOK(q)' /\ (round'[q].alone => AloneOK(q)')
                                      ELSE round'[q] = NoRound
  <2>1. \A q \in Actors : ~Active(q)' /\ q # p => round'[q] = NoRound
    BY DEF StepOf, Active, RepliesInv
  <2> QED BY <1>1, <1>2, <2>1, OthersKeep
<1>5. \A e \in ended : EndedOK(e)' BY EndedKeep
<1>6. \A e \in ended' : EndedOK(e)' BY <1>1, <1>5
<1> QED BY <1>3, <1>4, <1>6 DEF RepliesInv

-----------------------------------------------------------------------------
(* The steps. *)

(* What the invariant says of a round that is going on. *)
LEMMA InARound ==
  ASSUME RepliesInv, NEW p \in Actors, Active(p)
  PROVE  /\ RoundOK(p) /\ (round[p].alone => AloneOK(p))
         /\ round[p] \in Round /\ round[p].agent \in Agents /\ round[p].chat \in Chats
  BY DEF RepliesInv, RoundOK, Round

(* SetContext in its two halves: the channel, then the ID and the flag,    *)
(* which is down when the round is prepared.                               *)
LEMMA SetChannelKeeps ==
  ASSUME RepliesInv, NEW p \in Actors, SetChannel(p)
  PROVE  RepliesInv'
<1> DEFINE a == round[p].agent
<1>1. Active(p) /\ place[p] = "setchannel" BY DEF SetChannel, Active
<1>2. RoundOK(p) /\ (round[p].alone => AloneOK(p)) /\ a \in Agents /\ round[p].chat \in Chats
  BY <1>1, InARound
<1>3. /\ defaultChannel' = [defaultChannel EXCEPT ![a] = round[p].chat[1]]
      /\ place' = [place EXCEPT ![p] = "setchat"]
      /\ UNCHANGED <<defaultChatID, sentInRound, round, call, calls, begun, out, ended>>
  BY DEF SetChannel, NewChannel, Goto
<1>4. RepliesTypeOK' BY <1>2, <1>3 DEF RepliesTypeOK, RepliesInv, Steps
<1>5. place'[p] = "setchat" /\ defaultChannel'[a] = round[p].chat[1]
  BY <1>2, <1>3 DEF RepliesTypeOK, RepliesInv
<1>6. StepOf(p) BY <1>1, <1>3 DEF StepOf, RepliesTypeOK, RepliesInv
<1>7. RoundOK(p)' BY <1>1, <1>2, <1>3, <1>5 DEF RoundOK, Said
<1>8. round[p].alone => AloneOK(p)'
  BY <1>1, <1>2, <1>3, <1>5 DEF AloneOK, Prepared, Said
<1>9. (\E b \in Agents : sentInRound'[b]) => SomeoneSpoke'
  BY <1>3 DEF RepliesInv, Apart, SomeoneSpoke
<1> QED BY <1>3, <1>4, <1>5, <1>6, <1>7, <1>8, <1>9, Continues DEF Active

LEMMA SetChatIDKeeps ==
  ASSUME RepliesInv, NEW p \in Actors, SetChatID(p)
  PROVE  RepliesInv'
<1> DEFINE a == round[p].agent
           to == IF call[p] = NoCall THEN "llm" ELSE "execute"
<1>1. Active(p) /\ place[p] = "setchat" BY DEF SetChatID, Active
<1>2. RoundOK(p) /\ (round[p].alone => AloneOK(p)) /\ a \in Agents
  BY <1>1, InARound
<1>3. /\ defaultChatID' = [defaultChatID EXCEPT ![a] = round[p].chat[2]]
      /\ sentInRound' = [sentInRound EXCEPT ![a] = FALSE]
      /\ place' = [place EXCEPT ![p] = to]
      /\ UNCHANGED <<defaultChannel, round, call, calls, begun, out, ended>>
  BY DEF SetChatID, Fresh, Goto
<1>4. RepliesTypeOK' BY <1>2, <1>3 DEF RepliesTypeOK, RepliesInv, Steps
<1>5. place'[p] = to /\ defaultChatID'[a] = round[p].chat[2] /\ ~sentInRound'[a]
  BY <1>2, <1>3 DEF RepliesTypeOK, RepliesInv
<1>6. StepOf(p) BY <1>1, <1>3 DEF StepOf, RepliesTypeOK, RepliesInv
<1>7. RoundOK(p)' BY <1>1, <1>2, <1>3, <1>5 DEF RoundOK, Said
<1>8. \A m \in Said(round[p].n, {"message"}) : m.i < calls[p] BY <1>1, <1>2 DEF RoundOK
<1>9. round[p].alone => AloneOK(p)'
  BY <1>1, <1>2, <1>3, <1>5, <1>8 DEF AloneOK, Prepared, Said
<1>10. (\E b \in Agents : sentInRound'[b]) => SomeoneSpoke'
  BY <1>3 DEF RepliesInv, RepliesTypeOK, Apart, SomeoneSpoke
<1> QED BY <1>3, <1>4, <1>5, <1>6, <1>7, <1>9, <1>10, Continues DEF Active

(* A call prepares the tool again, for the same chat. *)
LEMMA CallsMessageKeeps ==
  ASSUME RepliesInv, NEW p \in Actors, NEW target \in Targets, NEW ok \in BOOLEAN,
         CallsMessage(p, target, ok)
  PROVE  RepliesInv'
<1>1. Active(p) /\ place[p] = "llm" BY DEF CallsMessage, Active
<1>2. RoundOK(p) /\ (round[p].alone => AloneOK(p)) BY <1>1, InARound
<1>3. /\ calls' = [calls EXCEPT ![p] = @ + 1]
      /\ call' = [call EXCEPT ![p] = [target |-> target, ok |-> ok, channel |-> NoChat]]
      /\ place' = [place EXCEPT ![p] = "setchannel"]
      /\ UNCHANGED <<defaultChannel, defaultChatID, sentInRound, round, begun, out, ended>>
  BY DEF CallsMessage, Goto, toolVars
<1>4. [target |-> target, ok |-> ok, channel |-> NoChat] \in Call BY DEF Call
<1>5. RepliesTypeOK' BY <1>3, <1>4 DEF RepliesTypeOK, RepliesInv, Steps
<1>6. place'[p] = "setchannel" /\ calls'[p] = calls[p] + 1 /\ calls[p] \in Nat
  BY <1>3 DEF RepliesTypeOK, RepliesInv
<1>7. StepOf(p) BY <1>1, <1>3 DEF StepOf, RepliesTypeOK, RepliesInv
<1>8. \A m \in Said(round[p].n, {"message"}) : m.i < calls'[p] /\ m.i <= calls'[p]
  BY <1>2, <1>6 DEF RoundOK, Said, RepliesInv, RepliesTypeOK
<1>9. RoundOK(p)' BY <1>1, <1>2, <1>3, <1>6, <1>8 DEF RoundOK, Said
<1>10. round[p].alone => AloneOK(p)' BY <1>1, <1>2, <1>3, <1>6 DEF AloneOK, Prepared, Said
<1>11. (\E b \in Agents : sentInRound'[b]) => SomeoneSpoke'
  BY <1>3 DEF RepliesInv, Apart, SomeoneSpoke
<1> QED BY <1>3, <1>5, <1>6, <1>7, <1>9, <1>10, <1>11, Continues DEF Active

LEMMA ExecuteKeeps ==
  ASSUME RepliesInv, NEW p \in Actors, Execute(p)
  PROVE  RepliesInv'
<1> DEFINE channel == IF call[p].target = NoChat THEN defaultChannel[round[p].agent]
                      ELSE call[p].target[1]
           d == [call[p] EXCEPT !.channel = channel]
<1>1. Active(p) /\ place[p] = "execute" BY DEF Execute, Active
<1>2. RoundOK(p) /\ (round[p].alone => AloneOK(p)) /\ round[p].agent \in Agents
  BY <1>1, InARound
<1>3. call' = [call EXCEPT ![p] = d] /\ place' = [place EXCEPT ![p] = "send"]
      /\ UNCHANGED <<defaultChannel, defaultChatID, sentInRound, round, calls, begun, out, ended>>
  BY DEF Execute, Goto, toolVars
<1>4. call[p] \in Call BY <1>1, <1>2 DEF RoundOK, RepliesInv, RepliesTypeOK
<1>5. channel \in {NoChat} \cup {c[1] : c \in Chats \cup (Targets \ {NoChat})}
  BY <1>2, <1>4 DEF Call, RepliesInv, RepliesTypeOK
<1>6. d \in Call /\ d.channel = channel /\ d.target = call[p].target BY <1>4, <1>5 DEF Call
<1>7. d # NoCall
  <2>1. call[p] # NoCall BY <1>1, <1>2 DEF RoundOK
  <2>2. "target" \in DOMAIN d /\ "target" \notin DOMAIN NoCall BY <1>6 DEF Call, NoCall
  <2> QED BY <2>2
<1> HIDE DEF d
<1>8. RepliesTypeOK' BY <1>3, <1>6 DEF RepliesTypeOK, RepliesInv, Steps
<1>9. place'[p] = "send" /\ call'[p] = d BY <1>3 DEF RepliesTypeOK, RepliesInv
<1>10. StepOf(p) BY <1>1, <1>3 DEF StepOf, RepliesTypeOK, RepliesInv
<1>11. RoundOK(p)' BY <1>1, <1>2, <1>3, <1>7, <1>9 DEF RoundOK, Said
<1>12. round[p].alone => AloneOK(p)'
  BY <1>1, <1>2, <1>3, <1>6, <1>9 DEF AloneOK, Prepared, Said, Spoke
<1>13. (\E b \in Agents : sentInRound'[b]) => SomeoneSpoke'
  BY <1>3 DEF RepliesInv, Apart, SomeoneSpoke
<1> QED BY <1>3, <1>8, <1>9, <1>10, <1>11, <1>12, <1>13, Continues DEF Active

(* A refused call raises no flag. *)
LEMMA RefuseKeeps ==
  ASSUME RepliesInv, NEW p \in Actors, Refuse(p)
  PROVE  RepliesInv'
<1> DEFINE a == round[p].agent
<1>1. Active(p) /\ place[p] = "execute" BY DEF Refuse, Active
<1>2. RoundOK(p) /\ (round[p].alone => AloneOK(p)) /\ a \in Agents BY <1>1, InARound
<1>3. sentInRound' = [sentInRound EXCEPT ![a] = sentInRound[a]]
      /\ call' = [call EXCEPT ![p] = NoCall] /\ place' = [place EXCEPT ![p] = "llm"]
      /\ UNCHANGED <<defaultChannel, defaultChatID, round, calls, begun, out, ended>>
  BY DEF Refuse, AfterRefusal, Goto
<1>4. sentInRound' = sentInRound BY <1>3 DEF RepliesInv, RepliesTypeOK
<1>5. RepliesTypeOK' BY <1>3, <1>4 DEF RepliesTypeOK, RepliesInv, Steps
<1>6. place'[p] = "llm" BY <1>3 DEF RepliesTypeOK, RepliesInv
<1>7. StepOf(p) BY <1>1, <1>3, <1>4 DEF StepOf, RepliesTypeOK, RepliesInv
<1>8. RoundOK(p)' BY <1>1, <1>2, <1>3, <1>6 DEF RoundOK, Said
<1>9. \A m \in Said(round[p].n, {"message"}) : m.i < calls[p] BY <1>1, <1>2 DEF RoundOK
<1>10. round[p].alone => AloneOK(p)'
  BY <1>1, <1>2, <1>3, <1>4, <1>6, <1>9 DEF AloneOK, Prepared, Said, Spoke
<1>11. (\E b \in Agents : sentInRound'[b]) => SomeoneSpoke'
  BY <1>3, <1>4 DEF RepliesInv, Apart, SomeoneSpoke
<1> QED BY <1>3, <1>5, <1>6, <1>7, <1>8, <1>10, <1>11, Continues DEF Active

(* A message without a target goes to the chat the tool was prepared for,  *)
(* and only after it is handed over is the flag raised.                    *)
LEMMA SendKeeps ==
  ASSUME Instance, RepliesInv, NEW p \in Actors, Send(p)
  PROVE  RepliesInv'
<1> DEFINE r == round[p]
           id == IF call[p].target = NoChat THEN defaultChatID[r.agent] ELSE call[p].target[2]
           m0 == [n |-> r.n, what |-> IF call[p].target = NoChat THEN "message" ELSE "elsewhere",
                  to |-> <<call[p].channel, id>>, i |-> calls[p]]
<1>1. Active(p) /\ place[p] = "send" BY DEF Send, Active
<1>2. RoundOK(p) /\ (r.alone => AloneOK(p)) /\ r \in Round /\ r.chat \in Chats
  BY <1>1, InARound
<1>3. out' = out \cup {m0} /\ place' = [place EXCEPT ![p] = "mark"]
      /\ UNCHANGED <<defaultChannel, defaultChatID, sentInRound, round, call, calls, begun, ended>>
  BY DEF Send, Publish, Goto, toolVars
<1>4. /\ m0.n = r.n /\ m0.i = calls[p] /\ m0.what \in Through
      /\ m0.what = "message" /\ r.alone => m0.to = r.chat
  <2>1. CASE call[p].target = NoChat /\ r.alone
    <3>1. call[p].channel = r.chat[1] /\ id = r.chat[2]
      BY <1>1, <1>2, <2>1 DEF AloneOK, Prepared
    <3>2. r.chat = <<r.chat[1], r.chat[2]>> BY <1>2 DEF Instance
    <3> QED BY <3>1, <3>2 DEF Through
  <2>2. CASE ~(call[p].target = NoChat /\ r.alone) BY <2>2 DEF Through
  <2> QED BY <2>1, <2>2
<1>5. m0.n \in Nat /\ m0.i \in Nat BY <1>2, <1>4 DEF Round, RepliesInv, RepliesTypeOK
<1> HIDE DEF m0
<1>6. RepliesTypeOK' BY <1>3, <1>5 DEF RepliesTypeOK, RepliesInv, Steps
<1>7. place'[p] = "mark" BY <1>3 DEF RepliesTypeOK, RepliesInv
<1>8. StepOf(p) BY <1>1, <1>3, <1>4 DEF StepOf, RepliesTypeOK, RepliesInv
<1>9. Spoke(r.n)' /\ SomeoneSpoke' BY <1>3, <1>4 DEF Spoke, SomeoneSpoke
<1>10. \A m \in Said(r.n, {"message"})' : m.i <= calls[p]
  BY <1>2, <1>3, <1>4, <1>5 DEF RoundOK, Said
<1>11. Said(r.n, {"reply"})' = {} BY <1>2, <1>3, <1>4 DEF RoundOK, Said, Through
<1>12. RoundOK(p)'
  <2>1. call[p] # NoCall BY <1>1, <1>2 DEF RoundOK
  <2>2. r \in Round /\ r.n <= begun /\ r.actor = p /\ (r.kind = "user" => p = Loop)
    BY <1>2 DEF RoundOK
  <2> QED BY <1>3, <1>7, <1>9, <1>10, <1>11, <2>1, <2>2 DEF RoundOK
<1>13. ASSUME r.alone PROVE AloneOK(p)'
  <2>1. \A m \in Said(r.n, {"message"})' : m.to = r.chat
    BY <1>2, <1>3, <1>4, <1>13 DEF AloneOK, Said
  <2> QED BY <1>1, <1>2, <1>3, <1>7, <1>9, <1>13, <2>1 DEF AloneOK, Prepared
<1> QED BY <1>3, <1>6, <1>7, <1>8, <1>9, <1>12, <1>13, Continues DEF Active

LEMMA MarkKeeps ==
  ASSUME RepliesInv, NEW p \in Actors, Mark(p)
  PROVE  RepliesInv'
<1> DEFINE a == round[p].agent
<1>1. Active(p) /\ place[p] = "mark" BY DEF Mark, Active
<1>2. RoundOK(p) /\ (round[p].alone => AloneOK(p)) /\ a \in Agents BY <1>1, InARound
<1>3. sentInRound' = [sentInRound EXCEPT ![a] = TRUE]
      /\ call' = [call EXCEPT ![p] = NoCall] /\ place' = [place EXCEPT ![p] = "llm"]
      /\ UNCHANGED <<defaultChannel, defaultChatID, round, calls, begun, out, ended>>
  BY DEF Mark, Goto
<1>4. RepliesTypeOK' BY <1>3 DEF RepliesTypeOK, RepliesInv, Steps
<1>5. place'[p] = "llm" /\ sentInRound'[a] BY <1>2, <1>3 DEF RepliesTypeOK, RepliesInv
<1>6. StepOf(p) BY <1>1, <1>3 DEF StepOf, RepliesTypeOK, RepliesInv
<1>7. Spoke(round[p].n) /\ SomeoneSpoke BY <1>1, <1>2 DEF RoundOK, Spoke, SomeoneSpoke
<1>8. Spoke(round[p].n)' /\ SomeoneSpoke' BY <1>3, <1>7 DEF Spoke, SomeoneSpoke
<1>9. RoundOK(p)' BY <1>1, <1>2, <1>3, <1>5 DEF RoundOK, Said
<1>10. round[p].alone => AloneOK(p)'
  BY <1>1, <1>2, <1>3, <1>5, <1>8 DEF AloneOK, Prepared, Said
<1> QED BY <1>3, <1>4, <1>5, <1>6, <1>8, <1>9, <1>10, Continues DEF Active

(* Rounds of the loop go on to the reply; the others end unheard. *)
LEMMA AnswersKeeps ==
  ASSUME RepliesInv, NEW p \in Actors, NEW failing \in BOOLEAN, Answers(p, failing)
  PROVE  RepliesInv'
<1> DEFINE r == round[p]
           m0 == [n |-> r.n, what |-> "answer", to |-> r.chat, i |-> calls[p]]
<1>1. Active(p) /\ place[p] = "llm" BY DEF Answers, Active
<1>2. RoundOK(p) /\ (r.alone => AloneOK(p)) /\ r \in Round BY <1>1, InARound
<1>3. /\ UNCHANGED <<defaultChannel, defaultChatID, sentInRound, call, begun>>
      /\ out' = out \/ (r.kind = "system" /\ out' = out \cup {m0})
  BY DEF Answers, Publish, toolVars
<1>4. m0.n = r.n /\ m0.i = calls[p] /\ m0.what = "answer" /\ m0.n \in Nat /\ m0.i \in Nat
  BY <1>2 DEF Round, RepliesInv, RepliesTypeOK
<1> HIDE DEF m0
<1>5. \A m \in out' : m \in out \/ (m.n = r.n /\ m.what = "answer" /\ m.n \in Nat /\ m.i \in Nat)
  BY <1>3, <1>4
<1>6. out \subseteq out' BY <1>3
<1>7. \A n, what : "answer" \notin what => Said(n, what)' = Said(n, what)
  BY <1>5, <1>6 DEF Said
<1>8. (\E b \in Agents : sentInRound'[b]) => SomeoneSpoke'
  BY <1>3, <1>6 DEF RepliesInv, Apart, SomeoneSpoke
<1>9. CASE p = Loop
  <2>1. place' = [place EXCEPT ![p] = "reply"] /\ UNCHANGED <<round, calls, ended>>
    BY <1>9 DEF Answers, Goto
  <2>2. place'[p] = "reply" BY <2>1 DEF RepliesTypeOK, RepliesInv
  <2>3. RepliesTypeOK' BY <1>3, <1>5, <2>1 DEF RepliesTypeOK, RepliesInv, Steps
  <2>4. StepOf(p) BY <1>1, <1>3, <1>5, <1>6, <2>1 DEF StepOf, RepliesTypeOK, RepliesInv
  <2>5. /\ Said(round[p].n, {"message"})' = Said(round[p].n, {"message"})
        /\ Said(round[p].n, {"reply"})' = Said(round[p].n, {"reply"})
        /\ Spoke(round[p].n) => Spoke(round[p].n)'
    BY <1>6, <1>7, <2>1 DEF Spoke
  <2>6. RoundOK(p)' BY <1>1, <1>2, <1>3, <1>9, <2>1, <2>2, <2>5 DEF RoundOK
  <2>7. r.alone => AloneOK(p)'
    BY <1>1, <1>2, <1>3, <2>1, <2>2, <2>5 DEF AloneOK, Prepared
  <2> QED BY <1>8, <2>1, <2>2, <2>3, <2>4, <2>6, <2>7, Continues DEF Active
<1>10. CASE p # Loop
  <2>1. EndRound(p, FALSE) BY <1>10 DEF Answers
  <2>2. /\ place' = [place EXCEPT ![p] = "idle"] /\ round' = [round EXCEPT ![p] = NoRound]
        /\ calls' = [calls EXCEPT ![p] = 0]
    BY <2>1 DEF EndRound, Goto
  <2>3. RepliesTypeOK' BY <1>3, <1>5, <2>2 DEF RepliesTypeOK, RepliesInv, Steps
  <2>4. StepOf(p) BY <1>1, <1>3, <1>5, <1>6, <2>2 DEF StepOf, RepliesTypeOK, RepliesInv
  <2>5. PICK last : last = [round |-> r, replied |-> FALSE] OBVIOUS
  <2>6. last.round = r BY <2>5
  <2>7. r.n <= begun /\ r.actor # Loop /\ r.kind # "user" BY <1>2, <1>10 DEF RoundOK
  <2>8. r.alone => \A m \in Said(r.n, {"message"}) : m.to = r.chat BY <1>2 DEF AloneOK
  <2>9. PICK n : n = r.n OBVIOUS
  <2>10. Said(n, {"message"})' = Said(n, {"message"}) BY <1>7
  <2>11. last.round \in Round /\ last.round.n = n /\ last.round.n <= begun'
         /\ last.round.actor # Loop /\ last.round.kind # "user"
    BY <1>2, <1>3, <2>6, <2>7, <2>9
  <2>12. last.round.alone => \A m \in Said(last.round.n, {"message"})' : m.to = last.round.chat
    BY <2>6, <2>8, <2>9, <2>10
  <2>13. EndedOK(last)' BY <2>11, <2>12 DEF EndedOK
  <2> QED BY <1>3, <2>1, <2>3, <2>4, <2>5, <2>13, Ends
<1> QED BY <1>9, <1>10

(* The response: if it is published, no message of the round came with its *)
(* last call; if it is withheld, the round has spoken, when it was alone.  *)
LEMMA ReplyKeeps ==
  ASSUME Instance, RepliesInv, NEW p \in Actors, Reply(p)
  PROVE  RepliesInv'
<1> DEFINE r == round[p]
           w == sentInRound[Default]
           m0 == [n |-> r.n, what |-> "reply", to |-> r.chat, i |-> calls[p]]
<1>1. Active(p) /\ place[p] = "reply" BY DEF Reply, Active
<1>2. RoundOK(p) /\ (r.alone => AloneOK(p)) /\ r \in Round BY <1>1, InARound
<1>3. /\ UNCHANGED <<defaultChannel, defaultChatID, sentInRound, call, begun>>
      /\ w \/ r.kind = "system" => out' = out
      /\ ~w /\ r.kind # "system" => out' = out \cup {m0}
      /\ EndRound(p, ~w)
  BY DEF Reply, Publish, toolVars, Withheld
<1>4. /\ place' = [place EXCEPT ![p] = "idle"] /\ round' = [round EXCEPT ![p] = NoRound]
      /\ calls' = [calls EXCEPT ![p] = 0]
  BY <1>3 DEF EndRound, Goto
<1>5. m0.n = r.n /\ m0.i = calls[p] /\ m0.what = "reply" /\ m0.to = r.chat
      /\ m0.n \in Nat /\ m0.i \in Nat
  BY <1>2 DEF Round, RepliesInv, RepliesTypeOK
<1> HIDE DEF m0
<1>6. RepliesTypeOK' BY <1>3, <1>4, <1>5 DEF RepliesTypeOK, RepliesInv, Steps
<1>7. out \subseteq out' /\ \A m \in out' : m \in out \/ m = m0 BY <1>3
<1>8. StepOf(p) BY <1>1, <1>3, <1>4, <1>5, <1>7 DEF StepOf, RepliesTypeOK, RepliesInv
<1>9. PICK last : last = [round |-> r, replied |-> ~w] OBVIOUS
<1>10. PICK n : n = r.n OBVIOUS
<1>11. last.round = r /\ last.replied = ~w BY <1>9
<1>12. /\ \A m \in Said(n, {"message"})' : m \in Said(n, {"message"})
       /\ \A m \in Said(n, {"reply"})' : m = m0 /\ ~w
       /\ \A what : \A m \in Said(n, what) : m \in Said(n, what)'
  BY <1>2, <1>3, <1>5, <1>7, <1>10 DEF RoundOK, Said
<1>13. w \in BOOLEAN /\ (w => SomeoneSpoke)
  BY DEF Instance, RepliesInv, RepliesTypeOK, Apart
<1>14. last.round.actor = Loop /\ ~last.replied => SomeoneSpoke'
  BY <1>7, <1>11, <1>13 DEF SomeoneSpoke
<1>15. r.alone => \A m \in Said(n, {"message"}) : m.to = r.chat BY <1>2, <1>10 DEF AloneOK
<1>16. ASSUME r.alone, r.kind = "user", r.agent = Default
       PROVE  /\ \/ Said(n, {"elsewhere"})' # {}
                 \/ \E m \in Said(n, {"message", "reply"})' : m.to = r.chat
              /\ \A s \in Said(n, {"reply"})', m \in Said(n, {"message"})' : m.i < s.i
  <2>1. CASE w
    <3>1. Spoke(n) BY <1>1, <1>2, <1>10, <1>16, <2>1 DEF AloneOK
    <3>2. PICK m \in out : m.n = n /\ m.what \in {"message", "elsewhere"}
      BY <3>1 DEF Spoke, Through
    <3>3. CASE m.what = "elsewhere"
      <4>1. m \in Said(n, {"elsewhere"})' BY <1>12, <3>2, <3>3 DEF Said
      <4> QED BY <1>12, <2>1, <4>1
    <3>4. CASE m.what = "message"
      <4>1. m.to = r.chat BY <1>15, <1>16, <3>2, <3>4 DEF Said
      <4>2. m \in Said(n, {"message", "reply"})' BY <1>12, <3>2, <3>4 DEF Said
      <4> QED BY <1>12, <2>1, <4>1, <4>2
    <3> QED BY <3>2, <3>3, <3>4
  <2>2. CASE ~w
    <3>1. out' = out \cup {m0} BY <1>3, <1>16, <2>2
    <3>2. m0 \in Said(n, {"message", "reply"})' BY <1>5, <1>10, <3>1 DEF Said
    <3>3. \A m \in Said(n, {"message"}) : m.i < m0.i
      BY <1>1, <1>2, <1>5, <1>10, <1>16, <2>2 DEF AloneOK
    <3> QED BY <1>5, <1>12, <3>2, <3>3
  <2> QED BY <2>1, <2>2
<1>17. last.round.n = n /\ last.round \in Round /\ last.round.n <= begun'
  BY <1>2, <1>3, <1>10, <1>11 DEF RoundOK
<1>18. last.round.alone => \A m \in Said(last.round.n, {"message"})' : m.to = last.round.chat
  BY <1>11, <1>12, <1>15, <1>17
<1>19. last.round.alone /\ last.round.kind = "user" /\ last.round.agent = Default =>
         /\ \/ Said(last.round.n, {"elsewhere"})' # {}
            \/ \E m \in Said(last.round.n, {"message", "reply"})' : m.to = last.round.chat
         /\ \A s \in Said(last.round.n, {"reply"})', m \in Said(last.round.n, {"message"})' :
              m.i < s.i
  BY <1>11, <1>16, <1>17
<1>20. EndedOK(last)' BY <1>14, <1>17, <1>18, <1>19 DEF EndedOK
<1> QED BY <1>3, <1>6, <1>8, <1>9, <1>20, Ends

(* A round that begins has said nothing yet, and is alone only if nobody   *)
(* else is with its agent.                                                 *)
LEMMA BeginKeeps ==
  ASSUME RepliesInv, NEW p \in Actors, NEW kind \in Kinds \cup {"job", "heartbeat"},
         NEW its \in Agents, NEW chat \in Chats, Begin(p, kind, its, chat)
  PROVE  RepliesInv'
<1>0. PICK alone \in BOOLEAN : alone = (InRound(its) = {}) OBVIOUS
<1> DEFINE r == [n |-> begun + 1, actor |-> p, agent |-> its, chat |-> chat,
                 kind |-> kind, alone |-> alone]
           next == IF kind = "command" THEN "reply" ELSE "setchannel"
<1>1. /\ place[p] = "idle" /\ begun' = begun + 1 /\ begun \in Nat
      /\ calls' = [calls EXCEPT ![p] = 0] /\ place' = [place EXCEPT ![p] = next]
      /\ UNCHANGED <<defaultChannel, defaultChatID, sentInRound, call, out, ended>>
  BY DEF Begin, Goto, toolVars, RepliesInv, RepliesTypeOK
<1>2. kind \in {"user", "command"} => p = Loop
  <2>1. p # Loop => kind \in {"job", "heartbeat"} BY DEF Begin
  <2> QED BY <2>1
<1>3. /\ r \in Round /\ r.n = begun + 1 /\ r.actor = p /\ r.agent = its /\ r.kind = kind
      /\ r.alone = alone
  BY <1>1 DEF Round
<1>4. r.alone <=> InRound(its) = {} BY <1>0, <1>3
<1>5. round' = [q \in Actors |-> IF q = p THEN r
                  ELSE IF q \in InRound(its) THEN [round[q] EXCEPT !.alone = FALSE]
                  ELSE round[q]]
  BY <1>0, <1>1 DEF Begin
<1> HIDE DEF r
<1>6. round'[p] = r /\ place'[p] = next /\ calls'[p] = 0 /\ Active(p)'
  BY <1>1, <1>5 DEF Active, RepliesInv, RepliesTypeOK
<1>7. ASSUME NEW q \in Actors, q # p
      PROVE  /\ place'[q] = place[q] /\ call'[q] = call[q] /\ calls'[q] = calls[q]
             /\ q \notin InRound(its) => round'[q] = round[q]
             /\ q \in InRound(its) => round'[q] = [round[q] EXCEPT !.alone = FALSE]
  BY <1>1, <1>5, <1>7 DEF RepliesInv, RepliesTypeOK
<1>8. \A q \in Actors : q # p => (Active(q)' <=> Active(q)) BY <1>7 DEF Active
<1>9. ASSUME NEW q \in Actors, q # p, Active(q)
      PROVE  /\ round[q] \in Round /\ round'[q] \in Round /\ round'[q].n = round[q].n
             /\ round'[q].actor = round[q].actor /\ round'[q].kind = round[q].kind
             /\ round'[q].agent = round[q].agent
             /\ round'[q].alone => round[q].agent # its /\ round'[q] = round[q]
  <2>1. round[q] \in Round BY <1>9, InARound
  <2>2. q \in InRound(its) <=> round[q].agent = its BY <1>9 DEF InRound, Active
  <2>3. CASE q \in InRound(its)
    <3>1. round'[q] = [round[q] EXCEPT !.alone = FALSE] BY <1>7, <1>9, <2>3
    <3> QED BY <2>1, <3>1 DEF Round
  <2>4. CASE q \notin InRound(its) BY <1>7, <1>9, <2>1, <2>2, <2>4
  <2> QED BY <2>3, <2>4
<1>10. ASSUME NEW q \in Actors, q # p
       PROVE  IF Active(q)' THEN RoundOK(q)' /\ (round'[q].alone => AloneOK(q)')
                            ELSE round'[q] = NoRound
  <2>1. CASE ~Active(q)
    <3>1. round[q] = NoRound /\ q \notin InRound(its)
      BY <2>1 DEF RepliesInv, InRound, Active
    <3> QED BY <1>7, <1>8, <1>10, <2>1, <3>1
  <2>2. CASE Active(q)
    <3>1. RoundOK(q) /\ (round[q].alone => AloneOK(q)) BY <2>2, InARound
    <3>2. \A what : Said(round[q].n, what)' = Said(round[q].n, what)
      BY <1>1, <1>9, <1>10, <2>2 DEF Said
    <3>3. /\ Said(round[q].n, {"message"})' = Said(round[q].n, {"message"})
          /\ Said(round[q].n, {"reply"})' = Said(round[q].n, {"reply"})
      BY <3>2
    <3>4. Spoke(round[q].n)' <=> Spoke(round[q].n) BY <1>1, <1>9, <1>10, <2>2 DEF Spoke
    <3>5. round[q].n <= begun' /\ round'[q].actor = q
      BY <1>1, <1>9, <1>10, <2>2, <3>1 DEF RoundOK, Round
    <3>6. RoundOK(q)'
      BY <1>7, <1>9, <1>10, <2>2, <3>1, <3>3, <3>4, <3>5 DEF RoundOK
    <3>7. round'[q].alone => AloneOK(q)'
      BY <1>1, <1>7, <1>9, <1>10, <2>2, <3>1, <3>3, <3>4 DEF AloneOK
    <3> QED BY <1>8, <1>10, <2>2, <3>6, <3>7
  <2> QED BY <2>1, <2>2
<1>11. \A what : Said(begun + 1, what) = {}
  BY <1>1 DEF Said, RepliesInv, Apart, RepliesTypeOK
<1>12. \A what : Said(round[p].n, what)' = {}
  <2>1. \A what : Said(round[p].n, what)' = Said(begun + 1, what) BY <1>1, <1>3, <1>6 DEF Said
  <2> QED BY <1>11, <2>1
<1>13. RoundOK(p)' BY <1>1, <1>2, <1>3, <1>6, <1>12 DEF RoundOK
<1>14. AloneOK(p)' BY <1>3, <1>6, <1>12 DEF AloneOK, Prepared
<1>15. Apart'
  <2>1. \A m \in out' : m.n <= begun' BY <1>1 DEF RepliesInv, Apart, RepliesTypeOK
  <2>2. (\E a \in Agents : sentInRound'[a]) => SomeoneSpoke'
    BY <1>1 DEF RepliesInv, Apart, SomeoneSpoke
  <2>3. \A q \in Actors, e \in ended : Active(q)' => e.round.n # round'[q].n
    <3>1. \A e \in ended : e.round.n <= begun /\ e.round.n \in Nat
      BY DEF RepliesInv, EndedOK, Round
    <3>2. \A e \in ended : e.round.n # round'[p].n BY <1>1, <1>3, <1>6, <3>1
    <3> QED BY <1>8, <1>9, <3>2 DEF RepliesInv, Apart
  <2>4. ASSUME NEW q \in Actors, q # p, Active(q)
        PROVE  /\ round'[q].n # round'[p].n
               /\ round'[q].alone => round'[p].agent # round'[q].agent
               /\ round'[p].alone => round'[q].agent # round'[p].agent
    <3>1. round[q].n \in Nat /\ round[q].n <= begun BY <2>4, InARound DEF RoundOK, Round
    <3>2. round'[q].n # round'[p].n BY <1>1, <1>3, <1>6, <1>9, <2>4, <3>1
    <3>3. r.alone => round[q].agent # its BY <1>4, <2>4 DEF InRound, Active
    <3> QED BY <1>3, <1>6, <1>9, <2>4, <3>2, <3>3
  <2>5. \A q, s \in Actors : q # s /\ q # p /\ s # p /\ Active(q) /\ Active(s) =>
          /\ round'[q].n # round'[s].n
          /\ round'[q].alone => round'[s].agent # round'[q].agent
    BY <1>9 DEF RepliesInv, Apart
  <2> QED BY <1>1, <1>8, <2>1, <2>2, <2>3, <2>4, <2>5 DEF Apart
<1>16. \A e \in ended : EndedOK(e)'
  <2>1. ASSUME NEW e \in ended PROVE EndedOK(e)'
    <3>1. EndedOK(e) BY DEF RepliesInv
    <3>2. \A n, what : Said(n, what)' = Said(n, what) BY <1>1 DEF Said
    <3>3. e.round \in Round /\ e.round.n <= begun' BY <1>1, <3>1 DEF EndedOK, Round
    <3> QED BY <1>1, <3>1, <3>2, <3>3 DEF EndedOK, SomeoneSpoke
  <2> QED BY <2>1
<1>17. RepliesTypeOK'
  <2>1. round' \in [Actors -> {NoRound} \cup Round]
    <3>1. \A q \in Actors : round'[q] \in {NoRound} \cup Round
      BY <1>3, <1>6, <1>8, <1>9, <1>10
    <3> QED BY <1>5, <3>1
  <2>2. place' \in [Actors -> Steps] BY <1>1 DEF RepliesInv, RepliesTypeOK, Steps
  <2> QED BY <1>1, <2>1, <2>2 DEF RepliesInv, RepliesTypeOK
<1> QED BY <1>1, <1>6, <1>10, <1>13, <1>14, <1>15, <1>16, <1>17 DEF RepliesInv

LEMMA RepliesInitially == RepliesInit => RepliesInv
<1> SUFFICES ASSUME RepliesInit PROVE RepliesInv OBVIOUS
<1>1. RepliesTypeOK BY DEF RepliesInit, RepliesTypeOK, Steps
<1>2. \A p \in Actors : ~Active(p) /\ round[p] = NoRound BY DEF RepliesInit, Active
<1>3. out = {} /\ ended = {} /\ \A a \in Agents : ~sentInRound[a] BY DEF RepliesInit
<1> QED BY <1>1, <1>2, <1>3 DEF RepliesInv, Apart

(* All steps keep the invariant, which says what is to be shown. *)
LEMMA RepliesInductive == Instance /\ RepliesInv /\ [RepliesNext]_repliesVars => RepliesInv'
<1> SUFFICES ASSUME Instance, RepliesInv, [RepliesNext]_repliesVars PROVE RepliesInv' OBVIOUS
<1>1. CASE RepliesNext
  BY <1>1, SetChannelKeeps, SetChatIDKeeps, CallsMessageKeeps, ExecuteKeeps, RefuseKeeps,
     SendKeeps, MarkKeeps, AnswersKeeps, ReplyKeeps, BeginKeeps DEF RepliesNext
<1>2. CASE UNCHANGED repliesVars
  <2> USE <1>2 DEF repliesVars
  <2>1. RepliesTypeOK' /\ Apart'
    BY DEF RepliesInv, RepliesTypeOK, Apart, Active, SomeoneSpoke
  <2>2. \A p \in Actors : RoundOK(p)' <=> RoundOK(p) BY DEF RoundOK, Said, Spoke
  <2>3. \A p \in Actors : AloneOK(p)' <=> AloneOK(p) BY DEF AloneOK, Said, Spoke
  <2>4. \A e \in ended : EndedOK(e)' <=> EndedOK(e) BY DEF EndedOK, Said, SomeoneSpoke
  <2> QED BY <2>1, <2>2, <2>3, <2>4 DEF RepliesInv, Active
<1> QED BY <1>1, <1>2

LEMMA RepliesInvImplies == RepliesInv => RepliesGoHome
<1> SUFFICES ASSUME RepliesInv PROVE RepliesGoHome OBVIOUS
<1>1. \A e \in ended : EndedOK(e) BY DEF RepliesInv
<1>2. WithheldOnlyIfSent
  BY <1>1 DEF WithheldOnlyIfSent, EndedOK, SomeoneSpoke, Through
<1>3. DefaultGoesHome
  <2>1. \A p \in Actors : round[p] # NoRound => Active(p) BY DEF RepliesInv
  <2>2. \A p \in Actors : Active(p) /\ round[p].alone =>
          \A m \in Said(round[p].n, {"message"}) : m.to = round[p].chat
    BY InARound DEF AloneOK
  <2> QED BY <1>1, <2>1, <2>2 DEF DefaultGoesHome, EndedOK
<1>4. \A e \in OwnFlag : /\ e \in ended /\ e.round.alone /\ e.round.kind = "user"
                         /\ e.round.agent = Default
  BY DEF OwnFlag, OfKind
<1>5. UserIsAnswered BY <1>1, <1>4 DEF UserIsAnswered, EndedOK
<1>6. NoSecondMessage BY <1>1, <1>4 DEF NoSecondMessage, EndedOK
<1> QED BY <1>2, <1>3, <1>5, <1>6 DEF RepliesGoHome

(* What is said in a round that is alone with its agent reaches its chat,  *)
(* a response is withheld only for something that was said, and comes only *)
(* where it is needed: for any goroutines, agents, chats and bounds.       *)
THEOREM RepliesHome == ASSUME Instance PROVE RepliesSpec => []RepliesGoHome
<1>1. RepliesInv /\ [RepliesNext]_repliesVars => RepliesInv' BY RepliesInductive
<1> QED BY <1>1, RepliesInitially, RepliesInvImplies, PTL DEF RepliesSpec

-----------------------------------------------------------------------------
(* Sequences *)

(* What a sequence has. *)
Elems(s) == {s[i] : i \in DOMAIN s}

LEMMA ElemsAppend ==
  ASSUME NEW T, NEW s \in Seq(T), NEW e \in T
  PROVE  /\ Append(s, e) \in Seq(T) /\ Elems(Append(s, e)) = Elems(s) \cup {e}
         /\ Append(s, e) # <<>> /\ Len(Append(s, e)) = Len(s) + 1
         /\ \A i \in 1 .. Len(s) : Append(s, e)[i] = s[i]
         /\ Append(s, e)[Len(s) + 1] = e
<1>1. /\ Append(s, e) \in Seq(T) /\ Len(Append(s, e)) = Len(s) + 1
      /\ \A i \in 1 .. Len(s) : Append(s, e)[i] = s[i]
      /\ Append(s, e)[Len(s) + 1] = e
  BY AppendProperties
<1>2. Len(s) \in Nat /\ DOMAIN s = 1 .. Len(s) /\ DOMAIN Append(s, e) = 1 .. Len(s) + 1
  BY <1>1
<1> DEFINE a == Append(s, e)
<1> HIDE DEF a
<1>3. Elems(a) = Elems(s) \cup {e} BY <1>1, <1>2 DEF Elems, a
<1>4. a # <<>> BY <1>1, <1>2, EmptySeq DEF a
<1> QED BY <1>1, <1>3, <1>4 DEF a

LEMMA ElemsTail ==
  ASSUME NEW T, NEW s \in Seq(T), s # <<>>
  PROVE  /\ Tail(s) \in Seq(T) /\ Len(Tail(s)) = Len(s) - 1
         /\ Head(s) \in T /\ Head(s) = s[1] /\ 1 \in DOMAIN s
         /\ \A i \in 1 .. Len(s) - 1 : Tail(s)[i] = s[i + 1]
         /\ Elems(s) = Elems(Tail(s)) \cup {Head(s)}
<1>1. /\ Tail(s) \in Seq(T) /\ Len(Tail(s)) = Len(s) - 1
      /\ Head(s) \in T /\ Head(s) = s[1]
      /\ \A i \in 1 .. Len(s) - 1 : Tail(s)[i] = s[i + 1]
  BY HeadTailProperties
<1>2. Len(s) \in Nat /\ Len(s) # 0 /\ DOMAIN s = 1 .. Len(s) BY EmptySeq
<1> DEFINE t == Tail(s)
<1>3. DOMAIN t = 1 .. Len(s) - 1 BY <1>1
<1> HIDE DEF t
<1>4. ASSUME NEW i \in 1 .. Len(s) PROVE i = 1 \/ \E j \in 1 .. Len(s) - 1 : i = j + 1
  <2>1. i # 1 => i - 1 \in 1 .. Len(s) - 1 /\ i = (i - 1) + 1 BY <1>2
  <2> QED BY <2>1
<1>5. Elems(s) \subseteq Elems(t) \cup {Head(s)}
  <2> SUFFICES ASSUME NEW i \in 1 .. Len(s) PROVE s[i] \in Elems(t) \cup {Head(s)}
    BY <1>2 DEF Elems
  <2>1. CASE i = 1 BY <1>1, <2>1
  <2>2. CASE i # 1
    <3>1. PICK j \in 1 .. Len(s) - 1 : i = j + 1 BY <1>4, <2>2
    <3>2. t[j] = s[i] BY <1>1, <3>1 DEF t
    <3> QED BY <1>3, <3>2 DEF Elems
  <2> QED BY <2>1, <2>2
<1>6. \A j \in 1 .. Len(s) - 1 : j + 1 \in 1 .. Len(s) BY <1>2
<1>7. Elems(t) \cup {Head(s)} \subseteq Elems(s) BY <1>1, <1>2, <1>3, <1>6 DEF Elems, t
<1> QED BY <1>1, <1>2, <1>5, <1>7 DEF t

LEMMA ElemsOne ==
  ASSUME NEW T, NEW x \in T
  PROVE  /\ <<x>> \in Seq(T) /\ Elems(<<x>>) = {x} /\ Head(<<x>>) = x /\ Tail(<<x>>) = <<>>
         /\ <<x>> # <<>> /\ Append(<<>>, x) = <<x>>
BY DEF Elems

LEMMA ElemsNone == Elems(<<>>) = {}
BY DEF Elems

(* A sequence that has nothing twice. *)
Distinct(s) == \A i, j \in DOMAIN s : i # j => s[i] # s[j]

LEMMA DistinctAppend ==
  ASSUME NEW T, NEW s \in Seq(T), NEW e \in T, Distinct(s), e \notin Elems(s)
  PROVE  Distinct(Append(s, e))
<1> DEFINE a == Append(s, e)
<1>1. /\ a \in Seq(T) /\ Len(a) = Len(s) + 1 /\ a[Len(s) + 1] = e
      /\ \A i \in 1 .. Len(s) : a[i] = s[i]
  BY ElemsAppend
<1>2. Len(s) \in Nat /\ DOMAIN s = 1 .. Len(s) OBVIOUS
<1> HIDE DEF a
<1>3. DOMAIN a = 1 .. Len(s) + 1 BY <1>1
<1>4. \A i \in DOMAIN a : i \in DOMAIN s \/ i = Len(s) + 1 BY <1>2, <1>3
<1>5. \A i \in DOMAIN s : a[i] = s[i] /\ a[i] # e BY <1>1, <1>2 DEF Elems
<1>6. Distinct(a) BY <1>1, <1>4, <1>5 DEF Distinct
<1> QED BY <1>6 DEF a

LEMMA DistinctTail ==
  ASSUME NEW T, NEW s \in Seq(T), s # <<>>, Distinct(s)
  PROVE  Distinct(Tail(s)) /\ Head(s) \notin Elems(Tail(s))
<1> DEFINE t == Tail(s)
<1>1. /\ t \in Seq(T) /\ Len(t) = Len(s) - 1 /\ Head(s) = s[1] /\ 1 \in DOMAIN s
      /\ \A i \in 1 .. Len(s) - 1 : t[i] = s[i + 1]
  BY ElemsTail
<1>2. Len(s) \in Nat /\ DOMAIN s = 1 .. Len(s) OBVIOUS
<1> HIDE DEF t
<1>3. DOMAIN t = 1 .. Len(s) - 1 BY <1>1
<1>4. /\ \A i \in DOMAIN t : i + 1 \in DOMAIN s /\ i + 1 # 1
      /\ \A i, j \in DOMAIN t : i # j => i + 1 # j + 1
  BY <1>2, <1>3
<1>5. Distinct(t) BY <1>1, <1>3, <1>4 DEF Distinct
<1>6. \A i \in DOMAIN t : t[i] # Head(s) BY <1>1, <1>3, <1>4 DEF Distinct
<1>7. Head(s) \notin Elems(t) BY <1>6 DEF Elems
<1> QED BY <1>5, <1>7 DEF t

-----------------------------------------------------------------------------
(* The Telegram chat *)

Sent == TelegramRounds \cup TelegramNotes
ScreenTexts ==
  {Thinking} \cup {Part(r, n) : r \in TelegramRounds, n \in Nat} \cup {FinalText(x) : x \in Sent}
Streams == [open : BOOLEAN, msg : Nat, buffer : Nat, last : Nat, edit : Nat, done : BOOLEAN]
AtHandler == {"none", "thinking", "publishing", "returned"}

ChatTypes ==
  /\ placeholder \in Nat
  /\ handler \in [TelegramRounds -> AtHandler]
  /\ inbox \in Seq(TelegramRounds) /\ outbox \in Seq(Sent)
  /\ current \in TelegramRounds \cup {0} /\ stream \in {0, current}
  /\ loops \in [TelegramRounds -> Streams]
  /\ sending \in [on : BOOLEAN, id : Nat] /\ (sending.on => outbox # <<>>)
  /\ screen \in Seq(ScreenTexts)
  /\ delivered \cup unsent \subseteq Sent
  /\ fails \in Nat

(* What is named is on the screen. *)
OnScreen ==
  /\ placeholder <= Len(screen) /\ sending.id <= Len(screen)
  /\ \A r \in TelegramRounds : loops[r].msg <= Len(screen)

(* A round is in the inbox, with the agent, to be sent or sent, in turn;   *)
(* its stream is opened while the agent has it.                            *)
InOnePlace ==
  /\ Distinct(inbox) /\ Distinct(outbox)
  /\ Elems(outbox) \cap (delivered \cup unsent) = {}
  /\ \A r \in Elems(inbox) : /\ handler[r] = "returned" /\ r # current
                             /\ r \notin Elems(outbox) \cup delivered \cup unsent
  /\ current # 0 => /\ handler[current] = "returned"
                    /\ current \notin Elems(outbox) \cup delivered \cup unsent
  /\ \A r \in TelegramRounds :
       r \in Elems(outbox) \cup delivered \cup unsent => handler[r] = "returned"
  /\ \A r \in TelegramRounds :
       /\ handler[r] # "returned" => loops[r] = NoStream
       /\ handler[r] # "returned" => \A j \in DOMAIN screen, n \in Nat : screen[j] # Part(r, n)
       /\ loops[r].edit # 0 => loops[r].open /\ loops[r].msg # 0
       /\ loops[r].open => loops[r].done \/ (stream = r /\ current = r)

(* A placeholder is that of a round under way which will take it. *)
PlaceholderIsTaken ==
  placeholder # 0 =>
    \E r \in TelegramPending :
      /\ handler[r] \in {"publishing", "returned"}
      /\ ~(sending.on /\ sending.id = 0 /\ Head(outbox) = r)

(* A round under way that is alone in the chat. *)
AloneInChat(r) ==
  /\ TelegramPending = {r}
  /\ \/ handler[r] # "returned" /\ inbox = <<>> /\ current = 0 /\ outbox = <<>>
     \/ handler[r] = "returned" /\ inbox = <<r>> /\ current = 0 /\ outbox = <<>>
     \/ handler[r] = "returned" /\ inbox = <<>> /\ current = r /\ outbox = <<>>
     \/ handler[r] = "returned" /\ inbox = <<>> /\ current = 0 /\ outbox = <<r>>
  /\ sending.on => sending.id = placeholder
  /\ loops[r].msg \in {0, placeholder}
  /\ placeholder # 0 => \A q \in TelegramRounds : q # r => loops[q].msg # placeholder
  /\ fails = 0 => \A j \in DOMAIN screen, n \in Nat : screen[j] = Part(r, n) => j = placeholder

(* The answer of a round is on the screen, where nothing else will go. *)
StandsAt(i, r) ==
  /\ screen[i] = FinalText(r) /\ i # placeholder
  /\ sending.on => sending.id # i
  /\ \A q \in TelegramRounds : q # r => loops[q].msg # i
AnswerStands(r) ==
  /\ \E i \in DOMAIN screen : StandsAt(i, r)
  /\ fails = 0 => \A j \in DOMAIN screen, n \in Nat : screen[j] # Part(r, n)

(* Whatever the chat thinks of is the placeholder. *)
OneThought ==
  disturbed = {} /\ fails = 0 =>
    /\ \A j \in DOMAIN screen : screen[j] = Thinking => j = placeholder
    /\ sending.on => sending.id = placeholder

UnderWayAlone == \A r \in TelegramPending \ disturbed : AloneInChat(r)
SentAlone == \A r \in TelegramRounds : r \in delivered \ (disturbed \cup late) => AnswerStands(r)

ChatInv == ChatTypes /\ OnScreen /\ InOnePlace /\ PlaceholderIsTaken
           /\ UnderWayAlone /\ SentAlone /\ OneThought

LEMMA ChatNumbers ==
  /\ \A r \in TelegramRounds : r \in Nat /\ r # 0 /\ r \in Sent /\ r \notin TelegramNotes
  /\ \A n \in TelegramNotes : n \in Sent
BY TelegramAssumption DEF Sent

LEMMA ScreenTextsDiffer ==
  /\ Thinking \in ScreenTexts
  /\ \A x \in Sent : FinalText(x) \in ScreenTexts /\ FinalText(x) # Thinking
  /\ \A r \in TelegramRounds, n \in Nat :
       Part(r, n) \in ScreenTexts /\ Part(r, n) # Thinking /\ \A x : Part(r, n) # FinalText(x)
  /\ \A r, q, n, m : Part(r, n) = Part(q, m) => r = q
BY DEF Thinking, Part, FinalText, ScreenTexts

LEMMA Posted ==
  ASSUME screen \in Seq(ScreenTexts), NEW x \in ScreenTexts, Show(x)
  PROVE  /\ screen' \in Seq(ScreenTexts) /\ Len(screen') = Len(screen) + 1 /\ Len(screen) \in Nat
         /\ DOMAIN screen = 1 .. Len(screen) /\ DOMAIN screen' = 1 .. Len(screen) + 1
         /\ \A j \in DOMAIN screen : j \in DOMAIN screen' /\ screen'[j] = screen[j]
         /\ screen'[Len(screen) + 1] = x
         /\ \A j \in DOMAIN screen' : j \in DOMAIN screen \/ j = Len(screen) + 1
<1>1. screen' = Append(screen, x) BY DEF Show
<1>2. /\ screen' \in Seq(ScreenTexts) /\ Len(screen') = Len(screen) + 1
      /\ \A j \in 1 .. Len(screen) : screen'[j] = screen[j]
      /\ screen'[Len(screen) + 1] = x
  BY <1>1, AppendProperties
<1>3. Len(screen) \in Nat /\ DOMAIN screen = 1 .. Len(screen) OBVIOUS
<1>4. DOMAIN screen' = 1 .. Len(screen) + 1 BY <1>2
<1> QED BY <1>2, <1>3, <1>4

LEMMA Edited ==
  ASSUME screen \in Seq(ScreenTexts), NEW x \in ScreenTexts, NEW id \in Nat, id # 0,
         id <= Len(screen), Edit(id, x)
  PROVE  /\ screen' \in Seq(ScreenTexts) /\ Len(screen') = Len(screen)
         /\ DOMAIN screen' = DOMAIN screen /\ DOMAIN screen = 1 .. Len(screen)
         /\ id \in DOMAIN screen /\ screen'[id] = x
         /\ \A j \in DOMAIN screen : j # id => screen'[j] = screen[j]
<1>1. DOMAIN screen = 1 .. Len(screen) /\ Len(screen) \in Nat OBVIOUS
<1>2. id \in DOMAIN screen BY <1>1
<1> QED BY <1>1, <1>2 DEF Edit

LEMMA ChatStarts == TelegramInit => ChatInv
<1> SUFFICES ASSUME TelegramInit PROVE ChatInv OBVIOUS
<1>1. /\ placeholder = 0 /\ handler = [r \in TelegramRounds |-> "none"]
      /\ inbox = <<>> /\ outbox = <<>> /\ current = 0 /\ stream = 0
      /\ loops = [r \in TelegramRounds |-> NoStream]
      /\ sending = Idle /\ screen = <<>> /\ delivered = {} /\ unsent = {} /\ fails = 0
  BY DEF TelegramInit
<1>2. Len(screen) = 0 /\ DOMAIN screen = {} BY <1>1
<1>3. ChatTypes BY <1>1 DEF ChatTypes, Idle, NoStream, Streams, AtHandler
<1>4. OnScreen BY <1>1, <1>2 DEF OnScreen, Idle, NoStream
<1>5. Elems(inbox) = {} /\ Elems(outbox) = {} BY <1>1, ElemsNone
<1>6. InOnePlace BY <1>1, <1>2, <1>5 DEF InOnePlace, NoStream, Distinct
<1>7. TelegramPending = {} BY <1>1 DEF TelegramPending
<1>8. PlaceholderIsTaken BY <1>1 DEF PlaceholderIsTaken
<1>9. UnderWayAlone /\ SentAlone BY <1>1, <1>7 DEF UnderWayAlone, SentAlone
<1>10. OneThought BY <1>1, <1>2 DEF OneThought, Idle
<1> QED BY <1>3, <1>4, <1>6, <1>8, <1>9, <1>10 DEF ChatInv

(* A chat in which no round is under way is quiet. *)
LEMMA NoneUnderWay ==
  ASSUME ChatTypes, InOnePlace, PlaceholderIsTaken, TelegramPending = {}
  PROVE  placeholder = 0 /\ inbox = <<>> /\ current = 0
<1>1. placeholder = 0 BY DEF PlaceholderIsTaken
<1>2. inbox = <<>>
  <2> SUFFICES ASSUME inbox # <<>> PROVE FALSE OBVIOUS
  <2>1. Head(inbox) \in TelegramRounds /\ Head(inbox) \in Elems(inbox)
    BY ElemsTail DEF ChatTypes
  <2> QED BY <2>1 DEF InOnePlace, TelegramPending
<1>3. current = 0 BY DEF ChatTypes, InOnePlace, TelegramPending
<1> QED BY <1>1, <1>2, <1>3

LEMMA MessageReceived ==
  ASSUME ChatInv, NEW r \in TelegramRounds, Receive(r)
  PROVE  ChatInv'
<1>1. /\ handler[r] = "none" /\ handler' = [handler EXCEPT ![r] = "thinking"]
      /\ disturbed' = IF TelegramPending = {} /\ outbox = <<>> THEN disturbed
                      ELSE disturbed \cup TelegramPending \cup {r}
      /\ UNCHANGED <<placeholder, inbox, current, stream, loops, outbox, sending, screen,
                     delivered, unsent, late, fails>>
  BY DEF Receive
<1>2. /\ handler'[r] = "thinking"
      /\ \A q \in TelegramRounds : q # r => handler'[q] = handler[q]
      /\ handler' \in [TelegramRounds -> AtHandler]
  BY <1>1 DEF ChatInv, ChatTypes, AtHandler
<1>3. ChatTypes' BY <1>1, <1>2 DEF ChatInv, ChatTypes
<1>4. OnScreen' BY <1>1 DEF ChatInv, OnScreen
<1>5. r \notin Elems(outbox) \cup delivered \cup unsent /\ r \notin Elems(inbox) /\ current # r
  BY <1>1, ChatNumbers DEF ChatInv, InOnePlace
<1>6. InOnePlace'
  <2>1. /\ loops[r] = NoStream /\ \A j \in DOMAIN screen, n \in Nat : screen[j] # Part(r, n)
    BY <1>1 DEF ChatInv, InOnePlace
  <2>2. Elems(inbox)' = Elems(inbox) /\ Elems(outbox)' = Elems(outbox) BY <1>1
  <2>3. Elems(inbox) \subseteq TelegramRounds BY DEF Elems, ChatInv, ChatTypes
  <2>4. current # 0 => handler'[current] = "returned"
    BY <1>2, <1>5 DEF ChatInv, InOnePlace, ChatTypes
  <2>5. \A q \in Elems(inbox) : handler'[q] = "returned" BY <1>2, <1>5, <2>3 DEF ChatInv, InOnePlace
  <2> QED BY <1>1, <1>2, <1>5, <2>1, <2>2, <2>4, <2>5 DEF ChatInv, InOnePlace
<1>7. TelegramPending' = TelegramPending \cup {r}
  BY <1>1, <1>2, <1>5 DEF TelegramPending
<1>8. PlaceholderIsTaken'
  BY <1>1, <1>2, <1>7 DEF ChatInv, PlaceholderIsTaken, TelegramPending
<1>9. UnderWayAlone'
  <2> SUFFICES ASSUME NEW q \in TelegramPending' \ disturbed' PROVE AloneInChat(q)'
    BY DEF UnderWayAlone
  <2>1. TelegramPending = {} /\ outbox = <<>> /\ q = r BY <1>1, <1>7
  <2>2. placeholder = 0 /\ inbox = <<>> /\ current = 0 BY <2>1, NoneUnderWay DEF ChatInv
  <2>3. ~sending.on BY <2>1 DEF ChatInv, ChatTypes
  <2>4. loops[r].msg = 0 /\ \A j \in DOMAIN screen, n \in Nat : screen[j] # Part(r, n)
    BY <1>1 DEF ChatInv, InOnePlace, NoStream
  <2> QED BY <1>1, <1>2, <1>7, <2>1, <2>2, <2>3, <2>4 DEF AloneInChat
<1>10. disturbed \subseteq disturbed' BY <1>1
<1>11. SentAlone' BY <1>1, <1>10 DEF ChatInv, SentAlone, AnswerStands, StandsAt
<1>12. OneThought' BY <1>1, <1>10 DEF ChatInv, OneThought
<1> QED BY <1>3, <1>4, <1>6, <1>8, <1>9, <1>11, <1>12 DEF ChatInv

LEMMA PlaceholderPosted ==
  ASSUME ChatInv, NEW r \in TelegramRounds, Think(r)
  PROVE  ChatInv'
<1>1. /\ handler[r] = "thinking" /\ handler' = [handler EXCEPT ![r] = "publishing"]
      /\ \/ Show(Thinking) /\ placeholder' = Len(screen) + 1 /\ fails' = fails
         \/ fails' = fails + 1 /\ UNCHANGED <<screen, placeholder>>
      /\ UNCHANGED <<inbox, current, stream, loops, outbox, sending, delivered, unsent,
                     disturbed, late>>
  BY DEF Think, Fail
<1>2. /\ handler'[r] = "publishing"
      /\ \A q \in TelegramRounds : q # r => handler'[q] = handler[q]
      /\ handler' \in [TelegramRounds -> AtHandler]
  BY <1>1 DEF ChatInv, ChatTypes, AtHandler
<1>3. /\ screen \in Seq(ScreenTexts) /\ Len(screen) \in Nat /\ DOMAIN screen = 1 .. Len(screen)
      /\ fails \in Nat
  BY DEF ChatInv, ChatTypes
<1>4. /\ screen' \in Seq(ScreenTexts) /\ Len(screen') \in Nat /\ Len(screen) <= Len(screen')
      /\ \A j \in DOMAIN screen : j \in DOMAIN screen' /\ screen'[j] = screen[j]
      /\ \A j \in DOMAIN screen' :
           j \in DOMAIN screen \/ (j = Len(screen) + 1 /\ screen'[j] = Thinking)
  <2>1. CASE Show(Thinking) BY <1>3, <2>1, Posted, ScreenTextsDiffer
  <2>2. CASE screen' = screen BY <1>3, <2>2
  <2> QED BY <1>1, <2>1, <2>2
<1>5. \/ placeholder' = Len(screen) + 1 /\ Len(screen') = Len(screen) + 1 /\ fails' = fails
      \/ placeholder' = placeholder /\ screen' = screen /\ fails' = fails + 1
  <2>1. Show(Thinking) => Len(screen') = Len(screen) + 1 BY <1>3, Posted, ScreenTextsDiffer
  <2> QED BY <1>1, <2>1
<1>6. ChatTypes' BY <1>1, <1>2, <1>3, <1>4, <1>5 DEF ChatInv, ChatTypes
<1>7. OnScreen' BY <1>1, <1>3, <1>4, <1>5 DEF ChatInv, OnScreen, ChatTypes, Streams
<1>8. r \notin Elems(outbox) \cup delivered \cup unsent /\ r \notin Elems(inbox) /\ current # r
  BY <1>1, ChatNumbers DEF ChatInv, InOnePlace
<1>9. \A q \in TelegramRounds, j \in DOMAIN screen', n \in Nat :
        screen'[j] = Part(q, n) => j \in DOMAIN screen /\ screen[j] = Part(q, n)
  BY <1>4, ScreenTextsDiffer
<1>10. InOnePlace'
  <2>2. Elems(inbox)' = Elems(inbox) /\ Elems(outbox)' = Elems(outbox) BY <1>1
  <2>3. Elems(inbox) \subseteq TelegramRounds BY DEF Elems, ChatInv, ChatTypes
  <2>4. current # 0 => handler'[current] = "returned"
    BY <1>2, <1>8 DEF ChatInv, InOnePlace, ChatTypes
  <2>5. \A q \in Elems(inbox) : handler'[q] = "returned" BY <1>2, <1>8, <2>3 DEF ChatInv, InOnePlace
  <2>6. \A q \in TelegramRounds : handler'[q] # "returned" => handler[q] # "returned" BY <1>1, <1>2
  <2>7. \A q \in TelegramRounds : handler'[q] # "returned" =>
          \A j \in DOMAIN screen', n \in Nat : screen'[j] # Part(q, n)
    BY <1>9, <2>6 DEF ChatInv, InOnePlace
  <2> QED BY <1>1, <1>2, <1>8, <2>2, <2>4, <2>5, <2>6, <2>7 DEF ChatInv, InOnePlace
<1>11. TelegramPending' = TelegramPending /\ r \in TelegramPending
  BY <1>1, <1>2, <1>8 DEF TelegramPending
<1>12. sending.on => Head(outbox) # r
  <2>1. sending.on => Head(outbox) \in Elems(outbox) BY ElemsTail DEF ChatInv, ChatTypes
  <2> QED BY <1>8, <2>1
<1>13. PlaceholderIsTaken'
  <2>1. CASE placeholder' = Len(screen) + 1
    <3>1. r \in TelegramPending' /\ handler'[r] \in {"publishing", "returned"}
          /\ ~(sending'.on /\ sending'.id = 0 /\ Head(outbox') = r)
      BY <1>1, <1>2, <1>11, <1>12
    <3> QED BY <3>1 DEF PlaceholderIsTaken
  <2>2. CASE placeholder' = placeholder
    BY <1>1, <1>2, <1>11, <2>2 DEF ChatInv, PlaceholderIsTaken, TelegramPending
  <2> QED BY <1>5, <2>1, <2>2
(* A chat in which nothing else is under way has no placeholder yet. *)
<1>14. TelegramPending = {r} => placeholder = 0
  BY <1>1 DEF ChatInv, PlaceholderIsTaken
<1>15. UnderWayAlone'
  <2> SUFFICES ASSUME NEW q \in TelegramPending' \ disturbed' PROVE AloneInChat(q)'
    BY DEF UnderWayAlone
  <2>1. q \in TelegramPending \ disturbed /\ AloneInChat(q)
    BY <1>1, <1>11 DEF ChatInv, UnderWayAlone
  <2>2. q = r /\ TelegramPending = {r} BY <1>11, <2>1 DEF AloneInChat
  <2>3. inbox = <<>> /\ current = 0 /\ outbox = <<>> /\ ~sending.on /\ loops[r] = NoStream
    BY <1>1, <2>1, <2>2 DEF AloneInChat, ChatInv, InOnePlace, ChatTypes
  <2>4. \A j \in DOMAIN screen', n \in Nat : screen'[j] # Part(r, n)
    BY <1>1, <1>9 DEF ChatInv, InOnePlace
  <2>5. placeholder' # 0 => \A p \in TelegramRounds : p # r => loops[p].msg # placeholder'
    <3>1. \A p \in TelegramRounds : loops[p].msg <= Len(screen) /\ loops[p].msg \in Nat
      BY DEF ChatInv, OnScreen, ChatTypes, Streams
    <3> QED BY <1>3, <1>5, <1>14, <2>2, <3>1
  <2>6. loops[r].msg = 0 BY <2>3 DEF NoStream
  <2> QED BY <1>1, <1>2, <1>11, <2>2, <2>3, <2>4, <2>5, <2>6 DEF AloneInChat
<1>16. fails' = 0 => fails = 0 BY <1>3, <1>5
<1>17. SentAlone'
  <2> SUFFICES ASSUME NEW q \in TelegramRounds, q \in delivered' \ (disturbed' \cup late')
               PROVE AnswerStands(q)'
    BY DEF SentAlone
  <2>1. AnswerStands(q) BY <1>1 DEF ChatInv, SentAlone
  <2>2. PICK i \in DOMAIN screen : StandsAt(i, q) BY <2>1 DEF AnswerStands
  <2>3. i # placeholder' BY <1>3, <1>5, <2>2 DEF StandsAt
  <2>4. StandsAt(i, q)' BY <1>1, <1>4, <2>2, <2>3 DEF StandsAt
  <2>5. fails' = 0 => \A j \in DOMAIN screen', n \in Nat : screen'[j] # Part(q, n)
    BY <1>9, <1>16, <2>1 DEF AnswerStands
  <2> QED BY <1>4, <2>4, <2>5 DEF AnswerStands
<1>18. OneThought'
  <2> SUFFICES ASSUME disturbed' = {}, fails' = 0
               PROVE /\ \A j \in DOMAIN screen' : screen'[j] = Thinking => j = placeholder'
                     /\ sending'.on => sending'.id = placeholder'
    BY DEF OneThought
  <2>1. AloneInChat(r) BY <1>1, <1>11 DEF ChatInv, UnderWayAlone
  <2>2. placeholder = 0 /\ ~sending.on
    BY <1>1, <1>14, <2>1 DEF AloneInChat, ChatInv, ChatTypes
  <2>3. \A j \in DOMAIN screen : screen[j] # Thinking
    BY <1>1, <1>3, <1>16, <2>2 DEF ChatInv, OneThought
  <2>4. placeholder' = Len(screen) + 1 BY <1>3, <1>5
  <2> QED BY <1>1, <1>4, <2>2, <2>3, <2>4
<1> QED BY <1>6, <1>7, <1>10, <1>13, <1>15, <1>17, <1>18 DEF ChatInv

LEMMA MessagePublished ==
  ASSUME ChatInv, NEW r \in TelegramRounds, PublishMessage(r)
  PROVE  ChatInv'
<1>1. /\ handler[r] = "publishing" /\ handler' = [handler EXCEPT ![r] = "returned"]
      /\ inbox' = Append(inbox, r)
      /\ UNCHANGED <<placeholder, current, stream, loops, outbox, sending, screen,
                     delivered, unsent, disturbed, late, fails>>
  BY DEF PublishMessage
<1>2. /\ handler'[r] = "returned"
      /\ \A q \in TelegramRounds : q # r => handler'[q] = handler[q]
      /\ handler' \in [TelegramRounds -> AtHandler]
  BY <1>1 DEF ChatInv, ChatTypes, AtHandler
<1>3. /\ inbox' \in Seq(TelegramRounds) /\ Elems(inbox)' = Elems(inbox) \cup {r}
      /\ \A i \in 1 .. Len(inbox) : inbox'[i] = inbox[i]
      /\ inbox'[Len(inbox) + 1] = r /\ Len(inbox') = Len(inbox) + 1
  BY <1>1, ElemsAppend DEF ChatInv, ChatTypes
<1>4. ChatTypes' BY <1>1, <1>2, <1>3 DEF ChatInv, ChatTypes
<1>5. OnScreen' BY <1>1 DEF ChatInv, OnScreen
<1>6. r \notin Elems(outbox) \cup delivered \cup unsent /\ r \notin Elems(inbox) /\ current # r
  BY <1>1, ChatNumbers DEF ChatInv, InOnePlace
<1>7. Elems(inbox) \subseteq TelegramRounds /\ Elems(outbox)' = Elems(outbox)
  BY <1>1 DEF Elems, ChatInv, ChatTypes
<1>8. Distinct(inbox)'
  BY <1>1, <1>6, DistinctAppend DEF ChatInv, ChatTypes, InOnePlace
<1>9. InOnePlace'
  <2>1. \A q \in Elems(inbox)' : /\ handler'[q] = "returned" /\ q # current
                                 /\ q \notin Elems(outbox) \cup delivered \cup unsent
    BY <1>2, <1>3, <1>6, <1>7 DEF ChatInv, InOnePlace
  <2>2. current # 0 => handler'[current] = "returned"
    BY <1>2 DEF ChatInv, InOnePlace, ChatTypes
  <2>3. \A q \in TelegramRounds : handler'[q] # "returned" => handler[q] # "returned" BY <1>2
  <2>4. \A q \in TelegramRounds : handler[q] = "returned" => handler'[q] = "returned" BY <1>2
  <2> QED BY <1>1, <1>7, <1>8, <2>1, <2>2, <2>3, <2>4 DEF ChatInv, InOnePlace
<1>10. TelegramPending' = TelegramPending
  BY <1>1, <1>2 DEF TelegramPending
<1>11. PlaceholderIsTaken'
  BY <1>1, <1>2, <1>10 DEF ChatInv, PlaceholderIsTaken, TelegramPending
<1>12. UnderWayAlone'
  <2> SUFFICES ASSUME NEW q \in TelegramPending' \ disturbed' PROVE AloneInChat(q)'
    BY DEF UnderWayAlone
  <2>1. q \in TelegramPending \ disturbed /\ AloneInChat(q)
    BY <1>1, <1>10 DEF ChatInv, UnderWayAlone
  <2>2. r \in TelegramPending BY <1>1, <1>6 DEF TelegramPending
  <2>3. q = r /\ TelegramPending = {r} BY <2>1, <2>2 DEF AloneInChat
  <2>4. inbox = <<>> /\ current = 0 /\ outbox = <<>> BY <1>1, <2>1, <2>3 DEF AloneInChat
  <2>5. inbox' = <<r>> BY <1>1, <2>4, ElemsOne
  <2> QED BY <1>1, <1>2, <1>10, <2>1, <2>3, <2>4, <2>5 DEF AloneInChat
<1>13. SentAlone' BY <1>1 DEF ChatInv, SentAlone, AnswerStands, StandsAt
<1>14. OneThought' BY <1>1 DEF ChatInv, OneThought
<1> QED BY <1>4, <1>5, <1>9, <1>11, <1>12, <1>13, <1>14 DEF ChatInv

LEMMA RoundTaken ==
  ASSUME ChatInv, TelegramConsume
  PROVE  ChatInv'
<1>1. /\ current = 0 /\ inbox # <<>> /\ current' = Head(inbox) /\ inbox' = Tail(inbox)
      /\ UNCHANGED <<placeholder, handler, stream, loops, outbox, sending, screen,
                     delivered, unsent, disturbed, late, fails>>
  BY DEF TelegramConsume
<1>2. /\ inbox' \in Seq(TelegramRounds) /\ Len(inbox') = Len(inbox) - 1
      /\ current' \in TelegramRounds /\ current' = inbox[1] /\ 1 \in DOMAIN inbox
      /\ \A i \in 1 .. Len(inbox) - 1 : inbox'[i] = inbox[i + 1]
      /\ Elems(inbox) = Elems(inbox)' \cup {current'}
  BY <1>1, ElemsTail DEF ChatInv, ChatTypes
<1>3. current' # 0 /\ stream = 0 BY <1>1, <1>2, ChatNumbers DEF ChatInv, ChatTypes
<1>4. ChatTypes' BY <1>1, <1>2, <1>3 DEF ChatInv, ChatTypes
<1>5. OnScreen' BY <1>1 DEF ChatInv, OnScreen
<1>7. Distinct(inbox)' /\ current' \notin Elems(inbox)'
  BY <1>1, DistinctTail DEF ChatInv, ChatTypes, InOnePlace
<1>9. InOnePlace'
  <2>1. Elems(outbox)' = Elems(outbox) BY <1>1
  <2>2. \A q \in TelegramRounds : loops[q].open => loops[q].done
    BY <1>1, ChatNumbers DEF ChatInv, InOnePlace
  <2> QED BY <1>1, <1>2, <1>3, <1>7, <2>1, <2>2 DEF ChatInv, InOnePlace
<1>10. TelegramPending' = TelegramPending BY <1>1 DEF TelegramPending
<1>11. PlaceholderIsTaken' BY <1>1, <1>10 DEF ChatInv, PlaceholderIsTaken
<1>12. UnderWayAlone'
  <2> SUFFICES ASSUME NEW q \in TelegramPending' \ disturbed' PROVE AloneInChat(q)'
    BY DEF UnderWayAlone
  <2>1. q \in TelegramPending \ disturbed /\ AloneInChat(q)
    BY <1>1, <1>10 DEF ChatInv, UnderWayAlone
  <2>2. handler[q] = "returned" /\ inbox = <<q>> /\ outbox = <<>>
    BY <1>1, <2>1 DEF AloneInChat
  <2>3. q \in TelegramRounds BY DEF TelegramPending
  <2>4. inbox' = <<>> /\ current' = q BY <1>1, <2>2, <2>3, ElemsOne
  <2> QED BY <1>1, <1>10, <2>1, <2>2, <2>4 DEF AloneInChat
<1>13. SentAlone' BY <1>1 DEF ChatInv, SentAlone, AnswerStands, StandsAt
<1>14. OneThought' BY <1>1 DEF ChatInv, OneThought
<1> QED BY <1>4, <1>5, <1>9, <1>11, <1>12, <1>13, <1>14 DEF ChatInv

LEMMA ChunkStreamed ==
  ASSUME ChatInv, TelegramChunk
  PROVE  ChatInv'
<1>1. /\ current # 0 /\ stream' = current
      /\ \/ stream = 0 /\ loops' = [loops EXCEPT ![current] = newStream(current)]
         \/ stream = current /\ loops' = [loops EXCEPT ![current].buffer = @ + 1]
      /\ UNCHANGED <<placeholder, handler, inbox, current, outbox, sending, screen,
                     delivered, unsent, disturbed, late, fails>>
  BY DEF TelegramChunk, ChatInv, ChatTypes
<1>2. current \in TelegramRounds /\ current # 0 BY <1>1 DEF ChatInv, ChatTypes
<1>3. /\ loops' \in [TelegramRounds -> Streams]
      /\ \A q \in TelegramRounds : q # current => loops'[q] = loops[q]
      /\ \/ stream = 0 /\ loops'[current].msg = placeholder /\ loops'[current].edit = 0
            /\ loops'[current].open
         \/ stream = current /\ loops'[current].msg = loops[current].msg
            /\ loops'[current].open = loops[current].open
            /\ loops'[current].edit = loops[current].edit
  <2>1. loops \in [TelegramRounds -> Streams] /\ placeholder \in Nat BY DEF ChatInv, ChatTypes
  <2>2. CASE stream = 0 /\ loops' = [loops EXCEPT ![current] = newStream(current)]
    <3>1. /\ newStream(current) \in Streams /\ newStream(current).msg = placeholder
          /\ newStream(current).edit = 0 /\ newStream(current).open
      BY <2>1 DEF newStream, NoStream, Streams
    <3> QED BY <1>2, <2>1, <2>2, <3>1
  <2>3. CASE stream = current /\ loops' = [loops EXCEPT ![current].buffer = @ + 1]
    BY <1>2, <2>1, <2>3 DEF Streams
  <2> QED BY <1>1, <2>2, <2>3
<1>4. ChatTypes' BY <1>1, <1>3 DEF ChatInv, ChatTypes
<1>5. OnScreen' BY <1>1, <1>2, <1>3 DEF ChatInv, OnScreen
<1>6. InOnePlace'
  <2>1. Elems(outbox)' = Elems(outbox) /\ Elems(inbox)' = Elems(inbox) BY <1>1
  <2>2. handler[current] = "returned" BY <1>1 DEF ChatInv, InOnePlace
  <2>3. \A q \in TelegramRounds :
          /\ loops'[q].edit # 0 => loops'[q].open /\ loops'[q].msg # 0
          /\ loops'[q].open => loops'[q].done \/ (stream' = q /\ current' = q)
    BY <1>1, <1>2, <1>3 DEF ChatInv, InOnePlace
  <2> QED BY <1>1, <1>2, <1>3, <2>1, <2>2, <2>3 DEF ChatInv, InOnePlace
<1>7. TelegramPending' = TelegramPending BY <1>1 DEF TelegramPending
<1>8. PlaceholderIsTaken' BY <1>1, <1>7 DEF ChatInv, PlaceholderIsTaken
<1>9. UnderWayAlone'
  <2> SUFFICES ASSUME NEW q \in TelegramPending' \ disturbed' PROVE AloneInChat(q)'
    BY DEF UnderWayAlone
  <2>1. q \in TelegramPending \ disturbed /\ AloneInChat(q)
    BY <1>1, <1>7 DEF ChatInv, UnderWayAlone
  <2>2. q = current BY <1>1, <2>1 DEF AloneInChat
  <2>3. loops'[q].msg \in {0, placeholder} BY <1>3, <2>1, <2>2 DEF AloneInChat
  <2> QED BY <1>1, <1>3, <1>7, <2>1, <2>2, <2>3 DEF AloneInChat
<1>10. SentAlone'
  <2> SUFFICES ASSUME NEW q \in TelegramRounds, q \in delivered' \ (disturbed' \cup late')
               PROVE AnswerStands(q)'
    BY DEF SentAlone
  <2>1. AnswerStands(q) BY <1>1 DEF ChatInv, SentAlone
  <2>2. PICK i \in DOMAIN screen : StandsAt(i, q) BY <2>1 DEF AnswerStands
  <2>3. \A p \in TelegramRounds : p # q => loops'[p].msg # i BY <1>3, <2>2 DEF StandsAt
  <2> QED BY <1>1, <2>1, <2>2, <2>3 DEF AnswerStands, StandsAt
<1>11. OneThought' BY <1>1 DEF ChatInv, OneThought
<1> QED BY <1>4, <1>5, <1>6, <1>8, <1>9, <1>10, <1>11 DEF ChatInv

LEMMA Answered ==
  ASSUME ChatInv, TelegramAnswer
  PROVE  ChatInv'
<1>1. /\ current # 0 /\ stream' = 0 /\ current' = 0 /\ outbox' = Append(outbox, current)
      /\ loops' = IF stream = 0 THEN loops ELSE [loops EXCEPT ![stream].done = TRUE]
      /\ UNCHANGED <<placeholder, handler, inbox, sending, screen, delivered, unsent,
                     disturbed, late, fails>>
  BY DEF TelegramAnswer, FlushStream
<1>2. current \in TelegramRounds /\ current \in Sent /\ (stream # 0 => stream = current)
  BY <1>1, ChatNumbers DEF ChatInv, ChatTypes
<1>3. /\ loops' \in [TelegramRounds -> Streams]
      /\ \A q \in TelegramRounds : q # current => loops'[q] = loops[q]
      /\ \A q \in TelegramRounds : /\ loops'[q].msg = loops[q].msg
                                   /\ loops'[q].open = loops[q].open
                                   /\ loops'[q].edit = loops[q].edit
                                   /\ stream = q \/ loops'[q] = loops[q]
                                   /\ stream = q => loops'[q].done
  <2>1. CASE stream = 0 BY <1>1, <2>1, ChatNumbers DEF ChatInv, ChatTypes
  <2>2. CASE stream # 0 BY <1>1, <1>2, <2>2 DEF ChatInv, ChatTypes, Streams
  <2> QED BY <2>1, <2>2
<1>4. /\ outbox' \in Seq(Sent) /\ Elems(outbox)' = Elems(outbox) \cup {current}
      /\ outbox' # <<>> /\ Len(outbox') = Len(outbox) + 1
      /\ \A i \in 1 .. Len(outbox) : outbox'[i] = outbox[i]
  BY <1>1, <1>2, ElemsAppend DEF ChatInv, ChatTypes
<1>5. ChatTypes' BY <1>1, <1>3, <1>4 DEF ChatInv, ChatTypes
<1>6. OnScreen' BY <1>1, <1>3 DEF ChatInv, OnScreen
<1>7. InOnePlace'
  <2>1. Elems(inbox)' = Elems(inbox) BY <1>1
  <2>2. handler[current] = "returned" BY <1>1 DEF ChatInv, InOnePlace
  <2>3. \A q \in TelegramRounds :
          /\ loops'[q].edit # 0 => loops'[q].open /\ loops'[q].msg # 0
          /\ loops'[q].open => loops'[q].done
    BY <1>1, <1>2, <1>3 DEF ChatInv, InOnePlace
  <2>4. \A q \in TelegramRounds : handler[q] # "returned" => loops'[q] = loops[q]
    BY <1>3, <2>2
  <2>5. \A q \in Elems(inbox) : q # 0 /\ q # current
    BY ChatNumbers DEF Elems, ChatInv, ChatTypes, InOnePlace
  <2>6. current \notin Elems(outbox) \cup delivered \cup unsent BY <1>1 DEF ChatInv, InOnePlace
  <2>7. Distinct(outbox)'
    BY <1>1, <1>2, <2>6, DistinctAppend DEF ChatInv, ChatTypes, InOnePlace
  <2> QED BY <1>1, <1>4, <2>1, <2>2, <2>3, <2>4, <2>5, <2>6, <2>7 DEF ChatInv, InOnePlace
<1>8. TelegramPending' = TelegramPending BY <1>1 DEF TelegramPending
<1>9. sending.on => Head(outbox') = Head(outbox)
  <2>1. sending.on => outbox # <<>> /\ Len(outbox) # 0 /\ Len(outbox) \in Nat
    BY EmptySeq DEF ChatInv, ChatTypes
  <2>2. sending.on => Head(outbox) = outbox[1] BY <2>1, ElemsTail DEF ChatInv, ChatTypes
  <2>3. Head(outbox') = outbox'[1] BY <1>4, ElemsTail
  <2>4. sending.on => 1 \in 1 .. Len(outbox) BY <2>1
  <2> QED BY <1>4, <2>2, <2>3, <2>4
<1>10. PlaceholderIsTaken' BY <1>1, <1>8, <1>9 DEF ChatInv, PlaceholderIsTaken
<1>11. UnderWayAlone'
  <2> SUFFICES ASSUME NEW q \in TelegramPending' \ disturbed' PROVE AloneInChat(q)'
    BY DEF UnderWayAlone
  <2>1. q \in TelegramPending \ disturbed /\ AloneInChat(q)
    BY <1>1, <1>8 DEF ChatInv, UnderWayAlone
  <2>2. q = current /\ inbox = <<>> /\ outbox = <<>> /\ handler[q] = "returned"
    BY <1>1, <2>1 DEF AloneInChat
  <2>3. outbox' = <<q>> BY <1>1, <1>2, <2>2, ElemsOne
  <2> QED BY <1>1, <1>3, <1>8, <2>1, <2>2, <2>3 DEF AloneInChat
<1>12. SentAlone' BY <1>1, <1>3 DEF ChatInv, SentAlone, AnswerStands, StandsAt
<1>13. OneThought' BY <1>1 DEF ChatInv, OneThought
<1> QED BY <1>5, <1>6, <1>7, <1>10, <1>11, <1>12, <1>13 DEF ChatInv

LEMMA NotePosted ==
  ASSUME ChatInv, NEW n \in TelegramNotes, Note(n)
  PROVE  ChatInv'
<1>1. /\ n \notin delivered \cup unsent /\ \A i \in DOMAIN outbox : outbox[i] # n
      /\ outbox' = Append(outbox, n) /\ disturbed' = disturbed \cup TelegramPending
      /\ UNCHANGED <<placeholder, handler, inbox, current, stream, loops, sending,
                     screen, delivered, unsent, late, fails>>
  BY DEF Note
<1>2. n \in Sent /\ n \notin TelegramRounds BY ChatNumbers
<1>3. /\ outbox' \in Seq(Sent) /\ Elems(outbox)' = Elems(outbox) \cup {n}
      /\ outbox' # <<>> /\ Len(outbox') = Len(outbox) + 1
      /\ \A i \in 1 .. Len(outbox) : outbox'[i] = outbox[i]
  BY <1>1, <1>2, ElemsAppend DEF ChatInv, ChatTypes
<1>4. ChatTypes' BY <1>1, <1>3 DEF ChatInv, ChatTypes
<1>5. OnScreen' BY <1>1 DEF ChatInv, OnScreen
<1>6. InOnePlace'
  <2>1. Elems(inbox)' = Elems(inbox) /\ Elems(inbox) \subseteq TelegramRounds
    BY <1>1 DEF Elems, ChatInv, ChatTypes
  <2>2. current # 0 => current # n BY <1>2 DEF ChatInv, ChatTypes
  <2>3. n \notin Elems(outbox) BY <1>1 DEF Elems
  <2>4. Distinct(outbox)'
    BY <1>1, <1>2, <2>3, DistinctAppend DEF ChatInv, ChatTypes, InOnePlace
  <2> QED BY <1>1, <1>2, <1>3, <2>1, <2>2, <2>4 DEF ChatInv, InOnePlace
<1>7. TelegramPending' = TelegramPending BY <1>1 DEF TelegramPending
<1>8. sending.on => Head(outbox') = Head(outbox)
  <2>1. sending.on => outbox # <<>> /\ Len(outbox) # 0 /\ Len(outbox) \in Nat
    BY EmptySeq DEF ChatInv, ChatTypes
  <2>2. sending.on => Head(outbox) = outbox[1] BY <2>1, ElemsTail DEF ChatInv, ChatTypes
  <2>3. Head(outbox') = outbox'[1] BY <1>3, ElemsTail
  <2>4. sending.on => 1 \in 1 .. Len(outbox) BY <2>1
  <2> QED BY <1>3, <2>2, <2>3, <2>4
<1>9. PlaceholderIsTaken' BY <1>1, <1>7, <1>8 DEF ChatInv, PlaceholderIsTaken
<1>10. UnderWayAlone' BY <1>1, <1>7 DEF UnderWayAlone
<1>11. SentAlone' BY <1>1 DEF ChatInv, SentAlone, AnswerStands, StandsAt
<1>12. OneThought' BY <1>1 DEF ChatInv, OneThought
<1> QED BY <1>4, <1>5, <1>6, <1>9, <1>10, <1>11, <1>12 DEF ChatInv

LEMMA EditBegun ==
  ASSUME ChatInv, NEW r \in TelegramRounds, EditTick(r)
  PROVE  ChatInv'
<1>1. /\ loops[r].open /\ loops[r].msg # 0
      /\ loops' = [loops EXCEPT ![r].last = loops[r].buffer, ![r].edit = loops[r].buffer]
      /\ UNCHANGED <<placeholder, handler, inbox, current, stream, outbox, sending, screen,
                     delivered, unsent, disturbed, late, fails>>
  BY DEF EditTick
<1>2. /\ loops' \in [TelegramRounds -> Streams]
      /\ \A q \in TelegramRounds : /\ q # r => loops'[q] = loops[q]
                                   /\ loops'[q].msg = loops[q].msg
                                   /\ loops'[q].open = loops[q].open
                                   /\ loops'[q].done = loops[q].done
  BY <1>1 DEF ChatInv, ChatTypes, Streams
<1>3. ChatTypes' BY <1>1, <1>2 DEF ChatInv, ChatTypes
<1>4. OnScreen' BY <1>1, <1>2 DEF ChatInv, OnScreen
<1>5. loops[r] # NoStream BY <1>1 DEF NoStream
<1>6. InOnePlace'
  <2>1. Elems(outbox)' = Elems(outbox) /\ Elems(inbox)' = Elems(inbox) BY <1>1
  <2> QED BY <1>1, <1>2, <1>5, <2>1 DEF ChatInv, InOnePlace
<1>7. TelegramPending' = TelegramPending BY <1>1 DEF TelegramPending
<1>8. PlaceholderIsTaken' BY <1>1, <1>7 DEF ChatInv, PlaceholderIsTaken
<1>9. UnderWayAlone'
  <2> SUFFICES ASSUME NEW q \in TelegramPending \ disturbed PROVE AloneInChat(q)'
    BY <1>1, <1>7 DEF UnderWayAlone
  <2>1. AloneInChat(q) /\ q \in TelegramRounds BY DEF ChatInv, UnderWayAlone, TelegramPending
  <2> QED BY <1>1, <1>2, <1>7, <2>1 DEF AloneInChat
<1>10. SentAlone' BY <1>1, <1>2 DEF ChatInv, SentAlone, AnswerStands, StandsAt
<1>11. OneThought' BY <1>1 DEF ChatInv, OneThought
<1> QED BY <1>3, <1>4, <1>6, <1>8, <1>9, <1>10, <1>11 DEF ChatInv

LEMMA LoopEnded ==
  ASSUME ChatInv, NEW r \in TelegramRounds, LoopEnds(r)
  PROVE  ChatInv'
<1>1. /\ loops[r].open /\ loops[r].edit = 0 /\ loops' = [loops EXCEPT ![r].open = FALSE]
      /\ UNCHANGED <<placeholder, handler, inbox, current, stream, outbox, sending, screen,
                     delivered, unsent, disturbed, late, fails>>
  BY DEF LoopEnds
<1>2. /\ loops' \in [TelegramRounds -> Streams]
      /\ ~loops'[r].open
      /\ \A q \in TelegramRounds : /\ q # r => loops'[q] = loops[q]
                                   /\ loops'[q].msg = loops[q].msg
                                   /\ loops'[q].edit = loops[q].edit
  BY <1>1 DEF ChatInv, ChatTypes, Streams
<1>3. ChatTypes' BY <1>1, <1>2 DEF ChatInv, ChatTypes
<1>4. OnScreen' BY <1>1, <1>2 DEF ChatInv, OnScreen
<1>5. loops[r] # NoStream BY <1>1 DEF NoStream
<1>6. InOnePlace'
  <2>1. Elems(outbox)' = Elems(outbox) /\ Elems(inbox)' = Elems(inbox) BY <1>1
  <2> QED BY <1>1, <1>2, <1>5, <2>1 DEF ChatInv, InOnePlace
<1>7. TelegramPending' = TelegramPending BY <1>1 DEF TelegramPending
<1>8. PlaceholderIsTaken' BY <1>1, <1>7 DEF ChatInv, PlaceholderIsTaken
<1>9. UnderWayAlone'
  <2> SUFFICES ASSUME NEW q \in TelegramPending \ disturbed PROVE AloneInChat(q)'
    BY <1>1, <1>7 DEF UnderWayAlone
  <2>1. AloneInChat(q) /\ q \in TelegramRounds BY DEF ChatInv, UnderWayAlone, TelegramPending
  <2> QED BY <1>1, <1>2, <1>7, <2>1 DEF AloneInChat
<1>10. SentAlone' BY <1>1, <1>2 DEF ChatInv, SentAlone, AnswerStands, StandsAt
<1>11. OneThought' BY <1>1 DEF ChatInv, OneThought
<1> QED BY <1>3, <1>4, <1>6, <1>8, <1>9, <1>10, <1>11 DEF ChatInv

(* An edit lands on the message of its stream; one of a round that is sent *)
(* is late.                                                                *)
LEMMA EditLanded ==
  ASSUME ChatInv, NEW r \in TelegramRounds, EditLands(r)
  PROVE  ChatInv'
<1> DEFINE id == loops[r].msg
           x == Part(r, loops[r].edit)
<1>1. /\ loops[r].edit # 0 /\ loops' = [loops EXCEPT ![r].edit = 0]
      /\ \/ /\ Edit(id, x) /\ fails' = fails
            /\ late' = IF loops[r].done THEN late \cup {r} ELSE late
         \/ fails' = fails + 1 /\ UNCHANGED <<screen, late>>
      /\ UNCHANGED <<placeholder, handler, inbox, current, stream, outbox, sending,
                     delivered, unsent, disturbed>>
  BY DEF EditLands, Fail
<1>2. /\ loops' \in [TelegramRounds -> Streams]
      /\ loops'[r].edit = 0
      /\ \A q \in TelegramRounds : /\ q # r => loops'[q] = loops[q]
                                   /\ loops'[q].msg = loops[q].msg
                                   /\ loops'[q].open = loops[q].open
                                   /\ loops'[q].done = loops[q].done
  BY <1>1 DEF ChatInv, ChatTypes, Streams
<1>3. /\ id \in Nat /\ id # 0 /\ id <= Len(screen) /\ loops[r].edit \in Nat /\ x \in ScreenTexts
      /\ fails \in Nat /\ loops[r].open /\ loops[r] # NoStream /\ handler[r] = "returned"
  BY <1>1, ScreenTextsDiffer DEF ChatInv, ChatTypes, OnScreen, InOnePlace, Streams, NoStream
<1> HIDE DEF id, x
<1>4. /\ screen' \in Seq(ScreenTexts) /\ Len(screen') = Len(screen)
      /\ DOMAIN screen' = DOMAIN screen
      /\ \A j \in DOMAIN screen : screen'[j] = screen[j] \/ (j = id /\ screen'[j] = x)
      /\ screen' = screen \/ (fails' = fails /\ late' = IF loops[r].done THEN late \cup {r} ELSE late)
      /\ fails' \in Nat /\ (fails' = 0 => fails = 0) /\ late \subseteq late'
  <2>1. CASE Edit(id, x) /\ fails' = fails /\ late' = IF loops[r].done THEN late \cup {r} ELSE late
    BY <1>3, <2>1, Edited DEF ChatInv, ChatTypes
  <2>2. CASE fails' = fails + 1 /\ UNCHANGED <<screen, late>>
    BY <1>3, <2>2 DEF ChatInv, ChatTypes
  <2> QED BY <1>1, <2>1, <2>2
<1>5. ChatTypes' BY <1>1, <1>2, <1>4 DEF ChatInv, ChatTypes
<1>6. OnScreen' BY <1>1, <1>2, <1>4 DEF ChatInv, OnScreen
<1>7. /\ \A q \in TelegramRounds, j \in DOMAIN screen', n \in Nat :
           screen'[j] = Part(q, n) => screen[j] = Part(q, n) \/ (q = r /\ j = id)
      /\ \A j \in DOMAIN screen' : screen'[j] = Thinking => screen[j] = Thinking
  BY <1>3, <1>4, ScreenTextsDiffer DEF x
<1>8. InOnePlace'
  <2>1. Elems(outbox)' = Elems(outbox) /\ Elems(inbox)' = Elems(inbox) BY <1>1
  <2>2. \A q \in TelegramRounds : handler[q] # "returned" =>
          \A j \in DOMAIN screen', n \in Nat : screen'[j] # Part(q, n)
    BY <1>3, <1>4, <1>7 DEF ChatInv, InOnePlace
  <2> QED BY <1>1, <1>2, <1>3, <2>1, <2>2 DEF ChatInv, InOnePlace
<1>9. TelegramPending' = TelegramPending BY <1>1 DEF TelegramPending
<1>10. PlaceholderIsTaken' BY <1>1, <1>9 DEF ChatInv, PlaceholderIsTaken
<1>11. UnderWayAlone'
  <2> SUFFICES ASSUME NEW q \in TelegramPending \ disturbed PROVE AloneInChat(q)'
    BY <1>1, <1>9 DEF UnderWayAlone
  <2>1. AloneInChat(q) /\ q \in TelegramRounds BY DEF ChatInv, UnderWayAlone, TelegramPending
  <2>2. r = q => id = placeholder BY <1>3, <2>1 DEF AloneInChat, id
  <2>3. fails' = 0 =>
          \A j \in DOMAIN screen', n \in Nat : screen'[j] = Part(q, n) => j = placeholder
    BY <1>4, <1>7, <2>1, <2>2 DEF AloneInChat
  <2>4. loops[q] = NoStream => loops'[q] = NoStream BY <1>2, <1>3, <2>1
  <2> QED BY <1>1, <1>2, <1>3, <1>9, <2>1, <2>3, <2>4 DEF AloneInChat
<1>12. SentAlone'
  <2> SUFFICES ASSUME NEW q \in TelegramRounds, q \in delivered \ (disturbed \cup late')
               PROVE AnswerStands(q)'
    BY <1>1 DEF SentAlone
  <2>1. AnswerStands(q) BY <1>4 DEF ChatInv, SentAlone
  <2>2. PICK i \in DOMAIN screen : StandsAt(i, q) BY <2>1 DEF AnswerStands
  <2>3. q = r => screen' = screen
    <3>1. q = r => loops[r].done BY <1>3, ChatNumbers DEF ChatInv, InOnePlace
    <3> QED BY <1>4, <3>1
  <2>4. screen'[i] = screen[i] BY <1>4, <2>2, <2>3 DEF StandsAt, id
  <2>5. StandsAt(i, q)' BY <1>1, <1>2, <2>2, <2>4 DEF StandsAt
  <2>6. fails' = 0 => \A j \in DOMAIN screen', n \in Nat : screen'[j] # Part(q, n)
    BY <1>4, <1>7, <2>1, <2>3 DEF AnswerStands
  <2> QED BY <1>4, <2>5, <2>6 DEF AnswerStands
<1>13. OneThought' BY <1>1, <1>4, <1>7 DEF ChatInv, OneThought
<1> QED BY <1>5, <1>6, <1>8, <1>10, <1>11, <1>12, <1>13 DEF ChatInv

LEMMA PlaceholderLoaded ==
  ASSUME ChatInv, SendLoad
  PROVE  ChatInv'
<1>1. /\ ~sending.on /\ outbox # <<>> /\ sending' = [on |-> TRUE, id |-> placeholder]
      /\ UNCHANGED <<placeholder, handler, inbox, current, stream, loops, outbox,
                     screen, delivered, unsent, disturbed, late, fails>>
  BY DEF SendLoad
<1>2. sending'.on /\ sending'.id = placeholder BY <1>1
<1>3. ChatTypes' BY <1>1 DEF ChatInv, ChatTypes
<1>4. OnScreen' BY <1>1, <1>2 DEF ChatInv, OnScreen
<1>5. InOnePlace'
  <2>1. Elems(outbox)' = Elems(outbox) /\ Elems(inbox)' = Elems(inbox) BY <1>1
  <2> QED BY <1>1, <2>1 DEF ChatInv, InOnePlace
<1>6. TelegramPending' = TelegramPending BY <1>1 DEF TelegramPending
<1>7. PlaceholderIsTaken' BY <1>1, <1>2, <1>6 DEF ChatInv, PlaceholderIsTaken
<1>8. UnderWayAlone' BY <1>1, <1>2, <1>6 DEF ChatInv, UnderWayAlone, AloneInChat
<1>9. SentAlone' BY <1>1, <1>2 DEF ChatInv, SentAlone, AnswerStands, StandsAt
<1>10. OneThought' BY <1>1, <1>2 DEF ChatInv, OneThought
<1> QED BY <1>3, <1>4, <1>5, <1>7, <1>8, <1>9, <1>10 DEF ChatInv

LEMMA TextSent ==
  ASSUME ChatInv, TelegramSend
  PROVE  ChatInv'
<1> DEFINE x == Head(outbox)
           id == sending.id
<1>1. /\ sending.on /\ placeholder' = IF id = 0 THEN placeholder ELSE 0
      /\ \/ /\ IF id # 0 THEN Edit(id, FinalText(x)) ELSE Show(FinalText(x))
            /\ delivered' = delivered \cup {x} /\ UNCHANGED <<unsent, fails>>
         \/ /\ fails' = fails + 1 /\ Show(FinalText(x))
            /\ delivered' = delivered \cup {x} /\ UNCHANGED unsent
         \/ /\ fails' = fails + (IF id # 0 THEN 3 ELSE 2)
            /\ unsent' = unsent \cup {x} /\ UNCHANGED <<screen, delivered>>
      /\ outbox' = Tail(outbox) /\ sending' = Idle
      /\ UNCHANGED <<handler, inbox, current, stream, loops, disturbed, late>>
  BY DEF TelegramSend, DropPlaceholder, Fail
<1>2. outbox # <<>> /\ fails \in Nat /\ id \in Nat /\ id <= Len(screen)
      /\ placeholder \in Nat /\ placeholder <= Len(screen)
      /\ screen \in Seq(ScreenTexts) /\ Len(screen) \in Nat /\ DOMAIN screen = 1 .. Len(screen)
  BY <1>1 DEF ChatInv, ChatTypes, OnScreen
<1>3. /\ outbox' \in Seq(Sent) /\ x \in Sent /\ x \in Elems(outbox)
      /\ Elems(outbox) = Elems(outbox)' \cup {x} /\ Elems(outbox) \cap (delivered \cup unsent) = {}
      /\ Distinct(outbox)' /\ x \notin Elems(outbox)'
  BY <1>1, <1>2, ElemsTail, DistinctTail DEF ChatInv, ChatTypes, InOnePlace
<1> HIDE DEF x, id
<1>4. FinalText(x) \in ScreenTexts BY <1>3, ScreenTextsDiffer
(* Where the text goes, if it goes anywhere. *)
<1>5. \/ /\ screen' = screen /\ delivered' = delivered /\ unsent' = unsent \cup {x}
         /\ fails' \in Nat /\ fails' # 0
      \/ /\ delivered' = delivered \cup {x} /\ unsent' = unsent
         /\ fails' \in Nat /\ (fails' = 0 => fails = 0 /\ (id # 0 => screen'[id] = FinalText(x)))
         /\ screen' \in Seq(ScreenTexts) /\ Len(screen') \in Nat /\ Len(screen) <= Len(screen')
         /\ \E i \in DOMAIN screen' :
              /\ screen'[i] = FinalText(x)
              /\ i = Len(screen) + 1 \/ (i = id /\ id # 0)
              /\ \A j \in DOMAIN screen : j # i => screen'[j] = screen[j]
              /\ \A j \in DOMAIN screen' : j = i \/ j \in DOMAIN screen
              /\ \A j \in DOMAIN screen : j \in DOMAIN screen'
  <2>1. CASE /\ fails' = fails + (IF id # 0 THEN 3 ELSE 2)
             /\ unsent' = unsent \cup {x} /\ UNCHANGED <<screen, delivered>>
    BY <1>2, <2>1
  <2>2. CASE /\ delivered' = delivered \cup {x} /\ UNCHANGED unsent
             /\ id # 0 /\ Edit(id, FinalText(x)) /\ fails' = fails
    <3>1. /\ screen' \in Seq(ScreenTexts) /\ Len(screen') = Len(screen)
          /\ DOMAIN screen' = DOMAIN screen /\ id \in DOMAIN screen
          /\ screen'[id] = FinalText(x)
          /\ \A j \in DOMAIN screen : j # id => screen'[j] = screen[j]
      BY <1>2, <1>4, <2>2, Edited
    <3> QED BY <1>2, <2>2, <3>1
  <2>3. CASE /\ delivered' = delivered \cup {x} /\ UNCHANGED unsent /\ Show(FinalText(x))
             /\ fails' = fails + 1 \/ (fails' = fails /\ id = 0)
    <3>1. /\ screen' \in Seq(ScreenTexts) /\ Len(screen') = Len(screen) + 1
          /\ DOMAIN screen' = 1 .. Len(screen) + 1
          /\ \A j \in DOMAIN screen : j \in DOMAIN screen' /\ screen'[j] = screen[j]
          /\ screen'[Len(screen) + 1] = FinalText(x)
          /\ \A j \in DOMAIN screen' : j \in DOMAIN screen \/ j = Len(screen) + 1
      BY <1>2, <1>4, <2>3, Posted
    <3>2. Len(screen) + 1 \in DOMAIN screen' BY <1>2, <3>1
    <3> QED BY <1>2, <2>3, <3>1, <3>2
  <2> QED BY <1>1, <2>1, <2>2, <2>3
<1>6. /\ screen' \in Seq(ScreenTexts) /\ Len(screen') \in Nat /\ Len(screen) <= Len(screen')
      /\ fails' \in Nat /\ (fails' = 0 => fails = 0)
      /\ delivered \subseteq delivered' /\ unsent \subseteq unsent'
      /\ delivered' \cup unsent' = delivered \cup unsent \cup {x}
  BY <1>2, <1>5
<1>7. ~sending'.on /\ sending'.id = 0 /\ sending' \in [on : BOOLEAN, id : Nat] BY <1>1 DEF Idle
<1>8. ChatTypes' BY <1>1, <1>2, <1>3, <1>6, <1>7 DEF ChatInv, ChatTypes
<1>9. OnScreen'
  <2>1. placeholder' <= Len(screen') BY <1>1, <1>2, <1>6
  <2>2. \A q \in TelegramRounds : loops[q].msg <= Len(screen) /\ loops[q].msg \in Nat
    BY DEF ChatInv, OnScreen, ChatTypes, Streams
  <2> QED BY <1>1, <1>2, <1>6, <1>7, <2>1, <2>2 DEF OnScreen
<1>10. /\ \A q \in TelegramRounds, j \in DOMAIN screen', n \in Nat :
            screen'[j] = Part(q, n) => j \in DOMAIN screen /\ screen[j] = Part(q, n)
       /\ \A j \in DOMAIN screen' :
            screen'[j] = Thinking => j \in DOMAIN screen /\ screen[j] = Thinking
  BY <1>3, <1>5, ScreenTextsDiffer
<1>11. InOnePlace'
  <2>1. Elems(inbox)' = Elems(inbox) BY <1>1
  <2>2. \A q \in TelegramRounds : handler[q] # "returned" =>
          \A j \in DOMAIN screen', n \in Nat : screen'[j] # Part(q, n)
    BY <1>10 DEF ChatInv, InOnePlace
  <2>3. Elems(outbox)' \cup delivered' \cup unsent' = Elems(outbox) \cup delivered \cup unsent
    BY <1>3, <1>6
  <2>4. Elems(outbox)' \cap (delivered' \cup unsent') = {} BY <1>3, <1>6
  <2> QED BY <1>1, <1>3, <1>6, <2>1, <2>2, <2>3, <2>4 DEF ChatInv, InOnePlace
<1>12. TelegramPending' = TelegramPending \ {x} BY <1>1, <1>6 DEF TelegramPending
<1>13. PlaceholderIsTaken'
  <2> SUFFICES ASSUME placeholder' # 0 PROVE PlaceholderIsTaken' BY DEF PlaceholderIsTaken
  <2>1. id = 0 /\ placeholder # 0 BY <1>1
  <2> QED BY <1>1, <1>7, <1>12, <2>1 DEF ChatInv, PlaceholderIsTaken, x, id
<1>14. \A q \in TelegramPending \ disturbed : AloneInChat(q) /\ q = x /\ id = placeholder
  <2> SUFFICES ASSUME NEW q \in TelegramPending \ disturbed
               PROVE  AloneInChat(q) /\ q = x /\ id = placeholder
    OBVIOUS
  <2>1. AloneInChat(q) BY DEF ChatInv, UnderWayAlone
  <2>2. outbox = <<q>> /\ q \in TelegramRounds BY <1>2, <2>1 DEF AloneInChat, TelegramPending
  <2>3. q = x BY <2>2 DEF x
  <2> QED BY <1>1, <2>1, <2>3 DEF AloneInChat, id
<1>15. UnderWayAlone' BY <1>1, <1>12, <1>14 DEF UnderWayAlone
<1>16. SentAlone'
  <2> SUFFICES ASSUME NEW q \in TelegramRounds, q \in delivered', q \notin disturbed \cup late
               PROVE AnswerStands(q)'
    BY <1>1 DEF SentAlone
  <2>1. CASE q \in delivered
    <3>1. AnswerStands(q) BY <2>1 DEF ChatInv, SentAlone
    <3>2. PICK i \in DOMAIN screen : StandsAt(i, q) BY <3>1 DEF AnswerStands
    <3>3. i \in DOMAIN screen' /\ screen'[i] = screen[i] /\ i # 0
      BY <1>1, <1>2, <1>5, <3>2 DEF StandsAt, id
    <3>4. StandsAt(i, q)' BY <1>1, <1>7, <3>2, <3>3 DEF StandsAt
    <3>5. fails' = 0 => \A j \in DOMAIN screen', n \in Nat : screen'[j] # Part(q, n)
      BY <1>6, <1>10, <3>1 DEF AnswerStands
    <3> QED BY <3>3, <3>4, <3>5 DEF AnswerStands
  <2>2. CASE q \notin delivered
    <3>1. q = x /\ delivered' = delivered \cup {x} BY <1>5, <2>2
    <3>2. handler[q] = "returned" /\ q \notin unsent BY <1>3, <3>1 DEF ChatInv, InOnePlace
    <3>3. q \in TelegramPending \ disturbed BY <2>2, <3>2 DEF TelegramPending
    <3>4. AloneInChat(q) /\ id = placeholder BY <1>14, <3>1, <3>3
    <3>5. PICK i \in DOMAIN screen' :
            /\ screen'[i] = FinalText(x)
            /\ i = Len(screen) + 1 \/ (i = id /\ id # 0)
            /\ \A j \in DOMAIN screen : j # i => screen'[j] = screen[j]
      BY <1>3, <1>5, <3>1
    <3>6. i # placeholder' BY <1>1, <1>2, <3>4, <3>5
    <3>7. \A p \in TelegramRounds : p # q => loops[p].msg # i
      <4>1. \A p \in TelegramRounds : loops[p].msg <= Len(screen) /\ loops[p].msg \in Nat
        BY DEF ChatInv, OnScreen, ChatTypes, Streams
      <4> QED BY <1>2, <3>4, <3>5, <4>1 DEF AloneInChat
    <3>8. StandsAt(i, q)' BY <1>1, <1>7, <3>1, <3>5, <3>6, <3>7 DEF StandsAt
    <3>9. ASSUME fails' = 0, NEW j \in DOMAIN screen', NEW n \in Nat, screen'[j] = Part(q, n)
          PROVE  FALSE
      <4>1. j = id /\ j \in DOMAIN screen BY <1>6, <1>10, <3>4, <3>9 DEF AloneInChat
      <4>2. screen'[id] = FinalText(x) BY <1>2, <1>3, <1>5, <3>1, <3>9, <4>1
      <4> QED BY <3>9, <4>1, <4>2, ScreenTextsDiffer
    <3> QED BY <3>8, <3>9 DEF AnswerStands
  <2> QED BY <2>1, <2>2
<1>17. OneThought'
  <2> SUFFICES ASSUME disturbed = {}, fails' = 0, NEW j \in DOMAIN screen', screen'[j] = Thinking
               PROVE  j = placeholder'
    BY <1>1, <1>7 DEF OneThought
  <2>1. j \in DOMAIN screen /\ screen[j] = Thinking BY <1>10
  <2>2. j = placeholder /\ id = placeholder BY <1>1, <1>6, <2>1 DEF ChatInv, OneThought, id
  <2>3. delivered' = delivered \cup {x} /\ screen'[id] = FinalText(x) BY <1>2, <1>5, <2>1, <2>2
  <2> QED BY <1>3, <2>2, <2>3, ScreenTextsDiffer
<1> QED BY <1>8, <1>9, <1>11, <1>13, <1>15, <1>16, <1>17 DEF ChatInv

LEMMA ChatGoesOn ==
  ASSUME ChatInv, [TelegramNext]_telegramVars
  PROVE  ChatInv'
<1>1. CASE UNCHANGED telegramVars
  <2>1. UNCHANGED <<placeholder, handler, inbox, current, stream, loops, outbox, sending, screen,
                   delivered, unsent, disturbed, late, fails>>
    BY <1>1 DEF telegramVars
  <2> QED BY <2>1 DEF ChatInv, ChatTypes, OnScreen, InOnePlace, PlaceholderIsTaken,
        UnderWayAlone, SentAlone, OneThought, AloneInChat, AnswerStands, StandsAt,
        TelegramPending, Elems, Distinct
<1> QED BY <1>1, MessageReceived, PlaceholderPosted, MessagePublished, RoundTaken,
           ChunkStreamed, Answered, NotePosted, EditBegun, EditLanded, LoopEnded,
           PlaceholderLoaded, TextSent DEF TelegramNext

(* What is sent to a round that was alone in the chat stays on the screen. *)
LEMMA ChatShows == ChatInv => AnswersStand
<1> SUFFICES ASSUME ChatInv PROVE AnswersStand OBVIOUS
<1>1. ASSUME NEW r \in TelegramRounds, r \in delivered, r \notin disturbed \cup late
      PROVE  /\ FinalText(r) \in Shown
             /\ fails = 0 => \A n \in 1 .. TelegramChunks : Part(r, n) \notin Shown
  <2>1. AnswerStands(r) BY <1>1 DEF ChatInv, SentAlone
  <2>2. \A n \in 1 .. TelegramChunks : n \in Nat BY TelegramAssumption
  <2> QED BY <2>1, <2>2 DEF AnswerStands, StandsAt, Shown
<1>2. ASSUME disturbed = {}, fails = 0, TelegramPending = {} PROVE Thinking \notin Shown
  <2>1. placeholder = 0 BY <1>2 DEF ChatInv, PlaceholderIsTaken
  <2>2. DOMAIN screen = 1 .. Len(screen) BY DEF ChatInv, ChatTypes
  <2>3. \A j \in DOMAIN screen : screen[j] # Thinking
    BY <1>2, <2>1, <2>2 DEF ChatInv, OneThought
  <2> QED BY <2>3 DEF Shown
<1> QED BY <1>1, <1>2 DEF AnswersStand

(* The answer to a message that was alone in the chat stays on the screen  *)
(* as it was sent, and neither a "Thinking..." nor a part of it remains of *)
(* its round, for any number of messages, notes, chunks and failed calls.  *)
THEOREM TelegramAnswersStand == TelegramSpec => []AnswersStand
<1> QED BY ChatStarts, ChatGoesOn, ChatShows, PTL DEF TelegramSpec

-----------------------------------------------------------------------------
(* The SSH user *)

Posts == SshRounds \cup Items
ChunkTexts == {ChunkEvent(r, n) : r \in SshRounds, n \in Nat}
FinalTexts == {FinalEvent(x) : x \in Posts}
ShownTexts == {<<"typed", r, 0>> : r \in SshRounds} \cup ChunkTexts \cup FinalTexts
ShownMessages == [role : {"user", "assistant"}, text : Seq(ShownTexts) \ {<<>>}]

SshTypes ==
  /\ conn \in [Conns -> {"never", "open", "closed"}]
  /\ sessions \in Conns \cup {0} /\ streamChans \in SshRounds \cup {0}
  /\ chunkChans \in [SshRounds -> Seq(ChunkTexts)]
  /\ outChan \in [Conns -> Seq(Posts)] /\ outListen \in [Conns -> Nat]
  /\ DOMAIN events = Conns
  /\ \A c \in Conns : \A e \in events[c] : e \in ChunkTexts \cup FinalTexts \/ e[1] = "done"
  /\ ui \in [Conns -> [messages : Seq(ShownMessages), processing : BOOLEAN,
                       streamChan : SshRounds \cup {0}]]
  /\ typedIn \in [SshRounds -> Conns \cup {0}]
  /\ agent \in [round : SshRounds \cup {0}, chunks : Nat]
  /\ bus \in [inbound : Seq(SshRounds), outbound : Seq(Posts)]
  /\ handed \cup failed \subseteq Posts
  /\ calm \subseteq TypedRounds

(* Messages are typed in the order of their numbers, and each is in one    *)
(* place until Send has handed it to a session or failed to.               *)
TypedInOrder == \A r, q \in SshRounds : r < q /\ typedIn[q] # 0 => typedIn[r] # 0
OnItsWay ==
  /\ Distinct(bus.inbound) /\ Distinct(bus.outbound)
  /\ Elems(bus.outbound) \cap (handed \cup failed) = {}
  /\ \A r \in Elems(bus.inbound) : /\ r \in TypedRounds /\ r # agent.round
                                   /\ r \notin Elems(bus.outbound) \cup handed \cup failed
  /\ agent.round # 0 => /\ agent.round \in TypedRounds
                        /\ agent.round \notin Elems(bus.outbound) \cup handed \cup failed
  /\ \A r \in SshRounds :
       r \in Elems(bus.outbound) \cup handed \cup failed => r \in TypedRounds

(* A program that is open listens for responses, or handles an event after *)
(* which it will.                                                          *)
Listens ==
  \A c \in Conns : conn[c] = "open" => outListen[c] > 0 \/ \E e \in events[c] : e[1] # "chunk"

NoFinal(c) == \A e \in events[c] : e[1] # "final"
FinalAt(i, x, c) == ui[c].messages[i].text[1] = FinalEvent(x)

(* Where a message is that nothing came between: on its way, handed to the *)
(* session, read by its listener, shown, or failed.                        *)
Unhanded(t) == t \notin handed
OnTheBus(c, t) ==
  /\ outChan[c] = <<>> /\ NoFinal(c) /\ ui[c].processing /\ Unhanded(t)
  /\ \/ bus.inbound = <<t>> /\ agent.round = 0 /\ bus.outbound = <<>>
     \/ bus.inbound = <<>> /\ agent.round = t /\ bus.outbound = <<>>
     \/ bus.inbound = <<>> /\ agent.round = 0 /\ bus.outbound = <<t>>
     \/ bus.inbound = <<>> /\ agent.round = 0 /\ bus.outbound = <<>> /\ t \in failed
OffTheBus(c, t) ==
  /\ bus.inbound = <<>> /\ agent.round = 0 /\ bus.outbound = <<>> /\ t \in handed
  /\ \/ outChan[c] = <<t>> /\ NoFinal(c) /\ ui[c].processing
     \/ outChan[c] = <<>> /\ FinalEvent(t) \in events[c] /\ ui[c].processing
        /\ \A e \in events[c] : e[1] = "final" => e = FinalEvent(t)
     \/ outChan[c] = <<>> /\ NoFinal(c) /\ ~ui[c].processing
        /\ \E i \in DOMAIN ui[c].messages : FinalAt(i, t, c)

(* The message typed last is somewhere on its way, those before it have    *)
(* been shown.                                                             *)
CalmOne(c, t) ==
  /\ Open = {c} /\ sessions = c /\ \A r \in calm : typedIn[r] = c
  /\ SshPending \subseteq {t}
  /\ \A r \in calm \ {t} :
       /\ r < t
       /\ \E i \in DOMAIN ui[c].messages : i < Len(ui[c].messages) /\ FinalAt(i, r, c)
  /\ OnTheBus(c, t) \/ OffTheBus(c, t)
CalmFlow == allowed /\ calm # {} => \E c \in Conns, t \in calm : CalmOne(c, t)

SshInv == SshTypes /\ TypedInOrder /\ OnItsWay /\ Listens /\ CalmFlow

LEMMA SshNumbers ==
  /\ \A c \in Conns : c \in Nat /\ c # 0
  /\ \A r \in SshRounds : r \in Nat /\ r # 0 /\ r \in Posts /\ r \notin Items
  /\ \A x \in Items : x \in Posts
BY SshAssumption DEF Posts

LEMMA EventKinds ==
  /\ \A r, n : ChunkEvent(r, n)[1] = "chunk"
  /\ \A x : FinalEvent(x)[1] = "final"
  /\ \A x, y : FinalEvent(x) = FinalEvent(y) => x = y
  /\ \A e \in ChunkTexts : e[1] = "chunk"
  /\ \A e \in FinalTexts : e[1] = "final"
BY DEF ChunkEvent, FinalEvent, ChunkTexts, FinalTexts

LEMMA SshStarts == SshInit => SshInv
<1> SUFFICES ASSUME SshInit PROVE SshInv OBVIOUS
<1>1. /\ conn = [c \in Conns |-> "never"] /\ sessions = 0 /\ streamChans = 0
      /\ chunkChans = [r \in SshRounds |-> <<>>]
      /\ outChan = [c \in Conns |-> <<>>] /\ outListen = [c \in Conns |-> 0]
      /\ events = [c \in Conns |-> {}]
      /\ ui = [c \in Conns |-> [messages |-> <<>>, processing |-> FALSE, streamChan |-> 0]]
      /\ typedIn = [r \in SshRounds |-> 0] /\ agent = [round |-> 0, chunks |-> 0]
      /\ bus = [inbound |-> <<>>, outbound |-> <<>>]
      /\ handed = {} /\ failed = {} /\ calm = {}
  BY DEF SshInit
<1>2. SshTypes BY <1>1 DEF SshTypes
<1>3. TypedInOrder BY <1>1 DEF TypedInOrder
<1>4. bus.inbound = <<>> /\ bus.outbound = <<>> /\ agent.round = 0 BY <1>1
<1>5. OnItsWay BY <1>1, <1>4, ElemsNone DEF OnItsWay, Distinct
<1>6. Listens BY <1>1 DEF Listens
<1>7. CalmFlow BY <1>1 DEF CalmFlow
<1> QED BY <1>2, <1>3, <1>5, <1>6, <1>7 DEF SshInv

(* With a message typed alone there is one open connection, with no one    *)
(* else's message.                                                         *)
LEMMA Connected ==
  ASSUME SshInv, NEW c \in Conns, Connect(c)
  PROVE  SshInv'
<1>1. /\ conn[c] = "never" /\ conn' = [conn EXCEPT ![c] = "open"] /\ sessions' = c
      /\ outListen' = [outListen EXCEPT ![c] = 1]
      /\ calm' = IF Open = {} THEN calm \ SshPending ELSE {}
      /\ UNCHANGED <<allowed, streamChans, chunkChans, outChan, events, ui, typedIn, agent, bus,
                     handed, failed>>
  BY DEF Connect
<1>2. TypedRounds' = TypedRounds BY <1>1 DEF TypedRounds
<1>3. SshTypes' BY <1>1, <1>2 DEF SshInv, SshTypes
<1>4. TypedInOrder' BY <1>1 DEF SshInv, TypedInOrder
<1>5. OnItsWay' BY <1>1, <1>2 DEF SshInv, OnItsWay, Elems, Distinct
<1>6. Listens'
  <2>1. outListen'[c] > 0 /\ \A d \in Conns : d # c => outListen'[d] = outListen[d]
    BY <1>1 DEF SshInv, SshTypes
  <2>2. \A d \in Conns : d # c => conn'[d] = conn[d] BY <1>1 DEF SshInv, SshTypes
  <2> QED BY <1>1, <2>1, <2>2 DEF SshInv, Listens
<1>7. CalmFlow'
  <2> SUFFICES ASSUME allowed, calm' # {} PROVE FALSE BY <1>1 DEF CalmFlow
  <2>1. Open = {} /\ calm # {} BY <1>1
  <2>2. PICK d \in Conns, t \in calm : CalmOne(d, t) BY <2>1 DEF SshInv, CalmFlow
  <2> QED BY <2>1, <2>2 DEF CalmOne
<1> QED BY <1>3, <1>4, <1>5, <1>6, <1>7 DEF SshInv

LEMMA Left ==
  ASSUME SshInv, NEW c \in Conns, Leave(c)
  PROVE  SshInv'
<1>1. /\ conn[c] = "open" /\ conn' = [conn EXCEPT ![c] = "closed"] /\ sessions' \in {0, sessions}
      /\ calm' = calm \ (SshPending \cup {r \in SshRounds : typedIn[r] = c})
      /\ UNCHANGED <<allowed, streamChans, chunkChans, outChan, outListen, events, ui, typedIn,
                     agent, bus, handed, failed>>
  BY DEF Leave
<1>2. TypedRounds' = TypedRounds BY <1>1 DEF TypedRounds
<1>3. SshTypes' BY <1>1, <1>2 DEF SshInv, SshTypes
<1>4. TypedInOrder' BY <1>1 DEF SshInv, TypedInOrder
<1>5. OnItsWay' BY <1>1, <1>2 DEF SshInv, OnItsWay, Elems, Distinct
<1>6. Listens'
  <2>1. \A d \in Conns : conn'[d] = "open" => conn[d] = "open" BY <1>1 DEF SshInv, SshTypes
  <2> QED BY <1>1, <2>1 DEF SshInv, Listens
<1>7. CalmFlow'
  <2> SUFFICES ASSUME allowed, calm' # {} PROVE FALSE BY <1>1 DEF CalmFlow
  <2>1. calm # {} /\ calm \subseteq SshRounds BY <1>1 DEF SshInv, SshTypes, TypedRounds
  <2>2. PICK d \in Conns, t \in calm : CalmOne(d, t) BY <2>1 DEF SshInv, CalmFlow
  <2>3. c = d BY <1>1, <2>2 DEF CalmOne, Open
  <2> QED BY <1>1, <2>1, <2>2, <2>3 DEF CalmOne
<1> QED BY <1>3, <1>4, <1>5, <1>6, <1>7 DEF SshInv

(* What Update makes of the messages. *)
LEMMA MessageTyped ==
  ASSUME NEW m \in Seq(ShownMessages), NEW r \in SshRounds
  PROVE  LET m2 == Append(m, TypedMessage(r)) IN
         /\ m2 \in Seq(ShownMessages)
         /\ \A i \in DOMAIN m : i \in DOMAIN m2 /\ i < Len(m2) /\ m2[i] = m[i]
<1> DEFINE x == TypedMessage(r)
           m2 == Append(m, x)
<1>1. <<"typed", r, 0>> \in ShownTexts BY DEF ShownTexts
<1>2. x \in ShownMessages BY <1>1, ElemsOne DEF ShownMessages, TypedMessage
<1> HIDE DEF x
<1>3. /\ m2 \in Seq(ShownMessages) /\ Len(m2) = Len(m) + 1
      /\ \A i \in 1 .. Len(m) : m2[i] = m[i]
  BY <1>2, AppendProperties
<1>4. Len(m) \in Nat /\ DOMAIN m = 1 .. Len(m) /\ DOMAIN m2 = 1 .. Len(m) + 1 BY <1>3
<1> QED BY <1>3, <1>4 DEF x

Answering(m, text) ==
  IF LastIsAssistant(m) THEN [m EXCEPT ![Len(m)].text = text]
  ELSE Append(m, Replied(text))
LEMMA MessageAnswered ==
  ASSUME NEW m \in Seq(ShownMessages), NEW text \in Seq(ShownTexts), text # <<>>
  PROVE  /\ Answering(m, text) \in Seq(ShownMessages)
         /\ \A i \in DOMAIN m :
              /\ i \in DOMAIN Answering(m, text)
              /\ i < Len(m) => Answering(m, text)[i] = m[i] /\ i < Len(Answering(m, text))
              /\ i = Len(m) /\ LastIsAssistant(m) => Answering(m, text)[i].text = text
              /\ i = Len(m) /\ ~LastIsAssistant(m) => Answering(m, text)[i] = m[i]
         /\ \E i \in DOMAIN Answering(m, text) : Answering(m, text)[i].text = text
<1>1. Len(m) \in Nat /\ DOMAIN m = 1 .. Len(m) OBVIOUS
<1>2. CASE LastIsAssistant(m)
  <2> DEFINE m2 == [m EXCEPT ![Len(m)].text = text]
  <2>1. Answering(m, text) = m2 BY <1>2 DEF Answering
  <2>2. Len(m) # 0 /\ Len(m) \in DOMAIN m BY <1>1, <1>2, EmptySeq DEF LastIsAssistant
  <2>3. m[Len(m)] \in ShownMessages BY <2>2
  <2>4. [m[Len(m)] EXCEPT !.text = text] \in ShownMessages BY <2>3 DEF ShownMessages
  <2>5. /\ m2 \in Seq(ShownMessages) /\ Len(m2) = Len(m) /\ DOMAIN m2 = DOMAIN m
        /\ \A i \in DOMAIN m : i # Len(m) => m2[i] = m[i]
    BY <2>2, <2>4
  <2>6. m2[Len(m)].text = text BY <2>2, <2>3 DEF ShownMessages
  <2> HIDE DEF m2
  <2> QED BY <1>1, <1>2, <2>1, <2>2, <2>5, <2>6
<1>3. CASE ~LastIsAssistant(m)
  <2> DEFINE x == Replied(text)
             m2 == Append(m, x)
  <2>1. Answering(m, text) = m2 BY <1>3 DEF Answering
  <2>2. x \in ShownMessages /\ x.text = text BY DEF ShownMessages, Replied
  <2> HIDE DEF x
  <2>3. /\ m2 \in Seq(ShownMessages) /\ Len(m2) = Len(m) + 1 /\ m2[Len(m) + 1] = x
        /\ \A i \in 1 .. Len(m) : m2[i] = m[i]
    BY <2>2, AppendProperties
  <2> HIDE DEF m2
  <2>4. DOMAIN m2 = 1 .. Len(m) + 1 BY <2>3
  <2>5. Len(m) + 1 \in DOMAIN m2 /\ m2[Len(m) + 1].text = text BY <1>1, <2>2, <2>3, <2>4
  <2> QED BY <1>1, <1>3, <2>1, <2>3, <2>4, <2>5
<1> QED BY <1>2, <1>3

LEMMA TypedIn ==
  ASSUME SshInv, NEW c \in Conns, NEW r \in SshRounds, sendMessage(c, r)
  PROVE  SshInv'
<1> DEFINE m == ui[c].messages
<1>1. /\ conn[c] = "open" /\ ~ui[c].processing
      /\ r \notin TypedRounds /\ \A q \in SshRounds : q < r => q \in TypedRounds
      /\ typedIn' = [typedIn EXCEPT ![r] = c]
      /\ ui' = [ui EXCEPT ![c] = [messages |-> Append(m, TypedMessage(r)),
                                  processing |-> TRUE, streamChan |-> r]]
      /\ streamChans' = r
      /\ bus' = IF allowed THEN [bus EXCEPT !.inbound = Append(@, r)] ELSE bus
      /\ calm' = IF sessions = c /\ Open = {c} /\ SshPending = {} /\ bus.outbound = <<>>
                    /\ outChan[c] = <<>> /\ \A e \in events[c] : e[1] # "final"
                 THEN calm \cup {r} ELSE calm
      /\ UNCHANGED <<allowed, conn, sessions, chunkChans, outChan, outListen, events, agent,
                     handed, failed>>
  BY DEF sendMessage
<1>2. /\ m \in Seq(ShownMessages) /\ c \in Nat /\ c # 0 /\ r \in Nat /\ r # 0 /\ r \in Posts
  BY SshNumbers DEF SshInv, SshTypes
<1>3. /\ Append(m, TypedMessage(r)) \in Seq(ShownMessages)
      /\ \A i \in DOMAIN m : /\ i \in DOMAIN Append(m, TypedMessage(r))
                             /\ i < Len(Append(m, TypedMessage(r)))
                             /\ Append(m, TypedMessage(r))[i] = m[i]
  BY <1>2, MessageTyped
<1>4. /\ typedIn' \in [SshRounds -> Conns \cup {0}] /\ typedIn'[r] = c
      /\ \A q \in SshRounds : q # r => typedIn'[q] = typedIn[q]
  BY <1>1 DEF SshInv, SshTypes
<1>5. TypedRounds' = TypedRounds \cup {r} BY <1>2, <1>4 DEF TypedRounds
<1>6. /\ ui' \in [Conns -> [messages : Seq(ShownMessages), processing : BOOLEAN,
                            streamChan : SshRounds \cup {0}]]
      /\ ui'[c].messages = Append(m, TypedMessage(r)) /\ ui'[c].processing
  <2> DEFINE a == Append(m, TypedMessage(r))
  <2>1. a \in Seq(ShownMessages) /\ ui' = [ui EXCEPT ![c] = [messages |-> a, processing |-> TRUE,
                                                           streamChan |-> r]]
    BY <1>1, <1>3
  <2> HIDE DEF a
  <2>2. /\ ui' \in [Conns -> [messages : Seq(ShownMessages), processing : BOOLEAN,
                              streamChan : SshRounds \cup {0}]]
        /\ ui'[c].messages = a /\ ui'[c].processing
    BY <2>1 DEF SshInv, SshTypes
  <2> QED BY <2>2 DEF a
<1> HIDE DEF m
<1>7. /\ bus.inbound \in Seq(SshRounds) /\ bus.outbound \in Seq(Posts)
      /\ agent.round \in SshRounds \cup {0}
  BY DEF SshInv, SshTypes
<1>8. /\ bus'.outbound = bus.outbound
      /\ bus'.inbound = IF allowed THEN Append(bus.inbound, r) ELSE bus.inbound
      /\ bus' \in [inbound : Seq(SshRounds), outbound : Seq(Posts)]
  <2>1. bus \in [inbound : Seq(SshRounds), outbound : Seq(Posts)] BY DEF SshInv, SshTypes
  <2>2. CASE allowed
    <3> DEFINE a == Append(bus.inbound, r)
    <3>1. a \in Seq(SshRounds) /\ bus' = [bus EXCEPT !.inbound = a] BY <1>1, <1>7, <2>2
    <3> HIDE DEF a
    <3>2. bus'.outbound = bus.outbound /\ bus'.inbound = a
          /\ bus' \in [inbound : Seq(SshRounds), outbound : Seq(Posts)]
      BY <2>1, <3>1
    <3> QED BY <2>2, <3>2 DEF a
  <2>3. CASE ~allowed BY <1>1, <2>1, <2>3
  <2> QED BY <2>2, <2>3
<1>9. SshTypes'
  <2>1. calm' \subseteq TypedRounds' BY <1>1, <1>5 DEF SshInv, SshTypes
  <2> QED BY <1>1, <1>4, <1>6, <1>8, <2>1 DEF SshInv, SshTypes
<1>10. TypedInOrder'
  <2>1. \A p, q \in SshRounds : p < q /\ typedIn[q] # 0 => typedIn[p] # 0
    BY DEF SshInv, TypedInOrder
  <2>2. \A q \in SshRounds : q < r => typedIn[q] # 0 BY <1>1 DEF TypedRounds
  <2> QED BY <1>2, <1>4, <2>1, <2>2 DEF TypedInOrder
<1>11. r \notin Elems(bus.inbound) /\ r # agent.round
       /\ r \notin Elems(bus.outbound) \cup handed \cup failed
  BY <1>1, <1>2 DEF SshInv, OnItsWay
<1>12. OnItsWay'
  <2>1. Distinct(bus'.inbound) /\ Elems(bus'.inbound) \subseteq Elems(bus.inbound) \cup {r}
    <3>1. CASE allowed BY <1>7, <1>8, <1>11, <3>1, ElemsAppend, DistinctAppend
                       DEF SshInv, OnItsWay
    <3>2. CASE ~allowed BY <1>8, <3>2 DEF SshInv, OnItsWay
    <3> QED BY <3>1, <3>2
  <2> QED BY <1>1, <1>5, <1>8, <1>11, <2>1 DEF SshInv, OnItsWay
<1>13. Listens' BY <1>1 DEF SshInv, Listens
<1>14. \A q \in TypedRounds : q \in SshRounds /\ q < r
  <2> SUFFICES ASSUME NEW q \in TypedRounds PROVE q \in SshRounds /\ q < r OBVIOUS
  <2>1. q \in SshRounds /\ typedIn[q] # 0 /\ q # r /\ typedIn[r] = 0
    BY <1>1 DEF TypedRounds
  <2>2. q \in Nat /\ ~(r < q) BY <2>1, SshNumbers DEF SshInv, TypedInOrder
  <2> QED BY <1>2, <2>1, <2>2
(* A message typed while others are shown, or to a quiet user, is alone.   *)
<1>15. ASSUME allowed, calm # {}
       PROVE  /\ SshPending = {} /\ bus.outbound = <<>> /\ outChan[c] = <<>>
              /\ NoFinal(c) /\ sessions = c /\ Open = {c}
              /\ \A q \in calm : /\ typedIn[q] = c
                                 /\ \E i \in DOMAIN m : FinalAt(i, q, c)
  <2>1. PICK d \in Conns, t \in calm : CalmOne(d, t) BY <1>15 DEF SshInv, CalmFlow
  <2>2. d = c BY <1>1, <2>1 DEF CalmOne, Open
  <2>3. /\ ~OnTheBus(c, t) /\ OffTheBus(c, t) /\ t \in handed /\ outChan[c] = <<>> /\ NoFinal(c)
        /\ \E i \in DOMAIN m : FinalAt(i, t, c)
    BY <1>1, <2>1, <2>2 DEF CalmOne, OnTheBus, OffTheBus, m
  <2>4. SshPending = {} BY <2>1, <2>3 DEF CalmOne, SshPending
  <2>5. \A q \in calm \ {t} : \E i \in DOMAIN m : FinalAt(i, q, c)
    BY <2>1, <2>2 DEF CalmOne, m
  <2> QED BY <2>1, <2>2, <2>3, <2>4, <2>5 DEF CalmOne, OffTheBus
<1>16. CalmFlow'
  <2> SUFFICES ASSUME allowed, calm' # {} PROVE r \in calm' /\ CalmOne(c, r)'
    BY <1>1 DEF CalmFlow
  <2>1. /\ SshPending = {} /\ bus.outbound = <<>> /\ outChan[c] = <<>>
        /\ NoFinal(c) /\ sessions = c /\ Open = {c}
    BY <1>1, <1>15 DEF NoFinal
  <2>2. calm' = calm \cup {r} BY <1>1, <2>1 DEF NoFinal
  <2>3. agent.round = 0 /\ bus.inbound = <<>>
    <3>1. agent.round = 0 BY <2>1 DEF SshInv, OnItsWay, SshPending
    <3>2. bus.inbound = <<>>
      <4> SUFFICES ASSUME bus.inbound # <<>> PROVE FALSE OBVIOUS
      <4>1. Head(bus.inbound) \in Elems(bus.inbound) BY <1>7, ElemsTail
      <4> QED BY <2>1, <4>1 DEF SshInv, OnItsWay, SshPending
    <3> QED BY <3>1, <3>2
  <2>4. bus'.inbound = <<r>> BY <1>8, <2>3, ElemsOne
  <2>5. SshPending' = {r} BY <1>1, <1>5, <1>11, <2>1 DEF SshPending
  <2>6. Open' = {c} BY <1>1, <2>1 DEF Open
  <2>7. \A q \in calm' \ {r} :
          /\ q < r /\ typedIn'[q] = c
          /\ \E i \in DOMAIN ui'[c].messages : i < Len(ui'[c].messages) /\ FinalAt(i, q, c)'
    <3> SUFFICES ASSUME NEW q \in calm, q # r
                 PROVE  /\ q < r /\ typedIn'[q] = c
                        /\ \E i \in DOMAIN ui'[c].messages :
                             i < Len(ui'[c].messages) /\ FinalAt(i, q, c)'
      BY <2>2
    <3>1. q \in TypedRounds BY DEF SshInv, SshTypes
    <3>2. PICK i \in DOMAIN m : FinalAt(i, q, c) BY <1>15
    <3>3. FinalAt(i, q, c)' BY <1>3, <1>6, <3>2 DEF FinalAt, m
    <3>4. typedIn[q] = c BY <1>15
    <3> QED BY <1>3, <1>4, <1>6, <1>14, <3>1, <3>3, <3>4
  <2>8. OnTheBus(c, r)' BY <1>1, <1>6, <1>8, <1>11, <2>1, <2>3, <2>4 DEF OnTheBus, Unhanded, NoFinal
  <2> QED BY <1>1, <1>4, <2>1, <2>2, <2>5, <2>6, <2>7, <2>8 DEF CalmOne
<1> QED BY <1>9, <1>10, <1>12, <1>13, <1>16 DEF SshInv

(* Listeners turn what they read into events. *)
LEMMA ResponseHeard ==
  ASSUME SshInv, NEW c \in Conns, listenOutbound(c)
  PROVE  SshInv'
<1> DEFINE x == Head(outChan[c])
<1>1. /\ conn[c] = "open" /\ outChan[c] # <<>>
      /\ events' = [events EXCEPT ![c] = @ \cup {FinalEvent(x)}]
      /\ outChan' = [outChan EXCEPT ![c] = Tail(@)]
      /\ outListen[c] > 0 /\ outListen' = [outListen EXCEPT ![c] = @ - 1]
      /\ UNCHANGED <<allowed, conn, sessions, streamChans, chunkChans, ui, typedIn, agent, bus,
                     handed, failed, calm>>
  BY DEF listenOutbound
<1>2. outChan[c] \in Seq(Posts) BY DEF SshInv, SshTypes
<1>3. Tail(outChan[c]) \in Seq(Posts) /\ x \in Posts BY <1>1, <1>2, ElemsTail
<1>4. /\ outChan' \in [Conns -> Seq(Posts)] /\ outChan'[c] = Tail(outChan[c])
      /\ DOMAIN events' = Conns /\ events'[c] = events[c] \cup {FinalEvent(x)}
      /\ \A d \in Conns : d # c => events'[d] = events[d] /\ outListen'[d] = outListen[d]
      /\ outListen' \in [Conns -> Nat]
  BY <1>1, <1>3 DEF SshInv, SshTypes
<1>5. FinalEvent(x) \in FinalTexts BY <1>3 DEF FinalTexts
<1>6. TypedRounds' = TypedRounds BY <1>1 DEF TypedRounds
<1>7. SshTypes'
  <2>1. \A d \in Conns : \A e \in events'[d] : e \in ChunkTexts \cup FinalTexts \/ e[1] = "done"
    <3>1. \A d \in Conns : \A e \in events[d] : e \in ChunkTexts \cup FinalTexts \/ e[1] = "done"
      BY DEF SshInv, SshTypes
    <3>2. \A d \in Conns : \A e \in events'[d] : e \in events[d] \/ e \in FinalTexts
      BY <1>4, <1>5
    <3> HIDE DEF x
    <3> QED BY <3>1, <3>2
  <2> QED BY <1>1, <1>4, <1>6, <2>1 DEF SshInv, SshTypes
<1>8. TypedInOrder' BY <1>1 DEF SshInv, TypedInOrder
<1>9. OnItsWay' BY <1>1, <1>6 DEF SshInv, OnItsWay, Elems, Distinct
<1>10. Listens'
  <2>1. FinalEvent(x) \in events'[c] /\ FinalEvent(x)[1] # "chunk" BY <1>4, EventKinds
  <2> QED BY <1>1, <1>4, <2>1 DEF SshInv, Listens
<1>11. CalmFlow'
  <2> SUFFICES ASSUME allowed, calm # {} PROVE \E d \in Conns, t \in calm : CalmOne(d, t)'
    BY <1>1 DEF CalmFlow
  <2>1. PICK d \in Conns, t \in calm : CalmOne(d, t) BY DEF SshInv, CalmFlow
  <2>2. d = c BY <1>1, <2>1 DEF CalmOne, Open
  <2>3. OffTheBus(c, t) /\ outChan[c] = <<t>> /\ NoFinal(c) /\ ui[c].processing
    BY <1>1, <2>1, <2>2 DEF CalmOne, OnTheBus, OffTheBus
  <2>4. t \in Posts BY SshNumbers DEF SshInv, SshTypes, TypedRounds
  <2>5. x = t /\ outChan'[c] = <<>> BY <1>4, <2>3, <2>4, ElemsOne
  <2>6. OffTheBus(c, t)' BY <1>1, <1>4, <2>3, <2>5 DEF OffTheBus, NoFinal
  <2>7. Open' = Open /\ SshPending' = SshPending BY <1>1, <1>6 DEF Open, SshPending
  <2>8. CalmOne(c, t)' BY <1>1, <2>1, <2>2, <2>6, <2>7 DEF CalmOne, FinalAt
  <2> QED BY <2>8
<1> QED BY <1>7, <1>8, <1>9, <1>10, <1>11 DEF SshInv

LEMMA ChunkHeard ==
  ASSUME SshInv, NEW c \in Conns, NEW r \in SshRounds, listenStreamChunks(c, r)
  PROVE  SshInv'
<1>1. /\ conn[c] = "open"
      /\ \/ /\ chunkChans[r] # <<>>
            /\ events' = [events EXCEPT ![c] = @ \cup {Head(chunkChans[r])}]
            /\ chunkChans' = [chunkChans EXCEPT ![r] = Tail(@)]
         \/ /\ events' = [events EXCEPT ![c] = @ \cup {<<"done", r, chunkListen[c][r]>>}]
            /\ UNCHANGED chunkChans
      /\ UNCHANGED <<allowed, conn, sessions, streamChans, outChan, outListen, ui, typedIn,
                     agent, bus, handed, failed, calm>>
  BY DEF listenStreamChunks
<1>2. chunkChans' \in [SshRounds -> Seq(ChunkTexts)]
      /\ \E e : events' = [events EXCEPT ![c] = @ \cup {e}] /\ (e \in ChunkTexts \/ e[1] = "done")
  <2>1. CASE /\ chunkChans[r] # <<>>
             /\ events' = [events EXCEPT ![c] = @ \cup {Head(chunkChans[r])}]
             /\ chunkChans' = [chunkChans EXCEPT ![r] = Tail(@)]
    <3>1. chunkChans[r] \in Seq(ChunkTexts) BY DEF SshInv, SshTypes
    <3>2. Head(chunkChans[r]) \in ChunkTexts /\ Tail(chunkChans[r]) \in Seq(ChunkTexts)
      BY <2>1, <3>1, ElemsTail
    <3> QED BY <2>1, <3>2 DEF SshInv, SshTypes
  <2>2. CASE /\ events' = [events EXCEPT ![c] = @ \cup {<<"done", r, chunkListen[c][r]>>}]
             /\ UNCHANGED chunkChans
    <3>1. <<"done", r, chunkListen[c][r]>>[1] = "done" OBVIOUS
    <3> QED BY <2>2, <3>1 DEF SshInv, SshTypes
  <2> QED BY <1>1, <2>1, <2>2
<1>3. PICK e : events' = [events EXCEPT ![c] = @ \cup {e}] /\ (e \in ChunkTexts \/ e[1] = "done")
  BY <1>2
<1>4. /\ DOMAIN events' = Conns /\ events'[c] = events[c] \cup {e} /\ e[1] # "final"
      /\ \A d \in Conns : d # c => events'[d] = events[d]
  BY <1>3, EventKinds DEF SshInv, SshTypes
<1>5. TypedRounds' = TypedRounds BY <1>1 DEF TypedRounds
<1>6. SshTypes'
  <2>1. \A d \in Conns : \A f \in events'[d] : f \in ChunkTexts \cup FinalTexts \/ f[1] = "done"
    BY <1>3, <1>4 DEF SshInv, SshTypes
  <2> QED BY <1>1, <1>2, <1>4, <1>5, <2>1 DEF SshInv, SshTypes
<1>7. TypedInOrder' BY <1>1 DEF SshInv, TypedInOrder
<1>8. OnItsWay'
  <2>1. UNCHANGED <<bus, agent, handed, failed>> BY <1>1
  <2> QED BY <1>5, <2>1 DEF SshInv, OnItsWay, Elems, Distinct
<1>9. \A d \in Conns : events[d] \subseteq events'[d] BY <1>4
<1>10. Listens' BY <1>1, <1>9 DEF SshInv, Listens
<1>11. CalmFlow'
  <2> SUFFICES ASSUME allowed, calm # {} PROVE \E d \in Conns, t \in calm : CalmOne(d, t)'
    BY <1>1 DEF CalmFlow
  <2>1. PICK d \in Conns, t \in calm : CalmOne(d, t) BY DEF SshInv, CalmFlow
  <2>2. \A f \in events'[d] : f[1] = "final" => f \in events[d] BY <1>4
  <2>3. OnTheBus(d, t) => OnTheBus(d, t)' BY <1>1, <2>2 DEF OnTheBus, NoFinal, Unhanded
  <2>4. OffTheBus(d, t) => OffTheBus(d, t)'
    BY <1>1, <1>9, <2>2 DEF OffTheBus, NoFinal, FinalAt
  <2>5. Open' = Open /\ SshPending' = SshPending BY <1>1, <1>5 DEF Open, SshPending
  <2>6. CalmOne(d, t)' BY <1>1, <2>1, <2>3, <2>4, <2>5 DEF CalmOne, FinalAt
  <2> QED BY <2>6
<1> QED BY <1>6, <1>7, <1>8, <1>10, <1>11 DEF SshInv

LEMMA Updated ==
  ASSUME SshInv, NEW c \in Conns, NEW e \in events[c], Update(c, e)
  PROVE  SshInv'
<1> DEFINE m == ui[c].messages
<1>1. /\ conn[c] = "open" /\ events' = [events EXCEPT ![c] = @ \ {e}]
      /\ outListen' = [outListen EXCEPT ![c] = IF e[1] # "chunk" THEN @ + 1 ELSE @]
      /\ UNCHANGED <<allowed, conn, sessions, streamChans, chunkChans, outChan, typedIn, agent,
                     bus, handed, failed, calm>>
  BY DEF Update, ListenAgain, wireVars, pastVars
<1>2. /\ ui \in [Conns -> [messages : Seq(ShownMessages), processing : BOOLEAN,
                           streamChan : SshRounds \cup {0}]]
      /\ ui[c] \in [messages : Seq(ShownMessages), processing : BOOLEAN,
                    streamChan : SshRounds \cup {0}]
      /\ m \in Seq(ShownMessages) /\ Len(m) \in Nat /\ DOMAIN m = 1 .. Len(m)
  BY DEF SshInv, SshTypes
<1>3. e \in ChunkTexts \cup FinalTexts \/ e[1] = "done" BY DEF SshInv, SshTypes
(* A chunk is put after the last text, and a response in its place. *)
<1>4. /\ ui' \in [Conns -> [messages : Seq(ShownMessages), processing : BOOLEAN,
                            streamChan : SshRounds \cup {0}]]
      /\ \A d \in Conns : d # c => ui'[d] = ui[d]
      /\ \A i \in DOMAIN m : i \in DOMAIN ui'[c].messages
                             /\ (i < Len(m) => ui'[c].messages[i] = m[i] /\ i < Len(ui'[c].messages))
      /\ e[1] # "final" => /\ \A i \in DOMAIN m : ui'[c].messages[i].text[1] = m[i].text[1]
                           /\ ui'[c].processing = ui[c].processing
      /\ e[1] = "final" => /\ \E i \in DOMAIN ui'[c].messages : ui'[c].messages[i].text[1] = e
                           /\ ~ui'[c].processing
  <2>1. CASE e[1] = "chunk" /\ e \in ChunkTexts
    <3>1. e \in ShownTexts BY <2>1 DEF ShownTexts
    <3>2. CASE LastIsAssistant(m)
      <4> DEFINE text == Append(m[Len(m)].text, e)
      <4>1. Len(m) # 0 /\ Len(m) \in DOMAIN m BY <1>2, <3>2, EmptySeq DEF LastIsAssistant
      <4>2. m[Len(m)].text \in Seq(ShownTexts) /\ m[Len(m)].text # <<>>
        <5>1. m[Len(m)] \in ShownMessages BY <1>2, <4>1
        <5> QED BY <5>1 DEF ShownMessages
      <4>3. /\ text \in Seq(ShownTexts) /\ text # <<>> /\ text[1] = m[Len(m)].text[1]
        <5>1. Len(m[Len(m)].text) # 0 /\ Len(m[Len(m)].text) \in Nat BY <4>2, EmptySeq
        <5>2. 1 \in 1 .. Len(m[Len(m)].text) BY <5>1
        <5> QED BY <3>1, <4>2, <5>2, ElemsAppend
      <4>4. ui' = [ui EXCEPT ![c].messages = [m EXCEPT ![Len(m)].text = Append(@, e)]]
        BY <2>1, <3>2 DEF Update
      <4>5. [m EXCEPT ![Len(m)].text = Append(@, e)] = Answering(m, text)
        BY <3>2 DEF Answering
      <4> HIDE DEF text
      <4> DEFINE a == Answering(m, text)
      <4>6. /\ a \in Seq(ShownMessages)
            /\ \A i \in DOMAIN m : /\ i \in DOMAIN a
                                   /\ i < Len(m) => a[i] = m[i] /\ i < Len(a)
                                   /\ i = Len(m) => a[i].text = text
        <5>1. m \in Seq(ShownMessages) /\ LastIsAssistant(m) BY <1>2, <3>2
        <5> HIDE DEF m
        <5> QED BY <4>3, <5>1, MessageAnswered
      <4>7. ui' = [ui EXCEPT ![c].messages = a] BY <4>4, <4>5
      <4> HIDE DEF a, m
      <4>8. /\ ui' \in [Conns -> [messages : Seq(ShownMessages), processing : BOOLEAN,
                                  streamChan : SshRounds \cup {0}]]
            /\ \A d \in Conns : d # c => ui'[d] = ui[d]
            /\ ui'[c].messages = a /\ ui'[c].processing = ui[c].processing
        BY <1>2, <4>6, <4>7
      <4>9. \A i \in DOMAIN m : i < Len(m) \/ i = Len(m) BY <1>2
      <4> QED BY <2>1, <4>3, <4>6, <4>8, <4>9
    <3>3. CASE ~LastIsAssistant(m)
      <4> DEFINE text == <<e>>
      <4>3. text \in Seq(ShownTexts) /\ text # <<>> BY <3>1, ElemsOne
      <4>4. ui' = [ui EXCEPT ![c].messages = Append(m, Replied(text))]
        BY <2>1, <3>3 DEF Update
      <4>5. Append(m, Replied(text)) = Answering(m, text) BY <3>3 DEF Answering
      <4> HIDE DEF text
      <4> DEFINE a == Answering(m, text)
      <4>6. /\ a \in Seq(ShownMessages)
            /\ \A i \in DOMAIN m : /\ i \in DOMAIN a
                                   /\ i < Len(m) => a[i] = m[i] /\ i < Len(a)
                                   /\ i = Len(m) => a[i] = m[i]
        BY <1>2, <3>3, <4>3, MessageAnswered
      <4>7. ui' = [ui EXCEPT ![c].messages = a] BY <4>4, <4>5
      <4> HIDE DEF a, m
      <4>8. /\ ui' \in [Conns -> [messages : Seq(ShownMessages), processing : BOOLEAN,
                                  streamChan : SshRounds \cup {0}]]
            /\ \A d \in Conns : d # c => ui'[d] = ui[d]
            /\ ui'[c].messages = a /\ ui'[c].processing = ui[c].processing
        BY <1>2, <4>6, <4>7
      <4>9. \A i \in DOMAIN m : i < Len(m) \/ i = Len(m) BY <1>2
      <4> QED BY <2>1, <4>6, <4>8, <4>9
    <3> QED BY <3>2, <3>3
  <2>2. CASE e[1] = "done"
    <3>1. ui' = ui BY <2>2 DEF Update
    <3>2. \A i \in DOMAIN m : i \in DOMAIN m /\ (i < Len(m) => i < Len(m)) OBVIOUS
    <3> QED BY <1>2, <2>2, <3>1, <3>2
  <2>3. CASE e[1] = "final" /\ e \in FinalTexts
    <3> DEFINE text == <<e>>
               a == Answering(m, text)
    <3>1. e \in ShownTexts BY <2>3 DEF ShownTexts
    <3>2. text \in Seq(ShownTexts) /\ text # <<>> /\ text[1] = e BY <3>1, ElemsOne
    <3>3. ui' = [ui EXCEPT ![c].processing = FALSE, ![c].messages = a]
      BY <2>3 DEF Update, Answering
    <3> HIDE DEF text
    <3>4. /\ a \in Seq(ShownMessages)
          /\ \A i \in DOMAIN m : i \in DOMAIN a /\ (i < Len(m) => a[i] = m[i] /\ i < Len(a))
          /\ \E i \in DOMAIN a : a[i].text = text
      BY <1>2, <3>2, MessageAnswered
    <3> HIDE DEF a, m
    <3>5. /\ ui' \in [Conns -> [messages : Seq(ShownMessages), processing : BOOLEAN,
                                streamChan : SshRounds \cup {0}]]
          /\ \A d \in Conns : d # c => ui'[d] = ui[d]
          /\ ui'[c].messages = a /\ ~ui'[c].processing
      BY <1>2, <3>3, <3>4
    <3> QED BY <2>3, <3>2, <3>4, <3>5
  <2> QED BY <1>3, <2>1, <2>2, <2>3, EventKinds
<1> HIDE DEF m
<1>5. /\ DOMAIN events' = Conns /\ events'[c] = events[c] \ {e}
      /\ \A d \in Conns : d # c => events'[d] = events[d] /\ outListen'[d] = outListen[d]
      /\ outListen' \in [Conns -> Nat]
      /\ e[1] # "chunk" => outListen'[c] > 0
      /\ e[1] = "chunk" => outListen'[c] = outListen[c]
  BY <1>1 DEF SshInv, SshTypes
<1>6. TypedRounds' = TypedRounds BY <1>1 DEF TypedRounds
<1>7. SshTypes'
  <2>1. \A d \in Conns : \A f \in events'[d] : f \in ChunkTexts \cup FinalTexts \/ f[1] = "done"
    BY <1>5 DEF SshInv, SshTypes
  <2> QED BY <1>1, <1>4, <1>5, <1>6, <2>1 DEF SshInv, SshTypes
<1>8. TypedInOrder' BY <1>1 DEF SshInv, TypedInOrder
<1>9. OnItsWay' BY <1>1, <1>6 DEF SshInv, OnItsWay, Elems, Distinct
<1>10. Listens'
  <2>1. CASE e[1] # "chunk" BY <1>1, <1>5, <2>1 DEF SshInv, Listens
  <2>2. CASE e[1] = "chunk" BY <1>1, <1>5, <2>2 DEF SshInv, Listens
  <2> QED BY <2>1, <2>2
<1>11. CalmFlow'
  <2> SUFFICES ASSUME allowed, calm # {} PROVE \E d \in Conns, t \in calm : CalmOne(d, t)'
    BY <1>1 DEF CalmFlow
  <2>1. PICK d \in Conns, t \in calm : CalmOne(d, t) BY DEF SshInv, CalmFlow
  <2>2. d = c BY <1>1, <2>1 DEF CalmOne, Open
  <2>3. Open' = Open /\ SshPending' = SshPending BY <1>1, <1>6 DEF Open, SshPending
  <2>4. \A r, i : i \in DOMAIN m /\ i < Len(m) /\ FinalAt(i, r, c) => FinalAt(i, r, c)'
    BY <1>4 DEF FinalAt, m
  <2>5. \A r \in calm \ {t} : \E i \in DOMAIN ui'[c].messages :
          i < Len(ui'[c].messages) /\ FinalAt(i, r, c)'
    BY <1>4, <2>1, <2>2, <2>4 DEF CalmOne, m
  <2>6. OnTheBus(c, t)' \/ OffTheBus(c, t)'
    <3>1. CASE e[1] = "final"
      <4>1. OffTheBus(c, t) /\ e = FinalEvent(t) /\ outChan[c] = <<>>
            /\ \A f \in events[c] : f[1] = "final" => f = FinalEvent(t)
        BY <2>1, <2>2, <3>1 DEF CalmOne, OnTheBus, OffTheBus, NoFinal
      <4>2. NoFinal(c)' BY <1>5, <4>1 DEF NoFinal
      <4>3. ~ui'[c].processing /\ \E i \in DOMAIN ui'[c].messages : FinalAt(i, t, c)'
        BY <1>4, <3>1, <4>1 DEF FinalAt
      <4> QED BY <1>1, <4>1, <4>2, <4>3 DEF OffTheBus
    <3>2. CASE e[1] # "final"
      <4>1. \A i \in DOMAIN m : i \in DOMAIN ui'[c].messages
                                /\ (FinalAt(i, t, c) => FinalAt(i, t, c)')
        BY <1>4, <3>2 DEF FinalAt, m
      <4>2. ui'[c].processing = ui[c].processing BY <1>4, <3>2
      <4>3. NoFinal(c) => NoFinal(c)' BY <1>5 DEF NoFinal
      <4>4. FinalEvent(t) # e BY <3>2, EventKinds
      <4>5. OnTheBus(c, t) => OnTheBus(c, t)' BY <1>1, <4>2, <4>3 DEF OnTheBus, Unhanded
      <4>6. OffTheBus(c, t) => OffTheBus(c, t)'
        BY <1>1, <1>5, <4>1, <4>2, <4>3, <4>4 DEF OffTheBus, m
      <4> QED BY <2>1, <2>2, <4>5, <4>6 DEF CalmOne
    <3> QED BY <3>1, <3>2
  <2>7. CalmOne(c, t)' BY <1>1, <2>1, <2>2, <2>3, <2>5, <2>6 DEF CalmOne
  <2> QED BY <2>7
<1> QED BY <1>7, <1>8, <1>9, <1>10, <1>11 DEF SshInv

LEMMA MessageTaken ==
  ASSUME SshInv, SshConsume
  PROVE  SshInv'
<1> DEFINE in == bus.inbound
<1>1. /\ agent.round = 0 /\ in # <<>>
      /\ agent' = [round |-> Head(in), chunks |-> 0]
      /\ bus' = [bus EXCEPT !.inbound = Tail(in)]
      /\ UNCHANGED <<allowed, conn, sessions, streamChans, chunkChans, outChan, outListen, events,
                     ui, typedIn, handed, failed, calm>>
  BY DEF SshConsume, wireVars, pastVars
<1>2. /\ bus \in [inbound : Seq(SshRounds), outbound : Seq(Posts)] /\ in \in Seq(SshRounds)
      /\ Distinct(in)
  BY DEF SshInv, SshTypes, OnItsWay
<1>3. /\ Tail(in) \in Seq(SshRounds) /\ Head(in) \in SshRounds
      /\ Elems(in) = Elems(Tail(in)) \cup {Head(in)}
      /\ Distinct(Tail(in)) /\ Head(in) \notin Elems(Tail(in))
  BY <1>1, <1>2, ElemsTail, DistinctTail
<1>4. /\ bus' \in [inbound : Seq(SshRounds), outbound : Seq(Posts)]
      /\ bus'.inbound = Tail(in) /\ bus'.outbound = bus.outbound
      /\ agent'.round = Head(in) /\ agent' \in [round : SshRounds \cup {0}, chunks : Nat]
  BY <1>1, <1>2, <1>3
<1>5. Head(in) # 0 BY <1>3, SshNumbers
<1>6. TypedRounds' = TypedRounds BY <1>1 DEF TypedRounds
<1>7. SshTypes' BY <1>1, <1>4, <1>6 DEF SshInv, SshTypes
<1>8. TypedInOrder' BY <1>1 DEF SshInv, TypedInOrder
<1>9. OnItsWay'
  <2>1. UNCHANGED <<handed, failed>> BY <1>1
  <2>2. /\ \A r \in Elems(in) : r \in TypedRounds
                                /\ r \notin Elems(bus.outbound) \cup handed \cup failed
        /\ Distinct(bus.outbound) /\ Elems(bus.outbound) \cap (handed \cup failed) = {}
        /\ \A r \in SshRounds :
             r \in Elems(bus.outbound) \cup handed \cup failed => r \in TypedRounds
    BY DEF SshInv, OnItsWay
  <2> HIDE DEF in
  <2> QED BY <1>3, <1>4, <1>6, <2>1, <2>2 DEF OnItsWay
<1>10. Listens' BY <1>1 DEF SshInv, Listens
<1>11. CalmFlow'
  <2> SUFFICES ASSUME allowed, calm # {} PROVE \E c \in Conns, t \in calm : CalmOne(c, t)'
    BY <1>1 DEF CalmFlow
  <2>1. PICK c \in Conns, t \in calm : CalmOne(c, t) BY DEF SshInv, CalmFlow
  <2>2. OnTheBus(c, t) /\ in = <<t>> /\ bus.outbound = <<>>
    BY <1>1, <2>1 DEF CalmOne, OnTheBus, OffTheBus
  <2>3. Head(in) = t /\ Tail(in) = <<>> BY <2>2
  <2>4. OnTheBus(c, t)' BY <1>1, <1>4, <2>2, <2>3 DEF OnTheBus, NoFinal, Unhanded
  <2>5. Open' = Open /\ SshPending' = SshPending BY <1>1, <1>6 DEF Open, SshPending
  <2>6. CalmOne(c, t)' BY <1>1, <2>1, <2>4, <2>5 DEF CalmOne, FinalAt
  <2> QED BY <2>6
<1> QED BY <1>7, <1>8, <1>9, <1>10, <1>11 DEF SshInv

LEMMA ChunkSent ==
  ASSUME SshInv, SshChunk
  PROVE  SshInv'
<1> DEFINE r == streamChans
           x == ChunkEvent(agent.round, agent.chunks + 1)
<1>1. /\ agent.round # 0 /\ agent' = [agent EXCEPT !.chunks = @ + 1]
      /\ \/ r # 0 /\ chunkChans' = [chunkChans EXCEPT ![r] = Append(@, x)]
         \/ chunkChans' = chunkChans
      /\ UNCHANGED <<allowed, conn, sessions, streamChans, outChan, outListen, events, ui, typedIn,
                     bus, handed, failed, calm>>
  BY Zenon DEF SshChunk, pastVars
<1>2. /\ agent' \in [round : SshRounds \cup {0}, chunks : Nat] /\ agent'.round = agent.round
      /\ agent.round \in SshRounds /\ agent.chunks + 1 \in Nat
  <2>1. agent \in [round : SshRounds \cup {0}, chunks : Nat] BY DEF SshInv, SshTypes
  <2>2. agent.round \in SshRounds /\ agent.chunks + 1 \in Nat BY <1>1, <2>1
  <2> HIDE DEF x
  <2> QED BY <1>1, <2>1, <2>2
<1>3. x \in ChunkTexts BY <1>2 DEF ChunkTexts
<1> HIDE DEF x
<1>4. chunkChans' \in [SshRounds -> Seq(ChunkTexts)]
  <2>1. CASE r # 0 /\ chunkChans' = [chunkChans EXCEPT ![r] = Append(@, x)]
    <3>1. r \in SshRounds /\ chunkChans[r] \in Seq(ChunkTexts) BY <2>1 DEF SshInv, SshTypes
    <3>2. Append(chunkChans[r], x) \in Seq(ChunkTexts) BY <1>3, <3>1, ElemsAppend
    <3> QED BY <2>1, <3>2 DEF SshInv, SshTypes
  <2>2. CASE chunkChans' = chunkChans BY <2>2 DEF SshInv, SshTypes
  <2> QED BY <1>1, <2>1, <2>2
<1>5. TypedRounds' = TypedRounds BY <1>1 DEF TypedRounds
<1>6. SshTypes' BY <1>1, <1>2, <1>4, <1>5 DEF SshInv, SshTypes
<1>7. TypedInOrder' BY <1>1 DEF SshInv, TypedInOrder
<1>8. OnItsWay'
  <2>1. UNCHANGED <<bus, handed, failed>> BY <1>1
  <2> QED BY <1>2, <1>5, <2>1 DEF SshInv, OnItsWay, Elems, Distinct
<1>9. Listens' BY <1>1 DEF SshInv, Listens
<1>10. CalmFlow'
  <2> SUFFICES ASSUME allowed, calm # {} PROVE \E c \in Conns, t \in calm : CalmOne(c, t)'
    BY <1>1 DEF CalmFlow
  <2>1. PICK c \in Conns, t \in calm : CalmOne(c, t) BY DEF SshInv, CalmFlow
  <2>2. OnTheBus(c, t) => OnTheBus(c, t)' BY <1>1, <1>2 DEF OnTheBus, NoFinal, Unhanded
  <2>3. OffTheBus(c, t) => OffTheBus(c, t)' BY <1>1, <1>2 DEF OffTheBus, NoFinal, FinalAt
  <2>4. Open' = Open /\ SshPending' = SshPending BY <1>1, <1>5 DEF Open, SshPending
  <2>5. CalmOne(c, t)' BY <1>1, <2>1, <2>2, <2>3, <2>4 DEF CalmOne, FinalAt
  <2> QED BY <2>5
<1> QED BY <1>6, <1>7, <1>8, <1>9, <1>10 DEF SshInv

LEMMA MessageDone ==
  ASSUME SshInv, SshAnswer
  PROVE  SshInv'
<1> DEFINE queue == bus.outbound
           r == agent.round
<1>1. /\ r # 0 /\ streamChans' = 0 /\ agent' = [round |-> 0, chunks |-> 0]
      /\ bus' = [bus EXCEPT !.outbound = Append(queue, r)]
      /\ UNCHANGED <<allowed, conn, sessions, chunkChans, outChan, outListen, events, ui, typedIn,
                     handed, failed, calm>>
  BY DEF SshAnswer, pastVars
<1>2. /\ bus \in [inbound : Seq(SshRounds), outbound : Seq(Posts)] /\ queue \in Seq(Posts)
      /\ Distinct(queue) /\ r \in SshRounds /\ r \in Posts
      /\ r \in TypedRounds /\ r \notin Elems(queue) \cup handed \cup failed
  BY <1>1, SshNumbers DEF SshInv, SshTypes, OnItsWay
<1>3. /\ Append(queue, r) \in Seq(Posts) /\ Elems(Append(queue, r)) = Elems(queue) \cup {r}
      /\ Distinct(Append(queue, r))
  BY <1>2, ElemsAppend, DistinctAppend
<1>4. /\ bus' \in [inbound : Seq(SshRounds), outbound : Seq(Posts)]
      /\ bus'.outbound = Append(queue, r) /\ bus'.inbound = bus.inbound
      /\ agent'.round = 0 /\ agent' \in [round : SshRounds \cup {0}, chunks : Nat]
  <2> DEFINE a == Append(queue, r)
  <2>1. a \in Seq(Posts) /\ bus' = [bus EXCEPT !.outbound = a] BY <1>1, <1>3
  <2> HIDE DEF a
  <2>2. /\ bus' \in [inbound : Seq(SshRounds), outbound : Seq(Posts)]
        /\ bus'.outbound = a /\ bus'.inbound = bus.inbound
    BY <1>2, <2>1
  <2>3. agent'.round = 0 /\ agent' \in [round : SshRounds \cup {0}, chunks : Nat] BY <1>1
  <2> QED BY <2>2, <2>3 DEF a
<1>5. TypedRounds' = TypedRounds BY <1>1 DEF TypedRounds
<1>6. SshTypes' BY <1>1, <1>4, <1>5 DEF SshInv, SshTypes
<1>7. TypedInOrder' BY <1>1 DEF SshInv, TypedInOrder
<1>8. OnItsWay'
  <2>1. UNCHANGED <<handed, failed>> BY <1>1
  <2>2. /\ \A q \in Elems(bus.inbound) : /\ q \in TypedRounds /\ q # r /\ q \in SshRounds
                                         /\ q \notin Elems(queue) \cup handed \cup failed
        /\ Distinct(bus.inbound) /\ Elems(queue) \cap (handed \cup failed) = {}
        /\ \A q \in SshRounds : q \in Elems(queue) \cup handed \cup failed => q \in TypedRounds
    BY DEF SshInv, OnItsWay, TypedRounds
  <2>3. \A q \in Elems(bus.inbound) : q # 0 BY <2>2, SshNumbers
  <2> HIDE DEF queue, r
  <2> QED BY <1>2, <1>3, <1>4, <1>5, <2>1, <2>2, <2>3 DEF OnItsWay
<1>9. Listens' BY <1>1 DEF SshInv, Listens
<1>10. CalmFlow'
  <2> SUFFICES ASSUME allowed, calm # {} PROVE \E c \in Conns, t \in calm : CalmOne(c, t)'
    BY <1>1 DEF CalmFlow
  <2>1. PICK c \in Conns, t \in calm : CalmOne(c, t) BY DEF SshInv, CalmFlow
  <2>2. OnTheBus(c, t) /\ bus.inbound = <<>> /\ queue = <<>> /\ t = r
    <3>1. t # 0 /\ 0 # t BY SshNumbers DEF SshInv, SshTypes, TypedRounds
    <3>2. OnTheBus(c, t) BY <1>1, <2>1 DEF CalmOne, OffTheBus
    <3> QED BY <1>1, <3>2 DEF OnTheBus
  <2>3. bus'.outbound = <<t>> BY <1>2, <1>4, <2>2, ElemsOne
  <2>4. OnTheBus(c, t)' BY <1>1, <1>4, <2>2, <2>3 DEF OnTheBus, NoFinal, Unhanded
  <2>5. Open' = Open /\ SshPending' = SshPending BY <1>1, <1>5 DEF Open, SshPending
  <2>6. CalmOne(c, t)' BY <1>1, <2>1, <2>4, <2>5 DEF CalmOne, FinalAt
  <2> QED BY <2>6
<1> QED BY <1>6, <1>7, <1>8, <1>9, <1>10 DEF SshInv

LEMMA ItemPosted ==
  ASSUME SshInv, NEW x \in Items, Item(x)
  PROVE  SshInv'
<1> DEFINE queue == bus.outbound
<1>1. /\ x \notin handed \cup failed /\ \A i \in DOMAIN queue : queue[i] # x
      /\ bus' = [bus EXCEPT !.outbound = Append(queue, x)]
      /\ calm' = calm \ TypedRounds
      /\ UNCHANGED <<allowed, conn, sessions, streamChans, chunkChans, outChan, outListen, events,
                     ui, typedIn, agent, handed, failed>>
  BY DEF Item, wireVars
<1>2. /\ bus \in [inbound : Seq(SshRounds), outbound : Seq(Posts)] /\ queue \in Seq(Posts)
      /\ Distinct(queue) /\ x \in Posts /\ x \notin SshRounds
      /\ x \notin Elems(queue) \cup handed \cup failed
  BY <1>1, SshNumbers DEF SshInv, SshTypes, OnItsWay, Elems
<1>3. /\ Append(queue, x) \in Seq(Posts) /\ Elems(Append(queue, x)) = Elems(queue) \cup {x}
      /\ Distinct(Append(queue, x))
  BY <1>2, ElemsAppend, DistinctAppend
<1>4. /\ bus' \in [inbound : Seq(SshRounds), outbound : Seq(Posts)]
      /\ bus'.outbound = Append(queue, x) /\ bus'.inbound = bus.inbound
  <2> DEFINE a == Append(queue, x)
  <2>1. a \in Seq(Posts) /\ bus' = [bus EXCEPT !.outbound = a] BY <1>1, <1>3
  <2> HIDE DEF a
  <2>2. /\ bus' \in [inbound : Seq(SshRounds), outbound : Seq(Posts)]
        /\ bus'.outbound = a /\ bus'.inbound = bus.inbound
    BY <1>2, <2>1
  <2> QED BY <2>2 DEF a
<1>5. TypedRounds' = TypedRounds BY <1>1 DEF TypedRounds
<1>6. calm' = {} BY <1>1 DEF SshInv, SshTypes
<1>7. SshTypes' BY <1>1, <1>4, <1>6 DEF SshInv, SshTypes
<1>8. TypedInOrder' BY <1>1 DEF SshInv, TypedInOrder
<1>9. OnItsWay'
  <2>1. UNCHANGED <<agent, handed, failed>> BY <1>1
  <2>2. /\ \A q \in Elems(bus.inbound) : /\ q \in TypedRounds /\ q # agent.round /\ q \in SshRounds
                                         /\ q \notin Elems(queue) \cup handed \cup failed
        /\ Distinct(bus.inbound) /\ Elems(queue) \cap (handed \cup failed) = {}
        /\ agent.round # 0 => /\ agent.round \in TypedRounds /\ agent.round \in SshRounds
                              /\ agent.round \notin Elems(queue) \cup handed \cup failed
        /\ \A q \in SshRounds : q \in Elems(queue) \cup handed \cup failed => q \in TypedRounds
    BY DEF SshInv, OnItsWay, TypedRounds
  <2> HIDE DEF queue
  <2> QED BY <1>2, <1>3, <1>4, <1>5, <2>1, <2>2 DEF OnItsWay
<1>10. Listens' BY <1>1 DEF SshInv, Listens
<1>11. CalmFlow' BY <1>6 DEF CalmFlow
<1> QED BY <1>7, <1>8, <1>9, <1>10, <1>11 DEF SshInv

LEMMA SentToUser ==
  ASSUME SshInv, SshSend
  PROVE  SshInv'
<1> DEFINE queue == bus.outbound
           x == Head(queue)
<1>1. /\ queue # <<>> /\ bus' = [bus EXCEPT !.outbound = Tail(queue)]
      /\ \/ /\ sessions # 0
            /\ outChan' = [outChan EXCEPT ![sessions] = Append(@, x)]
            /\ handed' = handed \cup {x} /\ UNCHANGED failed
         \/ failed' = failed \cup {x} /\ UNCHANGED <<outChan, handed>>
      /\ UNCHANGED <<allowed, conn, sessions, streamChans, chunkChans, outListen, events, ui,
                     typedIn, agent, calm>>
  BY DEF SshSend
<1>2. /\ bus \in [inbound : Seq(SshRounds), outbound : Seq(Posts)] /\ queue \in Seq(Posts)
      /\ Distinct(queue)
  BY DEF SshInv, SshTypes, OnItsWay
<1>3. /\ Tail(queue) \in Seq(Posts) /\ x \in Posts /\ Elems(queue) = Elems(Tail(queue)) \cup {x}
      /\ Distinct(Tail(queue)) /\ x \notin Elems(Tail(queue))
  BY <1>1, <1>2, ElemsTail, DistinctTail
<1>4. /\ bus' \in [inbound : Seq(SshRounds), outbound : Seq(Posts)]
      /\ bus'.outbound = Tail(queue) /\ bus'.inbound = bus.inbound
  BY <1>1, <1>2, <1>3
<1> HIDE DEF x
<1>5. outChan' \in [Conns -> Seq(Posts)]
      /\ \A d \in Conns : d # sessions => outChan'[d] = outChan[d]
  <2>1. CASE sessions # 0 /\ outChan' = [outChan EXCEPT ![sessions] = Append(@, x)]
    <3>1. sessions \in Conns /\ outChan[sessions] \in Seq(Posts) BY <2>1 DEF SshInv, SshTypes
    <3>2. Append(outChan[sessions], x) \in Seq(Posts) BY <1>3, <3>1, ElemsAppend
    <3> QED BY <2>1, <3>1, <3>2 DEF SshInv, SshTypes
  <2>2. CASE outChan' = outChan BY <2>2 DEF SshInv, SshTypes
  <2> QED BY <1>1, <2>1, <2>2
<1>6. /\ handed' \cup failed' = handed \cup failed \cup {x}
      /\ handed \subseteq handed' /\ failed \subseteq failed'
  BY <1>1
<1>7. TypedRounds' = TypedRounds BY <1>1 DEF TypedRounds
<1>8. SshTypes' BY <1>1, <1>3, <1>4, <1>5, <1>6, <1>7 DEF SshInv, SshTypes
<1>9. TypedInOrder' BY <1>1 DEF SshInv, TypedInOrder
<1>10. OnItsWay'
  <2>1. UNCHANGED agent BY <1>1
  <2>2. /\ \A q \in Elems(bus.inbound) : /\ q \in TypedRounds /\ q # agent.round
                                         /\ q \notin Elems(queue) \cup (handed \cup failed)
        /\ Distinct(bus.inbound) /\ Elems(queue) \cap (handed \cup failed) = {}
        /\ agent.round # 0 => /\ agent.round \in TypedRounds
                              /\ agent.round \notin Elems(queue) \cup (handed \cup failed)
        /\ \A q \in SshRounds : q \in Elems(queue) \cup (handed \cup failed) => q \in TypedRounds
    BY DEF SshInv, OnItsWay
  <2>3. Elems(Tail(queue)) \cup (handed' \cup failed') = Elems(queue) \cup (handed \cup failed)
        /\ Elems(Tail(queue)) \cap (handed' \cup failed') = {}
    BY <1>3, <1>6, <2>2
  <2> HIDE DEF queue
  <2> QED BY <1>3, <1>4, <1>7, <2>1, <2>2, <2>3 DEF OnItsWay
<1>11. Listens' BY <1>1 DEF SshInv, Listens
<1>12. CalmFlow'
  <2> SUFFICES ASSUME allowed, calm # {} PROVE \E c \in Conns, t \in calm : CalmOne(c, t)'
    BY <1>1 DEF CalmFlow
  <2>1. PICK c \in Conns, t \in calm : CalmOne(c, t) BY DEF SshInv, CalmFlow
  <2>2. OnTheBus(c, t) /\ queue = <<t>> /\ bus.inbound = <<>> /\ agent.round = 0
    BY <1>1, <2>1 DEF CalmOne, OnTheBus, OffTheBus
  <2>3. t \in Posts BY SshNumbers DEF SshInv, SshTypes, TypedRounds
  <2>4. x = t /\ bus'.outbound = <<>> BY <1>4, <2>2, <2>3, ElemsOne DEF x
  <2>5. sessions = c /\ outChan[c] = <<>> BY <2>1, <2>2 DEF CalmOne, OnTheBus
  <2>6. OnTheBus(c, t)' \/ OffTheBus(c, t)'
    <3>1. CASE /\ outChan' = [outChan EXCEPT ![sessions] = Append(@, x)]
               /\ handed' = handed \cup {x}
      <4>1. outChan'[c] = Append(outChan[c], t) BY <2>4, <2>5, <3>1 DEF SshInv, SshTypes
      <4>2. outChan'[c] = <<t>> BY <2>3, <2>5, <4>1, ElemsOne
      <4> QED BY <1>1, <1>4, <2>2, <2>4, <3>1, <4>2 DEF OnTheBus, OffTheBus, NoFinal
    <3>2. CASE failed' = failed \cup {x} /\ UNCHANGED <<outChan, handed>>
      BY <1>1, <1>4, <2>2, <2>4, <3>2 DEF OnTheBus, NoFinal, Unhanded
    <3> QED BY <1>1, <3>1, <3>2
  <2>7. Open' = Open /\ SshPending' \subseteq SshPending BY <1>1, <1>6, <1>7 DEF Open, SshPending
  <2>8. CalmOne(c, t)' BY <1>1, <2>1, <2>6, <2>7 DEF CalmOne, FinalAt
  <2> QED BY <2>8
<1> QED BY <1>8, <1>9, <1>10, <1>11, <1>12 DEF SshInv

LEMMA SshGoesOn ==
  ASSUME SshInv, [SshNext]_sshVars
  PROVE  SshInv'
<1>1. CASE UNCHANGED sshVars
  <2>1. UNCHANGED <<allowed, conn, sessions, streamChans, chunkChans, outChan, outListen, events,
                   ui, typedIn, agent, bus, handed, failed, calm>>
    BY <1>1 DEF sshVars
  <2>2. TypedRounds' = TypedRounds /\ Open' = Open /\ SshPending' = SshPending
    BY <2>1 DEF TypedRounds, Open, SshPending
  <2>3. SshTypes' BY <2>1, <2>2 DEF SshInv, SshTypes
  <2>4. TypedInOrder' /\ Listens' BY <2>1 DEF SshInv, TypedInOrder, Listens
  <2>5. OnItsWay' BY <2>1, <2>2 DEF SshInv, OnItsWay, Elems, Distinct
  <2>6. CalmFlow'
    BY <2>1, <2>2 DEF SshInv, CalmFlow, CalmOne, OnTheBus, OffTheBus, NoFinal, FinalAt, Unhanded
  <2> QED BY <2>3, <2>4, <2>5, <2>6 DEF SshInv
<1>2. ASSUME NEW c \in Conns, NEW e \in events[c], Update(c, e) PROVE SshInv' BY <1>2, Updated
<1> QED BY <1>1, <1>2, Connected, Left, TypedIn, ResponseHeard, ChunkHeard, MessageTaken,
           ChunkSent, MessageDone, ItemPosted, SentToUser DEF SshNext

(* The answer to a message that nothing came between is on its way to a    *)
(* program that listens, or is shown.                                      *)
LEMMA SshShows == SshInv => AnswersShown
<1> SUFFICES ASSUME SshInv, NEW r \in calm, allowed, r \in handed
             PROVE  LET c == typedIn[r]
                        underway == \/ \E i \in DOMAIN outChan[c] : outChan[c][i] = r
                                    \/ FinalEvent(r) \in events[c] IN
                    \/ underway /\ (outListen[c] > 0 \/ \E e \in events[c] : e[1] # "chunk")
                    \/ /\ ~underway
                       /\ \E i \in DOMAIN ui[c].messages :
                            ui[c].messages[i].text[1] = FinalEvent(r)
                       /\ ui[c].processing => \E q \in TypedRounds : q > r
  BY DEF AnswersShown
<1>1. PICK c \in Conns, t \in calm : CalmOne(c, t) BY DEF SshInv, CalmFlow
<1>2. typedIn[r] = c /\ conn[c] = "open" BY <1>1 DEF CalmOne, Open
<1>3. outListen[c] > 0 \/ \E e \in events[c] : e[1] # "chunk" BY <1>2 DEF SshInv, Listens
<1>4. t \in TypedRounds /\ r \in TypedRounds /\ t \in Nat /\ r \in Nat
  BY SshNumbers DEF SshInv, SshTypes, TypedRounds
<1>5. /\ outChan[c] \in {<<>>, <<t>>}
      /\ \A x : FinalEvent(x) \in events[c] => x = t
  BY <1>1, EventKinds DEF CalmOne, OnTheBus, OffTheBus, NoFinal
<1>6. (\E i \in DOMAIN outChan[c] : outChan[c][i] = r) => r = t
  BY <1>5
<1>7. CASE r # t
  <2>1. \E i \in DOMAIN ui[c].messages : FinalAt(i, r, c) BY <1>1, <1>7 DEF CalmOne
  <2>2. r < t BY <1>1, <1>7 DEF CalmOne
  <2>3. t > r BY <1>4, <2>2
  <2> QED BY <1>2, <1>4, <1>5, <1>6, <1>7, <2>1, <2>3 DEF FinalAt
<1>8. CASE r = t
  <2>1. OffTheBus(c, t) BY <1>1, <1>8 DEF CalmOne, OnTheBus, Unhanded
  <2>2. CASE outChan[c] = <<t>>
    <3>1. 1 \in DOMAIN outChan[c] /\ outChan[c][1] = t BY <2>2
    <3> QED BY <1>2, <1>3, <1>8, <3>1
  <2>3. CASE FinalEvent(t) \in events[c] BY <1>2, <1>3, <1>8, <2>3
  <2>4. CASE outChan[c] = <<>> /\ NoFinal(c) /\ ~ui[c].processing
             /\ \E i \in DOMAIN ui[c].messages : FinalAt(i, t, c)
    <3>1. FinalEvent(t) \notin events[c] BY <2>4, EventKinds DEF NoFinal
    <3>2. ~\E i \in DOMAIN outChan[c] : outChan[c][i] = r BY <2>4
    <3> QED BY <1>2, <1>8, <2>4, <3>1, <3>2 DEF FinalAt
  <2> QED BY <2>1, <2>2, <2>3, <2>4 DEF OffTheBus
<1> QED BY <1>7, <1>8

(* An allowed user with one connection is shown the answer to a message    *)
(* that nothing came between, or it is on its way to a program that still  *)
(* listens, whatever the capacities, chunks and connections.               *)
THEOREM SshAnswersShown == SshSpec => []AnswersShown
<1> QED BY SshStarts, SshGoesOn, SshShows, PTL DEF SshSpec

-----------------------------------------------------------------------------
(* The console *)

Sendable == Lines \cup Extras
Texts == {"full", "chunk"} \X Sendable
Out == Elems(outbound)

ConsoleTypes ==
  /\ running \in BOOLEAN /\ streamed \in BOOLEAN
  /\ scannedLines \in 0 .. Cardinality(Lines) /\ begunLines \in 0 .. scannedLines
  /\ line \in {0, begunLines}
  /\ outbound \in Seq(Sendable) /\ printed \in Seq(Texts)
  /\ consoleSent \subseteq Sendable

(* Lines are numbered as they are begun; the one that is worked on has not *)
(* been handed on.                                                         *)
InTurn ==
  /\ \A l \in Lines : l \in Out \cup consoleSent => l <= begunLines
  /\ \A l \in Lines : Printed(<<"full", l>>) \/ Printed(<<"chunk", l>>) => l <= begunLines
  /\ line # 0 => line \notin Out \cup consoleSent

(* Nothing is in front of a line that nothing came between, and the flag   *)
(* is set exactly if a chunk of it was printed.                            *)
FlagIsOf(l) == /\ ~Printed(<<"full", l>>) /\ l \notin consoleSent
               /\ running => (streamed <=> Printed(<<"chunk", l>>))
Alone ==
  /\ line # 0 /\ line \notin mixed => outbound = <<>> /\ FlagIsOf(line)
  /\ \A l \in Lines : l \in Out /\ l \notin mixed =>
       outbound = <<l>> /\ line = 0 /\ FlagIsOf(l)
  /\ running /\ line = 0 /\ outbound = <<>> => ~streamed
  /\ scannedLines = 0 => ~streamed

ConsoleInv == ConsoleTypes /\ InTurn /\ Alone /\ PrintedOnce

LEMMA ConsoleNumbers ==
  /\ Cardinality(Lines) \in Nat /\ \A l \in Lines : l \in Nat /\ l >= 1
  /\ \A n \in 1 .. Cardinality(Lines) : n \in Lines
  /\ 0 \notin Sendable /\ Lines \cap Extras = {}
BY ConsoleAssumption DEF Sendable

(* What a chunk or a response adds to what is printed. *)
LEMMA PrintedMore ==
  ASSUME printed \in Seq(Texts), NEW e \in Texts, printed' = Append(printed, e)
  PROVE  printed' \in Seq(Texts) /\ \A x : Printed(x)' <=> Printed(x) \/ x = e
<1>1. printed' \in Seq(Texts) /\ Elems(printed') = Elems(printed) \cup {e} BY ElemsAppend
<1>2. \A x : Printed(x) <=> x \in Elems(printed) BY DEF Printed, Elems
<1>3. \A x : Printed(x)' <=> x \in Elems(printed') BY DEF Printed, Elems
<1> QED BY <1>1, <1>2, <1>3

(* Texts of one kind, or of two lines, are not the same. *)
LEMMA TextsDiffer ==
  /\ \A l, m : <<"full", l>> # <<"chunk", m>>
  /\ \A l, m : l # m => <<"full", l>> # <<"full", m>> /\ <<"chunk", l>> # <<"chunk", m>>
OBVIOUS

LEMMA ConsoleStarts == ConsoleInit => ConsoleInv
<1> SUFFICES ASSUME ConsoleInit PROVE ConsoleInv OBVIOUS
<1> USE DEF ConsoleInit
<1>1. Out = {} /\ \A x : ~Printed(x) BY ElemsNone DEF Out, Printed
<1>2. ConsoleTypes
  <2>1. outbound \in Seq(Sendable) /\ printed \in Seq(Texts) BY EmptySeq
  <2>2. scannedLines = 0 /\ begunLines = 0 /\ line = 0 OBVIOUS
  <2>3. running \in BOOLEAN /\ streamed \in BOOLEAN OBVIOUS
  <2>4. consoleSent \subseteq Sendable OBVIOUS
  <2>5. 0 \in 0 .. Cardinality(Lines) /\ 0 \in 0 .. 0 BY ConsoleNumbers
  <2> QED BY <2>1, <2>2, <2>3, <2>4, <2>5 DEF ConsoleTypes
<1>3. InTurn BY <1>1 DEF InTurn
<1>4. Alone BY <1>1 DEF Alone
<1>5. PrintedOnce BY DEF PrintedOnce
<1> QED BY <1>2, <1>3, <1>4, <1>5 DEF ConsoleInv

(* Steps that neither print nor queue anything. *)
LEMMA RunningChanges ==
  ASSUME ConsoleInv, Start \/ Stop
  PROVE  ConsoleInv'
<1>1. UNCHANGED <<scannedLines, begunLines, line, outbound, streamed, printed, consoleSent, mixed>>
  BY DEF Start, Stop
<1>2. ConsoleTypes' BY <1>1 DEF ConsoleInv, ConsoleTypes, Start, Stop
<1>3. Out' = Out /\ \A x : Printed(x)' <=> Printed(x) BY <1>1 DEF Out, Printed
<1>4. InTurn' BY <1>1, <1>3 DEF ConsoleInv, InTurn
<1>5. PrintedOnce' BY <1>1, <1>3 DEF ConsoleInv, PrintedOnce
<1>6. CASE Stop
  <2>1. running' = FALSE BY <1>6 DEF Stop
  <2>2. \A l : FlagIsOf(l) => FlagIsOf(l)' BY <1>1, <1>3, <2>1 DEF FlagIsOf
  <2>3. Alone' BY <1>1, <1>3, <2>1, <2>2 DEF ConsoleInv, Alone
  <2> QED BY <1>2, <1>4, <1>5, <2>3 DEF ConsoleInv
<1>7. CASE Start
  <2>1. scannedLines = 0 /\ begunLines = 0 /\ line = 0 BY <1>7 DEF Start, ConsoleInv, ConsoleTypes
  <2>2. \A l \in Lines : l \notin Out BY <2>1, ConsoleNumbers DEF ConsoleInv, InTurn
  <2>3. Alone' BY <1>1, <1>3, <2>1, <2>2 DEF ConsoleInv, Alone
  <2> QED BY <1>2, <1>4, <1>5, <2>3 DEF ConsoleInv
<1> QED BY <1>6, <1>7

LEMMA LineScanned ==
  ASSUME ConsoleInv, readLoop
  PROVE  ConsoleInv'
<1>1. UNCHANGED <<running, begunLines, line, outbound, streamed, printed, consoleSent, mixed>>
      /\ scannedLines' = scannedLines + 1 /\ scannedLines < Cardinality(Lines)
  BY DEF readLoop
<1>2. ConsoleTypes'
  <2>1. scannedLines' \in 0 .. Cardinality(Lines) /\ begunLines \in 0 .. scannedLines'
    BY <1>1, ConsoleNumbers DEF ConsoleInv, ConsoleTypes
  <2> QED BY <1>1, <2>1 DEF ConsoleInv, ConsoleTypes
<1>3. Out' = Out /\ \A x : Printed(x)' <=> Printed(x) BY <1>1 DEF Out, Printed
<1>4. InTurn' BY <1>1, <1>3 DEF ConsoleInv, InTurn
<1>5. PrintedOnce' BY <1>1, <1>3 DEF ConsoleInv, PrintedOnce
<1>6. \A l : FlagIsOf(l)' <=> FlagIsOf(l) BY <1>1, <1>3 DEF FlagIsOf
<1>7. scannedLines' # 0 BY <1>1 DEF ConsoleInv, ConsoleTypes
<1>8. Alone' BY <1>1, <1>3, <1>6, <1>7 DEF ConsoleInv, Alone
<1> QED BY <1>2, <1>4, <1>5, <1>8 DEF ConsoleInv

LEMMA LineBegun ==
  ASSUME ConsoleInv, BeginLine
  PROVE  ConsoleInv'
<1> DEFINE n == begunLines + 1
<1>1. /\ line = 0 /\ line' = n /\ begunLines' = n /\ begunLines < scannedLines
      /\ mixed' = IF outbound = <<>> THEN mixed ELSE mixed \cup {n} \cup Underway
      /\ UNCHANGED <<running, scannedLines, outbound, streamed, printed, consoleSent>>
  BY DEF BeginLine
<1>2. begunLines \in Nat /\ scannedLines \in Nat /\ scannedLines <= Cardinality(Lines)
      /\ Cardinality(Lines) \in Nat
  BY ConsoleNumbers DEF ConsoleInv, ConsoleTypes
<1>3. n \in Lines /\ n # 0 /\ n \in 0 .. scannedLines BY <1>1, <1>2, ConsoleNumbers
<1>4. ConsoleTypes' BY <1>1, <1>3 DEF ConsoleInv, ConsoleTypes
<1>5. Out' = Out /\ \A x : Printed(x)' <=> Printed(x) BY <1>1 DEF Out, Printed
<1>6. /\ n \notin Out \cup consoleSent
      /\ ~Printed(<<"full", n>>) /\ ~Printed(<<"chunk", n>>)
  <2>1. ~(n <= begunLines) BY <1>2
  <2> QED BY <1>3, <2>1 DEF ConsoleInv, InTurn
<1>7. InTurn'
  <2>1. \A l \in Lines : l <= begunLines => l <= n BY <1>2, ConsoleNumbers
  <2> QED BY <1>1, <1>5, <1>6, <2>1 DEF ConsoleInv, InTurn
<1>8. PrintedOnce' BY <1>1, <1>5 DEF ConsoleInv, PrintedOnce
<1>9. \A l : FlagIsOf(l)' <=> FlagIsOf(l) BY <1>1, <1>5 DEF FlagIsOf
<1>10. Alone'
  <2>1. CASE outbound = <<>>
    <3>1. Out = {} BY <2>1, ElemsNone DEF Out
    <3>2. running => ~streamed BY <1>1, <2>1 DEF ConsoleInv, Alone
    <3>3. FlagIsOf(n) BY <1>6, <3>2 DEF FlagIsOf
    <3>4. FlagIsOf(line)' BY <1>1, <1>9, <3>3
    <3> QED BY <1>1, <1>3, <1>5, <2>1, <3>1, <3>4 DEF ConsoleInv, Alone
  <2>2. CASE outbound # <<>>
    <3>1. n \in mixed' /\ \A l \in Lines : l \in Out => l \in mixed'
      BY <1>1, <2>2 DEF Underway, Out, Elems
    <3> QED BY <1>1, <1>3, <1>5, <3>1 DEF ConsoleInv, Alone
  <2> QED BY <2>1, <2>2
<1> QED BY <1>4, <1>7, <1>8, <1>10 DEF ConsoleInv

LEMMA LineStreamed ==
  ASSUME ConsoleInv, ConsoleChunk
  PROVE  ConsoleInv'
<1>1. /\ line # 0 /\ streamed' = (streamed \/ running)
      /\ printed' = IF running THEN Append(printed, <<"chunk", line>>) ELSE printed
      /\ UNCHANGED <<running, scannedLines, begunLines, line, outbound, consoleSent, mixed>>
  BY DEF ConsoleChunk
<1>2. line \in Lines /\ line = begunLines /\ line >= 1
  <2>1. line = begunLines /\ begunLines \in 1 .. Cardinality(Lines)
    BY <1>1, ConsoleNumbers DEF ConsoleInv, ConsoleTypes
  <2> QED BY <2>1, ConsoleNumbers
<1>3. <<"chunk", line>> \in Texts BY <1>2 DEF Texts, Sendable
<1>4. printed' \in Seq(Texts)
      /\ \A x : Printed(x)' <=> Printed(x) \/ (running /\ x = <<"chunk", line>>)
  <2>1. CASE running BY <1>1, <1>3, <2>1, PrintedMore DEF ConsoleInv, ConsoleTypes
  <2>2. CASE ~running BY <1>1, <2>2 DEF ConsoleInv, ConsoleTypes, Printed
  <2> QED BY <2>1, <2>2
<1>6. ConsoleTypes'
  <2>1. streamed' \in BOOLEAN BY <1>1 DEF ConsoleInv, ConsoleTypes
  <2> QED BY <1>1, <1>4, <2>1 DEF ConsoleInv, ConsoleTypes
<1>7. Out' = Out BY <1>1 DEF Out
<1>8. \A l : /\ Printed(<<"full", l>>)' <=> Printed(<<"full", l>>)
             /\ Printed(<<"chunk", l>>)' <=> Printed(<<"chunk", l>>) \/ (running /\ l = line)
  BY <1>4, TextsDiffer
<1>9. InTurn'
  <2>1. line <= begunLines BY <1>2, ConsoleNumbers
  <2> QED BY <1>1, <1>7, <1>8, <2>1 DEF ConsoleInv, InTurn
<1>10. PrintedOnce'
  <2>1. line \notin consoleSent BY <1>1 DEF ConsoleInv, InTurn
  <2> QED BY <1>1, <1>8, <2>1 DEF ConsoleInv, PrintedOnce
<1>11. Alone'
  <2>1. line \notin mixed => outbound = <<>> /\ FlagIsOf(line)'
    BY <1>1, <1>8 DEF ConsoleInv, Alone, FlagIsOf
  <2>2. \A l \in Lines : l \in Out => l \in mixed BY <1>1 DEF ConsoleInv, Alone
  <2>3. scannedLines # 0
    <3>1. begunLines \in 0 .. scannedLines /\ begunLines >= 1 BY <1>2 DEF ConsoleInv, ConsoleTypes
    <3> QED BY <3>1
  <2>4. line' = line BY <1>1
  <2> QED BY <1>1, <1>7, <2>1, <2>2, <2>3 DEF Alone, FlagIsOf
<1> QED BY <1>6, <1>9, <1>10, <1>11 DEF ConsoleInv

LEMMA LineEnded ==
  ASSUME ConsoleInv, EndLine
  PROVE  ConsoleInv'
<1>1. /\ line # 0 /\ line' = 0 /\ outbound' = Append(outbound, line)
      /\ UNCHANGED <<running, scannedLines, begunLines, streamed, printed, consoleSent, mixed>>
  BY DEF EndLine
<1>2. line \in Lines /\ line = begunLines /\ line >= 1
  <2>1. line = begunLines /\ begunLines \in 1 .. Cardinality(Lines)
    BY <1>1, ConsoleNumbers DEF ConsoleInv, ConsoleTypes
  <2> QED BY <2>1, ConsoleNumbers
<1>3. /\ outbound' \in Seq(Sendable) /\ Out' = Out \cup {line} /\ outbound' # <<>>
  <2>1. line \in Sendable /\ outbound \in Seq(Sendable)
    BY <1>2 DEF Sendable, ConsoleInv, ConsoleTypes
  <2> QED BY <1>1, <2>1, ElemsAppend DEF Out
<1>4. ConsoleTypes' BY <1>1, <1>3 DEF ConsoleInv, ConsoleTypes
<1>5. \A x : Printed(x)' <=> Printed(x) BY <1>1 DEF Printed
<1>6. InTurn'
  <2>1. line <= begunLines BY <1>2, ConsoleNumbers
  <2> QED BY <1>1, <1>3, <1>5, <2>1 DEF ConsoleInv, InTurn
<1>7. PrintedOnce' BY <1>1, <1>5 DEF ConsoleInv, PrintedOnce
<1>8. \A l : FlagIsOf(l)' <=> FlagIsOf(l) BY <1>1, <1>5 DEF FlagIsOf
<1>9. Alone'
  <2>1. \A l \in Lines : l \in Out => l \in mixed BY <1>1 DEF ConsoleInv, Alone
  <2>2. line \notin mixed => outbound' = <<line>> /\ FlagIsOf(line)
    BY <1>1, <1>2, ElemsOne DEF ConsoleInv, Alone
  <2>3. scannedLines = 0 => ~streamed BY DEF ConsoleInv, Alone
  <2> QED BY <1>1, <1>3, <1>8, <2>1, <2>2, <2>3 DEF Alone
<1> QED BY <1>4, <1>6, <1>7, <1>9 DEF ConsoleInv

LEMMA ExtraSent ==
  ASSUME ConsoleInv, NEW x \in Extras, Extra(x)
  PROVE  ConsoleInv'
<1>1. /\ outbound' = Append(outbound, x) /\ mixed' = mixed \cup Underway
      /\ UNCHANGED <<running, scannedLines, begunLines, line, streamed, printed, consoleSent>>
  BY DEF Extra
<1>2. x \in Sendable /\ x \notin Lines /\ x # 0 BY ConsoleNumbers DEF Sendable
<1>3. outbound' \in Seq(Sendable) /\ Out' = Out \cup {x} /\ outbound' # <<>>
  BY <1>1, <1>2, ElemsAppend DEF Out, ConsoleInv, ConsoleTypes
<1>4. ConsoleTypes' BY <1>1, <1>3 DEF ConsoleInv, ConsoleTypes
<1>5. \A y : Printed(y)' <=> Printed(y) BY <1>1 DEF Printed
<1>6. line # 0 => line \in Lines
  <2>1. line # 0 => line = begunLines /\ begunLines \in 1 .. Cardinality(Lines)
    BY ConsoleNumbers DEF ConsoleInv, ConsoleTypes
  <2> QED BY <2>1, ConsoleNumbers
<1>7. InTurn' BY <1>1, <1>2, <1>3, <1>5, <1>6 DEF ConsoleInv, InTurn
<1>8. PrintedOnce' BY <1>1, <1>5 DEF ConsoleInv, PrintedOnce
<1>9. Alone'
  <2>1. line # 0 => line \in mixed' BY <1>1 DEF Underway
  <2>2. \A l \in Lines : l \in Out' => l \in mixed' BY <1>1, <1>2, <1>3 DEF Underway, Out, Elems
  <2>3. scannedLines = 0 => ~streamed BY DEF ConsoleInv, Alone
  <2> QED BY <1>1, <1>3, <2>1, <2>2, <2>3 DEF Alone
<1> QED BY <1>4, <1>7, <1>8, <1>9 DEF ConsoleInv

LEMMA ConsoleSends ==
  ASSUME ConsoleInv, ConsoleSend
  PROVE  ConsoleInv'
<1> DEFINE x == Head(outbound)
<1>1. /\ outbound # <<>> /\ outbound' = Tail(outbound)
      /\ UNCHANGED <<running, scannedLines, begunLines, line, mixed>>
      /\ running => /\ streamed' = FALSE /\ consoleSent' = consoleSent \cup {x}
                    /\ printed' = IF streamed THEN printed ELSE Append(printed, <<"full", x>>)
      /\ ~running => UNCHANGED <<streamed, printed, consoleSent>>
  BY DEF ConsoleSend, LoadAndDeleteFlag
<1>2. /\ outbound' \in Seq(Sendable) /\ x \in Sendable /\ Out = Out' \cup {x}
  BY <1>1, ElemsTail DEF ConsoleInv, ConsoleTypes, Out
<1> HIDE DEF x
<1>3. <<"full", x>> \in Texts BY <1>2 DEF Texts
<1>4. printed' \in Seq(Texts)
      /\ \A y : Printed(y)' <=> Printed(y) \/ (running /\ ~streamed /\ y = <<"full", x>>)
  <2>1. CASE running /\ ~streamed
    BY <1>1, <1>3, <2>1, PrintedMore DEF ConsoleInv, ConsoleTypes
  <2>2. CASE ~(running /\ ~streamed) BY <1>1, <2>2 DEF ConsoleInv, ConsoleTypes, Printed
  <2> QED BY <2>1, <2>2
<1>5. \A l : /\ Printed(<<"chunk", l>>)' <=> Printed(<<"chunk", l>>)
             /\ Printed(<<"full", l>>)' <=>
                  Printed(<<"full", l>>) \/ (running /\ ~streamed /\ l = x)
  BY <1>4, TextsDiffer
<1>6. ConsoleTypes' BY <1>1, <1>2, <1>4 DEF ConsoleInv, ConsoleTypes
<1>7. consoleSent' \subseteq consoleSent \cup {x} BY <1>1
<1>8. x \in Out /\ (x \in Lines => x <= begunLines) /\ (line # 0 => x # line)
  BY <1>2 DEF ConsoleInv, InTurn
<1>9. InTurn' BY <1>1, <1>2, <1>5, <1>7, <1>8 DEF ConsoleInv, InTurn
(* A line nothing came between was alone in the queue. *)
<1>10. ASSUME x \in Lines, x \notin mixed
       PROVE  outbound' = <<>> /\ FlagIsOf(x)
  <2>1. outbound = <<x>> /\ FlagIsOf(x) BY <1>8, <1>10 DEF ConsoleInv, Alone
  <2> QED BY <1>1, <1>10, <2>1, ElemsOne
<1>11. PrintedOnce'
  <2> SUFFICES ASSUME NEW l \in Lines, l \in consoleSent' \ mixed'
               PROVE  Printed(<<"full", l>>)' <=> ~Printed(<<"chunk", l>>)'
    BY DEF PrintedOnce
  <2>1. CASE l = x
    <3>1. FlagIsOf(l) BY <1>1, <1>10, <2>1
    <3>2. running BY <1>1, <3>1 DEF FlagIsOf
    <3> QED BY <1>5, <2>1, <3>1, <3>2 DEF FlagIsOf
  <2>2. CASE l # x BY <1>1, <1>5, <1>7, <2>2 DEF ConsoleInv, PrintedOnce
  <2> QED BY <2>1, <2>2
<1>12. Alone'
  <2>1. line # 0 => line \in mixed
    <3> SUFFICES ASSUME line # 0, line \notin mixed PROVE FALSE OBVIOUS
    <3> QED BY <1>1 DEF ConsoleInv, Alone
  <2>2. \A l \in Lines : l \in Out' => l \in mixed
    <3> SUFFICES ASSUME NEW l \in Lines, l \in Out', l \notin mixed PROVE FALSE OBVIOUS
    <3>1. outbound = <<l>> BY <1>2 DEF ConsoleInv, Alone
    <3>2. Out' = {} BY <1>1, <3>1, ElemsOne, ElemsNone DEF Out
    <3> QED BY <3>2
  <2>3. running => ~streamed' BY <1>1
  <2>4. scannedLines = 0 => ~streamed' BY <1>1 DEF ConsoleInv, Alone
  <2> QED BY <1>1, <2>1, <2>2, <2>3, <2>4 DEF Alone
<1> QED BY <1>6, <1>9, <1>11, <1>12 DEF ConsoleInv

(* A response that nothing came between is printed exactly once, as it was *)
(* streamed or as a whole, for any number of lines, chunks and messages of *)
(* others.                                                                 *)
THEOREM TheConsolePrintsOnce == ConsoleSpec => []PrintedOnce
<1>1. ASSUME ConsoleInv, [ConsoleNext]_consoleVars PROVE ConsoleInv'
  <2>1. CASE UNCHANGED consoleVars
    <3>1. UNCHANGED <<running, scannedLines, begunLines, line, outbound, streamed, printed,
                     consoleSent, mixed>>
      BY <2>1 DEF consoleVars
    <3> QED BY <1>1, <3>1 DEF ConsoleInv, ConsoleTypes, InTurn, Alone, FlagIsOf, Printed, Out,
                              Elems, PrintedOnce
  <2> QED BY <1>1, <2>1, RunningChanges, LineScanned, LineBegun, LineStreamed, LineEnded,
             ExtraSent, ConsoleSends DEF ConsoleNext
<1>2. ConsoleInv => PrintedOnce BY DEF ConsoleInv
<1> QED BY <1>1, <1>2, ConsoleStarts, PTL DEF ConsoleSpec

-----------------------------------------------------------------------------
(* On each channel the user sees every answer that nothing came between,   *)
(* once and whole, whatever the other channels do.                         *)
THEOREM EveryAnswerIsSeen == TelegramSpec /\ SshSpec /\ ConsoleSpec => []AnswersAreSeen
<1>1. AnswersStand /\ AnswersShown /\ PrintedOnce => AnswersAreSeen BY DEF AnswersAreSeen
<1> QED BY <1>1, TelegramAnswersStand, SshAnswersShown, TheConsolePrintsOnce, PTL
=============================================================================
