--------------------------- MODULE MCAgentReplies ---------------------------
(* AgentReplies on a small instance: one agent, two chats.                 *)
EXTENDS AgentReplies

TwoChats == {<<"telegram", "A">>, <<"ssh", "B">>}
WithCron == {Loop, Cron}
OneAgent == {Default}
UserOnly == {"user"}
Unnamed == {NoChat}
OneCall == [a \in Actors |-> 1]
=============================================================================
