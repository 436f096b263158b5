------------------------------ MODULE Routing -------------------------------
(***************************************************************************)
(* Which agent answers a message and in which session (pkg/routing,        *)
(* pkg/agent/registry.go and the head of processMessage in loop.go): the   *)
(* bindings of the configuration from the most specific to the least, the  *)
(* session key of the agent and the peer, and the reports of background    *)
(* tasks, which take a way of their own.                                   *)
(*                                                                         *)
(* A session key is the tuple of its parts.  Strings are compared without  *)
(* regard to case where the code lowers them: LowerCase gives the lower    *)
(* case of those that have another, agent IDs included.  Where the code    *)
(* ranges over a Go map any order is possible.                             *)
(***************************************************************************)
EXTENDS Naturals, Sequences, FiniteSets

CONSTANTS Configs,   \* records: agents, bindings, scope, links
          Messages,  \* records: channel, account, peer, parent, guild, team, key
          Internal,  \* constants.IsInternalChannel
          LowerCase, \* a function from spellings to their lower case
          NoPeer,    \* no peer
          MaxHeard   \* bound: rounds

VARIABLES cfg,    \* the configuration
          heard,  \* the rounds: message, agent and session of each
          tasks   \* background tasks: the round that spawned each

routingVars == <<cfg, heard, tasks>>

Low(x) == IF x \in DOMAIN LowerCase THEN LowerCase[x] ELSE x

(* Configurations list agents and bindings, and the code names kinds of    *)
(* peers in lower case: direct, group, channel.                            *)
IsList(s) == Len(s) \in Nat /\ s = [i \in 1..Len(s) |-> s[i]]
ASSUME RoutingAssumption ==
  /\ \A c \in Configs : IsList(c.agents) /\ IsList(c.bindings)
  /\ \A in \in Messages : in.peer # NoPeer => Low(in.peer.kind) = in.peer.kind

Account(x) == IF x = "" THEN "default" ELSE Low(x)

-----------------------------------------------------------------------------
(* The registry. *)
AgentIDs ==
  IF cfg.agents = <<>> THEN {"main"} ELSE {Low(cfg.agents[i].id) : i \in DOMAIN cfg.agents}

(* resolveDefaultAgentID: the first that is marked, or else the first. *)
Marked == {i \in DOMAIN cfg.agents : cfg.agents[i].default}
resolveDefaultAgentID ==
  IF cfg.agents = <<>> THEN "main"
  ELSE IF Marked = {} THEN Low(cfg.agents[1].id)
  ELSE Low(cfg.agents[CHOOSE i \in Marked : \A j \in Marked : i <= j].id)

pickAgentID(id) ==
  IF cfg.agents = <<>> \/ Low(id) \in AgentIDs THEN Low(id) ELSE resolveDefaultAgentID

(* GetDefaultAgent: "main", or whichever the map yields. *)
GetDefaultAgent == IF "main" \in AgentIDs THEN {"main"} ELSE AgentIDs
GetAgent(id) == IF id \in AgentIDs THEN {id} ELSE GetDefaultAgent

CanSpawnSubagent(parent, target) ==
  \E i \in DOMAIN cfg.agents :
    /\ Low(cfg.agents[i].id) = parent
    /\ \E a \in cfg.agents[i].allow : a = "*" \/ Low(a) = Low(target)

-----------------------------------------------------------------------------
(* ResolveRoute. *)
matchesAccountID(b, account) ==
  b.account = "*" \/ Account(b.account) = account

(* The bindings of the channel and account, by their places in the list. *)
filterBindings(in) ==
  {i \in DOMAIN cfg.bindings : /\ Low(cfg.bindings[i].channel) = Low(in.channel)
                               /\ matchesAccountID(cfg.bindings[i], Account(in.account))}

PeerMatch(b, peer) == /\ peer # NoPeer /\ b.peer # NoPeer
                      /\ Low(b.peer.kind) = Low(peer.kind) /\ b.peer.id = peer.id
NamesNobody(b) == b.peer = NoPeer /\ b.guild = "" /\ b.team = ""

(* findAccountMatch.  (Faulty form: it takes bindings of a peer, too.) *)
AnyAccount(b) == b.account # "*" /\ b.guild = "" /\ b.team = ""
AccountMatch(b) == b.account # "*" /\ NamesNobody(b)

(* Whether the binding b matches the message on a level, from the most     *)
(* specific.                                                               *)
MatchesOn(level, b, in) ==
  \/ level = 1 /\ PeerMatch(b, in.peer)
  \/ level = 2 /\ PeerMatch(b, in.parent)
  \/ level = 3 /\ in.guild # "" /\ b.guild = in.guild
  \/ level = 4 /\ in.team # "" /\ b.team = in.team
  \/ level = 5 /\ AccountMatch(b)
  \/ level = 6 /\ b.account = "*" /\ NamesNobody(b)

(* The most specific level wins, and on it the first binding of the list. *)
Bound(in) == {x \in (1..6) \X filterBindings(in) : MatchesOn(x[1], cfg.bindings[x[2]], in)}
NotAfter(x, y) == x[1] < y[1] \/ (x[1] = y[1] /\ x[2] <= y[2])
FirstBound(in) == CHOOSE x \in Bound(in) : \A y \in Bound(in) : NotAfter(x, y)

ResolveRoute(in) ==
  IF Bound(in) = {} THEN resolveDefaultAgentID
  ELSE pickAgentID(cfg.bindings[FirstBound(in)[2]].agent)

-----------------------------------------------------------------------------
(* Session keys. *)
BuildAgentMainSessionKey(agent) == <<"agent", agent, "main">>

(* resolveLinkedPeerID: every name that links the peer may be the first. *)
resolveLinkedPeerID(in) ==
  {Low(l.canonical) : l \in {x \in cfg.links : /\ Low(x.id) = Low(in.peer.id)
                                               /\ Low(x.channel) \in {"", Low(in.channel)}}}

Names(in) ==
  LET linked == resolveLinkedPeerID(in) IN IF linked = {} THEN {Low(in.peer.id)} ELSE linked

Scoped == cfg.scope \in {"per-peer", "per-channel-peer", "per-account-channel-peer"}

(* A direct peer: as far apart as the scope says.  A group: always apart.  *)
DirectKey(agent, in, name) ==
  IF cfg.scope = "per-peer" THEN <<"agent", agent, "direct", name>>
  ELSE IF cfg.scope = "per-channel-peer" THEN <<"agent", agent, Low(in.channel), "direct", name>>
  ELSE <<"agent", agent, Low(in.channel), Account(in.account), "direct", name>>

BuildAgentPeerSessionKey(agent, in) ==
  IF in.peer # NoPeer /\ in.peer.kind # "direct"
  THEN {<<"agent", agent, Low(in.channel), Low(in.peer.kind), Low(in.peer.id)>>}
  ELSE IF in.peer = NoPeer \/ ~Scoped
  THEN {BuildAgentMainSessionKey(agent)}
  ELSE {DirectKey(agent, in, n) : n \in Names(in)}

-----------------------------------------------------------------------------
RoutingInit == cfg \in Configs /\ heard = {} /\ tasks = {}

(* processMessage: only a key that is already an agent's own is honored.   *)
Sessions(in) ==
  IF in.key # <<>> /\ in.key[1] = "agent" THEN {in.key}
  ELSE BuildAgentPeerSessionKey(ResolveRoute(in), in)

Hear(in, agents, sessions, report) ==
  /\ Cardinality(heard) < MaxHeard
  /\ \E a \in agents, s \in sessions :
       heard' = heard \cup {[msg |-> in, agent |-> a, session |-> s, report |-> report,
                             at |-> Cardinality(heard)]}

Route(in) ==
  /\ Hear(in, GetAgent(ResolveRoute(in)), Sessions(in), FALSE)
  /\ UNCHANGED <<cfg, tasks>>

(* The spawn tool, with or without the name of another agent. *)
Spawn(h, target) ==
  /\ ~h.report /\ tasks = {}
  /\ target = "" \/ CanSpawnSubagent(h.agent, target)
  /\ tasks' = {h}
  /\ UNCHANGED <<cfg, heard>>

(* processSystemMessage: the report of a task, to the default agent's main *)
(* session; one from an internal channel is only logged.                   *)
Report(h) ==
  /\ h \in tasks /\ tasks' = tasks \ {h}
  /\ IF h.msg.channel \in Internal THEN UNCHANGED heard
     ELSE \E a \in GetDefaultAgent :
            Hear(h.msg, {a}, {BuildAgentMainSessionKey(a)}, TRUE)
  /\ UNCHANGED cfg

RoutingNext ==
  \/ \E in \in Messages : Route(in)
  \/ \E h \in heard : Report(h) \/ \E target \in {""} \cup AgentIDs : Spawn(h, target)

RoutingSpec == RoutingInit /\ [][RoutingNext]_routingVars

-----------------------------------------------------------------------------
Direct(in) == in.peer = NoPeer \/ in.peer.kind = "direct"
Unambiguous(in) ==
  in.peer = NoPeer \/ \A m, n \in resolveLinkedPeerID(in) : m = n

(* One binding is enough to say who answers: a peer's own binding wins     *)
(* whatever precedes it, and a binding that names somebody answers nobody  *)
(* else.  The same message goes to the same agent and session each time    *)
(* unless two names link its peer.  A session belongs to one agent; a      *)
(* group shares one with nobody, nor does a peer with another, unless the  *)
(* scope is `main`, or a name links them (route.go:40-120,                 *)
(* session_key.go:45-105).                                                 *)
RoutesHold ==
  \A h \in heard : ~h.report /\ h.msg.key = <<>> =>
    LET bs == cfg.bindings
        of == filterBindings(h.msg)
        mine == {i \in of : PeerMatch(bs[i], h.msg.peer)} IN
    /\ mine # {} => \E i \in mine : pickAgentID(bs[i].agent) = h.session[2]
    /\ h.session[2] # resolveDefaultAgentID =>
         \E i \in of : /\ pickAgentID(bs[i].agent) = h.session[2]
                       /\ NamesNobody(bs[i]) \/ \E l \in 1..4 : MatchesOn(l, bs[i], h.msg)
    /\ cfg.agents # <<>> => h.agent = h.session[2]
    /\ \A g \in heard : ~g.report /\ g.msg.key = <<>> =>
         /\ g.msg = h.msg /\ Unambiguous(h.msg) => g.agent = h.agent /\ g.session = h.session
         /\ g.session = h.session =>
              /\ g.agent = h.agent /\ (Direct(g.msg) <=> Direct(h.msg))
              /\ ~Direct(h.msg) => /\ Low(g.msg.peer.kind) = Low(h.msg.peer.kind)
                                  /\ Low(g.msg.peer.id) = Low(h.msg.peer.id)
                                  /\ Low(g.msg.channel) = Low(h.msg.channel)
              /\ Scoped /\ Direct(h.msg) /\ h.msg.peer # NoPeer /\ g.msg.peer # NoPeer =>
                   Low(g.msg.peer.id) = Low(h.msg.peer.id) \/ Names(g.msg) \cap Names(h.msg) # {}
=============================================================================
