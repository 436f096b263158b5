------------------------------- MODULE MCParts -------------------------------
(***************************************************************************)
(* The components that have no run of their own, on small instances.  A    *)
(* behaviour is one of a single component, the part it runs; the others    *)
(* wait in an initial state.                                               *)
(***************************************************************************)
EXTENDS AgentSession, Histories, Credentials, FileTools, GitRepo, MemoryVault, SkillInstall,
        Heartbeat, Migration, Config, ToolGuards, Channels, SkillSearch, Routing, TLC

CONSTANTS Parts   \* the parts to run

VARIABLE part    \* the part that runs

-----------------------------------------------------------------------------
(* Skill searches: "web" and "webs" are similar. *)
QueryTrigrams == "web" :> {1, 2, 3} @@ "webs" :> {1, 2, 3, 4} @@ "db" :> {}
BestScore == "a" :> 1 @@ "b" :> 2

(* Routing: two people and a group, bindings of every level and their      *)
(* conflicts, agents with and without a default, identity links.           *)
Person(n) == [kind |-> "direct", id |-> n]
Group(n) == [kind |-> "group", id |-> n]
Received(c, p, k) == [channel |-> c, account |-> "", peer |-> p, parent |-> NoPeer,
                     guild |-> "", team |-> "", key |-> k]
RoutingMessages ==
  {Received("telegram", Person("7"), <<>>), Received("telegram", Person("8"), <<>>),
   Received("telegram", Group("9"), <<>>), Received("ssh", NoPeer, <<>>),
   Received("cli", NoPeer, <<"my-session">>), Received("cli", NoPeer, <<"cli", "default">>),
   [Received("telegram", Group("9"), <<>>) EXCEPT !.guild = "g", !.parent = Person("7")]}

Binding(a, c, acc) == [agent |-> a, channel |-> c, account |-> acc, peer |-> NoPeer,
                       guild |-> "", team |-> ""]
Bindings ==
  {Binding("Sales", "Telegram", "*"), Binding("ops", "telegram", ""),
   [Binding("ops", "telegram", "") EXCEPT !.peer = Person("7")],
   [Binding("gone", "telegram", "") EXCEPT !.peer = Person("7")],
   [Binding("Sales", "telegram", "*") EXCEPT !.guild = "g"]}
Agent(id, d) == [id |-> id, default |-> d, allow |-> IF d THEN {"*"} ELSE {}]
Link(n, c, i) == [canonical |-> n, channel |-> c, id |-> i]

Lists(n) == UNION {[1..i -> Bindings] : i \in 0..n}
ListsOfAgents ==
  {<<>>, <<Agent("ops", FALSE), Agent("Sales", TRUE)>>,
   <<Agent("main", FALSE), Agent("Sales", FALSE), Agent("ops", TRUE)>>}

(* Two bindings say which agent answers, scopes and links which session.   *)
RoutingConfigs ==
  [agents : ListsOfAgents, bindings : Lists(2), scope : {"per-peer"}, links : {{}}]
  \cup
  [agents : ListsOfAgents, bindings : Lists(1),
   scope : {"main", "per-peer", "per-channel-peer", "per-account-channel-peer"},
   links : {{}, {Link("Ann", "Telegram", "7"), Link("Ann", "", "8")},
            {Link("Ann", "telegram", "7"), Link("Bob", "", "7")}}]
NoRouting == [agents |-> <<>>, bindings |-> <<>>, scope |-> "per-peer", links |-> {}]
Lowered == "Telegram" :> "telegram" @@ "Sales" :> "sales" @@ "Ann" :> "ann" @@ "Bob" :> "bob"

(* Tools: one of a group a keyword names, and one with a limit. *)
GroupOf == "git_pull" :> "git" @@ "exec" :> "core"
TwoPerMinute == "exec" :> [enabled |-> TRUE, size |-> 1, perMin |-> 2]

(* Heartbeat: nothing tells two chats apart, so that the one which is      *)
(* named first may be called telegram:A.                                   *)
FirstComesFirst == stateFile # "ssh:B" /\ (stateFile = NoChannel => oldFile # "ssh:B")

(* Migration. *)
TwoFiles == <<"SOUL.md", "MEMORY.md">>

(* Configurations: with no list, an empty one, and two entries of a name;  *)
(* any keys of three providers; every way to name a default.               *)
ThreeProviders == <<"openai", "anthropic", "zhipu">>
TheirAliases == "openai" :> {"openai", "gpt"} @@ "anthropic" :> {"anthropic", "claude"}
                @@ "zhipu" :> {"zhipu", "glm"}
OwnModels == "openai" :> <<"openai", "gpt-5.2">> @@ "anthropic" :> <<"anthropic", "claude">>
             @@ "zhipu" :> <<"zhipu", "glm-4">>
Entry(p, n, k, base) == [name |-> n, model |-> <<p, n>>, key |-> k, base |-> base, auth |-> ""]
DefaultEntries ==
  <<Entry("zhipu", "glm-4.7", "", TRUE), Entry("openai", "gpt-5.2", "", TRUE),
    Entry("anthropic", "claude", "", FALSE)>>
LoginModels ==
  "openai" :> "gpt-5.2" @@ "anthropic" :> "claude" @@ "antigravity" :> "gemini-flash"
Owning(whose, S) == [p \in {"openai", "anthropic", "zhipu"} |-> IF p \in S THEN whose \o p ELSE ""]
WrittenConfigs ==
  [is : {"config"},
   list : {<<"absent">>, <<"list", <<>>>>,
           <<"list", <<Entry("openai", "mine", "k", FALSE), Entry("zhipu", "mine", "z", FALSE)>>>>},
   keys : {Owning("my-", S) : S \in SUBSET {"openai", "anthropic", "zhipu"}},
   provider : {"", "claude", "zhipu"}, model : {"", "gpt-5.2", "mine"}]
ForeignConfigs == [keys : {Owning("their-", S) : S \in {{}, {"openai", "zhipu"}}}, model : {"", "gpt-4"}]

-----------------------------------------------------------------------------
(* Where one instance would be too large there are two: the sessions of    *)
(* two goroutines, or of one with longer turns; a Telegram chat with       *)
(* longer streams, or with notes; an SSH user who types twice, or who is   *)
(* sent something else meanwhile.                                          *)

(* Sessions: a round of each goroutine, without tools; or two of the loop, *)
(* with turns of two calls.                                                *)
TwoExchanges == <<User(1), Assistant(2, 0), User(3), Assistant(4, 0)>>
OneExchangeTwice == {TwoExchanges}
OneEach == [r \in Runners |-> 1]
Tu == INSTANCE AgentSession WITH
     MaxCalls <- 2, MaxSummaries <- 1, MaxRounds <- [r \in Runners |-> IF r = Loop THEN 2 ELSE 0]
Te == INSTANCE Telegram WITH
     TelegramNotes <- {11}, TelegramChunks <- 1, MaxFails <- 2
No == INSTANCE Ssh WITH
     SshRounds <- {1}, Items <- {11}

-----------------------------------------------------------------------------
(* Running one part. *)
Runs(p) == p \in Parts /\ part = p

(* The parts that do not run wait in one of their initial states. *)
Waits(p) == part # p

PartsInit ==
  /\ part \in Parts
  /\ HistoryInit
  /\ Init /\ FilesInit /\ GitInit /\ VaultInit
  /\ CredInit
  /\ Waits("credentials") => key = [a \in Actors |-> None] /\ config = <<>>
  /\ InstallInit
  /\ Waits("install") => shipped = [s \in Skills |-> {}]
  /\ HeartbeatInit
  /\ IF part = "heartbeat" THEN FirstComesFirst
     ELSE stateFile = NoChannel /\ oldFile = NoChannel /\ prompt = "empty"
  /\ MigrationInit
  /\ Waits("migration") => src = {}
  /\ ConfigInit
  /\ Waits("config") => conf = NoConfig
  /\ GuardInit
  /\ TelegramInit
  /\ SshInit
  /\ part \notin {"ssh", "notices"} => allowed
  /\ ConsoleInit
  /\ SearchInit
  /\ IF part = "routing" THEN RoutingInit ELSE cfg = NoRouting /\ heard = {} /\ tasks = {}

(* The one part runs, and nothing else changes. *)
ElseUnchanged(own, theirs) == IF part \in own THEN TRUE ELSE UNCHANGED theirs

PartsNext ==
  /\ UNCHANGED part
  /\ ElseUnchanged({"history"}, hist)
  /\ ElseUnchanged({"session", "turns"}, vars)
  /\ ElseUnchanged({"credentials"}, credVars)
  /\ ElseUnchanged({"files"}, fileVars)
  /\ ElseUnchanged({"git"}, gitVars)
  /\ ElseUnchanged({"vault"}, vaultVars)
  /\ ElseUnchanged({"install"}, installVars)
  /\ ElseUnchanged({"heartbeat"}, heartbeatVars)
  /\ ElseUnchanged({"migration"}, migrationVars)
  /\ ElseUnchanged({"config"}, configVars)
  /\ ElseUnchanged({"guards"}, guardVars)
  /\ ElseUnchanged({"telegram", "streams"}, telegramVars)
  /\ ElseUnchanged({"ssh", "notices"}, sshVars)
  /\ ElseUnchanged({"console"}, consoleVars)
  /\ ElseUnchanged({"search"}, searchVars)
  /\ ElseUnchanged({"routing"}, routingVars)
  /\ \/ Runs("history") /\ Grow
     \/ Runs("session") /\ Next
     \/ Runs("turns") /\ Tu!Next
     \/ Runs("credentials") /\ CredNext
     \/ Runs("files") /\ FileNext
     \/ Runs("git") /\ GitNext
     \/ Runs("vault") /\ VaultNext
     \/ Runs("install") /\ InstallNext
     \/ Runs("heartbeat") /\ HeartbeatNext
     \/ Runs("migration") /\ MigrationNext
     \/ Runs("config") /\ ConfigNext
     \/ Runs("guards") /\ GuardNext
     \/ Runs("streams") /\ TelegramNext
     \/ Runs("telegram") /\ Te!TelegramNext
     \/ Runs("ssh") /\ SshNext
     \/ Runs("notices") /\ No!SshNext
     \/ Runs("console") /\ ConsoleNext
     \/ Runs("search") /\ SearchNext
     \/ Runs("routing") /\ RoutingNext

partVars == <<part, hist, vars, credVars, fileVars, gitVars, vaultVars, installVars,
              heartbeatVars, migrationVars, configVars, guardVars, telegramVars, sshVars,
              consoleVars, searchVars, routingVars>>

PartsSpec == PartsInit /\ [][PartsNext]_partVars
=============================================================================
