------------------------------- MODULE Config -------------------------------
(***************************************************************************)
(* config.json (pkg/config): loading it, with the legacy `providers`       *)
(* converted to a model list, the commands that rewrite it in place        *)
(* (onboard, auth login and logout, migrate), and what a start of the      *)
(* agent or the gateway makes of it (pkg/providers/legacy_provider.go,     *)
(* factory_provider.go).                                                   *)
(*                                                                         *)
(* A configuration is its model list, which the JSON may not have, the     *)
(* keys of the legacy providers, and the default provider and model.       *)
(* A model is <<protocol, name>>, or <<name>> before it is given one.      *)
(***************************************************************************)
EXTENDS Naturals, Sequences, FiniteSets

CONSTANTS Written,     \* the configurations users write
          Foreign,     \* those of OpenClaw
          ProviderOrder, \* the providers, as migration.go lists them
          Aliases,     \* per provider: its names in agents.defaults.provider
          ModelOf,     \* per provider: the model its entry has otherwise
          DefaultList, \* the model list of DefaultConfig
          DefaultModel,
          LoginModel,  \* per provider of `auth login`: the model it sets
          MaxCommands  \* bound: commands

VARIABLES conf,     \* the file: missing, torn or a configuration
          commands,
          started   \* the last start: configuration, and entry or error

configVars == <<conf, commands, started>>

NoConfig == [is |-> "missing"]
TornConfig == [is |-> "torn"]
NoList == <<"absent">>   \* no model_list in the JSON
Listed(list) == <<"list", list>>
Config(list, keys, provider, model) ==
  [is |-> "config", list |-> list, keys |-> keys, provider |-> provider, model |-> model]
ProviderNames == {ProviderOrder[i] : i \in DOMAIN ProviderOrder}
DefaultConfig == Config(Listed(DefaultList), [p \in ProviderNames |-> ""], "", DefaultModel)

(* What the JSON decoder makes of a file that is whole. *)
IsEntry(e) ==
  e = [name |-> e.name, model |-> e.model, key |-> e.key, base |-> e.base, auth |-> e.auth]
IsModelList(l) ==
  Len(l) \in Nat /\ l = [i \in 1..Len(l) |-> l[i]] /\ \A i \in DOMAIN l : IsEntry(l[i])
IsConfig(c) ==
  /\ c = Config(c.list, c.keys, c.provider, c.model)
  /\ c.list = NoList \/ (c.list = Listed(c.list[2]) /\ IsModelList(c.list[2]))

ASSUME ConfigAssumption ==
  /\ \A c \in Written : IsConfig(c)
  /\ IsModelList(DefaultList)
  /\ Len(ProviderOrder) \in Nat /\ DOMAIN ProviderOrder = 1..Len(ProviderOrder)

ConfigInit == /\ conf \in Written \cup {NoConfig} /\ commands = 0
              /\ started = [of |-> NoConfig, entry |-> [is |-> "none"]]

-----------------------------------------------------------------------------
(* ConvertProvidersToModelList: an entry for each provider that has a key  *)
(* (a base alone would do, and is left out).                               *)
(* The user's model goes to the provider that is named, or, if none is, to *)
(* the first, under its own name.  (Faulty form: to each of them.)         *)
HaveKeys(c) == {i \in DOMAIN ProviderOrder : c.keys[ProviderOrder[i]] # ""}
Place(S, i) == Cardinality({j \in S : j <= i})
WithKeys(c) ==
  [k \in 1 .. Cardinality(HaveKeys(c)) |->
     ProviderOrder[CHOOSE i \in HaveKeys(c) : Place(HaveKeys(c), i) = k]]
buildModelWithProtocol(p, model) == <<p, model>>
ToEach(c, i) == c.provider = ""
ToTheFirst(c, i) == c.provider = "" /\ i = 1

Converted(c, i) ==
  LET p == WithKeys(c)[i]
      mine == c.provider \in Aliases[p] \/ ToTheFirst(c, i) IN
  [name |-> IF ToTheFirst(c, i) /\ c.model # "" THEN c.model ELSE p,
   model |-> IF mine /\ c.model # "" THEN buildModelWithProtocol(p, c.model) ELSE ModelOf[p],
   key |-> c.keys[p], base |-> FALSE, auth |-> ""]

ConvertProvidersToModelList(c) == [i \in DOMAIN WithKeys(c) |-> Converted(c, i)]

(* LoadConfig: without a file, or without a list in it, the default list. *)
List(c) ==
  LET list == IF c.list = NoList THEN DefaultList ELSE c.list[2] IN
  IF list = <<>> THEN ConvertProvidersToModelList(c) ELSE list

LoadConfig == IF conf = NoConfig THEN DefaultConfig
              ELSE [conf EXCEPT !.list = Listed(List(conf))]
Loads == conf # TornConfig

-----------------------------------------------------------------------------
(* GetModelConfig takes the entries of a name in turn. *)
Matches(c) == {i \in DOMAIN c.list[2] : c.list[2][i].name = c.model}

(* CreateProviderFromConfig: what each protocol asks for. *)
Usable(e) ==
  \/ e.model[1] = "antigravity"
  \/ e.model[1] \in {"openai", "anthropic"} /\ e.auth # ""
  \/ e.key # ""
  \/ e.base /\ e.model[1] # "anthropic"

Outcome(is, e) == [is |-> is, key |-> e.key, auth |-> e.auth, model |-> e.model]
Failure == [is |-> "error"]

(* A start of the agent or the gateway. *)
CreateProvider ==
  /\ Loads
  /\ LET c == LoadConfig IN
     IF Matches(c) = {} THEN started' = [of |-> conf, entry |-> Failure]
     ELSE \E i \in Matches(c) :
            started' = [of |-> conf,
                        entry |-> IF Usable(c.list[2][i]) THEN Outcome("started", c.list[2][i])
                                  ELSE Failure]
  /\ UNCHANGED <<conf, commands>>

-----------------------------------------------------------------------------
(* SaveConfig, which writes in place: whoever dies in it leaves a torn     *)
(* file.                                                                   *)
SaveConfig(c) == conf' \in {c, TornConfig} /\ UNCHANGED started

Command == commands < MaxCommands /\ commands' = commands + 1

Onboard == Command /\ SaveConfig(DefaultConfig)

(* The first entry of the provider, or a new one, and the model it has. *)
WithLogin(list, p, how) ==
  LET of == {i \in DOMAIN list : list[i].model[1] = p} IN
  IF of = {} THEN Append(list, [name |-> LoginModel[p], model |-> <<p, LoginModel[p]>>,
                                key |-> "", base |-> FALSE, auth |-> how])
  ELSE [i \in DOMAIN list |-> IF i \in of /\ \A j \in of : i <= j
                              THEN [list[i] EXCEPT !.auth = how] ELSE list[i]]

AuthLogin(p, how) ==
  /\ Command /\ Loads
  /\ SaveConfig([LoadConfig EXCEPT !.list = Listed(WithLogin(@[2], p, how)),
                                   !.model = LoginModel[p]])

AuthLogout(p) ==
  /\ Command /\ Loads
  /\ SaveConfig([LoadConfig EXCEPT !.list =
       Listed([i \in DOMAIN @[2] |-> IF @[2][i].model[1] = p THEN [@[2][i] EXCEPT !.auth = ""]
                                     ELSE @[2][i]])])

(* ConvertConfig: the defaults, with what OpenClaw has. *)
ConvertConfig(f) ==
  [DefaultConfig EXCEPT !.keys = [p \in ProviderNames |-> f.keys[p]],
                        !.model = IF f.model = "" THEN @ ELSE f.model]

(* MergeConfig: only the keys that are missing.  (Faulty form: all.) *)
Theirs(mine, theirs) == IF theirs = "" THEN mine ELSE theirs
Merged(mine, theirs) == IF mine = "" THEN theirs ELSE mine
MergeConfig(c, incoming) ==
  [c EXCEPT !.keys = [p \in ProviderNames |-> Merged(@[p], incoming.keys[p])]]

executeConfigMigration(f) ==
  /\ Command /\ Loads
  /\ SaveConfig(IF conf = NoConfig THEN ConvertConfig(f)
                ELSE MergeConfig(LoadConfig, ConvertConfig(f)))

ConfigNext ==
  \/ CreateProvider \/ Onboard
  \/ \E p \in DOMAIN LoginModel :
       AuthLogout(p) \/ \E how \in {"oauth", "token"} : AuthLogin(p, how)
  \/ \E f \in Foreign : executeConfigMigration(f)

ConfigSpec == ConfigInit /\ [][ConfigNext]_configVars

-----------------------------------------------------------------------------
(* A list that is empty is made from the providers so that the agent       *)
(* starts, with the key of the first of them and the user's model, unless  *)
(* a provider is named: then no entry has the model's name, or the model   *)
(* has the name of a provider, whose entry may then be taken               *)
(* (migration.go:332-366, "It preserves the user's configured model from   *)
(* agents.defaults.model when possible").                                  *)
NamesAModel(c) == c.model # "" /\ c.model \notin ProviderNames
StartsOnTheFirst ==
  LET c == started.of IN
  c.is = "config" =>
    (c.list = Listed(<<>>) /\ c.provider = "" /\ NamesAModel(c) /\ WithKeys(c) # <<>> =>
       /\ started.entry.is = "started"
       /\ started.entry.key = c.keys[WithKeys(c)[1]]
       /\ started.entry.model = <<WithKeys(c)[1], c.model>>)

(* The keys in a configuration. *)
KeysOf(c) ==
  ({c.keys[p] : p \in ProviderNames} \cup
   (IF c.list = NoList THEN {} ELSE {c.list[2][i].key : i \in DOMAIN c.list[2]})) \ {""}
KeysKept ==
  conf.is = "config" /\ conf' \notin {TornConfig, DefaultConfig} =>
    KeysOf(conf) \subseteq KeysOf(conf')

(* No command but onboard takes a key out of the file, or changes one,     *)
(* unless it dies in the middle (config/migrate: MergeConfig;              *)
(* cmd_auth.go:121-150).                                                   *)
KeysStay == [][KeysKept]_configVars

(* "During the migration period, your existing `providers` configuration   *)
(* will continue to work" (docs/migration/model-list-migration.md:175).    *)
ProvidersGoOnWorking ==
  LET c == started.of IN
  c.is = "config" =>
    (c.list = NoList /\ WithKeys(c) # <<>> =>
       started.entry.is = "started" /\ started.entry.key # "")
=============================================================================
