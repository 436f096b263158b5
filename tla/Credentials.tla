---------------------------- MODULE Credentials -----------------------------
(***************************************************************************)
(* The credential store (pkg/auth/store.go) and who changes it: the token  *)
(* sources of the gateway refresh a credential in the middle of a call     *)
(* (providers/codex_provider.go, antigravity_provider.go), the commands    *)
(* `auth login`, `auth logout` and `auth models` run in processes of their *)
(* own.  Nobody locks auth.json: every change loads it, modifies it and    *)
(* writes it in place.                                                     *)
(*                                                                         *)
(* A grant is what one login gave: an account with its project and its     *)
(* refresh tokens, of which a provider may accept only the newest.         *)
(***************************************************************************)
EXTENDS Naturals, Sequences, FiniteSets

CONSTANTS Providers,   \* "openai" and "google-antigravity"
          Callers,     \* calls of the gateway that ask for a token
          Shells,      \* processes of the auth commands
          None,
          Keys,        \* what MILLIBEE_MASTER_KEY can be
          MaxOps,      \* bound: operations
          MaxTokens    \* bound: refresh tokens the providers give out

Actors == Callers \cup Shells
Google == "google-antigravity"

VARIABLES key,       \* MILLIBEE_MASTER_KEY of each actor's process, or None
          file,      \* auth.json: Absent, Torn or the credentials by provider
          config,    \* the models of config.json: a sequence of [of, method]
          stage,        \* what each actor is doing
          prov,      \* the provider it works for
          cred,      \* the credential in its hands, or None
          store,     \* the credentials it has loaded to modify
          ops,       \* operations so far
          minted,    \* refresh tokens given out; the newest is the largest
          accepted,  \* of them, those the provider takes
          saves,     \* history: changes of the file
          seen,      \* history: of them, those each actor's operation started from
          owner,     \* history: the grant of every token
          last,      \* history: the grant each provider's login left, or None
          excused    \* history: operations overlapped, or an answer was lost

credVars == <<key, file, config, stage, prov, cred, store, ops, minted, accepted,
              saves, seen, owner, last, excused>>
inHands == <<stage, prov, cred, store>>
server == <<minted, accepted, owner>>
told == <<saves, last, excused>>

Absent == <<>>
Torn == <<None>>
Readable == file # Torn

(* Tokens are encrypted in the file, with the key of whoever saved first;  *)
(* one that another key encrypted is kept as it stands.                    *)
Unseal(c, k) == IF c # None /\ c.key = k THEN [c EXCEPT !.key = None] ELSE c
Seal(c, k)   == IF c # None /\ c.key = None THEN [c EXCEPT !.key = k] ELSE c

LoadStore(a) == IF file = Absent THEN [p \in Providers |-> None]
                ELSE [p \in Providers |-> Unseal(file[p], key[a])]

CredInit ==
  /\ key \in [Actors -> Keys \cup {None}]
  /\ file = Absent /\ config \in {<<>>, <<[of |-> "openai", method |-> "key"]>>}
  /\ stage = [a \in Actors |-> "idle"] /\ prov = [a \in Actors |-> CHOOSE p \in Providers : TRUE]
  /\ cred = [a \in Actors |-> None] /\ store = [a \in Actors |-> None]
  /\ ops = 0 /\ minted = 0 /\ accepted = {} /\ saves = 0
  /\ seen = [a \in Actors |-> 0] /\ owner = <<>>
  /\ last = [p \in Providers |-> None] /\ excused = FALSE

Go(a, to) == stage' = [stage EXCEPT ![a] = to]
Begin(a, p, to) ==
  /\ stage[a] = "idle" /\ ops < MaxOps /\ ops' = ops + 1
  /\ prov' = [prov EXCEPT ![a] = p] /\ Go(a, to)
  /\ seen' = [seen EXCEPT ![a] = saves]

-----------------------------------------------------------------------------
(* auth login.  The browser flow takes the first of a callback, a pasted   *)
(* address and the timeout; the device flow polls until it is approved; a  *)
(* token that is pasted needs no exchange and never expires.               *)
Login(a, p) == /\ a \in Shells /\ Begin(a, p, "asked")
               /\ UNCHANGED <<key, file, config, cred, store, server, told>>

Ways == {"code", "mismatch", "noCode", "pasted", "pastedNothing", "approved", "late", "key"}

Authorize(a) ==
  /\ stage[a] = "asked"
  /\ \E w \in Ways :
       /\ w \in {"key", "approved"} => prov[a] = "openai"
       /\ Go(a, IF w \in {"code", "pasted", "approved"} THEN "exchange"
                ELSE IF w = "key" THEN "set" ELSE "idle")
       /\ cred' = [cred EXCEPT ![a] = IF w = "key"
                     THEN [grant |-> 0, refresh |-> 0, project |-> FALSE,
                           due |-> FALSE, key |-> None]
                     ELSE None]
  /\ UNCHANGED <<key, file, config, prov, store, ops, seen, server, told>>

(* exchangeCodeForTokens; for Google the project is asked for at once.     *)
Exchange(a) ==
  /\ stage[a] = "exchange" /\ minted < MaxTokens
  /\ \/ /\ Go(a, "idle") /\ UNCHANGED <<cred, server>>
     \/ \E known \in BOOLEAN :
          /\ known => prov[a] = Google
          /\ minted' = minted + 1 /\ accepted' = accepted \cup {minted'}
          /\ owner' = Append(owner, minted')
          /\ cred' = [cred EXCEPT ![a] = [grant |-> minted', refresh |-> minted',
                                          project |-> known, due |-> FALSE, key |-> None]]
          /\ Go(a, "set")
  /\ UNCHANGED <<key, file, config, prov, store, ops, seen, told>>

(* auth logout of one provider loads the store; of all, it removes the     *)
(* file, and whoever is writing it writes to a file that has no name.      *)
Logout(a, p) == /\ a \in Shells /\ Begin(a, p, "set")
                /\ cred' = [cred EXCEPT ![a] = None]
                /\ UNCHANGED <<key, file, config, store, server, told>>
LogoutAll(a) ==
  /\ a \in Shells /\ stage[a] = "idle" /\ ops < MaxOps /\ ops' = ops + 1
  /\ file' = Absent /\ saves' = saves + 1
  /\ last' = [p \in Providers |-> None]
  /\ config' = [i \in DOMAIN config |-> [config[i] EXCEPT !.method = "none"]]
  /\ stage' = [b \in Actors |-> IF stage[b] = "writing" THEN "unlinked" ELSE stage[b]]
  /\ UNCHANGED <<key, prov, cred, store, seen, server, excused>>

-----------------------------------------------------------------------------
(* A token source, and `auth models`: GetCredential; an error ends the call. *)
GetCredential(a, p) ==
  /\ a \in Callers \/ p = Google
  /\ Begin(a, p, IF Readable /\ LoadStore(a)[p] # None THEN "got" ELSE "idle")
  /\ cred' = [cred EXCEPT ![a] = IF Readable THEN LoadStore(a)[p] ELSE None]
  /\ UNCHANGED <<key, file, config, store, server, told>>

(* What RefreshAccessToken makes of the answer: a credential that keeps    *)
(* what the answer leaves out.  (Faulty form: it does not.)                *)
AsAnswered(c, newToken) == [c EXCEPT !.refresh = newToken, !.due = FALSE]
Refreshed(c, newToken) ==
  [c EXCEPT !.refresh = IF newToken = 0 THEN @ ELSE newToken, !.due = FALSE]

(* The provider refuses, or answers with or without a new refresh token;   *)
(* an answer that is lost may have cost the old one.                       *)
Refresh(a) ==
  /\ stage[a] = "got" /\ cred[a].due /\ cred[a].refresh # 0
  /\ \/ /\ ~(cred[a].key = None /\ cred[a].refresh \in accepted)
        /\ Go(a, "idle") /\ UNCHANGED <<cred, server, excused>>
     \/ /\ cred[a].key = None /\ cred[a].refresh \in accepted
        /\ \/ /\ cred' = [cred EXCEPT ![a] = Refreshed(@, 0)] /\ Go(a, "renew")
              /\ UNCHANGED <<server, excused>>
           \/ /\ minted < MaxTokens
              /\ minted' = minted + 1 /\ owner' = Append(owner, cred[a].grant)
              /\ accepted' = (accepted \ {cred[a].refresh}) \cup {minted'}
              /\ \/ /\ cred' = [cred EXCEPT ![a] = Refreshed(@, minted')]
                    /\ Go(a, "renew") /\ UNCHANGED excused
                 \/ /\ excused' = TRUE /\ Go(a, "idle") /\ UNCHANGED cred
  /\ UNCHANGED <<key, file, config, prov, store, ops, seen, saves, last>>

(* A fresh credential is used as it is; Google's without a project asks    *)
(* for one and saves it, or goes on with a fixed one.                      *)
Use(a) ==
  /\ stage[a] = "got" /\ ~(cred[a].due /\ cred[a].refresh # 0)
  /\ \/ Go(a, "idle") /\ UNCHANGED cred
     \/ /\ a \in Callers /\ prov[a] = Google /\ ~cred[a].project
        /\ cred' = [cred EXCEPT ![a].project = TRUE] /\ Go(a, "renew")
  /\ UNCHANGED <<key, file, config, prov, store, ops, seen, server, told>>

(* SetCredential and DeleteCredential load the whole store again. *)
Load(a) ==
  /\ stage[a] \in {"set", "renew"}
  /\ seen' = [seen EXCEPT ![a] = IF stage[a] = "renew" THEN @ ELSE saves]
  /\ Go(a, IF Readable THEN "loaded" ELSE "idle")
  /\ store' = [store EXCEPT ![a] = IF Readable
                 THEN [LoadStore(a) EXCEPT ![prov[a]] = cred[a]] ELSE None]
  /\ excused' = (excused \/ ~Readable)
  /\ UNCHANGED <<key, file, config, prov, cred, ops, server, saves, last>>

(* SaveStore: os.WriteFile truncates the file, then fills it. *)
TruncateStore(a) ==
  /\ stage[a] = "loaded" /\ file' = Torn /\ Go(a, "writing")
  /\ excused' = (excused \/ seen[a] # saves \/ file = Torn)
  /\ saves' = saves + 1
  /\ UNCHANGED <<key, config, prov, cred, store, ops, seen, server, last>>

(* A login then records in the configuration which models use it: the      *)
(* first of the provider's, or one it adds; a logout clears them all.      *)
Models(p) == {i \in DOMAIN config : config[i].of = p}
Recorded(a) ==
  LET p == prov[a] IN
  IF cred[a] = None
  THEN [i \in DOMAIN config |-> IF i \in Models(p) THEN [config[i] EXCEPT !.method = "none"]
                                ELSE config[i]]
  ELSE IF Models(p) = {} THEN Append(config, [of |-> p, method |-> "auth"])
  ELSE LET first == CHOOSE i \in Models(p) : \A j \in Models(p) : i <= j
       IN [config EXCEPT ![first].method = "auth"]

Write(a) ==
  /\ stage[a] \in {"writing", "unlinked"} /\ Go(a, "idle")
  /\ IF stage[a] = "unlinked" THEN UNCHANGED <<file, last>>
     ELSE /\ file' = [p \in Providers |-> Seal(store[a][p], key[a])]
          /\ last' = [last EXCEPT ![prov[a]] = IF cred[a] = None THEN None ELSE cred[a].grant]
  /\ config' = IF a \in Shells THEN Recorded(a) ELSE config
  /\ UNCHANGED <<key, prov, cred, store, ops, seen, server, saves, excused>>

(* The process of an actor is killed. *)
Kill(a) == /\ stage[a] # "idle" /\ Go(a, "idle")
           /\ excused' = (excused \/ stage[a] \in {"renew", "loaded", "writing"})
           /\ UNCHANGED <<key, file, config, prov, cred, store, ops, seen, server, saves, last>>

(* An access token comes within five minutes of its end. *)
Expire(p) ==
  /\ file \notin {Absent, Torn} /\ file[p] # None
  /\ file[p].grant # 0 /\ ~file[p].due
  /\ file' = [file EXCEPT ![p].due = TRUE]
  /\ UNCHANGED <<key, config, inHands, ops, seen, server, told>>

CredNext ==
  \/ \E a \in Actors, p \in Providers : Login(a, p) \/ Logout(a, p) \/ GetCredential(a, p)
  \/ \E a \in Actors : \/ Authorize(a) \/ Exchange(a) \/ LogoutAll(a) \/ Refresh(a)
                       \/ Use(a) \/ Load(a) \/ TruncateStore(a) \/ Write(a) \/ Kill(a)
  \/ \E p \in Providers : Expire(p)

CredSpec == CredInit /\ [][CredNext]_credVars

-----------------------------------------------------------------------------
(* As long as no operation overlapped another one's saving and no answer   *)
(* was lost, the store holds for every provider the grant its last login   *)
(* gave, with a refresh token the provider still takes, and no other; no   *)
(* refresh and no other provider's login takes it away (store.go:131).     *)
StillRefreshes ==
  ~excused /\ file # Torn =>
    \A p \in Providers :
      LET c == IF file = Absent THEN None ELSE file[p] IN
      /\ (c = None) <=> (last[p] = None)
      /\ c # None /\ c.grant # 0 =>
           /\ c.refresh # 0 /\ c.grant = last[p] /\ owner[c.refresh] = c.grant
           /\ c.refresh \in accepted
              \/ \E a \in Actors : stage[a] \in {"renew", "loaded", "writing"}
=============================================================================
