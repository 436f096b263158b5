--------------------------- MODULE Lookups_proofs ---------------------------
(***************************************************************************)
(* What is kept under a name and looked up again: the login of a provider, *)
(* the key of a model, the agent of a message, the result of a search.     *)
(*                                                                         *)
(* Credentials: the store keeps every provider's last login and a refresh  *)
(* token that is still accepted, as long as no operation overlaps another  *)
(* one's saving and no answer is lost.  An actor whose copy of the store   *)
(* is stale will overlap when it saves, so as long as nobody who waits to  *)
(* save is stale, every token in somebody's hands is the file's or one     *)
(* that nobody else has.                                                   *)
(*                                                                         *)
(* Configuration, routing and the cache: lists are filtered and sorted by  *)
(* the ranks of their entries.  That ranks are handed out without a gap,   *)
(* and in order, is shown once (RanksGrow, EveryRank, RanksInOrder) from   *)
(* the cardinalities of finite sets.                                       *)
(***************************************************************************)
EXTENDS Config, Routing, SkillSearch, Credentials, FiniteSetTheorems, SequenceTheorems,
        WellFoundedInduction, TLAPS

(* A set of numbers has a least one. *)
LEMMA LeastNumber ==
  ASSUME NEW S, S \subseteq Nat, NEW n \in S
  PROVE  \E m \in S : \A k \in S : m <= k
<1>1. PICK m \in S : \A k \in S : ~ (<<k, m>> \in OpToRel(<, Nat))
  BY NatLessThanWellFounded, WFMin
<1>2. \A k \in S : ~ (k < m)
  BY <1>1 DEF OpToRel
<1> QED
  BY <1>2

(* In a finite set that R orders the ranks grow, and every rank is         *)
(* somebody's.                                                             *)
NotAbove(S, R, i) == {j \in S : <<j, i>> \in R}

Orders(R, S) ==
  /\ \A i \in S : <<i, i>> \in R
  /\ \A i, j \in S : i # j => (<<i, j>> \in R <=> <<j, i>> \notin R)
  /\ \A i, j, k \in S : <<i, j>> \in R /\ <<j, k>> \in R => <<i, k>> \in R

LEMMA RanksGrow ==
  ASSUME NEW S, IsFiniteSet(S), NEW R, Orders(R, S)
  PROVE  /\ \A i \in S : Cardinality(NotAbove(S, R, i)) \in 1 .. Cardinality(S)
         /\ \A i, j \in S : i # j /\ <<i, j>> \in R =>
              Cardinality(NotAbove(S, R, i)) < Cardinality(NotAbove(S, R, j))
<1> USE DEF NotAbove, Orders
<1> DEFINE Upto(i) == {j \in S : <<j, i>> \in R}
           n == Cardinality(S)
<1>1. n \in Nat BY FS_CardinalityType
<1>2. ASSUME NEW i \in S
      PROVE  IsFiniteSet(Upto(i)) /\ Cardinality(Upto(i)) \in 1 .. n
  <2>1. IsFiniteSet(Upto(i)) /\ Cardinality(Upto(i)) <= n BY FS_Subset
  <2>2. Cardinality(Upto(i)) \in Nat BY <2>1, FS_CardinalityType
  <2>3. Upto(i) # {} OBVIOUS
  <2>4. Cardinality(Upto(i)) # 0 BY <2>1, <2>3, FS_EmptySet
  <2> QED BY <1>1, <2>1, <2>2, <2>4
<1>3. ASSUME NEW i \in S, NEW j \in S, i # j, <<i, j>> \in R
      PROVE  Cardinality(Upto(i)) < Cardinality(Upto(j))
  <2>1. Upto(i) \in SUBSET Upto(j) BY <1>3
  <2>2. j \in Upto(j) /\ j \notin Upto(i) BY <1>3
  <2>3. IsFiniteSet(Upto(j)) BY <1>2
  <2>4. /\ Cardinality(Upto(i)) <= Cardinality(Upto(j))
        /\ Cardinality(Upto(j)) = Cardinality(Upto(i)) => Upto(j) = Upto(i)
    BY ONLY <2>1, <2>3, FS_Subset
  <2>5. Cardinality(Upto(i)) \in Nat /\ Cardinality(Upto(j)) \in Nat BY <1>1, <1>2
  <2> QED BY <2>2, <2>4, <2>5
<1> QED BY <1>2, <1>3

LEMMA EveryRank ==
  ASSUME NEW S, IsFiniteSet(S), NEW R, Orders(R, S)
  PROVE  \A k \in 1 .. Cardinality(S) :
           \E i \in S : Cardinality(NotAbove(S, R, i)) = k
<1> DEFINE n == Cardinality(S)
           f == [i \in S |-> Cardinality(NotAbove(S, R, i))]
<1>1. n \in Nat BY FS_CardinalityType
<1>2. f \in Injection(S, 1 .. n)
  <2>1. f \in [S -> 1 .. n] BY RanksGrow
  <2>2. \A i, j \in S : i # j => f[i] < f[j] \/ f[j] < f[i] BY RanksGrow DEF Orders
  <2>3. \A i, j \in S : f[i] = f[j] => i = j BY <1>1, <2>1, <2>2
  <2> QED BY <2>1, <2>3 DEF Injection, IsInjective
<1>3. IsFiniteSet(1 .. n) /\ Cardinality(1 .. n) = n BY <1>1, FS_Interval
<1>4. f \in Surjection(S, 1 .. n) BY <1>2, <1>3, FS_Injection
<1>5. \A k \in 1 .. n : \E i \in S : f[i] = k BY <1>4 DEF Surjection
<1> QED BY <1>5

(* The member of a rank: the ranks go through the set, in its order. *)
OfRank(S, R, k) == CHOOSE i \in S : Cardinality(NotAbove(S, R, i)) = k

LEMMA RanksInOrder ==
  ASSUME NEW S, IsFiniteSet(S), NEW R, Orders(R, S)
  PROVE  /\ \A k \in 1 .. Cardinality(S) : OfRank(S, R, k) \in S
         /\ \A k, l \in 1 .. Cardinality(S) : k < l =>
              OfRank(S, R, k) # OfRank(S, R, l) /\ <<OfRank(S, R, k), OfRank(S, R, l)>> \in R
         /\ \A i \in S : \E k \in 1 .. Cardinality(S) : OfRank(S, R, k) = i
<1> DEFINE n == Cardinality(S)
           rank(i) == Cardinality(NotAbove(S, R, i))
           at(k) == OfRank(S, R, k)
<1>1. n \in Nat BY FS_CardinalityType
<1>2. \A i \in S : rank(i) \in 1 .. n BY RanksGrow
<1>3. \A i, j \in S : i # j /\ <<i, j>> \in R => rank(i) < rank(j) BY RanksGrow
<1>4. \A i, j \in S : i # j => <<i, j>> \in R \/ <<j, i>> \in R BY DEF Orders
<1>5. ASSUME NEW k \in 1 .. n PROVE at(k) \in S /\ rank(at(k)) = k
  <2>1. \E i \in S : rank(i) = k BY EveryRank
  <2> QED BY <2>1, Zenon DEF OfRank
<1> HIDE DEF rank, at
<1>6. ASSUME NEW k \in 1 .. n, NEW l \in 1 .. n, k < l
      PROVE  at(k) # at(l) /\ <<at(k), at(l)>> \in R
  <2>1. at(k) \in S /\ at(l) \in S /\ rank(at(k)) = k /\ rank(at(l)) = l BY <1>5
  <2>2. at(k) # at(l) BY <1>1, <1>6, <2>1
  <2>3. <<at(l), at(k)>> \in R => FALSE
    <3> SUFFICES ASSUME <<at(l), at(k)>> \in R PROVE FALSE OBVIOUS
    <3>1. rank(at(l)) < rank(at(k)) BY <1>3, <2>1, <2>2
    <3> QED BY <1>1, <1>6, <2>1, <3>1
  <2> QED BY <1>4, <2>1, <2>2, <2>3
<1>7. ASSUME NEW i \in S PROVE \E k \in 1 .. n : at(k) = i
  <2>1. rank(i) \in 1 .. n BY <1>2
  <2> DEFINE k == rank(i)
  <2>2. at(k) \in S /\ rank(at(k)) = rank(i) BY <1>5, <2>1
  <2>3. at(k) # i => rank(at(k)) < rank(i) \/ rank(i) < rank(at(k)) BY <1>3, <1>4, <2>2
  <2>4. at(k) = i BY <1>1, <2>1, <2>2, <2>3
  <2> QED BY <2>1, <2>4
<1> QED BY <1>5, <1>6, <1>7 DEF at

(* The k-th of a set of places in a list. *)
Upto(S, i) == {j \in S : j <= i}
PlaceOf(S, k) == CHOOSE i \in S : Cardinality(Upto(S, i)) = k

LEMMA PlacesInOrder ==
  ASSUME NEW n \in Nat, NEW S, S \subseteq 1 .. n
  PROVE  /\ IsFiniteSet(S) /\ Cardinality(S) \in Nat /\ Cardinality(S) <= n
         /\ \A k \in 1 .. Cardinality(S) :
              PlaceOf(S, k) \in S /\ \E i \in S : Cardinality(Upto(S, i)) = k
         /\ \A k, l \in 1 .. Cardinality(S) : k < l => PlaceOf(S, k) < PlaceOf(S, l)
         /\ \A i \in S : \E k \in 1 .. Cardinality(S) : PlaceOf(S, k) = i
<1> DEFINE R == {x \in S \X S : x[1] <= x[2]}
<1>1. IsFiniteSet(1 .. n) /\ Cardinality(1 .. n) = n BY FS_Interval
<1>2. IsFiniteSet(S) /\ Cardinality(S) <= n
  <2>1. S \in SUBSET (1 .. n) OBVIOUS
  <2> QED BY <1>1, <2>1, FS_Subset
<1>3. Cardinality(S) \in Nat BY <1>2, FS_CardinalityType
<1>4. Orders(R, S)
  <2>1. \A i \in S : <<i, i>> \in R OBVIOUS
  <2>2. \A i, j \in S : i # j => (<<i, j>> \in R <=> <<j, i>> \notin R) OBVIOUS
  <2>3. \A i, j, k \in S : <<i, j>> \in R /\ <<j, k>> \in R => <<i, k>> \in R OBVIOUS
  <2> QED BY <2>1, <2>2, <2>3 DEF Orders
<1>5. \A i \in S : NotAbove(S, R, i) = Upto(S, i) BY DEF NotAbove, Upto
<1>6. \A i, j \in S : <<i, j>> \in R => i <= j OBVIOUS
<1> HIDE DEF R
<1>7. \A k : PlaceOf(S, k) = OfRank(S, R, k)
  <2> SUFFICES ASSUME NEW k PROVE PlaceOf(S, k) = OfRank(S, R, k) OBVIOUS
  <2>1. \A i \in S : Cardinality(Upto(S, i)) = k <=> Cardinality(NotAbove(S, R, i)) = k
    BY <1>5
  <2> QED BY <2>1, Zenon DEF PlaceOf, OfRank
<1>8. /\ \A k \in 1 .. Cardinality(S) : OfRank(S, R, k) \in S
      /\ \A k, l \in 1 .. Cardinality(S) : k < l =>
           OfRank(S, R, k) # OfRank(S, R, l) /\ <<OfRank(S, R, k), OfRank(S, R, l)>> \in R
      /\ \A i \in S : \E k \in 1 .. Cardinality(S) : OfRank(S, R, k) = i
  BY ONLY <1>2, <1>4, RanksInOrder
<1>9. ASSUME NEW k \in 1 .. Cardinality(S) PROVE \E i \in S : Cardinality(Upto(S, i)) = k
  <2>1. PICK i \in S : Cardinality(NotAbove(S, R, i)) = k BY ONLY <1>2, <1>4, <1>9, EveryRank
  <2> QED BY <1>5, <2>1
<1>10. ASSUME NEW k \in 1 .. Cardinality(S), NEW l \in 1 .. Cardinality(S), k < l
       PROVE  PlaceOf(S, k) < PlaceOf(S, l)
  <2>1. OfRank(S, R, k) \in S /\ OfRank(S, R, l) \in S /\ OfRank(S, R, k) # OfRank(S, R, l)
        /\ OfRank(S, R, k) <= OfRank(S, R, l)
    BY <1>6, <1>8, <1>10
  <2>2. OfRank(S, R, k) \in 1 .. n /\ OfRank(S, R, l) \in 1 .. n BY <2>1
  <2> QED BY <1>7, <2>1, <2>2
<1> QED BY <1>2, <1>3, <1>7, <1>8, <1>9, <1>10

-----------------------------------------------------------------------------
(* Configurations *)

LEMMA PlacesTaken ==
  ASSUME NEW c
  PROVE  /\ IsFiniteSet(HaveKeys(c)) /\ Cardinality(HaveKeys(c)) \in Nat
         /\ HaveKeys(c) \subseteq DOMAIN ProviderOrder
         /\ \A k \in 1 .. Cardinality(HaveKeys(c)) :
              \E i \in HaveKeys(c) : Place(HaveKeys(c), i) = k
<1> DEFINE S == HaveKeys(c)
<1>1. S \subseteq 1 .. Len(ProviderOrder) /\ Len(ProviderOrder) \in Nat
  BY ConfigAssumption DEF HaveKeys
<1>2. \A i : Place(S, i) = Cardinality(Upto(S, i)) BY DEF Place, Upto
<1>3. S \subseteq DOMAIN ProviderOrder BY DEF HaveKeys
<1> HIDE DEF S
<1> QED BY <1>1, <1>2, <1>3, PlacesInOrder DEF S

(* A configuration has the fields of one. *)
LEMMA ConfigFields ==
  ASSUME NEW list, NEW keys, NEW provider, NEW model
  PROVE  LET c == Config(list, keys, provider, model) IN
         /\ c.is = "config" /\ c.list = list /\ c.keys = keys
         /\ c.provider = provider /\ c.model = model
         /\ \A l : [c EXCEPT !.list = l] = Config(l, keys, provider, model)
         /\ \A m : [c EXCEPT !.model = m] = Config(list, keys, provider, m)
         /\ \A k : [c EXCEPT !.keys = k] = Config(list, k, provider, model)
BY DEF Config

LEMMA ListedFields ==
  ASSUME NEW l
  PROVE  Listed(l)[2] = l /\ Listed(l) # NoList
BY DEF Listed, NoList

(* What the file holds, and what the last start was of. *)
ConfInv ==
  /\ conf = NoConfig \/ conf = TornConfig \/ IsConfig(conf)
  /\ started.of = NoConfig \/ started.of = TornConfig \/ IsConfig(started.of)

LEMMA EntriesConverted ==
  ASSUME NEW c
  PROVE  IsModelList(ConvertProvidersToModelList(c))
         /\ Len(ConvertProvidersToModelList(c)) = Cardinality(HaveKeys(c))
<1> DEFINE n == Cardinality(HaveKeys(c))
           l == ConvertProvidersToModelList(c)
<1>1. n \in Nat BY PlacesTaken
<1>2. l = [i \in 1 .. n |-> Converted(c, i)] BY DEF ConvertProvidersToModelList, WithKeys
<1>3. \A i \in 1 .. n : IsEntry(Converted(c, i)) BY DEF Converted, IsEntry
<1>4. Len(l) = n /\ DOMAIN l = 1 .. n BY <1>1, <1>2
<1> QED BY <1>1, <1>2, <1>3, <1>4 DEF IsModelList

LEMMA LoadedIsConfig ==
  ASSUME IsConfig(conf), conf # NoConfig
  PROVE  LET l == List(conf) IN
         /\ LoadConfig = Config(Listed(l), conf.keys, conf.provider, conf.model)
         /\ IsModelList(l)
         /\ conf.list # NoList /\ conf.list[2] # <<>> => l = conf.list[2]
<1>1. LoadConfig = [conf EXCEPT !.list = Listed(List(conf))] BY DEF LoadConfig
<1>2. conf = Config(conf.list, conf.keys, conf.provider, conf.model) BY DEF IsConfig
<1>3. LoadConfig = Config(Listed(List(conf)), conf.keys, conf.provider, conf.model)
  BY <1>1, <1>2, ConfigFields
<1>4. IsModelList(List(conf)) BY EntriesConverted, ConfigAssumption DEF IsConfig, List
<1> QED BY <1>3, <1>4 DEF List

LEMMA EntryWithAuth ==
  ASSUME NEW e, IsEntry(e), NEW how
  PROVE  LET x == [e EXCEPT !.auth = how] IN IsEntry(x) /\ x.key = e.key
<1> DEFINE x == [e EXCEPT !.auth = how]
<1>1. e = [name |-> e.name, model |-> e.model, key |-> e.key, base |-> e.base, auth |-> e.auth]
  BY DEF IsEntry
<1>2. x = [name |-> e.name, model |-> e.model, key |-> e.key, base |-> e.base, auth |-> how]
  BY <1>1
<1>3. x.name = e.name /\ x.model = e.model /\ x.key = e.key /\ x.base = e.base /\ x.auth = how
  BY <1>2
<1> QED BY <1>2, <1>3 DEF IsEntry

(* A list keeps its keys when a login or a logout changes it. *)
LEMMA LoginKeepsKeys ==
  ASSUME NEW l, IsModelList(l), NEW p, NEW how
  PROVE  LET m == WithLogin(l, p, how) IN
         IsModelList(m) /\ {l[i].key : i \in DOMAIN l} \subseteq {m[i].key : i \in DOMAIN m}
<1> DEFINE of == {i \in DOMAIN l : l[i].model[1] = p}
           m == WithLogin(l, p, how)
           e == [name |-> LoginModel[p], model |-> <<p, LoginModel[p]>>,
                 key |-> "", base |-> FALSE, auth |-> how]
<1>1. Len(l) \in Nat /\ DOMAIN l = 1 .. Len(l) /\ \A i \in DOMAIN l : IsEntry(l[i])
  BY DEF IsModelList
<1>2. CASE of = {}
  <2>1. m = Append(l, e) BY <1>2 DEF WithLogin
  <2>2. l \in Seq({l[i] : i \in DOMAIN l}) BY <1>1 DEF IsModelList
  <2>4. IsEntry(e) BY DEF IsEntry
  <2> HIDE DEF e, m
  <2>3. Len(m) = Len(l) + 1 /\ DOMAIN m = 1 .. Len(l) + 1
        /\ m[Len(l) + 1] = e /\ (\A i \in 1 .. Len(l) : m[i] = l[i])
    <3> DEFINE T == {l[i] : i \in DOMAIN l} \cup {e}
    <3>1. l \in Seq(T) /\ e \in T BY <1>1, <2>2
    <3> HIDE DEF T
    <3>2. m \in Seq(T) BY <2>1, <3>1
    <3> QED BY <1>1, <2>1, <3>1, <3>2, AppendProperties
  <2>5. \A i \in DOMAIN m : IsEntry(m[i]) BY <1>1, <2>3, <2>4
  <2>6. m = [i \in 1 .. Len(m) |-> m[i]]
    <3>1. m = Append(l, e) /\ l \in Seq({l[i] : i \in DOMAIN l} \cup {e})
      BY <2>1, <2>2
    <3>2. m \in Seq({l[i] : i \in DOMAIN l} \cup {e}) BY <3>1
    <3> QED BY <3>2, <2>3
  <2> QED BY <1>1, <2>3, <2>5, <2>6 DEF IsModelList, m
<1>3. CASE of # {}
  <2>1. m = [i \in DOMAIN l |-> IF i \in of /\ \A j \in of : i <= j
                               THEN [l[i] EXCEPT !.auth = how] ELSE l[i]]
    BY <1>3 DEF WithLogin
  <2>2. \A i \in DOMAIN l : LET x == [l[i] EXCEPT !.auth = how] IN IsEntry(x) /\ x.key = l[i].key
    BY <1>1, EntryWithAuth
  <2> HIDE DEF m, of
  <2>3. Len(m) = Len(l) /\ DOMAIN m = DOMAIN l BY <1>1, <2>1
  <2>4. \A i \in DOMAIN l : IsEntry(m[i]) /\ m[i].key = l[i].key BY <1>1, <2>1, <2>2
  <2>5. m = [i \in 1 .. Len(m) |-> m[i]] BY <1>1, <2>1, <2>3
  <2> QED BY <1>1, <2>3, <2>4, <2>5 DEF IsModelList, m
<1> QED BY <1>2, <1>3

LoggedOut(l, p) ==
  [i \in DOMAIN l |-> IF l[i].model[1] = p THEN [l[i] EXCEPT !.auth = ""] ELSE l[i]]

LEMMA LogoutKeepsKeys ==
  ASSUME NEW l, IsModelList(l), NEW p
  PROVE  LET m == LoggedOut(l, p)
         IN IsModelList(m) /\ {l[i].key : i \in DOMAIN l} \subseteq {m[i].key : i \in DOMAIN m}
<1> USE DEF LoggedOut
<1> DEFINE m == LoggedOut(l, p)
<1>1. Len(l) \in Nat /\ DOMAIN l = 1 .. Len(l) /\ \A i \in DOMAIN l : IsEntry(l[i])
  BY DEF IsModelList
<1>2. \A i \in DOMAIN l : LET x == [l[i] EXCEPT !.auth = ""] IN IsEntry(x) /\ x.key = l[i].key
  BY <1>1, EntryWithAuth
<1>3. Len(m) = Len(l) /\ DOMAIN m = DOMAIN l BY <1>1
<1>4. \A i \in DOMAIN l : IsEntry(m[i]) /\ m[i].key = l[i].key BY <1>1, <1>2
<1>5. m = [i \in 1 .. Len(m) |-> m[i]] BY <1>1, <1>3
<1> HIDE DEF m
<1>6. IsModelList(m) BY <1>1, <1>3, <1>4, <1>5 DEF IsModelList
<1>7. {l[i].key : i \in DOMAIN l} \subseteq {m[i].key : i \in DOMAIN m} BY <1>3, <1>4
<1> QED BY <1>6, <1>7 DEF m

(* What a command may save. *)
Saves(c) ==
  /\ IsConfig(c)
  /\ conf.is = "config" /\ c # DefaultConfig => KeysOf(conf) \subseteq KeysOf(c)

LEMMA OtherFiles ==
  /\ NoConfig.is # "config" /\ TornConfig.is # "config" /\ IsConfig(DefaultConfig)
  /\ conf.is = "config" => conf # NoConfig /\ conf # TornConfig
BY ConfigAssumption, ListedFields DEF NoConfig, TornConfig, DefaultConfig, IsConfig, Config

(* The keys of a configuration that is loaded, changed in its list, and    *)
(* saved, are those of the file and more.                                  *)
LEMMA KeysLoaded ==
  ASSUME IsConfig(conf), conf.is = "config", NEW l, NEW m, IsModelList(l),
         {List(conf)[i].key : i \in DOMAIN List(conf)} \subseteq {l[i].key : i \in DOMAIN l}
  PROVE  /\ Saves(Config(Listed(l), conf.keys, conf.provider, m))
         /\ KeysOf(conf) \subseteq KeysOf(Config(Listed(l), conf.keys, conf.provider, m))
<1> DEFINE c == Config(Listed(l), conf.keys, conf.provider, m)
<1>1. conf # NoConfig BY OtherFiles
<1>2. c.list = Listed(l) /\ c.list[2] = l /\ c.keys = conf.keys /\ c.list # NoList
      /\ c.provider = conf.provider /\ c.model = m
  BY ConfigFields, ListedFields
<1> HIDE DEF c
<1> DEFINE own == {conf.keys[p] : p \in ProviderNames}
           listed == {l[i].key : i \in DOMAIN l}
<1>3. KeysOf(conf) \subseteq KeysOf(c)
  <2>0. KeysOf(c) = (own \cup listed) \ {""} BY <1>2 DEF KeysOf
  <2>1. CASE conf.list = NoList
    <3>1. KeysOf(conf) = own \ {""} BY <2>1 DEF KeysOf
    <3> QED BY <2>0, <3>1
  <2>2. CASE conf.list # NoList
    <3> DEFINE was == {conf.list[2][i].key : i \in DOMAIN conf.list[2]}
    <3>1. KeysOf(conf) = (own \cup was) \ {""} BY <2>2 DEF KeysOf
    <3>2. was \subseteq listed
      <4>1. CASE conf.list[2] = <<>> BY <4>1
      <4>2. CASE conf.list[2] # <<>> BY <1>1, <2>2, <4>2, LoadedIsConfig
      <4> QED BY <4>1, <4>2
    <3> QED BY <2>0, <3>1, <3>2
  <2> QED BY <2>1, <2>2
<1>4. c = Config(c.list, c.keys, c.provider, c.model) BY <1>2 DEF c
<1>5. IsConfig(c) BY <1>2, <1>4 DEF IsConfig
<1> QED BY <1>3, <1>5 DEF Saves, c

LEMMA CommandsSave ==
  ASSUME ConfInv, ConfigNext, ~CreateProvider
  PROVE  UNCHANGED started /\ \E c : Saves(c) /\ conf' \in {c, TornConfig}
<1>1. CASE Onboard
  <2>1. Saves(DefaultConfig) BY OtherFiles DEF Saves
  <2> QED BY <1>1, <2>1 DEF Onboard, SaveConfig
<1>l. ASSUME Loads, conf # NoConfig
      PROVE  /\ IsConfig(conf) /\ conf.is = "config" /\ IsModelList(List(conf))
             /\ LoadConfig = Config(Listed(List(conf)), conf.keys, conf.provider, conf.model)
  <2>1. IsConfig(conf) BY <1>l DEF ConfInv, Loads
  <2>2. conf.is = "config" BY <2>1, ConfigFields DEF IsConfig
  <2> QED BY <1>l, <2>1, <2>2, LoadedIsConfig
<1>d. ASSUME conf = NoConfig
      PROVE  \E k, q, m : LoadConfig = Config(Listed(DefaultList), k, q, m)
  BY <1>d DEF LoadConfig, DefaultConfig
<1>s. ASSUME NEW l, NEW k, NEW q, NEW m, IsModelList(l), conf = NoConfig
      PROVE  Saves(Config(Listed(l), k, q, m))
  <2>1. conf.is # "config" BY <1>s, OtherFiles
  <2>2. IsConfig(Config(Listed(l), k, q, m)) BY <1>s, ConfigFields, ListedFields DEF IsConfig
  <2> QED BY <2>1, <2>2 DEF Saves
<1>2. ASSUME NEW p \in DOMAIN LoginModel, NEW how, AuthLogin(p, how)
      PROVE  UNCHANGED started /\ \E c : Saves(c) /\ conf' \in {c, TornConfig}
  <2> DEFINE c == [LoadConfig EXCEPT !.list = Listed(WithLogin(@[2], p, how)), !.model = LoginModel[p]]
  <2>1. Loads /\ UNCHANGED started /\ conf' \in {c, TornConfig}
    BY <1>2 DEF AuthLogin, SaveConfig
  <2>2. ASSUME NEW l, NEW k, NEW q, NEW m, LoadConfig = Config(Listed(l), k, q, m)
        PROVE  c = Config(Listed(WithLogin(l, p, how)), k, q, LoginModel[p])
    <3>1. LoadConfig.list[2] = l BY <2>2, ConfigFields, ListedFields
    <3>2. c = [LoadConfig EXCEPT !.list = Listed(WithLogin(l, p, how)), !.model = LoginModel[p]]
      BY <3>1
    <3> HIDE DEF c
    <3> QED BY <2>2, <3>2 DEF Config
  <2> HIDE DEF c
  <2>3. CASE conf = NoConfig
    <3>1. PICK k, q, m : c = Config(Listed(WithLogin(DefaultList, p, how)), k, q, m)
      BY <1>d, <2>2, <2>3
    <3>2. IsModelList(WithLogin(DefaultList, p, how)) BY LoginKeepsKeys, ConfigAssumption
    <3>3. Saves(c) BY <1>s, <2>3, <3>1, <3>2
    <3> QED BY <2>1, <3>3
  <2>4. CASE conf # NoConfig
    <3>1. c = Config(Listed(WithLogin(List(conf), p, how)), conf.keys, conf.provider, LoginModel[p])
      BY <1>l, <2>1, <2>2, <2>4
    <3> DEFINE n == WithLogin(List(conf), p, how)
    <3>2. IsConfig(conf) /\ conf.is = "config" /\ IsModelList(List(conf)) BY <1>l, <2>1, <2>4
    <3>3. IsModelList(n)
          /\ {List(conf)[i].key : i \in DOMAIN List(conf)} \subseteq {n[i].key : i \in DOMAIN n}
      BY ONLY <3>2, LoginKeepsKeys
    <3> HIDE DEF n
    <3>4. \A x : Saves(Config(Listed(n), conf.keys, conf.provider, x)) BY ONLY <3>2, <3>3, KeysLoaded
    <3>5. c = Config(Listed(n), conf.keys, conf.provider, LoginModel[p]) BY <3>1 DEF n
    <3>6. Saves(c) BY <3>4, <3>5
    <3> QED BY <2>1, <3>6
  <2> QED BY <2>3, <2>4
<1>3. ASSUME NEW p \in DOMAIN LoginModel, AuthLogout(p)
      PROVE  UNCHANGED started /\ \E c : Saves(c) /\ conf' \in {c, TornConfig}
  <2> DEFINE c == [LoadConfig EXCEPT !.list = Listed(LoggedOut(@[2], p))]
  <2>1. Loads /\ UNCHANGED started /\ conf' \in {c, TornConfig}
    BY <1>3 DEF AuthLogout, SaveConfig, LoggedOut
  <2>2. ASSUME NEW l, NEW k, NEW q, NEW m, LoadConfig = Config(Listed(l), k, q, m)
        PROVE  c = Config(Listed(LoggedOut(l, p)), k, q, m)
    <3>1. LoadConfig.list[2] = l BY <2>2, ConfigFields, ListedFields
    <3>2. c = [LoadConfig EXCEPT !.list = Listed(LoggedOut(l, p))] BY <3>1
    <3> HIDE DEF c
    <3> QED BY <2>2, <3>2, ConfigFields
  <2> HIDE DEF c
  <2>3. CASE conf = NoConfig
    <3>1. PICK k, q, m : c = Config(Listed(LoggedOut(DefaultList, p)), k, q, m)
      BY <1>d, <2>2, <2>3
    <3>2. IsModelList(LoggedOut(DefaultList, p)) BY LogoutKeepsKeys, ConfigAssumption
    <3>3. Saves(c) BY <1>s, <2>3, <3>1, <3>2
    <3> QED BY <2>1, <3>3
  <2>4. CASE conf # NoConfig
    <3>1. c = Config(Listed(LoggedOut(List(conf), p)), conf.keys, conf.provider, conf.model)
      BY <1>l, <2>1, <2>2, <2>4
    <3>2. Saves(c) BY <1>l, <2>1, <2>4, <3>1, LogoutKeepsKeys, KeysLoaded
    <3> QED BY <2>1, <3>2
  <2> QED BY <2>3, <2>4
<1>4. ASSUME NEW f \in Foreign, executeConfigMigration(f)
      PROVE  UNCHANGED started /\ \E c : Saves(c) /\ conf' \in {c, TornConfig}
  <2> DEFINE k == [p \in ProviderNames |-> f.keys[p]]
             m == IF f.model = "" THEN DefaultModel ELSE f.model
  <2>1. Loads /\ UNCHANGED started
        /\ conf' \in {IF conf = NoConfig THEN ConvertConfig(f)
                      ELSE MergeConfig(LoadConfig, ConvertConfig(f)), TornConfig}
    BY <1>4 DEF executeConfigMigration, SaveConfig
  <2>2. ConvertConfig(f) = Config(Listed(DefaultList), k, "", m)
    <3>1. DefaultConfig = Config(Listed(DefaultList), [p \in ProviderNames |-> ""], "", DefaultModel)
      BY DEF DefaultConfig
    <3>2. DefaultConfig.model = DefaultModel BY DEF DefaultConfig, Config
    <3>3. ConvertConfig(f) = [DefaultConfig EXCEPT !.keys = k, !.model = m]
      BY <3>2 DEF ConvertConfig
    <3> HIDE DEF k, m
    <3> QED BY <3>1, <3>3 DEF Config
  <2>3. CASE conf = NoConfig
    <3>1. Saves(Config(Listed(DefaultList), k, "", m)) BY <1>s, <2>3, ConfigAssumption
    <3> QED BY <2>1, <2>2, <2>3, <3>1
  <2>4. CASE conf # NoConfig
    <3> DEFINE j == [p \in ProviderNames |-> Merged(conf.keys[p], k[p])]
               l == List(conf)
               c == Config(Listed(l), j, conf.provider, conf.model)
    <3>1. MergeConfig(LoadConfig, ConvertConfig(f)) = c
      <4>1. LoadConfig = Config(Listed(l), conf.keys, conf.provider, conf.model) BY <1>l, <2>1, <2>4
      <4> HIDE DEF k, l, m
      <4>2. ConvertConfig(f).keys = k
        <5>1. PICK q : ConvertConfig(f) = Config(Listed(DefaultList), k, q, m) BY <2>2
        <5> QED BY ONLY <5>1, ConfigFields
      <4>3. LoadConfig.keys = conf.keys BY <4>1, ConfigFields
      <4>4. MergeConfig(LoadConfig, ConvertConfig(f)) = [LoadConfig EXCEPT !.keys = j]
        BY <4>2, <4>3 DEF MergeConfig
      <4> HIDE DEF j
      <4> QED BY <4>1, <4>4, ConfigFields
    <3>2. KeysOf(conf) \subseteq KeysOf(Config(Listed(l), conf.keys, conf.provider, conf.model))
      BY <1>l, <2>1, <2>4, KeysLoaded
    <3> DEFINE b == Config(Listed(l), conf.keys, conf.provider, conf.model)
    <3>3. /\ b.list = Listed(l) /\ b.keys = conf.keys /\ c.list = Listed(l) /\ c.keys = j
          /\ c.provider = conf.provider /\ c.model = conf.model
      BY ConfigFields
    <3>4. {conf.keys[p] : p \in ProviderNames} \ {""} \subseteq {j[p] : p \in ProviderNames}
      BY DEF Merged
    <3>5. KeysOf(b) \subseteq KeysOf(c)
      <4>1. KeysOf(b) = ({conf.keys[p] : p \in ProviderNames} \cup {l[i].key : i \in DOMAIN l}) \ {""}
        <5> HIDE DEF l, j
        <5>1. b.list # NoList /\ b.list[2] = l BY <3>3, ListedFields
        <5>2. \A p \in ProviderNames : b.keys[p] = conf.keys[p] BY <3>3
        <5> HIDE DEF b
        <5> QED BY <5>1, <5>2 DEF KeysOf
      <4>2. KeysOf(c) = ({j[p] : p \in ProviderNames} \cup {l[i].key : i \in DOMAIN l}) \ {""}
        <5> HIDE DEF l, j
        <5>1. c.list # NoList /\ c.list[2] = l BY <3>3, ListedFields
        <5>2. \A p \in ProviderNames : c.keys[p] = j[p] BY <3>3
        <5> HIDE DEF c
        <5> QED BY <5>1, <5>2 DEF KeysOf
      <4> HIDE DEF b, c, j, l
      <4> QED BY <3>4, <4>1, <4>2
    <3>6. IsConfig(c) BY <1>l, <2>1, <2>4, <3>3, ListedFields DEF IsConfig
    <3>7. KeysOf(conf) \subseteq KeysOf(b)
      BY <3>2
    <3>8. Saves(c) BY <3>5, <3>6, <3>7 DEF Saves
    <3> QED BY <2>1, <2>4, <3>1, <3>8
  <2> QED BY <2>3, <2>4
<1> QED BY <1>1, <1>2, <1>3, <1>4 DEF ConfigNext

LEMMA ConfInvStays ==
  ASSUME ConfInv, [ConfigNext]_configVars
  PROVE  ConfInv'
<1>1. CASE UNCHANGED configVars BY <1>1 DEF ConfInv, configVars
<1>2. CASE CreateProvider
  <2>1. conf' = conf BY <1>2 DEF CreateProvider
  <2>2. started'.of = conf BY <1>2 DEF CreateProvider
  <2> QED BY <2>1, <2>2 DEF ConfInv
<1>3. CASE ConfigNext /\ ~CreateProvider
  <2>1. PICK c : Saves(c) /\ conf' \in {c, TornConfig} /\ UNCHANGED started
    BY <1>3, CommandsSave
  <2> QED BY <2>1 DEF ConfInv, Saves
<1> QED BY <1>1, <1>2, <1>3

LEMMA ConfigInvariant == ConfigSpec => []ConfInv
<1>1. ConfigInit => ConfInv
  <2> SUFFICES ASSUME ConfigInit PROVE ConfInv OBVIOUS
  <2>1. conf = NoConfig \/ IsConfig(conf) BY ConfigAssumption DEF ConfigInit
  <2>2. started.of = NoConfig BY DEF ConfigInit
  <2> QED BY <2>1, <2>2 DEF ConfInv
<1> QED BY <1>1, ConfInvStays, PTL DEF ConfigSpec

(* No command but onboard takes a key out of config.json: a login, a       *)
(* logout and a migration keep every key the file had, whatever it had,    *)
(* unless they die in the middle of writing it.                            *)
THEOREM CommandsKeepTheKeys == ConfigSpec => KeysStay
<1>1. ASSUME ConfInv, [ConfigNext]_configVars
      PROVE  [KeysKept]_configVars
  <2>1. CASE CreateProvider
    <3>1. conf' = conf BY <2>1 DEF CreateProvider
    <3> QED BY <3>1 DEF KeysKept, KeysOf
  <2>2. CASE ConfigNext /\ ~CreateProvider
    <3>1. PICK c : Saves(c) /\ conf' \in {c, TornConfig} BY <1>1, <2>2, CommandsSave
    <3> QED BY <3>1 DEF Saves, KeysKept, KeysOf
  <2> QED BY <1>1, <2>1, <2>2
<1> QED BY <1>1, ConfigInvariant, PTL DEF ConfigSpec, KeysStay

(* What a list that is made from the providers has for each of them. *)
LEMMA ProvidersInTurn ==
  ASSUME NEW c, NEW i \in DOMAIN WithKeys(c)
  PROVE  WithKeys(c)[i] \in ProviderNames /\ c.keys[WithKeys(c)[i]] # ""
<1> DEFINE S == HaveKeys(c)
<1>1. i \in 1 .. Cardinality(S) BY DEF WithKeys
<1>2. \E j \in S : Place(S, j) = i BY <1>1, PlacesTaken
<1> DEFINE j == CHOOSE x \in S : Place(S, x) = i
<1>3. j \in S BY <1>2
<1>4. WithKeys(c)[i] = ProviderOrder[j] BY <1>1 DEF WithKeys
<1>5. j \in DOMAIN ProviderOrder /\ c.keys[ProviderOrder[j]] # "" BY <1>3 DEF HaveKeys
<1> QED BY <1>4, <1>5 DEF ProviderNames

LEMMA EntryFields ==
  ASSUME NEW a, NEW m, NEW k, NEW b, NEW h, NEW e,
         e = [name |-> a, model |-> m, key |-> k, base |-> b, auth |-> h]
  PROVE  e.name = a /\ e.model = m /\ e.key = k
OBVIOUS

LEMMA EachConverted ==
  ASSUME NEW c, NEW i \in Nat
  PROVE  LET p == WithKeys(c)[i]
             e == Converted(c, i) IN
         /\ e.key = c.keys[p]
         /\ ~ToTheFirst(c, i) => e.name = p
         /\ ToTheFirst(c, i) /\ c.model # "" => e.name = c.model /\ e.model = <<p, c.model>>
<1> DEFINE p == WithKeys(c)[i]
           mine == c.provider \in Aliases[p] \/ ToTheFirst(c, i)
           a == IF ToTheFirst(c, i) /\ c.model # "" THEN c.model ELSE p
           m == IF mine /\ c.model # "" THEN buildModelWithProtocol(p, c.model) ELSE ModelOf[p]
           k == c.keys[p]
<1>1. Converted(c, i) = [name |-> a, model |-> m, key |-> k, base |-> FALSE, auth |-> ""]
  BY DEF Converted
<1>2. ~ToTheFirst(c, i) => a = p OBVIOUS
<1>3. ToTheFirst(c, i) /\ c.model # "" => a = c.model OBVIOUS
<1>4. ToTheFirst(c, i) /\ c.model # "" => m = <<p, c.model>> BY DEF buildModelWithProtocol
<1> HIDE DEF a, m, k
<1>5. /\ Converted(c, i).key = k /\ Converted(c, i).name = a /\ Converted(c, i).model = m
  <2>1. \E b, h : Converted(c, i) = [name |-> a, model |-> m, key |-> k, base |-> b, auth |-> h]
    BY <1>1
  <2> QED BY ONLY <2>1, EntryFields
<1> QED BY <1>2, <1>3, <1>4, <1>5 DEF k

FromProviders(c) ==
  /\ c.is = "config" /\ c.list = Listed(<<>>) /\ c.provider = ""
  /\ NamesAModel(c) /\ WithKeys(c) # <<>>

LEMMA StartOfTheFirst ==
  ASSUME ConfInv, CreateProvider, FromProviders(conf)
  PROVE  LET p == WithKeys(conf)[1] IN
         /\ started'.entry.is = "started"
         /\ started'.entry.key = conf.keys[p]
         /\ started'.entry.model = <<p, conf.model>>
<1> DEFINE n == Cardinality(HaveKeys(conf))
           l == ConvertProvidersToModelList(conf)
           p == WithKeys(conf)[1]
<1>1. IsConfig(conf) /\ conf # NoConfig BY OtherFiles DEF ConfInv, FromProviders
<1>2. n \in Nat /\ DOMAIN WithKeys(conf) = 1 .. n /\ n # 0
  <2>1. n \in Nat /\ DOMAIN WithKeys(conf) = 1 .. n BY PlacesTaken DEF WithKeys
  <2>2. n = 0 => WithKeys(conf) = <<>>
    <3> SUFFICES ASSUME n = 0 PROVE WithKeys(conf) = <<>> OBVIOUS
    <3> DEFINE w == WithKeys(conf)
    <3>1. w = [k \in 1 .. 0 |-> w[k]] BY DEF WithKeys
    <3> HIDE DEF w
    <3>2. w \in Seq({}) /\ Len(w) = 0 BY <3>1
    <3>3. w = <<>> BY <3>2, EmptySeq
    <3> QED BY <3>3 DEF w
  <2> QED BY <2>1, <2>2 DEF FromProviders
<1> HIDE DEF n, p
<1>3. List(conf) = l
  <2>1. conf.list[2] = <<>> /\ conf.list # NoList BY ListedFields DEF FromProviders
  <2> QED BY <2>1 DEF List
<1>4. LoadConfig.list[2] = l /\ LoadConfig.model = conf.model
  <2>1. LoadConfig = Config(Listed(l), conf.keys, conf.provider, conf.model)
    BY <1>1, <1>3, LoadedIsConfig
  <2> HIDE DEF l
  <2> QED BY <2>1, ConfigFields, ListedFields
<1>5. DOMAIN l = 1 .. n /\ \A i \in 1 .. n : l[i] = Converted(conf, i)
  BY <1>2 DEF ConvertProvidersToModelList
<1>6. p \in ProviderNames /\ conf.keys[p] # ""
  <2>1. 1 \in DOMAIN WithKeys(conf) BY <1>2
  <2> QED BY <2>1, ProvidersInTurn DEF p
<1>7. /\ l[1].name = conf.model /\ l[1].key = conf.keys[p]
      /\ l[1].model = <<p, conf.model>>
  <2>1. ToTheFirst(conf, 1) /\ conf.model # "" BY DEF ToTheFirst, NamesAModel, FromProviders
  <2>2. l[1] = Converted(conf, 1) BY <1>2, <1>5
  <2>3. p = WithKeys(conf)[1] BY DEF p
  <2> HIDE DEF l
  <2>4. /\ Converted(conf, 1).key = conf.keys[WithKeys(conf)[1]]
        /\ Converted(conf, 1).name = conf.model
        /\ Converted(conf, 1).model = <<WithKeys(conf)[1], conf.model>>
    <3>1. 1 \in Nat OBVIOUS
    <3> QED BY ONLY <2>1, <3>1, EachConverted, Zenon
  <2> QED BY ONLY <2>2, <2>3, <2>4
<1>8. ASSUME NEW i \in 2 .. n PROVE l[i].name # conf.model
  <2>1. l[i] = Converted(conf, i) /\ i # 1 /\ i \in DOMAIN WithKeys(conf) /\ i \in Nat
    BY <1>2, <1>5
  <2>2. ~ToTheFirst(conf, i) BY <2>1 DEF ToTheFirst
  <2> HIDE DEF l
  <2>3. l[i].name = WithKeys(conf)[i] BY ONLY <2>1, <2>2, EachConverted
  <2>4. WithKeys(conf)[i] \in ProviderNames BY ONLY <2>1, ProvidersInTurn
  <2> QED BY <2>3, <2>4 DEF NamesAModel, FromProviders
<1> HIDE DEF l
<1>9. Matches(LoadConfig) = {1}
  <2>1. Matches(LoadConfig) = {i \in DOMAIN l : l[i].name = conf.model} BY <1>4 DEF Matches
  <2> QED BY <1>2, <1>5, <1>7, <1>8, <2>1
<1>10. Usable(l[1]) BY <1>6, <1>7 DEF Usable
<1>11. started' = [of |-> conf, entry |-> Outcome("started", l[1])]
  <2>1. \E i \in Matches(LoadConfig) :
          started' = [of |-> conf,
                      entry |-> IF Usable(LoadConfig.list[2][i])
                                THEN Outcome("started", LoadConfig.list[2][i]) ELSE Failure]
    BY <1>9 DEF CreateProvider
  <2> QED BY <1>4, <1>9, <1>10, <2>1
<1>12. started'.entry = [is |-> "started", key |-> l[1].key, auth |-> l[1].auth,
                         model |-> l[1].model]
  BY <1>11 DEF Outcome
<1>13. /\ started'.entry.is = "started" /\ started'.entry.key = conf.keys[p]
       /\ started'.entry.model = <<p, conf.model>>
  BY <1>7, <1>12
<1> QED BY <1>13 DEF p

(* A configuration with an empty model list and no provider named starts   *)
(* on the first provider that has a key, with that key and the user's      *)
(* model, whichever the providers, their keys and the model's name are.    *)
THEOREM TheFirstProviderStarts == ConfigSpec => []StartsOnTheFirst
<1>1. ConfigInit => StartsOnTheFirst
  <2> SUFFICES ASSUME ConfigInit PROVE StartsOnTheFirst OBVIOUS
  <2>1. started.of = NoConfig BY DEF ConfigInit
  <2> QED BY <2>1, OtherFiles DEF StartsOnTheFirst
<1>2. ASSUME ConfInv, StartsOnTheFirst, [ConfigNext]_configVars
      PROVE  StartsOnTheFirst'
  <2>1. CASE CreateProvider
    <3>1. started'.of = conf BY <2>1 DEF CreateProvider
    <3> QED BY <1>2, <2>1, <3>1, StartOfTheFirst DEF StartsOnTheFirst, FromProviders
  <2>2. CASE ConfigNext /\ ~CreateProvider
    <3>1. started' = started BY <1>2, <2>2, CommandsSave
    <3> QED BY <1>2, <3>1 DEF StartsOnTheFirst
  <2>3. CASE UNCHANGED configVars BY <1>2, <2>3 DEF configVars, StartsOnTheFirst
  <2> QED BY <1>2, <2>1, <2>2, <2>3
<1> QED BY <1>1, <1>2, ConfigInvariant, PTL DEF ConfigSpec

-----------------------------------------------------------------------------
(* Routes *)

(* A configuration is read, never written. *)
LEMMA SameConfigSameRoutes ==
  ASSUME cfg' = cfg
  PROVE  /\ AgentIDs' = AgentIDs /\ resolveDefaultAgentID' = resolveDefaultAgentID
         /\ \A in : /\ ResolveRoute(in)' = ResolveRoute(in)
                    /\ \A id : /\ GetAgent(id)' = GetAgent(id)
                               /\ BuildAgentPeerSessionKey(id, in)' = BuildAgentPeerSessionKey(id, in)
<1>1. AgentIDs' = AgentIDs /\ Marked' = Marked BY DEF AgentIDs, Marked
<1>2. resolveDefaultAgentID' = resolveDefaultAgentID BY <1>1 DEF resolveDefaultAgentID
<1>3. \A id : GetAgent(id)' = GetAgent(id) BY <1>1 DEF GetAgent, GetDefaultAgent
<1>4. ASSUME NEW in PROVE ResolveRoute(in)' = ResolveRoute(in)
  <2>1. filterBindings(in)' = filterBindings(in) BY DEF filterBindings
  <2>2. Bound(in)' = Bound(in) BY <2>1 DEF Bound
  <2>3. FirstBound(in)' = FirstBound(in) BY <2>2, Zenon DEF FirstBound
  <2>4. \A id : pickAgentID(id)' = pickAgentID(id) BY <1>1, <1>2 DEF pickAgentID
  <2> QED BY <1>2, <2>2, <2>3, <2>4 DEF ResolveRoute
<1>5. ASSUME NEW in, NEW id
      PROVE  BuildAgentPeerSessionKey(id, in)' = BuildAgentPeerSessionKey(id, in)
  <2>1. Names(in)' = Names(in) BY DEF Names, resolveLinkedPeerID
  <2>2. Scoped' = Scoped BY DEF Scoped
  <2> QED BY <2>1, <2>2 DEF BuildAgentPeerSessionKey, DirectKey
<1> QED BY <1>1, <1>2, <1>3, <1>4, <1>5

(* What a round that was routed is. *)
Routed(h) == ~h.report /\ h.msg.key = <<>>
RouteInv ==
  /\ cfg \in Configs
  /\ \A h \in heard : Routed(h) =>
       /\ h.msg \in Messages
       /\ h.agent \in GetAgent(ResolveRoute(h.msg))
       /\ h.session \in BuildAgentPeerSessionKey(ResolveRoute(h.msg), h.msg)

LEMMA RouteInvariant == RoutingSpec => []RouteInv
<1>1. RoutingInit => RouteInv BY DEF RoutingInit, RouteInv
<1>2. ASSUME RouteInv, [RoutingNext]_routingVars PROVE RouteInv'
  <2>1. cfg' = cfg
    BY <1>2 DEF RoutingNext, routingVars, Route, Report, Spawn
  <2>2. ASSUME NEW h \in heard', Routed(h), h \notin heard
        PROVE  /\ h.msg \in Messages
               /\ h.agent \in GetAgent(ResolveRoute(h.msg))
               /\ h.session \in BuildAgentPeerSessionKey(ResolveRoute(h.msg), h.msg)
    <3>1. heard' # heard BY <2>2
    <3>2. CASE \E in \in Messages : Route(in)
      <4>1. PICK in \in Messages :
              Hear(in, GetAgent(ResolveRoute(in)), Sessions(in), FALSE)
        BY <3>2 DEF Route
      <4>2. PICK a \in GetAgent(ResolveRoute(in)), x \in Sessions(in) :
              h = [msg |-> in, agent |-> a, session |-> x, report |-> FALSE,
                   at |-> Cardinality(heard)]
        BY <4>1, <2>2 DEF Hear
      <4>3. h.msg = in /\ h.agent = a /\ h.session = x BY <4>2
      <4>4. in.key = <<>> BY <2>2, <4>3 DEF Routed
      <4>5. Sessions(in) = BuildAgentPeerSessionKey(ResolveRoute(in), in) BY <4>4 DEF Sessions
      <4> QED BY <4>2, <4>3, <4>5
    <3>3. ASSUME NEW g \in heard, Report(g) PROVE FALSE
      <4>1. PICK a : Hear(g.msg, {a}, {BuildAgentMainSessionKey(a)}, TRUE)
        BY <3>1, <3>3 DEF Report
      <4>2. \E b, x : h = [msg |-> g.msg, agent |-> b, session |-> x, report |-> TRUE,
                          at |-> Cardinality(heard)]
        BY <4>1, <2>2 DEF Hear
      <4>3. h.report = TRUE BY <4>2
      <4> QED BY <2>2, <4>3 DEF Routed
    <3>4. ASSUME NEW g, NEW t, Spawn(g, t) PROVE FALSE BY <3>1, <3>4 DEF Spawn
    <3> QED BY <1>2, <3>1, <3>2, <3>3, <3>4 DEF RoutingNext, routingVars
  <2>3. \A h \in heard' : Routed(h) =>
          /\ h.msg \in Messages
          /\ h.agent \in GetAgent(ResolveRoute(h.msg))
          /\ h.session \in BuildAgentPeerSessionKey(ResolveRoute(h.msg), h.msg)
    BY <1>2, <2>2 DEF RouteInv
  <2> QED BY <1>2, <2>1, <2>3, SameConfigSameRoutes DEF RouteInv, Routed
<1> QED BY <1>1, <1>2, PTL DEF RoutingSpec

(* The shapes of a session key. *)
Grouped(in) == in.peer # NoPeer /\ in.peer.kind # "direct"
LEMMA KeyShapes ==
  ASSUME NEW a, NEW in, NEW s \in BuildAgentPeerSessionKey(a, in)
  PROVE  /\ Grouped(in) => s = <<"agent", a, Low(in.channel), Low(in.peer.kind), Low(in.peer.id)>>
         /\ ~Grouped(in) /\ (in.peer = NoPeer \/ ~Scoped) => s = <<"agent", a, "main">>
         /\ ~Grouped(in) /\ in.peer # NoPeer /\ Scoped =>
              \E n \in Names(in) :
                \/ cfg.scope = "per-peer" /\ s = <<"agent", a, "direct", n>>
                \/ cfg.scope = "per-channel-peer" /\ s = <<"agent", a, Low(in.channel), "direct", n>>
                \/ /\ cfg.scope = "per-account-channel-peer"
                   /\ s = <<"agent", a, Low(in.channel), Account(in.account), "direct", n>>
<1>1. Grouped(in) => s = <<"agent", a, Low(in.channel), Low(in.peer.kind), Low(in.peer.id)>>
  BY DEF Grouped, BuildAgentPeerSessionKey
<1>2. ~Grouped(in) /\ (in.peer = NoPeer \/ ~Scoped) => s = <<"agent", a, "main">>
  BY DEF Grouped, BuildAgentPeerSessionKey, BuildAgentMainSessionKey
<1>3. ASSUME ~Grouped(in), in.peer # NoPeer, Scoped
      PROVE  \E n \in Names(in) :
                \/ cfg.scope = "per-peer" /\ s = <<"agent", a, "direct", n>>
                \/ cfg.scope = "per-channel-peer" /\ s = <<"agent", a, Low(in.channel), "direct", n>>
                \/ /\ cfg.scope = "per-account-channel-peer"
                   /\ s = <<"agent", a, Low(in.channel), Account(in.account), "direct", n>>
  <2>1. PICK n \in Names(in) : s = DirectKey(a, in, n)
    BY <1>3 DEF Grouped, BuildAgentPeerSessionKey
  <2> QED BY <1>3, <2>1 DEF Scoped, DirectKey
<1> QED BY <1>1, <1>2, <1>3

(* The first binding, on the most specific level. *)
LEMMA FirstIsBound ==
  ASSUME RouteInv, NEW in, Bound(in) # {}
  PROVE  /\ FirstBound(in) \in Bound(in)
         /\ \A y \in Bound(in) : NotAfter(FirstBound(in), y)
<1> DEFINE B == Bound(in)
           at == {x[1] : x \in B}
<1>1. B \subseteq (1 .. 6) \X Nat
  <2>1. IsList(cfg.bindings) BY RoutingAssumption DEF RouteInv
  <2>2. DOMAIN cfg.bindings \subseteq Nat BY <2>1 DEF IsList
  <2>3. filterBindings(in) \subseteq Nat BY <2>2 DEF filterBindings
  <2> QED BY <2>3 DEF Bound
<1> HIDE DEF B
<1>2. \E x \in B : \A y \in B : NotAfter(x, y)
  <2>1. at \subseteq Nat /\ at # {} BY <1>1 DEF B
  <2> HIDE DEF at
  <2>2. PICK l \in at : \A k \in at : l <= k
    <3>1. \E n : n \in at BY <2>1
    <3> QED BY <2>1, <3>1, LeastNumber
  <2> DEFINE on == {x[2] : x \in {y \in B : y[1] = l}}
  <2>3. on \subseteq Nat /\ on # {} BY <1>1, <2>2 DEF at
  <2> HIDE DEF on
  <2>4. PICK i \in on : \A k \in on : i <= k
    <3>1. \E n : n \in on BY <2>3
    <3> QED BY <2>3, <3>1, LeastNumber
  <2>5. PICK x \in B : x[1] = l /\ x[2] = i BY <2>4 DEF on
  <2>6. ASSUME NEW y \in B PROVE NotAfter(x, y)
    <3>1. y[1] \in at /\ (y[1] = l => y[2] \in on) BY DEF at, on
    <3>2. y[1] \in Nat /\ y[2] \in Nat /\ l \in Nat /\ i \in Nat BY <1>1, <2>1, <2>2, <2>3, <2>4
    <3>3. l <= y[1] /\ (y[1] = l => i <= y[2]) BY <2>2, <2>4, <3>1
    <3> QED BY <2>5, <3>2, <3>3 DEF NotAfter
  <2> QED BY <2>6
<1> QED BY <1>2, Zenon DEF FirstBound, B

LEMMA ListHead ==
  ASSUME NEW w, IsList(w), w # <<>>
  PROVE  1 \in DOMAIN w
<1>1. Len(w) \in Nat /\ DOMAIN w = 1 .. Len(w) BY DEF IsList
<1>2. ASSUME Len(w) = 0 PROVE FALSE
  <2>1. w = [k \in 1 .. 0 |-> w[k]] BY <1>2 DEF IsList
  <2>2. w \in Seq({}) /\ Len(w) = 0 BY <2>1
  <2> QED BY <2>2, EmptySeq
<1> QED BY <1>1, <1>2

LEMMA Defaults ==
  ASSUME RouteInv, cfg.agents # <<>>
  PROVE  resolveDefaultAgentID \in AgentIDs
<1>1. Len(cfg.agents) \in Nat /\ DOMAIN cfg.agents = 1 .. Len(cfg.agents)
  BY RoutingAssumption DEF RouteInv, IsList
<1>2. 1 \in DOMAIN cfg.agents
  <2>1. IsList(cfg.agents) BY RoutingAssumption DEF RouteInv
  <2> QED BY <2>1, ListHead
<1>3. CASE Marked = {}
  BY <1>2, <1>3 DEF resolveDefaultAgentID, AgentIDs
<1>4. CASE Marked # {}
  <2>1. Marked \subseteq Nat /\ Marked \subseteq DOMAIN cfg.agents BY <1>1 DEF Marked
  <2>2. \E i \in Marked : \A j \in Marked : i <= j
    <3>1. \E n : n \in Marked BY <1>4
    <3> QED BY <2>1, <3>1, LeastNumber
  <2> DEFINE i == CHOOSE i \in Marked : \A j \in Marked : i <= j
  <2>3. i \in Marked BY <2>2
  <2>4. resolveDefaultAgentID = Low(cfg.agents[i].id) BY <1>4 DEF resolveDefaultAgentID
  <2> HIDE DEF i
  <2> QED BY <2>1, <2>3, <2>4 DEF AgentIDs
<1> QED BY <1>3, <1>4

(* What the route of a message is. *)
LEMMA Resolved ==
  ASSUME RouteInv, NEW in
  PROVE  LET bs == cfg.bindings
             of == filterBindings(in)
             mine == {i \in of : PeerMatch(bs[i], in.peer)}
             to == ResolveRoute(in) IN
         /\ mine # {} => \E i \in mine : pickAgentID(bs[i].agent) = to
         /\ to # resolveDefaultAgentID =>
              \E i \in of : /\ pickAgentID(bs[i].agent) = to
                            /\ NamesNobody(bs[i]) \/ \E l \in 1..4 : MatchesOn(l, bs[i], in)
         /\ cfg.agents # <<>> => to \in AgentIDs
<1> DEFINE bs == cfg.bindings
           of == filterBindings(in)
           mine == {i \in of : PeerMatch(bs[i], in.peer)}
           to == ResolveRoute(in)
           x == FirstBound(in)
<1>1. ASSUME Bound(in) # {}
      PROVE  /\ x[1] \in 1 .. 6 /\ x[2] \in of /\ MatchesOn(x[1], bs[x[2]], in)
             /\ \A y \in Bound(in) : NotAfter(x, y)
             /\ to = pickAgentID(bs[x[2]].agent)
  <2>1. x \in Bound(in) /\ \A y \in Bound(in) : NotAfter(x, y) BY <1>1, FirstIsBound
  <2> HIDE DEF x
  <2>2. x[1] \in 1 .. 6 /\ x[2] \in of /\ MatchesOn(x[1], bs[x[2]], in) BY <2>1 DEF Bound
  <2> QED BY <1>1, <2>1, <2>2 DEF ResolveRoute, x
<1>2. mine # {} => \E i \in mine : pickAgentID(bs[i].agent) = to
  <2> SUFFICES ASSUME NEW i \in mine PROVE \E j \in mine : pickAgentID(bs[j].agent) = to
    OBVIOUS
  <2>1. <<1, i>> \in Bound(in)
    <3> DEFINE y == <<1, i>>
    <3>1. y \in (1 .. 6) \X of /\ y[1] = 1 /\ y[2] = i OBVIOUS
    <3> HIDE DEF y
    <3>2. MatchesOn(y[1], bs[y[2]], in) BY <3>1 DEF MatchesOn
    <3>3. y \in Bound(in) BY <3>1, <3>2 DEF Bound
    <3> QED BY <3>3 DEF y
  <2>2. NotAfter(x, <<1, i>>) BY <1>1, <2>1
  <2>3. x[1] = 1 BY <1>1, <2>1, <2>2 DEF NotAfter
  <2>4. x[2] \in mine BY <1>1, <2>1, <2>3 DEF MatchesOn
  <2> QED BY <1>1, <2>1, <2>4
<1>3. to # resolveDefaultAgentID =>
        \E i \in of : /\ pickAgentID(bs[i].agent) = to
                      /\ NamesNobody(bs[i]) \/ \E l \in 1..4 : MatchesOn(l, bs[i], in)
  <2> SUFFICES ASSUME to # resolveDefaultAgentID
               PROVE  NamesNobody(bs[x[2]]) \/ \E l \in 1..4 : MatchesOn(l, bs[x[2]], in)
    BY <1>1 DEF ResolveRoute
  <2>1. Bound(in) # {} BY DEF ResolveRoute
  <2>2. x[1] \in 1 .. 6 /\ MatchesOn(x[1], bs[x[2]], in) BY <1>1, <2>1
  <2> HIDE DEF x
  <2>3. CASE x[1] \in 1 .. 4 BY <2>2, <2>3
  <2>4. CASE x[1] \in {5, 6}
    <3>1. ASSUME NEW n \in 5 .. 6, NEW b, MatchesOn(n, b, in) PROVE NamesNobody(b)
      <4>1. n # 1 /\ n # 2 /\ n # 3 /\ n # 4 OBVIOUS
      <4> HIDE <3>1
      <4>2. AccountMatch(b) \/ NamesNobody(b) BY ONLY <3>1, <4>1 DEF MatchesOn
      <4> QED BY <4>2 DEF AccountMatch
    <3> QED BY <2>2, <2>4, <3>1
  <2> QED BY <2>2, <2>3, <2>4
<1>4. ASSUME cfg.agents # <<>> PROVE to \in AgentIDs
  BY <1>4, Defaults DEF ResolveRoute, pickAgentID
<1> QED BY <1>2, <1>3, <1>4

(* Two keys of one session are of one agent, and of one kind of peer. *)
LEMMA KeysApart ==
  ASSUME RouteInv,
         NEW a, NEW m \in Messages, NEW s \in BuildAgentPeerSessionKey(a, m),
         NEW b, NEW n \in Messages, NEW t \in BuildAgentPeerSessionKey(b, n), s = t
  PROVE  /\ s[2] = a /\ a = b
         /\ Grouped(m) <=> Grouped(n)
         /\ Grouped(m) => /\ Low(m.channel) = Low(n.channel)
                          /\ Low(m.peer.kind) = Low(n.peer.kind)
                          /\ Low(m.peer.id) = Low(n.peer.id)
         /\ Scoped /\ ~Grouped(m) /\ m.peer # NoPeer /\ n.peer # NoPeer =>
              Names(m) \cap Names(n) # {}
<1> DEFINE Shape(x, r, in) ==
             /\ Grouped(in) =>
                  r = <<"agent", x, Low(in.channel), Low(in.peer.kind), Low(in.peer.id)>>
             /\ ~Grouped(in) /\ (in.peer = NoPeer \/ ~Scoped) => r = <<"agent", x, "main">>
             /\ ~Grouped(in) /\ in.peer # NoPeer /\ Scoped =>
                  \E k \in Names(in) :
                    \/ cfg.scope = "per-peer" /\ r = <<"agent", x, "direct", k>>
                    \/ /\ cfg.scope = "per-channel-peer"
                       /\ r = <<"agent", x, Low(in.channel), "direct", k>>
                    \/ /\ cfg.scope = "per-account-channel-peer"
                       /\ r = <<"agent", x, Low(in.channel), Account(in.account), "direct", k>>
<1>1. Shape(a, s, m) BY KeyShapes
<1>2. Shape(b, t, n) BY KeyShapes
<1>3. Grouped(m) => Low(m.peer.kind) # "direct"
  BY RoutingAssumption DEF Grouped
<1>4. Grouped(n) => Low(n.peer.kind) # "direct"
  BY RoutingAssumption DEF Grouped
<1>5. CASE Grouped(m)
  <2>1. s = <<"agent", a, Low(m.channel), Low(m.peer.kind), Low(m.peer.id)>> BY <1>1, <1>5
  <2>2. Grouped(n)
    <3> SUFFICES ASSUME ~Grouped(n) PROVE FALSE OBVIOUS
    <3>1. t[4] = Low(m.peer.kind) /\ Len(t) = 5 BY <2>1
    <3>2. CASE n.peer = NoPeer \/ ~Scoped BY <1>2, <3>1, <3>2
    <3>3. CASE n.peer # NoPeer /\ Scoped BY <1>2, <1>3, <1>5, <3>1, <3>3
    <3> QED BY <3>2, <3>3
  <2>3. s = <<"agent", b, Low(n.channel), Low(n.peer.kind), Low(n.peer.id)>> BY <1>2, <2>2
  <2>4. s[2] = a /\ a = b /\ Low(m.channel) = Low(n.channel)
        /\ Low(m.peer.kind) = Low(n.peer.kind) /\ Low(m.peer.id) = Low(n.peer.id)
    BY <2>1, <2>3
  <2> QED BY <1>5, <2>2, <2>4
<1>6. CASE ~Grouped(m) /\ (m.peer = NoPeer \/ ~Scoped)
  <2>1. s = <<"agent", a, "main">> BY <1>1, <1>6
  <2>2. ~Grouped(n) BY <1>2, <2>1
  <2>3. CASE n.peer = NoPeer \/ ~Scoped
    <3>1. s = <<"agent", b, "main">> BY <1>2, <2>2, <2>3
    <3> QED BY <1>6, <2>1, <2>2, <3>1
  <2>4. CASE n.peer # NoPeer /\ Scoped
    <3>1. FALSE BY <1>2, <2>1, <2>2, <2>4
    <3> QED BY <3>1
  <2> QED BY <2>3, <2>4
<1>7. CASE ~Grouped(m) /\ m.peer # NoPeer /\ Scoped
  <2>1. PICK k \in Names(m) :
          \/ cfg.scope = "per-peer" /\ s = <<"agent", a, "direct", k>>
          \/ cfg.scope = "per-channel-peer" /\ s = <<"agent", a, Low(m.channel), "direct", k>>
          \/ /\ cfg.scope = "per-account-channel-peer"
             /\ s = <<"agent", a, Low(m.channel), Account(m.account), "direct", k>>
    BY <1>1, <1>7
  <2>2. ~Grouped(n)
    <3> SUFFICES ASSUME Grouped(n) PROVE FALSE OBVIOUS
    <3>1. t = <<"agent", b, Low(n.channel), Low(n.peer.kind), Low(n.peer.id)>> BY <1>2
    <3>2. t[4] = Low(n.peer.kind) /\ Len(t) = 5 BY <3>1
    <3> QED BY <1>4, <2>1, <3>2
  <2>3. CASE n.peer = NoPeer
    <3>1. t = <<"agent", b, "main">> BY <1>2, <2>2, <2>3
    <3> QED BY <2>1, <3>1
  <2>4. CASE n.peer # NoPeer
    <3>1. PICK q \in Names(n) :
            \/ cfg.scope = "per-peer" /\ t = <<"agent", b, "direct", q>>
            \/ cfg.scope = "per-channel-peer" /\ t = <<"agent", b, Low(n.channel), "direct", q>>
            \/ /\ cfg.scope = "per-account-channel-peer"
               /\ t = <<"agent", b, Low(n.channel), Account(n.account), "direct", q>>
      BY <1>2, <1>7, <2>2, <2>4
    <3>2. s[2] = a /\ a = b /\ k = q BY <2>1, <3>1
    <3> QED BY <1>7, <2>2, <3>2
  <2> QED BY <2>3, <2>4
<1> QED BY <1>5, <1>6, <1>7

(* Each message goes to the agent of the most specific binding that        *)
(* matches it, whatever the bindings, agents, scope and links of a         *)
(* configuration are, and no two agents, no two groups, no group and       *)
(* person, and, under a scope that keeps them apart, no two people share a *)
(* session.                                                                *)
THEOREM RoutesAreKept == RoutingSpec => []RoutesHold
<1>1. ASSUME RouteInv PROVE RoutesHold
  <2>1. ASSUME NEW h \in heard, Routed(h)
        PROVE  LET bs == cfg.bindings
                   of == filterBindings(h.msg)
                   mine == {i \in of : PeerMatch(bs[i], h.msg.peer)} IN
               /\ h.msg \in Messages
               /\ h.session \in BuildAgentPeerSessionKey(ResolveRoute(h.msg), h.msg)
               /\ h.session[2] = ResolveRoute(h.msg)
               /\ mine # {} => \E i \in mine : pickAgentID(bs[i].agent) = h.session[2]
               /\ h.session[2] # resolveDefaultAgentID =>
                    \E i \in of : /\ pickAgentID(bs[i].agent) = h.session[2]
                                  /\ NamesNobody(bs[i]) \/ \E l \in 1..4 : MatchesOn(l, bs[i], h.msg)
               /\ cfg.agents # <<>> => h.agent = h.session[2]
    <3>1. /\ h.msg \in Messages
          /\ h.agent \in GetAgent(ResolveRoute(h.msg))
          /\ h.session \in BuildAgentPeerSessionKey(ResolveRoute(h.msg), h.msg)
      BY <1>1, <2>1 DEF RouteInv
    <3>2. h.session[2] = ResolveRoute(h.msg) BY <1>1, <3>1, KeysApart
    <3>3. cfg.agents # <<>> => h.agent = h.session[2]
      BY <1>1, <3>1, <3>2, Resolved DEF GetAgent
    <3> QED BY <1>1, <3>1, <3>2, <3>3, Resolved
  <2>2. ASSUME NEW h \in heard, Routed(h), NEW g \in heard, Routed(g)
        PROVE  /\ g.msg = h.msg /\ Unambiguous(h.msg) => g.agent = h.agent /\ g.session = h.session
               /\ g.session = h.session =>
                    /\ g.agent = h.agent /\ (Direct(g.msg) <=> Direct(h.msg))
                    /\ ~Direct(h.msg) => /\ Low(g.msg.peer.kind) = Low(h.msg.peer.kind)
                                        /\ Low(g.msg.peer.id) = Low(h.msg.peer.id)
                                        /\ Low(g.msg.channel) = Low(h.msg.channel)
                    /\ Scoped /\ Direct(h.msg) /\ h.msg.peer # NoPeer /\ g.msg.peer # NoPeer =>
                         Low(g.msg.peer.id) = Low(h.msg.peer.id)
                         \/ Names(g.msg) \cap Names(h.msg) # {}
    <3> DEFINE m == h.msg
               r == ResolveRoute(m)
               q == ResolveRoute(g.msg)
    <3>1. /\ m \in Messages /\ h.session \in BuildAgentPeerSessionKey(r, m)
          /\ cfg.agents # <<>> => h.agent = h.session[2]
      BY <2>1, <2>2
    <3>2. /\ g.msg \in Messages /\ g.session \in BuildAgentPeerSessionKey(q, g.msg)
          /\ cfg.agents # <<>> => g.agent = g.session[2]
      BY <2>1, <2>2
    <3>3. ASSUME cfg.agents = <<>> PROVE h.agent = "main" /\ g.agent = "main"
      BY <1>1, <2>2, <3>3 DEF RouteInv, GetAgent, GetDefaultAgent, AgentIDs
    <3>4. ASSUME g.msg = m, Unambiguous(m) PROVE g.session = h.session
      <4>1. \A j, k \in Names(m) : m.peer # NoPeer => j = k
        BY <3>4 DEF Unambiguous, Names
      <4>2. g.session \in BuildAgentPeerSessionKey(r, m) BY <3>2, <3>4
      <4> QED BY <3>1, <4>1, <4>2 DEF BuildAgentPeerSessionKey
    <3>5. ASSUME g.session = h.session
          PROVE  /\ Grouped(g.msg) <=> Grouped(m)
                 /\ Grouped(g.msg) => /\ Low(g.msg.channel) = Low(m.channel)
                                      /\ Low(g.msg.peer.kind) = Low(m.peer.kind)
                                      /\ Low(g.msg.peer.id) = Low(m.peer.id)
                 /\ Scoped /\ ~Grouped(g.msg) /\ g.msg.peer # NoPeer /\ m.peer # NoPeer =>
                      Names(g.msg) \cap Names(m) # {}
      <4> HIDE DEF m, r, q
      <4> QED BY <1>1, <3>1, <3>2, <3>5, KeysApart
    <3>6. g.session = h.session => g.agent = h.agent BY <3>1, <3>2, <3>3
    <3>7. \A in : Direct(in) <=> ~Grouped(in) BY DEF Direct, Grouped
    <3> QED BY <3>1, <3>4, <3>5, <3>6, <3>7
  <2> QED BY <2>1, <2>2 DEF RoutesHold, Routed
<1> QED BY <1>1, RouteInvariant, PTL

-----------------------------------------------------------------------------
(* Cached searches *)

IsOrder(o) == o \in Seq(Queries)
InUse(o, use) == \A i, j \in DOMAIN o : i < j => use[o[i]] < use[o[j]]
In(o) == {o[i] : i \in DOMAIN o}

(* What the cache keeps is in the order it had. *)
LEMMA LiveInOrder ==
  ASSUME IsOrder(order), lastUse \in [Queries -> Nat], InUse(order, lastUse)
  PROVE  /\ IsOrder(Live) /\ Len(Live) <= Len(order) /\ InUse(Live, lastUse)
         /\ In(Live) = {q \in In(order) : FreshEntry(q)}
<1> DEFINE S == LivePlaces
           n == Len(order)
           m == Cardinality(S)
<1>1. n \in Nat /\ DOMAIN order = 1 .. n /\ \A i \in 1 .. n : order[i] \in Queries
  BY DEF IsOrder
<1>2. S \subseteq 1 .. n /\ \A i \in 1 .. n : i \in S <=> FreshEntry(order[i])
  BY <1>1 DEF LivePlaces
<1>3. Live = [k \in 1 .. m |-> order[PlaceOf(S, k)]] BY DEF Live, PlaceOf, Upto
<1> HIDE DEF S
<1>4. /\ m \in Nat /\ m <= n
      /\ \A k \in 1 .. m : PlaceOf(S, k) \in S
      /\ \A k, l \in 1 .. m : k < l => PlaceOf(S, k) < PlaceOf(S, l)
      /\ \A i \in S : \E k \in 1 .. m : PlaceOf(S, k) = i
  BY <1>1, <1>2, PlacesInOrder
<1> HIDE DEF m, n
<1>5. Len(Live) = m /\ DOMAIN Live = 1 .. m BY <1>3, <1>4
<1>6. Live \in Seq(Queries)
  <2>1. \A k \in 1 .. m : order[PlaceOf(S, k)] \in Queries BY <1>1, <1>2, <1>4
  <2>2. Live \in [1 .. m -> Queries] BY <1>3, <2>1
  <2> QED BY <1>4, <2>2
<1>7. InUse(Live, lastUse)
  <2> SUFFICES ASSUME NEW k \in 1 .. m, NEW l \in 1 .. m, k < l
               PROVE  lastUse[Live[k]] < lastUse[Live[l]]
    BY <1>5 DEF InUse
  <2>1. PlaceOf(S, k) \in 1 .. n /\ PlaceOf(S, l) \in 1 .. n /\ PlaceOf(S, k) < PlaceOf(S, l)
    BY <1>2, <1>4
  <2>2. lastUse[order[PlaceOf(S, k)]] < lastUse[order[PlaceOf(S, l)]] BY <1>1, <2>1 DEF InUse
  <2> QED BY <1>3, <2>2
<1>8. In(Live) = {q \in In(order) : FreshEntry(q)}
  <2>1. ASSUME NEW k \in 1 .. m PROVE Live[k] \in In(order) /\ FreshEntry(Live[k])
    BY <1>1, <1>2, <1>3, <1>4 DEF In
  <2>2. ASSUME NEW i \in 1 .. n, FreshEntry(order[i]) PROVE \E k \in 1 .. m : Live[k] = order[i]
    <3>1. PICK k \in 1 .. m : PlaceOf(S, k) = i BY <1>2, <1>4, <2>2
    <3> QED BY <1>3, <3>1
  <2>3. In(Live) \subseteq {q \in In(order) : FreshEntry(q)} BY <1>5, <2>1 DEF In
  <2>4. ASSUME NEW q \in In(order), FreshEntry(q) PROVE q \in In(Live)
    <3>1. PICK i \in 1 .. n : q = order[i] BY <1>1, <2>4 DEF In
    <3>2. PICK k \in 1 .. m : Live[k] = order[i] BY <2>2, <2>4, <3>1
    <3> QED BY <1>5, <3>1, <3>2 DEF In
  <2> QED BY <2>3, <2>4
<1> QED BY <1>4, <1>5, <1>6, <1>7, <1>8 DEF IsOrder, n

(* Moving to the end: a query that is used now comes last. *)
LEMMA MovedToEnd ==
  ASSUME NEW o, IsOrder(o), NEW q \in Queries,
         NEW use \in [Queries -> Nat], InUse(o, use),
         NEW now \in Nat, \A x \in Queries : use[x] < now
  PROVE  LET m == MoveToEnd(o, q) IN
         /\ IsOrder(m) /\ InUse(m, [use EXCEPT ![q] = now])
         /\ In(m) = In(o) \cup {q}
         /\ Len(m) = IF q \in In(o) THEN Len(o) ELSE Len(o) + 1
<1> DEFINE at == {i \in DOMAIN o : o[i] = q}
           m == MoveToEnd(o, q)
           new == [use EXCEPT ![q] = now]
           n == Len(o)
<1>1. n \in Nat /\ DOMAIN o = 1 .. n /\ \A i \in 1 .. n : o[i] \in Queries BY DEF IsOrder
<1>2. new[q] = now /\ \A x \in Queries : x # q => new[x] = use[x] OBVIOUS
<1>3. CASE at = {}
  <2>1. m = Append(o, q) BY <1>3 DEF MoveToEnd
  <2>2. q \notin In(o) BY <1>3 DEF In
  <2>3. m \in Seq(Queries) /\ Len(m) = n + 1 /\ m[n + 1] = q /\ \A i \in 1 .. n : m[i] = o[i]
    BY <2>1, AppendProperties DEF IsOrder
  <2> HIDE DEF m, new
  <2>4. In(m) = In(o) \cup {q} BY <1>1, <2>3 DEF In
  <2>5. \A i \in 1 .. n : o[i] # q BY <1>1, <2>2 DEF In
  <2>6. InUse(m, new)
    <3> SUFFICES ASSUME NEW i \in 1 .. n + 1, NEW j \in 1 .. n + 1, i < j
                 PROVE  new[m[i]] < new[m[j]]
      BY <1>1, <2>3 DEF InUse
    <3>1. CASE j = n + 1
      <4>1. i \in 1 .. n BY <1>1, <3>1
      <4>2. m[i] = o[i] /\ o[i] # q /\ o[i] \in Queries BY <1>1, <2>3, <2>5, <4>1
      <4> QED BY <1>2, <2>3, <3>1, <4>2
    <3>2. CASE j # n + 1
      <4>1. i \in 1 .. n /\ j \in 1 .. n BY <1>1, <3>2
      <4>2. new[m[i]] = use[o[i]] /\ new[m[j]] = use[o[j]] BY <1>1, <1>2, <2>3, <2>5, <4>1
      <4>3. use[o[i]] < use[o[j]] BY <1>1, <4>1 DEF InUse
      <4> QED BY <4>2, <4>3
    <3> QED BY <3>1, <3>2
  <2> QED BY <2>2, <2>3, <2>4, <2>6 DEF IsOrder, m, new
<1>4. CASE at # {}
  <2> DEFINE p == Least(at)
  <2>1. at \subseteq Nat /\ at \subseteq 1 .. n BY <1>1
  <2>2. p \in at
    <3>1. \E i \in at : \A j \in at : i <= j
      <4>1. \E i : i \in at BY <1>4
      <4> QED BY <2>1, <4>1, LeastNumber
    <3> QED BY <3>1, Zenon DEF Least
  <2>3. m = [k \in 1 .. n |-> IF k < p THEN o[k] ELSE IF k < n THEN o[k + 1] ELSE q]
    BY <1>1, <1>4 DEF MoveToEnd
  <2>4. p \in 1 .. n /\ o[p] = q BY <1>1, <2>2
  <2>5. q \in In(o) BY <1>1, <2>4 DEF In
  <2>6. \A i \in 1 .. n : i # p => o[i] # q
    <3> SUFFICES ASSUME NEW i \in 1 .. n, i # p, o[i] = q PROVE FALSE OBVIOUS
    <3>1. i < p \/ p < i BY <2>4
    <3>2. use[o[i]] < use[o[p]] \/ use[o[p]] < use[o[i]] BY <1>1, <2>4, <3>1 DEF InUse
    <3> QED BY <2>4, <3>2
  <2> HIDE DEF p, at, m, n
  <2>7. m \in Seq(Queries) /\ Len(m) = n /\ DOMAIN m = 1 .. n
    <3>1. \A k \in 1 .. n : k < n => k + 1 \in 1 .. n BY <1>1
    <3>2. \A k \in 1 .. n :
            (IF k < p THEN o[k] ELSE IF k < n THEN o[k + 1] ELSE q) \in Queries
      BY <1>1, <3>1
    <3>3. m \in [1 .. n -> Queries] BY <2>3, <3>2
    <3> QED BY <1>1, <3>3
  <2>8. /\ \A k \in 1 .. n : k < p => m[k] = o[k]
        /\ \A k \in 1 .. n : k >= p /\ k < n => m[k] = o[k + 1]
        /\ m[n] = q
    BY <1>1, <2>3, <2>4
  <2>9. In(m) = In(o) \cup {q}
    <3>0. In(m) = {m[k] : k \in 1 .. n} /\ In(o) = {o[k] : k \in 1 .. n}
      BY <1>1, <2>7 DEF In
    <3>1. ASSUME NEW k \in 1 .. n PROVE m[k] \in In(o)
      <4>1. CASE k < p BY <1>1, <2>8, <4>1 DEF In
      <4>2. CASE k >= p /\ k < n
        <5>1. k + 1 \in 1 .. n BY <1>1, <4>2
        <5> QED BY <1>1, <2>8, <4>2, <5>1 DEF In
      <4>3. CASE k = n BY <2>5, <2>8, <4>3
      <4> QED BY <1>1, <2>4, <4>1, <4>2, <4>3
    <3>2. ASSUME NEW i \in 1 .. n PROVE \E k \in 1 .. n : m[k] = o[i]
      <4>1. CASE i < p BY <1>1, <2>8, <4>1
      <4>2. CASE i = p BY <1>1, <2>4, <2>8, <4>2
      <4>3. CASE i > p
        <5>1. i - 1 \in 1 .. n /\ i - 1 >= p /\ i - 1 < n /\ i - 1 + 1 = i BY <1>1, <2>4, <4>3
        <5> QED BY <2>8, <5>1
      <4> QED BY <1>1, <2>4, <4>1, <4>2, <4>3
    <3>3. In(m) \subseteq In(o) BY <3>0, <3>1
    <3>4. In(o) \subseteq In(m) BY <3>0, <3>2
    <3> QED BY <2>5, <3>3, <3>4
  <2>10. InUse(m, new)
    <3> SUFFICES ASSUME NEW i \in 1 .. n, NEW j \in 1 .. n, i < j
                 PROVE  new[m[i]] < new[m[j]]
      BY <2>7 DEF InUse
    <3> DEFINE w == IF i < p THEN i ELSE i + 1
               x == IF j < p THEN j ELSE j + 1
    <3>1. m[i] = o[w] /\ w \in 1 .. n /\ w # p BY <1>1, <2>4, <2>8
    <3>2. new[m[i]] = use[o[w]] /\ use[o[w]] < now BY <1>1, <1>2, <2>6, <3>1
    <3>3. CASE j = n BY <1>2, <2>8, <3>2, <3>3
    <3>4. CASE j < n
      <4>1. m[j] = o[x] /\ x \in 1 .. n /\ x # p /\ w < x BY <1>1, <2>4, <2>8, <3>4
      <4>2. new[m[j]] = use[o[x]] BY <1>1, <1>2, <2>6, <4>1
      <4> QED BY <1>1, <3>1, <3>2, <4>1, <4>2 DEF InUse
    <3> QED BY <1>1, <3>3, <3>4
  <2> QED BY <2>5, <2>7, <2>9, <2>10 DEF IsOrder, m, n
<1> QED BY <1>3, <1>4

(* What is returned has the best first. *)
BestFirst(rs) == \A i, j \in DOMAIN rs : i < j => Best[rs[i]] >= Best[rs[j]]

LEMMA RankedBestFirst ==
  ASSUME NEW rs \in Seq(Registries), NEW l \in Nat, l <= Len(rs)
  PROVE  LET found == SubSeq(Ranked(rs), 1, l) IN BestFirst(found)
<1> DEFINE D == DOMAIN rs
           R == {x \in D \X D : Before(rs, x[1], x[2])}
           n == Len(rs)
           found == SubSeq(Ranked(rs), 1, l)
<1>1. n \in Nat /\ D = 1 .. n OBVIOUS
<1>2. \A i \in D : rs[i] \in Registries /\ Best[rs[i]] \in Nat
  <2>1. \A i \in D : rs[i] \in Registries OBVIOUS
  <2> QED BY <2>1, SearchAssumption
<1>3. IsFiniteSet(D) /\ Cardinality(D) = n
  <2> HIDE DEF D, n
  <2>1. IsFiniteSet(1 .. n) /\ Cardinality(1 .. n) = n BY <1>1, FS_Interval
  <2> QED BY <1>1, <2>1
<1>4. \A i, j \in D : <<i, j>> \in R <=> Before(rs, i, j) OBVIOUS
<1>5. \A i \in D : NotAbove(D, R, i) = {j \in D : Before(rs, j, i)} BY <1>4 DEF NotAbove
<1> HIDE DEF D, R, n
<1>6. Orders(R, D)
  <2>1. \A i \in D : <<i, i>> \in R BY <1>1, <1>4 DEF Before
  <2>2. \A i, j \in D : i # j => (<<i, j>> \in R <=> <<j, i>> \notin R)
    BY <1>1, <1>2, <1>4 DEF Before
  <2>3. ASSUME NEW i \in D, NEW j \in D, NEW k \in D, <<i, j>> \in R, <<j, k>> \in R
        PROVE  <<i, k>> \in R
    <3> DEFINE a == Best[rs[i]]
               b == Best[rs[j]]
               c == Best[rs[k]]
    <3>1. a > b \/ (a = b /\ i <= j) BY <1>4, <2>3 DEF Before
    <3>2. b > c \/ (b = c /\ j <= k) BY <1>4, <2>3 DEF Before
    <3>3. a \in Nat /\ b \in Nat /\ c \in Nat /\ i \in Nat /\ j \in Nat /\ k \in Nat
      BY <1>1, <1>2
    <3> HIDE DEF a, b, c
    <3>4. a > c \/ (a = c /\ i <= k) BY <3>1, <3>2, <3>3
    <3>5. Before(rs, i, k) BY <3>4 DEF Before, a, c
    <3> QED BY <1>4, <3>5
  <2> QED BY <2>1, <2>2, <2>3 DEF Orders
<1>7. /\ \A k \in 1 .. n : OfRank(D, R, k) \in D
      /\ \A k, m \in 1 .. n : k < m => <<OfRank(D, R, k), OfRank(D, R, m)>> \in R
  BY <1>3, <1>6, RanksInOrder
<1>8. \A k \in 1 .. n :
        (CHOOSE i \in D : Cardinality({j \in D : Before(rs, j, i)}) = k) = OfRank(D, R, k)
  <2> SUFFICES ASSUME NEW k \in 1 .. n
               PROVE (CHOOSE i \in D : Cardinality({j \in D : Before(rs, j, i)}) = k)
                     = OfRank(D, R, k)
    OBVIOUS
  <2>1. \A i \in D : Cardinality({j \in D : Before(rs, j, i)}) = k
                      <=> Cardinality(NotAbove(D, R, i)) = k
    BY <1>5
  <2> QED BY <2>1, Zenon DEF OfRank
<1>9. Ranked(rs) = [k \in 1 .. n |-> rs[OfRank(D, R, k)]]
  <2>1. Ranked(rs) = [k \in D |->
          rs[CHOOSE i \in D : Cardinality({j \in D : Before(rs, j, i)}) = k]]
    BY DEF Ranked, D
  <2> DEFINE at(k) == CHOOSE i \in D : Cardinality({j \in D : Before(rs, j, i)}) = k
  <2>2. Ranked(rs) = [k \in 1 .. n |-> rs[at(k)]] BY <1>1, <2>1
  <2>3. \A k \in 1 .. n : at(k) = OfRank(D, R, k) BY <1>8
  <2> HIDE DEF at
  <2> QED BY <2>2, <2>3
<1>10. \A k, m \in 1 .. n : k < m => Best[rs[OfRank(D, R, k)]] >= Best[rs[OfRank(D, R, m)]]
  <2> SUFFICES ASSUME NEW k \in 1 .. n, NEW m \in 1 .. n, k < m
               PROVE  Best[rs[OfRank(D, R, k)]] >= Best[rs[OfRank(D, R, m)]]
    OBVIOUS
  <2>1. OfRank(D, R, k) \in D /\ OfRank(D, R, m) \in D
        /\ Before(rs, OfRank(D, R, k), OfRank(D, R, m))
    BY <1>4, <1>7
  <2> QED BY <1>2, <2>1 DEF Before
<1>11. Ranked(rs) \in Seq(Registries) /\ Len(Ranked(rs)) = n
  <2>1. Ranked(rs) \in [1 .. n -> Registries] BY <1>2, <1>7, <1>9
  <2> QED BY <1>1, <1>9, <2>1
<1>12. l <= n BY DEF n
<1>13. /\ Len(found) = l /\ DOMAIN found = 1 .. l
       /\ \A k \in 1 .. l : found[k] = Ranked(rs)[k]
  <2> DEFINE r == Ranked(rs)
  <2>1. r \in Seq(Registries) /\ Len(r) = n BY <1>11
  <2> HIDE DEF r
  <2>2. found = SubSeq(r, 1, l) BY DEF r
  <2>3. /\ Len(SubSeq(r, 1, l)) = l
        /\ \A k \in 1 .. l : SubSeq(r, 1, l)[k] = r[k]
        /\ DOMAIN SubSeq(r, 1, l) = 1 .. l
    <3>1. SubSeq(r, 1, l) = [k \in 1 .. l |-> r[k]] BY <1>1, <1>12, <2>1
    <3> QED BY <3>1
  <2> QED BY <2>2, <2>3 DEF r
<1>14. \A k \in 1 .. l : k \in 1 .. n BY <1>1, <1>12
<1> HIDE DEF found
<1> QED BY <1>9, <1>10, <1>13, <1>14 DEF BestFirst, found

(* What holds of the cache and of the searches that may fill it. *)
SearchInv ==
  /\ searches \in Nat /\ time \in Nat
  /\ sought \in [Searchers -> Queries \cup {""}]
  /\ arrived \in [Searchers -> Seq(Registries)]
  /\ IsOrder(order) /\ lastUse \in [Queries -> 0 .. searches]
  /\ \A q \in Queries : entries[q] # Nothing => BestFirst(entries[q].found)
  /\ Len(order) <= MaxEntries /\ InUse(order, lastUse)
  /\ In(order) = {q \in Queries : entries[q] # Nothing}
  /\ answer # Nothing =>
       /\ time - answer.at < Ttl /\ Similar(answer.query, answer.to)
       /\ BestFirst(answer.results)

LEMMA SimilarToItself == ASSUME NEW q \in Queries PROVE Similar(q, q)
<1>1. Cardinality(Trigrams[q]) \in Nat BY SearchAssumption, FS_CardinalityType
<1>2. Trigrams[q] \cap Trigrams[q] = Trigrams[q] /\ Trigrams[q] \cup Trigrams[q] = Trigrams[q]
  OBVIOUS
<1> DEFINE c == Cardinality(Trigrams[q])
<1>3. Common(q, q) = c /\ All(q, q) = c BY <1>2 DEF Common, All
<1> HIDE DEF c
<1>4. \A n \in Nat : 10 * n >= 7 * n OBVIOUS
<1>5. c \in Nat BY <1>1 DEF c
<1> QED BY <1>3, <1>4, <1>5 DEF Similar

LEMMA SearchInvStarts == SearchInit => SearchInv
<1> SUFFICES ASSUME SearchInit PROVE SearchInv OBVIOUS
<1>1. order = <<>> BY DEF SearchInit
<1>2. <<>> \in Seq(Queries) /\ Len(<<>>) = 0 /\ DOMAIN <<>> = {} BY EmptySeq
<1>3. IsOrder(order) /\ Len(order) = 0 BY <1>1, <1>2 DEF IsOrder
<1>4. In(order) = {} /\ InUse(order, lastUse) BY <1>1, <1>2 DEF In, InUse
<1>5. \A q \in Queries : entries[q] = Nothing BY DEF SearchInit
<1>6. searches = 0 /\ time = 0 /\ answer = Nothing BY DEF SearchInit
<1>7. sought \in [Searchers -> Queries \cup {""}] BY DEF SearchInit
<1>8. arrived \in [Searchers -> Seq(Registries)] BY EmptySeq DEF SearchInit
<1>9. lastUse \in [Queries -> 0 .. searches]
  <2>1. lastUse = [q \in Queries |-> 0] BY DEF SearchInit
  <2>2. 0 \in 0 .. searches BY <1>6
  <2> QED BY <2>1, <2>2
<1>10. 0 <= MaxEntries
  <2>1. MaxEntries \in Nat BY SearchAssumption
  <2> QED BY <2>1
<1> QED BY <1>3, <1>4, <1>5, <1>6, <1>7, <1>8, <1>9, <1>10 DEF SearchInv

LEMMA Uses ==
  ASSUME SearchInv
  PROVE  /\ searches \in Nat /\ time \in Nat /\ searches + 1 \in Nat
         /\ lastUse \in [Queries -> Nat] /\ lastUse \in [Queries -> 0 .. searches]
         /\ \A x \in Queries : lastUse[x] < searches + 1 /\ lastUse[x] \in 0 .. searches + 1
         /\ lastUse \in [Queries -> 0 .. searches + 1]
<1>1. searches \in Nat /\ time \in Nat /\ lastUse \in [Queries -> 0 .. searches]
  BY DEF SearchInv
<1>2. \A n \in 0 .. searches : n \in Nat /\ n < searches + 1 /\ n \in 0 .. searches + 1
  BY <1>1
<1>3. \A x \in Queries : lastUse[x] \in 0 .. searches BY <1>1
<1>4. lastUse \in [Queries -> Nat] BY <1>1, <1>2
<1>5. lastUse \in [Queries -> 0 .. searches + 1] BY <1>1, <1>2
<1>6. searches + 1 \in Nat BY <1>1
<1> QED BY <1>1, <1>2, <1>3, <1>4, <1>5, <1>6

(* A step that leaves the cache alone. *)
LEMMA CacheLeft ==
  ASSUME SearchInv, UNCHANGED <<entries, order, lastUse>>,
         UNCHANGED <<time, answer>> \/ (answer' = Nothing /\ time' \in Nat),
         searches' \in {searches, searches + 1},
         sought' \in [Searchers -> Queries \cup {""}],
         arrived' \in [Searchers -> Seq(Registries)]
  PROVE  SearchInv'
<1>1. searches' \in Nat /\ time' \in Nat /\ lastUse' \in [Queries -> 0 .. searches']
  <2>1. searches' = searches \/ searches' = searches + 1 OBVIOUS
  <2> QED BY <2>1, Uses
<1>2. IsOrder(order)' /\ InUse(order, lastUse)' /\ Len(order') <= MaxEntries
  BY DEF SearchInv, IsOrder, InUse
<1>3. (In(order) = {q \in Queries : entries[q] # Nothing})' BY DEF SearchInv, In, Nothing
<1>4. \A q \in Queries : (entries[q] # Nothing)' => BestFirst(entries[q].found)'
  BY DEF SearchInv, Nothing, BestFirst
<1>5. CASE UNCHANGED <<time, answer>>
  <2>1. (answer # Nothing =>
           /\ time - answer.at < Ttl /\ Similar(answer.query, answer.to)
           /\ BestFirst(answer.results))'
    BY <1>5 DEF SearchInv, Nothing, BestFirst, Similar, Common, All
  <2> QED BY <1>1, <1>2, <1>3, <1>4, <2>1 DEF SearchInv
<1>6. CASE answer' = Nothing BY <1>1, <1>2, <1>3, <1>4, <1>6 DEF SearchInv, Nothing
<1> QED BY <1>5, <1>6

LEMMA HitKeepsInv ==
  ASSUME SearchInv, NEW s \in Searchers, NEW q \in Queries, NEW p \in Hits(q),
         Hit(s, q, p), searches' = searches + 1, UNCHANGED time
  PROVE  SearchInv'
<1>1. p \in Queries /\ FreshEntry(p) /\ Similar(p, q)
  BY SimilarToItself DEF Hits
<1>2. entries[p] # Nothing /\ time - entries[p].at < Ttl BY <1>1 DEF FreshEntry
<1>3. p \in In(order) BY <1>1, <1>2 DEF SearchInv
<1>4. lastUse' = [lastUse EXCEPT ![p] = searches + 1] /\ order' = MoveToEnd(order, p)
      /\ UNCHANGED <<entries, sought, arrived>>
  BY DEF Hit
<1>5. /\ lastUse \in [Queries -> Nat] /\ searches + 1 \in Nat
      /\ \A x \in Queries : lastUse[x] < searches + 1
      /\ lastUse' \in [Queries -> 0 .. searches + 1]
  <2>1. searches + 1 \in 0 .. searches + 1 BY Uses
  <2>2. lastUse' \in [Queries -> 0 .. searches + 1] BY <1>4, <2>1, Uses
  <2> QED BY <2>2, Uses
<1>6. IsOrder(order) /\ InUse(order, lastUse) BY DEF SearchInv
<1>7. /\ IsOrder(order') /\ InUse(order', lastUse') /\ In(order') = In(order) \cup {p}
      /\ Len(order') = Len(order)
  BY <1>1, <1>3, <1>4, <1>5, <1>6, MovedToEnd
<1>8. answer' = [to |-> q, query |-> p, at |-> entries[p].at, results |-> entries[p].found]
  BY DEF Hit
<1>9. answer'.to = q /\ answer'.query = p /\ answer'.at = entries[p].at
      /\ answer'.results = entries[p].found
  BY <1>8
<1>10. In(order') = {x \in Queries : entries'[x] # Nothing} BY <1>3, <1>4, <1>7 DEF SearchInv
<1>11. BestFirst(entries[p].found) BY <1>1, <1>2 DEF SearchInv
<1>12. IsOrder(order)' /\ InUse(order, lastUse)' /\ In(order)' = In(order')
  BY <1>7 DEF IsOrder, InUse, In
<1>13. BestFirst(answer.results)' BY <1>9, <1>11 DEF BestFirst
<1>14. Similar(answer.query, answer.to)' BY <1>1, <1>9 DEF Similar, Common, All
<1>15. time' - answer'.at < Ttl BY <1>2, <1>9
<1>16. \A x \in Queries : entries'[x] # Nothing => BestFirst(entries'[x].found)
  BY <1>4 DEF SearchInv
<1> QED
  BY <1>4, <1>5, <1>7, <1>10, <1>12, <1>13, <1>14, <1>15, <1>16 DEF SearchInv, BestFirst

LEMMA LeftToAppend ==
  ASSUME NEW o, IsOrder(o), NEW use \in [Queries -> Nat], InUse(o, use), NEW n \in 1 .. Len(o) + 1
  PROVE  LET r == SubSeq(o, n, Len(o)) IN
         /\ IsOrder(r) /\ InUse(r, use) /\ In(r) \subseteq In(o)
         /\ Len(r) = Len(o) - n + 1
<1> DEFINE r == SubSeq(o, n, Len(o))
           l == Len(o) - n + 1
<1>1. Len(o) \in Nat /\ DOMAIN o = 1 .. Len(o) /\ \A i \in 1 .. Len(o) : o[i] \in Queries
  BY DEF IsOrder
<1>2. r = [i \in 1 .. l |-> o[i + n - 1]] BY <1>1
<1>3. l \in Nat BY <1>1
<1>4. \A i \in 1 .. l : i + n - 1 \in 1 .. Len(o) BY <1>1
<1> HIDE DEF r, l
<1>5. r \in [1 .. l -> Queries] /\ Len(r) = l /\ DOMAIN r = 1 .. l BY <1>1, <1>2, <1>3, <1>4
<1>6. In(r) \subseteq In(o) BY <1>1, <1>2, <1>4, <1>5 DEF In
<1>7. InUse(r, use)
  <2> SUFFICES ASSUME NEW i \in 1 .. l, NEW j \in 1 .. l, i < j PROVE use[r[i]] < use[r[j]]
    BY <1>5 DEF InUse
  <2>1. i + n - 1 < j + n - 1 BY <1>3
  <2>2. use[o[i + n - 1]] < use[o[j + n - 1]] BY <1>1, <1>4, <2>1 DEF InUse
  <2> QED BY <1>2, <2>2
<1> QED BY <1>3, <1>5, <1>6, <1>7 DEF IsOrder, r, l

LEMMA KeptInOrder ==
  ASSUME SearchInv, NEW q \in Queries
  PROVE  LET kept == KeptFor(q) IN
         /\ IsOrder(kept) /\ InUse(kept, lastUse) /\ In(kept) \subseteq In(order)
         /\ Len(kept) <= MaxEntries
         /\ q \notin In(kept) => Len(kept) + 1 <= MaxEntries
<1> DEFINE kept == KeptFor(q)
           cut == SubSeq(Live, Len(Live) - MaxEntries + 2, Len(Live))
<1>1. lastUse \in [Queries -> Nat] /\ IsOrder(order) /\ InUse(order, lastUse)
      /\ Len(order) <= MaxEntries
  BY Uses DEF SearchInv
<1>2. MaxEntries \in Nat /\ MaxEntries # 0
  <2>1. MaxEntries \in Nat \ {0} BY SearchAssumption
  <2> QED BY <2>1
<1>3. /\ IsOrder(Live) /\ Len(Live) <= Len(order) /\ InUse(Live, lastUse)
      /\ In(Live) \subseteq In(order)
  BY <1>1, LiveInOrder
<1>4. Len(Live) \in Nat /\ Len(order) \in Nat BY <1>1, <1>3 DEF IsOrder
<1>5. q \in In(Live) <=> \E i \in DOMAIN Live : Live[i] = q BY DEF In
<1>6. CASE q \in In(Live) \/ Len(Live) < MaxEntries
  <2>1. kept = Live BY <1>5, <1>6 DEF KeptFor
  <2> HIDE DEF kept
  <2> QED BY <1>1, <1>2, <1>3, <1>4, <1>6, <2>1 DEF kept
<1>7. CASE q \notin In(Live) /\ ~(Len(Live) < MaxEntries)
  <2>1. kept = cut BY <1>5, <1>7 DEF KeptFor
  <2>2. Len(Live) = MaxEntries /\ Len(Live) - MaxEntries + 2 \in 1 .. Len(Live) + 1
    BY <1>1, <1>2, <1>3, <1>4, <1>7
  <2>3. /\ IsOrder(cut) /\ InUse(cut, lastUse) /\ In(cut) \subseteq In(Live)
        /\ Len(cut) = Len(Live) - (Len(Live) - MaxEntries + 2) + 1
    BY <1>1, <1>3, <2>2, LeftToAppend
  <2> HIDE DEF kept, cut
  <2> QED BY <1>2, <1>3, <1>4, <2>1, <2>2, <2>3 DEF kept
<1> QED BY <1>6, <1>7

LEMMA CollectKeepsInv ==
  ASSUME SearchInv, NEW s \in Searchers, NEW limit \in Nat, Collect(s, limit)
  PROVE  SearchInv'
<1> DEFINE q == sought[s]
           l == IF Len(arrived[s]) < limit THEN Len(arrived[s]) ELSE limit
           found == SubSeq(Ranked(arrived[s]), 1, l)
           kept == KeptFor(q)
<1>1. q \in Queries /\ sought' \in [Searchers -> Queries \cup {""}]
      /\ UNCHANGED <<arrived, time>> /\ searches' = searches + 1
  BY DEF Collect, SearchInv
<1>2. arrived[s] \in Seq(Registries) /\ l \in Nat /\ l <= Len(arrived[s])
  <2>1. arrived[s] \in Seq(Registries) BY DEF SearchInv
  <2>2. Len(arrived[s]) \in Nat BY <2>1
  <2> QED BY <2>1, <2>2
<1>3. BestFirst(found)
  <2> HIDE DEF l
  <2> QED BY <1>2, RankedBestFirst
<1>t. /\ lastUse \in [Queries -> Nat] /\ searches + 1 \in Nat /\ searches \in Nat /\ time \in Nat
      /\ \A x \in Queries : lastUse[x] < searches + 1 /\ lastUse[x] \in 0 .. searches + 1
  BY Uses
<1> HIDE DEF q, l, found, kept
<1>4. CASE UNCHANGED <<entries, order, lastUse, answer>>
  <2>1. arrived' \in [Searchers -> Seq(Registries)] BY <1>1 DEF SearchInv
  <2> QED BY <1>1, <1>4, <2>1, CacheLeft
<1>5. CASE ~UNCHANGED <<entries, order, lastUse, answer>>
  <2>1. /\ entries' = [p \in Queries |->
                         IF p = q THEN [at |-> time, found |-> found]
                         ELSE IF \E i \in DOMAIN kept : kept[i] = p THEN entries[p] ELSE Nothing]
        /\ order' = MoveToEnd(kept, q)
        /\ lastUse' = [lastUse EXCEPT ![q] = searches + 1]
        /\ answer' = [to |-> q, query |-> q, at |-> time, results |-> found]
    BY <1>1, <1>5 DEF Collect, q, l, found, kept
  <2>2. /\ IsOrder(kept) /\ InUse(kept, lastUse) /\ In(kept) \subseteq In(order)
        /\ Len(kept) <= MaxEntries /\ (q \notin In(kept) => Len(kept) + 1 <= MaxEntries)
    BY <1>1, KeptInOrder DEF kept
  <2>3. /\ IsOrder(order') /\ InUse(order', lastUse') /\ In(order') = In(kept) \cup {q}
        /\ Len(order') = IF q \in In(kept) THEN Len(kept) ELSE Len(kept) + 1
    BY <1>1, <1>t, <2>1, <2>2, MovedToEnd
  <2>4. Len(order') <= MaxEntries BY <2>2, <2>3
  <2>5. lastUse' \in [Queries -> 0 .. searches']
    <3>1. searches + 1 \in 0 .. searches + 1 BY <1>t
    <3> QED BY <1>1, <1>t, <2>1, <3>1
  <2>6. [at |-> time, found |-> found] # Nothing
    <3>1. DOMAIN [at |-> time, found |-> found] # DOMAIN Nothing BY DEF Nothing
    <3> QED BY <3>1
  <2>7. \A p \in Queries : entries'[p] = IF p = q THEN [at |-> time, found |-> found]
                                         ELSE IF p \in In(kept) THEN entries[p] ELSE Nothing
    BY <2>1 DEF In
  <2>8. \A p \in In(kept) : p \in Queries /\ entries[p] # Nothing BY <2>2 DEF SearchInv
  <2>9. In(order') = {p \in Queries : entries'[p] # Nothing}
    <3>1. \A p \in Queries : entries'[p] # Nothing <=> p = q \/ p \in In(kept)
      BY <2>6, <2>7, <2>8
    <3> QED BY <1>1, <2>3, <2>8, <3>1
  <2>10. ASSUME NEW p \in Queries, entries'[p] # Nothing PROVE BestFirst(entries'[p].found)
    <3>1. CASE p = q
      <4>1. entries'[p].found = found BY <2>7, <3>1
      <4> QED BY <1>3, <4>1
    <3>2. CASE p # q
      <4>1. entries'[p] = entries[p] BY <2>7, <2>10, <3>2
      <4> QED BY <2>10, <4>1 DEF SearchInv
    <3> QED BY <3>1, <3>2
  <2>11. answer'.to = q /\ answer'.query = q /\ answer'.at = time /\ answer'.results = found
    BY <2>1
  <2>12. time' - answer'.at < Ttl
    <3>1. Ttl \in Nat /\ Ttl # 0
      <4>1. Ttl \in Nat \ {0} BY SearchAssumption
      <4> QED BY <4>1
    <3>2. time' - answer'.at = 0
      <4>1. time' = time /\ answer'.at = time BY <1>1, <2>11
      <4>2. \A n \in Nat : n - n = 0 OBVIOUS
      <4> QED BY <1>t, <4>1, <4>2
    <3> QED BY <3>1, <3>2
  <2>13. Similar(answer.query, answer.to)'
    BY <1>1, <2>11, SimilarToItself DEF Similar, Common, All
  <2>14. BestFirst(answer.results)' BY <1>3, <2>11 DEF BestFirst
  <2>15. IsOrder(order)' /\ InUse(order, lastUse)' /\ In(order)' = In(order')
    BY <2>3 DEF IsOrder, InUse, In
  <2>16. \A p \in Queries : (entries[p] # Nothing)' => BestFirst(entries[p].found)'
    BY <2>10 DEF Nothing, BestFirst
  <2>17. arrived' \in [Searchers -> Seq(Registries)] /\ searches' \in Nat /\ time' \in Nat
    BY <1>1, <1>t DEF SearchInv
  <2> QED BY <1>1, <2>4, <2>5, <2>9, <2>12, <2>13, <2>14, <2>15, <2>16, <2>17
           DEF SearchInv, Nothing
<1> QED BY <1>4, <1>5

(* However long the searches, their answers and their expiry interleave,   *)
(* the list of queries of the cache is that of what it has, in the order   *)
(* of its use and within its size, and no answer is older than the time to *)
(* live or to another question, for all queries, registries and sizes.     *)
THEOREM CacheStaysSound == SearchSpec => []CacheIsSound
<1>1. ASSUME SearchInv, [SearchNext]_searchVars PROVE SearchInv'
  <2>1. ASSUME NEW s \in Searchers, NEW q \in Queries, FindSkills(s, q) PROVE SearchInv'
    <3>1. UNCHANGED time /\ searches' = searches + 1 BY <2>1 DEF FindSkills
    <3>2. CASE Hits(q) # {}
      <4>1. PICK p \in Hits(q) : Hit(s, q, p) BY <2>1, <3>2 DEF FindSkills
      <4> QED BY <1>1, <3>1, <4>1, HitKeepsInv
    <3>3. CASE Hits(q) = {}
      <4>1. /\ sought' = [sought EXCEPT ![s] = q]
            /\ arrived' = [arrived EXCEPT ![s] = <<>>]
            /\ UNCHANGED <<entries, order, lastUse, answer>>
        BY <2>1, <3>3 DEF FindSkills
      <4>2. sought' \in [Searchers -> Queries \cup {""}] BY <1>1, <4>1 DEF SearchInv
      <4>3. arrived' \in [Searchers -> Seq(Registries)] BY <1>1, <4>1, EmptySeq DEF SearchInv
      <4> QED BY <1>1, <3>1, <4>1, <4>2, <4>3, CacheLeft
    <3> QED BY <3>2, <3>3
  <2>2. ASSUME NEW s \in Searchers, NEW r \in Registries, Acquire(s, r) \/ Found(s, r)
        PROVE  SearchInv'
    <3>1. arrived' = arrived \/ arrived' = [arrived EXCEPT ![s] = Append(@, r)]
      BY <2>2 DEF Acquire, Found
    <3>2. arrived \in [Searchers -> Seq(Registries)] BY <1>1 DEF SearchInv
    <3>3. Append(arrived[s], r) \in Seq(Registries) BY <3>2, AppendProperties
    <3>4. arrived' \in [Searchers -> Seq(Registries)] BY <3>1, <3>2, <3>3
    <3>5. UNCHANGED <<entries, order, sought, time, searches, lastUse, answer>>
      BY <2>2 DEF Acquire, Found
    <3>6. sought' \in [Searchers -> Queries \cup {""}] BY <1>1, <3>5 DEF SearchInv
    <3> QED BY <1>1, <3>4, <3>5, <3>6, CacheLeft
  <2>3. ASSUME NEW s \in Searchers, NEW limit \in 1 .. 2, Collect(s, limit) PROVE SearchInv'
    BY <1>1, <2>3, CollectKeepsInv
  <2>4. CASE SearchTick
    <3>1. time' = time + 1 /\ answer' = Nothing
          /\ UNCHANGED <<entries, order, sought, arrived, searches, lastUse>>
      BY <2>4 DEF SearchTick
    <3>2. time' \in Nat BY <1>1, <3>1, Uses
    <3>3. sought' \in [Searchers -> Queries \cup {""}] /\ arrived' \in [Searchers -> Seq(Registries)]
      BY <1>1, <3>1 DEF SearchInv
    <3> QED BY <1>1, <3>1, <3>2, <3>3, CacheLeft
  <2>5. CASE UNCHANGED searchVars
    <3>1. UNCHANGED <<entries, order, sought, arrived, time, searches, lastUse, answer>>
      BY <2>5 DEF searchVars
    <3>3. sought' \in [Searchers -> Queries \cup {""}] /\ arrived' \in [Searchers -> Seq(Registries)]
      BY <1>1, <3>1 DEF SearchInv
    <3> QED BY <1>1, <3>1, <3>3, CacheLeft
  <2> QED BY <1>1, <2>1, <2>2, <2>3, <2>4, <2>5 DEF SearchNext
<1>2. SearchInv => CacheIsSound BY DEF SearchInv, CacheIsSound, InUse, In, BestFirst
<1> QED BY <1>1, <1>2, SearchInvStarts, PTL DEF SearchSpec

-----------------------------------------------------------------------------
(* Credentials *)

Cred == [grant : Nat, refresh : Nat, project : BOOLEAN, due : BOOLEAN, key : Keys \cup {None}]
Table == [Providers -> Cred \cup {None}]
Logins == [Providers -> Nat \cup {None}]

(* The marks of a file that is absent or torn are no tables, and None is   *)
(* neither a grant nor a credential.                                       *)
Distinct == /\ Providers # {} /\ 1 \notin Providers
            /\ None \notin Nat /\ None \notin Cred

(* A credential with a refresh token; one that was pasted has none. *)
Tok(c) == c # None /\ c.grant # 0

(* What a credential says of its token is so. *)
Sound(c) == c # None =>
  IF c.grant = 0 THEN c.refresh = 0
  ELSE c.refresh \in 1..minted /\ owner[c.refresh] = c.grant

Same(c, d) == IF c = None \/ d = None THEN c = d
              ELSE c.grant = d.grant /\ c.refresh = d.refresh

States == {"idle", "asked", "exchange", "set", "got", "renew", "loaded", "writing", "unlinked"}

Typed ==
  /\ key \in [Actors -> Keys \cup {None}]
  /\ file = Absent \/ file = Torn \/ file \in Table
  /\ stage \in [Actors -> States]
  /\ prov \in [Actors -> Providers]
  /\ cred \in [Actors -> Cred \cup {None}]
  /\ store \in [Actors -> Table \cup {None}]
  /\ minted \in Nat /\ accepted \subseteq 1..minted
  /\ saves \in Nat /\ seen \in [Actors -> Nat]
  /\ owner \in Seq(Nat) /\ Len(owner) = minted
  /\ last \in Logins

(* What an actor has in its hands at each place. *)
InHands(a) ==
  /\ seen[a] <= saves
  /\ stage[a] \in {"got", "renew"} => cred[a] # None
  /\ stage[a] \in {"loaded", "writing"} => store[a] \in Table
  /\ stage[a] \in {"set", "got", "renew", "loaded", "writing"} => Sound(cred[a])

(* The file, and what the one who writes it will leave in it. *)
Contents == IF file = Absent THEN [p \in Providers |-> None] ELSE file
Writes(a) == [last EXCEPT ![prov[a]] = IF cred[a] = None THEN None ELSE cred[a].grant]
Current(table, logins) ==
  IF file = Torn THEN \E w \in Actors : stage[w] = "writing" /\ table = store[w] /\ logins = Writes(w)
  ELSE table = Contents /\ logins = last

(* The grants are those of the last logins. *)
Grants(table, logins) ==
  \A p \in Providers :
    /\ (table[p] = None) <=> (logins[p] = None)
    /\ table[p] # None => Sound(table[p]) /\ table[p].grant = logins[p]

(* One that waits to save what it has renewed, or is about to save. *)
Pending(a) == stage[a] \in {"renew", "loaded"}
Fresh(a) == seen[a] = saves

(* Somebody else's save has come first: the next one will overlap. *)
Doomed == \E a \in Actors : Pending(a) /\ ~Fresh(a)

(* What an actor has read is still so. *)
StillSo(a) ==
  Fresh(a) =>
    /\ stage[a] \in {"got", "renew", "loaded"} => file # Torn
    /\ stage[a] = "got" => Same(cred[a], Contents[prov[a]])
    /\ stage[a] = "renew" =>
         Contents[prov[a]] # None /\ cred[a].grant = Contents[prov[a]].grant
    /\ stage[a] = "loaded" =>
         /\ store[a][prov[a]] = cred[a]
         /\ \A q \in Providers : q # prov[a] => Same(store[a][q], Contents[q])

(* The tokens of a table: each provider has another, which is accepted, or *)
(* has been renewed by somebody who waits to save.                         *)
Apart(table) ==
  \A p, q \in Providers :
    p # q /\ Tok(table[p]) /\ Tok(table[q]) => table[p].refresh # table[q].refresh
Renewed(p) ==
  \E a \in Actors : Pending(a) /\ prov[a] = p /\ Tok(cred[a]) /\ cred[a].refresh \in accepted
Accepted(table) ==
  \A p \in Providers : Tok(table[p]) => table[p].refresh \in accepted \/ Renewed(p)

(* The tokens in hands: accepted and in nobody else's, or the table's. *)
Holds(a) == (stage[a] = "set" \/ Pending(a)) /\ Tok(cred[a])
New(a, table) ==
  /\ cred[a].refresh \in accepted
  /\ \A q \in Providers : Tok(table[q]) => table[q].refresh # cred[a].refresh
Old(a, table) ==
  /\ Pending(a) /\ Tok(table[prov[a]]) /\ cred[a].refresh = table[prov[a]].refresh
Own(a, table) == Holds(a) => New(a, table) \/ Old(a, table)
Alone(a) ==
  Holds(a) => \A b \in Actors : /\ Holds(b) /\ a # b /\ (stage[a] = "set" \/ stage[b] = "set")
                                => cred[a].refresh # cred[b].refresh

Tokens(table) == Apart(table) /\ Accepted(table)
                 /\ \A a \in Actors : Own(a, table) /\ Alone(a)

Consistent(table, logins) == Grants(table, logins) /\ (Doomed \/ Tokens(table))

(* At most one writes, and as long as it does the file is torn. *)
Writer ==
  /\ file = Torn <=> \E w \in Actors : stage[w] = "writing"
  /\ \A a, b \in Actors : stage[a] = "writing" /\ stage[b] = "writing" => a = b

Good ==
  /\ Typed /\ Writer
  /\ \A a \in Actors : InHands(a) /\ StillSo(a)
  /\ \A table \in Table, logins \in Logins :
       Current(table, logins) => Consistent(table, logins)

CredInv == excused \in BOOLEAN /\ (~excused => Good)

-----------------------------------------------------------------------------
(* Tables, and what is read from them. *)

LEMMA TableIsNoMark ==
  ASSUME Distinct, NEW t \in Table
  PROVE  t # Absent /\ t # Torn
<1>1. DOMAIN t = Providers BY DEF Table
<1>2. DOMAIN Absent = {} /\ DOMAIN Torn = {1} BY DEF Absent, Torn
<1> QED BY <1>1, <1>2 DEF Distinct

LEMMA AbsentIsNotTorn == Absent # Torn
<1>1. Len(Absent) = 0 /\ Len(Torn) = 1 BY DEF Absent, Torn
<1> QED BY <1>1

LEMMA ContentsTyped ==
  ASSUME Typed, file # Torn
  PROVE  Contents \in Table
BY DEF Typed, Contents, Table

(* Sealing and opening change nothing that matters. *)
LEMMA Sealed ==
  ASSUME NEW c \in Cred \cup {None}, NEW k \in Keys \cup {None}, Distinct
  PROVE  /\ Unseal(c, k) \in Cred \cup {None} /\ Same(Unseal(c, k), c)
         /\ Seal(c, k) \in Cred \cup {None} /\ Same(Seal(c, k), c)
         /\ Unseal(c, k) = None <=> c = None
         /\ Seal(c, k) = None <=> c = None
<1>1. CASE c = None BY <1>1 DEF Unseal, Seal, Same
<1>2. CASE c \in Cred
  <2>1. \A x \in Keys \cup {None} :
          /\ [c EXCEPT !.key = x] \in Cred
          /\ [c EXCEPT !.key = x].grant = c.grant /\ [c EXCEPT !.key = x].refresh = c.refresh
    BY <1>2 DEF Cred
  <2>2. c # None BY <1>2 DEF Distinct
  <2>3. Unseal(c, k) \in {c, [c EXCEPT !.key = None]} /\ Seal(c, k) \in {c, [c EXCEPT !.key = k]}
    BY DEF Unseal, Seal
  <2>4. \A d \in Cred : d # None BY DEF Distinct
  <2> QED BY <1>2, <2>1, <2>2, <2>3, <2>4 DEF Same
<1> QED BY <1>1, <1>2

LEMMA Loaded ==
  ASSUME Typed, Distinct, NEW a \in Actors, file # Torn
  PROVE  /\ LoadStore(a) \in Table
         /\ \A p \in Providers : Same(LoadStore(a)[p], Contents[p])
<1>1. key[a] \in Keys \cup {None} BY DEF Typed
<1>2. CASE file = Absent
  BY <1>2 DEF LoadStore, Contents, Same, Table
<1>3. CASE file \in Table
  <2>1. file # Absent BY <1>3, TableIsNoMark
  <2>2. \A p \in Providers : file[p] \in Cred \cup {None} BY <1>3 DEF Table
  <2>3. \A p \in Providers : /\ Unseal(file[p], key[a]) \in Cred \cup {None}
                             /\ Same(Unseal(file[p], key[a]), file[p])
    BY <1>1, <2>2, Sealed
  <2>4. LoadStore(a) = [p \in Providers |-> Unseal(file[p], key[a])] BY <2>1 DEF LoadStore
  <2> QED BY <2>1, <2>3, <2>4 DEF Table, Contents
<1> QED BY <1>2, <1>3 DEF Typed

LEMMA SameIsSound ==
  ASSUME NEW c, NEW d, Same(c, d), Sound(d)
  PROVE  Sound(c) /\ (Tok(c) <=> Tok(d)) /\ (Tok(c) => c.refresh = d.refresh)
BY DEF Same, Sound, Tok

(* What has been said of tokens stays so while others are given out. *)
Grown == /\ minted' \in Nat /\ minted <= minted'
         /\ \A k \in 1..minted : owner'[k] = owner[k]

LEMMA SoundStays ==
  ASSUME NEW c \in Cred \cup {None}, Sound(c), minted \in Nat, Grown
  PROVE  Sound(c)'
BY DEF Sound, Grown

LEMMA GrantsStay ==
  ASSUME NEW table \in Table, NEW logins, Grants(table, logins), minted \in Nat, Grown
  PROVE  Grants(table, logins)'
<1>1. \A p \in Providers : table[p] \in Cred \cup {None} BY DEF Table
<1>2. \A p \in Providers : Sound(table[p]) => Sound(table[p])' BY <1>1, SoundStays
<1> QED BY <1>2 DEF Grants

-----------------------------------------------------------------------------
(* Steps of one actor that leave the file alone. *)

OnlyBy(a) ==
  \A b \in Actors : b # a =>
    /\ stage'[b] = stage[b] /\ prov'[b] = prov[b] /\ cred'[b] = cred[b]
    /\ store'[b] = store[b] /\ seen'[b] = seen[b]

StillPending(a) ==
  Pending(a) => /\ stage'[a] \in {"renew", "loaded"}
                /\ prov'[a] = prov[a] /\ cred'[a] = cred[a] /\ seen'[a] = seen[a]

LEMMA ActorStep ==
  ASSUME Good, NEW a \in Actors, OnlyBy(a), Typed', Grown, UNCHANGED <<file, last, saves>>,
         stage[a] # "writing", stage'[a] # "writing", StillPending(a),
         InHands(a)', StillSo(a)',
         \A table \in Table, logins \in Logins :
            Current(table, logins) /\ ~Doomed' /\ Grants(table, logins) /\ Tokens(table)
            => Tokens(table)'
  PROVE  Good'
<1> USE DEF Good
<1>1. \A b \in Actors : b # a => InHands(b)'
  <2> SUFFICES ASSUME NEW b \in Actors, b # a PROVE InHands(b)' OBVIOUS
  <2>1. cred[b] \in Cred \cup {None} /\ minted \in Nat BY DEF Typed
  <2>2. Sound(cred[b]) => Sound(cred[b])' BY <2>1 DEF Sound, Grown, OnlyBy
  <2>3. InHands(b) OBVIOUS
  <2> QED BY <2>2, <2>3 DEF InHands, OnlyBy
<1>2. \A b \in Actors : b # a => StillSo(b)'
  BY DEF StillSo, OnlyBy, Fresh, Contents
<1>3. Writer' BY DEF Writer, OnlyBy
<1>4. ASSUME NEW table \in Table, NEW logins \in Logins, Current(table, logins)'
      PROVE  Consistent(table, logins)'
  <2>1. Current(table, logins)
    <3>1. CASE file = Torn
      <4>1. PICK w \in Actors : stage'[w] = "writing" /\ table = store'[w] /\ logins = Writes(w)'
        BY <1>4, <3>1 DEF Current
      <4>2. w # a BY <4>1
      <4> QED BY <3>1, <4>1, <4>2 DEF Current, OnlyBy, Writes
    <3>2. CASE file # Torn BY <1>4, <3>2 DEF Current, Contents
    <3> QED BY <3>1, <3>2
  <2>2. Consistent(table, logins) BY <2>1
  <2>3. Grants(table, logins)' BY <2>2, GrantsStay DEF Consistent, Typed
  <2>4. Doomed => Doomed'
    <3> SUFFICES ASSUME NEW b \in Actors, Pending(b), ~Fresh(b) PROVE Pending(b)' /\ ~Fresh(b)'
      BY DEF Doomed
    <3>1. CASE b = a BY <3>1 DEF StillPending, Pending, Fresh
    <3>2. CASE b # a BY <3>2 DEF OnlyBy, Pending, Fresh
    <3> QED BY <3>1, <3>2
  <2>5. ~Doomed' => Tokens(table)' BY <2>1, <2>2, <2>4 DEF Consistent
  <2> QED BY <2>3, <2>5 DEF Consistent
<1> QED BY <1>1, <1>2, <1>3, <1>4

(* One that gives out and takes nothing leaves the tokens as they are, if  *)
(* what it now holds is its own.                                           *)
OwnNow(a, table) ==
  Holds(a) => /\ New(a, table) \/ Old(a, table)
              /\ \A b \in Actors : /\ Holds(b) /\ a # b /\ (stage[a] = "set" \/ stage[b] = "set")
                                   => cred[a].refresh # cred[b].refresh

LEMMA QuietTokens ==
  ASSUME NEW a \in Actors, OnlyBy(a), UNCHANGED accepted, StillPending(a),
         NEW table, Tokens(table), OwnNow(a, table)'
  PROVE  Tokens(table)'
<1> USE DEF Tokens
<1>1. Apart(table)' BY DEF Apart
<1>2. Accepted(table)'
  <2> SUFFICES ASSUME NEW p \in Providers, Renewed(p) PROVE Renewed(p)' BY DEF Accepted
  <2>1. PICK b \in Actors : Pending(b) /\ prov[b] = p /\ Tok(cred[b]) /\ cred[b].refresh \in accepted
    BY DEF Renewed
  <2>2. /\ Pending(b)' /\ prov'[b] = p /\ cred'[b] = cred[b]
    BY <2>1 DEF OnlyBy, StillPending, Pending
  <2> QED BY <2>1, <2>2 DEF Renewed
<1>3. \A b \in Actors : b # a => (Holds(b)' <=> Holds(b)) /\ cred'[b] = cred[b] /\ prov'[b] = prov[b]
                                 /\ stage'[b] = stage[b]
  BY DEF OnlyBy, Holds, Pending
<1>4. \A b \in Actors : Own(b, table)'
  BY <1>3 DEF Own, OwnNow, New, Old, Pending
<1>5. \A b \in Actors : Alone(b)'
  <2> SUFFICES ASSUME NEW b \in Actors, NEW d \in Actors, Holds(b)', Holds(d)', b # d,
                      stage'[b] = "set" \/ stage'[d] = "set"
               PROVE  cred'[b].refresh # cred'[d].refresh
    BY DEF Alone
  <2>1. CASE b = a BY <2>1 DEF OwnNow
  <2>2. CASE d = a BY <2>2 DEF OwnNow
  <2>3. CASE b # a /\ d # a BY <1>3, <2>3 DEF Alone
  <2> QED BY <2>1, <2>2, <2>3
<1> QED BY <1>1, <1>2, <1>4, <1>5

LEMMA SameTokens == UNCHANGED <<minted, owner>> /\ minted \in Nat => Grown
BY DEF Grown

(* The steps that take or leave what the others do not know of. *)
LEMMA QuietStep ==
  ASSUME Good, NEW a \in Actors, OnlyBy(a), Typed',
         UNCHANGED <<file, last, saves, minted, owner, accepted>>,
         stage[a] # "writing", stage'[a] # "writing", StillPending(a),
         InHands(a)', StillSo(a)', ~Holds(a)'
  PROVE  Good'
<1>1. Grown BY SameTokens DEF Good, Typed
<1>2. ASSUME NEW table, Tokens(table) PROVE Tokens(table)'
  BY <1>2, QuietTokens DEF OwnNow
<1> QED BY <1>1, <1>2, ActorStep

LEMMA BeginOnly ==
  ASSUME Good, NEW a \in Actors, NEW p \in Providers, NEW s \in States, Begin(a, p, s)
  PROVE  /\ stage' \in [Actors -> States] /\ prov' \in [Actors -> Providers]
         /\ seen' \in [Actors -> Nat]
         /\ stage[a] = "idle" /\ stage'[a] = s /\ prov'[a] = p /\ seen'[a] = saves
         /\ \A b \in Actors : b # a => stage'[b] = stage[b] /\ prov'[b] = prov[b] /\ seen'[b] = seen[b]
BY DEF Good, Typed, Begin, Go

LEMMA LoginKeeps ==
  ASSUME Good, NEW a \in Actors, NEW p \in Providers, Login(a, p)
  PROVE  Good'
<1>1. Begin(a, p, "asked") /\ UNCHANGED <<key, file, config, cred, store, server, told>>
  BY DEF Login
<1>2. Typed' BY <1>1, BeginOnly DEF States, Good, Typed, server, told
<1>3. /\ OnlyBy(a) /\ stage[a] = "idle" /\ stage'[a] = "asked"
      /\ UNCHANGED <<file, last, saves, minted, owner, accepted>>
      /\ seen'[a] = saves /\ saves \in Nat
  BY <1>1, BeginOnly DEF States, OnlyBy, server, told, Good, Typed
<1>4. StillPending(a) /\ InHands(a)' /\ StillSo(a)' /\ ~Holds(a)'
  BY <1>3 DEF StillPending, InHands, StillSo, Holds, Pending
<1> QED BY <1>2, <1>3, <1>4, QuietStep

LEMMA LogoutKeeps ==
  ASSUME Good, NEW a \in Actors, NEW p \in Providers, Logout(a, p)
  PROVE  Good'
<1>1. Begin(a, p, "set") /\ UNCHANGED <<key, file, config, store, server, told>>
      /\ cred' = [cred EXCEPT ![a] = None]
  BY DEF Logout
<1>2. Typed' BY <1>1, BeginOnly DEF States, Good, Typed, server, told
<1>3. /\ OnlyBy(a) /\ stage[a] = "idle" /\ stage'[a] = "set" /\ cred'[a] = None
      /\ UNCHANGED <<file, last, saves, minted, owner, accepted>>
      /\ seen'[a] = saves /\ saves \in Nat
  BY <1>1, BeginOnly DEF States, OnlyBy, server, told, Good, Typed
<1>4. StillPending(a) /\ InHands(a)' /\ StillSo(a)' /\ ~Holds(a)'
  BY <1>3 DEF StillPending, InHands, StillSo, Holds, Pending, Sound, Tok
<1> QED BY <1>2, <1>3, <1>4, QuietStep

(* A pasted token has no grant. *)
LEMMA AuthorizeKeeps ==
  ASSUME Good, NEW a \in Actors, Authorize(a)
  PROVE  Good'
<1> DEFINE pasted == [grant |-> 0, refresh |-> 0, project |-> FALSE, due |-> FALSE, key |-> None]
<1>0. pasted \in Cred /\ pasted.grant = 0 /\ pasted.refresh = 0 BY DEF Cred
<1>1. PICK c \in {pasted, None}, s \in {"exchange", "set", "idle"} :
        cred' = [cred EXCEPT ![a] = c] /\ stage' = [stage EXCEPT ![a] = s]
  BY DEF Authorize, Go
<1>2. stage[a] = "asked" /\ UNCHANGED <<key, file, config, prov, store, ops, seen, server, told>>
  BY DEF Authorize
<1> HIDE DEF pasted
<1>3. Typed' BY <1>0, <1>1, <1>2 DEF Good, Typed, server, told, States
<1>4. /\ OnlyBy(a) /\ stage'[a] = s /\ cred'[a] = c
      /\ UNCHANGED <<file, last, saves, minted, owner, accepted, seen>>
      /\ seen[a] <= saves
  BY <1>1, <1>2 DEF OnlyBy, server, told, Good, Typed, InHands
<1>5. StillPending(a) /\ InHands(a)' /\ StillSo(a)' /\ ~Holds(a)'
  BY <1>0, <1>1, <1>2, <1>4 DEF StillPending, InHands, StillSo, Holds, Pending, Sound, Tok
<1> QED BY <1>1, <1>2, <1>3, <1>4, <1>5, QuietStep

(* What is read is what the file holds. *)
LEMMA GetCredentialKeeps ==
  ASSUME Distinct, Good, NEW a \in Actors, NEW p \in Providers, GetCredential(a, p)
  PROVE  Good'
<1> DEFINE s == IF Readable /\ LoadStore(a)[p] # None THEN "got" ELSE "idle"
           c == IF Readable THEN LoadStore(a)[p] ELSE None
<1>1. /\ Begin(a, p, s) /\ UNCHANGED <<key, file, config, store, server, told>>
      /\ cred' = [cred EXCEPT ![a] = c]
  BY DEF GetCredential
<1>2. c \in Cred \cup {None} /\ (s = "got" => file # Torn /\ c # None /\ Same(c, Contents[p]))
  BY Loaded DEF Good, Readable, Table
<1>3. s \in {"got", "idle"} OBVIOUS
<1> HIDE DEF c, s
<1>4. Typed' BY <1>1, <1>2, <1>3, BeginOnly DEF States, Good, Typed, server, told
<1>5. /\ OnlyBy(a) /\ stage[a] = "idle" /\ stage'[a] = s /\ cred'[a] = c /\ prov'[a] = p
      /\ UNCHANGED <<file, last, saves, minted, owner, accepted>>
      /\ seen'[a] = saves /\ saves \in Nat
  BY <1>1, <1>2, <1>3, BeginOnly DEF States, OnlyBy, server, told, Good, Typed
<1>6. s = "got" => Sound(c)
  <2> SUFFICES ASSUME s = "got" PROVE Sound(c) OBVIOUS
  <2>1. Contents \in Table /\ Current(Contents, last) /\ last \in Logins
    BY <1>2, ContentsTyped DEF Good, Current, Typed
  <2>2. Grants(Contents, last) BY <2>1 DEF Good, Consistent
  <2>3. Sound(Contents[p]) BY <2>2 DEF Grants, Sound
  <2> QED BY <1>2, <2>3, SameIsSound
<1>7. Sound(c) => Sound(cred[a])' BY <1>5 DEF Sound
<1>8. StillPending(a) /\ InHands(a)' /\ ~Holds(a)'
  BY <1>2, <1>3, <1>5, <1>6, <1>7 DEF StillPending, InHands, Holds, Pending
<1>9. StillSo(a)'
  BY <1>2, <1>3, <1>5 DEF StillSo, Contents
<1> QED BY <1>3, <1>4, <1>5, <1>8, <1>9, QuietStep

(* A renewed credential with the token it had is the file's. *)
LEMMA RenewSame ==
  ASSUME Distinct, Good, NEW a \in Actors, OnlyBy(a), Typed',
         UNCHANGED <<file, last, saves, minted, owner, accepted>>,
         stage[a] = "got", stage'[a] = "renew", prov'[a] = prov[a], seen'[a] = seen[a],
         NEW c \in Cred, cred'[a] = c,
         c.grant = cred[a].grant, c.refresh = cred[a].refresh
  PROVE  Good'
<1>1. Grown BY SameTokens DEF Good, Typed
<1>2. cred[a] # None /\ Sound(cred[a]) /\ seen[a] <= saves BY DEF Good, InHands
<1>3. c # None BY DEF Distinct
<1>4. StillPending(a) /\ InHands(a)'
  BY <1>2, <1>3 DEF StillPending, Pending, InHands, Sound
<1>5. Fresh(a) => file # Torn /\ Same(cred[a], Contents[prov[a]]) BY DEF Good, StillSo
<1>6. StillSo(a)'
  BY <1>2, <1>5 DEF StillSo, Fresh, Contents, Same
<1>7. ASSUME NEW table \in Table, NEW logins \in Logins, Current(table, logins), ~Doomed',
             Tokens(table)
      PROVE  Tokens(table)'
  <2>1. Fresh(a) BY <1>7 DEF Doomed, Pending, Fresh
  <2>2. table = Contents BY <1>5, <1>7, <2>1 DEF Current
  <2>3. Holds(a)' => Old(a, table)'
    BY <1>2, <1>5, <2>1, <2>2 DEF Holds, Old, Pending, Tok, Same
  <2>4. ASSUME NEW b \in Actors, Holds(b)', a # b, stage'[b] = "set", Holds(a)'
        PROVE  cred'[a].refresh # cred'[b].refresh
    <3>1. Holds(b) /\ stage[b] = "set" /\ cred'[b] = cred[b]
      BY <2>4 DEF OnlyBy, Holds, Pending
    <3>2. New(b, table) BY <1>7, <3>1 DEF Tokens, Own, Old, Pending
    <3>3. Tok(table[prov[a]]) /\ c.refresh = table[prov[a]].refresh
      BY <2>3, <2>4 DEF Old
    <3>4. prov[a] \in Providers BY DEF Good, Typed
    <3> QED BY <3>1, <3>2, <3>3, <3>4 DEF New
  <2>5. OwnNow(a, table)' BY <2>3, <2>4 DEF OwnNow
  <2> QED BY <1>4, <1>7, <2>5, QuietTokens
<1> QED BY <1>1, <1>4, <1>6, <1>7, ActorStep

(* A fresh token is nobody else's; it may come for the one in the table. *)
LEMMA MintTokens ==
  ASSUME Typed, \A b \in Actors : InHands(b), NEW a \in Actors, OnlyBy(a), ~Pending(a),
         minted' = minted + 1, NEW T, accepted' = (accepted \ T) \cup {minted'},
         stage'[a] \in {"set", "renew"}, prov'[a] = prov[a], cred'[a] # None,
         cred'[a].refresh = minted', cred'[a].grant # 0,
         NEW table \in Table, NEW logins, Grants(table, logins), Tokens(table),
         \A t \in T : /\ stage'[a] = "renew" /\ Tok(table[prov[a]])
                      /\ t = table[prov[a]].refresh
  PROVE  Tokens(table)'
<1> DEFINE m == minted + 1
<1>0. /\ m \in Nat /\ minted \in Nat /\ accepted \subseteq 1..minted /\ prov[a] \in Providers
      /\ minted' = m
  BY DEF Typed
<1>1. \A p \in Providers : Tok(table[p]) => table[p].refresh \in 1..minted
  BY DEF Grants, Sound, Tok
<1>2. \A b \in Actors : Holds(b) => cred[b].refresh \in 1..minted
  BY DEF InHands, Sound, Tok, Holds, Pending
<1>3. \A k \in 1..minted : k # m BY <1>0
<1> HIDE DEF m
<1>4. \A b \in Actors : b # a => /\ Holds(b)' <=> Holds(b)
                                 /\ stage'[b] = stage[b] /\ cred'[b] = cred[b] /\ prov'[b] = prov[b]
  BY DEF OnlyBy, Holds, Pending
<1>5. m \in accepted' /\ \A k : k \in accepted /\ k \notin T => k \in accepted' BY <1>0
<1>6. Apart(table)' BY DEF Apart, Tokens
<1>7. ASSUME NEW q \in Providers, Tok(table[q]), q # prov[a], NEW t \in T
      PROVE  table[q].refresh # t
  BY <1>0, <1>7 DEF Tokens, Apart
<1>8. \A b \in Actors : b # a => Own(b, table)'
  <2> SUFFICES ASSUME NEW b \in Actors, b # a, Holds(b) PROVE (New(b, table) \/ Old(b, table))'
    BY <1>4 DEF Own
  <2>1. CASE New(b, table)
    <3>1. cred[b].refresh \notin T BY <1>0, <2>1 DEF New
    <3> QED BY <1>4, <1>5, <2>1, <3>1 DEF New
  <2>2. CASE Old(b, table) BY <1>4, <2>2 DEF Old, Pending
  <2> QED BY <2>1, <2>2 DEF Tokens, Own
<1>9. New(a, table)' BY <1>0, <1>1, <1>3, <1>5 DEF New
<1>10. Accepted(table)'
  <2> SUFFICES ASSUME NEW p \in Providers, Tok(table[p])
               PROVE  table[p].refresh \in accepted' \/ Renewed(p)'
    BY DEF Accepted
  <2>1. CASE table[p].refresh \in accepted /\ table[p].refresh \notin T BY <1>5, <2>1
  <2>2. CASE table[p].refresh \in T
    <3>1. p = prov[a] /\ stage'[a] = "renew" BY <1>7, <2>2
    <3> QED BY <1>0, <1>5, <3>1 DEF Renewed, Pending, Tok
  <2>3. CASE Renewed(p) /\ table[p].refresh \notin T
    <3>1. PICK b \in Actors : /\ Pending(b) /\ prov[b] = p /\ Tok(cred[b])
                              /\ cred[b].refresh \in accepted
      BY <2>3 DEF Renewed
    <3>2. b # a BY <3>1
    <3>3. New(b, table) \/ Old(b, table) BY <3>1 DEF Tokens, Own, Holds
    <3>4. cred[b].refresh \notin T
      BY <1>0, <2>3, <3>1, <3>3 DEF New, Old
    <3>5. cred'[b].refresh \in accepted' BY <1>4, <1>5, <3>1, <3>2, <3>4
    <3>6. Pending(b)' /\ prov'[b] = p /\ Tok(cred'[b]) BY <1>4, <3>1, <3>2 DEF Pending
    <3> QED BY <3>5, <3>6 DEF Renewed
  <2> QED BY <2>1, <2>2, <2>3 DEF Tokens, Accepted
<1>11. \A b \in Actors : Alone(b)'
  <2> SUFFICES ASSUME NEW b \in Actors, NEW d \in Actors, Holds(b)', Holds(d)', b # d,
                      stage'[b] = "set" \/ stage'[d] = "set"
               PROVE  cred'[b].refresh # cred'[d].refresh
    BY DEF Alone
  <2>1. CASE b = a BY <1>0, <1>2, <1>3, <1>4, <2>1
  <2>2. CASE d = a BY <1>0, <1>2, <1>3, <1>4, <2>2
  <2>3. CASE b # a /\ d # a BY <1>4, <2>3 DEF Alone, Tokens
  <2> QED BY <2>1, <2>2, <2>3
<1> QED BY <1>6, <1>8, <1>9, <1>10, <1>11 DEF Tokens, Own

(* What is said of a fresh token is so, and of the others still. *)
LEMMA Minted ==
  ASSUME Typed, NEW g \in Nat, g # 0, minted' = minted + 1, owner' = Append(owner, g)
  PROVE  /\ Grown /\ owner' \in Seq(Nat) /\ Len(owner') = minted'
         /\ minted' \in 1..minted' /\ owner'[minted'] = g
BY DEF Typed, Grown

LEMMA ExchangeKeeps ==
  ASSUME Distinct, Good, NEW a \in Actors, Exchange(a)
  PROVE  Good'
<1>1. /\ stage[a] = "exchange"
      /\ UNCHANGED <<key, file, config, prov, store, ops, seen, saves, last, excused>>
  BY DEF Exchange, told
<1>2. Typed /\ \A b \in Actors : InHands(b) BY DEF Good
<1>3. CASE stage' = [stage EXCEPT ![a] = "idle"] /\ UNCHANGED <<cred, minted, accepted, owner>>
  <2>1. Typed' /\ OnlyBy(a) /\ stage'[a] = "idle" BY <1>1, <1>2, <1>3 DEF Typed, OnlyBy, States
  <2>2. StillPending(a) /\ InHands(a)' /\ StillSo(a)' /\ ~Holds(a)'
    BY <1>1, <1>2, <1>3, <2>1 DEF StillPending, InHands, StillSo, Holds, Pending
  <2> QED BY <1>1, <1>3, <2>1, <2>2, QuietStep
<1>4. ASSUME NEW known \in BOOLEAN, minted' = minted + 1, accepted' = accepted \cup {minted'},
             owner' = Append(owner, minted'), stage' = [stage EXCEPT ![a] = "set"],
             cred' = [cred EXCEPT ![a] = [grant |-> minted', refresh |-> minted',
                                          project |-> known, due |-> FALSE, key |-> None]]
      PROVE  Good'
  <2> DEFINE c == [grant |-> minted', refresh |-> minted',
                   project |-> known, due |-> FALSE, key |-> None]
  <2>1. minted' \in Nat /\ minted' # 0 BY <1>2, <1>4 DEF Typed
  <2>2. c \in Cred /\ c.grant = minted' /\ c.refresh = minted' BY <2>1 DEF Cred
  <2>3. c # None BY <2>2 DEF Distinct
  <2>4. cred' = [cred EXCEPT ![a] = c] BY <1>4
  <2> HIDE DEF c
  <2>5. /\ Grown /\ owner' \in Seq(Nat) /\ Len(owner') = minted'
        /\ minted' \in 1..minted' /\ owner'[minted'] = minted'
    BY <1>2, <1>4, <2>1, Minted
  <2>6. accepted' \subseteq 1..minted' BY <1>2, <1>4, <2>1 DEF Typed
  <2>7. cred'[a] = c /\ stage'[a] = "set" BY <1>2, <1>4, <2>4 DEF Typed
  <2>t. /\ stage' \in [Actors -> States] /\ cred' \in [Actors -> Cred \cup {None}]
        /\ UNCHANGED <<key, file, prov, store, saves, seen, last>>
    BY <1>1, <1>2, <1>4, <2>2, <2>4 DEF Typed, States
  <2>8. Typed' BY <1>2, <2>1, <2>5, <2>6, <2>t DEF Typed
  <2>9. OnlyBy(a) BY <1>1, <1>2, <1>4, <2>4 DEF OnlyBy, Typed
  <2>10. Sound(cred[a])' BY <2>1, <2>2, <2>5, <2>7 DEF Sound
  <2>11. StillPending(a) /\ InHands(a)' /\ StillSo(a)'
    BY <1>1, <1>2, <2>7, <2>10 DEF StillPending, InHands, StillSo, Pending
  <2>12. ASSUME NEW table \in Table, NEW logins \in Logins, Grants(table, logins), Tokens(table)
         PROVE  Tokens(table)'
    <3>1. accepted' = (accepted \ {}) \cup {minted'} /\ ~Pending(a) /\ prov'[a] = prov[a]
      BY <1>1, <1>4 DEF Pending
    <3>2. \A t \in {} : /\ stage'[a] = "renew" /\ Tok(table[prov[a]])
                         /\ t = table[prov[a]].refresh
      OBVIOUS
    <3>3. cred'[a] # None /\ cred'[a].refresh = minted' /\ cred'[a].grant # 0
          /\ stage'[a] \in {"set", "renew"}
      BY <2>1, <2>2, <2>3, <2>7
    <3> DEFINE T == {}
    <3>4. /\ accepted' = (accepted \ T) \cup {minted'}
          /\ \A t \in T : /\ stage'[a] = "renew" /\ Tok(table[prov[a]])
                          /\ t = table[prov[a]].refresh
      BY <3>1, <3>2
    <3> HIDE DEF T
    <3> QED BY <1>2, <1>4, <2>9, <2>12, <3>1, <3>3, <3>4, MintTokens
  <2> QED BY <1>1, <2>5, <2>7, <2>8, <2>9, <2>11, <2>12, ActorStep
<1> QED BY <1>3, <1>4 DEF Exchange, Go, server

LEMMA RefreshKeeps ==
  ASSUME Distinct, Good, NEW a \in Actors, Refresh(a), ~excused'
  PROVE  Good'
<1>1. /\ stage[a] = "got" /\ cred[a].refresh # 0
      /\ UNCHANGED <<key, file, config, prov, store, ops, seen, saves, last>>
  BY DEF Refresh
<1>2. Typed /\ \A b \in Actors : InHands(b) BY DEF Good
<1>3. cred[a] \in Cred /\ cred[a] # None /\ Sound(cred[a]) /\ seen[a] <= saves
  BY <1>1, <1>2 DEF Typed, InHands
<1>4. cred[a].grant \in Nat /\ cred[a].refresh \in Nat /\ cred[a].grant # 0
  BY <1>1, <1>3 DEF Cred, Sound
<1>5. CASE stage' = [stage EXCEPT ![a] = "idle"] /\ UNCHANGED <<cred, minted, accepted, owner>>
  <2>1. Typed' /\ OnlyBy(a) /\ stage'[a] = "idle" BY <1>1, <1>2, <1>5 DEF Typed, OnlyBy, States
  <2>2. StillPending(a) /\ InHands(a)' /\ StillSo(a)' /\ ~Holds(a)'
    BY <1>1, <1>2, <1>5, <2>1 DEF StillPending, InHands, StillSo, Holds, Pending
  <2> QED BY <1>1, <1>5, <2>1, <2>2, QuietStep
<1>6. \A n \in Nat : /\ Refreshed(cred[a], n) \in Cred
                     /\ Refreshed(cred[a], n).grant = cred[a].grant
                     /\ Refreshed(cred[a], n).refresh = IF n = 0 THEN cred[a].refresh ELSE n
  BY <1>3, <1>4 DEF Refreshed, Cred
<1>7. CASE /\ cred' = [cred EXCEPT ![a] = Refreshed(@, 0)] /\ stage' = [stage EXCEPT ![a] = "renew"]
           /\ UNCHANGED <<minted, accepted, owner>>
  <2> DEFINE c == Refreshed(cred[a], 0)
  <2>1. c \in Cred /\ c.grant = cred[a].grant /\ c.refresh = cred[a].refresh BY <1>6
  <2>2. cred' = [cred EXCEPT ![a] = c] BY <1>7
  <2> HIDE DEF c
  <2>3. /\ stage' \in [Actors -> States] /\ cred' \in [Actors -> Cred \cup {None}]
        /\ UNCHANGED <<key, file, prov, store, saves, seen, last>>
    BY <1>1, <1>2, <1>7, <2>1, <2>2 DEF Typed, States
  <2>4. Typed' BY <1>2, <1>7, <2>3 DEF Typed
  <2>5. OnlyBy(a) /\ stage'[a] = "renew" /\ cred'[a] = c
    BY <1>1, <1>2, <1>7, <2>2 DEF OnlyBy, Typed
  <2> QED BY <1>1, <1>7, <2>1, <2>4, <2>5, RenewSame
<1>8. CASE /\ minted' = minted + 1 /\ owner' = Append(owner, cred[a].grant)
           /\ accepted' = (accepted \ {cred[a].refresh}) \cup {minted'}
           /\ cred' = [cred EXCEPT ![a] = Refreshed(@, minted')]
           /\ stage' = [stage EXCEPT ![a] = "renew"]
  <2> DEFINE c == Refreshed(cred[a], minted')
  <2>1. minted' \in Nat /\ minted' # 0 BY <1>2, <1>8 DEF Typed
  <2>2. c \in Cred /\ c.grant = cred[a].grant /\ c.refresh = minted' BY <1>6, <2>1
  <2>3. c # None BY <2>2 DEF Distinct
  <2>4. cred' = [cred EXCEPT ![a] = c] BY <1>8
  <2> HIDE DEF c
  <2>5. /\ Grown /\ owner' \in Seq(Nat) /\ Len(owner') = minted'
        /\ minted' \in 1..minted' /\ owner'[minted'] = cred[a].grant
    BY <1>2, <1>4, <1>8, Minted
  <2>6. accepted' \subseteq 1..minted'
    <3>1. accepted \subseteq 1..minted /\ minted \in Nat BY <1>2 DEF Typed
    <3>2. accepted' \subseteq accepted \cup {minted'} BY <1>8
    <3>3. 1..minted \subseteq 1..minted' /\ minted' \in 1..minted' BY <1>8, <3>1
    <3> QED BY <3>1, <3>2, <3>3
  <2>7. cred'[a] = c /\ stage'[a] = "renew" BY <1>2, <1>8, <2>4 DEF Typed
  <2>t. /\ stage' \in [Actors -> States] /\ cred' \in [Actors -> Cred \cup {None}]
        /\ UNCHANGED <<key, file, prov, store, saves, seen, last>>
    BY <1>1, <1>2, <1>8, <2>2, <2>4 DEF Typed, States
  <2>8. Typed' BY <1>2, <2>1, <2>5, <2>6, <2>t DEF Typed
  <2>9. OnlyBy(a) BY <1>1, <1>2, <1>8, <2>4 DEF OnlyBy, Typed
  <2>10. Sound(cred[a])' BY <1>4, <2>2, <2>5, <2>7 DEF Sound
  <2>11. Fresh(a) => file # Torn /\ Same(cred[a], Contents[prov[a]])
    BY <1>1 DEF Good, StillSo
  <2>12. StillPending(a) /\ InHands(a)' /\ StillSo(a)'
    <3>1. StillPending(a) /\ InHands(a)'
      BY <1>1, <1>3, <2>3, <2>7, <2>10 DEF StillPending, InHands, Pending
    <3>2. StillSo(a)'
      BY <1>1, <1>3, <2>2, <2>7, <2>11 DEF StillSo, Fresh, Contents, Same
    <3> QED BY <3>1, <3>2
  <2>13. ASSUME NEW table \in Table, NEW logins \in Logins, Current(table, logins), ~Doomed',
                Grants(table, logins), Tokens(table)
         PROVE  Tokens(table)'
    <3>1. Fresh(a) BY <1>1, <2>7, <2>13 DEF Doomed, Pending, Fresh
    <3>2. table = Contents /\ Same(cred[a], table[prov[a]]) BY <2>11, <2>13, <3>1 DEF Current
    <3>3. Tok(table[prov[a]]) /\ cred[a].refresh = table[prov[a]].refresh
      BY <1>3, <1>4, <3>2 DEF Same, Tok
    <3> DEFINE T == {cred[a].refresh}
    <3>4. \A t \in T : stage'[a] = "renew" /\ Tok(table[prov[a]]) /\ t = table[prov[a]].refresh
      BY <2>7, <3>3
    <3>5. accepted' = (accepted \ T) \cup {minted'} BY <1>8
    <3>6. cred'[a] # None /\ cred'[a].refresh = minted' /\ cred'[a].grant # 0
          /\ stage'[a] \in {"set", "renew"} /\ ~Pending(a) /\ prov'[a] = prov[a]
      BY <1>1, <1>4, <2>2, <2>3, <2>7 DEF Pending
    <3> HIDE DEF T
    <3> QED BY <1>2, <1>8, <2>9, <2>13, <3>4, <3>5, <3>6, MintTokens
  <2> QED BY <1>1, <2>5, <2>7, <2>8, <2>9, <2>12, <2>13, ActorStep
<1> QED BY <1>5, <1>7, <1>8 DEF Refresh, Go, server

LEMMA UseKeeps ==
  ASSUME Distinct, Good, NEW a \in Actors, Use(a)
  PROVE  Good'
<1>1. /\ stage[a] = "got" /\ UNCHANGED <<key, file, config, prov, store, ops, seen, server, told>>
  BY DEF Use
<1>2. UNCHANGED <<minted, accepted, owner, saves, last>> BY <1>1 DEF server, told
<1>3. Typed /\ \A b \in Actors : InHands(b) BY DEF Good
<1>4. CASE stage' = [stage EXCEPT ![a] = "idle"] /\ UNCHANGED cred
  <2>1. Typed' /\ OnlyBy(a) /\ stage'[a] = "idle"
    BY <1>1, <1>2, <1>3, <1>4 DEF Typed, OnlyBy, States
  <2>2. StillPending(a) /\ InHands(a)' /\ StillSo(a)' /\ ~Holds(a)'
    BY <1>1, <1>2, <1>3, <1>4, <2>1 DEF StillPending, InHands, StillSo, Holds, Pending
  <2> QED BY <1>1, <1>2, <1>4, <2>1, <2>2, QuietStep
<1>5. CASE cred' = [cred EXCEPT ![a].project = TRUE] /\ stage' = [stage EXCEPT ![a] = "renew"]
  <2> DEFINE c == [cred[a] EXCEPT !.project = TRUE]
  <2>0. cred[a] \in Cred BY <1>1, <1>3 DEF Typed, InHands
  <2>1. c \in Cred /\ c.grant = cred[a].grant /\ c.refresh = cred[a].refresh BY <2>0 DEF Cred
  <2>2. cred' = [cred EXCEPT ![a] = c] BY <1>5
  <2> HIDE DEF c
  <2>3. /\ stage' \in [Actors -> States] /\ cred' \in [Actors -> Cred \cup {None}]
        /\ UNCHANGED <<key, file, prov, store, saves, seen, last>>
    BY <1>1, <1>2, <1>3, <1>5, <2>1, <2>2 DEF Typed, States
  <2>4. Typed' BY <1>2, <1>3, <2>3 DEF Typed
  <2>5. OnlyBy(a) /\ stage'[a] = "renew" /\ cred'[a] = c
    BY <1>1, <1>3, <1>5, <2>2 DEF OnlyBy, Typed
  <2> QED BY <1>1, <1>2, <2>1, <2>4, <2>5, RenewSame
<1> QED BY <1>4, <1>5 DEF Use, Go

(* What is loaded to be saved is the file's but for the provider's own. *)
LEMMA LoadKeeps ==
  ASSUME Distinct, Good, NEW a \in Actors, Load(a), ~excused'
  PROVE  Good'
<1> DEFINE new == [LoadStore(a) EXCEPT ![prov[a]] = cred[a]]
<1>1. /\ stage[a] \in {"set", "renew"} /\ Readable
      /\ UNCHANGED <<key, file, config, prov, cred, ops, minted, accepted, owner, saves, last>>
  BY DEF Load, server
<1>2. Typed /\ \A b \in Actors : InHands(b) BY DEF Good
<1>3. /\ stage' = [stage EXCEPT ![a] = "loaded"] /\ store' = [store EXCEPT ![a] = new]
      /\ seen' = [seen EXCEPT ![a] = IF stage[a] = "renew" THEN @ ELSE saves]
  BY <1>1 DEF Load, Go
<1>4. file # Torn BY <1>1 DEF Readable
<1>5. /\ new \in Table /\ new[prov[a]] = cred[a]
      /\ \A q \in Providers : q # prov[a] => Same(new[q], Contents[q])
  <2>1. /\ LoadStore(a) \in Table
        /\ \A p \in Providers : Same(LoadStore(a)[p], Contents[p])
    BY <1>2, <1>4, Loaded
  <2> QED BY <1>2, <2>1 DEF Table, Typed
<1> HIDE DEF new
<1>6. /\ stage' \in [Actors -> States] /\ store' \in [Actors -> Table \cup {None}]
      /\ seen' \in [Actors -> Nat]
  BY <1>2, <1>3, <1>5 DEF Typed, States
<1>7. Typed' BY <1>1, <1>2, <1>6 DEF Typed
<1>8. /\ OnlyBy(a) /\ stage'[a] = "loaded" /\ store'[a] = new
      /\ seen'[a] = IF stage[a] = "renew" THEN seen[a] ELSE saves
  BY <1>1, <1>2, <1>3 DEF OnlyBy, Typed
<1>9. StillPending(a) BY <1>1, <1>8 DEF StillPending, Pending
<1>10. InHands(a)'
  <2>1. Sound(cred[a]) /\ seen[a] <= saves /\ saves \in Nat BY <1>1, <1>2 DEF InHands, Typed
  <2> QED BY <1>1, <1>5, <1>8, <2>1 DEF InHands, Sound
<1>11. StillSo(a)' BY <1>1, <1>4, <1>5, <1>8 DEF StillSo, Contents
<1>12. ASSUME NEW table, Tokens(table) PROVE Tokens(table)'
  <2>1. Holds(a)' => Holds(a)
    <3>1. stage[a] = "set" \/ Pending(a) BY <1>1 DEF Pending
    <3>2. Tok(cred[a])' => Tok(cred[a]) BY <1>1 DEF Tok
    <3> QED BY <3>1, <3>2 DEF Holds
  <2>2. Holds(a) => (New(a, table) \/ Old(a, table))'
    <3> SUFFICES ASSUME Holds(a) PROVE (New(a, table) \/ Old(a, table))' OBVIOUS
    <3>1. New(a, table) \/ Old(a, table) BY <1>12 DEF Tokens, Own
    <3> QED BY <1>1, <1>8, <3>1 DEF New, Old, Pending
  <2>3. ASSUME NEW b \in Actors, Holds(a), Holds(b)', a # b, stage'[b] = "set"
        PROVE  cred'[a].refresh # cred'[b].refresh
    <3>1. Holds(b) /\ stage[b] = "set" BY <1>8, <2>3 DEF OnlyBy, Holds, Pending
    <3> QED BY <1>1, <1>12, <2>3, <3>1 DEF Tokens, Alone
  <2>4. OwnNow(a, table)' BY <1>8, <2>1, <2>2, <2>3 DEF OwnNow
  <2> QED BY <1>1, <1>8, <1>9, <1>12, <2>4, QuietTokens
<1>13. Grown BY <1>1, <1>2, SameTokens DEF Typed
<1> QED BY <1>1, <1>7, <1>8, <1>9, <1>10, <1>11, <1>12, <1>13, ActorStep

(* A killed process that waited to save has lost an answer. *)
LEMMA KillKeeps ==
  ASSUME Good, NEW a \in Actors, Kill(a), ~excused'
  PROVE  Good'
<1>1. /\ stage[a] \notin {"renew", "loaded", "writing"} /\ stage' = [stage EXCEPT ![a] = "idle"]
      /\ UNCHANGED <<key, file, prov, cred, store, seen, minted, accepted, owner, saves, last>>
  BY DEF Kill, Go, server
<1>2. Typed /\ \A b \in Actors : InHands(b) BY DEF Good
<1>3. Typed' /\ OnlyBy(a) /\ stage'[a] = "idle" BY <1>1, <1>2 DEF Typed, OnlyBy, States
<1>4. StillPending(a) /\ InHands(a)' /\ StillSo(a)' /\ ~Holds(a)'
  BY <1>1, <1>2, <1>3 DEF StillPending, InHands, StillSo, Holds, Pending
<1> QED BY <1>1, <1>3, <1>4, QuietStep

(* One that writes to a file without a name leaves no trace. *)
LEMMA WriteNowhere ==
  ASSUME Good, NEW a \in Actors, Write(a), stage[a] = "unlinked"
  PROVE  Good'
<1>1. /\ stage' = [stage EXCEPT ![a] = "idle"]
      /\ UNCHANGED <<key, file, prov, cred, store, seen, minted, accepted, owner, saves, last>>
  BY DEF Write, Go, server
<1>2. Typed /\ \A b \in Actors : InHands(b) BY DEF Good
<1>3. Typed' /\ OnlyBy(a) /\ stage'[a] = "idle" BY <1>1, <1>2 DEF Typed, OnlyBy, States
<1>4. StillPending(a) /\ InHands(a)' /\ StillSo(a)' /\ ~Holds(a)'
  BY <1>1, <1>2, <1>3 DEF StillPending, InHands, StillSo, Holds, Pending
<1> QED BY <1>1, <1>3, <1>4, QuietStep

-----------------------------------------------------------------------------
(* Steps that change the file. *)

LEMMA WritesTyped ==
  ASSUME Typed, NEW a \in Actors
  PROVE  Writes(a) \in Logins
<1>1. cred[a] # None => cred[a].grant \in Nat BY DEF Typed, Cred
<1> QED BY <1>1 DEF Typed, Writes, Logins

LEMMA SomeTable ==
  ASSUME Good
  PROVE  \E table \in Table, logins \in Logins : Current(table, logins)
<1>1. CASE file = Torn
  <2>1. PICK w \in Actors : stage[w] = "writing" BY <1>1 DEF Good, Writer
  <2>2. store[w] \in Table /\ Writes(w) \in Logins
    BY <2>1, WritesTyped DEF Good, InHands
  <2> QED BY <1>1, <2>1, <2>2 DEF Current
<1>2. CASE file # Torn
  BY <1>2, ContentsTyped DEF Current, Good, Typed
<1> QED BY <1>1, <1>2

(* Tables that say the same are as good as each other. *)
LEMMA SameTable ==
  ASSUME NEW t, NEW u, \A p \in Providers : Same(u[p], t[p]), NEW logins,
         \A a \in Actors : prov[a] \in Providers
  PROVE  /\ Grants(t, logins) => Grants(u, logins)
         /\ Tokens(t) => Tokens(u)
<1>1. \A p \in Providers : /\ u[p] = None <=> t[p] = None
                           /\ u[p] # None => u[p].grant = t[p].grant /\ u[p].refresh = t[p].refresh
                           /\ Tok(u[p]) <=> Tok(t[p])
  BY DEF Same, Tok
<1>2. Grants(t, logins) => Grants(u, logins) BY <1>1 DEF Grants, Sound
<1>3. \A p \in Providers : Tok(u[p]) => u[p].refresh = t[p].refresh BY <1>1 DEF Tok
<1>4. ASSUME Tokens(t) PROVE Tokens(u)
  <2>1. Apart(u) /\ Accepted(u) BY <1>1, <1>3, <1>4 DEF Tokens, Apart, Accepted
  <2>2. \A a \in Actors : New(a, t) => New(a, u) BY <1>1, <1>3 DEF New
  <2>3. \A a \in Actors : Old(a, t) => Old(a, u) BY <1>1, <1>3 DEF Old
  <2> QED BY <1>4, <2>1, <2>2, <2>3 DEF Tokens, Own
<1> QED BY <1>2, <1>4

(* One who truncates the file is not stale; all others are, now. *)
LEMMA TruncateKeeps ==
  ASSUME Distinct, Good, NEW a \in Actors, TruncateStore(a), ~excused'
  PROVE  Good'
<1>1. /\ stage[a] = "loaded" /\ seen[a] = saves /\ file # Torn /\ file' = Torn
      /\ stage' = [stage EXCEPT ![a] = "writing"] /\ saves' = saves + 1
      /\ UNCHANGED <<key, prov, cred, store, seen, minted, accepted, owner, last>>
  BY DEF TruncateStore, Go, server
<1>2. Typed /\ \A b \in Actors : InHands(b) BY DEF Good
<1>3. Typed' BY <1>1, <1>2 DEF Typed, States
<1>4. stage'[a] = "writing" /\ \A b \in Actors : b # a => stage'[b] = stage[b] BY <1>1, <1>2 DEF Typed
<1>5. \A b \in Actors : stage[b] # "writing" BY <1>1 DEF Good, Writer
<1>6. Writer' BY <1>1, <1>4, <1>5 DEF Writer
<1>7. \A b \in Actors : seen'[b] <= saves /\ seen'[b] \in Nat /\ saves \in Nat
  BY <1>1, <1>2 DEF InHands, Typed
<1>8. \A b \in Actors : ~Fresh(b)' BY <1>1, <1>7 DEF Fresh
<1>9. \A b \in Actors : InHands(b)' /\ StillSo(b)'
  <2> SUFFICES ASSUME NEW b \in Actors PROVE InHands(b)' /\ StillSo(b)' OBVIOUS
  <2>0. StillSo(b)' BY <1>8 DEF StillSo
  <2>1. seen'[b] <= saves' BY <1>1, <1>7
  <2>2. Sound(cred[b]) => Sound(cred[b])' BY <1>1 DEF Sound
  <2> QED BY <1>1, <1>2, <1>4, <2>0, <2>1, <2>2 DEF InHands
<1>t. PICK t : t = store[a] OBVIOUS
<1> DEFINE p == prov[a]  c == cred[a]
<1>10. /\ t \in Table /\ p \in Providers /\ Sound(c) /\ Fresh(a) /\ t[p] = c
       /\ \A q \in Providers : q # p => Same(t[q], Contents[q])
  BY <1>1, <1>2, <1>t DEF Good, InHands, StillSo, Fresh, Typed
<1>11. Grants(Contents, last) /\ (Doomed \/ Tokens(Contents))
  BY <1>1, <1>2, ContentsTyped DEF Good, Current, Consistent, Typed
<1>12. \A q \in Providers : /\ q # p => Writes(a)[q] = last[q]
                            /\ Writes(a)[p] = IF c = None THEN None ELSE c.grant
  BY <1>2, <1>10 DEF Writes, Typed, Logins
<1>13. Grants(t, Writes(a))
  <2> SUFFICES ASSUME NEW q \in Providers
               PROVE  /\ (t[q] = None) <=> (Writes(a)[q] = None)
                      /\ t[q] # None => Sound(t[q]) /\ t[q].grant = Writes(a)[q]
    BY DEF Grants
  <2>1. CASE q = p
    <3>1. c # None => c.grant \in Nat BY <1>2 DEF Typed, Cred
    <3> QED BY <1>10, <1>12, <2>1, <3>1 DEF Distinct
  <2>2. CASE q # p
    <3>1. Same(t[q], Contents[q]) BY <1>10, <2>2
    <3> QED BY <1>11, <1>12, <2>2, <3>1 DEF Grants, Same, Sound
  <2> QED BY <2>1, <2>2
<1>14. ASSUME ~Doomed' PROVE Tokens(t)'
  <2>1. \A b \in Actors : b # a => ~Pending(b)
    BY <1>4, <1>8, <1>14 DEF Doomed, Pending
  <2>2. Tokens(Contents) BY <1>10, <1>11, <2>1 DEF Doomed
  <2>3. Holds(a) <=> Tok(c) BY <1>1 DEF Holds, Pending
  <2>4. \A q \in Providers : q # p => /\ Tok(t[q]) <=> Tok(Contents[q])
                                      /\ Tok(t[q]) => t[q].refresh = Contents[q].refresh
    BY <1>10 DEF Same, Tok
  <2>5. Tok(c) => \/ New(a, Contents)
                  \/ Tok(Contents[p]) /\ c.refresh = Contents[p].refresh
    BY <2>2, <2>3 DEF Tokens, Own, Old
  <2>6. \A q \in Providers : q # p /\ Tok(t[q]) /\ Tok(c) => t[q].refresh # c.refresh
    BY <1>10, <2>2, <2>4, <2>5 DEF New, Tokens, Apart
  <2>7. Apart(t)
    <3> SUFFICES ASSUME NEW q \in Providers, NEW r \in Providers, q # r, Tok(t[q]), Tok(t[r])
                 PROVE  t[q].refresh # t[r].refresh
      BY DEF Apart
    <3>1. CASE q = p \/ r = p BY <1>10, <2>6, <3>1
    <3>2. CASE q # p /\ r # p BY <2>2, <2>4, <3>2 DEF Tokens, Apart
    <3> QED BY <3>1, <3>2
  <2>8. \A q \in Providers : Tok(Contents[q]) =>
          Contents[q].refresh \in accepted \/ (q = p /\ Tok(c) /\ c.refresh \in accepted)
    BY <2>1, <2>2 DEF Tokens, Accepted, Renewed
  <2>9. \A q \in Providers : Tok(t[q]) => t[q].refresh \in accepted
    <3> SUFFICES ASSUME NEW q \in Providers, Tok(t[q]) PROVE t[q].refresh \in accepted OBVIOUS
    <3>1. CASE q # p BY <2>4, <2>8, <3>1
    <3>2. CASE q = p BY <1>10, <2>5, <2>8, <3>2 DEF New
    <3> QED BY <3>1, <3>2
  <2>10. \A b \in Actors : Holds(b)' => b # a /\ Holds(b) /\ stage[b] = "set" /\ stage'[b] = "set"
    BY <1>1, <1>4, <2>1 DEF Holds, Pending
  <2>11. \A b \in Actors : Alone(b)'
    <3> SUFFICES ASSUME NEW b \in Actors, NEW d \in Actors, Holds(b)', Holds(d)', b # d
                 PROVE  cred'[b].refresh # cred'[d].refresh
      BY DEF Alone
    <3> QED BY <1>1, <2>2, <2>10 DEF Tokens, Alone
  <2>12. ASSUME NEW b \in Actors, Holds(b)' PROVE New(b, t)'
    <3>1. New(b, Contents) BY <2>2, <2>10, <2>12 DEF Tokens, Own, Old, Pending
    <3>2. ASSUME NEW q \in Providers, Tok(t[q]) PROVE t[q].refresh # cred[b].refresh
      <4>1. CASE q # p BY <2>4, <3>1, <3>2, <4>1 DEF New
      <4>2. CASE q = p
        <5>1. Holds(a) /\ Holds(b) /\ b # a /\ stage[b] = "set" BY <1>10, <2>3, <2>10, <2>12, <3>2, <4>2
        <5> QED BY <1>10, <2>2, <4>2, <5>1 DEF Tokens, Alone
      <4> QED BY <4>1, <4>2
    <3> QED BY <1>1, <3>1, <3>2 DEF New
  <2> QED BY <1>1, <2>7, <2>9, <2>11, <2>12 DEF Tokens, Apart, Accepted, Own
<1>15. ASSUME NEW table \in Table, NEW logins \in Logins, Current(table, logins)'
       PROVE  Consistent(table, logins)'
  <2>1. table = t /\ logins = Writes(a)
    BY <1>1, <1>4, <1>5, <1>15, <1>t DEF Current, Writes
  <2>2. Grants(table, logins) BY <1>13, <2>1
  <2>3. Grants(table, logins)' BY <1>1, <2>2 DEF Grants, Sound
  <2>4. ~Doomed' => Tokens(table)' BY <1>14, <2>1
  <2> QED BY <2>3, <2>4 DEF Consistent
<1> QED BY <1>3, <1>6, <1>9, <1>15 DEF Good

(* What is written is what was to be. *)
LEMMA WriteKeeps ==
  ASSUME Distinct, Good, NEW a \in Actors, Write(a)
  PROVE  Good'
<1>0. CASE stage[a] = "unlinked" BY <1>0, WriteNowhere
<1>w. CASE stage[a] = "writing"
  <2>1. /\ stage' = [stage EXCEPT ![a] = "idle"] /\ last' = Writes(a)
        /\ file' = [p \in Providers |-> Seal(store[a][p], key[a])]
        /\ UNCHANGED <<key, prov, cred, store, seen, minted, accepted, owner, saves>>
    BY <1>w DEF Write, Go, server, Writes
  <2>2. Typed /\ \A b \in Actors : InHands(b) BY DEF Good
  <2>3. file = Torn /\ \A b \in Actors : stage[b] = "writing" => b = a
    BY <1>w DEF Good, Writer
  <2>t. PICK t : t = store[a] OBVIOUS
  <2>u. PICK u : u = file' OBVIOUS
  <2>4. t \in Table /\ key[a] \in Keys \cup {None} BY <2>2, <2>t, <1>w DEF InHands, Typed
  <2>5. \A p \in Providers : t[p] \in Cred \cup {None} BY <2>4 DEF Table
  <2>6. u \in Table /\ \A p \in Providers : Same(u[p], t[p])
    <3>1. u = [p \in Providers |-> Seal(t[p], key[a])] BY <2>1, <2>t, <2>u
    <3> QED BY <2>4, <2>5, <3>1, Sealed DEF Table
  <2>7. u # Absent /\ u # Torn BY <2>6, TableIsNoMark
  <2>8. Writes(a) \in Logins BY <2>2, WritesTyped
  <2>9. Typed' BY <2>1, <2>2, <2>6, <2>8, <2>u DEF Typed, States
  <2>10. stage'[a] = "idle" /\ \A b \in Actors : b # a => stage'[b] = stage[b] BY <2>1, <2>2 DEF Typed
  <2>11. Writer' BY <2>3, <2>7, <2>10, <2>u DEF Writer
  <2>12. \A b \in Actors : InHands(b)' /\ StillSo(b)'
    <3> SUFFICES ASSUME NEW b \in Actors PROVE InHands(b)' /\ StillSo(b)' OBVIOUS
    <3>1. Sound(cred[b]) => Sound(cred[b])' BY <2>1 DEF Sound
    <3>2. InHands(b)' BY <2>1, <2>2, <2>10, <3>1 DEF InHands
    <3>3. Fresh(b)' => stage'[b] \notin {"got", "renew", "loaded"}
      BY <2>1, <2>3, <2>10 DEF Good, StillSo, Fresh
    <3> QED BY <3>2, <3>3 DEF StillSo
  <2>13. ASSUME NEW table \in Table, NEW logins \in Logins, Current(table, logins)'
         PROVE  Consistent(table, logins)'
    <3>1. table = u /\ logins = Writes(a)
      BY <2>1, <2>7, <2>13, <2>u DEF Current, Contents
    <3>2. Current(t, Writes(a)) BY <2>3, <2>t, <1>w DEF Current
    <3>3. Grants(t, logins) /\ (Doomed \/ Tokens(t))
      BY <2>4, <2>8, <3>1, <3>2 DEF Good, Consistent
    <3>4. \A b \in Actors : prov[b] \in Providers BY <2>2 DEF Typed
    <3>5. Grants(table, logins) /\ (Doomed \/ Tokens(table))
      BY <2>6, <3>1, <3>3, <3>4, SameTable
    <3>6. Grants(table, logins)' BY <2>1, <3>5 DEF Grants, Sound
    <3>7. \A b \in Actors : /\ Pending(b)' <=> Pending(b)
                            /\ Holds(b)' <=> Holds(b)
                            /\ stage'[b] = "set" <=> stage[b] = "set"
      BY <2>1, <2>10, <1>w DEF Pending, Holds
    <3>8. Doomed => Doomed' BY <2>1, <3>7 DEF Doomed, Fresh
    <3>9. Tokens(table) => Tokens(table)'
      <4> SUFFICES ASSUME Tokens(table) PROVE Tokens(table)' OBVIOUS
      <4>1. Apart(table)' BY DEF Tokens, Apart
      <4>2. Accepted(table)' BY <2>1, <3>7 DEF Tokens, Accepted, Renewed
      <4>3. \A b \in Actors : Own(b, table)' BY <2>1, <3>7 DEF Tokens, Own, New, Old
      <4>4. \A b \in Actors : Alone(b)' BY <2>1, <3>7 DEF Tokens, Alone
      <4> QED BY <4>1, <4>2, <4>3, <4>4 DEF Tokens
    <3> QED BY <3>5, <3>6, <3>8, <3>9 DEF Consistent
  <2> QED BY <2>9, <2>11, <2>12, <2>13 DEF Good
<1> QED BY <1>0, <1>w DEF Write

(* With the file everything goes that would have to be renewed; who waits  *)
(* to save is stale.                                                       *)
LEMMA LogoutAllKeeps ==
  ASSUME Distinct, Good, NEW a \in Actors, LogoutAll(a)
  PROVE  Good'
<1> DEFINE nobody == [p \in Providers |-> None]
<1>1. /\ file' = Absent /\ saves' = saves + 1 /\ last' = nobody
      /\ stage' = [b \in Actors |-> IF stage[b] = "writing" THEN "unlinked" ELSE stage[b]]
      /\ UNCHANGED <<key, prov, cred, store, seen, minted, accepted, owner>>
  BY DEF LogoutAll, server
<1>2. Typed /\ \A b \in Actors : InHands(b) BY DEF Good
<1>3. nobody \in Logins /\ nobody \in Table BY DEF Logins, Table
<1>4. Typed' BY <1>1, <1>2, <1>3 DEF Typed, States
<1>5. \A b \in Actors : stage'[b] # "writing" /\ (stage[b] = stage'[b] \/ stage'[b] = "unlinked")
  BY <1>1
<1>6. Writer' BY <1>1, <1>5, AbsentIsNotTorn DEF Writer
<1>7. \A b \in Actors : seen'[b] <= saves /\ seen'[b] \in Nat /\ saves \in Nat
  BY <1>1, <1>2 DEF InHands, Typed
<1>8. \A b \in Actors : ~Fresh(b)' BY <1>1, <1>7 DEF Fresh
<1>9. \A b \in Actors : InHands(b)' /\ StillSo(b)'
  <2> SUFFICES ASSUME NEW b \in Actors PROVE InHands(b)' /\ StillSo(b)' OBVIOUS
  <2>0. StillSo(b)' BY <1>8 DEF StillSo
  <2>1. seen'[b] <= saves' BY <1>1, <1>7
  <2>2. Sound(cred[b]) => Sound(cred[b])' BY <1>1 DEF Sound
  <2> QED BY <1>1, <1>2, <1>5, <2>0, <2>1, <2>2 DEF InHands
<1>10. ASSUME NEW table \in Table, NEW logins \in Logins, Current(table, logins)'
       PROVE  Consistent(table, logins)'
  <2>1. table = nobody /\ logins = nobody BY <1>1, <1>10, AbsentIsNotTorn DEF Current, Contents
  <2>2. \A p \in Providers : table[p] = None /\ logins[p] = None BY <2>1
  <2>3. Grants(table, logins)' BY <2>2 DEF Grants
  <2>4. ASSUME ~Doomed' PROVE Tokens(table)'
    <3>1. \A b \in Actors : ~Pending(b)' BY <1>8, <2>4 DEF Doomed
    <3>2. \A b \in Actors : ~Pending(b) BY <1>1, <3>1 DEF Pending
    <3>3. PICK t \in Table, l \in Logins : Current(t, l) BY SomeTable
    <3>4. Tokens(t) BY <3>2, <3>3 DEF Good, Consistent, Doomed
    <3>5. \A b \in Actors : Holds(b)' => Holds(b) /\ stage[b] = "set"
      BY <1>1, <1>5, <3>1 DEF Holds, Pending
    <3>6. \A b \in Actors : Holds(b)' => cred'[b].refresh \in accepted'
      BY <1>1, <3>2, <3>4, <3>5 DEF Tokens, Own, New, Old
    <3>7. \A b \in Actors : Own(b, table)' BY <2>2, <3>6 DEF Own, New, Tok
    <3>8. \A b \in Actors : Alone(b)' BY <1>1, <3>4, <3>5 DEF Alone, Tokens
    <3>9. Apart(table)' /\ Accepted(table)' BY <2>2 DEF Apart, Accepted, Tok
    <3> QED BY <3>7, <3>8, <3>9 DEF Tokens
  <2> QED BY <2>3, <2>4 DEF Consistent
<1> QED BY <1>4, <1>6, <1>9, <1>10 DEF Good

(* An access token that comes to its end leaves the refresh token alone. *)
LEMMA ExpireKeeps ==
  ASSUME Distinct, Good, NEW p \in Providers, Expire(p)
  PROVE  Good'
<1> DEFINE late == [file[p] EXCEPT !.due = TRUE]
<1>1. /\ file # Absent /\ file # Torn /\ file[p] # None /\ file' = [file EXCEPT ![p] = late]
      /\ UNCHANGED <<key, stage, prov, cred, store, seen, minted, accepted, owner, saves, last>>
  BY DEF Expire, inHands, server, told
<1>2. Typed /\ \A b \in Actors : InHands(b) BY DEF Good
<1>3. file \in Table /\ file[p] \in Cred BY <1>1, <1>2 DEF Typed, Table
<1>4. late \in Cred /\ late.grant = file[p].grant /\ late.refresh = file[p].refresh
  BY <1>3 DEF Cred
<1> HIDE DEF late
<1>u. PICK u : u = file' OBVIOUS
<1>5. u \in Table /\ \A q \in Providers : Same(u[q], file[q])
  <2>1. u[p] = late /\ \A q \in Providers : q # p => u[q] = file[q] BY <1>1, <1>3, <1>u DEF Table
  <2>2. u \in Table BY <1>1, <1>3, <1>4, <1>u DEF Table
  <2>3. late # None BY <1>4 DEF Distinct
  <2> QED BY <1>1, <1>4, <2>1, <2>2, <2>3 DEF Same
<1>6. u # Absent /\ u # Torn BY <1>5, TableIsNoMark
<1>7. Typed' BY <1>1, <1>2, <1>5, <1>u DEF Typed
<1>8. Writer' BY <1>1, <1>6, <1>u DEF Writer, Good
<1>9. Contents = file /\ Contents' = u BY <1>1, <1>6, <1>u DEF Contents
<1>10. \A q \in Providers : /\ u[q] = None <=> file[q] = None
                            /\ u[q] # None => u[q].grant = file[q].grant
                                              /\ u[q].refresh = file[q].refresh
  BY <1>5 DEF Same
<1>11. ASSUME NEW b \in Actors PROVE InHands(b)' /\ StillSo(b)'
  <2>1. Sound(cred[b]) => Sound(cred[b])' BY <1>1 DEF Sound
  <2>2. InHands(b)' BY <1>1, <1>2, <2>1 DEF InHands
  <2>3. StillSo(b) /\ prov[b] \in Providers BY <1>2 DEF Good, Typed
  <2>4. StillSo(b)' BY <1>1, <1>6, <1>9, <1>10, <1>u, <2>3 DEF StillSo, Fresh, Same
  <2> QED BY <2>2, <2>4
<1>12. ASSUME NEW table \in Table, NEW logins \in Logins, Current(table, logins)'
       PROVE  Consistent(table, logins)'
  <2>1. table = u /\ logins = last BY <1>1, <1>6, <1>9, <1>12, <1>u DEF Current
  <2>2. Current(file, last) /\ last \in Logins BY <1>1, <1>2, <1>9 DEF Current, Typed
  <2>3. Grants(file, last) /\ (Doomed \/ Tokens(file)) BY <1>3, <2>2 DEF Good, Consistent
  <2>4. \A b \in Actors : prov[b] \in Providers BY <1>2 DEF Typed
  <2>5. Grants(table, logins) /\ (Doomed \/ Tokens(table)) BY <1>5, <2>1, <2>3, <2>4, SameTable
  <2>6. Grants(table, logins)' BY <1>1, <2>5 DEF Grants, Sound
  <2>7. Doomed => Doomed' BY <1>1 DEF Doomed, Pending, Fresh
  <2>8. Tokens(table) => Tokens(table)'
    BY <1>1 DEF Tokens, Apart, Accepted, Renewed, Own, Alone, New, Old, Holds, Pending
  <2> QED BY <2>5, <2>6, <2>7, <2>8 DEF Consistent
<1> QED BY <1>7, <1>8, <1>11, <1>12 DEF Good

-----------------------------------------------------------------------------
LEMMA CredInitially == ASSUME Distinct, CredInit PROVE CredInv
<1>1. Typed
  <2>1. \A S, T, x : x \in T => [y \in S |-> x] \in [S -> T] OBVIOUS
  <2>2. (CHOOSE p \in Providers : TRUE) \in Providers BY DEF Distinct
  <2>3. prov \in [Actors -> Providers] BY <2>2 DEF CredInit
  <2>4. owner \in Seq(Nat) /\ Len(owner) = minted BY DEF CredInit
  <2>5. minted \in Nat /\ accepted \subseteq 1..minted /\ saves \in Nat BY DEF CredInit
  <2>6. stage \in [Actors -> States] BY DEF CredInit, States
  <2>7. /\ cred \in [Actors -> Cred \cup {None}] /\ store \in [Actors -> Table \cup {None}]
        /\ seen \in [Actors -> Nat] /\ last \in Logins
        /\ key \in [Actors -> Keys \cup {None}]
    BY DEF CredInit, Logins
  <2> QED BY <2>3, <2>4, <2>5, <2>6, <2>7 DEF CredInit, Typed
<1>2. \A a \in Actors : stage[a] = "idle" /\ seen[a] <= saves BY DEF CredInit
<1>3. file # Torn /\ Writer BY <1>2, AbsentIsNotTorn DEF CredInit, Writer
<1>4. \A a \in Actors : InHands(a) /\ StillSo(a) BY <1>2 DEF InHands, StillSo
<1>5. ASSUME NEW table, NEW logins, Current(table, logins) PROVE Consistent(table, logins)
  <2>1. \A p \in Providers : table[p] = None /\ logins[p] = None
    BY <1>3, <1>5 DEF CredInit, Current, Contents
  <2>2. Grants(table, logins) BY <2>1 DEF Grants
  <2>3. \A a \in Actors : ~Holds(a) BY <1>2 DEF Holds, Pending
  <2>4. Tokens(table) BY <2>1, <2>3 DEF Tokens, Apart, Accepted, Own, Alone, Tok
  <2> QED BY <2>2, <2>4 DEF Consistent
<1> QED BY <1>1, <1>3, <1>4, <1>5 DEF CredInv, Good, CredInit

LEMMA CredInductive == ASSUME Distinct, CredInv, [CredNext]_credVars PROVE CredInv'
<1>1. excused' \in BOOLEAN /\ (excused => excused')
  <2>1. excused \in BOOLEAN BY DEF CredInv
  <2>2. CASE UNCHANGED credVars BY <2>1, <2>2 DEF credVars
  <2>3. ASSUME NEW a \in Actors, NEW p \in Providers, Login(a, p) \/ Logout(a, p) \/ GetCredential(a, p)
        PROVE  UNCHANGED excused
    BY <2>3 DEF Login, Logout, GetCredential, told
  <2>4. ASSUME NEW a \in Actors, Authorize(a) \/ Exchange(a) \/ LogoutAll(a) \/ Use(a) \/ Write(a)
        PROVE  UNCHANGED excused
    BY <2>4 DEF Authorize, Exchange, LogoutAll, Use, Write, told
  <2>5. ASSUME NEW a \in Actors, Refresh(a) PROVE excused' \in {excused, TRUE}
    BY <2>5 DEF Refresh
  <2>6. ASSUME NEW a \in Actors, Load(a) \/ TruncateStore(a) \/ Kill(a)
        PROVE  excused' \in BOOLEAN /\ (excused => excused')
    BY <2>1, <2>6 DEF Load, TruncateStore, Kill
  <2>7. ASSUME NEW p \in Providers, Expire(p) PROVE UNCHANGED excused
    BY <2>7 DEF Expire, told
  <2> QED BY <2>1, <2>2, <2>3, <2>4, <2>5, <2>6, <2>7 DEF CredNext
<1>2. ASSUME Good, ~excused' PROVE Good'
  <2>1. ASSUME NEW a \in Actors, NEW p \in Providers, Login(a, p) \/ Logout(a, p) \/ GetCredential(a, p)
        PROVE  Good'
    BY <1>2, <2>1, LoginKeeps, LogoutKeeps, GetCredentialKeeps
  <2>2. ASSUME NEW a \in Actors, Authorize(a) \/ Exchange(a) \/ LogoutAll(a) \/ Refresh(a) \/ Use(a)
        PROVE  Good'
    BY <1>2, <2>2, AuthorizeKeeps, ExchangeKeeps, LogoutAllKeeps, RefreshKeeps, UseKeeps
  <2>3. ASSUME NEW a \in Actors, Load(a) \/ TruncateStore(a) \/ Write(a) \/ Kill(a) PROVE Good'
    BY <1>2, <2>3, LoadKeeps, TruncateKeeps, WriteKeeps, KillKeeps
  <2>4. ASSUME NEW p \in Providers, Expire(p) PROVE Good' BY <1>2, <2>4, ExpireKeeps
  <2>5. CASE UNCHANGED credVars
    <3> USE <2>5 DEF credVars
    <3>1. Typed' /\ Writer' BY <1>2 DEF Good, Typed, Writer
    <3>2. \A a \in Actors : InHands(a)' /\ StillSo(a)'
      BY <1>2 DEF Good, InHands, StillSo, Fresh, Sound, Contents
    <3>3. ASSUME NEW table, NEW logins, Current(table, logins)' PROVE Current(table, logins)
      BY <3>3 DEF Current, Contents, Writes
    <3>4. ASSUME NEW table, NEW logins, Grants(table, logins) PROVE Grants(table, logins)'
      BY <3>4 DEF Grants, Sound
    <3>5. Doomed => Doomed' BY DEF Doomed, Pending, Fresh
    <3>6. ASSUME NEW table, Tokens(table) PROVE Tokens(table)'
      BY <3>6 DEF Tokens, Apart, Accepted, Renewed, Own, Alone, New, Old, Holds, Pending
    <3> QED BY <1>2, <3>1, <3>2, <3>3, <3>4, <3>5, <3>6 DEF Good, Consistent
  <2> QED BY <2>1, <2>2, <2>3, <2>4, <2>5 DEF CredNext
<1> QED BY <1>1, <1>2 DEF CredInv

LEMMA GoodRefreshes == ASSUME Distinct, CredInv PROVE StillRefreshes
<1> SUFFICES ASSUME ~excused, file # Torn, NEW p \in Providers
             PROVE  LET c == IF file = Absent THEN None ELSE file[p] IN
                    /\ (c = None) <=> (last[p] = None)
                    /\ c # None /\ c.grant # 0 =>
                         /\ c.refresh # 0 /\ c.grant = last[p] /\ owner[c.refresh] = c.grant
                         /\ c.refresh \in accepted
                            \/ \E a \in Actors : stage[a] \in {"renew", "loaded", "writing"}
  BY DEF StillRefreshes
<1> DEFINE c == IF file = Absent THEN None ELSE file[p]
<1>1. Good /\ Contents \in Table /\ last \in Logins BY ContentsTyped DEF CredInv, Good, Typed
<1>2. Grants(Contents, last) /\ (Doomed \/ Tokens(Contents))
  BY <1>1 DEF Good, Current, Consistent
<1>3. c = Contents[p] BY DEF Contents
<1>4. /\ (c = None) <=> (last[p] = None)
      /\ c # None => Sound(c) /\ c.grant = last[p]
  BY <1>2, <1>3 DEF Grants
<1>5. Tok(c) => c.refresh \in 1..minted /\ owner[c.refresh] = c.grant BY <1>4 DEF Tok, Sound
<1>6. Tok(c) => c.refresh \in accepted \/ \E a \in Actors : stage[a] \in {"renew", "loaded", "writing"}
  BY <1>2, <1>3 DEF Tokens, Accepted, Renewed, Doomed, Pending
<1>7. 0 \notin 1..minted BY <1>1 DEF Good, Typed
<1> HIDE DEF c
<1>8. /\ (c = None) <=> (last[p] = None)
      /\ c # None /\ c.grant # 0 =>
           /\ c.refresh # 0 /\ c.grant = last[p] /\ owner[c.refresh] = c.grant
           /\ c.refresh \in accepted
              \/ \E a \in Actors : stage[a] \in {"renew", "loaded", "writing"}
  BY <1>4, <1>5, <1>6, <1>7 DEF Tok
<1> QED BY <1>8 DEF c

(* As long as no operation overlaps another one's saving and no answer is  *)
(* lost, the store holds the grant of every provider's last login with a   *)
(* refresh token the provider still takes (store.go:82-147).               *)
THEOREM LoginsLast == ASSUME Distinct PROVE CredSpec => []StillRefreshes
<1>1. CredInit => CredInv BY CredInitially
<1>2. CredInv /\ [CredNext]_credVars => CredInv' BY CredInductive
<1>3. CredInv => StillRefreshes BY GoodRefreshes
<1> QED BY <1>1, <1>2, <1>3, PTL DEF CredSpec
=============================================================================
