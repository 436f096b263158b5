---------------------------- MODULE SkillSearch -----------------------------
(***************************************************************************)
(* find_skills (pkg/tools/skills_search.go): a cache of searches that a    *)
(* similar query may hit (pkg/skills/search_cache.go), and behind it the   *)
(* registries, asked all at once under a semaphore (registry.go).  Rounds  *)
(* of several goroutines share one cache.                                  *)
(***************************************************************************)
EXTENDS Naturals, Sequences, FiniteSets

CONSTANTS Queries,     \* normalised queries, not empty
          Trigrams,    \* query -> its trigrams
          Searchers,   \* rounds that may search at the same time
          Registries,
          Best,        \* registry -> the score of what it finds
          MaxEntries, Ttl, MaxConcurrent,
          MaxSearches, SearchTime   \* bounds: searches, and time

ASSUME SearchAssumption ==
  /\ "" \notin Queries
  /\ \A q \in Queries : IsFiniteSet(Trigrams[q])
  /\ \A r \in Registries : Best[r] \in Nat
  /\ MaxEntries \in Nat \ {0} /\ Ttl \in Nat \ {0}

VARIABLES entries,   \* query -> [at, found], or Nothing
          order,     \* the queries, least recently used first
          sought,    \* what each round searches for, or ""
          asking,    \* registry -> "waits", "asks", "found", "failed", of each round
          arrived,   \* the results in the order they came
          time, searches,
          lastUse,   \* history: when each query was last hit or stored
          answer     \* history: the last answer: [to, query, at, results]

searchVars == <<entries, order, sought, asking, arrived, time, searches, lastUse, answer>>

Nothing == [is |-> "nothing"]

SearchInit ==
  /\ entries = [q \in Queries |-> Nothing] /\ order = <<>>
  /\ sought = [s \in Searchers |-> ""]
  /\ asking = [s \in Searchers |-> [r \in Registries |-> "waits"]]
  /\ arrived = [s \in Searchers |-> <<>>]
  /\ time = 0 /\ searches = 0
  /\ lastUse = [q \in Queries |-> 0] /\ answer = Nothing

-----------------------------------------------------------------------------
(* The cache.  (Faulty form of moveToEnd: the key stays where it was.)     *)
Least(S) == CHOOSE i \in S : \A j \in S : i <= j
Append1(o, q) == Append(o, q)
MoveToEnd(o, q) ==
  LET at == {i \in DOMAIN o : o[i] = q} IN
  IF at = {} THEN Append(o, q)
  ELSE [k \in DOMAIN o |-> IF k < Least(at) THEN o[k] ELSE IF k < Len(o) THEN o[k + 1] ELSE q]

FreshEntry(q) == entries[q] # Nothing /\ time - entries[q].at < Ttl

(* jaccardSimilarity: common over all, 1 when both are empty; a hit from   *)
(* seven tenths on.                                                        *)
Common(p, q) == Cardinality(Trigrams[p] \cap Trigrams[q])
All(p, q) == Cardinality(Trigrams[p] \cup Trigrams[q])
Similar(p, q) == 10 * Common(p, q) >= 7 * All(p, q)
Nearer(p1, p2, q) ==
  IF All(p2, q) = 0 THEN FALSE ELSE IF All(p1, q) = 0 THEN TRUE
  ELSE Common(p1, q) * All(p2, q) > Common(p2, q) * All(p1, q)

(* Get: the query itself, or else one of the most similar fresh ones. *)
Hits(q) ==
  IF FreshEntry(q) THEN {q}
  ELSE {p \in Queries : /\ FreshEntry(p) /\ Similar(p, q)
                        /\ \A p2 \in Queries : FreshEntry(p2) => ~Nearer(p2, p, q)}

(* Put: the expired ones go, then the least recently used until there is   *)
(* room for one more.                                                      *)
LivePlaces == {i \in DOMAIN order : FreshEntry(order[i])}
Live == [k \in 1..Cardinality(LivePlaces) |->
           order[CHOOSE i \in LivePlaces : Cardinality({j \in LivePlaces : j <= i}) = k]]
KeptFor(q) ==
  IF (\E i \in DOMAIN Live : Live[i] = q) \/ Len(Live) < MaxEntries THEN Live
  ELSE SubSeq(Live, Len(Live) - MaxEntries + 2, Len(Live))

Hit(s, q, p) ==
  /\ order' = MoveToEnd(order, p)
  /\ lastUse' = [lastUse EXCEPT ![p] = searches']
  /\ answer' = [to |-> q, query |-> p, at |-> entries[p].at, results |-> entries[p].found]
  /\ UNCHANGED <<entries, sought, asking, arrived>>

FindSkills(s, q) ==
  /\ sought[s] = "" /\ searches < MaxSearches /\ searches' = searches + 1
  /\ IF Hits(q) # {} THEN \E p \in Hits(q) : Hit(s, q, p)
     ELSE /\ sought' = [sought EXCEPT ![s] = q]
          /\ asking' = [asking EXCEPT ![s] = [r \in Registries |-> "waits"]]
          /\ arrived' = [arrived EXCEPT ![s] = <<>>]
          /\ UNCHANGED <<entries, order, lastUse, answer>>
  /\ UNCHANGED time

-----------------------------------------------------------------------------
(* SearchAll: a goroutine for each registry, at most MaxConcurrent ask.    *)
Acquire(s, r) ==
  /\ sought[s] # "" /\ asking[s][r] = "waits"
  /\ Cardinality({x \in Registries : asking[s][x] = "asks"}) < MaxConcurrent
  /\ asking' = [asking EXCEPT ![s][r] = "asks"]
  /\ UNCHANGED <<entries, order, sought, arrived, time, searches, lastUse, answer>>
Found(s, r) ==
  /\ asking[s][r] = "asks"
  /\ \/ /\ asking' = [asking EXCEPT ![s][r] = "found"]
        /\ arrived' = [arrived EXCEPT ![s] = Append(@, r)]
     \/ asking' = [asking EXCEPT ![s][r] = "failed"] /\ UNCHANGED arrived
  /\ UNCHANGED <<entries, order, sought, time, searches, lastUse, answer>>

(* sortByScoreDesc: those of the same score stay as they arrived. *)
Before(rs, j, i) == Best[rs[j]] > Best[rs[i]] \/ (Best[rs[j]] = Best[rs[i]] /\ j <= i)
Ranked(rs) ==
  [k \in DOMAIN rs |->
     rs[CHOOSE i \in DOMAIN rs : Cardinality({j \in DOMAIN rs : Before(rs, j, i)}) = k]]

(* Every goroutine has sent: with one success the merged results are       *)
(* stored and returned, with none the search fails.                        *)
Collect(s, limit) ==
  /\ sought[s] # "" /\ \A r \in Registries : asking[s][r] \in {"found", "failed"}
  /\ sought' = [sought EXCEPT ![s] = ""]
  /\ searches' = searches + 1
  /\ LET q == sought[s]
         found == SubSeq(Ranked(arrived[s]), 1, IF Len(arrived[s]) < limit THEN Len(arrived[s])
                                                ELSE limit)
     IN IF found = <<>> THEN UNCHANGED <<entries, order, lastUse, answer>>
        ELSE LET kept == KeptFor(q) IN
             /\ entries' = [p \in Queries |->
                  IF p = q THEN [at |-> time, found |-> found]
                  ELSE IF \E i \in DOMAIN kept : kept[i] = p THEN entries[p] ELSE Nothing]
             /\ order' = MoveToEnd(kept, q)
             /\ lastUse' = [lastUse EXCEPT ![q] = searches']
             /\ answer' = [to |-> q, query |-> q, at |-> time, results |-> found]
  /\ UNCHANGED <<asking, arrived, time>>

SearchTick ==
  /\ time < SearchTime /\ time' = time + 1 /\ answer' = Nothing
  /\ UNCHANGED <<entries, order, sought, asking, arrived, searches, lastUse>>

SearchNext ==
  \/ \E s \in Searchers : \/ \E q \in Queries : FindSkills(s, q)
                          \/ \E r \in Registries : Acquire(s, r) \/ Found(s, r)
                          \/ \E limit \in 1..2 : Collect(s, limit)
  \/ SearchTick

SearchSpec == SearchInit /\ [][SearchNext]_searchVars

-----------------------------------------------------------------------------
(* The list of the least recently used names every stored query once and   *)
(* in the order of their last use, and no more than MaxEntries are kept,   *)
(* so that what is evicted is what nobody asked for longest; and an answer *)
(* is never older than the time to live, nor to a question that is not     *)
(* similar, and has the best first (search_cache.go:51-145).               *)
CacheIsSound ==
  /\ Len(order) <= MaxEntries
  /\ {order[i] : i \in DOMAIN order} = {q \in Queries : entries[q] # Nothing}
  /\ \A i, j \in DOMAIN order : i < j => lastUse[order[i]] < lastUse[order[j]]
  /\ answer # Nothing =>
       /\ time - answer.at < Ttl /\ Similar(answer.query, answer.to)
       /\ \A i, j \in DOMAIN answer.results :
            i < j => Best[answer.results[i]] >= Best[answer.results[j]]
=============================================================================
