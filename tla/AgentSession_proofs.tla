------------------------- MODULE AgentSession_proofs -------------------------
EXTENDS AgentSession, Histories, SequenceTheorems, WellFoundedInduction, TLAPS

(***************************************************************************)
(* A session stays whole, for any number of goroutines and rounds, any     *)
(* failures, crashes and /clear.  Every copy of the history that anybody   *)
(* holds, a request, a compression, the summarizer, a Save or the file, is *)
(* in the order of arrival, and what it lacks is told by a summary that    *)
(* was written before the history was cut, or was given up for good.       *)
(***************************************************************************)

Message == [n : Nat, role : {"user", "assistant", "tool"}, calls : Nat, of : Nat]

(* What is assumed: a compression leaves the first and the last message,   *)
(* and the file holds a conversation from its first message on.            *)
Instance ==
  /\ Summarizer \notin Runners
  /\ KeepLast \in Nat /\ KeepLast >= 2
  /\ MaxCalls \in Nat
  /\ \A h \in OldSessions : h \in Seq(Message) /\ \A i \in 1 .. Len(h) : h[i].n = i

Labels == {"idle", "read", "user", "llm", "tools", "answer", "compress", "set", "rebuild",
           "save", "rename", "summarize", "history", "old", "ask", "SetSummary", "Truncate"}
Copy == [msgs : Seq(Message), summary : SUBSET Nat]
Request == [msgs : Seq(Message), summary : SUBSET Nat, upto : Nat]

(* What a runner's label may be followed by. *)
AfterOK(r) ==
  /\ pc[r] = "idle" => after[r] = "idle"
  /\ pc[r] = "read" => after[r] \in {"user", "llm"}
  /\ pc[r] \in {"save", "rename"} => after[r] \in {"idle", "rebuild", "summarize"}

(* The type of every variable but the counters, and what follows what. *)
SessionTypeOK ==
  /\ next \in Nat \ {0}
  /\ msgs \in Seq(Message) /\ summary \in SUBSET Nat
  /\ disk \in Copy
  /\ pc \in [Savers -> Labels]
  /\ after \in [Runners -> Labels]
  /\ req \in [Runners -> Request]
  /\ turn \in [Runners -> Nat]
  /\ snap \in [Savers -> Copy]
  /\ work \in [Savers -> Copy]
  /\ lost \in SUBSET Nat /\ cleared \in SUBSET Nat
Follows == \A r \in Runners : AfterOK(r)

(* A history of messages that came before the k-th, in order. *)
Sorted(h, k) ==
  /\ h \in Seq(Message)
  /\ \A i \in 1 .. Len(h) : 1 <= h[i].n /\ h[i].n < k
  /\ \A i, j \in 1 .. Len(h) : i < j => h[i].n < h[j].n
Dated(c, k) == Sorted(c.msgs, k) /\ c.summary \subseteq 1 .. k - 1

(* All that anybody holds is in the order of arrival. *)
AllDated ==
  /\ Sorted(msgs, next) /\ summary \subseteq 1 .. next - 1
  /\ Dated(disk, next)
  /\ \A p \in Savers : Dated(snap[p], next) /\ Dated(work[p], next)

(* Nothing said is missing from the store, but for what was given up. *)
NothingMissing == 1 .. next - 1 \subseteq Numbers(msgs) \cup summary \cup lost

(* The summarizer cuts the history only once its summary is stored. *)
StoredFirst ==
  pc[Summarizer] = "Truncate" => work[Summarizer].summary \subseteq summary \cup lost

(* What a round's copy of the history lacks is in the session's summary,   *)
(* and once that is read too, in the round's copy of it.                   *)
ReadOK(r) ==
  /\ pc[r] = "read" =>
       1 .. req[r].upto - 1 \subseteq Numbers(req[r].msgs) \cup summary \cup lost
  /\ pc[r] \in {"user", "llm", "tools"} =>
       1 .. req[r].upto - 1 \subseteq Numbers(req[r].msgs) \cup req[r].summary \cup lost
ReadsWhole == \A r \in Runners : ReadOK(r)

(* What is written to the file, and what is in it, has no gap. *)
Whole(c) == \A n \in Numbers(c.msgs) : 1 .. n \subseteq Numbers(c.msgs) \cup c.summary \cup lost
CopiesWhole == Whole(disk) /\ \A p \in Savers : pc[p] = "rename" => Whole(snap[p])

(* What was cleared nobody holds. *)
Without(c) == cleared \cap (Numbers(c.msgs) \cup c.summary) = {}
Forgotten ==
  /\ cleared \subseteq 1 .. next - 1
  /\ cleared \cap (Numbers(msgs) \cup summary) = {}
  /\ \A p \in Savers : Without(snap[p]) /\ Without(work[p])

SessionInv == /\ SessionTypeOK /\ Follows /\ AllDated /\ NothingMissing
              /\ StoredFirst /\ ReadsWhole /\ CopiesWhole /\ Forgotten

-----------------------------------------------------------------------------
(* Lemmas on histories. *)

LEMMA Least ==
  ASSUME NEW S \in SUBSET Nat, S # {}
  PROVE  \E m \in S : \A k \in S : m <= k
<1>1. PICK m \in S : \A k \in S : ~ (<<k, m>> \in OpToRel(<, Nat))
  BY NatLessThanWellFounded, WFMin
<1>2. \A k \in S : ~ (k < m)
  BY <1>1 DEF OpToRel
<1> QED  BY <1>2

(* A compression finds where to cut, and leaves the last message. *)
LEMMA CutPointExists ==
  ASSUME NEW h \in Seq(Message), Len(h) >= 3
  PROVE  /\ CutPoint(h) \in (Len(h) - 2) \div 2 .. Len(h) - 3
         /\ CutPoint(h) = Len(h) - 3 \/ h[CutPoint(h) + 2].role # "tool"
<1> DEFINE c == Len(h) - 2
           Stops == {mid \in c \div 2 .. c - 1 : mid = c - 1 \/ h[mid + 2].role # "tool"}
<1>1. c \in Nat /\ c >= 1 /\ c \div 2 \in Nat /\ c \div 2 <= c - 1
  OBVIOUS
<1>2. c - 1 \in Stops /\ Stops \in SUBSET Nat
  BY <1>1
<1>3. PICK mid \in Stops : \A k \in Stops : mid <= k
  BY <1>2, Least
<1>4. mid \in c \div 2 .. c - 1 /\ (mid = c - 1 \/ h[mid + 2].role # "tool")
  OBVIOUS
<1>5. ASSUME NEW m \in c \div 2 .. mid - 1 PROVE h[m + 2].role = "tool"
  BY <1>1, <1>3, <1>4
<1>6. \E x \in c \div 2 .. c - 1 :
        /\ x = c - 1 \/ h[x + 2].role # "tool"
        /\ \A m \in c \div 2 .. x - 1 : h[m + 2].role = "tool"
  BY <1>4, <1>5
<1>7. /\ CutPoint(h) \in c \div 2 .. c - 1
      /\ CutPoint(h) = c - 1 \/ h[CutPoint(h) + 2].role # "tool"
  BY <1>6, Zenon DEF CutPoint
<1>8. c - 1 = Len(h) - 3
  OBVIOUS
<1> QED  BY <1>7, <1>8

(* Compressing and truncating drop messages and keep the order. *)
LEMMA CompressSorted ==
  ASSUME KeepLast \in Nat, KeepLast >= 2, NEW k \in Nat, NEW h, Sorted(h, k)
  PROVE  Sorted(Compress(h), k) /\ Numbers(Compress(h)) \subseteq Numbers(h)
<1> SUFFICES ASSUME Len(h) > KeepLast PROVE Sorted(Compressed(h, CutPoint(h)), k)
                                       /\ Numbers(Compressed(h, CutPoint(h))) \subseteq Numbers(h)
  BY DEF Compress, Sorted
<1>1. h \in Seq(Message) /\ Len(h) \in Nat /\ Len(h) >= 3
  BY DEF Sorted
<1>2. PICK mid \in Nat : mid = CutPoint(h) /\ mid <= Len(h) - 3
  BY <1>1, CutPointExists
<1> DEFINE g == Compressed(h, mid)
           n == Len(h) - mid
<1>3. n \in Nat /\ \A i \in 1 .. n : i + mid \in 1 .. Len(h) /\ i \in 1 .. Len(h)
  BY <1>1, <1>2
<1>4. /\ g \in [1 .. n -> Message]
      /\ \A i \in 1 .. n : g[i] = IF i = 1 THEN h[1] ELSE h[i + mid]
  BY <1>1, <1>3 DEF Compressed
<1> HIDE DEF g
<1>5. g \in Seq(Message) /\ Len(g) = n /\ DOMAIN g = 1 .. n
  <2>1. g \in Seq(Message)
    BY <1>3, <1>4, SeqDef, Zenon
  <2>2. DOMAIN g = 1 .. n
    BY <1>4
  <2>3. DOMAIN g = 1 .. Len(g) /\ Len(g) \in Nat
    BY <2>1, LenProperties
  <2>4. Len(g) = n
    BY <1>3, <2>2, <2>3
  <2> QED  BY <2>1, <2>2, <2>4
<1>6. Sorted(g, k)
  <2>1. \A i \in 1 .. n : 1 <= g[i].n /\ g[i].n < k
    BY <1>3, <1>4, <1>1 DEF Sorted
  <2>2. ASSUME NEW i \in 1 .. n, NEW j \in 1 .. n, i < j PROVE g[i].n < g[j].n
    <3>1. PICK a \in 1 .. Len(h), b \in 1 .. Len(h) : a < b /\ g[i] = h[a] /\ g[j] = h[b]
      <4>1. CASE i = 1
        <5>1. 1 < j + mid /\ j + mid \in 1 .. Len(h) /\ 1 \in 1 .. Len(h)
          BY <1>1, <1>2, <1>3, <2>2
        <5>2. g[i] = h[1] /\ g[j] = h[j + mid]
          BY <4>1, <1>4, <2>2
        <5> QED  BY <5>1, <5>2
      <4>2. CASE i # 1
        <5>1. i + mid < j + mid /\ i + mid \in 1 .. Len(h) /\ j + mid \in 1 .. Len(h)
          BY <1>2, <1>3, <2>2
        <5>2. g[i] = h[i + mid] /\ g[j] = h[j + mid]
          BY <4>2, <1>4, <2>2
        <5> QED  BY <5>1, <5>2
      <4> QED  BY <4>1, <4>2
    <3> QED  BY <3>1 DEF Sorted
  <2> QED  BY <1>5, <2>1, <2>2 DEF Sorted
<1>7. Numbers(g) \subseteq Numbers(h)
  <2>1. DOMAIN h = 1 .. Len(h)
    BY <1>1
  <2>2. ASSUME NEW i \in DOMAIN g PROVE \E a \in DOMAIN h : g[i] = h[a]
    BY <1>1, <1>3, <1>4, <1>5, <2>1, <2>2
  <2> QED  BY <2>2 DEF Numbers
<1> QED  BY <1>2, <1>6, <1>7 DEF g

LEMMA TruncateSorted ==
  ASSUME KeepLast \in Nat, NEW k \in Nat, NEW h, Sorted(h, k)
  PROVE  Sorted(TruncateHistory(h), k) /\ Numbers(TruncateHistory(h)) \subseteq Numbers(h)
<1> DEFINE d == Len(h) - KeepLast
           g == SubSeq(h, d + 1, Len(h))
<1>0. Len(h) \in Nat /\ (Len(h) <= KeepLast \/ Len(h) > KeepLast)
  BY DEF Sorted
<1> SUFFICES ASSUME Len(h) > KeepLast, ~ (Len(h) <= KeepLast)
             PROVE  Sorted(g, k) /\ Numbers(g) \subseteq Numbers(h)
  BY <1>0 DEF TruncateHistory
<1>1. h \in Seq(Message) /\ Len(h) \in Nat /\ d \in Nat /\ d <= Len(h)
  BY DEF Sorted
<1>2. g \in Seq(Message) /\ Len(g) = Len(h) - d /\ \A i \in 1 .. Len(g) : g[i] = h[i + d]
  BY <1>1
<1>3. DOMAIN g = 1 .. Len(g) /\ DOMAIN h = 1 .. Len(h)
  BY <1>1, <1>2
<1> HIDE DEF g, d
<1>4. Sorted(g, k)
  <2>1. \A i \in 1 .. Len(g) : i \in Nat /\ i + d \in 1 .. Len(h) /\ g[i] = h[i + d]
    BY <1>1, <1>2
  <2>2. \A i, j \in 1 .. Len(g) : i < j => i + d < j + d
    BY <1>1, <2>1
  <2>3. \A i \in 1 .. Len(g) : 1 <= g[i].n /\ g[i].n < k
    BY <2>1 DEF Sorted
  <2>4. \A i, j \in 1 .. Len(g) : i < j => g[i].n < g[j].n
    BY <2>1, <2>2 DEF Sorted
  <2> QED  BY <1>2, <2>3, <2>4 DEF Sorted
<1>5. Numbers(g) \subseteq Numbers(h)
  BY <1>1, <1>2, <1>3 DEF Numbers
<1> QED  BY <1>4, <1>5

(* A message that arrives is the last one. *)
LEMMA AppendSorted ==
  ASSUME NEW k \in Nat, k >= 1, NEW h, Sorted(h, k), NEW m \in Message, m.n = k
  PROVE  Sorted(Append(h, m), k + 1) /\ Numbers(Append(h, m)) = Numbers(h) \cup {k}
<1>1. h \in Seq(Message) /\ Len(h) \in Nat
  BY DEF Sorted
<1> DEFINE g == Append(h, m)
<1>2. g \in Seq(Message) /\ Len(g) = Len(h) + 1 /\ g[Len(h) + 1] = m
      /\ \A i \in 1 .. Len(h) : g[i] = h[i]
  BY <1>1
<1>3. DOMAIN g = 1 .. Len(h) + 1 /\ DOMAIN h = 1 .. Len(h)
  BY <1>1, <1>2
<1>4. Sorted(g, k + 1)
  <2> HIDE DEF g
  <2>1. \A i \in 1 .. Len(g) : 1 <= g[i].n /\ g[i].n < k + 1
    <3>1. ASSUME NEW i \in 1 .. Len(h) PROVE 1 <= g[i].n /\ g[i].n < k + 1
      <4>1. g[i] = h[i] /\ h[i] \in Message
        BY <1>1, <1>2
      <4>2. 1 <= h[i].n /\ h[i].n < k
        BY DEF Sorted
      <4>3. h[i].n \in Nat
        BY <4>1 DEF Message
      <4> QED  BY <4>1, <4>2, <4>3
    <3>2. 1 <= g[Len(h) + 1].n /\ g[Len(h) + 1].n < k + 1
      BY <1>2
    <3> QED  BY <1>1, <1>2, <3>1, <3>2
  <2>2. ASSUME NEW i \in 1 .. Len(g), NEW j \in 1 .. Len(g), i < j PROVE g[i].n < g[j].n
    <3>1. i \in 1 .. Len(h)
      BY <1>1, <1>2, <2>2
    <3>2. CASE j = Len(h) + 1
      BY <1>1, <1>2, <3>1, <3>2 DEF Sorted
    <3>3. CASE j \in 1 .. Len(h)
      BY <1>1, <1>2, <2>2, <3>1, <3>3 DEF Sorted
    <3> QED  BY <1>1, <1>2, <3>2, <3>3
  <2> QED  BY <1>2, <2>1, <2>2 DEF Sorted
<1>5. Numbers(g) = Numbers(h) \cup {k}
  BY <1>1, <1>2, <1>3 DEF Numbers
<1> QED  BY <1>4, <1>5

(* The numbers in a history are those of messages that came before. *)
LEMMA NumbersOf ==
  ASSUME NEW h, NEW k \in Nat, Sorted(h, k)
  PROVE  Numbers(h) \subseteq 1 .. k - 1 /\ Numbers(h) \subseteq Nat
<1>1. h \in Seq(Message) /\ DOMAIN h = 1 .. Len(h)
  BY DEF Sorted
<1>2. ASSUME NEW i \in 1 .. Len(h) PROVE h[i].n \in 1 .. k - 1
  <2>1. h[i] \in Message
    BY <1>1
  <2>2. h[i].n \in Nat
    BY <2>1 DEF Message
  <2> QED  BY <2>2 DEF Sorted
<1> QED  BY <1>1, <1>2 DEF Numbers

LEMMA SortedLater ==
  ASSUME NEW h, NEW k \in Nat, Sorted(h, k)
  PROVE  Sorted(h, k + 1)
<1>1. \A i \in 1 .. Len(h) : h[i].n < k + 1
  <2> TAKE i \in 1 .. Len(h)
  <2>1. h[i] \in Message
    BY DEF Sorted
  <2>2. h[i].n \in Nat
    BY <2>1 DEF Message
  <2> QED  BY <2>2 DEF Sorted
<1> QED  BY <1>1 DEF Sorted

(* Who holds nothing holds nothing wrong. *)
LEMMA NothingHeld ==
  ASSUME NEW k \in Nat \ {0}
  PROVE  Dated(Empty, k) /\ Numbers(Empty.msgs) = {} /\ Empty.summary = {} /\ Empty \in Copy
         /\ NoRequest \in Request /\ NoRequest.upto = 0 /\ Sorted(<<>>, k)
<1>1. << >> \in Seq(Message) /\ Len(<< >>) = 0 /\ DOMAIN << >> = {}
  OBVIOUS
<1>2. Sorted(<<>>, k)
  BY <1>1 DEF Sorted
<1> QED  BY <1>1, <1>2 DEF Dated, Empty, NoRequest, NoSummary, Numbers, Copy, Request

-----------------------------------------------------------------------------
(* What a step leaves alone. *)

(* The store, and the copies of it. *)
LEMMA StoreKept ==
  ASSUME SessionInv, UNCHANGED <<storeVars, snap, work, ghostVars>>
  PROVE  AllDated' /\ NothingMissing' /\ Forgotten'
BY DEF SessionInv, storeVars, ghostVars, AllDated, NothingMissing, Forgotten, Dated, Without

LEMMA StoredFirstKept ==
  ASSUME SessionInv, pc'[Summarizer] = "Truncate" => pc[Summarizer] = "Truncate",
         work'[Summarizer] = work[Summarizer],
         summary \cup lost \subseteq summary' \cup lost'
  PROVE  StoredFirst'
BY DEF SessionInv, StoredFirst

LEMMA ReadKept ==
  ASSUME SessionInv, NEW r \in Runners, req'[r] = req[r],
         summary \cup lost \subseteq summary' \cup lost', lost \subseteq lost',
         pc'[r] = pc[r] \/ (pc[r] \in {"user", "llm", "tools"} /\ pc'[r] # "read")
         \/ pc'[r] \notin {"read", "user", "llm", "tools"}
  PROVE  ReadOK(r)'
<1>1. ReadOK(r)
  BY DEF SessionInv, ReadsWhole
<1>2. CASE pc'[r] = "read"
  <2>1. pc[r] = "read"
    BY <1>2
  <2> QED  BY <1>1, <1>2, <2>1 DEF ReadOK
<1>3. CASE pc'[r] \in {"user", "llm", "tools"}
  <2>1. pc[r] \in {"user", "llm", "tools"}
    BY <1>3
  <2> QED  BY <1>1, <1>3, <2>1 DEF ReadOK
<1> QED  BY <1>2, <1>3 DEF ReadOK

LEMMA CopiesKept ==
  ASSUME SessionInv, disk' = disk, lost \subseteq lost',
         \A p \in Savers : pc'[p] = "rename" => pc[p] = "rename" /\ snap'[p] = snap[p]
  PROVE  CopiesWhole'
<1>1. ASSUME NEW c, Whole(c) PROVE \A n \in Numbers(c.msgs) :
             1 .. n \subseteq Numbers(c.msgs) \cup c.summary \cup lost'
  BY <1>1 DEF Whole
<1>2. Whole(disk)'
  BY <1>1 DEF SessionInv, CopiesWhole, Whole
<1>3. ASSUME NEW p \in Savers, pc'[p] = "rename" PROVE Whole(snap[p])'
  BY <1>1, <1>3 DEF SessionInv, CopiesWhole, Whole
<1> QED  BY <1>2, <1>3 DEF CopiesWhole

(* One more message. *)
LEMMA Added ==
  ASSUME SessionInv, NEW m \in Message, m.n = next, Add(m),
         UNCHANGED <<summary, disk, snap, work, ghostVars>>
  PROVE  AllDated' /\ NothingMissing' /\ Forgotten' /\ next' \in Nat \ {0}
         /\ msgs' \in Seq(Message)
<1>1. next \in Nat /\ next >= 1 /\ next' = next + 1 /\ 1 .. next - 1 \subseteq 1 .. next' - 1
      /\ 1 .. next' - 1 = (1 .. next - 1) \cup {next}
  BY DEF SessionInv, SessionTypeOK, Add
<1>2. Sorted(msgs, next)' /\ Numbers(msgs)' = Numbers(msgs) \cup {next}
  BY <1>1, AppendSorted DEF SessionInv, AllDated, Add
<1>3. AllDated'
  <2>1. ASSUME NEW c, Dated(c, next) PROVE Dated(c, next')
    BY <1>1, <2>1, SortedLater DEF Dated
  <2>2. Dated(disk, next)'
    BY <2>1 DEF SessionInv, AllDated
  <2>3. ASSUME NEW p \in Savers PROVE Dated(snap[p], next)' /\ Dated(work[p], next)'
    BY <2>1 DEF SessionInv, AllDated
  <2> QED  BY <1>1, <1>2, <2>2, <2>3 DEF SessionInv, AllDated
<1>4. NothingMissing'
  BY <1>1, <1>2 DEF SessionInv, NothingMissing, ghostVars
<1>5. Forgotten'
  BY <1>1, <1>2 DEF SessionInv, Forgotten, Without, ghostVars
<1> QED  BY <1>1, <1>2, <1>3, <1>4, <1>5 DEF Sorted

(* One goroutine goes on, the others stay where they are. *)
LEMMA Moved ==
  ASSUME SessionInv, NEW p \in Savers, NEW l \in Labels, Goto(p, l)
  PROVE  pc' \in [Savers -> Labels] /\ pc'[p] = l /\ \A q \in Savers : q # p => pc'[q] = pc[q]
BY DEF SessionInv, SessionTypeOK, Goto

LEMMA RunnersSave ==
  ASSUME Instance, NEW r \in Runners
  PROVE  r \in Savers /\ Summarizer \in Savers /\ r # Summarizer
BY DEF Instance, Savers

(* If the one that goes on may be followed by what follows it, all may. *)
LEMMA OthersFollow ==
  ASSUME SessionInv, Instance, NEW r \in Runners, NEW l \in Labels, Goto(r, l), AfterOK(r)',
         \A q \in Runners : q # r => after'[q] = after[q]
  PROVE  Follows'
<1>1. ASSUME NEW q \in Runners, q # r PROVE AfterOK(q)'
  BY <1>1, Moved, RunnersSave DEF SessionInv, Follows, AfterOK
<1> QED  BY <1>1 DEF Follows

(* If the one that goes on has read what it should, all have. *)
LEMMA OthersRead ==
  ASSUME SessionInv, Instance, NEW r \in Runners, NEW l \in Labels, Goto(r, l), ReadOK(r)',
         \A q \in Runners : q # r => req'[q] = req[q],
         summary \cup lost \subseteq summary' \cup lost', lost \subseteq lost'
  PROVE  ReadsWhole'
<1>1. ASSUME NEW q \in Runners, q # r PROVE ReadOK(q)'
  BY <1>1, Moved, RunnersSave, ReadKept
<1> QED  BY <1>1 DEF ReadsWhole

-----------------------------------------------------------------------------
(* Every step keeps the invariant: first those of a round. *)

LEMMA ReadFirstKeeps ==
  ASSUME Instance, SessionInv, NEW r \in Runners, ReadFirst(r)
  PROVE  SessionInv'
<1>1. r \in Savers /\ Summarizer \in Savers /\ r # Summarizer
  BY RunnersSave
<1>2. Goto(r, "read") /\ "read" \in Labels
  BY DEF ReadFirst, Labels
<1>3. pc' \in [Savers -> Labels] /\ pc'[r] = "read" /\ \A q \in Savers : q # r => pc'[q] = pc[q]
  BY <1>1, <1>2, Moved
<1>4. PICK l \in {"user", "llm"} : after' = [after EXCEPT ![r] = l]
  BY DEF ReadFirst
<1>5. req' = [req EXCEPT ![r] = [@ EXCEPT !.msgs = msgs, !.upto = next]]
  BY DEF ReadFirst, Read, ReadOrder
<1>6. UNCHANGED <<storeVars, snap, work, ghostVars>> /\ UNCHANGED turn
  BY DEF ReadFirst, ghostVars, storeVars
<1>7. req' \in [Runners -> Request] /\ req'[r].msgs = msgs /\ req'[r].upto = next
      /\ \A q \in Runners : q # r => req'[q] = req[q]
  BY <1>5 DEF SessionInv, SessionTypeOK, Request
<1>8. SessionTypeOK'
  BY <1>3, <1>4, <1>6, <1>7 DEF SessionInv, SessionTypeOK, storeVars, ghostVars, Labels
<1>9. Follows'
  <2>1. after'[r] = l /\ \A q \in Runners : q # r => after'[q] = after[q]
    BY <1>4 DEF SessionInv, SessionTypeOK
  <2>2. AfterOK(r)'
    BY <1>3, <2>1 DEF AfterOK
  <2> QED  BY <1>2, <2>1, <2>2, OthersFollow
<1>10. ReadsWhole'
  <2>1. ReadOK(r)'
    BY <1>3, <1>6, <1>7 DEF ReadOK, SessionInv, NothingMissing, storeVars, ghostVars
  <2> QED  BY <1>2, <1>6, <1>7, <2>1, OthersRead DEF storeVars, ghostVars
<1>11. StoredFirst'
  BY <1>1, <1>3, <1>6, StoredFirstKept DEF storeVars, ghostVars
<1>12. CopiesWhole'
  BY <1>3, <1>6, CopiesKept DEF storeVars, ghostVars
<1> QED  BY <1>6, <1>8, <1>9, <1>10, <1>11, <1>12, StoreKept DEF SessionInv

LEMMA ReadSecondKeeps ==
  ASSUME Instance, SessionInv, NEW r \in Runners, ReadSecond(r)
  PROVE  SessionInv'
<1>1. r \in Savers /\ Summarizer \in Savers /\ r # Summarizer
  BY RunnersSave
<1>2. pc[r] = "read" /\ after[r] \in {"user", "llm"} /\ after[r] \in Labels /\ Goto(r, after[r])
  BY DEF ReadSecond, SessionInv, Follows, AfterOK, Labels
<1>3. pc' \in [Savers -> Labels] /\ pc'[r] = after[r]
      /\ \A q \in Savers : q # r => pc'[q] = pc[q]
  BY <1>1, <1>2, Moved
<1>5. req' = [req EXCEPT ![r] = [@ EXCEPT !.summary = summary]]
  BY DEF ReadSecond, Read, ReadOrder
<1>6. UNCHANGED <<storeVars, snap, work, ghostVars>> /\ UNCHANGED <<turn, after>>
  BY DEF ReadSecond, ghostVars, storeVars
<1>7. /\ req' \in [Runners -> Request]
      /\ req'[r].msgs = req[r].msgs /\ req'[r].upto = req[r].upto /\ req'[r].summary = summary
      /\ \A q \in Runners : q # r => req'[q] = req[q]
  BY <1>5 DEF SessionInv, SessionTypeOK, Request
<1>8. SessionTypeOK'
  BY <1>3, <1>6, <1>7 DEF SessionInv, SessionTypeOK, storeVars, ghostVars
<1>9. Follows'
  BY <1>2, <1>3, <1>6, OthersFollow DEF AfterOK
<1>10. ReadsWhole'
  <2>1. ReadOK(r)'
    BY <1>2, <1>3, <1>6, <1>7 DEF ReadOK, SessionInv, ReadsWhole, storeVars, ghostVars
  <2> QED  BY <1>2, <1>6, <1>7, <2>1, OthersRead DEF storeVars, ghostVars
<1>11. StoredFirst'
  BY <1>1, <1>3, <1>6, StoredFirstKept DEF storeVars, ghostVars
<1>12. CopiesWhole'
  BY <1>2, <1>3, <1>6, CopiesKept DEF storeVars, ghostVars
<1> QED  BY <1>6, <1>8, <1>9, <1>10, <1>11, <1>12, StoreKept DEF SessionInv

(* A step of a round that only adds a message and goes on, and is not yet  *)
(* to be written.                                                          *)
LEMMA AddingKeeps ==
  ASSUME Instance, SessionInv, NEW r \in Runners, NEW m \in Message, m.n = next, Add(m),
         NEW l \in Labels, Goto(r, l), l \notin {"idle", "read", "rename"},
         l \in {"user", "llm", "tools"} => pc[r] \in {"user", "llm", "tools"},
         l = "save" => after'[r] = "summarize",
         after' \in [Runners -> Labels], \A q \in Runners : q # r => after'[q] = after[q],
         turn' \in [Runners -> Nat],
         UNCHANGED <<summary, disk, req, snap, work, ghostVars>>
  PROVE  SessionInv'
<1>1. r \in Savers /\ Summarizer \in Savers /\ r # Summarizer
  BY RunnersSave
<1>2. pc' \in [Savers -> Labels] /\ pc'[r] = l /\ \A q \in Savers : q # r => pc'[q] = pc[q]
  BY <1>1, Moved
<1>3. /\ AllDated' /\ NothingMissing' /\ Forgotten'
      /\ next' \in Nat \ {0} /\ msgs' \in Seq(Message)
  BY Added
<1>4. SessionTypeOK'
  BY <1>2, <1>3 DEF SessionInv, SessionTypeOK, ghostVars
<1>5. Follows'
  BY <1>2, OthersFollow DEF AfterOK
<1>6. ReadsWhole'
  <2>1. ReadOK(r)'
    BY <1>2, ReadKept DEF ghostVars
  <2> QED  BY <2>1, OthersRead DEF ghostVars
<1>7. StoredFirst'
  BY <1>1, <1>2, StoredFirstKept DEF ghostVars
<1>8. CopiesWhole'
  BY <1>2, CopiesKept DEF ghostVars
<1> QED  BY <1>3, <1>4, <1>5, <1>6, <1>7, <1>8 DEF SessionInv

LEMMA AddUserKeeps ==
  ASSUME Instance, SessionInv, NEW r \in Runners, AddUser(r)
  PROVE  SessionInv'
<1>1. User(next) \in Message /\ User(next).n = next
  BY DEF User, Message, SessionInv, SessionTypeOK
<1>2. "llm" \in Labels /\ pc[r] = "user" /\ Add(User(next)) /\ Goto(r, "llm")
      /\ UNCHANGED <<after, turn, summary, disk, req, snap, work, ghostVars>>
  BY DEF Labels, AddUser, roundVars
<1>3. after' \in [Runners -> Labels] /\ turn' \in [Runners -> Nat]
  BY <1>2 DEF SessionInv, SessionTypeOK
<1> QED  BY <1>1, <1>2, <1>3, AddingKeeps

LEMMA AsksForToolsKeeps ==
  ASSUME Instance, SessionInv, NEW r \in Runners, AsksForTools(r)
  PROVE  SessionInv'
<1>1. PICK k \in 1 .. MaxCalls : Add(Assistant(next, k))
  BY DEF AsksForTools
<1>2. Assistant(next, k) \in Message /\ Assistant(next, k).n = next
  BY DEF Assistant, Message, SessionInv, SessionTypeOK, Instance
<1>3. "tools" \in Labels /\ pc[r] = "llm" /\ Goto(r, "tools")
      /\ UNCHANGED <<after, summary, disk, req, snap, work, ghostVars>>
  BY DEF Labels, AsksForTools
<1>4. after' \in [Runners -> Labels] /\ turn' \in [Runners -> Nat]
  BY <1>3 DEF SessionInv, SessionTypeOK, AsksForTools
<1> QED  BY <1>1, <1>2, <1>3, <1>4, AddingKeeps

LEMMA ExecuteToolKeeps ==
  ASSUME Instance, SessionInv, NEW r \in Runners, ExecuteTool(r)
  PROVE  SessionInv'
<1>1. ToolResult(next, turn[r]) \in Message /\ ToolResult(next, turn[r]).n = next
  BY DEF ToolResult, Message, SessionInv, SessionTypeOK
<1>2. /\ pc[r] = "tools" /\ Add(ToolResult(next, turn[r]))
      /\ UNCHANGED <<after, turn, summary, disk, req, snap, work, ghostVars>>
  BY DEF ExecuteTool
<1>3. PICK l \in {"tools", "llm", "answer"} : Goto(r, l)
  <2>1. pc' = pc \/ \E l \in {"llm", "answer"} : Goto(r, l)
    BY DEF ExecuteTool
  <2>2. pc' = pc => Goto(r, "tools")
    BY <1>2 DEF Goto, SessionInv, SessionTypeOK
  <2> QED  BY <2>1, <2>2
<1>4. l \in Labels /\ l \notin {"idle", "read", "rename", "save"}
  BY DEF Labels
<1>5. after' \in [Runners -> Labels] /\ turn' \in [Runners -> Nat]
  BY <1>2 DEF SessionInv, SessionTypeOK
<1> QED  BY <1>1, <1>2, <1>3, <1>4, <1>5, AddingKeeps

LEMMA AddAnswerKeeps ==
  ASSUME Instance, SessionInv, NEW r \in Runners, AddAnswer(r)
  PROVE  SessionInv'
<1>1. Assistant(next, 0) \in Message /\ Assistant(next, 0).n = next
  BY DEF Assistant, Message, SessionInv, SessionTypeOK
<1>2. "save" \in Labels /\ Add(Assistant(next, 0)) /\ Goto(r, "save")
      /\ UNCHANGED <<turn, summary, disk, req, snap, work, ghostVars>>
  BY DEF Labels, AddAnswer
<1>3. /\ after' \in [Runners -> Labels] /\ turn' \in [Runners -> Nat]
      /\ after'[r] = "summarize" /\ \A q \in Runners : q # r => after'[q] = after[q]
  BY <1>2 DEF SessionInv, SessionTypeOK, AddAnswer, Labels
<1> QED  BY <1>1, <1>2, <1>3, AddingKeeps

-----------------------------------------------------------------------------
(* A step of a round that leaves the session alone. *)
LEMMA MovingKeeps ==
  ASSUME Instance, SessionInv, NEW r \in Runners, pc' \in [Savers -> Labels],
         pc'[r] \notin {"read", "user", "llm", "tools", "rename", "save"},
         pc'[r] = "idle" => after'[r] = "idle",
         \A q \in Runners : q # r => pc'[q] = pc[q],
         pc'[Summarizer] \in {pc[Summarizer], "history"},
         after' \in [Runners -> Labels], \A q \in Runners : q # r => after'[q] = after[q],
         req' \in [Runners -> Request], \A q \in Runners : q # r => req'[q] = req[q],
         turn' \in [Runners -> Nat], UNCHANGED <<storeVars, snap, work, ghostVars>>
  PROVE  SessionInv'
<1>1. UNCHANGED <<msgs, summary, disk, next, snap, work, lost, cleared>>
  BY DEF storeVars, ghostVars
<1>2. Runners \subseteq Savers /\ Summarizer \in Savers
      /\ \A p \in Savers : p \in Runners \/ p = Summarizer
  BY DEF Savers
<1>3. SessionTypeOK'
  BY <1>1 DEF SessionInv, SessionTypeOK
<1>4. Follows'
  <2>1. ASSUME NEW q \in Runners, q # r PROVE AfterOK(q)'
    BY <2>1 DEF SessionInv, Follows, AfterOK
  <2>2. AfterOK(r)'
    BY DEF AfterOK
  <2> QED  BY <2>1, <2>2 DEF Follows
<1>5. ReadsWhole'
  <2>1. ASSUME NEW q \in Runners, q # r PROVE ReadOK(q)'
    BY <1>1, <2>1, ReadKept
  <2>2. ReadOK(r)'
    BY DEF ReadOK
  <2> QED  BY <2>1, <2>2 DEF ReadsWhole
<1>6. StoredFirst'
  BY <1>1, StoredFirstKept
<1>7. CopiesWhole'
  <2>1. ASSUME NEW p \in Savers, pc'[p] = "rename" PROVE pc[p] = "rename"
    BY <1>2, <2>1
  <2> QED  BY <1>1, <2>1, CopiesKept
<1> QED  BY <1>3, <1>4, <1>5, <1>6, <1>7, StoreKept DEF SessionInv

(* The end of a round leaves types and the other rounds alone. *)
LEMMA Ended ==
  ASSUME SessionInv, NEW r \in Runners, EndRound(r)
  PROVE  /\ after' \in [Runners -> Labels] /\ after'[r] = "idle"
         /\ \A q \in Runners : q # r => after'[q] = after[q]
         /\ req' \in [Runners -> Request] /\ \A q \in Runners : q # r => req'[q] = req[q]
         /\ turn' \in [Runners -> Nat]
<1>1. "idle" \in Labels /\ NoRequest \in Request
  BY NothingHeld DEF Labels
<1> QED  BY <1>1 DEF EndRound, SessionInv, SessionTypeOK

LEMMA MovesKeep ==
  ASSUME Instance, SessionInv, NEW r \in Runners,
         Answers(r) \/ LLMFails(r) \/ ContextError(r) \/ maybeSummarize(r)
  PROVE  SessionInv'
<1>1. r \in Savers /\ Summarizer \in Savers /\ r # Summarizer /\ Runners \subseteq Savers
  BY RunnersSave DEF Savers
<1>2. {"answer", "idle", "compress", "history"} \subseteq Labels
  BY DEF Labels
<1>3. CASE Answers(r)
  <2>1. Goto(r, "answer") /\ UNCHANGED <<storeVars, after, req, turn, snap, work, ghostVars>>
    BY <1>3 DEF Answers, roundVars
  <2>2. pc' \in [Savers -> Labels] /\ pc'[r] = "answer"
        /\ \A q \in Savers : q # r => pc'[q] = pc[q]
    BY <1>1, <1>2, <2>1, Moved
  <2>3. /\ after' \in [Runners -> Labels]
        /\ req' \in [Runners -> Request] /\ turn' \in [Runners -> Nat]
    BY <2>1 DEF SessionInv, SessionTypeOK
  <2> QED  BY <1>1, <2>1, <2>2, <2>3, MovingKeeps
<1>4. CASE ContextError(r)
  <2>1. Goto(r, "compress") /\ UNCHANGED <<storeVars, after, req, turn, snap, work, ghostVars>>
    BY <1>4 DEF ContextError
  <2>2. pc' \in [Savers -> Labels] /\ pc'[r] = "compress"
        /\ \A q \in Savers : q # r => pc'[q] = pc[q]
    BY <1>1, <1>2, <2>1, Moved
  <2>3. /\ after' \in [Runners -> Labels]
        /\ req' \in [Runners -> Request] /\ turn' \in [Runners -> Nat]
    BY <2>1 DEF SessionInv, SessionTypeOK
  <2> QED  BY <1>1, <2>1, <2>2, <2>3, MovingKeeps
<1>5. CASE LLMFails(r)
  <2>1. Goto(r, "idle") /\ EndRound(r) /\ UNCHANGED <<storeVars, snap, work, ghostVars>>
    BY <1>5 DEF LLMFails
  <2>2. pc' \in [Savers -> Labels] /\ pc'[r] = "idle"
        /\ \A q \in Savers : q # r => pc'[q] = pc[q]
    BY <1>1, <1>2, <2>1, Moved
  <2> QED  BY <1>1, <2>1, <2>2, Ended, MovingKeeps
<1>6. CASE maybeSummarize(r)
  <2>1. EndRound(r) /\ UNCHANGED <<storeVars, snap, work, ghostVars>>
    BY <1>6 DEF maybeSummarize
  <2>2. \/ pc' = [pc EXCEPT ![r] = "idle", ![Summarizer] = "history"]
        \/ pc' = [pc EXCEPT ![r] = "idle"]
    BY <1>6 DEF maybeSummarize, Goto
  <2>3. /\ pc' \in [Savers -> Labels] /\ pc'[r] = "idle"
        /\ \A q \in Runners : q # r => pc'[q] = pc[q]
        /\ pc'[Summarizer] \in {pc[Summarizer], "history"}
    <3>1. pc \in [Savers -> Labels] /\ \A q \in Runners : q \in Savers /\ q # Summarizer
      BY RunnersSave DEF SessionInv, SessionTypeOK
    <3>2. CASE pc' = [pc EXCEPT ![r] = "idle"]
      BY <1>1, <1>2, <3>1, <3>2
    <3>3. CASE pc' = [pc EXCEPT ![r] = "idle", ![Summarizer] = "history"]
      BY <1>1, <1>2, <3>1, <3>3
    <3> QED  BY <2>2, <3>2, <3>3
  <2> QED  BY <2>1, <2>3, Ended, MovingKeeps
<1> QED  BY <1>3, <1>4, <1>5, <1>6

-----------------------------------------------------------------------------
(* Copies of the store. *)

LEMMA CopyOfStore ==
  ASSUME SessionInv, NEW s \in {NoSummary, summary}
  PROVE  /\ [msgs |-> msgs, summary |-> s] \in Copy
         /\ Dated([msgs |-> msgs, summary |-> s], next)
         /\ Without([msgs |-> msgs, summary |-> s])
<1>1. s \in SUBSET Nat /\ s \subseteq 1 .. next - 1 /\ s \subseteq summary
  BY DEF SessionInv, SessionTypeOK, AllDated, NoSummary
<1> QED  BY <1>1 DEF SessionInv, SessionTypeOK, AllDated, Forgotten, Dated, Without, Copy

(* A copy that was given up has nothing. *)
LEMMA EmptyCopy ==
  ASSUME SessionInv
  PROVE  Empty \in Copy /\ Dated(Empty, next) /\ Without(Empty)
BY NothingHeld DEF SessionInv, SessionTypeOK, Without

(* A copy that is taken changes nothing of the store. *)
LEMMA CopyTaken ==
  ASSUME SessionInv, NEW p \in Savers, NEW c \in Copy, Dated(c, next), Without(c),
         work' = [work EXCEPT ![p] = c], UNCHANGED <<storeVars, snap, ghostVars>>
  PROVE  /\ work' \in [Savers -> Copy] /\ work'[p] = c
         /\ \A q \in Savers : q # p => work'[q] = work[q]
         /\ AllDated' /\ NothingMissing' /\ Forgotten'
<1>1. /\ work' \in [Savers -> Copy] /\ work'[p] = c
      /\ \A q \in Savers : q # p => work'[q] = work[q]
  BY DEF SessionInv, SessionTypeOK
<1>2. UNCHANGED <<msgs, summary, disk, next, snap, lost, cleared>>
  BY DEF storeVars, ghostVars
<1>3. \A q \in Savers : Dated(work'[q], next) /\ Without(work'[q])
  BY <1>1 DEF SessionInv, AllDated, Forgotten
<1>4. AllDated'
  BY <1>2, <1>3 DEF SessionInv, AllDated, Dated
<1>5. NothingMissing'
  BY <1>2 DEF SessionInv, NothingMissing
<1>6. Forgotten'
  BY <1>2, <1>3 DEF SessionInv, Forgotten, Without
<1> QED  BY <1>1, <1>4, <1>5, <1>6

(* A step of a saver that neither begins nor ends a reading. *)
LEMMA SaverFollows ==
  ASSUME Instance, SessionInv, NEW p \in Savers, NEW l \in Labels, Goto(p, l),
         p \in Runners => AfterOK(p)',
         \A q \in Runners : q # p => after'[q] = after[q]
  PROVE  Follows'
<1>1. ASSUME NEW q \in Runners, q # p PROVE AfterOK(q)'
  BY <1>1, Moved, RunnersSave DEF SessionInv, Follows, AfterOK
<1> QED  BY <1>1 DEF Follows

LEMMA SaverReads ==
  ASSUME Instance, SessionInv, NEW p \in Savers, NEW l \in Labels, Goto(p, l),
         l \notin {"read", "user", "llm", "tools"}, UNCHANGED req,
         summary \cup lost \subseteq summary' \cup lost', lost \subseteq lost'
  PROVE  ReadsWhole'
<1>1. ASSUME NEW q \in Runners PROVE ReadOK(q)'
  <2>1. q \in Savers
    BY RunnersSave
  <2>2. pc'[q] = pc[q] \/ pc'[q] \notin {"read", "user", "llm", "tools"}
    BY <2>1, Moved
  <2> QED  BY <2>2, ReadKept
<1> QED  BY <1>1 DEF ReadsWhole

(* Somebody takes a copy, or gives one up. *)
LEMMA CopyingKeeps ==
  ASSUME Instance, SessionInv, NEW p \in Savers, NEW l \in Labels, Goto(p, l),
         l \notin {"read", "user", "llm", "tools", "rename", "Truncate"},
         p \in Runners => l \notin {"idle", "save"},
         NEW c \in Copy, Dated(c, next), Without(c), work' = [work EXCEPT ![p] = c],
         UNCHANGED <<storeVars, roundVars, snap, ghostVars>>
  PROVE  SessionInv'
<1>1. Summarizer \in Savers
  BY DEF Savers
<1>2. UNCHANGED <<msgs, summary, disk, next, lost, cleared, after, req, turn, snap>>
  BY DEF storeVars, roundVars, ghostVars
<1>3. /\ work' \in [Savers -> Copy] /\ work'[p] = c
      /\ \A q \in Savers : q # p => work'[q] = work[q]
      /\ AllDated' /\ NothingMissing' /\ Forgotten'
  BY CopyTaken
<1>4. pc' \in [Savers -> Labels] /\ pc'[p] = l /\ \A q \in Savers : q # p => pc'[q] = pc[q]
  BY Moved
<1>5. SessionTypeOK'
  BY <1>2, <1>3, <1>4 DEF SessionInv, SessionTypeOK
<1>6. Follows'
  BY <1>2, <1>4, SaverFollows DEF AfterOK
<1>7. ReadsWhole'
  BY <1>2, SaverReads
<1>8. StoredFirst'
  <2>1. CASE p = Summarizer
    BY <1>4, <2>1 DEF StoredFirst
  <2>2. CASE p # Summarizer
    BY <1>1, <1>2, <1>3, <1>4, <2>2, StoredFirstKept
  <2> QED  BY <2>1, <2>2
<1>9. CopiesWhole'
  BY <1>2, <1>4, CopiesKept
<1> QED  BY <1>3, <1>5, <1>6, <1>7, <1>8, <1>9 DEF SessionInv

LEMMA CompressReadKeeps ==
  ASSUME Instance, SessionInv, NEW r \in Runners, CompressRead(r)
  PROVE  SessionInv'
<1>1. r \in Savers
  BY RunnersSave
<1>2. PICK l \in {"rebuild", "set"} : Goto(r, l)
  BY DEF CompressRead
<1>3. l \in Labels
  BY DEF Labels
<1>4. /\ work' = [work EXCEPT ![r] = [msgs |-> msgs, summary |-> NoSummary]]
      /\ UNCHANGED <<storeVars, roundVars, snap, ghostVars>>
  BY DEF CompressRead
<1> QED  BY <1>1, <1>2, <1>3, <1>4, CopyOfStore, CopyingKeeps

-----------------------------------------------------------------------------
(* The summarizer's copies. *)

LEMMA ToSummarizeNumbers ==
  ASSUME KeepLast \in Nat, NEW h \in Seq(Message)
  PROVE  ToSummarize(h) \subseteq Numbers(h)
<1>1. DOMAIN h = 1 .. Len(h) /\ Len(h) \in Nat
  OBVIOUS
<1>2. 1 .. Len(h) - KeepLast \subseteq 1 .. Len(h)
  BY <1>1
<1> QED  BY <1>1, <1>2 DEF ToSummarize, Numbers

(* A new summary of what the summarizer has copied. *)
LEMMA NewSummary ==
  ASSUME Instance, SessionInv,
         NEW s \in SUBSET (Numbers(work[Summarizer].msgs)
                              \cup work[Summarizer].summary \cup summary)
  PROVE  LET c == [work[Summarizer] EXCEPT !.summary = s]
         IN  c \in Copy /\ Dated(c, next) /\ Without(c)
<1> DEFINE w == work[Summarizer]
           c == [w EXCEPT !.summary = s]
<1>1. w \in Copy /\ Dated(w, next) /\ Without(w)
  BY DEF Savers, SessionInv, SessionTypeOK, AllDated, Forgotten
<1>2. summary \subseteq 1 .. next - 1 /\ cleared \cap summary = {} /\ next \in Nat
  BY DEF SessionInv, SessionTypeOK, AllDated, Forgotten
<1> HIDE DEF w
<1>3. Numbers(w.msgs) \subseteq 1 .. next - 1
  BY <1>1, <1>2, NumbersOf DEF Dated
<1>4. s \subseteq 1 .. next - 1 /\ s \in SUBSET Nat /\ cleared \cap s = {}
  <2>1. s \subseteq Numbers(w.msgs) \cup w.summary \cup summary
    BY DEF w
  <2>2. w.summary \subseteq 1 .. next - 1 /\ cleared \cap (Numbers(w.msgs) \cup w.summary) = {}
    BY <1>1 DEF Dated, Without
  <2>3. 1 .. next - 1 \subseteq Nat
    BY <1>2
  <2> QED  BY <1>2, <1>3, <2>1, <2>2, <2>3
<1>5. c \in Copy /\ c.msgs = w.msgs /\ c.summary = s
  BY <1>1, <1>4 DEF Copy
<1> HIDE DEF c
<1>6. Dated(c, next) /\ Without(c)
  BY <1>1, <1>4, <1>5 DEF Dated, Without
<1> QED  BY <1>5, <1>6 DEF c, w

LEMMA GivesUpKeeps ==
  ASSUME Instance, SessionInv, GivesUp, UNCHANGED <<storeVars, roundVars, snap, ghostVars>>
  PROVE  SessionInv'
<1>1. "idle" \in Labels /\ Summarizer \in Savers /\ Summarizer \notin Runners
  BY DEF Labels, Savers, Instance
<1> QED  BY <1>1, EmptyCopy, CopyingKeeps DEF GivesUp

LEMMA SumReadsKeep ==
  ASSUME Instance, SessionInv, SumReadHistory \/ SumReadSummary \/ SumAsk
  PROVE  SessionInv'
<1>1. /\ {"idle", "old", "ask", "SetSummary"} \subseteq Labels
      /\ Summarizer \in Savers /\ Summarizer \notin Runners
  BY DEF Labels, Savers, Instance
<1>2. CASE SumReadHistory
  <2>1. /\ Goto(Summarizer, "old")
        /\ work' = [work EXCEPT ![Summarizer] = [msgs |-> msgs, summary |-> NoSummary]]
        /\ UNCHANGED <<storeVars, roundVars, snap, ghostVars>>
    BY <1>2 DEF SumReadHistory
  <2> QED  BY <1>1, <2>1, CopyOfStore, CopyingKeeps
<1>3. CASE SumReadSummary
  <2>1. UNCHANGED <<storeVars, roundVars, snap, ghostVars>>
    BY <1>3 DEF SumReadSummary
  <2>2. CASE GivesUp
    BY <2>1, <2>2, GivesUpKeeps
  <2>3. CASE ~GivesUp
    <3>1. /\ Goto(Summarizer, "ask")
          /\ work' = [work EXCEPT ![Summarizer] = [work[Summarizer] EXCEPT !.summary = summary]]
      BY <1>3, <2>3 DEF SumReadSummary
    <3> QED  BY <1>1, <2>1, <3>1, NewSummary, CopyingKeeps
  <2> QED  BY <2>2, <2>3
<1>4. CASE SumAsk
  <2> DEFINE w == work[Summarizer]
  <2>1. UNCHANGED <<storeVars, roundVars, snap, ghostVars>>
    BY <1>4 DEF SumAsk
  <2>2. CASE GivesUp
    BY <2>1, <2>2, GivesUpKeeps
  <2>3. CASE ~GivesUp
    <3>1. PICK s \in SUBSET (ToSummarize(w.msgs) \cup w.summary) :
            /\ Goto(Summarizer, "SetSummary")
            /\ work' = [work EXCEPT ![Summarizer] = [work[Summarizer] EXCEPT !.summary = s]]
      BY <1>4, <2>3 DEF SumAsk, UpdateOrder
    <3>2. w.msgs \in Seq(Message)
      BY <1>1 DEF SessionInv, SessionTypeOK, Copy
    <3>3. s \in SUBSET (Numbers(w.msgs) \cup w.summary \cup summary)
      BY <3>2, ToSummarizeNumbers DEF Instance
    <3> QED  BY <1>1, <2>1, <3>1, <3>3, NewSummary, CopyingKeeps
  <2> QED  BY <2>2, <2>3
<1> QED  BY <1>2, <1>3, <1>4

-----------------------------------------------------------------------------
(* Steps that change the store. *)

LEMMA SetHistoryKeeps ==
  ASSUME Instance, SessionInv, NEW r \in Runners, SetHistory(r)
  PROVE  SessionInv'
<1>1. r \in Savers /\ Summarizer \in Savers /\ r # Summarizer
  BY RunnersSave
<1>2. "save" \in Labels /\ "rebuild" \in Labels /\ Goto(r, "save")
  BY DEF SetHistory, Labels
<1>3. /\ msgs' = Compress(work[r].msgs)
      /\ lost' = lost \cup (Numbers(msgs) \ (Numbers(msgs') \cup summary))
      /\ after' = [after EXCEPT ![r] = "rebuild"]
      /\ UNCHANGED <<summary, disk, next, req, turn, snap, work, cleared>>
  BY DEF SetHistory
<1>4. Sorted(msgs', next) /\ Numbers(msgs') \subseteq Numbers(work[r].msgs)
  BY <1>1, <1>3, CompressSorted DEF SessionInv, SessionTypeOK, AllDated, Dated, Instance
<1>5. Numbers(msgs) \subseteq Nat /\ next \in Nat
  BY NumbersOf DEF SessionInv, SessionTypeOK, AllDated
<1>6. pc' \in [Savers -> Labels] /\ pc'[r] = "save" /\ \A q \in Savers : q # r => pc'[q] = pc[q]
  BY <1>1, <1>2, Moved
<1>7. after' \in [Runners -> Labels] /\ after'[r] = "rebuild"
      /\ \A q \in Runners : q # r => after'[q] = after[q]
  BY <1>2, <1>3 DEF SessionInv, SessionTypeOK
<1>8. SessionTypeOK'
  BY <1>3, <1>4, <1>5, <1>6, <1>7 DEF SessionInv, SessionTypeOK, Sorted
<1>9. Follows'
  BY <1>1, <1>2, <1>6, <1>7, SaverFollows DEF AfterOK
<1>10. AllDated'
  BY <1>3, <1>4 DEF SessionInv, AllDated, Dated
<1>11. NothingMissing'
  BY <1>3 DEF SessionInv, NothingMissing
<1>12. StoredFirst'
  BY <1>1, <1>3, <1>6, StoredFirstKept
<1>13. ReadsWhole'
  BY <1>1, <1>2, <1>3, SaverReads
<1>14. CopiesWhole'
  BY <1>3, <1>6, CopiesKept
<1>15. Forgotten'
  BY <1>1, <1>3, <1>4 DEF SessionInv, Forgotten, Without
<1> QED  BY <1>8, <1>9, <1>10, <1>11, <1>12, <1>13, <1>14, <1>15 DEF SessionInv

LEMMA ClearKeeps ==
  ASSUME Instance, SessionInv, NEW r \in Runners, ClearSession(r)
  PROVE  SessionInv'
<1>1. r \in Savers /\ Summarizer \in Savers /\ r # Summarizer
  BY RunnersSave
<1>2. "save" \in Labels /\ Goto(r, "save") /\ pc[r] = "idle" /\ after[r] = "idle"
  BY DEF ClearSession, Labels, SessionInv, Follows, AfterOK
<1>3. /\ cleared' = IF NobodyHoldsACopy THEN cleared \cup Numbers(msgs) \cup summary ELSE cleared
      /\ lost' = lost \cup Numbers(msgs) \cup summary
      /\ msgs' = <<>> /\ summary' = {}
      /\ UNCHANGED <<disk, next, after, req, turn, snap, work>>
  BY DEF ClearSession, AfterClear, NoSummary, roundVars
<1>4. Sorted(<<>>, next) /\ Numbers(<<>>) = {} /\ Numbers(Empty.msgs) = {} /\ Empty.summary = {}
  BY NothingHeld DEF SessionInv, SessionTypeOK, Empty
<1>5. Numbers(msgs) \subseteq 1 .. next - 1 /\ Numbers(msgs) \subseteq Nat /\ next \in Nat
  BY NumbersOf DEF SessionInv, SessionTypeOK, AllDated
<1>6. pc' \in [Savers -> Labels] /\ pc'[r] = "save" /\ \A q \in Savers : q # r => pc'[q] = pc[q]
  BY <1>1, <1>2, Moved
<1>8. SessionTypeOK'
  BY <1>3, <1>4, <1>5, <1>6 DEF SessionInv, SessionTypeOK, Sorted
<1>9. Follows'
  BY <1>1, <1>2, <1>3, <1>6, SaverFollows DEF AfterOK
<1>10. AllDated'
  BY <1>3, <1>4 DEF SessionInv, AllDated, Dated
<1>11. NothingMissing'
  BY <1>3 DEF SessionInv, NothingMissing
<1>12. StoredFirst'
  BY <1>1, <1>3, <1>6, StoredFirstKept
<1>13. ReadsWhole'
  BY <1>1, <1>2, <1>3, SaverReads
<1>14. CopiesWhole'
  BY <1>3, <1>6, CopiesKept
<1>15. Forgotten'
  <2>1. cleared' \subseteq 1 .. next - 1
    BY <1>3, <1>5 DEF SessionInv, Forgotten, AllDated
  <2>2. ASSUME NEW p \in Savers, NEW c \in {snap[p], work[p]}
        PROVE  cleared' \cap (Numbers(c.msgs) \cup c.summary) = {}
    <3>1. CASE NobodyHoldsACopy
      BY <1>4, <3>1 DEF NobodyHoldsACopy
    <3>2. CASE ~NobodyHoldsACopy
      BY <1>3, <3>2 DEF SessionInv, Forgotten, Without
    <3> QED  BY <3>1, <3>2
  <2> QED  BY <1>3, <1>4, <2>1, <2>2 DEF Forgotten, Without
<1> QED  BY <1>8, <1>9, <1>10, <1>11, <1>12, <1>13, <1>14, <1>15 DEF SessionInv

-----------------------------------------------------------------------------
(* Saving. *)

LEMMA SnapshotKeeps ==
  ASSUME Instance, SessionInv, NEW p \in Savers, Snapshot(p)
  PROVE  SessionInv'
<1> DEFINE c == [msgs |-> msgs, summary |-> summary]
<1>1. Summarizer \in Savers /\ "rename" \in Labels /\ Goto(p, "rename") /\ pc[p] = "save"
  BY DEF Snapshot, Labels, Savers
<1>2. /\ snap' = [snap EXCEPT ![p] = c] /\ work' = [work EXCEPT ![p] = Empty]
      /\ UNCHANGED <<msgs, summary, disk, next, after, req, turn, lost, cleared>>
  BY DEF Snapshot, storeVars, roundVars, ghostVars
<1>3. c \in Copy /\ Dated(c, next) /\ Without(c) /\ c.msgs = msgs /\ c.summary = summary
  BY CopyOfStore
<1> HIDE DEF c
<1>4. Empty \in Copy /\ Dated(Empty, next) /\ Without(Empty)
  BY EmptyCopy
<1>5. /\ snap' \in [Savers -> Copy] /\ snap'[p] = c
      /\ \A q \in Savers : q # p => snap'[q] = snap[q]
      /\ work' \in [Savers -> Copy] /\ work'[p] = Empty
      /\ \A q \in Savers : q # p => work'[q] = work[q]
  BY <1>2, <1>3, <1>4 DEF SessionInv, SessionTypeOK
<1>6. pc' \in [Savers -> Labels] /\ pc'[p] = "rename" /\ \A q \in Savers : q # p => pc'[q] = pc[q]
  BY <1>1, Moved
<1>8. SessionTypeOK'
  BY <1>2, <1>5, <1>6 DEF SessionInv, SessionTypeOK
<1>9. Follows'
  BY <1>1, <1>2, <1>6, SaverFollows DEF SessionInv, Follows, AfterOK
<1>10. AllDated'
  <2>1. \A q \in Savers : Dated(snap'[q], next) /\ Dated(work'[q], next)
    BY <1>3, <1>4, <1>5 DEF SessionInv, AllDated
  <2> QED  BY <1>2, <2>1 DEF SessionInv, AllDated, Dated
<1>11. NothingMissing'
  BY <1>2 DEF SessionInv, NothingMissing
<1>12. StoredFirst'
  <2>1. CASE p = Summarizer
    BY <1>6, <2>1 DEF StoredFirst
  <2>2. CASE p # Summarizer
    BY <1>1, <1>2, <1>5, <1>6, <2>2, StoredFirstKept
  <2> QED  BY <2>1, <2>2
<1>13. ReadsWhole'
  BY <1>1, <1>2, SaverReads
<1>14. CopiesWhole'
  <2>1. Whole(c)
    <3>1. next \in Nat /\ Numbers(msgs) \subseteq 1 .. next - 1
      BY NumbersOf DEF SessionInv, SessionTypeOK, AllDated
    <3>2. ASSUME NEW n \in Numbers(msgs) PROVE 1 .. n \subseteq 1 .. next - 1
      BY <3>1
    <3> QED  BY <1>3, <3>2 DEF SessionInv, NothingMissing, Whole
  <2>2. \A q \in Savers : pc'[q] = "rename" => Whole(snap'[q])
    BY <1>5, <1>6, <2>1 DEF SessionInv, CopiesWhole
  <2> QED  BY <1>2, <2>2 DEF SessionInv, CopiesWhole, Whole
<1>15. Forgotten'
  <2>1. \A q \in Savers : Without(snap'[q]) /\ Without(work'[q])
    BY <1>3, <1>4, <1>5 DEF SessionInv, Forgotten
  <2> QED  BY <1>2, <2>1 DEF SessionInv, Forgotten, Without
<1> QED  BY <1>8, <1>9, <1>10, <1>11, <1>12, <1>13, <1>14, <1>15 DEF SessionInv

(* The file is replaced, or is not. *)
LEMMA WritingKeeps ==
  ASSUME Instance, SessionInv, NEW p \in Savers, Rename(p) \/ SaveFails(p)
  PROVE  SessionInv'
<1>1. Summarizer \in Savers /\ pc[p] = "rename" /\ Goto(p, Saved(p))
  BY DEF Rename, SaveFails, Savers
<1>2. /\ disk' \in {disk, snap[p]} /\ snap' = [snap EXCEPT ![p] = Empty]
      /\ UNCHANGED <<msgs, summary, next, after, req, turn, work, lost, cleared>>
  BY DEF Rename, SaveFails, storeVars, roundVars, ghostVars
<1>3. Saved(p) \in {"idle", "rebuild", "summarize"} /\ Saved(p) \in Labels
      /\ (p \in Runners => Saved(p) = after[p])
  BY <1>1 DEF Saved, Savers, Instance, SessionInv, Follows, AfterOK, Labels
<1>4. Empty \in Copy /\ Dated(Empty, next) /\ Without(Empty)
  BY EmptyCopy
<1>5. /\ snap' \in [Savers -> Copy] /\ snap'[p] = Empty
      /\ \A q \in Savers : q # p => snap'[q] = snap[q]
  BY <1>2, <1>4 DEF SessionInv, SessionTypeOK
<1>6. pc' \in [Savers -> Labels] /\ pc'[p] = Saved(p) /\ \A q \in Savers : q # p => pc'[q] = pc[q]
  BY <1>1, <1>3, Moved
<1>7. disk' \in Copy /\ Dated(disk', next) /\ Whole(disk')
  BY <1>1, <1>2 DEF SessionInv, SessionTypeOK, AllDated, CopiesWhole
<1>8. SessionTypeOK'
  BY <1>2, <1>5, <1>6, <1>7 DEF SessionInv, SessionTypeOK
<1>9. Follows'
  BY <1>1, <1>2, <1>3, <1>6, SaverFollows DEF AfterOK
<1>10. AllDated'
  <2>1. \A q \in Savers : Dated(snap'[q], next)
    BY <1>4, <1>5 DEF SessionInv, AllDated
  <2> QED  BY <1>2, <1>7, <2>1 DEF SessionInv, AllDated, Dated
<1>11. NothingMissing'
  BY <1>2 DEF SessionInv, NothingMissing
<1>12. StoredFirst'
  BY <1>1, <1>2, <1>3, <1>6, StoredFirstKept
<1>13. ReadsWhole'
  BY <1>1, <1>2, <1>3, SaverReads
<1>14. CopiesWhole'
  <2>1. \A q \in Savers : pc'[q] = "rename" => Whole(snap'[q])
    BY <1>3, <1>5, <1>6 DEF SessionInv, CopiesWhole
  <2> QED  BY <1>2, <1>7, <2>1 DEF CopiesWhole, Whole
<1>15. Forgotten'
  <2>1. \A q \in Savers : Without(snap'[q])
    BY <1>4, <1>5 DEF SessionInv, Forgotten
  <2> QED  BY <1>2, <2>1 DEF SessionInv, Forgotten, Without
<1> QED  BY <1>8, <1>9, <1>10, <1>11, <1>12, <1>13, <1>14, <1>15 DEF SessionInv

-----------------------------------------------------------------------------
(* The summarizer's updates, and a crash. *)

LEMMA SetSummaryKeeps ==
  ASSUME Instance, SessionInv, SetSummary
  PROVE  SessionInv'
<1> DEFINE w == work[Summarizer]
<1>1. "Truncate" \in Labels /\ Summarizer \in Savers /\ Summarizer \notin Runners
  BY DEF Labels, Savers, Instance
<1>2. /\ Goto(Summarizer, "Truncate")
      /\ summary' = w.summary /\ lost' = lost \cup (summary \ summary')
      /\ UNCHANGED <<msgs, disk, next, after, req, turn, snap, work, cleared>>
  BY DEF SetSummary, Updated, UpdateOrder, roundVars
<1>3. w \in Copy /\ Dated(w, next) /\ Without(w)
  BY <1>1 DEF SessionInv, SessionTypeOK, AllDated, Forgotten
<1> HIDE DEF w
<1>4. pc' \in [Savers -> Labels] /\ pc'[Summarizer] = "Truncate"
      /\ \A q \in Savers : q # Summarizer => pc'[q] = pc[q]
  BY <1>1, <1>2, Moved
<1>5. SessionTypeOK'
  BY <1>2, <1>3, <1>4 DEF SessionInv, SessionTypeOK, Copy
<1>6. Follows'
  BY <1>1, <1>2, SaverFollows
<1>7. AllDated'
  BY <1>2, <1>3 DEF SessionInv, AllDated, Dated
<1>8. NothingMissing'
  BY <1>2 DEF SessionInv, NothingMissing
<1>9. StoredFirst'
  BY <1>2 DEF StoredFirst, w
<1>10. ReadsWhole'
  BY <1>1, <1>2, SaverReads
<1>11. CopiesWhole'
  BY <1>2, <1>4, CopiesKept
<1>12. Forgotten'
  BY <1>2, <1>3 DEF SessionInv, Forgotten, Without
<1> QED  BY <1>5, <1>6, <1>7, <1>8, <1>9, <1>10, <1>11, <1>12 DEF SessionInv

LEMMA TruncateKeeps ==
  ASSUME Instance, SessionInv, Truncate
  PROVE  SessionInv'
<1>1. "save" \in Labels /\ Summarizer \in Savers /\ Summarizer \notin Runners
  BY DEF Labels, Savers, Instance
<1>2. /\ Goto(Summarizer, "save") /\ pc[Summarizer] = "Truncate"
      /\ msgs' = TruncateHistory(msgs)
      /\ lost' = lost \cup (Numbers(msgs) \ (Numbers(msgs') \cup work[Summarizer].summary))
      /\ UNCHANGED <<summary, disk, next, after, req, turn, snap, work, cleared>>
  BY DEF Truncate, Updated, UpdateOrder, roundVars
<1>3. Sorted(msgs', next) /\ Numbers(msgs') \subseteq Numbers(msgs)
  BY <1>2, TruncateSorted DEF SessionInv, SessionTypeOK, AllDated, Instance
<1>4. Numbers(msgs) \subseteq Nat
  BY NumbersOf DEF SessionInv, SessionTypeOK, AllDated
<1>5. pc' \in [Savers -> Labels] /\ pc'[Summarizer] = "save"
      /\ \A q \in Savers : q # Summarizer => pc'[q] = pc[q]
  BY <1>1, <1>2, Moved
<1>6. SessionTypeOK'
  BY <1>2, <1>3, <1>4, <1>5 DEF SessionInv, SessionTypeOK, Sorted
<1>7. Follows'
  BY <1>1, <1>2, SaverFollows
<1>8. AllDated'
  BY <1>2, <1>3 DEF SessionInv, AllDated, Dated
<1>9. NothingMissing'
  BY <1>2 DEF SessionInv, NothingMissing, StoredFirst
<1>10. StoredFirst'
  BY <1>5 DEF StoredFirst
<1>11. ReadsWhole'
  BY <1>1, <1>2, SaverReads
<1>12. CopiesWhole'
  BY <1>2, <1>5, CopiesKept
<1>13. Forgotten'
  BY <1>2, <1>3 DEF SessionInv, Forgotten, Without
<1> QED  BY <1>6, <1>7, <1>8, <1>9, <1>10, <1>11, <1>12, <1>13 DEF SessionInv

LEMMA CrashKeeps ==
  ASSUME Instance, SessionInv, Crash
  PROVE  SessionInv'
<1>1. /\ msgs' = disk.msgs /\ summary' = disk.summary /\ disk' = disk /\ next' = next
      /\ cleared' = {}
      /\ lost' = lost \cup ((1 .. next - 1) \ (Numbers(disk.msgs) \cup disk.summary))
      /\ pc' = [p \in Savers |-> "idle"] /\ after' = [r \in Runners |-> "idle"]
      /\ req' = [r \in Runners |-> NoRequest] /\ turn' = [r \in Runners |-> 0]
      /\ snap' = [p \in Savers |-> Empty] /\ work' = [p \in Savers |-> Empty]
  BY DEF Crash
<1>2. "idle" \in Labels /\ NoRequest \in Request /\ Empty \in Copy
      /\ Dated(Empty, next) /\ Dated(disk, next) /\ disk \in Copy /\ next \in Nat
  BY NothingHeld, EmptyCopy DEF Labels, SessionInv, SessionTypeOK, AllDated
<1>3. SessionTypeOK'
  <2>1. disk.msgs \in Seq(Message) /\ disk.summary \in SUBSET Nat
    BY <1>2 DEF Copy
  <2>2. /\ snap' \in [Savers -> Copy] /\ work' \in [Savers -> Copy]
        /\ pc' \in [Savers -> Labels] /\ after' \in [Runners -> Labels]
        /\ req' \in [Runners -> Request] /\ turn' \in [Runners -> Nat]
    BY <1>1, <1>2
  <2>3. lost' \in SUBSET Nat /\ cleared' \in SUBSET Nat
    <3>1. 1 .. next - 1 \subseteq Nat /\ lost \in SUBSET Nat
      BY <1>2 DEF SessionInv, SessionTypeOK
    <3> QED  BY <1>1, <3>1
  <2> QED  BY <1>1, <1>2, <2>1, <2>2, <2>3 DEF SessionInv, SessionTypeOK
<1>4. Follows'
  <2>1. ASSUME NEW r \in Runners PROVE pc'[r] = "idle" /\ after'[r] = "idle"
    BY <1>1 DEF Savers
  <2> QED  BY <2>1 DEF Follows, AfterOK
<1>5. AllDated'
  BY <1>1, <1>2 DEF AllDated, Dated
<1>6. NothingMissing'
  BY <1>1 DEF NothingMissing
<1>7. StoredFirst'
  BY <1>1 DEF StoredFirst, Savers
<1>8. ReadsWhole'
  <2>1. ASSUME NEW r \in Runners PROVE pc'[r] = "idle"
    BY <1>1 DEF Savers
  <2> QED  BY <2>1 DEF ReadsWhole, ReadOK
<1>9. CopiesWhole'
  BY <1>1, CopiesKept
<1>10. Forgotten'
  BY <1>1 DEF Forgotten, Without
<1> QED  BY <1>3, <1>4, <1>5, <1>6, <1>7, <1>8, <1>9, <1>10 DEF SessionInv

-----------------------------------------------------------------------------

(* The invariant holds at the start. *)
LEMMA InitEstablishes ==
  ASSUME Instance, Init
  PROVE  SessionInv
<1>1. msgs \in Seq(Message) /\ (\A i \in 1 .. Len(msgs) : msgs[i].n = i)
      /\ Len(msgs) \in Nat /\ DOMAIN msgs = 1 .. Len(msgs)
  BY DEF Init, Instance
<1>2. next = Len(msgs) + 1 /\ next \in Nat \ {0} /\ summary = {} /\ lost = {} /\ cleared = {}
      /\ disk = [msgs |-> msgs, summary |-> {}]
  BY <1>1 DEF Init, NoSummary
<1>3. Sorted(msgs, next) /\ Numbers(msgs) = 1 .. next - 1
  BY <1>1, <1>2 DEF Sorted, Numbers
<1>4. "idle" \in Labels /\ NoRequest \in Request /\ Empty \in Copy /\ Dated(Empty, next)
  BY <1>2, NothingHeld DEF Labels
<1>5. SessionTypeOK
  <2>1. disk \in Copy
    BY <1>1, <1>2 DEF Copy
  <2>2. /\ snap \in [Savers -> Copy] /\ work \in [Savers -> Copy]
        /\ pc \in [Savers -> Labels] /\ after \in [Runners -> Labels]
        /\ req \in [Runners -> Request] /\ turn \in [Runners -> Nat]
    BY <1>4 DEF Init
  <2> QED  BY <1>1, <1>2, <2>1, <2>2 DEF SessionTypeOK
<1>6. Follows
  <2>1. ASSUME NEW r \in Runners PROVE pc[r] = "idle" /\ after[r] = "idle"
    BY DEF Init, Savers
  <2> QED  BY <2>1 DEF Follows, AfterOK
<1>7. AllDated
  BY <1>2, <1>3, <1>4 DEF Init, AllDated, Dated
<1>8. NothingMissing
  BY <1>3 DEF NothingMissing
<1>9. StoredFirst
  BY DEF Init, StoredFirst, Savers
<1>10. ReadsWhole
  <2>1. ASSUME NEW r \in Runners PROVE pc[r] = "idle"
    BY DEF Init, Savers
  <2> QED  BY <2>1 DEF ReadsWhole, ReadOK
<1>11. CopiesWhole
  <2>1. ASSUME NEW n \in Numbers(msgs) PROVE 1 .. n \subseteq Numbers(msgs)
    BY <1>2, <1>3
  <2> QED  BY <1>2, <2>1 DEF Init, CopiesWhole, Whole
<1>12. Forgotten
  BY <1>2 DEF Forgotten, Without
<1> QED  BY <1>5, <1>6, <1>7, <1>8, <1>9, <1>10, <1>11, <1>12 DEF SessionInv

(* A step of something else keeps it. *)
LEMMA StutterKeeps ==
  ASSUME SessionInv, UNCHANGED vars
  PROVE  SessionInv'
<1>1. UNCHANGED <<msgs, summary, disk, next, pc, after, req, turn, snap, work, lost, cleared>>
  BY DEF vars
<1>2. SessionTypeOK' /\ Follows'
  BY <1>1 DEF SessionInv, SessionTypeOK, Follows, AfterOK
<1>3. AllDated' /\ NothingMissing' /\ StoredFirst'
  BY <1>1 DEF SessionInv, AllDated, NothingMissing, StoredFirst, Dated
<1>4. ReadsWhole' /\ CopiesWhole' /\ Forgotten'
  BY <1>1 DEF SessionInv, ReadsWhole, ReadOK, CopiesWhole, Whole, Forgotten, Without
<1> QED  BY <1>2, <1>3, <1>4 DEF SessionInv

(* The invariant holds of every session. *)
THEOREM SessionInvariant == ASSUME Instance PROVE Spec => []SessionInv
<1>1. ASSUME SessionInv, [Next]_vars PROVE SessionInv'
  <2>1. ASSUME NEW r \in Runners, Round(r) PROVE SessionInv'
    BY <1>1, <2>1, ReadFirstKeeps, ReadSecondKeeps, AddUserKeeps, AsksForToolsKeeps,
       ExecuteToolKeeps, MovesKeep, CompressReadKeeps, SetHistoryKeeps, AddAnswerKeeps,
       ClearKeeps DEF Round
  <2>2. CASE Summarize
    BY <1>1, <2>2, SumReadsKeep, SetSummaryKeeps, TruncateKeeps DEF Summarize
  <2>3. ASSUME NEW p \in Savers, Save(p) PROVE SessionInv'
    BY <1>1, <2>3, SnapshotKeeps, WritingKeeps DEF Save
  <2>4. CASE Crash
    BY <1>1, <2>4, CrashKeeps
  <2>5. CASE UNCHANGED vars
    BY <1>1, <2>5, StutterKeeps
  <2> QED  BY <1>1, <2>1, <2>2, <2>3, <2>4, <2>5 DEF Next
<1> QED  BY <1>1, InitEstablishes, PTL DEF Spec

(* A sorted history is in order. *)
LEMMA SortedInOrder ==
  ASSUME next \in Nat, NEW h, Sorted(h, next)
  PROVE  InOrder(h)
<1>1. DOMAIN h = 1 .. Len(h) /\ Len(h) \in Nat
  BY DEF Sorted
<1>2. ASSUME NEW i \in 1 .. Len(h)
      PROVE  h[i].n < IF i = Len(h) THEN next ELSE h[i + 1].n
  <2>1. CASE i = Len(h)
    <3>1. h[i].n < next
      BY DEF Sorted
    <3> QED  BY <2>1, <3>1
  <2>2. CASE i # Len(h)
    <3>1. i + 1 \in 1 .. Len(h) /\ i < i + 1
      <4>1. Len(h) \in Nat
        BY <1>1
      <4> QED  BY <2>2, <4>1
    <3> QED  BY <2>2, <3>1 DEF Sorted
  <2> QED  BY <2>1, <2>2
<1> QED  BY <1>1, <1>2 DEF InOrder

(* Nothing of a conversation is ever out of order, twice in it, or missing *)
(* from a request or the file without having been given up                 *)
(* (loop.go:460-463, 929-976, 1137-1141; manager.go:172-249).              *)
THEOREM SessionIsWhole == ASSUME Instance PROVE Spec => []ConversationIsWhole
<1>1. ASSUME SessionInv PROVE ConversationIsWhole
  <2>1. InOrderOnce
    BY <1>1, SortedInOrder DEF SessionInv, SessionTypeOK, AllDated, Dated, InOrderOnce
  <2>2. RequestHasNoGap
    BY <1>1 DEF SessionInv, ReadsWhole, ReadOK, RequestHasNoGap
  <2>3. DiskHasNoGap
    BY <1>1 DEF SessionInv, CopiesWhole, Whole, DiskHasNoGap
  <2> QED  BY <2>1, <2>2, <2>3 DEF ConversationIsWhole
<1> QED  BY <1>1, SessionInvariant, PTL

(* What /clear was asked to forget while nobody held a copy of it never    *)
(* comes back, unless the process dies (loop.go:1254-1262).                *)
THEOREM ClearedForGood == ASSUME Instance PROVE Spec => []ClearIsFinal
<1>1. ASSUME SessionInv PROVE ClearIsFinal
  BY <1>1 DEF SessionInv, Forgotten, ClearIsFinal
<1> QED  BY <1>1, SessionInvariant, PTL

(* Every variable keeps its type. *)
THEOREM SessionTypeCorrect == ASSUME Instance PROVE Spec => []SessionTypeOK
<1>1. SessionInv => SessionTypeOK
  BY DEF SessionInv
<1> QED  BY <1>1, SessionInvariant, PTL

-----------------------------------------------------------------------------
(***************************************************************************)
(* What is sent of a history, whatever it holds.  The loop is a function   *)
(* on the prefixes of the history; its steps give the set of messages that *)
(* are kept, which is the one the reference defines.                       *)
(***************************************************************************)

Taken(kept, m) == IF Passes(kept, m) THEN Append(kept, m) ELSE kept

(* k tells what is kept of each of the first m prefixes of h. *)
Keeps(k, h, m) ==
  /\ k = [n \in 0 .. m |-> k[n]]
  /\ k[0] = <<>>
  /\ \A n \in 1 .. m : k[n] = Taken(k[n - 1], h[n])

LEMMA KeepsExists ==
  ASSUME NEW h, NEW N \in Nat
  PROVE  \E k : Keeps(k, h, N)
<1> DEFINE Bad == {m \in 0 .. N : ~ \E k : Keeps(k, h, m)}
<1>0. Bad \in SUBSET Nat /\ N \in 0 .. N
  OBVIOUS
<1> SUFFICES ASSUME Bad # {} PROVE FALSE
  BY <1>0, Zenon
<1>1. PICK m \in Bad : \A j \in Bad : m <= j
  <2> HIDE DEF Bad
  <2> QED  BY <1>0, Least
<1>2. m \in 0 .. N /\ ~ \E k : Keeps(k, h, m)
  BY Zenon
<1>3. CASE m = 0
  <2> DEFINE f == [n \in 0 .. 0 |-> <<>>]
  <2>1. f[0] = <<>> /\ f = [n \in 0 .. 0 |-> f[n]] /\ 1 .. 0 = {}
    OBVIOUS
  <2>2. Keeps(f, h, 0)
    BY <2>1 DEF Keeps
  <2> QED  BY <1>2, <1>3, <2>2
<1>4. CASE m # 0
  <2>1. m - 1 \in 0 .. N /\ m - 1 \notin Bad
    BY <1>1, <1>2, <1>4
  <2>2. PICK k : Keeps(k, h, m - 1)
    BY <2>1
  <2> DEFINE f == [n \in 0 .. m |-> IF n = m THEN Taken(k[m - 1], h[m]) ELSE k[n]]
  <2>3. f = [n \in 0 .. m |-> f[n]]
    OBVIOUS
  <2>4. f[0] = <<>>
    BY <1>2, <1>4, <2>2 DEF Keeps
  <2>5. ASSUME NEW n \in 1 .. m PROVE f[n] = Taken(f[n - 1], h[n])
    <3>1. n \in 0 .. m /\ n - 1 \in 0 .. m /\ n - 1 # m /\ (n = m \/ n \in 1 .. m - 1)
      BY <1>2
    <3>2. f[n - 1] = k[n - 1]
      BY <3>1
    <3>3. CASE n = m
      BY <3>1, <3>2, <3>3
    <3>4. CASE n # m
      BY <3>1, <3>2, <3>4, <2>2 DEF Keeps
    <3> QED  BY <3>3, <3>4
  <2> HIDE DEF f
  <2>6. Keeps(f, h, m)
    BY <2>3, <2>4, <2>5, Zenon DEF Keeps
  <2> QED  BY <1>2, <2>6
<1> QED  BY <1>3, <1>4

LEMMA ScanKeeps ==
  ASSUME NEW h \in Seq(Message)
  PROVE  \E k : Keeps(k, h, Len(h)) /\ Scan(h) = k[Len(h)]
<1> DEFINE IsLoop(k) == k = [n \in 0 .. Len(h) |->
                               IF n = 0 THEN <<>>
                               ELSE IF Passes(k[n - 1], h[n]) THEN Append(k[n - 1], h[n])
                               ELSE k[n - 1]]
           K == CHOOSE k : IsLoop(k)
<1>1. PICK f : Keeps(f, h, Len(h))
  BY KeepsExists
<1>2. IsLoop(f)
  <2>1. ASSUME NEW n \in 0 .. Len(h)
        PROVE  f[n] = IF n = 0 THEN <<>> ELSE Taken(f[n - 1], h[n])
    BY <1>1 DEF Keeps
  <2>2. f = [n \in 0 .. Len(h) |-> f[n]]
    BY <1>1 DEF Keeps
  <2>3. f = [n \in 0 .. Len(h) |-> IF n = 0 THEN <<>> ELSE Taken(f[n - 1], h[n])]
    BY <2>1, <2>2
  <2> QED  BY <2>3, Zenon DEF Taken
<1>3. IsLoop(K)
  BY <1>2, Zenon
<1>4. Scan(h) = K[Len(h)]
  BY Zenon DEF Scan
<1>5. Keeps(K, h, Len(h))
  <2> HIDE DEF K
  <2>1. K = [n \in 0 .. Len(h) |-> IF n = 0 THEN <<>> ELSE Taken(K[n - 1], h[n])]
    BY <1>3, Zenon DEF Taken
  <2> HIDE DEF IsLoop
  <2>2. K = [n \in 0 .. Len(h) |-> K[n]]
    BY <2>1
  <2>3. K[0] = <<>>
    BY <2>1
  <2>4. \A n \in 1 .. Len(h) : K[n] = Taken(K[n - 1], h[n])
    BY <2>1
  <2> QED  BY <2>2, <2>3, <2>4, Zenon DEF Keeps
<1> QED  BY <1>4, <1>5, Zenon

(* The messages of a history as they are numbered, and those the loop keeps. *)
Numbered(h) == h \in Seq(Message) /\ \A i \in 1 .. Len(h) : h[i].n = i
KeptOf(k, h) == {m \in 1 .. Len(h) : Passes(k[m - 1], h[m])}

(* s holds those of the first n messages of h whose numbers are in S. *)
Selection(s, h, n, S) ==
  /\ s \in Seq(Message)
  /\ \A i \in 1 .. Len(s) : s[i].n \in 1 .. n /\ s[i] = h[s[i].n]
  /\ \A i, j \in 1 .. Len(s) : i < j => s[i].n < s[j].n
  /\ \A m \in 1 .. n : m \in S <=> \E i \in 1 .. Len(s) : s[i].n = m

LEMMA SelectionGrows ==
  ASSUME NEW h, Numbered(h), NEW n \in 1 .. Len(h), NEW S, NEW s, NEW t,
         Selection(s, h, n - 1, S),
         t = IF n \in S THEN Append(s, h[n]) ELSE s
  PROVE  Selection(t, h, n, S)
<1>1. /\ s \in Seq(Message) /\ Len(s) \in Nat
      /\ h \in Seq(Message) /\ Len(h) \in Nat /\ n \in Nat /\ n >= 1
      /\ h[n] \in Message /\ h[n].n = n
  BY DEF Selection, Numbered
<1>2. CASE n \notin S
  <2>1. t = s
    BY <1>2
  <2>2. \A i \in 1 .. Len(s) : s[i].n \in 1 .. n - 1 /\ s[i] = h[s[i].n]
    BY DEF Selection
  <2>3. \A i \in 1 .. Len(s) : s[i].n \in 1 .. n /\ s[i].n # n /\ s[i] = h[s[i].n]
    BY <1>1, <2>2
  <2>4. ASSUME NEW m \in 1 .. n PROVE m \in S <=> \E i \in 1 .. Len(s) : s[i].n = m
    <3>1. CASE m = n
      BY <1>2, <2>3, <3>1
    <3>2. CASE m # n
      <4>1. m \in 1 .. n - 1
        BY <1>1, <3>2
      <4> QED  BY <4>1 DEF Selection
    <3> QED  BY <3>1, <3>2
  <2> QED  BY <1>1, <2>1, <2>3, <2>4 DEF Selection
<1>3. CASE n \in S
  <2>1. /\ t \in Seq(Message) /\ Len(t) = Len(s) + 1
        /\ t[Len(s) + 1] = h[n]
        /\ \A i \in 1 .. Len(s) : t[i] = s[i]
    BY <1>1, <1>3
  <2>2. \A i \in 1 .. Len(s) : s[i].n \in 1 .. n - 1 /\ s[i] = h[s[i].n]
    BY DEF Selection
  <2>3. \A i \in 1 .. Len(t) : i = Len(s) + 1 \/ i \in 1 .. Len(s)
    BY <1>1, <2>1
  <2>4. ASSUME NEW i \in 1 .. Len(t) PROVE t[i].n \in 1 .. n /\ t[i] = h[t[i].n]
    <3>1. CASE i = Len(s) + 1
      BY <1>1, <2>1, <3>1
    <3>2. CASE i \in 1 .. Len(s)
      BY <1>1, <2>1, <2>2, <3>2
    <3> QED  BY <2>3, <3>1, <3>2
  <2>5. ASSUME NEW i \in 1 .. Len(t), NEW j \in 1 .. Len(t), i < j PROVE t[i].n < t[j].n
    <3>1. i \in 1 .. Len(s)
      BY <1>1, <2>1, <2>5
    <3>2. CASE j = Len(s) + 1
      <4>1. t[j].n = n /\ t[i].n \in 1 .. n - 1
        BY <1>1, <2>1, <2>2, <3>1, <3>2
      <4> QED  BY <1>1, <4>1
    <3>3. CASE j \in 1 .. Len(s)
      BY <2>1, <2>5, <3>1, <3>3 DEF Selection
    <3> QED  BY <2>3, <3>2, <3>3
  <2>6. ASSUME NEW m \in 1 .. n PROVE m \in S <=> \E i \in 1 .. Len(t) : t[i].n = m
    <3>1. CASE m = n
      <4>1. Len(s) + 1 \in 1 .. Len(t)
        BY <1>1, <2>1
      <4> QED  BY <1>1, <1>3, <2>1, <3>1, <4>1
    <3>2. CASE m # n
      <4>1. m \in 1 .. n - 1
        BY <1>1, <3>2
      <4>2. m \in S <=> \E i \in 1 .. Len(s) : s[i].n = m
        BY <4>1 DEF Selection
      <4>3. \A i \in 1 .. Len(s) : i \in 1 .. Len(t)
        BY <1>1, <2>1
      <4>4. ASSUME NEW i \in 1 .. Len(t), t[i].n = m PROVE i \in 1 .. Len(s)
        BY <1>1, <2>1, <2>3, <3>2, <4>4
      <4> QED  BY <2>1, <4>2, <4>3, <4>4
    <3> QED  BY <3>1, <3>2
  <2> HIDE DEF Selection
  <2> QED  BY <2>1, <2>4, <2>5, <2>6 DEF Selection
<1> QED  BY <1>2, <1>3

LEMMA PrefixesSelected ==
  ASSUME NEW h, Numbered(h), NEW k, Keeps(k, h, Len(h))
  PROVE  \A n \in 0 .. Len(h) : Selection(k[n], h, n, KeptOf(k, h))
<1> DEFINE Bad == {n \in 0 .. Len(h) : ~ Selection(k[n], h, n, KeptOf(k, h))}
<1>0. Bad \in SUBSET Nat /\ h \in Seq(Message) /\ Len(h) \in Nat
  BY DEF Numbered
<1> SUFFICES ASSUME Bad # {} PROVE FALSE
  BY Zenon
<1>1. PICK n \in Bad : \A j \in Bad : n <= j
  <2> HIDE DEF Bad
  <2> QED  BY <1>0, Least
<1>2. n \in 0 .. Len(h) /\ ~ Selection(k[n], h, n, KeptOf(k, h))
  BY Zenon
<1>3. CASE n = 0
  <2>1. k[0] = <<>>
    BY DEF Keeps
  <2>2. <<>> \in Seq(Message) /\ Len(<<>>) = 0 /\ 1 .. 0 = {}
    OBVIOUS
  <2>3. Selection(<<>>, h, 0, KeptOf(k, h))
    BY <2>2, Zenon DEF Selection
  <2> QED  BY <1>2, <1>3, <2>1, <2>3
<1>4. CASE n # 0
  <2>1. n \in 1 .. Len(h) /\ n - 1 \in 0 .. Len(h) /\ n - 1 \notin Bad
    BY <1>0, <1>1, <1>2, <1>4
  <2>2. Selection(k[n - 1], h, n - 1, KeptOf(k, h))
    BY <2>1, Zenon
  <2>3. k[n] = IF n \in KeptOf(k, h) THEN Append(k[n - 1], h[n]) ELSE k[n - 1]
    BY <2>1, Zenon DEF Keeps, Taken, KeptOf
  <2> QED  BY <1>2, <2>1, <2>2, <2>3, SelectionGrows
<1> QED  BY <1>3, <1>4

(* A place in a selection, and what is selected between two places. *)
LEMMA SelectionPlaces ==
  ASSUME NEW h, NEW n \in Nat, NEW S \in SUBSET Nat, \A q \in S : q >= 1, NEW s, Selection(s, h, n, S)
  PROVE  /\ Len(s) \in Nat /\ DOMAIN s = 1 .. Len(s)
         /\ \A i \in 1 .. Len(s) : s[i].n \in S /\ s[i].n \in 1 .. n /\ s[i] = h[s[i].n]
         /\ \A q \in S : q <= n => \E i \in 1 .. Len(s) : s[i].n = q
         /\ \A i, j \in 1 .. Len(s) : s[i].n < s[j].n <=> i < j
<1>1. s \in Seq(Message) /\ Len(s) \in Nat /\ DOMAIN s = 1 .. Len(s)
  BY DEF Selection
<1>2. \A i \in 1 .. Len(s) : s[i].n \in S /\ s[i].n \in 1 .. n /\ s[i] = h[s[i].n]
  BY DEF Selection
<1>3. ASSUME NEW q \in S, q <= n PROVE \E i \in 1 .. Len(s) : s[i].n = q
  <2>1. q \in 1 .. n
    BY <1>3
  <2> QED  BY <2>1 DEF Selection
<1>4. ASSUME NEW i \in 1 .. Len(s), NEW j \in 1 .. Len(s) PROVE s[i].n < s[j].n <=> i < j
  <2>1. s[i].n \in Nat /\ s[j].n \in Nat
    BY <1>2
  <2>2. i < j => s[i].n < s[j].n
    BY DEF Selection
  <2>3. j < i => s[j].n < s[i].n
    BY DEF Selection
  <2>4. i \in Nat /\ j \in Nat /\ (i < j \/ j < i \/ i = j)
    OBVIOUS
  <2> QED  BY <2>1, <2>2, <2>3, <2>4
<1> QED  BY <1>1, <1>2, <1>3, <1>4

(* The parent of a tool result, in terms of what is selected. *)
LEMMA ParentCounts ==
  ASSUME NEW h, NEW n \in Nat, n >= 1, NEW S \in SUBSET Nat, \A q \in S : q >= 1, NEW s,
         Selection(s, h, n - 1, S)
  PROVE  HasParent(s) <=> \E p \in S : /\ p < n /\ HasCalls(h[p])
                                       /\ \A q \in S : p < q /\ q < n => h[q].role = "tool"
<1>1. /\ Len(s) \in Nat /\ DOMAIN s = 1 .. Len(s)
      /\ \A i \in 1 .. Len(s) : s[i].n \in S /\ s[i].n \in 1 .. n - 1 /\ s[i] = h[s[i].n]
      /\ \A q \in S : q <= n - 1 => \E i \in 1 .. Len(s) : s[i].n = q
      /\ \A i, j \in 1 .. Len(s) : s[i].n < s[j].n <=> i < j
  <2>1. n - 1 \in Nat
    OBVIOUS
  <2> QED  BY <2>1, SelectionPlaces
<1>2. ASSUME HasParent(s)
      PROVE  \E p \in S : /\ p < n /\ HasCalls(h[p])
                          /\ \A q \in S : p < q /\ q < n => h[q].role = "tool"
  <2>1. PICK i \in 1 .. Len(s) : /\ HasCalls(s[i])
                                 /\ \A j \in i + 1 .. Len(s) : s[j].role = "tool"
    BY <1>1, <1>2 DEF HasParent
  <2>2. s[i].n \in S /\ s[i].n < n /\ HasCalls(h[s[i].n])
    BY <1>1, <2>1
  <2>3. ASSUME NEW q \in S, s[i].n < q, q < n PROVE h[q].role = "tool"
    <3>0. q <= n - 1
      BY <2>3
    <3>1. PICK j \in 1 .. Len(s) : s[j].n = q
      BY <1>1, <3>0
    <3>2. i < j
      BY <1>1, <2>3, <3>1
    <3>3. j \in i + 1 .. Len(s)
      BY <1>1, <3>2
    <3> QED  BY <1>1, <2>1, <3>1, <3>3
  <2> QED  BY <2>2, <2>3
<1>3. ASSUME NEW p \in S, p < n, HasCalls(h[p]),
             \A q \in S : p < q /\ q < n => h[q].role = "tool"
      PROVE  HasParent(s)
  <2>0. p <= n - 1
    BY <1>3
  <2>1. PICK i \in 1 .. Len(s) : s[i].n = p
    BY <1>1, <2>0
  <2>2. HasCalls(s[i])
    BY <1>1, <1>3, <2>1
  <2>3. ASSUME NEW j \in i + 1 .. Len(s) PROVE s[j].role = "tool"
    <3>1. j \in 1 .. Len(s) /\ i < j
      BY <1>1
    <3>2. s[j].n \in S /\ p < s[j].n /\ s[j].n < n /\ s[j] = h[s[j].n]
      BY <1>1, <2>1, <3>1
    <3> QED  BY <1>3, <3>2
  <2> QED  BY <1>1, <2>2, <2>3 DEF HasParent
<1> QED  BY <1>2, <1>3

(* What a turn with calls follows, in terms of what is selected. *)
LEMMA PredecessorCounts ==
  ASSUME NEW h \in Seq(Message), NEW n \in 1 .. Len(h), NEW S \in SUBSET Nat, \A q \in S : q >= 1,
         NEW s, Selection(s, h, n - 1, S)
  PROVE  ValidBefore(s) <=> \E p \in S : /\ p < n /\ h[p].role # "assistant"
                                         /\ \A q \in S : q < n => q <= p
<1>1. /\ Len(s) \in Nat /\ DOMAIN s = 1 .. Len(s) /\ n \in Nat /\ n >= 1
      /\ \A i \in 1 .. Len(s) : s[i].n \in S /\ s[i].n \in 1 .. n - 1 /\ s[i] = h[s[i].n]
      /\ \A q \in S : q <= n - 1 => \E i \in 1 .. Len(s) : s[i].n = q
      /\ \A i, j \in 1 .. Len(s) : s[i].n < s[j].n <=> i < j
  <2>1. n \in Nat /\ n >= 1 /\ n - 1 \in Nat
    OBVIOUS
  <2> HIDE DEF Selection
  <2>2. /\ Len(s) \in Nat /\ DOMAIN s = 1 .. Len(s)
        /\ \A i \in 1 .. Len(s) : s[i].n \in S /\ s[i].n \in 1 .. n - 1 /\ s[i] = h[s[i].n]
        /\ \A q \in S : q <= n - 1 => \E i \in 1 .. Len(s) : s[i].n = q
        /\ \A i, j \in 1 .. Len(s) : s[i].n < s[j].n <=> i < j
    BY <2>1, SelectionPlaces, Zenon
  <2> QED  BY <2>1, <2>2
<1>2. \A p \in 1 .. n - 1 : h[p].role \in {"user", "tool"} <=> h[p].role # "assistant"
  <2>1. \A p \in 1 .. n - 1 : h[p] \in Message
    BY <1>1
  <2> QED  BY <2>1 DEF Message
<1>3. s # <<>> <=> Len(s) >= 1
  <2>1. s \in Seq(Message)
    BY DEF Selection
  <2> QED  BY <2>1, EmptySeq
<1>4. ASSUME ValidBefore(s)
      PROVE  \E p \in S : /\ p < n /\ h[p].role # "assistant"
                          /\ \A q \in S : q < n => q <= p
  <2>1. Len(s) \in 1 .. Len(s) /\ s[Len(s)].role \in {"user", "tool"}
    BY <1>1, <1>3, <1>4 DEF ValidBefore, Last
  <2>2. s[Len(s)].n \in S /\ s[Len(s)].n \in 1 .. n - 1 /\ s[Len(s)] = h[s[Len(s)].n]
    BY <1>1, <2>1
  <2>3. ASSUME NEW q \in S, q < n PROVE q <= s[Len(s)].n
    <3>1. PICK j \in 1 .. Len(s) : s[j].n = q
      BY <1>1, <2>3
    <3>2. ~ (Len(s) < j)
      BY <1>1
    <3> QED  BY <1>1, <2>1, <2>2, <3>1, <3>2
  <2>4. s[Len(s)].n < n /\ h[s[Len(s)].n].role # "assistant"
    BY <1>1, <1>2, <2>1, <2>2
  <2> QED  BY <2>2, <2>3, <2>4
<1>5. ASSUME NEW p \in S, p < n, h[p].role # "assistant", \A q \in S : q < n => q <= p
      PROVE  ValidBefore(s)
  <2>1. PICK i \in 1 .. Len(s) : s[i].n = p
    BY <1>1, <1>5
  <2>2. i = Len(s)
    <3>1. Len(s) \in 1 .. Len(s)
      BY <1>1
    <3>2. s[Len(s)].n \in S /\ s[Len(s)].n < n
      BY <1>1, <3>1
    <3>3. s[Len(s)].n <= s[i].n
      BY <1>5, <2>1, <3>2
    <3>4. ~ (i < Len(s))
      BY <1>1, <3>1, <3>2, <3>3, <2>1
    <3>5. i \in Nat /\ i <= Len(s) /\ Len(s) \in Nat
      BY <1>1
    <3> QED  BY <3>4, <3>5
  <2>3. s[i] = h[p] /\ p \in 1 .. n - 1
    BY <1>1, <2>1
  <2>4. Len(s) >= 1 /\ s[Len(s)].role \in {"user", "tool"}
    BY <1>1, <1>2, <1>5, <2>2, <2>3
  <2> QED  BY <1>3, <2>4 DEF ValidBefore, Last
<1> QED  BY <1>4, <1>5

(* The loop keeps the messages the reference names. *)
LEMMA LoopIsCounted ==
  ASSUME Numbered(hist), NEW k, Keeps(k, hist, Len(hist))
  PROVE  CountedBy(KeptOf(k, hist))
<1> DEFINE S == KeptOf(k, hist)
<1>1. hist \in Seq(Message) /\ Len(hist) \in Nat /\ DOMAIN hist = 1 .. Len(hist)
  BY DEF Numbered
<1>2. S \subseteq 1 .. Len(hist) /\ S \in SUBSET Nat /\ \A q \in S : q >= 1
  BY <1>1 DEF KeptOf
<1>3. ASSUME NEW n \in 1 .. Len(hist) PROVE n \in S <=> Counts(n, S)
  <2>1. n \in Nat /\ n >= 1 /\ n - 1 \in 0 .. Len(hist)
    BY <1>1
  <2>2. Selection(k[n - 1], hist, n - 1, S)
    BY <2>1, PrefixesSelected
  <2>3. n \in S <=> Passes(k[n - 1], hist[n])
    BY DEF KeptOf
  <2> HIDE DEF S
  <2>4. HasParent(k[n - 1]) <=> \E p \in S : /\ p < n /\ HasCalls(hist[p])
                                             /\ \A q \in S : p < q /\ q < n => hist[q].role = "tool"
    BY <1>2, <2>1, <2>2, ParentCounts
  <2>5. ValidBefore(k[n - 1]) <=> \E p \in S : /\ p < n /\ hist[p].role # "assistant"
                                               /\ \A q \in S : q < n => q <= p
    BY <1>1, <1>2, <2>2, PredecessorCounts
  <2>6. hist[n].role = "tool" => ~ HasCalls(hist[n])
    BY DEF HasCalls
  <2> QED  BY <2>3, <2>4, <2>5, <2>6 DEF Passes, Counts
<1> QED  BY <1>1, <1>2, <1>3 DEF CountedBy

(* The reference names one set of messages only. *)
LEMMA CountedOnce ==
  ASSUME Numbered(hist), NEW S, NEW U, CountedBy(S), CountedBy(U)
  PROVE  S = U
<1>1. DOMAIN hist \in SUBSET Nat
  BY DEF Numbered
<1> DEFINE Differ == {i \in DOMAIN hist : ~ (i \in S <=> i \in U)}
<1>2. S \subseteq DOMAIN hist /\ U \subseteq DOMAIN hist
  BY DEF CountedBy
<1> SUFFICES ASSUME Differ # {} PROVE FALSE
  BY <1>2, Zenon
<1>3. Differ \in SUBSET Nat
  BY <1>1
<1>4. PICK i \in Differ : \A j \in Differ : i <= j
  <2> HIDE DEF Differ
  <2> QED  BY <1>3, Least
<1>5. i \in DOMAIN hist /\ i \in Nat /\ ~ (i \in S <=> i \in U)
  BY <1>1, Zenon
<1>6. \A q \in Nat : q < i => (q \in S <=> q \in U)
  BY <1>2, <1>4, <1>5
<1>7. S \in SUBSET Nat /\ U \in SUBSET Nat
  BY <1>1, <1>2
<1>8. Counts(i, S) <=> Counts(i, U)
  <2> HIDE DEF Differ
  <2>1. (\E p \in S : /\ p < i /\ HasCalls(hist[p])
                      /\ \A q \in S : p < q /\ q < i => hist[q].role = "tool")
        <=> (\E p \in U : /\ p < i /\ HasCalls(hist[p])
                          /\ \A q \in U : p < q /\ q < i => hist[q].role = "tool")
    BY <1>5, <1>6, <1>7
  <2>2. (\E p \in S : /\ p < i /\ hist[p].role # "assistant" /\ \A q \in S : q < i => q <= p)
        <=> (\E p \in U : /\ p < i /\ hist[p].role # "assistant" /\ \A q \in U : q < i => q <= p)
    BY <1>5, <1>6, <1>7
  <2>3. hist[i].role = "tool" => ~ HasCalls(hist[i])
    BY DEF HasCalls
  <2> QED  BY <2>1, <2>2, <2>3 DEF Counts
<1>9. (i \in S <=> Counts(i, S)) /\ (i \in U <=> Counts(i, U))
  BY <1>5 DEF CountedBy
<1> QED  BY <1>5, <1>8, <1>9

(* What the loop keeps of the whole history is a selection of its messages. *)
LEMMA ScanSelects ==
  ASSUME Numbered(hist)
  PROVE  \E S \in SUBSET Nat : /\ CountedBy(S) /\ \A q \in S : q >= 1
                               /\ Selection(Scan(hist), hist, Len(hist), S)
<1>1. hist \in Seq(Message) /\ Len(hist) \in Nat
  BY DEF Numbered
<1>2. PICK k : Keeps(k, hist, Len(hist)) /\ Scan(hist) = k[Len(hist)]
  BY <1>1, ScanKeeps
<1>3. CountedBy(KeptOf(k, hist))
  BY <1>2, LoopIsCounted
<1>4. Selection(Scan(hist), hist, Len(hist), KeptOf(k, hist))
  <2>1. Len(hist) \in 0 .. Len(hist)
    BY <1>1
  <2> QED  BY <1>2, <2>1, PrefixesSelected
<1>5. KeptOf(k, hist) \in SUBSET Nat /\ \A q \in KeptOf(k, hist) : q >= 1
  BY DEF KeptOf
<1> QED  BY <1>3, <1>4, <1>5

LEMMA FrontOf ==
  ASSUME NEW S, NEW s \in Seq(S), s # <<>>
  PROVE  /\ Front(s) \in Seq(S) /\ Len(Front(s)) = Len(s) - 1
         /\ \A i \in 1 .. Len(s) - 1 : Front(s)[i] = s[i]
<1>1. Len(s) \in Nat /\ Len(s) # 0
  BY EmptySeq
<1>2. Front(s) = SubSeq(s, 1, Len(s) - 1)
  BY Zenon DEF Front
<1>3. \A i \in 1 .. Len(s) - 1 : s[i] \in S
  BY <1>1
<1>4. /\ SubSeq(s, 1, Len(s) - 1) \in Seq(S)
      /\ Len(SubSeq(s, 1, Len(s) - 1)) = Len(s) - 1
  <2> DEFINE m == Len(s) - 1
  <2>1. m \in Nat /\ m \in Int /\ 1 \in Int
    BY <1>1
  <2>2. \A i \in 1 .. m : s[i] \in S
    BY <1>3
  <2> HIDE DEF m
  <2>3. /\ SubSeq(s, 1, m) \in Seq(S)
        /\ Len(SubSeq(s, 1, m)) = IF 1 <= m THEN m - 1 + 1 ELSE 0
    BY <2>1, <2>2, SubSeqProperties, Z3
  <2>4. (IF 1 <= m THEN m - 1 + 1 ELSE 0) = m
    BY <2>1
  <2> QED  BY <2>3, <2>4 DEF m
<1>5. \A i \in 1 .. Len(s) - 1 : SubSeq(s, 1, Len(s) - 1)[i] = s[i]
  BY <1>1
<1> QED  BY <1>2, <1>4, <1>5

(* What is sent of a selection: its messages but a last turn with calls. *)
LEMMA TrailingDropped ==
  ASSUME Numbered(hist), NEW S \in SUBSET Nat, CountedBy(S), \A q \in S : q >= 1,
         NEW s, Selection(s, hist, Len(hist), S)
  PROVE  LET d == DropTrailing(s) IN
         /\ d \in Seq(Message) /\ Numbers(d) = WithoutTrailing(S)
         /\ \A i \in 1 .. Len(d) - 1 : d[i].n < d[i + 1].n
<1>1. hist \in Seq(Message) /\ Len(hist) \in Nat /\ DOMAIN hist = 1 .. Len(hist)
  BY DEF Numbered
<1>2. S \subseteq 1 .. Len(hist)
  BY <1>1 DEF CountedBy
<1>3. /\ Len(s) \in Nat /\ DOMAIN s = 1 .. Len(s)
      /\ \A i \in 1 .. Len(s) : s[i].n \in S /\ s[i].n \in 1 .. Len(hist) /\ s[i] = hist[s[i].n]
      /\ \A q \in S : q <= Len(hist) => \E i \in 1 .. Len(s) : s[i].n = q
      /\ \A i, j \in 1 .. Len(s) : s[i].n < s[j].n <=> i < j
  BY <1>1, SelectionPlaces
<1>4. ASSUME NEW q \in S PROVE \E i \in 1 .. Len(s) : s[i].n = q
  <2>1. q <= Len(hist)
    BY <1>1, <1>2
  <2> QED  BY <1>3, <2>1
<1>5. s \in Seq(Message)
  BY DEF Selection
<1>6. Numbers(s) = S
  BY <1>3, <1>4 DEF Numbers
<1>7. ASSUME NEW i \in 1 .. Len(s) - 1 PROVE s[i].n < s[i + 1].n
  <2>1. i \in 1 .. Len(s) /\ i + 1 \in 1 .. Len(s) /\ i < i + 1
    BY <1>3
  <2> QED  BY <1>3, <2>1
<1>8. CASE ~ (s # <<>> /\ HasCalls(Last(s)))
  <2>1. DropTrailing(s) = s
    BY <1>8 DEF DropTrailing
  <2>2. ASSUME NEW q \in S, HasCalls(hist[q]), \A r \in S : r <= q PROVE FALSE
    <3>1. PICK i \in 1 .. Len(s) : s[i].n = q
      BY <1>4
    <3>2. Len(s) \in 1 .. Len(s) /\ i \in Nat /\ i <= Len(s)
      BY <1>3
    <3>3. s[Len(s)].n <= s[i].n
      BY <1>3, <2>2, <3>1, <3>2
    <3>4. ~ (s[i].n < s[Len(s)].n)
      BY <3>1, <3>2, <3>3, <1>3
    <3>5. i = Len(s)
      <4>1. ~ (i < Len(s))
        BY <1>3, <3>2, <3>4
      <4>2. Len(s) \in Nat
        BY <1>3
      <4> QED  BY <3>2, <4>1, <4>2
    <3>6. HasCalls(Last(s))
      BY <1>3, <2>2, <3>1, <3>5 DEF Last
    <3>7. s # <<>>
      BY <1>5, <3>2, EmptySeq
    <3> QED  BY <1>8, <3>6, <3>7
  <2>3. WithoutTrailing(S) = S
    BY <2>2, Zenon DEF WithoutTrailing
  <2> QED  BY <1>5, <1>6, <1>7, <2>1, <2>3
<1>9. CASE s # <<>> /\ HasCalls(Last(s))
  <2> DEFINE f == Front(s)
             last == s[Len(s)].n
  <2>1. DropTrailing(s) = f
    BY <1>9 DEF DropTrailing
  <2>2. Len(s) >= 1 /\ Len(s) \in 1 .. Len(s)
    <3>1. Len(s) # 0
      BY <1>5, <1>9, EmptySeq
    <3> QED  BY <1>3, <3>1
  <2>3. /\ f \in Seq(Message) /\ Len(f) = Len(s) - 1
        /\ DOMAIN f = 1 .. Len(s) - 1
        /\ \A i \in 1 .. Len(s) - 1 : f[i] = s[i]
    <3>1. /\ f \in Seq(Message) /\ Len(f) = Len(s) - 1
          /\ \A i \in 1 .. Len(s) - 1 : f[i] = s[i]
      BY <1>5, <1>9, FrontOf, Zenon
    <3>2. DOMAIN f = 1 .. Len(f)
      BY <3>1
    <3> QED  BY <3>1, <3>2
  <2>4. last \in S /\ HasCalls(hist[last])
    BY <1>3, <1>9, <2>2 DEF Last
  <2>5. ASSUME NEW q \in S PROVE q <= last
    <3>1. PICK i \in 1 .. Len(s) : s[i].n = q
      BY <1>4
    <3>2. ~ (Len(s) < i)
      BY <1>3
    <3>3. ~ (s[Len(s)].n < s[i].n)
      BY <1>3, <2>2, <3>2
    <3>4. q \in Nat /\ last \in Nat /\ ~ (last < q)
      BY <2>4, <3>1, <3>3
    <3> QED  BY <3>4
  <2>6. WithoutTrailing(S) = S \ {last}
    <3>1. ASSUME NEW q \in S, \A r \in S : r <= q PROVE q = last
      <4> HIDE DEF last
      <4>1. q \in Nat /\ last \in Nat /\ q <= last /\ last <= q
        BY <2>4, <2>5, <3>1
      <4> QED  BY <4>1
    <3> HIDE DEF last
    <3> QED  BY <2>4, <2>5, <3>1, Zenon DEF WithoutTrailing
  <2>7. Numbers(f) = S \ {last}
    <3>1. ASSUME NEW i \in 1 .. Len(s) - 1 PROVE s[i].n \in S /\ s[i].n # last
      <4>1. i \in 1 .. Len(s) /\ i < Len(s)
        BY <1>3
      <4>2. s[i].n < s[Len(s)].n
        BY <1>3, <2>2, <4>1
      <4> QED  BY <1>3, <2>4, <4>1, <4>2
    <3>2. ASSUME NEW q \in S, q # last PROVE \E i \in 1 .. Len(s) - 1 : s[i].n = q
      <4>1. PICK i \in 1 .. Len(s) : s[i].n = q
        BY <1>4
      <4>2. i # Len(s)
        BY <3>2, <4>1
      <4>3. i \in 1 .. Len(s) - 1
        <5>1. Len(s) \in Nat
          BY <1>3
        <5> QED  BY <4>2, <5>1
      <4> QED  BY <4>1, <4>3
    <3>3. Numbers(f) = {s[i].n : i \in 1 .. Len(s) - 1}
      BY <2>3 DEF Numbers
    <3> QED  BY <3>1, <3>2, <3>3
  <2>8. ASSUME NEW i \in 1 .. Len(f) - 1 PROVE f[i].n < f[i + 1].n
    <3>1. i \in 1 .. Len(s) - 1 /\ i + 1 \in 1 .. Len(s) - 1
      BY <1>3, <2>3
    <3> QED  BY <1>7, <2>3, <3>1
  <2> QED  BY <2>1, <2>3, <2>6, <2>7, <2>8
<1> QED  BY <1>8, <1>9

LEMMA ReferenceAgrees == ASSUME Numbered(hist) PROVE AgreesWithReference
<1>1. PICK S \in SUBSET Nat : /\ CountedBy(S) /\ \A q \in S : q >= 1
                              /\ Selection(Scan(hist), hist, Len(hist), S)
  BY ScanSelects
<1>2. /\ Numbers(Sanitized) = WithoutTrailing(S)
      /\ \A i \in 1 .. Len(Sanitized) - 1 : Sanitized[i].n < Sanitized[i + 1].n
  BY <1>1, TrailingDropped DEF Sanitized, sanitizeHistoryForProvider
<1>3. S \in SUBSET DOMAIN hist
  BY <1>1 DEF CountedBy
<1>4. \A U \in SUBSET DOMAIN hist : CountedBy(U) => U = S
  BY <1>1, CountedOnce
<1> QED  BY <1>1, <1>2, <1>3, <1>4, Zenon DEF AgreesWithReference

LEMMA SaidIsSent == ASSUME Numbered(hist) PROVE NothingSaidIsWithheld
<1>1. PICK S \in SUBSET DOMAIN hist : CountedBy(S) /\ Numbers(Sanitized) = WithoutTrailing(S)
  BY ReferenceAgrees DEF AgreesWithReference
<1>2. ASSUME NEW i \in DOMAIN hist, hist[i].role # "tool", ~ HasCalls(hist[i])
      PROVE  hist[i].n \in Numbers(Sanitized)
  <2>1. Counts(i, S)
    BY <1>2 DEF Counts
  <2>2. i \in WithoutTrailing(S)
    BY <1>1, <1>2, <2>1, Zenon DEF CountedBy, WithoutTrailing
  <2>3. hist[i].n = i
    BY DEF Numbered
  <2> QED  BY <1>1, <2>2, <2>3
<1> QED  BY <1>2 DEF NothingSaidIsWithheld

LEMMA CutsClean == ASSUME Numbered(hist) PROVE CompressionCutsClean
<1> DEFINE mid == CutPoint(hist)
           c == Compressed(hist, mid)
           n == Len(hist) - mid
<1> SUFFICES ASSUME Len(hist) > KeepLast
             PROVE  /\ c[1] = hist[1] /\ Last(c) = Last(hist)
                    /\ Len(c) <= Len(hist) /\ Len(c) >= 3
                    /\ c[2].role = "tool" => Len(c) = 3
  <2>1. Len(hist) > KeepLast => ~ (Len(hist) <= KeepLast)
    BY HistoryAssumption DEF Numbered
  <2>2. Len(hist) > KeepLast => Compress(hist) = c
    BY <2>1, Zenon DEF Compress
  <2> HIDE DEF c
  <2> QED  BY <2>2, Zenon DEF CompressionCutsClean
<1>1. hist \in Seq(Message) /\ Len(hist) \in Nat /\ Len(hist) >= 3
  BY HistoryAssumption DEF Numbered
<1>2. /\ mid \in Nat /\ mid <= Len(hist) - 3
      /\ mid = Len(hist) - 3 \/ hist[mid + 2].role # "tool"
  BY <1>1, CutPointExists
<1> HIDE DEF mid
<1>3. n \in Nat /\ n >= 3 /\ n <= Len(hist)
  BY <1>1, <1>2
<1>4. /\ c = [i \in 1 .. n |-> c[i]]
      /\ \A i \in 1 .. n : c[i] = IF i = 1 THEN hist[1] ELSE hist[i + mid]
  BY DEF Compressed
<1>5. Len(c) = n
  <2>1. c \in [1 .. n -> Message]
    <3>1. \A i \in 1 .. n : i + mid \in 1 .. Len(hist) /\ 1 \in 1 .. Len(hist)
      BY <1>1, <1>2
    <3> QED  BY <1>1, <3>1 DEF Compressed
  <2> HIDE DEF c
  <2>2. c \in Seq(Message) /\ DOMAIN c = 1 .. n
    BY <1>3, <2>1, SeqDef, Zenon
  <2>3. DOMAIN c = 1 .. Len(c) /\ Len(c) \in Nat
    BY <2>2, LenProperties
  <2> QED  BY <1>3, <2>2, <2>3
<1> HIDE DEF c
<1>6. c[1] = hist[1]
  BY <1>3, <1>4
<1>7. Last(c) = Last(hist)
  <2>1. n \in 1 .. n /\ n # 1 /\ n + mid = Len(hist)
    BY <1>1, <1>2, <1>3
  <2>2. c[n] = hist[Len(hist)]
    BY <1>4, <2>1
  <2> QED  BY <1>5, <2>2 DEF Last
<1>8. c[2] = hist[mid + 2]
  BY <1>2, <1>3, <1>4
<1>9. c[2].role = "tool" => n = 3
  BY <1>1, <1>2, <1>8
<1> QED  BY <1>3, <1>5, <1>6, <1>7, <1>9

(* Of every history there is, the LLM gets what the reference names, all   *)
(* that was said included, and a compression cuts no turn in two           *)
(* (context.go:188-258, loop.go:943-971).                                  *)
THEOREM HistoriesAreSound == HistorySpec => []HistoryIsSound
<1>1. HistoryInit => Numbered(hist)
  BY DEF HistoryInit, Numbered
<1>2. ASSUME Numbered(hist), [Grow]_hist PROVE Numbered(hist)'
  <2>1. CASE UNCHANGED hist
    BY <1>2, <2>1 DEF Numbered
  <2>2. CASE Grow
    <3>1. hist \in Seq(Message) /\ Len(hist) \in Nat /\ \A i \in 1 .. Len(hist) : hist[i].n = i
      BY <1>2 DEF Numbered
    <3>2. PICK m \in {User(Len(hist) + 1), ToolResult(Len(hist) + 1, 0)}
                       \cup {Assistant(Len(hist) + 1, k) : k \in 0 .. HistoryCalls} :
            hist' = Append(hist, m)
      BY <2>2 DEF Grow
    <3>3. m \in Message /\ m.n = Len(hist) + 1
      <4>1. \A k \in 0 .. HistoryCalls : k \in Nat
        BY HistoryAssumption
      <4> QED  BY <3>1, <3>2, <4>1 DEF User, ToolResult, Assistant, Message
    <3>4. hist' \in Seq(Message) /\ Len(hist') = Len(hist) + 1
      BY <3>1, <3>2, <3>3
    <3>5. ASSUME NEW i \in 1 .. Len(hist') PROVE hist'[i].n = i
      <4>1. i \in 1 .. Len(hist) \/ i = Len(hist) + 1
        BY <3>1, <3>4
      <4> QED  BY <3>1, <3>2, <3>3, <4>1
    <3> QED  BY <3>4, <3>5 DEF Numbered
  <2> QED  BY <1>2, <2>1, <2>2
<1>3. Numbered(hist) => HistoryIsSound
  BY ReferenceAgrees, SaidIsSent, CutsClean DEF HistoryIsSound
<1> QED  BY <1>1, <1>2, <1>3, PTL DEF HistorySpec
=============================================================================
