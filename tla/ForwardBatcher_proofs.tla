----------------------- MODULE ForwardBatcher_proofs -----------------------
(***************************************************************************)
(* What holds of the forward batcher for any streams, any number of        *)
(* requests and any size of batch: no request is forgotten or answered     *)
(* twice, and the cache of a stream holds what it fed.                     *)
(*                                                                         *)
(* A request is in one of the queue, the batch, the groups and the retries.*)
(* The invariant says so with the set of keys each of them holds, so that  *)
(* a step of the thread moves one key, or a set of them, from one set to   *)
(* another; the counting of the property comes last.                       *)
(***************************************************************************)
EXTENDS ForwardBatcher, SequenceTheorems, FiniteSetTheorems, WellFoundedInduction, TLAPS

\* Requests of a thread have a number; the sentinel of stop() has none.
Numbered == [st : Streams, n : Nat \ {0}, tail : BOOLEAN]
Entries == Numbered \union {Sentinel}

Key(r) == <<r.st, r.n>>
One(r) == IF r.n = 0 THEN {} ELSE {Key(r)}
Keys(q) == {Key(q[i]) : i \in {j \in DOMAIN q : q[j].n # 0}}
GroupKeys(gs) == UNION {Keys(gs[k]) : k \in DOMAIN gs}

\* Each request is there once.
Single(q) == \A i, j \in DOMAIN q : q[i].n # 0 /\ Key(q[i]) = Key(q[j]) => i = j
Divided(gs) ==
  /\ \A k \in DOMAIN gs : Single(gs[k])
  /\ \A k, m \in DOMAIN gs : k # m => Keys(gs[k]) \intersect Keys(gs[m]) = {}

----------------------------------------------------------------------------
(* The keys of a sequence.                                                 *)

LEMMA NumbersType ==
  /\ \A st \in Streams : Numbers(st) \subseteq Nat \ {0}
  /\ MaxBatch \in Nat
BY BatcherAssumption DEF Numbers

LEMMA KeysOf ==
  ASSUME NEW q \in Seq(Entries), NEW i \in DOMAIN q, q[i].n # 0
  PROVE  Key(q[i]) \in Keys(q)
BY DEF Keys

LEMMA KeysAppend ==
  ASSUME NEW q \in Seq(Entries), NEW r \in Entries
  PROVE  Keys(Append(q, r)) = Keys(q) \union One(r)
<1> DEFINE p == Append(q, r)
           n == Len(q)
<1>1. /\ n \in Nat /\ DOMAIN q = 1..n /\ DOMAIN p = 1..(n + 1) /\ p[n + 1] = r
      /\ \A i \in 1..n : p[i] = q[i]
  OBVIOUS
<1> HIDE DEF p, n
<1>2. ASSUME NEW i \in DOMAIN p, p[i].n # 0 PROVE Key(p[i]) \in Keys(q) \union One(r)
  <2>1. CASE i = n + 1
    BY <1>1, <1>2, <2>1 DEF One
  <2>2. CASE i \in 1..n
    BY <1>1, <1>2, <2>2 DEF Keys
  <2>3. i = n + 1 \/ i \in 1..n
    BY <1>1
  <2> QED BY <2>1, <2>2, <2>3
<1>3. ASSUME NEW i \in DOMAIN q, q[i].n # 0 PROVE Key(q[i]) \in Keys(p)
  <2>1. i \in DOMAIN p /\ p[i] = q[i]
    BY <1>1
  <2> QED BY <1>3, <2>1 DEF Keys
<1>4. One(r) \subseteq Keys(p)
  <2>1. n + 1 \in DOMAIN p /\ p[n + 1] = r
    BY <1>1
  <2> QED BY <2>1 DEF One, Keys
<1>5. Keys(p) \subseteq Keys(q) \union One(r)
  BY <1>2 DEF Keys
<1>6. Keys(q) \subseteq Keys(p)
  BY <1>3 DEF Keys
<1>7. Keys(p) = Keys(q) \union One(r)
  BY <1>4, <1>5, <1>6
<1> QED BY <1>7 DEF p

LEMMA SingleAppend ==
  ASSUME NEW q \in Seq(Entries), NEW r \in Entries, Single(q), r.n # 0 => Key(r) \notin Keys(q)
  PROVE  Single(Append(q, r))
<1> DEFINE p == Append(q, r)
           n == Len(q)
<1>1. /\ n \in Nat /\ DOMAIN q = 1..n /\ DOMAIN p = 1..(n + 1) /\ p[n + 1] = r
      /\ \A i \in 1..n : p[i] = q[i]
      /\ \A i \in 1..(n + 1) : i = n + 1 \/ i \in 1..n
  OBVIOUS
<1> HIDE DEF p, n
<1>2. ASSUME NEW i \in DOMAIN p, NEW j \in DOMAIN p, p[i].n # 0, Key(p[i]) = Key(p[j]) PROVE i = j
  <2>1. p[j].n # 0
    BY <1>2 DEF Key
  <2>2. CASE i \in 1..n /\ j \in 1..n
    BY <1>1, <1>2, <2>2 DEF Single
  <2>3. CASE i = n + 1 /\ j \in 1..n
    BY <1>1, <1>2, <2>1, <2>3 DEF Keys
  <2>4. CASE i \in 1..n /\ j = n + 1
    BY <1>1, <1>2, <2>1, <2>4 DEF Keys
  <2> QED BY <1>1, <2>2, <2>3, <2>4
<1>3. Single(p)
  BY <1>2 DEF Single
<1> QED BY <1>3 DEF p

LEMMA TailOf ==
  ASSUME NEW S, NEW q \in Seq(S), q # <<>>
  PROVE  /\ Tail(q) \in Seq(S) /\ Head(q) \in S /\ Head(q) = q[1] /\ 1 \in DOMAIN q
         /\ Len(q) \in Nat /\ Len(q) > 0
         /\ DOMAIN q = 1..Len(q) /\ DOMAIN Tail(q) = 1..(Len(q) - 1)
         /\ \A i \in 1..(Len(q) - 1) : Tail(q)[i] = q[i + 1]
OBVIOUS

LEMMA KeysTail ==
  ASSUME NEW q \in Seq(Entries), q # <<>>, Single(q)
  PROVE  /\ Keys(q) = Keys(Tail(q)) \union One(Head(q))
         /\ Keys(Tail(q)) \intersect One(Head(q)) = {}
         /\ Single(Tail(q))
<1> DEFINE t == Tail(q)
           n == Len(q)
<1>1. /\ n \in Nat /\ n > 0 /\ DOMAIN q = 1..n /\ DOMAIN t = 1..(n - 1)
      /\ Head(q) = q[1] /\ 1 \in DOMAIN q
      /\ \A i \in 1..(n - 1) : t[i] = q[i + 1]
  BY TailOf
<1>2. ASSUME NEW i \in DOMAIN t
      PROVE  i + 1 \in DOMAIN q /\ t[i] = q[i + 1] /\ i + 1 # 1 /\ i \in Nat
  BY <1>1
<1>3. ASSUME NEW i \in DOMAIN q, i # 1 PROVE i - 1 \in DOMAIN t /\ q[i] = t[i - 1]
  <2>1. i - 1 \in 1..(n - 1) /\ (i - 1) + 1 = i
    BY <1>1, <1>3
  <2> QED BY <1>1, <2>1
<1> HIDE DEF t, n
<1>4. ASSUME NEW i \in DOMAIN t, t[i].n # 0
      PROVE  Key(t[i]) \in Keys(q) /\ Key(t[i]) \notin One(Head(q))
  <2>1. i + 1 \in DOMAIN q /\ t[i] = q[i + 1] /\ i + 1 # 1
    BY <1>2
  <2>2. Key(t[i]) \in Keys(q)
    BY <1>4, <2>1 DEF Keys
  <2>3. Key(q[i + 1]) # Key(q[1])
    BY <1>1, <1>4, <2>1 DEF Single
  <2> QED BY <1>1, <2>1, <2>2, <2>3 DEF One
<1>5. ASSUME NEW i \in DOMAIN q, q[i].n # 0 PROVE Key(q[i]) \in Keys(t) \union One(Head(q))
  <2>1. CASE i = 1
    BY <1>1, <1>5, <2>1 DEF One
  <2>2. CASE i # 1
    <3>1. i - 1 \in DOMAIN t /\ q[i] = t[i - 1]
      BY <1>3, <2>2
    <3> QED BY <1>5, <3>1 DEF Keys
  <2> QED BY <2>1, <2>2
<1>6. One(Head(q)) \subseteq Keys(q)
  BY <1>1 DEF One, Keys
<1>7. Keys(q) \subseteq Keys(t) \union One(Head(q))
  BY <1>5 DEF Keys
<1>8. Keys(t) \subseteq Keys(q) /\ Keys(t) \intersect One(Head(q)) = {}
  BY <1>4 DEF Keys
<1>9. Single(t)
  <2> SUFFICES ASSUME NEW i \in DOMAIN t, NEW j \in DOMAIN t, t[i].n # 0, Key(t[i]) = Key(t[j])
               PROVE  i = j
    BY DEF Single
  <2>1. /\ i + 1 \in DOMAIN q /\ t[i] = q[i + 1] /\ j + 1 \in DOMAIN q /\ t[j] = q[j + 1]
        /\ i \in Nat /\ j \in Nat
    BY <1>2
  <2>2. i + 1 = j + 1
    BY <2>1 DEF Single
  <2> QED BY <2>1, <2>2
<1>10. Keys(q) = Keys(t) \union One(Head(q))
  BY <1>6, <1>7, <1>8
<1> QED BY <1>8, <1>9, <1>10 DEF t

\* The same of the groups, one of which is taken.
LEMMA GroupsTail ==
  ASSUME NEW gs \in Seq(Seq(Numbered)), gs # <<>>, Divided(gs)
  PROVE  /\ GroupKeys(gs) = GroupKeys(Tail(gs)) \union Keys(Head(gs))
         /\ GroupKeys(Tail(gs)) \intersect Keys(Head(gs)) = {}
         /\ Divided(Tail(gs)) /\ Single(Head(gs))
<1> DEFINE t == Tail(gs)
           n == Len(gs)
<1>1. /\ n \in Nat /\ n > 0 /\ DOMAIN gs = 1..n /\ DOMAIN t = 1..(n - 1) /\ Head(gs) = gs[1]
      /\ 1 \in DOMAIN gs
      /\ \A i \in 1..(n - 1) : t[i] = gs[i + 1]
  BY TailOf
<1>2. ASSUME NEW i \in DOMAIN t
      PROVE  i + 1 \in DOMAIN gs /\ t[i] = gs[i + 1] /\ i + 1 # 1 /\ i \in Nat
  BY <1>1
<1>3. ASSUME NEW i \in DOMAIN gs, i # 1 PROVE i - 1 \in DOMAIN t /\ gs[i] = t[i - 1]
  <2>1. i - 1 \in 1..(n - 1) /\ (i - 1) + 1 = i
    BY <1>1, <1>3
  <2> QED BY <1>1, <2>1
<1> HIDE DEF t, n
<1>4. GroupKeys(gs) \subseteq GroupKeys(t) \union Keys(Head(gs))
  <2> SUFFICES ASSUME NEW i \in DOMAIN gs, NEW x \in Keys(gs[i])
               PROVE  x \in GroupKeys(t) \union Keys(Head(gs))
    BY DEF GroupKeys
  <2>1. CASE i = 1
    BY <1>1, <2>1
  <2>2. CASE i # 1
    BY <1>3, <2>2 DEF GroupKeys
  <2> QED BY <2>1, <2>2
<1>5. GroupKeys(t) \subseteq GroupKeys(gs)
  <2> SUFFICES ASSUME NEW i \in DOMAIN t, NEW x \in Keys(t[i]) PROVE x \in GroupKeys(gs)
    BY DEF GroupKeys
  <2> QED BY <1>2 DEF GroupKeys
<1>6. Keys(Head(gs)) \subseteq GroupKeys(gs)
  BY <1>1 DEF GroupKeys
<1>7. GroupKeys(t) \intersect Keys(Head(gs)) = {}
  <2> SUFFICES ASSUME NEW i \in DOMAIN t, NEW x \in Keys(t[i]), x \in Keys(gs[1]) PROVE FALSE
    BY <1>1 DEF GroupKeys
  <2>1. i + 1 \in DOMAIN gs /\ t[i] = gs[i + 1] /\ i + 1 # 1
    BY <1>2
  <2> QED BY <1>1, <2>1 DEF Divided
<1>8. Divided(t)
  <2>1. \A k \in DOMAIN t : Single(t[k])
    BY <1>2 DEF Divided
  <2>2. ASSUME NEW k \in DOMAIN t, NEW m \in DOMAIN t, k # m
        PROVE  Keys(t[k]) \intersect Keys(t[m]) = {}
    <3>1. /\ k + 1 \in DOMAIN gs /\ t[k] = gs[k + 1] /\ m + 1 \in DOMAIN gs /\ t[m] = gs[m + 1]
          /\ k \in Nat /\ m \in Nat
      BY <1>2
    <3>2. k + 1 # m + 1
      BY <2>2, <3>1
    <3> QED BY <3>1, <3>2 DEF Divided
  <2> QED BY <2>1, <2>2 DEF Divided
<1>9. Single(Head(gs))
  BY <1>1 DEF Divided
<1>10. GroupKeys(gs) = GroupKeys(t) \union Keys(Head(gs))
  BY <1>4, <1>5, <1>6
<1> QED BY <1>7, <1>8, <1>9, <1>10 DEF t

\* A sequence of one.
LEMMA KeysOne ==
  ASSUME NEW r \in Numbered
  PROVE  /\ Keys(<<r>>) = {Key(r)} /\ Single(<<r>>) /\ One(r) = {Key(r)}
         /\ <<r>> \in Seq(Numbered) /\ Elems(<<r>>) = {r}
BY DEF Keys, Single, One, Numbered, Elems

LEMMA KeysNone == Keys(<<>>) = {} /\ Single(<<>>) /\ GroupKeys(<<>>) = {} /\ Divided(<<>>)
BY DEF Keys, Single, GroupKeys, Divided

LEMMA ListsOf ==
  ASSUME NEW n, NEW S, NEW l \in Lists(n, S)
  PROVE  \E k \in 1..n : l \in [1..k -> S]
BY DEF Lists

\* The positions of b fall into lists by their keys.
Splits(b, key, gs) ==
  /\ gs \in Lists(Len(b), Lists(Len(b), DOMAIN b))
  /\ \A i \in DOMAIN b : \E k \in DOMAIN gs : i \in Elems(gs[k])
  /\ \A k \in DOMAIN gs : \A i, j \in DOMAIN gs[k] :
       /\ key[gs[k][i]] = key[gs[k][j]]
       /\ i < j => gs[k][i] < gs[k][j]
  /\ \A k, m \in DOMAIN gs :
       k < m => gs[k][1] < gs[m][1] /\ key[gs[k][1]] # key[gs[m][1]]

\* A batch of requests that are each there once falls into groups in which they are.
LEMMA GroupedKeys ==
  ASSUME NEW b \in Seq(Numbered), Single(b), NEW key, NEW gs, Splits(b, key, gs)
  PROVE  LET g == [k \in DOMAIN gs |-> [i \in DOMAIN gs[k] |-> b[gs[k][i]]]]
         IN g \in Seq(Seq(Numbered)) /\ GroupKeys(g) = Keys(b) /\ Divided(g)
<1> USE DEF Splits
<1> DEFINE g == [k \in DOMAIN gs |-> [i \in DOMAIN gs[k] |-> b[gs[k][i]]]]
<1>1. PICK n \in 1..Len(b) : gs \in [1..n -> Lists(Len(b), DOMAIN b)]
  <2>1. \E n \in 1..Len(b) : gs \in [1..n -> Lists(Len(b), DOMAIN b)]
    BY ListsOf
  <2> QED BY <2>1
<1>2. DOMAIN gs = 1..n /\ n \in Nat
  BY <1>1
<1>3. ASSUME NEW k \in DOMAIN gs
      PROVE  \E m \in Nat : m >= 1 /\ gs[k] \in [1..m -> DOMAIN b] /\ DOMAIN gs[k] = 1..m
  <2>1. gs[k] \in Lists(Len(b), DOMAIN b)
    BY <1>1, <1>2
  <2>2. PICK m \in 1..Len(b) : gs[k] \in [1..m -> DOMAIN b]
    <3>1. \E m \in 1..Len(b) : gs[k] \in [1..m -> DOMAIN b]
      BY <2>1, ListsOf
    <3> QED BY <3>1
  <2> QED BY <2>2
<1>4. ASSUME NEW k \in DOMAIN gs
      PROVE  /\ 1 \in DOMAIN gs[k]
             /\ \A i \in DOMAIN gs[k] : gs[k][i] \in DOMAIN b /\ i \in Nat
  <2>1. PICK m \in Nat : m >= 1 /\ gs[k] \in [1..m -> DOMAIN b] /\ DOMAIN gs[k] = 1..m
    BY <1>3
  <2>2. 1 \in 1..m /\ \A i \in 1..m : i \in Nat
    BY <2>1
  <2> QED BY <2>1, <2>2, Zenon
<1>5. DOMAIN g = DOMAIN gs /\ \A k \in DOMAIN gs : /\ DOMAIN g[k] = DOMAIN gs[k]
                                                   /\ \A i \in DOMAIN gs[k] : g[k][i] = b[gs[k][i]]
  OBVIOUS
<1>6. \A i \in DOMAIN b : b[i] \in Numbered /\ b[i].n # 0 /\ i \in Nat
  <2>1. DOMAIN b = 1..Len(b) /\ \A i \in 1..Len(b) : b[i] \in Numbered /\ i \in Nat
    OBVIOUS
  <2>2. \A r \in Numbered : r.n # 0
    BY DEF Numbered
  <2> QED BY <2>1, <2>2, Zenon
<1> HIDE DEF g
<1>7. ASSUME NEW k \in DOMAIN gs PROVE g[k] \in Seq(Numbered)
  <2>1. PICK m \in Nat : m >= 1 /\ gs[k] \in [1..m -> DOMAIN b] /\ DOMAIN gs[k] = 1..m
    BY <1>3
  <2> DEFINE e(i) == b[gs[k][i]]
  <2>2. g[k] = [i \in 1..m |-> e(i)]
    BY <2>1 DEF g
  <2>3. \A i \in 1..m : e(i) \in Numbered
    BY <1>4, <1>6, <2>1
  <2> HIDE DEF e
  <2> QED BY <2>1, <2>2, <2>3
<1>8. g \in Seq(Seq(Numbered))
  <2>1. g = [k \in 1..n |-> g[k]]
    BY <1>2 DEF g
  <2>2. \A k \in 1..n : g[k] \in Seq(Numbered)
    BY <1>2, <1>7
  <2> DEFINE e(k) == g[k]
  <2>3. [k \in 1..n |-> e(k)] \in Seq(Seq(Numbered))
    <3> HIDE DEF e
    <3>1. \A k \in 1..n : e(k) \in Seq(Numbered)
      BY <2>2 DEF e
    <3> QED BY <1>2, <3>1
  <2> QED BY <2>1, <2>3
<1>9. ASSUME NEW k \in DOMAIN gs, NEW i \in DOMAIN gs[k]
      PROVE  Key(g[k][i]) = Key(b[gs[k][i]]) /\ g[k][i].n # 0 /\ gs[k][i] \in DOMAIN b
  BY <1>4, <1>5, <1>6
<1>10. GroupKeys(g) \subseteq Keys(b)
  <2> SUFFICES ASSUME NEW k \in DOMAIN g, NEW x \in Keys(g[k]) PROVE x \in Keys(b)
    BY DEF GroupKeys
  <2>1. PICK i \in DOMAIN g[k] : x = Key(g[k][i])
    BY DEF Keys
  <2>2. x = Key(b[gs[k][i]]) /\ gs[k][i] \in DOMAIN b
    BY <1>5, <1>9, <2>1
  <2> QED BY <1>6, <2>2 DEF Keys
<1>11. Keys(b) \subseteq GroupKeys(g)
  <2> SUFFICES ASSUME NEW i \in DOMAIN b PROVE Key(b[i]) \in GroupKeys(g)
    BY DEF Keys
  <2>1. PICK k \in DOMAIN gs : i \in Elems(gs[k])
    OBVIOUS
  <2>2. PICK j \in DOMAIN gs[k] : i = gs[k][j]
    BY <2>1 DEF Elems
  <2>3. Key(b[i]) = Key(g[k][j]) /\ g[k][j].n # 0 /\ k \in DOMAIN g /\ j \in DOMAIN g[k]
    BY <1>5, <1>9, <2>2
  <2>4. Key(b[i]) \in Keys(g[k])
    BY <2>3 DEF Keys
  <2> QED BY <2>3, <2>4 DEF GroupKeys
<1>12. ASSUME NEW k \in DOMAIN gs PROVE Single(g[k])
  <2> SUFFICES ASSUME NEW i \in DOMAIN gs[k], NEW j \in DOMAIN gs[k], Key(g[k][i]) = Key(g[k][j])
               PROVE  i = j
    BY <1>5 DEF Single
  <2>1. gs[k][i] = gs[k][j]
    BY <1>6, <1>9 DEF Single
  <2>2. ~(i < j) /\ ~(j < i) /\ i \in Nat /\ j \in Nat
    <3>1. gs[k][i] \in Nat /\ i \in Nat /\ j \in Nat
      BY <1>4, <1>6
    <3>2. ~(gs[k][i] < gs[k][j]) /\ ~(gs[k][j] < gs[k][i])
      BY <2>1, <3>1
    <3> QED BY <3>1, <3>2
  <2> QED BY <2>2
<1>13. ASSUME NEW k \in DOMAIN gs, NEW m \in DOMAIN gs, k # m
       PROVE  Keys(g[k]) \intersect Keys(g[m]) = {}
  <2> SUFFICES ASSUME NEW x, x \in Keys(g[k]), x \in Keys(g[m]) PROVE FALSE
    OBVIOUS
  <2>1. PICK i \in DOMAIN g[k] : x = Key(g[k][i])
    BY DEF Keys
  <2>2. PICK j \in DOMAIN g[m] : x = Key(g[m][j])
    BY DEF Keys
  <2>3. i \in DOMAIN gs[k] /\ j \in DOMAIN gs[m]
    BY <1>5
  <2>4. gs[k][i] = gs[m][j]
    <3>1. Key(b[gs[k][i]]) = Key(b[gs[m][j]])
      <4>1. x = Key(b[gs[k][i]])
        BY <1>9, <2>1, <2>3
      <4>2. x = Key(b[gs[m][j]])
        BY <1>9, <2>2, <2>3
      <4> QED BY <4>1, <4>2
    <3>2. gs[k][i] \in DOMAIN b /\ gs[m][j] \in DOMAIN b /\ b[gs[k][i]].n # 0
      BY <1>6, <1>9, <2>3, Zenon
    <3> QED BY <3>1, <3>2 DEF Single
  <2>5. key[gs[k][1]] = key[gs[m][1]]
    BY <1>4, <2>3, <2>4
  <2>6. k \in Nat /\ m \in Nat
    BY <1>2
  <2>7. k < m \/ m < k
    BY <1>13, <2>6
  <2> QED BY <2>5, <2>7
<1>14. Divided(g)
  BY <1>5, <1>12, <1>13 DEF Divided
<1> QED BY <1>8, <1>10, <1>11, <1>14 DEF g

----------------------------------------------------------------------------
(* The invariant, over the values of the variables.                        *)

StreamType ==
  [next : Nat, waits : Nat, tail : BOOLEAN, fed : Seq(Nat), cache : Seq(Nat), troubled : BOOLEAN]

Replies(rp) ==
  DOMAIN rp = Streams /\ \A st \in Streams : rp[st] \in [Numbers(st) -> {"none", "open", "done"}]

\* The requests that have no answer yet.
Open(rp) == {k \in Streams \X Nat : k[2] \in Numbers(k[1]) /\ rp[k[1]][k[2]] = "open"}

\* They are in one place each.
Hand(rp, q, b, gs, s) ==
  /\ Single(q) /\ Single(b) /\ Single(s) /\ Divided(gs)
  /\ Keys(q) \intersect Keys(b) = {} /\ Keys(q) \intersect Keys(s) = {}
  /\ Keys(q) \intersect GroupKeys(gs) = {} /\ Keys(b) \intersect Keys(s) = {}
  /\ Keys(b) \intersect GroupKeys(gs) = {} /\ Keys(s) \intersect GroupKeys(gs) = {}
  /\ Open(rp) = Keys(q) \union Keys(b) \union Keys(s) \union GroupKeys(gs)

\* A stream and the futures of its requests, numbered N: what is to come is new; and
\* of a stream nothing has disturbed, only the request it waits for is open, and it is
\* the only one fed that the cache has not seen.
Cached(s, N, rp) ==
  /\ s.next # 0 /\ (s.waits = 0 \/ s.waits \in N)
  /\ \A n \in N : n >= s.next => rp[n] = "none"
  /\ ~s.troubled =>
       /\ \A n \in N : rp[n] = "open" => n = s.waits
       /\ IF s.waits # 0 /\ rp[s.waits] = "open"
          THEN Append(s.cache, s.waits) = s.fed ELSE s.cache = s.fed

StreamsOK(ss, rp) ==
  /\ ss \in [Streams -> StreamType] /\ Replies(rp)
  /\ \A st \in Streams : Cached(ss[st], Numbers(st), rp[st])

Placed(q, b, gs, s) ==
  /\ q \in Seq(Entries) /\ b \in Seq(Numbered) /\ gs \in Seq(Seq(Numbered)) /\ s \in Seq(Numbered)
  /\ Len(b) <= MaxBatch

\* A batch is collected, then grouped and forwarded; the thread begins another when
\* nothing is left of it.
Phases(th, b, gs, s) ==
  /\ th \in {"top", "get", "window", "run", "ended"}
  /\ th # "window" => b = <<>>
  /\ th # "run" => gs = <<>> /\ s = <<>>

\* The one reload in flight.
ReloadSlot ==
  /\ loading = 1 => reloading /\ finishing = 0
  /\ finishing = 1 => reloading

Health == HealthTypeOK /\ ReloadSlot /\ reason \in BOOLEAN /\ stopped \in BOOLEAN

IInv ==
  /\ Placed(queue, batch, groups, solo)
  /\ Phases(thread, batch, groups, solo)
  /\ Hand(reply, queue, batch, groups, solo)
  /\ StreamsOK(stream, reply)
  /\ Health

----------------------------------------------------------------------------
(* What answers and forwards do to it.                                     *)

Answered(rp, rs) ==
  [st \in Streams |-> [n \in Numbers(st) |->
     IF \E r \in rs : r.st = st /\ r.n = n THEN "done" ELSE rp[st][n]]]

Touches(g, st) == \E i \in DOMAIN g : g[i].st = st

LEMMA TypeOfNumbered ==
  ASSUME NEW g \in Seq(Numbered), NEW i \in DOMAIN g
  PROVE  /\ g[i] \in Numbered /\ g[i].n \in Nat /\ g[i].n # 0 /\ g[i].st \in Streams
         /\ g[i] \in Entries /\ g[i] \in Elems(g)
<1>1. g[i] \in Numbered
  OBVIOUS
<1> QED BY <1>1 DEF Numbered, Entries, Elems

LEMMA NumberedEntries == ASSUME NEW g \in Seq(Numbered) PROVE g \in Seq(Entries)
BY DEF Entries

LEMMA AnsweredRow ==
  ASSUME NEW rp, Replies(rp), NEW g \in Seq(Numbered), NEW st \in Streams
  PROVE  /\ Answered(rp, Elems(g))[st] \in [Numbers(st) -> {"none", "open", "done"}]
         /\ \A n \in Numbers(st) :
              Answered(rp, Elems(g))[st][n] = IF <<st, n>> \in Keys(g) THEN "done" ELSE rp[st][n]
         /\ ~Touches(g, st) => Answered(rp, Elems(g))[st] = rp[st]
<1> DEFINE a == Answered(rp, Elems(g))
<1>1. a[st] = [n \in Numbers(st) |->
                 IF \E r \in Elems(g) : r.st = st /\ r.n = n THEN "done" ELSE rp[st][n]]
  BY DEF Answered
<1>2. rp[st] \in [Numbers(st) -> {"none", "open", "done"}]
  BY DEF Replies
<1>3. ASSUME NEW n \in Numbers(st)
      PROVE  (\E r \in Elems(g) : r.st = st /\ r.n = n) <=> <<st, n>> \in Keys(g)
  <2>1. ASSUME NEW r \in Elems(g), r.st = st, r.n = n PROVE <<st, n>> \in Keys(g)
    <3>1. PICK i \in DOMAIN g : r = g[i]
      BY DEF Elems
    <3>2. g[i].n # 0
      BY TypeOfNumbered
    <3> QED BY <2>1, <3>1, <3>2 DEF Keys, Key
  <2>2. ASSUME <<st, n>> \in Keys(g) PROVE \E r \in Elems(g) : r.st = st /\ r.n = n
    <3>1. PICK i \in DOMAIN g : <<st, n>> = Key(g[i])
      BY <2>2 DEF Keys
    <3>2. g[i] \in Elems(g) /\ g[i].st = st /\ g[i].n = n
      BY <3>1 DEF Elems, Key
    <3> QED BY <3>2
  <2> QED BY <2>1, <2>2
<1>4. a[st] \in [Numbers(st) -> {"none", "open", "done"}]
  BY <1>1, <1>2
<1>5. ASSUME NEW n \in Numbers(st)
      PROVE  a[st][n] = IF <<st, n>> \in Keys(g) THEN "done" ELSE rp[st][n]
  BY <1>1, <1>3
<1>6. ASSUME ~Touches(g, st) PROVE a[st] = rp[st]
  <2>1. ~ \E r \in Elems(g) : r.st = st
    BY <1>6 DEF Elems, Touches
  <2>2. a[st] = [n \in Numbers(st) |-> rp[st][n]]
    BY <1>1, <2>1
  <2> QED BY <1>2, <2>2
<1> QED BY <1>4, <1>5, <1>6

LEMMA AnsweredReplies ==
  ASSUME NEW rp, Replies(rp), NEW g \in Seq(Numbered)
  PROVE  /\ Replies(Answered(rp, Elems(g)))
         /\ Open(Answered(rp, Elems(g))) = Open(rp) \ Keys(g)
<1> DEFINE a == Answered(rp, Elems(g))
<1>1. \A st \in Streams : a[st] \in [Numbers(st) -> {"none", "open", "done"}]
  BY AnsweredRow
<1>2. DOMAIN a = Streams
  BY DEF Answered
<1>3. Replies(a)
  BY <1>1, <1>2 DEF Replies
<1>4. ASSUME NEW st \in Streams, NEW n \in Numbers(st)
      PROVE  a[st][n] = IF <<st, n>> \in Keys(g) THEN "done" ELSE rp[st][n]
  BY AnsweredRow
<1> HIDE DEF a
<1>5. ASSUME NEW k \in Streams \X Nat PROVE k \in Open(a) <=> k \in Open(rp) /\ k \notin Keys(g)
  <2>1. k[1] \in Streams /\ k = <<k[1], k[2]>>
    OBVIOUS
  <2>2. CASE k[2] \in Numbers(k[1])
    <3>1. a[k[1]][k[2]] = IF k \in Keys(g) THEN "done" ELSE rp[k[1]][k[2]]
      BY <1>4, <2>1, <2>2
    <3> QED BY <2>2, <3>1 DEF Open
  <2>3. CASE k[2] \notin Numbers(k[1])
    BY <2>3 DEF Open
  <2> QED BY <2>2, <2>3
<1>6. Open(a) \subseteq Streams \X Nat /\ Open(rp) \subseteq Streams \X Nat
  BY DEF Open
<1>7. Open(a) = Open(rp) \ Keys(g)
  BY <1>5, <1>6
<1> QED BY <1>3, <1>7 DEF a

LEMMA OpenOf ==
  ASSUME NEW rp, NEW st \in Streams, NEW n \in Numbers(st)
  PROVE  rp[st][n] = "open" <=> <<st, n>> \in Open(rp)
<1>1. n \in Nat
  BY NumbersType
<1> QED BY <1>1 DEF Open

\* An answer closes what was open and touches nothing else.
Answers(N, rp, rq) == \A n \in N : rq[n] = rp[n] \/ (rp[n] = "open" /\ rq[n] = "done")

LEMMA AnsweredAnswers ==
  ASSUME NEW rp, Replies(rp), NEW g \in Seq(Numbered), Keys(g) \subseteq Open(rp),
         NEW st \in Streams
  PROVE  Answers(Numbers(st), rp[st], Answered(rp, Elems(g))[st])
<1> SUFFICES ASSUME NEW n \in Numbers(st)
             PROVE  LET a == Answered(rp, Elems(g))
                    IN a[st][n] = rp[st][n] \/ (rp[st][n] = "open" /\ a[st][n] = "done")
  BY DEF Answers
<1>1. Answered(rp, Elems(g))[st][n] = IF <<st, n>> \in Keys(g) THEN "done" ELSE rp[st][n]
  BY AnsweredRow
<1>2. <<st, n>> \in Keys(g) => rp[st][n] = "open"
  BY OpenOf
<1> QED BY <1>1, <1>2

\* A stream that has been disturbed needs no more than its numbers.
LEMMA CachedTroubled ==
  ASSUME NEW N, NEW rp, NEW rq, NEW s \in StreamType, NEW t \in StreamType, Cached(s, N, rp),
         Answers(N, rp, rq), t.next = s.next, t.waits = s.waits \/ t.waits = 0, t.troubled
  PROVE  Cached(t, N, rq)
<1>1. \A n \in N : n >= s.next => rq[n] = "none"
  BY DEF Cached, Answers
<1> QED BY <1>1 DEF Cached

\* A forward that succeeds takes in the request the stream waits for.
LEMMA CachedForward ==
  ASSUME NEW N, NEW rp, NEW rq, NEW s \in StreamType, Cached(s, N, rp), 0 \notin N, NEW t,
         NEW n \in N, rp[n] = "open", rq[n] = "done", Answers(N, rp, rq),
         t.next = s.next, t.waits = s.waits, t.troubled = s.troubled, t.fed = s.fed,
         t.cache = Append(s.cache, n)
  PROVE  Cached(t, N, rq)
<1>1. \A m \in N : m >= s.next => rq[m] = "none"
  BY DEF Cached, Answers
<1>2. CASE s.troubled
  BY <1>1, <1>2 DEF Cached
<1>3. CASE ~s.troubled
  <2>1. s.waits = n /\ n # 0
    BY <1>3 DEF Cached
  <2>2. Append(s.cache, s.waits) = s.fed
    BY <1>3, <2>1 DEF Cached
  <2>3. \A m \in N : rq[m] # "open"
    BY <1>3, <2>1 DEF Cached, Answers
  <2> QED BY <1>1, <1>3, <2>1, <2>2, <2>3 DEF Cached
<1> QED BY <1>2, <1>3

----------------------------------------------------------------------------
(* The threads of the sessions.                                            *)

LEMMA InitInv == Init => IInv
<1> SUFFICES ASSUME Init PROVE IInv
  OBVIOUS
<1> USE DEF Init
<1>1. Placed(queue, batch, groups, solo)
  BY BatcherAssumption DEF Placed
<1>2. Phases(thread, batch, groups, solo)
  BY DEF Phases
<1>3. Replies(reply)
  BY DEF Replies
<1>4. Open(reply) = {}
  <2> SUFFICES ASSUME NEW k \in Streams \X Nat, k[2] \in Numbers(k[1]), reply[k[1]][k[2]] = "open"
               PROVE  FALSE
    BY DEF Open
  <2>1. k[1] \in Streams
    OBVIOUS
  <2> QED BY <2>1
<1>5. Hand(reply, queue, batch, groups, solo)
  BY <1>4, KeysNone DEF Hand
<1>6. ASSUME NEW st \in Streams
      PROVE  stream[st] \in StreamType /\ Cached(stream[st], Numbers(st), reply[st])
  <2>1. stream[st] = [next |-> 1, waits |-> 0, tail |-> FALSE, fed |-> <<>>, cache |-> <<>>,
                      troubled |-> FALSE]
    OBVIOUS
  <2>2. \A n \in Numbers(st) : reply[st][n] = "none"
    OBVIOUS
  <2> QED BY <2>1, <2>2 DEF StreamType, Cached
<1>7. StreamsOK(stream, reply)
  BY <1>3, <1>6 DEF StreamsOK
<1>8. Health
  <2>1. 0 \in 0..ReloadAfter
    BY HealthAssumption
  <2>2. HealthTypeOK /\ ReloadSlot
    <3>1. HealthInit
      OBVIOUS
    <3> HIDE DEF Init
    <3>2. HealthTypeOK
      BY <2>1, <3>1 DEF HealthInit, HealthTypeOK
    <3>3. ReloadSlot
      BY <3>1 DEF HealthInit, ReloadSlot
    <3> QED BY <3>2, <3>3
  <2>3. reason \in BOOLEAN /\ stopped \in BOOLEAN
    OBVIOUS
  <2> QED BY <2>2, <2>3 DEF Health
<1> QED BY <1>1, <1>2, <1>5, <1>7, <1>8 DEF IInv

LEMMA StreamChanged ==
  ASSUME NEW ss, NEW rp, StreamsOK(ss, rp), NEW st \in Streams, NEW t \in StreamType,
         Cached(t, Numbers(st), rp[st])
  PROVE  StreamsOK([ss EXCEPT ![st] = t], rp)
BY DEF StreamsOK

\* One more request has no answer yet.
Opens(rp, rq, st, n) ==
  /\ DOMAIN rq = Streams /\ rq[st] = [rp[st] EXCEPT ![n] = "open"]
  /\ \A so \in Streams : so # st => rq[so] = rp[so]

LEMMA ReplyOpened ==
  ASSUME NEW rp, Replies(rp), NEW st \in Streams, NEW n \in Numbers(st),
         NEW rq, Opens(rp, rq, st, n)
  PROVE  /\ Replies(rq) /\ Open(rq) = Open(rp) \union {<<st, n>>}
         /\ \A m \in Numbers(st) : rq[st][m] = IF m = n THEN "open" ELSE rp[st][m]
<1> USE DEF Opens
<1>1. rp[st] \in [Numbers(st) -> {"none", "open", "done"}] /\ DOMAIN rp = Streams
  BY DEF Replies
<1>2. \A m \in Numbers(st) : rq[st][m] = IF m = n THEN "open" ELSE rp[st][m]
  BY <1>1
<1>3. rq[st] \in [Numbers(st) -> {"none", "open", "done"}]
  BY <1>1
<1>4. Replies(rq)
  BY <1>1, <1>3 DEF Replies
<1>5. ASSUME NEW k \in Streams \X Nat PROVE k \in Open(rq) <=> k \in Open(rp) \/ k = <<st, n>>
  <2>1. k[1] \in Streams /\ k = <<k[1], k[2]>>
    OBVIOUS
  <2>2. CASE k[1] = st
    <3>1. ASSUME NEW m \in Numbers(st), k = <<st, m>>
          PROVE  k \in Open(rq) <=> k \in Open(rp) \/ k = <<st, n>>
      BY <1>2, <3>1 DEF Open
    <3>2. k[2] \notin Numbers(st) => k \notin Open(rq) /\ k \notin Open(rp) /\ k # <<st, n>>
      BY <2>1, <2>2 DEF Open
    <3> QED BY <2>1, <2>2, <3>1, <3>2
  <2>3. CASE k[1] # st
    BY <2>1, <2>3 DEF Open
  <2> QED BY <2>2, <2>3
<1>6. n \in Nat
  BY NumbersType
<1>7. Open(rq) \subseteq Streams \X Nat /\ Open(rp) \subseteq Streams \X Nat
      /\ <<st, n>> \in Streams \X Nat
  BY <1>6 DEF Open
<1>8. Open(rq) = Open(rp) \union {<<st, n>>}
  BY <1>5, <1>7
<1> QED BY <1>2, <1>4, <1>8

LEMMA SubmitInv ==
  ASSUME IInv, NEW st \in Streams, NEW tail \in BOOLEAN, Submit(st, tail)
  PROVE  IInv'
<1> DEFINE n == stream[st].next
           r == Request(st, n, tail)
<1>1. /\ Placed(queue, batch, groups, solo) /\ Hand(reply, queue, batch, groups, solo)
      /\ StreamsOK(stream, reply) /\ Phases(thread, batch, groups, solo) /\ Health
  BY DEF IInv
<1>2. stream[st] \in StreamType /\ Cached(stream[st], Numbers(st), reply[st]) /\ Replies(reply)
  BY <1>1 DEF StreamsOK
<1>3. n \in Numbers(st) /\ n \in Nat /\ n # 0 /\ stream[st].waits = 0
  <2>1. n \in Nat /\ n # 0 /\ n <= MaxRequests[st] /\ stream[st].waits = 0
    BY <1>2 DEF Submit, StreamType, Cached
  <2> QED BY <2>1, BatcherAssumption DEF Numbers
<1>4. /\ stream' = [stream EXCEPT ![st].next = n + 1, ![st].waits = n, ![st].tail = tail,
                                  ![st].fed = Append(@, n)]
      /\ reply' = [reply EXCEPT ![st][n] = "open"]
      /\ queue' = Append(queue, r)
      /\ UNCHANGED <<batcherVars, stopped, healthVars>>
  BY DEF Submit
<1>5. r \in Numbered /\ r \in Entries /\ One(r) = {<<st, n>>} /\ Key(r) = <<st, n>>
  BY <1>3 DEF Request, Numbered, Entries, One, Key
<1>6. /\ Replies(reply') /\ Open(reply') = Open(reply) \union {<<st, n>>}
      /\ \A m \in Numbers(st) : reply'[st][m] = IF m = n THEN "open" ELSE reply[st][m]
      /\ \A so \in Streams : so # st => reply'[so] = reply[so]
  <2> HIDE DEF n, r
  <2>1. DOMAIN reply = Streams /\ st \in DOMAIN reply
    BY <1>2 DEF Replies
  <2>2. /\ DOMAIN reply' = Streams /\ reply'[st] = [reply[st] EXCEPT ![n] = "open"]
        /\ \A so \in Streams : so # st => reply'[so] = reply[so]
    BY <1>4, <2>1
  <2>3. /\ Replies(reply') /\ Open(reply') = Open(reply) \union {<<st, n>>}
        /\ \A m \in Numbers(st) : reply'[st][m] = IF m = n THEN "open" ELSE reply[st][m]
    <3>1. Replies(reply) /\ n \in Numbers(st)
      BY <1>2, <1>3
    <3>2. Opens(reply, reply', st, n)
      BY <2>2 DEF Opens
    <3> QED BY <3>1, <3>2, ReplyOpened
  <2> QED BY <2>2, <2>3
<1>7. reply[st][n] = "none" /\ <<st, n>> \notin Open(reply)
  <2>1. reply[st][n] = "none"
    BY <1>2, <1>3 DEF Cached
  <2> HIDE DEF n
  <2> QED BY <1>3, <2>1, OpenOf
<1>8. Placed(queue', batch', groups', solo')
  <2>1. Append(queue, r) \in Seq(Entries)
    <3> HIDE DEF r
    <3> QED BY <1>1, <1>5 DEF Placed
  <2> QED BY <1>1, <1>4, <2>1 DEF Placed, batcherVars
<1>9. Hand(reply', queue', batch', groups', solo')
  <2> HIDE DEF r, n
  <2>1. <<st, n>> \notin Keys(queue) \union Keys(batch) \union Keys(solo) \union GroupKeys(groups)
    BY <1>1, <1>7 DEF Hand
  <2>2. Keys(queue') = Keys(queue) \union {<<st, n>>} /\ queue \in Seq(Entries)
    BY <1>1, <1>4, <1>5, KeysAppend DEF Placed
  <2>3. Single(queue')
    BY <1>1, <1>4, <1>5, <2>1, <2>2, SingleAppend DEF Hand
  <2>4. batch' = batch /\ groups' = groups /\ solo' = solo
    BY <1>4 DEF batcherVars
  <2> QED BY <1>1, <1>6, <2>1, <2>2, <2>3, <2>4 DEF Hand
<1>10. StreamsOK(stream', reply')
  <2> DEFINE t == [stream[st] EXCEPT !.next = n + 1, !.waits = n, !.tail = tail,
                                     !.fed = Append(@, n)]
  <2>1. stream \in [Streams -> StreamType]
    BY <1>1 DEF StreamsOK
  <2>2. stream' = [stream EXCEPT ![st] = t]
    BY <1>4, <2>1
  <2>3. /\ t.next = n + 1 /\ t.waits = n /\ t.fed = Append(stream[st].fed, n)
        /\ t.cache = stream[st].cache /\ t.troubled = stream[st].troubled
    BY <1>2 DEF StreamType
  <2>4. t \in StreamType
    <3>1. n + 1 \in Nat /\ Append(stream[st].fed, n) \in Seq(Nat)
      BY <1>2, <1>3 DEF StreamType
    <3> DEFINE f == Append(stream[st].fed, n)
               m == n + 1
    <3>2. t = [stream[st] EXCEPT !.next = m, !.waits = n, !.tail = tail, !.fed = f]
      OBVIOUS
    <3> HIDE DEF t, f, m
    <3> QED BY <1>2, <1>3, <3>1, <3>2 DEF StreamType, f, m
  <2>5. Cached(t, Numbers(st), reply'[st])
    <3> HIDE DEF t
    <3>1. \A m \in Numbers(st) : m \in Nat
      BY NumbersType
    <3>2. \A m \in Numbers(st) : m >= n + 1 => reply'[st][m] = "none"
      BY <1>2, <1>3, <1>6, <3>1 DEF Cached
    <3>3. ~stream[st].troubled => \A m \in Numbers(st) : reply[st][m] # "open"
      BY <1>2, <1>3, NumbersType DEF Cached
    <3>4. ~stream[st].troubled => stream[st].cache = stream[st].fed
      BY <1>2, <1>3 DEF Cached
    <3>5. ~t.troubled => \A m \in Numbers(st) : reply'[st][m] = "open" => m = t.waits
      BY <1>6, <2>3, <3>3
    <3>6. reply'[st][n] = "open"
      BY <1>3, <1>6
    <3>7. n + 1 # 0
      BY <1>3
    <3> HIDE DEF n
    <3> QED BY <1>3, <2>3, <3>2, <3>4, <3>5, <3>6, <3>7 DEF Cached
  <2>6. ASSUME NEW so \in Streams, so # st
        PROVE  stream'[so] = stream[so] /\ reply'[so] = reply[so]
    <3> HIDE DEF t
    <3> QED BY <1>6, <2>1, <2>2, <2>6
  <2>7. stream'[st] = t /\ stream' \in [Streams -> StreamType]
    <3> HIDE DEF t
    <3> QED BY <2>1, <2>2, <2>4
  <2>8. ASSUME NEW so \in Streams PROVE Cached(stream'[so], Numbers(so), reply'[so])
    <3> HIDE DEF t
    <3> QED BY <1>1, <2>5, <2>6, <2>7 DEF StreamsOK
  <2> HIDE DEF t
  <2> QED BY <1>6, <2>7, <2>8 DEF StreamsOK
<1>11. Phases(thread', batch', groups', solo') /\ Health'
  BY <1>1, <1>4 DEF batcherVars, healthVars, Health, HealthTypeOK, ReloadSlot
<1> QED BY <1>8, <1>9, <1>10, <1>11 DEF IInv

\* The new cache is that of the next sentence, unless a request is still on its way.
LEMMA SentenceOver ==
  ASSUME StreamsOK(stream, reply), NEW st \in Streams
  PROVE  /\ NextSentence(st) \in StreamType
         /\ NextSentence(st).next = stream[st].next /\ NextSentence(st).waits = 0
         /\ stream[st].waits = 0 \/ reply[st][stream[st].waits] # "open"
              => Cached(NextSentence(st), Numbers(st), reply[st])
<1> DEFINE t == NextSentence(st)
<1>1. stream[st] \in StreamType /\ Cached(stream[st], Numbers(st), reply[st])
  BY DEF StreamsOK
<1> DEFINE late == \E n \in Numbers(st) : n # stream[st].waits /\ reply[st][n] = "open"
<1>2. t = [stream[st] EXCEPT !.waits = 0, !.fed = <<>>, !.cache = <<>>, !.troubled = late]
  BY DEF NextSentence
<1>3. late \in BOOLEAN
  OBVIOUS
<1>4. /\ t \in StreamType /\ t.next = stream[st].next /\ t.waits = 0
      /\ t.fed = <<>> /\ t.cache = <<>> /\ t.troubled = late
  <2> HIDE DEF late, t
  <2>1. /\ t.next = stream[st].next /\ t.waits = 0
        /\ t.fed = <<>> /\ t.cache = <<>> /\ t.troubled = late
    BY <1>1, <1>2 DEF StreamType
  <2>2. <<>> \in Seq(Nat)
    OBVIOUS
  <2>3. t \in StreamType
    BY <1>1, <1>2, <1>3, <2>2 DEF StreamType
  <2> QED BY <2>1, <2>3
<1> HIDE DEF t
<1>5. ASSUME stream[st].waits = 0 \/ reply[st][stream[st].waits] # "open"
      PROVE  Cached(t, Numbers(st), reply[st])
  <2>1. ~late => \A n \in Numbers(st) : reply[st][n] # "open"
    BY <1>5, NumbersType
  <2> HIDE DEF late
  <2> QED BY <1>1, <1>4, <2>1 DEF Cached
<1> QED BY <1>4, <1>5 DEF t

LEMMA StoppedWaiting ==
  ASSUME NEW s \in StreamType
  PROVE  LET t == [s EXCEPT !.waits = 0]
         IN /\ t \in StreamType /\ t.next = s.next /\ t.waits = 0 /\ t.fed = s.fed
            /\ t.cache = s.cache /\ t.troubled = s.troubled
BY DEF StreamType

LEMMA MadeTroubled ==
  ASSUME NEW s \in StreamType
  PROVE  LET t == [s EXCEPT !.troubled = TRUE]
         IN t \in StreamType /\ t.next = s.next /\ t.waits = s.waits /\ t.troubled
BY DEF StreamType

\* What only changes a stream leaves everything else.
LEMMA StreamOnly ==
  ASSUME IInv, UNCHANGED <<reply, queue, batcherVars, stopped, healthVars>>,
         StreamsOK(stream', reply)
  PROVE  IInv'
<1>1. Placed(queue', batch', groups', solo') /\ Hand(reply', queue', batch', groups', solo')
      /\ Phases(thread', batch', groups', solo')
  BY DEF IInv, batcherVars
<1>2. Health'
  BY DEF IInv, Health, HealthTypeOK, ReloadSlot, batcherVars, healthVars
<1>3. StreamsOK(stream', reply')
  OBVIOUS
<1> QED BY <1>1, <1>2, <1>3 DEF IInv

LEMMA ReturnInv ==
  ASSUME IInv, NEW st \in Streams, Return(st) \/ Timeout(st) \/ FlushNothing(st)
  PROVE  IInv'
<1>1. StreamsOK(stream, reply)
  BY DEF IInv
<1>2. stream[st] \in StreamType /\ Cached(stream[st], Numbers(st), reply[st])
      /\ stream \in [Streams -> StreamType]
  BY <1>1 DEF StreamsOK
<1> DEFINE u == IF stream[st].tail THEN NextSentence(st) ELSE [stream[st] EXCEPT !.waits = 0]
           v == [u EXCEPT !.troubled = TRUE]
<1>3. u \in StreamType /\ u.next = stream[st].next /\ u.waits = 0
  BY <1>1, <1>2, SentenceOver, StoppedWaiting
<1>4. CASE Return(st)
  <2>1. stream[st].waits # 0 /\ reply[st][stream[st].waits] # "open"
    BY <1>4 DEF Return
  <2>2. stream' = [stream EXCEPT ![st] = u]
    BY <1>2, <1>4 DEF Return
  <2>3. Cached(u, Numbers(st), reply[st])
    <3>1. CASE stream[st].tail
      BY <1>1, <2>1, <3>1, SentenceOver
    <3>2. CASE ~stream[st].tail
      <4> DEFINE w == [stream[st] EXCEPT !.waits = 0]
      <4>1. u = w
        BY <3>2
      <4>2. /\ w.next = stream[st].next /\ w.waits = 0 /\ w.fed = stream[st].fed
            /\ w.cache = stream[st].cache /\ w.troubled = stream[st].troubled
        BY <1>2, StoppedWaiting
      <4> HIDE DEF w, u
      <4>3. ~stream[st].troubled => \A n \in Numbers(st) : reply[st][n] # "open"
        BY <1>2, <2>1 DEF Cached
      <4>4. Cached(w, Numbers(st), reply[st])
        BY <1>2, <2>1, <4>2, <4>3 DEF Cached
      <4> QED BY <4>1, <4>4
    <3> QED BY <3>1, <3>2
  <2>4. UNCHANGED <<reply, queue, batcherVars, stopped, healthVars>>
    BY <1>4 DEF Return
  <2> HIDE DEF u
  <2>5. StreamsOK([stream EXCEPT ![st] = u], reply)
    BY <1>1, <1>3, <2>3, StreamChanged
  <2> QED BY <2>2, <2>4, <2>5, StreamOnly
<1>5. CASE Timeout(st)
  <2>1. stream' = [stream EXCEPT ![st] = v]
    BY <1>2, <1>5 DEF Timeout
  <2>2. UNCHANGED <<reply, queue, batcherVars, stopped, healthVars>>
    BY <1>5 DEF Timeout
  <2>3. v \in StreamType /\ v.next = stream[st].next /\ v.waits = 0 /\ v.troubled
    <3> HIDE DEF u
    <3> QED BY <1>3, MadeTroubled
  <2> HIDE DEF v
  <2>4. Cached(v, Numbers(st), reply[st])
    BY <1>2, <2>3, CachedTroubled DEF Answers
  <2>5. StreamsOK([stream EXCEPT ![st] = v], reply)
    BY <1>1, <2>3, <2>4, StreamChanged
  <2> QED BY <2>1, <2>2, <2>5, StreamOnly
<1>6. CASE FlushNothing(st)
  <2>1. stream' = [stream EXCEPT ![st] = NextSentence(st)] /\ stream[st].waits = 0
    BY <1>6 DEF FlushNothing
  <2>2. UNCHANGED <<reply, queue, batcherVars, stopped, healthVars>>
    BY <1>6 DEF FlushNothing
  <2>3. NextSentence(st) \in StreamType /\ Cached(NextSentence(st), Numbers(st), reply[st])
    BY <1>1, <2>1, SentenceOver
  <2>4. StreamsOK([stream EXCEPT ![st] = NextSentence(st)], reply)
    BY <1>1, <2>3, StreamChanged
  <2> QED BY <2>1, <2>2, <2>4, StreamOnly
<1> QED BY <1>4, <1>5, <1>6

----------------------------------------------------------------------------
(* The thread collects a batch.                                            *)

LEMMA StopInv == ASSUME IInv, Stop PROVE IInv'
<1>1. /\ queue' = Append(queue, Sentinel) /\ UNCHANGED <<stream, reply, batcherVars, healthVars>>
      /\ stopped' = TRUE
  BY DEF Stop
<1>2. Sentinel \in Entries /\ One(Sentinel) = {} /\ Sentinel.n = 0
  BY DEF Sentinel, Entries, One
<1>3. Placed(queue, batch, groups, solo) /\ Hand(reply, queue, batch, groups, solo)
  BY DEF IInv
<1>4. queue \in Seq(Entries) /\ Single(queue)
  BY <1>3 DEF Placed, Hand
<1>5. Keys(queue') = Keys(queue)
  BY <1>1, <1>2, <1>4, KeysAppend
<1>6. Single(queue')
  BY <1>1, <1>2, <1>4, SingleAppend
<1>7. queue' \in Seq(Entries)
  BY <1>1, <1>2, <1>4
<1>8. batch' = batch /\ groups' = groups /\ solo' = solo /\ thread' = thread /\ reason' = reason
      /\ reply' = reply /\ stream' = stream
  BY <1>1 DEF batcherVars
<1>9. Placed(queue', batch', groups', solo') /\ Hand(reply', queue', batch', groups', solo')
  BY <1>3, <1>5, <1>6, <1>7, <1>8 DEF Placed, Hand
<1>10. Phases(thread', batch', groups', solo') /\ StreamsOK(stream', reply')
  BY <1>8 DEF IInv
<1>11. Health'
  BY <1>1, <1>8 DEF IInv, Health, HealthTypeOK, ReloadSlot, healthVars
<1> QED BY <1>9, <1>10, <1>11 DEF IInv

LEMMA TopInv == ASSUME IInv, Top PROVE IInv'
<1>1. /\ thread' \in {"ended", "get"} /\ thread = "top"
      /\ UNCHANGED <<stream, reply, queue, batch, groups, solo, reason, stopped, healthVars>>
  BY DEF Top
<1>2. Phases(thread', batch', groups', solo')
  BY <1>1 DEF IInv, Phases
<1>3. Health'
  BY <1>1 DEF IInv, Health, HealthTypeOK, ReloadSlot, healthVars
<1> QED BY <1>1, <1>2, <1>3 DEF IInv

\* The sentinel holds no key, and every other entry one.
LEMMA HeadOf ==
  ASSUME NEW q \in Seq(Entries), q # <<>>, Single(q)
  PROVE  /\ Tail(q) \in Seq(Entries) /\ Single(Tail(q))
         /\ Head(q) = Sentinel => Keys(Tail(q)) = Keys(q)
         /\ Head(q) # Sentinel =>
              /\ Head(q) \in Numbered /\ Keys(q) = Keys(Tail(q)) \union {Key(Head(q))}
              /\ Key(Head(q)) \notin Keys(Tail(q))
<1>1. Tail(q) \in Seq(Entries) /\ Head(q) \in Entries
  BY TailOf
<1>2. /\ Keys(q) = Keys(Tail(q)) \union One(Head(q)) /\ Keys(Tail(q)) \intersect One(Head(q)) = {}
      /\ Single(Tail(q))
  BY KeysTail
<1>3. Head(q) = Sentinel => One(Head(q)) = {}
  BY DEF Sentinel, One
<1>4. Head(q) # Sentinel => Head(q) \in Numbered
  BY <1>1 DEF Entries
<1>5. ASSUME Head(q) \in Numbered PROVE One(Head(q)) = {Key(Head(q))}
  BY <1>5, KeysOne
<1> QED BY <1>1, <1>2, <1>3, <1>4, <1>5

LEMMA GetInv == ASSUME IInv, Get PROVE IInv'
<1>1. /\ thread = "get" /\ queue # <<>> /\ queue' = Tail(queue)
      /\ stream' = stream /\ reply' = reply /\ groups' = groups /\ solo' = solo
      /\ reason' = reason /\ stopped' = stopped /\ UNCHANGED healthVars
  BY DEF Get
<1>2. Placed(queue, batch, groups, solo) /\ Hand(reply, queue, batch, groups, solo)
      /\ Phases(thread, batch, groups, solo)
  BY DEF IInv
<1>3. queue \in Seq(Entries) /\ Single(queue) /\ batch = <<>> /\ groups = <<>> /\ solo = <<>>
  BY <1>1, <1>2 DEF Placed, Hand, Phases
<1>4. Health'
  BY <1>1 DEF IInv, Health, HealthTypeOK, ReloadSlot, healthVars
<1>5. StreamsOK(stream', reply')
  BY <1>1 DEF IInv
<1>6. queue' \in Seq(Entries) /\ Single(queue')
  BY <1>1, <1>3, HeadOf
<1>7. CASE Head(queue) = Sentinel
  <2>1. thread' = "ended" /\ batch' = batch /\ Keys(queue') = Keys(queue)
    BY <1>1, <1>3, <1>7, HeadOf DEF Get
  <2>2. Placed(queue', batch', groups', solo') /\ Hand(reply', queue', batch', groups', solo')
    BY <1>1, <1>2, <1>6, <2>1 DEF Placed, Hand
  <2>3. Phases(thread', batch', groups', solo')
    BY <1>1, <1>3, <2>1 DEF Phases
  <2> QED BY <1>4, <1>5, <2>2, <2>3 DEF IInv
<1>8. CASE Head(queue) # Sentinel
  <2> DEFINE r == Head(queue)
  <2>1. thread' = "window" /\ batch' = <<r>>
    BY <1>1, <1>8 DEF Get
  <2>2. r \in Numbered /\ Keys(queue) = Keys(queue') \union {Key(r)} /\ Key(r) \notin Keys(queue')
    BY <1>1, <1>3, <1>8, HeadOf
  <2> HIDE DEF r
  <2>3. Keys(batch') = {Key(r)} /\ Single(batch') /\ batch' \in Seq(Numbered) /\ Len(batch') = 1
    BY <2>1, <2>2, KeysOne
  <2>4. Placed(queue', batch', groups', solo')
    BY <1>1, <1>2, <1>6, <2>3, BatcherAssumption DEF Placed
  <2>5. Keys(batch) = {}
    BY <1>3, KeysNone
  <2>6. Hand(reply', queue', batch', groups', solo')
    BY <1>1, <1>2, <1>6, <2>2, <2>3, <2>5 DEF Hand
  <2>7. Phases(thread', batch', groups', solo')
    BY <1>1, <1>3, <2>1 DEF Phases
  <2> QED BY <1>4, <1>5, <2>4, <2>6, <2>7 DEF IInv
<1> QED BY <1>7, <1>8

LEMMA JoinInv == ASSUME IInv, Join PROVE IInv'
<1> DEFINE r == Head(queue)
<1>1. /\ thread = "window" /\ queue # <<>> /\ queue' = Tail(queue) /\ Len(batch) < MaxBatch
      /\ batch' = Append(batch, r) /\ r # Sentinel
      /\ stream' = stream /\ reply' = reply /\ groups' = groups /\ solo' = solo /\ thread' = thread
      /\ reason' = reason /\ stopped' = stopped /\ UNCHANGED healthVars
  BY DEF Join
<1>2. Placed(queue, batch, groups, solo) /\ Hand(reply, queue, batch, groups, solo)
      /\ Phases(thread, batch, groups, solo)
  BY DEF IInv
<1>3. queue \in Seq(Entries) /\ Single(queue) /\ batch \in Seq(Numbered) /\ Single(batch)
  BY <1>1, <1>2 DEF Placed, Hand
<1>4. Health' /\ StreamsOK(stream', reply')
  BY <1>1 DEF IInv, Health, HealthTypeOK, ReloadSlot, healthVars
<1>5. /\ queue' \in Seq(Entries) /\ Single(queue')
      /\ r \in Numbered /\ Keys(queue) = Keys(queue') \union {Key(r)} /\ Key(r) \notin Keys(queue')
  BY <1>1, <1>3, HeadOf
<1> HIDE DEF r
<1>6. /\ Key(r) \notin Keys(batch) /\ Key(r) \notin Keys(solo) /\ Key(r) \notin GroupKeys(groups)
  BY <1>2, <1>5 DEF Hand
<1>7. r \in Entries /\ One(r) = {Key(r)} /\ batch \in Seq(Entries)
  BY <1>3, <1>5, KeysOne, NumberedEntries DEF Entries
<1>8. Keys(batch') = Keys(batch) \union {Key(r)}
  BY <1>1, <1>7, KeysAppend
<1>9. Single(batch')
  BY <1>1, <1>3, <1>6, <1>7, SingleAppend
<1>10. batch' \in Seq(Numbered) /\ Len(batch') = Len(batch) + 1 /\ Len(batch) \in Nat
  BY <1>1, <1>3, <1>5
<1>11. Placed(queue', batch', groups', solo')
  BY <1>1, <1>2, <1>5, <1>10, NumbersType DEF Placed
<1>12. Hand(reply', queue', batch', groups', solo')
  BY <1>1, <1>2, <1>5, <1>6, <1>8, <1>9 DEF Hand
<1>13. Phases(thread', batch', groups', solo')
  BY <1>1, <1>2 DEF Phases
<1> QED BY <1>4, <1>11, <1>12, <1>13 DEF IInv

----------------------------------------------------------------------------
(* Forwards, and what they do to the streams.                              *)

LEMMA LeastNumber ==
  ASSUME NEW S \in SUBSET Nat, S # {}
  PROVE  \E k \in S : \A j \in S : k <= j
<1>1. PICK k \in S : \A j \in S : ~(<<j, k>> \in OpToRel(<, Nat))
  BY WFMin, NatLessThanWellFounded
<1>2. ASSUME NEW j \in S PROVE k <= j
  <2>1. j \in Nat /\ k \in Nat /\ ~(<<j, k>> \in OpToRel(<, Nat))
    BY <1>1
  <2>2. ~(j < k)
    BY <2>1 DEF OpToRel
  <2>3. ASSUME NEW a \in Nat, NEW b \in Nat, ~(a < b) PROVE b <= a
    BY <2>3
  <2> QED BY <2>1, <2>2, <2>3
<1> QED BY <1>2

\* A group has a last row of the stream, if it has one at all.
LEMMA LastRow ==
  ASSUME NEW n \in Nat, NEW R \in SUBSET (1..n), R # {}
  PROVE  \E i \in R : \A j \in R : j <= i
<1> DEFINE S == {n - i : i \in R}
<1>1. S \in SUBSET Nat /\ S # {}
  <2>1. ASSUME NEW i \in R PROVE n - i \in Nat
    OBVIOUS
  <2>2. PICK i \in R : TRUE
    OBVIOUS
  <2>3. n - i \in S
    OBVIOUS
  <2> QED BY <2>1, <2>3
<1>2. PICK k \in S : \A j \in S : k <= j
  BY <1>1, LeastNumber
<1>3. PICK i \in R : k = n - i
  OBVIOUS
<1>4. ASSUME NEW j \in R PROVE j <= i
  <2>1. n - j \in S
    OBVIOUS
  <2>2. n - i <= n - j /\ i \in 1..n /\ j \in 1..n
    BY <1>2, <1>3, <2>1
  <2> QED BY <2>2
<1> QED BY <1>4

\* The row of a stream is written back with a request of the stream.
Writes(g, st, a, s) ==
  \E i \in DOMAIN g : g[i].st = st /\ a = [s EXCEPT !.cache = Append(@, g[i].n)]

LEMMA AdvanceRow ==
  ASSUME NEW g \in Seq(Numbered), NEW st \in Streams
  PROVE  /\ ~Touches(g, st) => Advance(g)[st] = stream[st]
         /\ Touches(g, st) => Writes(g, st, Advance(g)[st], stream[st])
<1> DEFINE rows == {i \in DOMAIN g : g[i].st = st}
           last == CHOOSE i \in rows : \A j \in rows : j <= i
<1>1. Advance(g)[st] = IF rows = {} THEN stream[st]
                       ELSE [stream[st] EXCEPT !.cache = Append(@, g[last].n)]
  BY DEF Advance
<1>2. Touches(g, st) <=> rows # {}
  BY DEF Touches
<1>3. ASSUME rows # {} PROVE last \in rows
  <2>1. Len(g) \in Nat /\ DOMAIN g = 1..Len(g)
    OBVIOUS
  <2>2. rows \in SUBSET (1..Len(g))
    BY <2>1
  <2> HIDE DEF rows
  <2>3. \E i \in rows : \A j \in rows : j <= i
    BY <1>3, <2>1, <2>2, LastRow
  <2> QED BY <2>3
<1>4. last \in rows => last \in DOMAIN g /\ g[last].st = st
  OBVIOUS
<1> HIDE DEF rows, last
<1> QED BY <1>1, <1>2, <1>3, <1>4 DEF Writes

LEMMA CacheWritten ==
  ASSUME NEW s \in StreamType, NEW n \in Nat
  PROVE  LET t == [s EXCEPT !.cache = Append(@, n)]
         IN /\ t \in StreamType /\ t.next = s.next /\ t.waits = s.waits /\ t.troubled = s.troubled
            /\ t.fed = s.fed /\ t.cache = Append(s.cache, n)
<1> DEFINE c == Append(s.cache, n)
<1>1. c \in Seq(Nat)
  BY DEF StreamType
<1> HIDE DEF c
<1>2. LET t == [s EXCEPT !.cache = c]
      IN /\ t \in StreamType /\ t.next = s.next /\ t.waits = s.waits /\ t.troubled = s.troubled
         /\ t.fed = s.fed /\ t.cache = c
  BY <1>1 DEF StreamType
<1> QED BY <1>2 DEF c

\* A forward that succeeds: each stream it touches has seen the request it waits for.
LEMMA AdvanceKept ==
  ASSUME StreamsOK(stream, reply), NEW g \in Seq(Numbered), Keys(g) \subseteq Open(reply)
  PROVE  StreamsOK(Advance(g), Answered(reply, Elems(g)))
<1> DEFINE a == Advance(g)
           rq == Answered(reply, Elems(g))
<1>1. Replies(reply) /\ Replies(rq)
  BY AnsweredReplies DEF StreamsOK
<1>2. ASSUME NEW st \in Streams PROVE a[st] \in StreamType /\ Cached(a[st], Numbers(st), rq[st])
  <2>1. stream[st] \in StreamType /\ Cached(stream[st], Numbers(st), reply[st])
    BY DEF StreamsOK
  <2>2. CASE ~Touches(g, st)
    <3>1. a[st] = stream[st] /\ rq[st] = reply[st]
      BY <1>1, <2>2, AdvanceRow, AnsweredRow
    <3> HIDE DEF a, rq
    <3> QED BY <2>1, <3>1
  <2>3. CASE Touches(g, st)
    <3>1. PICK i \in DOMAIN g :
            g[i].st = st /\ a[st] = [stream[st] EXCEPT !.cache = Append(@, g[i].n)]
      <4>1. Writes(g, st, a[st], stream[st])
        BY <2>3, AdvanceRow
      <4> QED BY <4>1 DEF Writes
    <3> DEFINE n == g[i].n
    <3>2. n \in Nat /\ n # 0
      BY TypeOfNumbered
    <3>3. <<st, n>> \in Keys(g)
      <4>1. Key(g[i]) = <<st, n>>
        BY <3>1 DEF Key
      <4> QED BY <3>2, <4>1 DEF Keys
    <3>4. n \in Numbers(st) /\ reply[st][n] = "open"
      <4>1. <<st, n>> \in Open(reply)
        BY <3>3
      <4> HIDE DEF n
      <4> QED BY <4>1 DEF Open
    <3> HIDE DEF n
    <3>5. rq[st][n] = "done"
      BY <1>1, <3>3, <3>4, AnsweredRow
    <3>6. Answers(Numbers(st), reply[st], rq[st])
      BY <1>1, AnsweredAnswers
    <3>7. /\ a[st] \in StreamType
          /\ a[st].next = stream[st].next /\ a[st].waits = stream[st].waits
          /\ a[st].troubled = stream[st].troubled /\ a[st].fed = stream[st].fed
          /\ a[st].cache = Append(stream[st].cache, n)
      <4>1. a[st] = [stream[st] EXCEPT !.cache = Append(@, n)]
        BY <3>1 DEF n
      <4> HIDE DEF a
      <4> QED BY <2>1, <3>2, <4>1, CacheWritten
    <3>8. 0 \notin Numbers(st)
      BY NumbersType
    <3> HIDE DEF a, rq
    <3> QED BY <2>1, <3>4, <3>5, <3>6, <3>7, <3>8, CachedForward
  <2> QED BY <2>2, <2>3
<1>3. a \in [Streams -> StreamType]
  <2>1. DOMAIN a = Streams /\ a = [st \in Streams |-> a[st]]
    BY DEF Advance
  <2> HIDE DEF a
  <2> QED BY <1>2, <2>1
<1> HIDE DEF a, rq
<1>4. StreamsOK(a, rq)
  BY <1>1, <1>2, <1>3 DEF StreamsOK
<1> QED BY <1>4 DEF a, rq

\* A forward that is lost, or fails half-way: each stream it touches is disturbed.
Disturbed(a, b, g) ==
  /\ b \in [Streams -> StreamType]
  /\ \A st \in Streams :
       IF Touches(g, st)
       THEN b[st].troubled /\ b[st].next = a[st].next /\ b[st].waits = a[st].waits
       ELSE b[st] = a[st]

LEMMA DisturbedKept ==
  ASSUME NEW a, NEW b, NEW rp, StreamsOK(a, rp), NEW g \in Seq(Numbered), Disturbed(a, b, g),
         Keys(g) \subseteq Open(rp)
  PROVE  StreamsOK(b, rp) /\ StreamsOK(b, Answered(rp, Elems(g)))
<1> DEFINE rq == Answered(rp, Elems(g))
<1>1. Replies(rp) /\ Replies(rq)
  BY AnsweredReplies DEF StreamsOK
<1>2. ASSUME NEW st \in Streams
      PROVE  Cached(b[st], Numbers(st), rp[st]) /\ Cached(b[st], Numbers(st), rq[st])
  <2>1. a[st] \in StreamType /\ b[st] \in StreamType /\ Cached(a[st], Numbers(st), rp[st])
    BY DEF StreamsOK, Disturbed
  <2>2. CASE ~Touches(g, st)
    <3>1. rq[st] = rp[st]
      BY <1>1, <2>2, AnsweredRow
    <3> HIDE DEF rq
    <3> QED BY <2>1, <2>2, <3>1 DEF Disturbed
  <2>3. CASE Touches(g, st)
    <3>1. b[st].troubled /\ b[st].next = a[st].next /\ b[st].waits = a[st].waits
      BY <2>3 DEF Disturbed
    <3>2. Answers(Numbers(st), rp[st], rq[st])
      BY <1>1, AnsweredAnswers
    <3>3. Answers(Numbers(st), rp[st], rp[st])
      BY DEF Answers
    <3> HIDE DEF rq
    <3> QED BY <2>1, <3>1, <3>2, <3>3, CachedTroubled
  <2> QED BY <2>2, <2>3
<1> HIDE DEF rq
<1>3. StreamsOK(b, rp) /\ StreamsOK(b, rq)
  BY <1>1, <1>2 DEF StreamsOK, Disturbed
<1> QED BY <1>3 DEF rq

LEMMA TouchesElems ==
  ASSUME NEW g \in Seq(Numbered), NEW st
  PROVE  (\E r \in Elems(g) : r.st = st) <=> Touches(g, st)
BY DEF Elems, Touches

LEMMA TroubledDisturbs ==
  ASSUME StreamsOK(stream, reply), NEW g \in Seq(Numbered)
  PROVE  Disturbed(stream, Troubled(Elems(g)), g)
<1> DEFINE b == Troubled(Elems(g))
<1>1. ASSUME NEW st \in Streams
      PROVE  b[st] = IF Touches(g, st) THEN [stream[st] EXCEPT !.troubled = TRUE] ELSE stream[st]
  BY TouchesElems DEF Troubled
<1>2. DOMAIN b = Streams /\ b = [st \in Streams |-> b[st]]
  BY DEF Troubled
<1> HIDE DEF b
<1>3. ASSUME NEW st \in Streams
      PROVE  /\ b[st] \in StreamType
             /\ IF Touches(g, st)
                THEN /\ b[st].troubled
                     /\ b[st].next = stream[st].next /\ b[st].waits = stream[st].waits
                ELSE b[st] = stream[st]
  <2>1. stream[st] \in StreamType
    BY DEF StreamsOK
  <2>2. CASE ~Touches(g, st)
    BY <1>1, <2>1, <2>2
  <2>3. CASE Touches(g, st)
    BY <1>1, <2>1, <2>3, MadeTroubled
  <2> QED BY <2>2, <2>3
<1>4. b \in [Streams -> StreamType]
  BY <1>2, <1>3
<1>5. Disturbed(stream, b, g)
  BY <1>3, <1>4 DEF Disturbed
<1> QED BY <1>5 DEF b

LEMMA HalfDisturbs ==
  ASSUME StreamsOK(stream, reply), NEW g \in Seq(Numbered)
  PROVE  Disturbed(stream, HalfWritten(g), g)
<1> DEFINE b == HalfWritten(g)
           a == Advance(g)
<1>1. ASSUME NEW st \in Streams
      PROVE  b[st] = IF Touches(g, st) THEN [a[st] EXCEPT !.troubled = TRUE] ELSE stream[st]
  <2> HIDE DEF a
  <2> QED BY TouchesElems DEF HalfWritten, a
<1>2. DOMAIN b = Streams /\ b = [st \in Streams |-> b[st]]
  BY DEF HalfWritten
<1> HIDE DEF b
<1>3. ASSUME NEW st \in Streams
      PROVE  /\ b[st] \in StreamType
             /\ IF Touches(g, st)
                THEN /\ b[st].troubled
                     /\ b[st].next = stream[st].next /\ b[st].waits = stream[st].waits
                ELSE b[st] = stream[st]
  <2>1. stream[st] \in StreamType
    BY DEF StreamsOK
  <2>2. CASE ~Touches(g, st)
    BY <1>1, <2>1, <2>2
  <2>3. CASE Touches(g, st)
    <3>1. PICK i \in DOMAIN g :
            g[i].st = st /\ a[st] = [stream[st] EXCEPT !.cache = Append(@, g[i].n)]
      <4>1. Writes(g, st, a[st], stream[st])
        BY <2>3, AdvanceRow
      <4> QED BY <4>1 DEF Writes
    <3> DEFINE n == g[i].n
    <3>2. n \in Nat
      BY TypeOfNumbered
    <3> HIDE DEF n, a
    <3>3. a[st] = [stream[st] EXCEPT !.cache = Append(@, n)]
      BY <3>1 DEF n
    <3>4. a[st] \in StreamType /\ a[st].next = stream[st].next /\ a[st].waits = stream[st].waits
      BY <2>1, <3>2, <3>3, CacheWritten
    <3> QED BY <1>1, <2>3, <3>4, MadeTroubled
  <2> QED BY <2>2, <2>3
<1>4. b \in [Streams -> StreamType]
  BY <1>2, <1>3
<1>5. Disturbed(stream, b, g)
  BY <1>3, <1>4 DEF Disturbed
<1> QED BY <1>5 DEF b

\* _execute: the batch becomes groups, or everybody in it gets nothing.
LEMMA ExecuteInv == ASSUME IInv, Execute PROVE IInv'
<1>1. /\ thread = "window" /\ batch' = <<>> /\ solo' = solo /\ reason' = reason
      /\ stopped' = stopped /\ UNCHANGED healthVars
  BY DEF Execute
<1>2. /\ Placed(queue, batch, groups, solo) /\ Hand(reply, queue, batch, groups, solo)
      /\ Phases(thread, batch, groups, solo) /\ StreamsOK(stream, reply)
  BY DEF IInv
<1>3. queue \in Seq(Entries) /\ Single(queue) /\ batch \in Seq(Numbered) /\ Single(batch)
      /\ groups = <<>> /\ solo = <<>>
  BY <1>1, <1>2 DEF Placed, Hand, Phases
<1>4. Health'
  BY <1>1 DEF IInv, Health, HealthTypeOK, ReloadSlot, healthVars
<1>5. queue' \in Seq(Entries) /\ Single(queue') /\ Keys(queue') = Keys(queue)
  <2>1. queue' = queue \/ (queue # <<>> /\ Head(queue) = Sentinel /\ queue' = Tail(queue))
    BY DEF Execute
  <2> QED BY <1>3, <2>1, HeadOf
<1>6. batch' \in Seq(Numbered) /\ Len(batch') <= MaxBatch /\ Keys(batch') = {} /\ Single(batch')
  BY <1>1, KeysNone, BatcherAssumption
<1>7. Keys(solo) = {} /\ GroupKeys(groups) = {}
  BY <1>3, KeysNone
<1>8. ASSUME NEW shape \in [DOMAIN batch -> {"one", "other"}],
             NEW gs \in Lists(Len(batch), Lists(Len(batch), DOMAIN batch)), Grouped(shape, gs),
             groups' = [k \in DOMAIN gs |-> [i \in DOMAIN gs[k] |-> batch[gs[k][i]]]],
             thread' = "run", UNCHANGED <<stream, reply>>
      PROVE  IInv'
  <2> DEFINE key == [i \in DOMAIN batch |-> <<batch[i].tail, shape[i]>>]
             g == [k \in DOMAIN gs |-> [i \in DOMAIN gs[k] |-> batch[gs[k][i]]]]
  <2>1. Splits(batch, key, gs)
    BY <1>8 DEF Grouped, Splits
  <2> HIDE DEF key
  <2>2. g \in Seq(Seq(Numbered)) /\ GroupKeys(g) = Keys(batch) /\ Divided(g)
    BY <1>3, <2>1, GroupedKeys
  <2>3. groups' = g /\ thread' = "run" /\ stream' = stream /\ reply' = reply
    BY <1>8
  <2> HIDE DEF g
  <2>4. Placed(queue', batch', groups', solo')
    BY <1>1, <1>2, <1>5, <1>6, <2>2, <2>3 DEF Placed
  <2>5. Hand(reply', queue', batch', groups', solo')
    BY <1>1, <1>2, <1>5, <1>6, <1>7, <2>2, <2>3 DEF Hand
  <2>6. Phases(thread', batch', groups', solo') /\ StreamsOK(stream', reply')
    BY <1>1, <1>2, <2>3 DEF Phases
  <2> QED BY <1>4, <2>4, <2>5, <2>6 DEF IInv
<1>9. ASSUME Answer(Elems(batch)), stream' = Troubled(Elems(batch)), thread' = "top",
             groups' = groups
      PROVE  IInv'
  <2>1. reply' = Answered(reply, Elems(batch))
    BY <1>9 DEF Answer, Answered
  <2>2. Keys(batch) \subseteq Open(reply)
    BY <1>2 DEF Hand
  <2>3. Disturbed(stream, stream', batch)
    BY <1>2, <1>3, <1>9, TroubledDisturbs
  <2>4. StreamsOK(stream', reply')
    BY <1>2, <1>3, <2>1, <2>2, <2>3, DisturbedKept
  <2>5. Open(reply') = Open(reply) \ Keys(batch)
    BY <1>2, <1>3, <2>1, AnsweredReplies DEF StreamsOK
  <2>6. Placed(queue', batch', groups', solo')
    BY <1>1, <1>2, <1>5, <1>6, <1>9 DEF Placed
  <2>7. Hand(reply', queue', batch', groups', solo')
    BY <1>1, <1>2, <1>5, <1>6, <1>7, <1>9, <2>5 DEF Hand
  <2>8. Phases(thread', batch', groups', solo')
    BY <1>1, <1>3, <1>9 DEF Phases
  <2> QED BY <1>4, <2>4, <2>6, <2>7, <2>8 DEF IInv
<1>10. \/ \E shape \in [DOMAIN batch -> {"one", "other"}],
             gs \in Lists(Len(batch), Lists(Len(batch), DOMAIN batch)) :
            /\ Grouped(shape, gs)
            /\ groups' = [k \in DOMAIN gs |-> [i \in DOMAIN gs[k] |-> batch[gs[k][i]]]]
            /\ thread' = "run" /\ UNCHANGED <<stream, reply>>
       \/ /\ Answer(Elems(batch)) /\ stream' = Troubled(Elems(batch))
          /\ thread' = "top" /\ groups' = groups
  BY DEF Execute
<1> QED BY <1>8, <1>9, <1>10

----------------------------------------------------------------------------
(* The groups, the retries and the reload.                                 *)

\* The health of the engine as a forward leaves it.
LEMMA HealthKept ==
  ASSUME Health, UNCHANGED <<loaded, reloading, loading, finishing, stopped>>,
         \/ reason' = reason /\ (errors' = errors \/ NoteSuccess)
         \/ reason' = GivesReason /\ NoteError
  PROVE  Health'
<1>1. errors \in 0..ReloadAfter /\ 0 \in 0..ReloadAfter
  BY HealthAssumption DEF Health, HealthTypeOK
<1>2. OneMore(errors) \in 0..ReloadAfter
  BY <1>1, HealthAssumption DEF OneMore
<1>3. errors' \in 0..ReloadAfter
  BY <1>1, <1>2 DEF NoteSuccess, NoteError
<1>4. GivesReason \in BOOLEAN
  BY DEF GivesReason
<1>5. reason' \in BOOLEAN
  BY <1>4 DEF Health
<1>6. HealthTypeOK'
  BY <1>3 DEF Health, HealthTypeOK
<1>7. ReloadSlot'
  BY DEF Health, ReloadSlot
<1> QED BY <1>5, <1>6, <1>7 DEF Health

LEMMA RunGroupInv == ASSUME IInv, RunGroup PROVE IInv'
<1> DEFINE g == Head(groups)
<1>1. /\ thread = "run" /\ groups # <<>> /\ solo = <<>> /\ groups' = Tail(groups)
      /\ queue' = queue /\ thread' = thread /\ batch' = batch /\ stopped' = stopped
  BY DEF RunGroup
<1>2. /\ Placed(queue, batch, groups, solo) /\ Hand(reply, queue, batch, groups, solo)
      /\ Phases(thread, batch, groups, solo) /\ StreamsOK(stream, reply) /\ Health
  BY DEF IInv
<1>3. groups \in Seq(Seq(Numbered)) /\ Divided(groups)
  BY <1>2 DEF Placed, Hand
<1>4. g \in Seq(Numbered) /\ groups' \in Seq(Seq(Numbered))
  BY <1>1, <1>3, TailOf
<1>5. /\ GroupKeys(groups) = GroupKeys(groups') \union Keys(g)
      /\ GroupKeys(groups') \intersect Keys(g) = {}
      /\ Divided(groups') /\ Single(g)
  BY <1>1, <1>3, GroupsTail
<1>6. Keys(g) \subseteq Open(reply) /\ Keys(solo) = {} /\ Single(<<>>)
  BY <1>1, <1>2, <1>5, KeysNone DEF Hand
<1>7. Replies(reply)
  BY <1>2 DEF StreamsOK
<1> HIDE DEF g
<1>8. ASSUME Answer(Elems(g)), solo' = solo, StreamsOK(stream', reply'), Health' PROVE IInv'
  <2>1. reply' = Answered(reply, Elems(g))
    BY <1>8 DEF Answer, Answered
  <2>2. Open(reply') = Open(reply) \ Keys(g)
    BY <1>4, <1>7, <2>1, AnsweredReplies
  <2>3. Placed(queue', batch', groups', solo')
    BY <1>1, <1>2, <1>4, <1>8 DEF Placed
  <2>4. Hand(reply', queue', batch', groups', solo')
    BY <1>1, <1>2, <1>5, <1>6, <1>8, <2>2 DEF Hand
  <2>5. Phases(thread', batch', groups', solo')
    BY <1>1, <1>2, <1>8 DEF Phases
  <2> QED BY <1>8, <2>3, <2>4, <2>5 DEF IInv
<1>9. CASE /\ stream' = Advance(g) /\ Answer(Elems(g)) /\ NoteSuccess
           /\ UNCHANGED <<solo, reason, loaded, reloading, loading, finishing>>
  <2>1. reply' = Answered(reply, Elems(g))
    BY <1>9 DEF Answer, Answered
  <2>2. StreamsOK(stream', reply')
    BY <1>2, <1>4, <1>6, <1>9, <2>1, AdvanceKept
  <2>3. Health'
    BY <1>1, <1>2, <1>9, HealthKept
  <2> QED BY <1>8, <1>9, <2>2, <2>3
<1>10. CASE FailedForward(g) /\ solo' = g /\ UNCHANGED <<reply, reason, healthVars>>
  <2>1. stream' = stream \/ Disturbed(stream, stream', g)
    BY <1>2, <1>4, <1>10, HalfDisturbs DEF FailedForward
  <2>2. StreamsOK(stream', reply')
    BY <1>2, <1>4, <1>6, <1>10, <2>1, DisturbedKept
  <2>3. Health'
    BY <1>1, <1>2, <1>10 DEF Health, HealthTypeOK, ReloadSlot, healthVars
  <2>4. Placed(queue', batch', groups', solo')
    BY <1>1, <1>2, <1>4, <1>10 DEF Placed
  <2>5. Hand(reply', queue', batch', groups', solo')
    BY <1>1, <1>2, <1>5, <1>6, <1>10 DEF Hand
  <2>6. Phases(thread', batch', groups', solo')
    BY <1>1, <1>2 DEF Phases
  <2> QED BY <2>2, <2>3, <2>4, <2>5, <2>6 DEF IInv
<1>11. CASE LostForward(g) /\ Answer(Elems(g)) /\ Blame /\ solo' = solo
  <2>1. reply' = Answered(reply, Elems(g))
    BY <1>11 DEF Answer, Answered
  <2>2. Disturbed(stream, stream', g)
    BY <1>2, <1>4, <1>11, TroubledDisturbs, HalfDisturbs DEF LostForward
  <2>3. StreamsOK(stream', reply')
    BY <1>2, <1>4, <1>6, <2>1, <2>2, DisturbedKept
  <2>4. Health'
    BY <1>1, <1>2, <1>11, HealthKept DEF Blame
  <2> QED BY <1>8, <1>11, <2>3, <2>4
<1> QED BY <1>9, <1>10, <1>11 DEF RunGroup, g

LEMMA RunSoloInv == ASSUME IInv, RunSolo PROVE IInv'
<1> DEFINE r == Head(solo)
           g == <<r>>
<1>1. /\ thread = "run" /\ solo # <<>> /\ solo' = Tail(solo)
      /\ queue' = queue /\ thread' = thread /\ batch' = batch /\ groups' = groups
      /\ stopped' = stopped
  BY DEF RunSolo
<1>2. /\ Placed(queue, batch, groups, solo) /\ Hand(reply, queue, batch, groups, solo)
      /\ Phases(thread, batch, groups, solo) /\ StreamsOK(stream, reply) /\ Health
  BY DEF IInv
<1>3. solo \in Seq(Numbered) /\ Single(solo)
  BY <1>2 DEF Placed, Hand
<1>4. r \in Numbered /\ solo' \in Seq(Numbered) /\ solo \in Seq(Entries)
  BY <1>1, <1>3, TailOf, NumberedEntries
<1>5. Keys(g) = {Key(r)} /\ One(r) = {Key(r)} /\ g \in Seq(Numbered) /\ Elems(g) = {r}
  <2> HIDE DEF r
  <2> QED BY <1>4, KeysOne
<1>6. Keys(solo) = Keys(solo') \union Keys(g) /\ Key(r) \notin Keys(solo') /\ Single(solo')
  <2>1. /\ Keys(solo) = Keys(solo') \union One(r) /\ Keys(solo') \intersect One(r) = {}
        /\ Single(solo')
    BY <1>1, <1>3, <1>4, KeysTail
  <2> HIDE DEF g, r
  <2> QED BY <1>5, <2>1
<1> HIDE DEF g
<1>7. Keys(g) \subseteq Open(reply) /\ Replies(reply)
  BY <1>2, <1>6 DEF Hand, StreamsOK
<1> HIDE DEF r
<1>8. Answer(Elems(g))
  BY <1>5 DEF RunSolo, r
<1>9. reply' = Answered(reply, Elems(g))
  BY <1>8 DEF Answer, Answered
<1>10. Open(reply') = Open(reply) \ Keys(g)
  BY <1>5, <1>7, <1>9, AnsweredReplies
<1>11. StreamsOK(stream', reply') /\ Health'
  <2>1. CASE stream' = Advance(g) /\ UNCHANGED <<reason, healthVars>>
    <3>1. StreamsOK(stream', reply')
      BY <1>2, <1>5, <1>7, <1>9, <2>1, AdvanceKept
    <3>2. Health'
      BY <1>1, <1>2, <2>1 DEF Health, HealthTypeOK, ReloadSlot, healthVars
    <3> QED BY <3>1, <3>2
  <2>2. CASE LostForward(g) /\ Blame
    <3>1. Disturbed(stream, stream', g)
      BY <1>2, <1>5, <2>2, TroubledDisturbs, HalfDisturbs DEF LostForward
    <3>2. StreamsOK(stream', reply')
      BY <1>2, <1>5, <1>7, <1>9, <3>1, DisturbedKept
    <3>3. Health'
      BY <1>1, <1>2, <2>2, HealthKept DEF Blame
    <3> QED BY <3>2, <3>3
  <2> QED BY <2>1, <2>2 DEF RunSolo, r, g
<1>12. Placed(queue', batch', groups', solo')
  BY <1>1, <1>2, <1>4 DEF Placed
<1>13. Hand(reply', queue', batch', groups', solo')
  BY <1>1, <1>2, <1>5, <1>6, <1>10 DEF Hand
<1>14. Phases(thread', batch', groups', solo')
  BY <1>1, <1>2 DEF Phases
<1> QED BY <1>11, <1>12, <1>13, <1>14 DEF IInv

LEMMA EndBatchInv == ASSUME IInv, EndBatch PROVE IInv'
<1>1. /\ thread = "run" /\ groups = <<>> /\ solo = <<>> /\ thread' = "top" /\ reason' = FALSE
      /\ stream' = stream /\ reply' = reply /\ queue' = queue /\ batch' = batch
      /\ groups' = groups /\ solo' = solo /\ stopped' = stopped
      /\ errors' = errors /\ finishing' = finishing
      /\ IF reason THEN StartReload ELSE UNCHANGED <<loaded, reloading, loading>>
  BY DEF EndBatch
<1>2. Phases(thread', batch', groups', solo')
  BY <1>1 DEF IInv, Phases
<1>3. Health
  BY DEF IInv
<1>4. reason' \in BOOLEAN /\ stopped' \in BOOLEAN
  BY <1>1, <1>3 DEF Health
<1>5. HealthTypeOK' /\ ReloadSlot'
  <2>1. CASE UNCHANGED <<loaded, reloading, loading>>
    BY <1>1, <1>3, <2>1 DEF Health, HealthTypeOK, ReloadSlot
  <2>2. CASE ClaimReload /\ Unload
    <3>1. ~reloading /\ loading = 0 /\ finishing = 0
      BY <1>3, <2>2 DEF ClaimReload, Health, HealthTypeOK, ReloadSlot
    <3>2. reloading' = TRUE /\ loaded' = FALSE /\ loading' = 1
      BY <2>2, <3>1 DEF ClaimReload, Unload
    <3>3. HealthTypeOK'
      BY <1>1, <1>3, <3>2 DEF Health, HealthTypeOK
    <3> QED BY <1>1, <3>1, <3>2, <3>3 DEF ReloadSlot
  <2>3. UNCHANGED <<loaded, reloading, loading>> \/ (ClaimReload /\ Unload)
    BY <1>1 DEF StartReload, ReloadClaimed
  <2> QED BY <2>1, <2>2, <2>3
<1>6. Health'
  BY <1>4, <1>5 DEF Health
<1> QED BY <1>1, <1>2, <1>6 DEF IInv

LEMMA WorkerInv == ASSUME IInv, Worker PROVE IInv'
<1>1. /\ stream' = stream /\ reply' = reply /\ queue' = queue /\ thread' = thread
      /\ batch' = batch /\ groups' = groups /\ solo' = solo /\ reason' = reason
      /\ stopped' = stopped
  BY DEF Worker, batcherVars
<1>2. Health
  BY DEF IInv
<1>3. CASE Load
  <2>1. loading = 1 /\ finishing = 0 /\ reloading
    BY <1>2, <1>3 DEF Load, Health, HealthTypeOK, ReloadSlot
  <2>2. /\ loading' = 0 /\ finishing' = 1 /\ loaded' = TRUE /\ errors' = errors
        /\ reloading' = reloading
    BY <1>3, <2>1 DEF Load
  <2> QED BY <1>1, <1>2, <2>1, <2>2 DEF IInv, Health, HealthTypeOK, ReloadSlot
<1>4. CASE FinishReload
  <2>1. finishing = 1 /\ loading = 0
    BY <1>2, <1>4 DEF FinishReload, Health, HealthTypeOK, ReloadSlot
  <2>2. /\ finishing' = 0 /\ errors' = 0 /\ reloading' = FALSE /\ loaded' = loaded
        /\ loading' = 0 /\ 0 \in 0..ReloadAfter
    BY <1>4, <2>1, HealthAssumption DEF FinishReload
  <2>3. HealthTypeOK'
    BY <1>2, <2>2 DEF Health, HealthTypeOK
  <2>4. ReloadSlot'
    BY <2>2 DEF ReloadSlot
  <2>5. Health'
    BY <1>1, <1>2, <2>3, <2>4 DEF Health
  <2> QED BY <1>1, <2>5 DEF IInv
<1> QED BY <1>3, <1>4 DEF Worker, ReloadWorker

LEMMA NextInv == IInv /\ [Next]_vars => IInv'
<1> SUFFICES ASSUME IInv, [Next]_vars PROVE IInv'
  OBVIOUS
<1>1. ASSUME NEW st \in Streams, NEW tail \in BOOLEAN, Submit(st, tail) PROVE IInv'
  BY <1>1, SubmitInv
<1>2. ASSUME NEW st \in Streams, Return(st) \/ Timeout(st) \/ FlushNothing(st) PROVE IInv'
  BY <1>2, ReturnInv
<1>3. CASE Loop
  BY <1>3, TopInv, GetInv, JoinInv, ExecuteInv, RunGroupInv, RunSoloInv, EndBatchInv DEF Loop
<1>4. CASE Worker
  BY <1>4, WorkerInv
<1>5. CASE Stop
  BY <1>5, StopInv
<1>6. CASE UNCHANGED vars
  <2>1. /\ stream' = stream /\ reply' = reply /\ queue' = queue /\ thread' = thread
        /\ batch' = batch /\ groups' = groups /\ solo' = solo
    BY <1>6 DEF vars, batcherVars
  <2>2. Health'
    BY <1>6 DEF IInv, Health, HealthTypeOK, ReloadSlot, vars, batcherVars, healthVars
  <2> QED BY <2>1, <2>2 DEF IInv
<1> QED BY <1>1, <1>2, <1>3, <1>4, <1>5, <1>6 DEF Next, AtRest

\* Every request without an answer is in one place, and every stream that nothing has
\* disturbed has in its cache what it fed, but for the request it waits for.
THEOREM BatcherInvariant == Spec => []IInv
<1> QED BY InitInv, NextInv, PTL DEF Spec

----------------------------------------------------------------------------
(* What follows from it.                                                   *)

LEMMA RequestTypes ==
  /\ Seq(Numbered) \subseteq Seq(Requests)
  /\ Seq(Entries) \subseteq Seq(Requests \union {Sentinel})
  /\ Seq(Seq(Numbered)) \subseteq Seq(Seq(Requests))
<1>1. Numbered \subseteq Requests /\ Entries \subseteq Requests \union {Sentinel}
  BY DEF Numbered, Requests, Entries
<1>2. ASSUME NEW S, NEW T, S \subseteq T PROVE Seq(S) \subseteq Seq(T)
  BY <1>2
<1> QED BY <1>1, <1>2

\* Type correctness of every reachable state, the limit of a batch included.
THEOREM BatcherTypeCorrect == Spec => []TypeOK
<1>1. IInv => TypeOK
  <2> SUFFICES ASSUME IInv PROVE TypeOK
    OBVIOUS
  <2>1. Placed(queue, batch, groups, solo) /\ Phases(thread, batch, groups, solo)
        /\ StreamsOK(stream, reply) /\ Health
    BY DEF IInv
  <2>2. stream \in [Streams -> StreamType]
        /\ \A st \in Streams : reply[st] \in [Numbers(st) -> {"none", "open", "done"}]
    BY <2>1 DEF StreamsOK, Replies
  <2>3. /\ queue \in Seq(Requests \union {Sentinel}) /\ batch \in Seq(Requests)
        /\ solo \in Seq(Requests) /\ groups \in Seq(Seq(Requests)) /\ Len(batch) <= MaxBatch
    BY <2>1, RequestTypes DEF Placed
  <2>4. thread \in {"top", "get", "window", "run", "ended"}
    BY <2>1 DEF Phases
  <2>5. HealthTypeOK /\ reason \in BOOLEAN /\ stopped \in BOOLEAN
    BY <2>1 DEF Health
  <2> QED BY <2>2, <2>3, <2>4, <2>5 DEF TypeOK, StreamType
<1> QED BY <1>1, BatcherInvariant, PTL

\* The streams forwarded together keep their caches apart: what a stream has fed is in
\* its own cache, once and in order, whatever happens to the others of a batch and
\* however often a forward fails before it has written anything.
THEOREM CachesAlwaysIsolated == Spec => []CachesIsolated
<1>1. IInv => CachesIsolated
  <2> SUFFICES ASSUME IInv, NEW st \in Streams, ~stream[st].troubled
               PROVE  \/ stream[st].cache = stream[st].fed
                      \/ /\ stream[st].waits # 0
                         /\ Append(stream[st].cache, stream[st].waits) = stream[st].fed
    BY DEF CachesIsolated
  <2>1. Cached(stream[st], Numbers(st), reply[st])
    BY DEF IInv, StreamsOK
  <2> QED BY <2>1 DEF Cached
<1> QED BY <1>1, BatcherInvariant, PTL

Where(q, st, n) == {i \in DOMAIN q : q[i].st = st /\ q[i].n = n}

\* A sequence in which each request is once, counted.
LEMMA WhereCount ==
  ASSUME NEW q, Single(q), NEW st, NEW n, n # 0
  PROVE  /\ Where(q, st, n) # {} <=> <<st, n>> \in Keys(q)
         /\ Cardinality(Where(q, st, n)) = IF <<st, n>> \in Keys(q) THEN 1 ELSE 0
<1>1. Where(q, st, n) # {} <=> <<st, n>> \in Keys(q)
  <2>1. ASSUME NEW i \in DOMAIN q, q[i].st = st, q[i].n = n PROVE <<st, n>> \in Keys(q)
    BY <2>1 DEF Keys, Key
  <2>2. ASSUME <<st, n>> \in Keys(q) PROVE \E i \in DOMAIN q : q[i].st = st /\ q[i].n = n
    BY <2>2 DEF Keys, Key
  <2> QED BY <2>1, <2>2 DEF Where
<1>2. CASE Where(q, st, n) = {}
  BY <1>1, <1>2, FS_EmptySet
<1>3. CASE Where(q, st, n) # {}
  <2>1. PICK i \in Where(q, st, n) : TRUE
    BY <1>3
  <2>2. ASSUME NEW j \in Where(q, st, n) PROVE j = i
    BY <2>1 DEF Where, Single, Key
  <2>3. Where(q, st, n) = {i}
    BY <2>1, <2>2
  <2>4. Cardinality(Where(q, st, n)) = 1
    BY <2>3, FS_Singleton
  <2> QED BY <1>1, <1>3, <2>4
<1> QED BY <1>1, <1>2, <1>3

LEMMA GroupCount ==
  ASSUME NEW gs, Divided(gs), NEW st, NEW n, n # 0
  PROVE  Cardinality({k \in DOMAIN gs : Where(gs[k], st, n) # {}})
           = IF <<st, n>> \in GroupKeys(gs) THEN 1 ELSE 0
<1> DEFINE W == {k \in DOMAIN gs : Where(gs[k], st, n) # {}}
<1>1. ASSUME NEW k \in DOMAIN gs PROVE k \in W <=> <<st, n>> \in Keys(gs[k])
  BY WhereCount DEF Divided
<1>2. W \subseteq DOMAIN gs
  OBVIOUS
<1> HIDE DEF W
<1>3. CASE W = {}
  <2>1. <<st, n>> \notin GroupKeys(gs)
    BY <1>1, <1>3 DEF GroupKeys
  <2> QED BY <1>3, <2>1, FS_EmptySet DEF W
<1>4. CASE W # {}
  <2>1. PICK k \in W : TRUE
    BY <1>4
  <2>2. <<st, n>> \in Keys(gs[k]) /\ k \in DOMAIN gs
    BY <1>1, <1>2, <2>1
  <2>3. ASSUME NEW m \in W PROVE m = k
    <3>1. <<st, n>> \in Keys(gs[m]) /\ m \in DOMAIN gs
      BY <1>1, <1>2
    <3> QED BY <2>2, <3>1 DEF Divided
  <2>4. W = {k}
    BY <2>1, <2>3
  <2>5. <<st, n>> \in GroupKeys(gs)
    BY <2>2 DEF GroupKeys
  <2>6. Cardinality(W) = 1
    BY <2>4, FS_Singleton
  <2> QED BY <2>5, <2>6 DEF W
<1> QED BY <1>3, <1>4

\* No request is forgotten by the grouping, the retries or a failure, and none is in
\* two places: it is held once until it has its answer, and not at all after it.
THEOREM NoneEverForgotten == Spec => []NoneForgotten
<1>1. IInv => NoneForgotten
  <2> SUFFICES ASSUME IInv, NEW st \in Streams, NEW n \in Numbers(st)
               PROVE  InHand(st, n) = IF reply[st][n] = "open" THEN 1 ELSE 0
    BY DEF NoneForgotten
  <2>1. n # 0
    BY NumbersType
  <2>2. Hand(reply, queue, batch, groups, solo)
    BY DEF IInv
  <2> DEFINE k == <<st, n>>
             c(S) == IF k \in S THEN 1 ELSE 0
             W == {m \in DOMAIN groups : Where(groups[m], st, n) # {}}
  <2>3. /\ Cardinality(Where(queue, st, n)) = c(Keys(queue))
        /\ Cardinality(Where(solo, st, n)) = c(Keys(solo))
        /\ Cardinality(Where(batch, st, n)) = c(Keys(batch))
    BY <2>1, <2>2, WhereCount DEF Hand
  <2>4. Cardinality(W) = c(GroupKeys(groups))
    BY <2>1, <2>2, GroupCount DEF Hand
  <2>5. InHand(st, n) = Cardinality(Where(queue, st, n)) + Cardinality(Where(solo, st, n))
                        + Cardinality(Where(batch, st, n)) + Cardinality(W)
    BY DEF InHand, Where
  <2>6. reply[st][n] = "open" <=> k \in Open(reply)
    BY OpenOf
  <2> HIDE DEF k, W
  <2>7. InHand(st, n) = c(Keys(queue)) + c(Keys(solo)) + c(Keys(batch)) + c(GroupKeys(groups))
    BY <2>3, <2>4, <2>5
  <2>8. /\ k \in Open(reply) <=> k \in Keys(queue) \/ k \in Keys(batch) \/ k \in Keys(solo)
                                 \/ k \in GroupKeys(groups)
        /\ k \in Keys(queue) => /\ k \notin Keys(batch) /\ k \notin Keys(solo)
                              /\ k \notin GroupKeys(groups)
        /\ k \in Keys(batch) => k \notin Keys(solo) /\ k \notin GroupKeys(groups)
        /\ k \in Keys(solo) => k \notin GroupKeys(groups)
    BY <2>2 DEF Hand
  <2> QED BY <2>6, <2>7, <2>8
<1> QED BY <1>1, BatcherInvariant, PTL
=============================================================================
