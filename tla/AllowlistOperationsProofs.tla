---------------------- MODULE AllowlistOperationsProofs ----------------------
(***************************************************************************)
(* Proofs about AllowlistOperations for any clients, operations, orders    *)
(* and batches, when no delete comes between the first SELECT of an adding *)
(* request and its lock.                                                   *)
(***************************************************************************)
EXTENDS AllowlistOperations, FiniteSetTheorems, WellFoundedInduction, TLAPS

(* Orders are positive and distinct, and the MAP operation is the last. *)
Sorted(t) ==
  /\ IsFiniteSet(Ids(t))
  /\ \A i \in Ids(t) : t.order[i] > 0
  /\ \A i, j \in Ids(t) : t.order[i] = t.order[j] => i = j
  /\ \A m \in Ids(t) \cap MapOperation : \A i \in Ids(t) \ {m} : t.order[i] < t.order[m]

RanFirst(t) ==
  \A i, j \in Ids(t) \ MapOperation :
    t.order[i] < t.order[j] /\ j \in t.ran => i \in t.ran

(* Adding keeps what is there, moves nothing forward, and when it changes an   *)
(* order there is a new greatest one.                                          *)
Grown(s, t) ==
  /\ Ids(s) \subseteq Ids(t)
  /\ \A i \in Ids(s) : s.order[i] <= t.order[i]
  /\ \/ t.order = s.order
     \/ \E i \in Ids(t) : \A j \in Ids(s) : s.order[j] < t.order[i]

(* Two tables have what they share in the same order. *)
Agree(s, t) ==
  \A i, j \in (Ids(s) \cap Ids(t)) \ MapOperation :
    s.order[i] < s.order[j] => t.order[i] < t.order[j]
------------------------------------------------------------------------------
(* A finite set of orders has a greatest one. *)
LEMMA GreatestExists ==
  ASSUME NEW S, IsFiniteSet(S), S # {}, NEW f \in [S -> Int]
  PROVE  \E m \in S : \A i \in S : f[i] <= f[m]
<1> DEFINE Above(j) == {i \in S : f[i] > f[j]}
           All == {Above(j) : j \in S}
<1>1. IsWellFoundedOn(StrictSubsetOrdering(S), SUBSET S)
  BY FS_StrictSubsetOrderingWellFounded, FS_FiniteSubsetsOfFinite
<1>2. All \subseteq SUBSET S
  OBVIOUS
<1> HIDE DEF Above
<1>3. PICK g \in S : TRUE
  OBVIOUS
<1>4. Above(g) \in All
  OBVIOUS
<1>5. PICK x \in All : \A y \in All : ~(<<y, x>> \in StrictSubsetOrdering(S))
  BY <1>1, <1>2, <1>4, WFMin
<1>6. PICK m \in S : x = Above(m)
  BY <1>5
<1>7. ASSUME NEW i \in S, f[i] > f[m] PROVE FALSE
  <2>1. Above(i) \subseteq Above(m)
    BY <1>7 DEF Above
  <2>2. i \in Above(m) /\ i \notin Above(i)
    BY <1>7 DEF Above
  <2>3. Above(i) \in All
    OBVIOUS
  <2> HIDE DEF Above, All
  <2>4. <<Above(i), x>> \in StrictSubsetOrdering(S)
    BY <1>2, <1>6, <2>1, <2>2, <2>3 DEF StrictSubsetOrdering
  <2> QED
    BY <1>5, <2>3, <2>4
<1> QED
  BY <1>7 DEF Above

(* getLatestOrderForAllowlist *)
LEMMA LatestIsGreatest ==
  ASSUME NEW S, IsFiniteSet(S), NEW f \in [S -> Int]
  PROVE  /\ Latest(f) \in Int
         /\ S = {} => Latest(f) = 0
         /\ S # {} => \E m \in S : Latest(f) = f[m]
         /\ \A i \in S : f[i] <= Latest(f)
<1>1. CASE S = {}
  BY <1>1 DEF Latest
<1>2. CASE S # {}
  <2>1. PICK m \in S : \A i \in S : f[i] <= f[m]
    BY <1>2, GreatestExists
  <2>2. f[m] \in {f[i] : i \in DOMAIN f} /\ \A i \in DOMAIN f : f[i] <= f[m]
    BY <2>1
  <2>3. /\ Latest(f) \in {f[i] : i \in DOMAIN f}
        /\ \A i \in DOMAIN f : f[i] <= Latest(f)
    BY <1>2, <2>2 DEF Latest
  <2> QED
    BY <1>2, <2>3
<1> QED
  BY <1>1, <1>2

(* The greatest value is what Latest returns. *)
LEMMA LatestOf ==
  ASSUME NEW S, IsFiniteSet(S), NEW f \in [S -> Int], NEW m \in S,
         \A i \in S : f[i] <= f[m]
  PROVE  Latest(f) = f[m]
<1>1. f[m] <= Latest(f) /\ Latest(f) \in Int /\ \E i \in S : Latest(f) = f[i]
  BY LatestIsGreatest
<1> QED
  BY <1>1

LEMMA GrownTransitive ==
  ASSUME NEW s, NEW t, NEW u, IsTable(s), IsTable(t), IsTable(u), Grown(s, t), Grown(t, u)
  PROVE  Grown(s, u)
<1>1. /\ \A i \in Ids(s) : s.order[i] \in Int
      /\ \A i \in Ids(t) : t.order[i] \in Int
      /\ \A i \in Ids(u) : u.order[i] \in Int
  BY DEF IsTable
<1>2. /\ Ids(s) \subseteq Ids(u)
      /\ \A i \in Ids(s) : s.order[i] <= u.order[i]
  BY <1>1 DEF Grown
<1>3. \/ u.order = s.order
      \/ \E i \in Ids(u) : \A j \in Ids(s) : s.order[j] < u.order[i]
  <2>1. CASE u.order = t.order
    BY <2>1 DEF Grown, Ids
  <2>2. CASE \E i \in Ids(u) : \A j \in Ids(t) : t.order[j] < u.order[i]
    <3>1. PICK i \in Ids(u) : \A j \in Ids(t) : t.order[j] < u.order[i]
      BY <2>2
    <3>2. \A j \in Ids(s) : s.order[j] < u.order[i]
      BY <1>1, <3>1 DEF Grown
    <3> QED
      BY <3>2
  <2> QED
    BY <2>1, <2>2 DEF Grown
<1> QED
  BY <1>2, <1>3 DEF Grown

LEMMA AgreeSymmetric ==
  ASSUME NEW s, NEW t, IsTable(s), IsTable(t), Sorted(s), Sorted(t), Agree(s, t)
  PROVE  Agree(t, s)
<1>1. \A i \in Ids(s) : s.order[i] \in Int
  BY DEF IsTable
<1>2. \A i \in Ids(t) : t.order[i] \in Int
  BY DEF IsTable
<1> QED
  BY <1>1, <1>2 DEF Agree, Sorted

(* incOrdersForAllowlistSinceOrder, and the new row *)
LEMMA PutRows ==
  ASSUME NEW b, IsTable(b), NEW o \in Operation \ Ids(b), NEW k \in Nat \ {0},
         Sorted(b)
  PROVE  /\ IsTable(Put(b, o, k))
         /\ Ids(Put(b, o, k)) = Ids(b) \cup {o}
         /\ IsFiniteSet(Ids(b) \cup {o})
         /\ Put(b, o, k).ran = b.ran
         /\ Put(b, o, k).order[o] = k
         /\ \A i \in Ids(b) :
              /\ b.order[i] >= k => Put(b, o, k).order[i] = b.order[i] + 1
              /\ b.order[i] < k => Put(b, o, k).order[i] = b.order[i]
<1> DEFINE t == Put(b, o, k)
<1>1. \A i \in Ids(b) : b.order[i] \in Int
  BY DEF IsTable
<1>2. /\ t.order = [i \in Ids(b) \cup {o} |->
                      IF i = o THEN k
                      ELSE IF b.order[i] >= k THEN b.order[i] + 1 ELSE b.order[i]]
      /\ t.ran = b.ran
  BY DEF Put
<1>3. Ids(t) = Ids(b) \cup {o}
  BY <1>2 DEF Ids
<1>4. DOMAIN t = {"order", "ran"}
  BY DEF Put
<1>5. t.order \in [Ids(t) -> Int]
  BY <1>1, <1>2, <1>3
<1>6. IsTable(t)
  BY <1>2, <1>3, <1>4, <1>5 DEF IsTable
<1>7. IsFiniteSet(Ids(b) \cup {o})
  BY FS_AddElement DEF Sorted
<1>8. \A i \in Ids(b) : /\ b.order[i] >= k => t.order[i] = b.order[i] + 1
                        /\ b.order[i] < k => t.order[i] = b.order[i]
  BY <1>1, <1>2
<1> QED
  BY <1>2, <1>3, <1>6, <1>7, <1>8

(* A transaction that has changed every row from order k on sees those where   *)
(* they are, others before k, and the latest order.                            *)
Sees(t, C, s, k) ==
  LET v == View(t, C, s) IN
  /\ DOMAIN v = C \cup Ids(s)
  /\ \A i \in C : v[i] = t.order[i]
  /\ \A i \in Ids(s) \ C : v[i] = s.order[i]
  /\ \A i \in C \cup Ids(s) : v[i] >= k <=> i \in From(t, k)
  /\ Latest(v) = Latest(t.order)
  /\ Latest(t.order) \in Int
  /\ \A i \in Ids(t) : t.order[i] <= Latest(t.order)
  /\ \E i \in From(t, k) : t.order[i] = Latest(t.order)

LEMMA ViewIsLatest ==
  ASSUME NEW t, IsTable(t), IsFiniteSet(Ids(t)), NEW s, IsTable(s), NEW k \in Int,
         NEW C, C \subseteq Ids(t), From(t, k) \subseteq C, From(t, k) # {},
         Ids(s) \subseteq Ids(t),
         \A i \in Ids(s) : t.order[i] < k => s.order[i] < k
  PROVE  Sees(t, C, s, k)
<1> DEFINE v == View(t, C, s)
<1>1. /\ \A i \in Ids(t) : t.order[i] \in Int
      /\ \A i \in Ids(s) : s.order[i] \in Int
      /\ t.order \in [Ids(t) -> Int]
  BY DEF IsTable
<1>2. v = [i \in C \cup Ids(s) |-> IF i \in C THEN t.order[i] ELSE s.order[i]]
  BY DEF View
<1>3. v \in [C \cup Ids(s) -> Int]
  BY <1>1, <1>2
<1>4. /\ \A i \in C : v[i] = t.order[i]
      /\ \A i \in Ids(s) \ C : v[i] = s.order[i]
  BY <1>2
<1>5. \A i \in Ids(t) : i \in From(t, k) <=> t.order[i] >= k
  BY DEF From
<1>6. \A i \in C \cup Ids(s) : v[i] >= k <=> i \in From(t, k)
  <2>1. TAKE i \in C \cup Ids(s)
  <2>2. CASE i \in C
    BY <1>4, <1>5, <2>2
  <2>3. CASE i \in Ids(s) \ C
    <3>1. i \notin From(t, k) /\ t.order[i] < k
      BY <1>1, <1>5, <2>3
    <3> QED
      BY <1>1, <1>4, <2>3, <3>1
  <2> QED
    BY <2>2, <2>3
<1>7. PICK m \in Ids(t) : \A i \in Ids(t) : t.order[i] <= t.order[m]
  <2>1. Ids(t) # {}
    BY DEF From
  <2> QED
    BY <1>1, <2>1, GreatestExists
<1>8. Latest(t.order) = t.order[m]
  BY <1>1, <1>7, LatestOf
<1>9. m \in From(t, k)
  BY <1>1, <1>5, <1>7 DEF From
<1>10. m \in C /\ v[m] = t.order[m]
  BY <1>4, <1>9
<1>11. \A i \in C \cup Ids(s) : v[i] <= v[m]
  <2>1. TAKE i \in C \cup Ids(s)
  <2>2. CASE i \in C
    BY <1>4, <1>7, <1>10, <2>2
  <2>3. CASE i \in Ids(s) \ C
    <3>1. v[i] < k
      BY <1>3, <1>6, <2>3
    <3>2. v[m] >= k /\ v[m] \in Int /\ v[i] \in Int
      BY <1>3, <1>6, <1>9, <1>10
    <3> QED
      BY <3>1, <3>2
  <2> QED
    BY <2>2, <2>3
<1>12. IsFiniteSet(C \cup Ids(s))
  BY FS_Subset
<1>13. Latest(v) = v[m]
  BY <1>3, <1>10, <1>11, <1>12, LatestOf
<1> HIDE DEF v
<1>14. DOMAIN v = C \cup Ids(s)
  BY <1>3
<1> QED
  BY <1>1, <1>4, <1>6, <1>7, <1>8, <1>9, <1>10, <1>13, <1>14 DEF v, Sees

(* What an adding request inserts into: the rows, those it has changed, its    *)
(* snapshot and the order of the new row.  It can see every MAP operation where *)
(* it is.                                                                       *)
Ready(b, changed, s, k) ==
  /\ IsTable(b) /\ Sorted(b) /\ RanFirst(b)
  /\ IsTable(s) /\ Ids(s) \subseteq Ids(b)
  /\ \A i \in Ids(s) : s.order[i] <= b.order[i]
  /\ changed \subseteq Ids(b)
  /\ k \in Nat \ {0}
  /\ \A m \in Ids(b) \cap MapOperation :
       m \in changed \cup From(b, k) \/ (m \in Ids(s) /\ s.order[m] = b.order[m])

(* The increment and the new row; has_ran is kept only before it. *)
LEMMA SavedFacts ==
  ASSUME NEW c, NEW o \in Operation \ Ids(Base(c)),
         Ready(Base(c), Changed(c), Snapshot(c), place[c])
  PROVE  /\ Saved(c, o).rows.order = Put(Base(c), o, place[c]).order
         /\ IsTable(Saved(c, o).rows)
         /\ \/ Saved(c, o).rows.ran = {}
            \/ /\ Saved(c, o).rows.ran = Base(c).ran
               /\ From(Saved(c, o).rows, place[c]) \cap Base(c).ran = {}
         /\ Saved(c, o).changed \subseteq Ids(Base(c)) \cup {o}
         /\ Changed(c) \cup From(Base(c), place[c]) \cup {o} \subseteq Saved(c, o).changed
<1> DEFINE b == Base(c)
           k == place[c]
           s == Snapshot(c)
           t == Put(b, o, k)
           C == Changed(c) \cup From(b, k) \cup {o}
           v == View(t, C, s)
           ranLater == \E i \in DOMAIN v :
                         /\ v[i] >= k
                         /\ i \in IF i \in C THEN t.ran ELSE s.ran
           r == Saved(c, o)
<1>1. Ready(b, Changed(c), s, k)
  OBVIOUS
<1>2. r = [rows    |-> IF ranLater THEN [t EXCEPT !.ran = {}] ELSE t,
           changed |-> IF ranLater THEN C \cup t.ran ELSE C]
  BY DEF Saved
<1>3. /\ IsTable(b) /\ Sorted(b) /\ k \in Nat \ {0} /\ o \notin Ids(b) /\ o \in Operation
      /\ IsTable(s) /\ Ids(s) \subseteq Ids(b) /\ Changed(c) \subseteq Ids(b)
      /\ \A i \in Ids(s) : s.order[i] <= b.order[i]
  BY <1>1 DEF Ready
<1> HIDE DEF b, k, s
<1>4. /\ IsTable(t)
      /\ Ids(t) = Ids(b) \cup {o}
      /\ IsFiniteSet(Ids(t))
      /\ t.ran = b.ran
      /\ t.order[o] = k
      /\ \A i \in Ids(b) : b.order[i] >= k => t.order[i] = b.order[i] + 1
      /\ \A i \in Ids(b) : b.order[i] < k => t.order[i] = b.order[i]
  <2>1. o \in Operation \ Ids(b)
    BY <1>3
  <2>2. IsTable(b) /\ Sorted(b) /\ k \in Nat \ {0}
    BY <1>3
  <2>3. Ids(t) = Ids(b) \cup {o} /\ IsFiniteSet(Ids(b) \cup {o})
    BY <2>1, <2>2, PutRows
  <2>4. IsFiniteSet(Ids(t))
    BY <2>3
  <2> QED
    BY <2>1, <2>2, <2>3, <2>4, PutRows
<1>5. /\ \A i \in Ids(b) : b.order[i] \in Int
      /\ \A i \in Ids(s) : s.order[i] \in Int
      /\ b.ran \subseteq Ids(b)
  BY <1>3 DEF IsTable
<1> HIDE DEF t
<1>6. From(t, k) = From(b, k) \cup {o}
  BY <1>3, <1>4, <1>5 DEF From
<1>7. C \subseteq Ids(t) /\ From(t, k) \subseteq C /\ From(t, k) # {}
  BY <1>3, <1>4, <1>6 DEF From
<1>8. \A i \in Ids(s) : t.order[i] < k => s.order[i] < k
  BY <1>3, <1>4, <1>5
<1>9. /\ DOMAIN v = C \cup Ids(s)
      /\ \A i \in C \cup Ids(s) : v[i] >= k <=> i \in From(t, k)
  <2>1. Ids(s) \subseteq Ids(t)
    BY <1>3, <1>4
  <2>2. IsTable(t) /\ IsFiniteSet(Ids(t)) /\ IsTable(s) /\ k \in Int
    BY <1>3, <1>4
  <2>3. C \subseteq Ids(t) /\ From(t, k) \subseteq C /\ From(t, k) # {}
    BY <1>7
  <2> HIDE DEF C
  <2>4. Sees(t, C, s, k)
    BY <1>8, <2>1, <2>2, <2>3, ViewIsLatest
  <2> QED
    BY <2>4 DEF Sees
<1> HIDE DEF v
<1>10. ranLater <=> From(t, k) \cap b.ran # {}
  BY <1>4, <1>7, <1>9
<1>11. o \notin b.ran
  BY <1>3, <1>5
<1> HIDE DEF ranLater, C
<1>12. C \cup t.ran \subseteq Ids(b) \cup {o} /\ C \subseteq Ids(b) \cup {o}
  BY <1>4, <1>5, <1>7
<1>13. CASE ranLater
  <2>1. r = [rows |-> [t EXCEPT !.ran = {}], changed |-> C \cup t.ran]
    BY <1>2, <1>13
  <2>2. /\ DOMAIN [t EXCEPT !.ran = {}] = DOMAIN t
        /\ [t EXCEPT !.ran = {}].order = t.order
        /\ [t EXCEPT !.ran = {}].ran = {}
    BY <1>4 DEF IsTable
  <2>3. IsTable([t EXCEPT !.ran = {}])
    BY <1>4, <2>2 DEF IsTable, Ids
  <2> HIDE DEF r
  <2>4. r.rows = [t EXCEPT !.ran = {}] /\ r.changed = C \cup t.ran
    BY <2>1
  <2>5. /\ r.rows.order = t.order /\ r.rows.ran = {} /\ IsTable(r.rows)
        /\ r.changed \subseteq Ids(b) \cup {o} /\ C \subseteq r.changed
    BY <2>4, <2>2, <2>3, <1>12
  <2> QED
    BY <2>5 DEF b, k, t, C, r
<1>14. CASE ~ranLater
  <2>1. r = [rows |-> t, changed |-> C]
    BY <1>2, <1>14
  <2>2. From(t, k) \cap b.ran = {}
    BY <1>10, <1>14
  <2> QED
    BY <2>1, <2>2, <1>4, <1>12 DEF b, k, t, C
<1> QED
  BY <1>13, <1>14

(* The three outcomes of an insertion: the rows from the new order on moved    *)
(* back, the new row slipped in front of the MAP operation, or the new MAP     *)
(* operation taken to the end.                                                 *)
Shifted(b, d, o, k) ==
  /\ d.order[o] = k
  /\ \A i \in Ids(b) : /\ b.order[i] >= k => d.order[i] = b.order[i] + 1
                       /\ b.order[i] < k => d.order[i] = b.order[i]

BeforeMap(b, d, o, k) ==
  \E m \in Ids(b) \cap MapOperation :
    /\ \A i \in Ids(b) : b.order[i] < k
    /\ d.order[o] = k - 1 /\ d.order[m] = k
    /\ \A i \in Ids(b) \ {m} : d.order[i] = b.order[i]

AtTheEnd(b, d, o) ==
  /\ o \in MapOperation
  /\ \A i \in Ids(b) : d.order[i] = b.order[i] /\ b.order[i] < d.order[o]

LEMMA ShiftedIsGood ==
  ASSUME NEW b, NEW d, NEW o \in Operation \ Ids(b), NEW k \in Nat \ {0},
         IsTable(b), Sorted(b), RanFirst(b), IsTable(d), Ids(d) = Ids(b) \cup {o},
         Shifted(b, d, o, k),
         d.ran = {} \/ (d.ran = b.ran /\ From(d, k) \cap b.ran = {}),
         \A m \in Ids(d) \cap MapOperation : \A i \in Ids(d) \ {m} : d.order[i] <= d.order[m]
  PROVE  Sorted(d) /\ RanFirst(d) /\ Grown(b, d) /\ Agree(b, d)
<1>1. /\ \A i \in Ids(b) : b.order[i] \in Int
      /\ \A i \in Ids(d) : d.order[i] \in Int
      /\ b.ran \subseteq Ids(b)
      /\ o \notin Ids(b)
      /\ d.order \in [Ids(d) -> Int]
  BY DEF IsTable
<1>2. IsFiniteSet(Ids(d))
  BY FS_AddElement DEF Sorted
<1>3. \A i, j \in Ids(b) : b.order[i] < b.order[j] <=> d.order[i] < d.order[j]
  BY <1>1 DEF Shifted
<1>4. \A i \in Ids(b) : /\ b.order[i] <= d.order[i]
                        /\ d.order[i] # k
                        /\ d.order[i] < k => d.order[i] = b.order[i]
  BY <1>1 DEF Shifted
<1>5. \A i \in Ids(d) : d.order[i] > 0
  BY <1>1, <1>4 DEF Sorted, Shifted
<1>6. \A i, j \in Ids(d) : d.order[i] = d.order[j] => i = j
  <2>1. \A i, j \in Ids(b) : d.order[i] = d.order[j] => i = j
    BY <1>1, <1>3 DEF Sorted
  <2>2. d.order[o] = k
    BY DEF Shifted
  <2> QED
    BY <1>4, <2>1, <2>2
<1>7. \A m \in Ids(d) \cap MapOperation : \A i \in Ids(d) \ {m} : d.order[i] < d.order[m]
  BY <1>1, <1>6
<1>8. RanFirst(d)
  <2>1. CASE d.ran = {}
    BY <2>1 DEF RanFirst
  <2>2. CASE d.ran = b.ran /\ From(d, k) \cap b.ran = {}
    <3>1. SUFFICES ASSUME NEW i \in Ids(d) \ MapOperation, NEW j \in Ids(d) \ MapOperation,
                          d.order[i] < d.order[j], j \in d.ran
                   PROVE  i \in d.ran
      BY DEF RanFirst
    <3>2. j \in Ids(b) /\ j \in b.ran
      BY <1>1, <2>2, <3>1
    <3>3. d.order[j] < k
      BY <1>1, <2>2, <3>2 DEF From
    <3>4. i \in Ids(b)
      BY <1>1, <3>1, <3>3 DEF Shifted
    <3>5. b.order[i] < b.order[j]
      BY <1>3, <3>1, <3>2, <3>4
    <3> QED
      BY <2>2, <3>2, <3>4, <3>5 DEF RanFirst
  <2> QED
    BY <2>1, <2>2
<1>9. Grown(b, d)
  <2>1. PICK g \in Ids(d) : \A i \in Ids(d) : d.order[i] <= d.order[g]
    BY <1>1, <1>2, GreatestExists
  <2>2. \A i \in Ids(b) : b.order[i] < d.order[g]
    <3>1. d.order[g] >= k
      BY <1>1, <2>1 DEF Shifted
    <3> QED
      BY <1>1, <2>1, <3>1 DEF Shifted
  <2> QED
    BY <1>4, <2>2 DEF Grown
<1>10. Agree(b, d)
  BY <1>3 DEF Agree
<1> QED
  BY <1>2, <1>5, <1>6, <1>7, <1>8, <1>9, <1>10 DEF Sorted

LEMMA BeforeMapIsGood ==
  ASSUME NEW b, NEW d, NEW o \in Operation \ Ids(b), NEW k \in Nat \ {0},
         IsTable(b), Sorted(b), RanFirst(b), IsTable(d), Ids(d) = Ids(b) \cup {o},
         BeforeMap(b, d, o, k), o \notin MapOperation,
         d.ran = {} \/ d.ran = b.ran
  PROVE  Sorted(d) /\ RanFirst(d) /\ Grown(b, d) /\ Agree(b, d)
<1>1. /\ \A i \in Ids(b) : b.order[i] \in Int
      /\ b.ran \subseteq Ids(b)
      /\ o \notin Ids(b)
  BY DEF IsTable
<1>2. IsFiniteSet(Ids(d))
  BY FS_AddElement DEF Sorted
<1>3. PICK m \in Ids(b) \cap MapOperation :
        /\ \A i \in Ids(b) : b.order[i] < k
        /\ d.order[o] = k - 1 /\ d.order[m] = k
        /\ \A i \in Ids(b) \ {m} : d.order[i] = b.order[i]
  BY DEF BeforeMap
<1>4. /\ \A i \in Ids(b) \ {m} : b.order[i] < b.order[m]
      /\ b.order[m] <= k - 1
      /\ Ids(b) \cap MapOperation = {m}
  <2>1. \A i \in Ids(b) \ {m} : b.order[i] < b.order[m]
    BY DEF Sorted
  <2>2. \A i \in Ids(b) \cap MapOperation : i # m => b.order[m] < b.order[i]
    BY DEF Sorted
  <2> QED
    BY <1>1, <1>3, <2>1, <2>2
<1>5. \A i \in Ids(b) \ {m} : d.order[i] < k - 1
  BY <1>1, <1>3, <1>4
<1>6. \A i \in Ids(d) : d.order[i] > 0
  BY <1>1, <1>3, <1>4 DEF Sorted
<1>7. \A i, j \in Ids(d) : d.order[i] = d.order[j] => i = j
  <2>1. \A i, j \in Ids(b) \ {m} : d.order[i] = d.order[j] => i = j
    BY <1>3 DEF Sorted
  <2>2. \A i \in Ids(b) \ {m} : d.order[i] \in Int
    BY <1>1, <1>3
  <2>3. \A i \in Ids(d) : i = o \/ i = m \/ i \in Ids(b) \ {m}
    OBVIOUS
  <2> QED
    BY <1>3, <1>5, <2>1, <2>2, <2>3
<1>8. \A n \in Ids(d) \cap MapOperation : \A i \in Ids(d) \ {n} : d.order[i] < d.order[n]
  <2>1. Ids(d) \cap MapOperation = {m}
    BY <1>4
  <2>2. \A i \in Ids(b) \ {m} : d.order[i] \in Int
    BY <1>1, <1>3
  <2> QED
    BY <1>3, <1>5, <2>1, <2>2
<1>9. RanFirst(d)
  <2>1. SUFFICES ASSUME NEW i \in Ids(d) \ MapOperation, NEW j \in Ids(d) \ MapOperation,
                        d.order[i] < d.order[j], j \in d.ran
                 PROVE  i \in d.ran
    BY DEF RanFirst
  <2>2. d.ran = b.ran /\ j \in Ids(b) \ {m}
    BY <1>1, <1>3, <2>1
  <2>3. i \in Ids(b) \ {m}
    BY <1>1, <1>3, <1>5, <2>1, <2>2
  <2> QED
    BY <1>3, <2>1, <2>2, <2>3 DEF RanFirst
<1>10. Grown(b, d)
  <2>1. \A i \in Ids(b) : b.order[i] <= d.order[i] /\ b.order[i] < d.order[m]
    BY <1>1, <1>3
  <2> QED
    BY <1>3, <2>1 DEF Grown
<1>11. Agree(b, d)
  BY <1>3 DEF Agree
<1> QED
  BY <1>2, <1>6, <1>7, <1>8, <1>9, <1>10, <1>11 DEF Sorted

LEMMA AtTheEndIsGood ==
  ASSUME NEW b, NEW d, NEW o \in Operation \ Ids(b),
         IsTable(b), Sorted(b), RanFirst(b), IsTable(d), Ids(d) = Ids(b) \cup {o},
         AtTheEnd(b, d, o), Ids(b) \cap MapOperation = {}, d.order[o] > 0,
         d.ran = {} \/ d.ran = b.ran
  PROVE  Sorted(d) /\ RanFirst(d) /\ Grown(b, d) /\ Agree(b, d)
<1>1. /\ \A i \in Ids(b) : b.order[i] \in Int
      /\ \A i \in Ids(d) : d.order[i] \in Int
      /\ b.ran \subseteq Ids(b)
      /\ o \notin Ids(b)
  BY DEF IsTable
<1>2. IsFiniteSet(Ids(d))
  BY FS_AddElement DEF Sorted
<1>3. Ids(d) \cap MapOperation = {o}
  BY DEF AtTheEnd
<1>4. \A i, j \in Ids(d) : d.order[i] = d.order[j] => i = j
  <2>1. \A i, j \in Ids(b) : d.order[i] = d.order[j] => i = j
    BY DEF Sorted, AtTheEnd
  <2>2. \A i \in Ids(b) : d.order[i] < d.order[o]
    BY DEF AtTheEnd
  <2> QED
    BY <1>1, <2>1, <2>2
<1>5. Sorted(d)
  BY <1>1, <1>2, <1>3, <1>4 DEF Sorted, AtTheEnd
<1>6. RanFirst(d)
  BY <1>1, <1>3 DEF RanFirst, AtTheEnd
<1>7. Grown(b, d)
  BY <1>1 DEF Grown, AtTheEnd
<1>8. Agree(b, d)
  BY DEF Agree, AtTheEnd
<1> QED
  BY <1>5, <1>6, <1>7, <1>8

(* The check of ensureLatestOperationIsMapToDelegatedWallets. *)
OneMap(c, o) == \A i, j \in MapsFound(c, Saved(c, o)) : i = j

(* ensureLatestOperationIsMapToDelegatedWallets: what an insertion leaves. *)
LEMMA InsertFacts ==
  ASSUME NEW c, NEW o \in Operation \ Ids(Base(c)),
         Ready(Base(c), Changed(c), Snapshot(c), place[c]), OneMap(c, o)
  PROVE  LET d == MapLast(c, Saved(c, o)) IN
         /\ IsTable(d.rows) /\ Ids(d.rows) = Ids(Base(c)) \cup {o}
         /\ Sorted(d.rows) /\ RanFirst(d.rows)
         /\ Grown(Base(c), d.rows) /\ Agree(Base(c), d.rows)
         /\ d.changed \subseteq Ids(d.rows)
         /\ \A m \in Ids(d.rows) \cap MapOperation :
              m \in d.changed
              \/ (m \in Ids(Snapshot(c)) /\ Snapshot(c).order[m] = d.rows.order[m])
<1>0. PICK b, changed, k, s, r, d :
        /\ b = Base(c) /\ changed = Changed(c) /\ k = place[c] /\ s = Snapshot(c)
        /\ r = Saved(c, o) /\ d = MapLast(c, r)
  OBVIOUS
<1> DEFINE t == r.rows
           C == r.changed
           v == View(t, C, s)
           n == Latest(t.order)
           maps == DOMAIN v \cap MapOperation
           Good == /\ IsTable(d.rows) /\ Ids(d.rows) = Ids(b) \cup {o}
                   /\ Sorted(d.rows) /\ RanFirst(d.rows)
                   /\ Grown(b, d.rows) /\ Agree(b, d.rows)
                   /\ d.changed \subseteq Ids(d.rows)
                   /\ \A m \in Ids(d.rows) \cap MapOperation :
                        m \in d.changed \/ (m \in Ids(s) /\ s.order[m] = d.rows.order[m])
<1> SUFFICES Good
  BY <1>0
<1>1. /\ IsTable(b) /\ Sorted(b) /\ RanFirst(b)
      /\ IsTable(s) /\ Ids(s) \subseteq Ids(b)
      /\ \A i \in Ids(s) : s.order[i] <= b.order[i]
      /\ k \in Nat \ {0}
      /\ o \in Operation /\ o \notin Ids(b)
  BY <1>0 DEF Ready
<1>2. \A m \in Ids(b) \cap MapOperation :
        m \in changed \cup From(b, k) \/ (m \in Ids(s) /\ s.order[m] = b.order[m])
  BY <1>0 DEF Ready
<1>3. /\ t.order = Put(b, o, k).order
      /\ IsTable(t)
      /\ t.ran = {} \/ (t.ran = b.ran /\ From(t, k) \cap b.ran = {})
      /\ C \subseteq Ids(b) \cup {o}
      /\ changed \cup From(b, k) \cup {o} \subseteq C
  BY <1>0, SavedFacts
<1>4. /\ d = IF maps = {} THEN r
             ELSE LET m == CHOOSE i \in maps : TRUE IN
                  IF v[m] = Latest(v) THEN r
                  ELSE [rows    |-> Move(t, m, v[m], Latest(v)),
                        changed |-> C \cup From(t, v[m]) \cup ({m} \cap Ids(t))]
      /\ \A i, j \in maps : i = j
  BY <1>0 DEF MapLast, MapsFound, OneMap
<1>5. Put(b, o, k).order \in [Ids(b) \cup {o} -> Int]
  <2>1. IsTable(Put(b, o, k)) /\ Ids(Put(b, o, k)) = Ids(b) \cup {o}
    BY <1>1, PutRows
  <2> QED
    BY <2>1 DEF IsTable
<1>6. /\ Ids(t) = Ids(b) \cup {o}
      /\ IsFiniteSet(Ids(t))
      /\ Shifted(b, t, o, k)
  <2>1. Ids(t) = Ids(b) \cup {o}
    BY <1>3, <1>5 DEF Ids
  <2>2. IsTable(b) /\ Sorted(b) /\ o \in Operation \ Ids(b) /\ k \in Nat \ {0}
    BY <1>1
  <2>3. /\ IsFiniteSet(Ids(b) \cup {o})
        /\ IsTable(Put(b, o, k))
    BY <2>2, PutRows
  <2>4. /\ Put(b, o, k).order[o] = k
        /\ \A i \in Ids(b) :
             /\ b.order[i] >= k => Put(b, o, k).order[i] = b.order[i] + 1
             /\ b.order[i] < k => Put(b, o, k).order[i] = b.order[i]
    BY <2>3, <2>2, PutRows
  <2>5. Shifted(b, t, o, k)
    BY <1>3, <2>4 DEF Shifted
  <2> QED
    BY <2>1, <2>3, <2>5
<1> HIDE DEF t, C
<1>7. /\ \A i \in Ids(b) : b.order[i] \in Int
      /\ \A i \in Ids(s) : s.order[i] \in Int
      /\ \A i \in Ids(t) : t.order[i] \in Int
      /\ b.ran \subseteq Ids(b)
  BY <1>1, <1>3 DEF IsTable
<1>8. /\ From(t, k) = From(b, k) \cup {o}
      /\ From(t, k) \subseteq C
      /\ C \subseteq Ids(t)
  <2>1. From(t, k) = From(b, k) \cup {o}
    BY <1>1, <1>6, <1>7 DEF From, Shifted
  <2> QED
    BY <1>3, <1>6, <2>1
<1>9. \A i \in Ids(s) : t.order[i] < k => s.order[i] < k
  BY <1>1, <1>6, <1>7 DEF Shifted
<1>10. /\ DOMAIN v = C \cup Ids(s)
       /\ \A i \in C : v[i] = t.order[i]
       /\ \A i \in Ids(s) \ C : v[i] = s.order[i]
       /\ Latest(v) = n
       /\ n \in Int
       /\ \A i \in Ids(t) : t.order[i] <= n
       /\ \E i \in From(t, k) : t.order[i] = n
  <2>1. IsTable(t) /\ IsFiniteSet(Ids(t)) /\ IsTable(s) /\ k \in Int
    BY <1>1, <1>3, <1>6
  <2>2. Ids(s) \subseteq Ids(t) /\ From(t, k) # {}
    BY <1>1, <1>6, <1>8
  <2>3. C \subseteq Ids(t) /\ From(t, k) \subseteq C
    BY <1>8
  <2>4. Sees(t, C, s, k)
    BY <1>9, <2>1, <2>2, <2>3, ViewIsLatest
  <2> QED
    BY <2>4 DEF Sees
<1> HIDE DEF v, n
<1>11. \A m \in Ids(t) \cap MapOperation :
         /\ m \in maps /\ v[m] = t.order[m]
         /\ m \in C \/ (m \in Ids(s) /\ s.order[m] = t.order[m])
  <2>1. TAKE m \in Ids(t) \cap MapOperation
  <2>2. CASE m \in C
    BY <1>10, <2>2
  <2>3. CASE m \notin C
    <3>1. m \in Ids(b) /\ m \notin From(b, k) /\ m \in Ids(s) /\ s.order[m] = b.order[m]
      BY <1>2, <1>3, <1>6, <2>3
    <3>2. t.order[m] = b.order[m]
      BY <1>1, <1>6, <1>7, <3>1 DEF From, Shifted
    <3> QED
      BY <1>10, <2>3, <3>1, <3>2
  <2> QED
    BY <2>2, <2>3
<1>12. maps \subseteq Ids(t) \cap MapOperation
  BY <1>1, <1>6, <1>8, <1>10
<1> HIDE DEF maps
<1>13. ASSUME d = r, \A m \in maps : t.order[m] = n
       PROVE  Good
  <2>1. d.rows = t /\ d.changed = C
    BY <1>13 DEF t, C
  <2>2. \A m \in Ids(t) \cap MapOperation : \A i \in Ids(t) \ {m} : t.order[i] <= t.order[m]
    BY <1>10, <1>11, <1>13
  <2>3. Sorted(t) /\ RanFirst(t) /\ Grown(b, t) /\ Agree(b, t)
    BY <1>1, <1>3, <1>6, <2>2, ShiftedIsGood
  <2> QED
    BY <1>3, <1>6, <1>8, <1>11, <2>1, <2>3
<1>14. CASE maps = {}
  BY <1>4, <1>13, <1>14
<1>15. CASE maps # {}
  <2> DEFINE m == CHOOSE i \in maps : TRUE
  <2>1. m \in maps /\ maps = {m}
    BY <1>4, <1>15
  <2>2. d = IF v[m] = Latest(v) THEN r
            ELSE [rows    |-> Move(t, m, v[m], Latest(v)),
                  changed |-> C \cup From(t, v[m]) \cup ({m} \cap Ids(t))]
    BY <1>4, <1>15
  <2> HIDE DEF m
  <2>3. /\ m \in Ids(t) /\ m \in MapOperation
        /\ Ids(t) \cap MapOperation = {m}
        /\ v[m] = t.order[m]
    BY <1>11, <1>12, <2>1
  <2>4. CASE t.order[m] = n
    <3>1. d = r
      BY <1>10, <2>2, <2>3, <2>4
    <3> QED
      BY <1>13, <2>1, <2>4, <3>1
  <2>5. CASE t.order[m] # n
    <3> DEFINE e == [i \in Ids(t) |-> IF i = m THEN n
                                      ELSE IF t.order[i] >= t.order[m] THEN t.order[i] - 1
                                      ELSE t.order[i]]
    <3>1. /\ d.rows = [t EXCEPT !.order = e]
          /\ d.changed = C \cup From(t, t.order[m]) \cup {m}
      BY <1>10, <2>2, <2>3, <2>5 DEF Move
    <3>2. e \in [Ids(t) -> Int] /\ DOMAIN e = Ids(t)
      BY <1>7, <1>10
    <3>3. /\ DOMAIN d.rows = {"order", "ran"}
          /\ d.rows.order = e /\ d.rows.ran = t.ran
      BY <1>3, <3>1 DEF IsTable
    <3>4. IsTable(d.rows) /\ Ids(d.rows) = Ids(t)
      BY <1>3, <3>2, <3>3 DEF IsTable, Ids
    <3>5. d.rows.order[m] = n
      BY <2>3, <3>3
    <3>6. \A i \in Ids(t) \ {m} :
            /\ t.order[i] >= t.order[m] => d.rows.order[i] = t.order[i] - 1
            /\ t.order[i] < t.order[m] => d.rows.order[i] = t.order[i]
      BY <1>7, <2>3, <3>3
    <3> HIDE DEF e
    <3>7. t.order[m] < n
      BY <1>7, <1>10, <2>3, <2>5
    <3>8. t.ran = {} \/ t.ran = b.ran
      BY <1>3
    <3>9. CASE m = o
      <4>1. AtTheEnd(b, d.rows, o)
        <5>1. \A i \in Ids(b) : d.rows.order[i] = b.order[i]
          BY <1>1, <1>6, <1>7, <3>6, <3>9 DEF Shifted
        <5>2. \A i \in Ids(b) : b.order[i] < n
          BY <1>1, <1>6, <1>7, <1>10, <3>7, <3>9 DEF Shifted
        <5> QED
          BY <2>3, <3>5, <3>9, <5>1, <5>2 DEF AtTheEnd
      <4>2. Ids(b) \cap MapOperation = {}
        BY <1>1, <1>6, <2>3, <3>9
      <4>3. d.rows.order[o] > 0
        BY <1>1, <1>6, <1>10, <3>5, <3>7, <3>9 DEF Shifted
      <4>4. Sorted(d.rows) /\ RanFirst(d.rows) /\ Grown(b, d.rows) /\ Agree(b, d.rows)
        BY <1>1, <1>6, <3>3, <3>4, <3>8, <4>1, <4>2, <4>3, AtTheEndIsGood
      <4> QED
        BY <1>6, <1>8, <2>3, <3>1, <3>4, <4>4 DEF From
    <3>10. CASE m # o
      <4>1. m \in Ids(b) /\ o \notin MapOperation
        BY <1>1, <1>6, <2>3, <3>10
      <4>2. \A i \in Ids(b) : b.order[i] <= b.order[m]
        BY <1>1, <1>7, <2>3, <4>1 DEF Sorted
      <4>3. b.order[m] < k
        <5>1. SUFFICES ASSUME b.order[m] >= k PROVE FALSE
          BY <1>1, <1>7, <4>1
        <5>2. \A i \in Ids(t) : t.order[i] <= t.order[m]
          BY <1>1, <1>6, <1>7, <4>1, <4>2, <5>1 DEF Shifted
        <5> QED
          BY <1>7, <1>8, <1>10, <2>3, <3>7, <5>2 DEF From
      <4>4. \A i \in Ids(b) : b.order[i] < k /\ t.order[i] = b.order[i]
        BY <1>1, <1>6, <1>7, <4>1, <4>2, <4>3 DEF Shifted
      <4>5. n = k
        <5>1. \A i \in From(t, k) : i = o
          BY <1>1, <1>6, <1>7, <1>8, <4>4 DEF From
        <5> QED
          BY <1>6, <1>10, <5>1 DEF Shifted
      <4>6. BeforeMap(b, d.rows, o, k)
        <5>1. d.rows.order[o] = k - 1
          BY <1>1, <1>6, <1>7, <3>6, <3>10, <4>1, <4>3, <4>4 DEF Shifted
        <5>2. \A i \in Ids(b) \ {m} : d.rows.order[i] = b.order[i]
          BY <1>1, <1>6, <1>7, <2>3, <3>6, <4>1, <4>2, <4>4 DEF Sorted
        <5> QED
          BY <2>3, <3>5, <4>1, <4>4, <4>5, <5>1, <5>2 DEF BeforeMap
      <4>7. Sorted(d.rows) /\ RanFirst(d.rows) /\ Grown(b, d.rows) /\ Agree(b, d.rows)
        BY <1>1, <1>6, <3>3, <3>4, <3>8, <4>1, <4>6, BeforeMapIsGood
      <4> QED
        BY <1>6, <1>8, <2>3, <3>1, <3>4, <4>7 DEF From
    <3> QED
      BY <3>9, <3>10
  <2> QED
    BY <2>4, <2>5
<1> QED
  BY <1>14, <1>15

------------------------------------------------------------------------------
Typed == TypeOK

Tables == Sorted(table) /\ RanFirst(table)

(* The request that holds the lock has only added, can see every MAP operation *)
(* where it is, and has added nothing that anybody else has read.              *)
Writing ==
  \A c \in lock :
    /\ Sorted(work) /\ RanFirst(work) /\ Grown(table, work) /\ Agree(table, work)
    /\ c \in snapped
    /\ \A m \in Ids(work) \cap MapOperation :
         m \in touched \/ (m \in Ids(snap[c]) /\ snap[c].order[m] = work.order[m])
    /\ \A d \in Client : Ids(work) \cap Ids(snap[d]) \subseteq Ids(table)

(* Since the snapshot of an adding request there have only been additions; one *)
(* that waits for the lock inserts behind everything it has seen.              *)
Reading ==
  \A c \in snapped :
    /\ phase[c] \in {"adding", "placed"}
    /\ Grown(snap[c], table)
    /\ c \notin lock => phase[c] = "placed" /\ place[c] = Latest(snap[c].order) + 1

(* A request has something to add as long as it has not inserted, and a place. *)
Progress ==
  \A c \in Client :
    /\ phase[c] \in {"adding", "placed"} /\ c \notin lock => batch[c] > 0
    /\ phase[c] = "placed" => batch[c] > 0
    /\ phase[c] \in {"placed", "deleteCommon", "deleteEntity"} => place[c] > 0

(* What anybody has read is in the order of the table and of what others read. *)
Snapshots ==
  \A c \in Client :
    /\ Sorted(snap[c]) /\ Agree(snap[c], table)
    /\ \A d \in Client : Agree(snap[c], snap[d])

IInv == Typed /\ Tables /\ Writing /\ Reading /\ Progress /\ Snapshots

LEMMA AgreeReflexive == \A t : Agree(t, t)
  BY DEF Agree

LEMMA AgreeTransitive ==
  ASSUME NEW s, NEW t, NEW u, Agree(s, t), Agree(t, u), Ids(s) \cap Ids(u) \subseteq Ids(t)
  PROVE  Agree(s, u)
  BY DEF Agree

LEMMA GrownReflexive ==
  ASSUME NEW t, IsTable(t)
  PROVE  Grown(t, t)
  BY DEF Grown, IsTable

LEMMA EmptyTableFacts ==
  /\ IsTable(EmptyTable) /\ Sorted(EmptyTable) /\ RanFirst(EmptyTable)
  /\ Ids(EmptyTable) = {}
  /\ \A t : Agree(EmptyTable, t) /\ Agree(t, EmptyTable)
<1>1. /\ DOMAIN EmptyTable = {"order", "ran"}
      /\ EmptyTable.order = [i \in {} |-> 0] /\ EmptyTable.ran = {}
  BY DEF EmptyTable
<1>2. Ids(EmptyTable) = {}
  BY <1>1 DEF Ids
<1>3. [i \in {} |-> 0] \in [{} -> Int]
  OBVIOUS
<1>4. IsTable(EmptyTable)
  BY <1>1, <1>2, <1>3 DEF IsTable
<1>5. Sorted(EmptyTable)
  BY <1>2, FS_EmptySet DEF Sorted
<1>6. RanFirst(EmptyTable) /\ \A t : Agree(EmptyTable, t) /\ Agree(t, EmptyTable)
  BY <1>2 DEF RanFirst, Agree
<1> QED
  BY <1>2, <1>4, <1>5, <1>6

(* A snapshot may be forgotten, kept or taken of the table. *)
LEMMA NewSnapshot ==
  ASSUME Typed, Tables, Snapshots, NEW c \in Client, NEW x,
         x = EmptyTable \/ x = snap[c] \/ x = table
  PROVE  /\ IsTable(x) /\ Sorted(x) /\ Agree(x, table) /\ Agree(x, x)
         /\ \A d \in Client : Agree(x, snap[d]) /\ Agree(snap[d], x)
<1>1. /\ IsTable(table) /\ Sorted(table)
      /\ \A d \in Client : IsTable(snap[d]) /\ Sorted(snap[d]) /\ Agree(snap[d], table)
      /\ \A d, e \in Client : Agree(snap[d], snap[e])
  BY DEF Typed, TypeOK, Tables, Snapshots
<1>2. CASE x = EmptyTable
  BY <1>2, EmptyTableFacts
<1>3. CASE x = snap[c]
  BY <1>1, <1>3, AgreeReflexive
<1>4. CASE x = table
  BY <1>1, <1>4, AgreeReflexive, AgreeSymmetric
<1> QED
  BY <1>2, <1>3, <1>4

(* The same, when the table may have changed too. *)
LEMMA SnapshotsStep ==
  ASSUME Typed, Tables, Snapshots, NEW c \in Client, NEW x,
         x = EmptyTable \/ x = snap[c] \/ x = table,
         snap' = [snap EXCEPT ![c] = x],
         Agree(x, table'), \A d \in Client \ {c} : Agree(snap[d], table')
  PROVE  /\ Snapshots'
         /\ DOMAIN snap' = Client /\ snap'[c] = x
         /\ \A d \in Client \ {c} : snap'[d] = snap[d]
         /\ \A d \in Client : IsTable(snap'[d])
<1>1. DOMAIN snap = Client /\ \A d \in Client : IsTable(snap[d])
  BY DEF Typed, TypeOK
<1>2. /\ DOMAIN snap' = Client /\ snap'[c] = x
      /\ \A d \in Client \ {c} : snap'[d] = snap[d]
  BY <1>1
<1>3. /\ IsTable(x) /\ Sorted(x) /\ Agree(x, x)
      /\ \A d \in Client : Agree(x, snap[d]) /\ Agree(snap[d], x)
  BY NewSnapshot
<1>4. Snapshots'
  <2>1. \A d \in Client : Sorted(snap'[d]) /\ Agree(snap'[d], table')
    BY <1>2, <1>3 DEF Snapshots
  <2>2. \A d, e \in Client : Agree(snap'[d], snap'[e])
    BY <1>2, <1>3 DEF Snapshots
  <2> QED
    BY <2>1, <2>2 DEF Snapshots
<1> QED
  BY <1>1, <1>2, <1>3, <1>4

LEMMA InitHolds == Init => IInv
<1> SUFFICES ASSUME Init PROVE IInv
  OBVIOUS
<1> USE DEF Init
<1>1. Typed
  BY EmptyTableFacts, ConstantsAssumption DEF Typed, TypeOK, Phases
<1>2. Tables /\ Snapshots
  BY EmptyTableFacts DEF Tables, Snapshots
<1>3. Writing /\ Reading /\ Progress
  BY DEF Writing, Reading, Progress
<1> QED
  BY <1>1, <1>2, <1>3 DEF IInv

(* An idle request holds no lock and has no snapshot. *)
LEMMA IdleFacts ==
  ASSUME IInv, NEW c \in Client, phase[c] \notin {"adding", "placed"}
  PROVE  c \notin lock /\ c \notin snapped
  BY DEF IInv, Typed, TypeOK, Reading

LEMMA BeginStep ==
  ASSUME IInv, NEW c \in Client, Begin(c)
  PROVE  IInv'
<1> USE DEF Begin, txVars
<1>1. c \notin lock /\ c \notin snapped
  BY IdleFacts
<1>2. /\ phase' = [phase EXCEPT ![c] = "adding"]
      /\ phase \in [Client -> Phases] /\ batch \in [Client -> 0..MaxBatch]
  BY DEF IInv, Typed, TypeOK
<1>3. PICK n \in 1..MaxBatch : batch' = [batch EXCEPT ![c] = n]
  OBVIOUS
<1>4. batch' \in [Client -> 0..MaxBatch]
  BY <1>2, <1>3, ConstantsAssumption
<1>5. phase' \in [Client -> Phases]
  BY <1>2 DEF Phases
<1>6. Typed'
  BY <1>4, <1>5, ConstantsAssumption DEF IInv, Typed, TypeOK, IsTable, Ids
<1>7. Tables' /\ Snapshots'
  BY DEF IInv, Tables, Snapshots
<1>8. Writing'
  BY DEF IInv, Writing
<1>9. Reading'
  BY <1>1, <1>2 DEF IInv, Reading
<1>10. Progress'
  BY <1>2, <1>3, ConstantsAssumption DEF IInv, Progress
<1> QED
  BY <1>6, <1>7, <1>8, <1>9, <1>10 DEF IInv

LEMMA GivenOrderStep ==
  ASSUME IInv, NEW c \in Client, GivenOrder(c)
  PROVE  IInv'
<1> USE DEF GivenOrder, txVars
<1>1. /\ phase' = [phase EXCEPT ![c] = "placed"]
      /\ phase \in [Client -> Phases] /\ place \in [Client -> Int]
  BY DEF IInv, Typed, TypeOK
<1>2. PICK k \in Orders : place' = [place EXCEPT ![c] = k]
  OBVIOUS
<1>3. k \in Int /\ k > 0
  BY ConstantsAssumption
<1>4. phase' \in [Client -> Phases] /\ place' \in [Client -> Int]
  BY <1>1, <1>2, <1>3 DEF Phases
<1>5. Typed'
  BY <1>1, <1>4 DEF IInv, Typed, TypeOK, IsTable, Ids
<1>6. Tables' /\ Snapshots'
  BY DEF IInv, Tables, Snapshots
<1>7. Writing'
  BY DEF IInv, Writing
<1>8. Reading'
  BY <1>1, <1>2 DEF IInv, Reading
<1>9. Progress'
  BY <1>1, <1>2, <1>3 DEF IInv, Progress
<1> QED
  BY <1>5, <1>6, <1>7, <1>8, <1>9 DEF IInv

(* What the transaction of c works with. *)
LEMMA TransactionFacts ==
  ASSUME IInv, NEW c \in Client
  PROVE  /\ Snapshot(c) = snap[c] \/ Snapshot(c) = table
         /\ IsTable(Base(c)) /\ Sorted(Base(c)) /\ RanFirst(Base(c))
         /\ IsTable(Snapshot(c)) /\ Sorted(Snapshot(c))
         /\ Changed(c) \subseteq Ids(Base(c))
         /\ Grown(Snapshot(c), table) /\ Grown(table, Base(c)) /\ Agree(table, Base(c))
         /\ c \in lock => c \in snapped
         /\ \A d \in Client : Ids(Base(c)) \cap Ids(snap[d]) \subseteq Ids(table) \/ c \notin lock
<1>1. IsTable(table) /\ IsTable(work) /\ touched \subseteq Ids(work)
  BY DEF IInv, Typed, TypeOK
<1>2. Grown(table, table) /\ Agree(table, table)
  BY <1>1, GrownReflexive, AgreeReflexive
<1>3. CASE c \in lock
  BY <1>1, <1>2, <1>3 DEF IInv, Writing, Reading, Snapshots, Base, Changed, Snapshot,
                          Typed, TypeOK
<1>4. CASE c \notin lock
  BY <1>1, <1>2, <1>4 DEF IInv, Reading, Snapshots, Tables, Base, Changed, Snapshot,
                          Typed, TypeOK
<1> QED
  BY <1>3, <1>4

LEMMA ReadLatestOrderStep ==
  ASSUME IInv, NEW c \in Client, ReadLatestOrder(c)
  PROVE  IInv'
<1> USE DEF ReadLatestOrder, txVars
<1> DEFINE s == Snapshot(c)
           b == Base(c)
           v == View(b, Changed(c), s)
<1>1. /\ phase' = [phase EXCEPT ![c] = "placed"]
      /\ phase \in [Client -> Phases] /\ place \in [Client -> Int]
      /\ snap' = [snap EXCEPT ![c] = s]
      /\ snapped' = snapped \cup {c}
      /\ place' = [place EXCEPT ![c] = Latest(v) + 1]
  BY DEF IInv, Typed, TypeOK
<1>2. /\ IsTable(b) /\ Sorted(b) /\ IsTable(s) /\ Sorted(s) /\ Changed(c) \subseteq Ids(b)
      /\ s = snap[c] \/ s = table
      /\ Grown(s, table)
  BY TransactionFacts
<1>3. \A d \in Client : Agree(snap[d], table)
  BY DEF IInv, Snapshots
<1>4. /\ Snapshots'
      /\ DOMAIN snap' = Client /\ snap'[c] = s
      /\ \A d \in Client \ {c} : snap'[d] = snap[d]
      /\ \A d \in Client : IsTable(snap'[d])
  <2>1. Agree(s, table)
    BY <1>2, <1>3, AgreeReflexive
  <2>2. Typed /\ Tables /\ Snapshots
    BY DEF IInv
  <2>3. Agree(s, table') /\ \A d \in Client \ {c} : Agree(snap[d], table')
    BY <1>3, <2>1
  <2>4. snap' = [snap EXCEPT ![c] = s] /\ (s = EmptyTable \/ s = snap[c] \/ s = table)
    BY <1>1, <1>2
  <2> HIDE DEF s, ReadLatestOrder
  <2> QED
    BY <2>2, <2>3, <2>4, SnapshotsStep
<1>5. Latest(v) \in Int /\ Latest(v) >= 0
  <2>1. v = [i \in Changed(c) \cup Ids(s) |-> IF i \in Changed(c) THEN b.order[i] ELSE s.order[i]]
    BY DEF View
  <2>2. /\ \A i \in Ids(b) : b.order[i] \in Int /\ b.order[i] > 0
        /\ \A i \in Ids(s) : s.order[i] \in Int /\ s.order[i] > 0
    BY <1>2 DEF IsTable, Sorted
  <2>3. IsFiniteSet(Changed(c) \cup Ids(s))
    BY <1>2, FS_Subset, FS_Union DEF Sorted
  <2> HIDE DEF s, b
  <2>4. v \in [Changed(c) \cup Ids(s) -> Int]
    BY <1>2, <2>1, <2>2
  <2>5. \A i \in Changed(c) \cup Ids(s) : v[i] > 0
    BY <1>2, <2>1, <2>2
  <2> HIDE DEF v
  <2> QED
    BY <2>3, <2>4, <2>5, LatestIsGreatest
<1>6. c \notin lock => v = s.order
  <2> SUFFICES ASSUME c \notin lock PROVE v = s.order
    OBVIOUS
  <2>1. Changed(c) = {}
    BY DEF Changed
  <2>2. s.order \in [Ids(s) -> Int]
    BY <1>2 DEF IsTable
  <2> HIDE DEF s, b
  <2>3. v = [i \in Ids(s) |-> s.order[i]]
    BY <2>1 DEF View
  <2> QED
    BY <2>2, <2>3
<1> HIDE DEF v, s, b
<1>7. phase' \in [Client -> Phases] /\ place' \in [Client -> Int]
  BY <1>1, <1>5 DEF Phases
<1>8. snapped' \subseteq Client
  BY <1>1 DEF IInv, Typed, TypeOK
<1>9. Typed'
  BY <1>1, <1>4, <1>7, <1>8 DEF IInv, Typed, TypeOK, IsTable, Ids
<1>10. Tables'
  BY DEF IInv, Tables
<1>11. Writing'
  <2> SUFFICES ASSUME NEW d \in lock
               PROVE  /\ Sorted(work) /\ RanFirst(work) /\ Grown(table, work)
                      /\ Agree(table, work)
                      /\ d \in snapped'
                      /\ \A m \in Ids(work) \cap MapOperation :
                           \/ m \in touched
                           \/ m \in Ids(snap'[d]) /\ snap'[d].order[m] = work.order[m]
                      /\ \A e \in Client : Ids(work) \cap Ids(snap'[e]) \subseteq Ids(table)
    BY DEF Writing
  <2>1. d \in snapped /\ d \in Client
    BY DEF IInv, Writing, Typed, TypeOK
  <2>2. snap'[d] = snap[d]
    BY <1>4, <2>1 DEF s, Snapshot
  <2>3. \A e \in Client : Ids(work) \cap Ids(snap'[e]) \subseteq Ids(table)
    BY <1>2, <1>4 DEF IInv, Writing
  <2> QED
    BY <1>1, <2>1, <2>2, <2>3 DEF IInv, Writing
<1>12. Reading'
  <2> SUFFICES ASSUME NEW d \in snapped'
               PROVE  /\ phase'[d] \in {"adding", "placed"}
                      /\ Grown(snap'[d], table)
                      /\ d \notin lock => /\ phase'[d] = "placed"
                                          /\ place'[d] = Latest(snap'[d].order) + 1
    BY DEF Reading
  <2>1. CASE d = c
    BY <1>1, <1>2, <1>4, <1>6, <2>1
  <2>2. CASE d # c
    <3>1. d \in snapped /\ d \in Client
      BY <1>1, <1>8, <2>2
    <3> QED
      BY <1>1, <1>4, <2>2, <3>1 DEF IInv, Reading
  <2> QED
    BY <2>1, <2>2
<1>13. Progress'
  BY <1>1, <1>5 DEF IInv, Progress
<1> QED
  BY <1>4, <1>9, <1>10, <1>11, <1>12, <1>13 DEF IInv

LEMMA ReadyWhenPlaced ==
  ASSUME IInv, NEW c \in Client, phase[c] = "placed"
  PROVE  Ready(Base(c), Changed(c), Snapshot(c), place[c])
<1>1. PICK b, s, changed, k :
        b = Base(c) /\ s = Snapshot(c) /\ changed = Changed(c) /\ k = place[c]
  OBVIOUS
<1>2. /\ IsTable(b) /\ Sorted(b) /\ RanFirst(b)
      /\ IsTable(s) /\ Sorted(s)
      /\ changed \subseteq Ids(b)
      /\ Grown(s, table) /\ Grown(table, b)
      /\ IsTable(table) /\ Sorted(table)
  BY <1>1, TransactionFacts DEF IInv, Typed, TypeOK, Tables
<1>3. Grown(s, b)
  BY <1>2, GrownTransitive
<1>4. Ids(s) \subseteq Ids(b) /\ \A i \in Ids(s) : s.order[i] <= b.order[i]
  BY <1>3 DEF Grown
<1>5. k \in Nat \ {0}
  BY <1>1 DEF IInv, Typed, TypeOK, Progress
<1>6. ASSUME NEW m \in Ids(b) \cap MapOperation
      PROVE  m \in changed \cup From(b, k) \/ (m \in Ids(s) /\ s.order[m] = b.order[m])
  <2>1. CASE c \in lock
    BY <1>1, <1>6, <2>1 DEF IInv, Writing, Base, Changed, Snapshot
  <2>2. CASE c \notin lock /\ c \notin snapped
    BY <1>1, <1>6, <2>2 DEF Base, Snapshot
  <2>3. CASE c \notin lock /\ c \in snapped
    <3>1. b = table /\ k = Latest(s.order) + 1
      BY <1>1, <2>3 DEF IInv, Reading, Base, Snapshot
    <3>2. CASE table.order = s.order
      BY <1>6, <3>1, <3>2 DEF Ids
    <3>3. CASE \E i \in Ids(table) : \A j \in Ids(s) : s.order[j] < table.order[i]
      <4>1. PICK i \in Ids(b) : \A j \in Ids(s) : s.order[j] < b.order[i]
        BY <3>1, <3>3
      <4>2. \A j \in Ids(b) : b.order[j] \in Int /\ b.order[j] > 0
        BY <1>2 DEF IsTable, Sorted
      <4>3. b.order[i] <= b.order[m]
        BY <1>2, <1>6, <4>2 DEF Sorted
      <4>4. s.order \in [Ids(s) -> Int] /\ IsFiniteSet(Ids(s))
        BY <1>2 DEF IsTable, Sorted
      <4>5. /\ Latest(s.order) \in Int
            /\ Ids(s) = {} => Latest(s.order) = 0
            /\ Ids(s) # {} => \E j \in Ids(s) : Latest(s.order) = s.order[j]
        BY <4>4, LatestIsGreatest
      <4>6. b.order[m] > Latest(s.order)
        <5>1. CASE Ids(s) = {}
          BY <1>6, <4>2, <4>5, <5>1
        <5>2. CASE Ids(s) # {}
          <6>1. PICK j \in Ids(s) : Latest(s.order) = s.order[j]
            BY <4>5, <5>2
          <6>2. s.order[j] < b.order[i]
            BY <4>1
          <6> QED
            BY <1>6, <4>2, <4>3, <4>5, <6>1, <6>2
        <5> QED
          BY <5>1, <5>2
      <4> QED
        BY <1>6, <3>1, <4>2, <4>5, <4>6 DEF From
    <3> QED
      BY <1>2, <3>2, <3>3 DEF Grown
  <2> QED
    BY <2>1, <2>2, <2>3
<1> QED
  BY <1>1, <1>2, <1>4, <1>5, <1>6 DEF Ready

LEMMA InsertStep ==
  ASSUME IInv, NEW c \in Client, Insert(c)
  PROVE  IInv'
<1>1. /\ phase[c] = "placed" /\ lock \subseteq {c}
      /\ lock' = {c} /\ snapped' = snapped \cup {c}
      /\ phase' = [phase EXCEPT ![c] = "adding"]
      /\ batch' = [batch EXCEPT ![c] = @ - 1]
      /\ table' = table /\ place' = place /\ chosen' = chosen /\ requests' = requests
  BY DEF Insert
<1>2. PICK o \in Operation \ (Ids(table) \cup Ids(work)) :
        /\ \A d \in Client : o \notin Ids(snap[d])
        /\ OneMap(c, o)
        /\ work' = MapLast(c, Saved(c, o)).rows
        /\ touched' = MapLast(c, Saved(c, o)).changed
  BY DEF Insert, OneMap
<1>3. PICK b, s : b = Base(c) /\ s = Snapshot(c)
  OBVIOUS
<1>4. snap' = [snap EXCEPT ![c] = s]
  BY <1>3 DEF Insert
<1>5. o \in Operation \ Ids(Base(c))
  BY <1>2 DEF Base
<1>6. /\ IsTable(work') /\ Ids(work') = Ids(b) \cup {o}
      /\ Sorted(work') /\ RanFirst(work')
      /\ Grown(b, work') /\ Agree(b, work')
      /\ touched' \subseteq Ids(work')
      /\ \A m \in Ids(work') \cap MapOperation :
           m \in touched' \/ (m \in Ids(s) /\ s.order[m] = work'.order[m])
  <2>1. Ready(Base(c), Changed(c), Snapshot(c), place[c])
    BY <1>1, ReadyWhenPlaced
  <2> QED
    BY <1>2, <1>3, <1>5, <2>1, InsertFacts
<1>7. /\ s = snap[c] \/ s = table
      /\ IsTable(b) /\ Grown(s, table) /\ Grown(table, b) /\ Agree(table, b)
      /\ \A d \in Client : Ids(b) \cap Ids(snap[d]) \subseteq Ids(table)
  BY <1>3, TransactionFacts DEF Base
<1>8. /\ IsTable(table) /\ IsTable(work)
      /\ phase \in [Client -> Phases] /\ batch \in [Client -> 0..MaxBatch]
      /\ snapped \subseteq Client
  BY DEF IInv, Typed, TypeOK
<1>9. /\ Snapshots'
      /\ DOMAIN snap' = Client /\ snap'[c] = s
      /\ \A d \in Client \ {c} : snap'[d] = snap[d]
      /\ \A d \in Client : IsTable(snap'[d])
  <2>1. Typed /\ Tables /\ Snapshots
    BY DEF IInv
  <2>2. \A d \in Client : Agree(snap[d], table')
    BY <1>1 DEF IInv, Snapshots
  <2>3. Agree(s, table')
    BY <1>1, <1>7, <2>2, AgreeReflexive
  <2> QED
    BY <1>4, <1>7, <2>1, <2>2, <2>3, SnapshotsStep
<1>10. batch[c] > 0
  BY <1>1 DEF IInv, Progress
<1>11. phase' \in [Client -> Phases] /\ batch' \in [Client -> 0..MaxBatch]
  <2>1. batch[c] \in 0..MaxBatch
    BY <1>8
  <2>2. batch[c] - 1 \in 0..MaxBatch
    BY <1>10, <2>1, ConstantsAssumption
  <2> QED
    BY <1>1, <1>8, <2>2 DEF Phases
<1>12. Typed'
  <2>1. lock' \in SUBSET Client /\ (\A d, e \in lock' : d = e)
    BY <1>1
  <2>2. \A d \in lock' : phase'[d] \in {"adding", "placed"}
    BY <1>1, <1>8
  <2>3. snapped' \subseteq Client
    BY <1>1, <1>8
  <2>4. /\ place' \in [Client -> Int] /\ chosen' \in [Client -> SUBSET Operation]
        /\ requests' \in 0..MaxRequests
    BY <1>1 DEF IInv, Typed, TypeOK
  <2>5. IsTable(table')
    BY <1>1, <1>8
  <2> QED
    BY <1>6, <1>9, <1>11, <2>1, <2>2, <2>3, <2>4, <2>5 DEF Typed, TypeOK, IsTable, Ids
<1>13. Tables'
  BY <1>1 DEF IInv, Tables
<1>14. Writing'
  <2>1. Grown(table, work')
    BY <1>6, <1>7, <1>8, GrownTransitive
  <2>2. Agree(table, work')
    <3>1. Ids(table) \subseteq Ids(b)
      BY <1>7 DEF Grown
    <3> QED
      BY <1>6, <1>7, <3>1, AgreeTransitive
  <2>3. \A d \in Client : Ids(work') \cap Ids(snap'[d]) \subseteq Ids(table)
    <3>1. TAKE d \in Client
    <3>2. snap'[d] = snap[d] \/ snap'[d] = table
      BY <1>7, <1>9
    <3> QED
      BY <1>2, <1>6, <1>7, <3>2
  <2> QED
    BY <1>1, <1>6, <1>9, <2>1, <2>2, <2>3 DEF Writing
<1>15. Reading'
  <2> SUFFICES ASSUME NEW d \in snapped'
               PROVE  /\ phase'[d] \in {"adding", "placed"}
                      /\ Grown(snap'[d], table')
                      /\ d \notin lock' => /\ phase'[d] = "placed"
                                           /\ place'[d] = Latest(snap'[d].order) + 1
    BY DEF Reading
  <2>1. CASE d = c
    BY <1>1, <1>7, <1>8, <1>9, <2>1
  <2>2. CASE d # c
    <3>1. d \in snapped /\ d \in Client /\ d \notin lock
      BY <1>1, <1>8, <2>2
    <3> QED
      BY <1>1, <1>8, <1>9, <2>2, <3>1 DEF IInv, Reading
  <2> QED
    BY <2>1, <2>2
<1>16. Progress'
  BY <1>1, <1>8 DEF IInv, Progress
<1> QED
  BY <1>9, <1>12, <1>13, <1>14, <1>15, <1>16 DEF IInv

LEMMA DeleteReadStep ==
  ASSUME IInv, NEW c \in Client, DeleteRead(c)
  PROVE  IInv'
<1>1. c \notin lock /\ c \notin snapped
  BY IdleFacts DEF DeleteRead
<1>2. PICK o \in Ids(table), p \in {"deleteCommon", "deleteEntity"} :
        /\ chosen' = [chosen EXCEPT ![c] = {o}]
        /\ place' = [place EXCEPT ![c] = table.order[o]]
        /\ phase' = [phase EXCEPT ![c] = p]
  BY DEF DeleteRead
<1>3. /\ requests < MaxRequests /\ requests' = requests + 1
      /\ snap' = [snap EXCEPT ![c] = table]
      /\ table' = table /\ lock' = lock /\ work' = work /\ touched' = touched
      /\ batch' = batch /\ snapped' = snapped
  BY DEF DeleteRead, txVars
<1>4. /\ phase \in [Client -> Phases] /\ place \in [Client -> Int]
      /\ chosen \in [Client -> SUBSET Operation] /\ requests \in 0..MaxRequests
      /\ IsTable(table) /\ IsTable(work)
  BY DEF IInv, Typed, TypeOK
<1>5. table.order[o] \in Int /\ table.order[o] > 0 /\ o \in Operation
  BY <1>4 DEF IInv, Tables, Sorted, IsTable
<1>6. /\ Snapshots'
      /\ DOMAIN snap' = Client /\ snap'[c] = table
      /\ \A d \in Client \ {c} : snap'[d] = snap[d]
      /\ \A d \in Client : IsTable(snap'[d])
  <2>1. Typed /\ Tables /\ Snapshots
    BY DEF IInv
  <2>2. \A d \in Client : Agree(snap[d], table')
    BY <1>3 DEF IInv, Snapshots
  <2>3. Agree(table, table')
    BY <1>3, AgreeReflexive
  <2> QED
    BY <1>3, <2>1, <2>2, <2>3, SnapshotsStep
<1>7. Typed'
  <2>1. phase' \in [Client -> Phases] /\ place' \in [Client -> Int]
    BY <1>2, <1>4, <1>5 DEF Phases
  <2>2. chosen' \in [Client -> SUBSET Operation]
    <3>1. {o} \in SUBSET Operation
      BY <1>5
    <3> QED
      BY <1>2, <1>4, <3>1
  <2>3. requests' \in 0..MaxRequests
    BY <1>3, <1>4, ConstantsAssumption
  <2>4. \A d \in lock' : phase'[d] \in {"adding", "placed"}
    BY <1>1, <1>2, <1>3, <1>4 DEF IInv, Typed, TypeOK
  <2>5. IsTable(table') /\ IsTable(work')
    BY <1>3, <1>4
  <2> QED
    BY <1>3, <1>6, <2>1, <2>2, <2>3, <2>4, <2>5 DEF IInv, Typed, TypeOK, IsTable, Ids
<1>8. Tables'
  BY <1>3 DEF IInv, Tables
<1>9. Writing'
  <2>1. \A d \in lock : snap'[d] = snap[d]
    BY <1>1, <1>6 DEF IInv, Typed, TypeOK
  <2>2. lock # {} => \A e \in Client : Ids(work) \cap Ids(snap'[e]) \subseteq Ids(table)
    BY <1>6 DEF IInv, Writing
  <2> QED
    BY <1>3, <2>1, <2>2 DEF IInv, Writing
<1>10. Reading'
  <2>1. \A d \in snapped : d # c /\ d \in Client
    BY <1>1 DEF IInv, Typed, TypeOK
  <2> QED
    BY <1>2, <1>3, <1>4, <1>6, <2>1 DEF IInv, Reading
<1>11. Progress'
  BY <1>2, <1>3, <1>4, <1>5 DEF IInv, Progress
<1> QED
  BY <1>6, <1>7, <1>8, <1>9, <1>10, <1>11 DEF IInv

(* A request ends and may have given the table rows that are sorted and in the *)
(* order of what others have read.                                             *)
LEMMA EndStep ==
  ASSUME IInv, NEW c \in Client, End(c), lock' = lock \ {c},
         lock' # {} => table' = table /\ work' = work /\ touched' = touched,
         IsTable(work'), touched' \subseteq Ids(work'),
         IsTable(table'), Sorted(table'), RanFirst(table'),
         \A d \in Client \ {c} : Agree(snap[d], table'),
         \A d \in snapped \ {c} : Grown(snap[d], table')
  PROVE  IInv'
<1>1. /\ phase' = [phase EXCEPT ![c] = "idle"]
      /\ batch' = [batch EXCEPT ![c] = 0]
      /\ place' = [place EXCEPT ![c] = 0]
      /\ chosen' = [chosen EXCEPT ![c] = {}]
      /\ snapped' = snapped \ {c}
      /\ snap' = [snap EXCEPT ![c] = EmptyTable]
      /\ requests' = requests
  BY DEF End
<1>2. /\ phase \in [Client -> Phases] /\ batch \in [Client -> 0..MaxBatch]
      /\ place \in [Client -> Int] /\ chosen \in [Client -> SUBSET Operation]
      /\ snapped \subseteq Client /\ lock \subseteq Client
      /\ \A d, e \in lock : d = e
  BY DEF IInv, Typed, TypeOK
<1>3. /\ Snapshots'
      /\ DOMAIN snap' = Client /\ snap'[c] = EmptyTable
      /\ \A d \in Client \ {c} : snap'[d] = snap[d]
      /\ \A d \in Client : IsTable(snap'[d])
  <2>1. Typed /\ Tables /\ Snapshots
    BY DEF IInv
  <2>2. Agree(EmptyTable, table')
    BY EmptyTableFacts
  <2> QED
    BY <1>1, <2>1, <2>2, SnapshotsStep
<1>4. Typed'
  <2>1. phase' \in [Client -> Phases] /\ place' \in [Client -> Int]
    BY <1>1, <1>2 DEF Phases
  <2>2. chosen' \in [Client -> SUBSET Operation]
    BY <1>1, <1>2
  <2>3. batch' \in [Client -> 0..MaxBatch]
    BY <1>1, <1>2, ConstantsAssumption
  <2>4. requests' \in 0..MaxRequests
    BY <1>1 DEF IInv, Typed, TypeOK
  <2>5. /\ lock' \in SUBSET Client /\ (\A d, e \in lock' : d = e)
        /\ \A d \in lock' : phase'[d] \in {"adding", "placed"}
        /\ snapped' \subseteq Client
    BY <1>1, <1>2 DEF IInv, Typed, TypeOK
  <2> QED
    BY <1>3, <2>1, <2>2, <2>3, <2>4, <2>5 DEF Typed, TypeOK, IsTable, Ids
<1>5. Tables'
  BY DEF Tables
<1>6. Writing'
  <2>1. CASE lock' = {}
    BY <2>1 DEF Writing
  <2>2. CASE lock' # {}
    <3>1. table' = table /\ work' = work /\ touched' = touched
      BY <2>2
    <3>2. \A d \in lock' : d \in lock /\ d \in Client /\ d # c
      BY <1>2
    <3>3. \A e \in Client : Ids(work) \cap Ids(snap'[e]) \subseteq Ids(table)
      BY <1>3, <2>2, <3>2, EmptyTableFacts DEF IInv, Writing
    <3> QED
      BY <1>1, <1>3, <3>1, <3>2, <3>3 DEF IInv, Writing
  <2> QED
    BY <2>1, <2>2
<1>7. Reading'
  <2>1. \A d \in snapped' : d \in snapped /\ d \in Client /\ d # c
    BY <1>1, <1>2
  <2> QED
    BY <1>1, <1>2, <1>3, <2>1 DEF IInv, Reading
<1>8. Progress'
  BY <1>1, <1>2 DEF IInv, Progress
<1> QED
  BY <1>3, <1>4, <1>5, <1>6, <1>7, <1>8 DEF IInv

LEMMA CommitStep ==
  ASSUME IInv, NEW c \in Client, Commit(c)
  PROVE  IInv' /\ Agree(table, table')
<1>1. /\ phase[c] = "adding" /\ batch[c] = 0
      /\ table' = work /\ Release(c) /\ End(c)
  BY DEF Commit
<1>2. c \in lock /\ lock = {c}
  <2>1. c \in lock
    BY <1>1 DEF IInv, Progress
  <2> QED
    BY <2>1 DEF IInv, Typed, TypeOK
<1>3. /\ Sorted(work) /\ RanFirst(work) /\ Grown(table, work) /\ Agree(table, work)
      /\ \A d \in Client : Ids(work) \cap Ids(snap[d]) \subseteq Ids(table)
  BY <1>2 DEF IInv, Writing
<1>4. lock' = {} /\ lock' = lock \ {c} /\ work' = EmptyTable /\ touched' = {}
  BY <1>1, <1>2 DEF Release
<1>5. \A d \in Client : Agree(snap[d], work)
  <2>1. TAKE d \in Client
  <2>2. Agree(snap[d], table)
    BY DEF IInv, Snapshots
  <2>3. Ids(snap[d]) \cap Ids(work) \subseteq Ids(table)
    BY <1>3
  <2> QED
    BY <1>3, <2>2, <2>3, AgreeTransitive
<1>6. \A d \in snapped : Grown(snap[d], work)
  <2>1. TAKE d \in snapped
  <2>2. Grown(snap[d], table)
    BY DEF IInv, Reading
  <2>3. IsTable(snap[d]) /\ IsTable(table) /\ IsTable(work)
    BY DEF IInv, Typed, TypeOK
  <2> QED
    BY <1>3, <2>2, <2>3, GrownTransitive
<1>7. IsTable(work) /\ IsTable(EmptyTable)
  BY EmptyTableFacts DEF IInv, Typed, TypeOK
<1>8. IInv'
  BY <1>1, <1>3, <1>4, <1>5, <1>6, <1>7, EndStep
<1> QED
  BY <1>1, <1>3, <1>8

LEMMA RollbackStep ==
  ASSUME IInv, NEW c \in Client, Rollback(c)
  PROVE  IInv'
<1>1. table' = table /\ Release(c) /\ End(c)
  BY DEF Rollback
<1>2. /\ IsTable(table) /\ IsTable(work) /\ touched \subseteq Ids(work)
      /\ \A d, e \in lock : d = e
  BY DEF IInv, Typed, TypeOK
<1>3. /\ lock' = lock \ {c}
      /\ lock' # {} => work' = work /\ touched' = touched
      /\ IsTable(work') /\ touched' \subseteq Ids(work')
  BY <1>1, <1>2, EmptyTableFacts DEF Release
<1>4. Sorted(table) /\ RanFirst(table)
  BY DEF IInv, Tables
<1>5. /\ \A d \in Client : Agree(snap[d], table)
      /\ \A d \in snapped : Grown(snap[d], table)
  BY DEF IInv, Snapshots, Reading
<1> QED
  BY <1>1, <1>2, <1>3, <1>4, <1>5, EndStep

(* decOrdersForAllowlistSinceOrder after a delete *)
LEMMA RemovedIsGood ==
  ASSUME NEW t, IsTable(t), Sorted(t), NEW k \in Int, k > 0
  PROVE  /\ IsTable(Removed(t, k)) /\ Sorted(Removed(t, k))
         /\ Ids(Removed(t, k)) \subseteq Ids(t)
         /\ Agree(t, Removed(t, k))
         /\ RanFirst(t) => RanFirst(Removed(t, k))
<1> DEFINE kept == {i \in Ids(t) : t.order[i] # k}
           f == [i \in kept |-> IF t.order[i] >= k THEN t.order[i] - 1 ELSE t.order[i]]
<1>1. PICK u : u = Removed(t, k)
  OBVIOUS
<1>2. u = [order |-> f, ran |-> t.ran \cap kept]
  BY <1>1 DEF Removed
<1>3. /\ DOMAIN u = {"order", "ran"} /\ u.order = f /\ u.ran = t.ran \cap kept
  BY <1>2
<1>4. /\ \A i \in Ids(t) : t.order[i] \in Int /\ t.order[i] > 0
      /\ Ids(t) \subseteq Operation /\ IsFiniteSet(Ids(t))
  BY DEF IsTable, Sorted
<1>5. f \in [kept -> Int] /\ DOMAIN f = kept
  BY <1>4
<1>6. Ids(u) = kept
  BY <1>3, <1>5 DEF Ids
<1>7. \A i \in kept : /\ i \in Ids(t) /\ t.order[i] # k
                      /\ t.order[i] >= k => u.order[i] = t.order[i] - 1
                      /\ t.order[i] < k => u.order[i] = t.order[i]
  BY <1>3, <1>4
<1>8. IsTable(u)
  BY <1>3, <1>4, <1>5, <1>6 DEF IsTable
<1> HIDE DEF f, kept
<1>9. \A i, j \in kept : t.order[i] < t.order[j] <=> u.order[i] < u.order[j]
  BY <1>4, <1>7
<1>10. kept \subseteq Ids(t)
  BY <1>7
<1>11. Sorted(u)
  <2>1. IsFiniteSet(kept)
    BY <1>4, <1>10, FS_Subset
  <2>2. \A i \in kept : u.order[i] > 0
    BY <1>4, <1>7
  <2>3. \A i, j \in kept : u.order[i] = u.order[j] => i = j
    <3>1. TAKE i, j \in kept
    <3>2. u.order[i] = u.order[j] => t.order[i] = t.order[j]
      BY <1>4, <1>7
    <3> QED
      BY <1>7, <3>2 DEF Sorted
  <2>4. \A m \in kept \cap MapOperation : \A i \in kept \ {m} : u.order[i] < u.order[m]
    BY <1>9, <1>10 DEF Sorted
  <2> QED
    BY <1>6, <2>1, <2>2, <2>3, <2>4 DEF Sorted
<1>12. Agree(t, u)
  BY <1>6, <1>9 DEF Agree
<1>13. RanFirst(t) => RanFirst(u)
  BY <1>3, <1>6, <1>7, <1>9 DEF RanFirst
<1> QED
  BY <1>1, <1>6, <1>8, <1>10, <1>11, <1>12, <1>13

(* Clearing has_ran leaves the order alone. *)
LEMMA NoneRan ==
  ASSUME NEW t, IsTable(t), NEW all \in SUBSET Ids(t), all = {} \/ all = Ids(t)
  PROVE  /\ IsTable([t EXCEPT !.ran = all])
         /\ Ids([t EXCEPT !.ran = all]) = Ids(t)
         /\ [t EXCEPT !.ran = all].order = t.order
         /\ RanFirst([t EXCEPT !.ran = all])
         /\ Sorted(t) => Sorted([t EXCEPT !.ran = all])
<1>1. PICK u : u = [t EXCEPT !.ran = all]
  OBVIOUS
<1>2. /\ DOMAIN u = {"order", "ran"} /\ u.order = t.order /\ u.ran = all
  BY <1>1 DEF IsTable
<1>3. Ids(u) = Ids(t)
  BY <1>2 DEF Ids
<1>4. IsTable(u)
  BY <1>2, <1>3 DEF IsTable
<1>5. RanFirst(u)
  BY <1>2, <1>3 DEF RanFirst
<1>6. Sorted(t) => Sorted(u)
  BY <1>2, <1>3 DEF Sorted
<1> QED
  BY <1>1, <1>2, <1>3, <1>4, <1>5, <1>6

LEMMA DeleteCommonStep ==
  ASSUME IInv, ~StaleDeletes, NEW c \in Client, DeleteCommon(c)
  PROVE  IInv' /\ Agree(table, table')
<1>1. /\ phase[c] = "deleteCommon" /\ lock = {} /\ snapped = {}
      /\ lock' = lock /\ work' = work /\ touched' = touched
      /\ End(c)
  BY DEF DeleteCommon, NoStaleReader, txVars
<1>2. PICK t : t = Removed(table, place[c])
  OBVIOUS
<1>3. table' = t \/ table' = [t EXCEPT !.ran = {}]
  BY <1>2 DEF DeleteCommon
<1>4. IsTable(table) /\ Sorted(table) /\ RanFirst(table)
  BY DEF IInv, Typed, TypeOK, Tables
<1>5. place[c] \in Int /\ place[c] > 0
  BY <1>1 DEF IInv, Typed, TypeOK, Progress
<1>6. /\ IsTable(t) /\ Sorted(t) /\ RanFirst(t)
      /\ Ids(t) \subseteq Ids(table) /\ Agree(table, t)
  BY <1>2, <1>4, <1>5, RemovedIsGood
<1>7. /\ IsTable(table') /\ Sorted(table') /\ RanFirst(table')
      /\ Ids(table') = Ids(t) /\ table'.order = t.order
  <2>1. CASE table' = t
    BY <1>6, <2>1
  <2>2. CASE table' = [t EXCEPT !.ran = {}]
    BY <1>6, <2>2, NoneRan
  <2> QED
    BY <1>3, <2>1, <2>2
<1>8. Agree(table, table')
  BY <1>6, <1>7 DEF Agree
<1>9. \A d \in Client : Agree(snap[d], table')
  <2>1. TAKE d \in Client
  <2>2. Agree(snap[d], table)
    BY DEF IInv, Snapshots
  <2>3. Ids(snap[d]) \cap Ids(table') \subseteq Ids(table)
    BY <1>6, <1>7
  <2> QED
    BY <1>8, <2>2, <2>3, AgreeTransitive
<1>10. IsTable(work') /\ touched' \subseteq Ids(work')
  BY <1>1 DEF IInv, Typed, TypeOK
<1>11. IInv'
  BY <1>1, <1>7, <1>9, <1>10, EndStep
<1> QED
  BY <1>8, <1>11

LEMMA DeleteEntityStep ==
  ASSUME IInv, ~StaleDeletes, NEW c \in Client, DeleteEntity(c)
  PROVE  IInv' /\ Agree(table, table')
<1>1. /\ lock = {} /\ snapped = {}
      /\ lock' = lock /\ work' = work /\ touched' = touched
      /\ End(c)
  BY DEF DeleteEntity, NoStaleReader, txVars
<1>0. PICK kept \in SUBSET (Ids(snap[c]) \ chosen[c]) :
        \E n \in [kept -> 1..Cardinality(kept)] :
          /\ \A i, j \in kept : i # j =>
               /\ n[i] # n[j]
               /\ snap[c].order[i] < snap[c].order[j] => n[i] < n[j]
          /\ table' = [order |-> n, ran |-> {}]
  BY DEF DeleteEntity
<1>2. PICK n \in [kept -> 1..Cardinality(kept)] :
        /\ \A i, j \in kept : i # j =>
             /\ n[i] # n[j]
             /\ snap[c].order[i] < snap[c].order[j] => n[i] < n[j]
        /\ table' = [order |-> n, ran |-> {}]
  BY <1>0
<1>3. /\ IsTable(snap[c]) /\ Sorted(snap[c]) /\ IsTable(table) /\ Sorted(table)
      /\ Agree(table, snap[c])
      /\ \A d \in Client : Agree(snap[d], snap[c])
  BY AgreeSymmetric DEF IInv, Typed, TypeOK, Tables, Snapshots
<1>4. kept \subseteq Ids(snap[c]) /\ kept \subseteq Operation /\ IsFiniteSet(kept)
  BY <1>3, FS_Subset DEF IsTable, Sorted
<1>5. Cardinality(kept) \in Nat
  BY <1>4, FS_CardinalityType
<1>6. \A i \in kept : n[i] \in Int /\ n[i] > 0
  BY <1>2, <1>5
<1>7. /\ DOMAIN table' = {"order", "ran"} /\ table'.order = n /\ table'.ran = {}
      /\ Ids(table') = kept
  BY <1>2 DEF Ids
<1>8. IsTable(table')
  <2>1. n \in [kept -> Int]
    BY <1>2, <1>6
  <2> QED
    BY <1>4, <1>7, <2>1 DEF IsTable
<1>9. Sorted(table')
  <2>1. \A i, j \in kept : n[i] = n[j] => i = j
    BY <1>2
  <2>2. \A m \in kept \cap MapOperation : \A i \in kept \ {m} : n[i] < n[m]
    BY <1>2, <1>3, <1>4 DEF Sorted
  <2> QED
    BY <1>4, <1>6, <1>7, <2>1, <2>2 DEF Sorted
<1>10. RanFirst(table')
  BY <1>7 DEF RanFirst
<1>11. Agree(snap[c], table')
  <2> SUFFICES ASSUME NEW i \in kept \ MapOperation, NEW j \in kept \ MapOperation,
                      snap[c].order[i] < snap[c].order[j]
               PROVE  n[i] < n[j]
    BY <1>7 DEF Agree
  <2>1. snap[c].order[i] \in Int /\ snap[c].order[j] \in Int
    BY <1>3, <1>4 DEF IsTable
  <2>2. i # j
    BY <2>1
  <2> QED
    BY <1>2, <2>2
<1>12. Agree(table, table') /\ \A d \in Client : Agree(snap[d], table')
  BY <1>3, <1>4, <1>7, <1>11, AgreeTransitive
<1>13. IsTable(work') /\ touched' \subseteq Ids(work')
  BY <1>1 DEF IInv, Typed, TypeOK
<1>14. IInv'
  BY <1>1, <1>8, <1>9, <1>10, <1>12, <1>13, EndStep
<1> QED
  BY <1>12, <1>14

LEMMA RunMarksStep ==
  ASSUME IInv, RunMarks
  PROVE  IInv' /\ Agree(table, table')
<1>1. PICK all \in {{}, Ids(table)} : table' = [table EXCEPT !.ran = all]
  BY DEF RunMarks
<1>2. /\ lock = {} /\ lock' = lock /\ work' = work /\ touched' = touched
      /\ phase' = phase /\ batch' = batch /\ place' = place /\ chosen' = chosen
      /\ snapped' = snapped /\ snap' = snap /\ requests' = requests
  BY DEF RunMarks, txVars
<1>3. IsTable(table) /\ Sorted(table)
  BY DEF IInv, Typed, TypeOK, Tables
<1>4. /\ IsTable(table') /\ Sorted(table') /\ RanFirst(table')
      /\ Ids(table') = Ids(table) /\ table'.order = table.order
  <2>1. all \in SUBSET Ids(table) /\ (all = {} \/ all = Ids(table))
    BY <1>1
  <2> QED
    BY <1>1, <1>3, <2>1, NoneRan
<1>5. Typed'
  BY <1>2, <1>4 DEF IInv, Typed, TypeOK, IsTable, Ids
<1>6. Tables'
  BY <1>4 DEF Tables
<1>7. Writing'
  BY <1>2 DEF Writing
<1>8. Reading'
  BY <1>2, <1>4 DEF IInv, Reading, Grown
<1>9. Progress'
  BY <1>2 DEF IInv, Progress
<1>10. Snapshots'
  BY <1>2, <1>4 DEF IInv, Snapshots, Agree
<1>11. Agree(table, table')
  BY <1>4 DEF Agree
<1> QED
  BY <1>5, <1>6, <1>7, <1>8, <1>9, <1>10, <1>11 DEF IInv

------------------------------------------------------------------------------
(* No step gives up the invariant, and none reorders the operations. *)
LEMMA NextStep ==
  ASSUME ~StaleDeletes, IInv, [Next]_vars
  PROVE  IInv' /\ Agree(table, table')
<1>1. CASE UNCHANGED vars
  <2>1. IInv'
    BY <1>1 DEF vars, txVars, IInv, Typed, TypeOK, Tables, Writing, Reading, Progress,
                Snapshots, IsTable, Ids
  <2> QED
    BY <1>1, <2>1, AgreeReflexive DEF vars
<1>2. CASE RunMarks
  BY <1>2, RunMarksStep
<1>3. ASSUME NEW c \in Client, ClientStep(c)
      PROVE  IInv' /\ Agree(table, table')
  <2>1. CASE Begin(c)
    BY <2>1, BeginStep, AgreeReflexive DEF Begin
  <2>2. CASE GivenOrder(c)
    BY <2>2, GivenOrderStep, AgreeReflexive DEF GivenOrder
  <2>3. CASE ReadLatestOrder(c)
    BY <2>3, ReadLatestOrderStep, AgreeReflexive DEF ReadLatestOrder
  <2>4. CASE Insert(c)
    BY <2>4, InsertStep, AgreeReflexive DEF Insert
  <2>5. CASE Commit(c)
    BY <2>5, CommitStep
  <2>6. CASE Rollback(c)
    BY <2>6, RollbackStep, AgreeReflexive DEF Rollback
  <2>7. CASE DeleteRead(c)
    BY <2>7, DeleteReadStep, AgreeReflexive DEF DeleteRead
  <2>8. CASE DeleteCommon(c)
    BY <2>8, DeleteCommonStep
  <2>9. CASE DeleteEntity(c)
    BY <2>9, DeleteEntityStep
  <2> QED
    BY <1>3, <2>1, <2>2, <2>3, <2>4, <2>5, <2>6, <2>7, <2>8, <2>9 DEF ClientStep
<1> QED
  BY <1>1, <1>2, <1>3 DEF Next

LEMMA Inductive ==
  ASSUME ~StaleDeletes
  PROVE  Spec => []IInv
<1>1. IInv /\ [Next]_vars => IInv'
  BY NextStep
<1> QED
  BY <1>1, InitHolds, PTL DEF Spec

(* The rows are rows of operations, a lock belongs to a transaction in progress *)
(* and only its own rows are changed (addBatch).                                *)
THEOREM TypeCorrect ==
  ASSUME ~StaleDeletes
  PROVE  Spec => []TypeOK
<1>1. IInv => TypeOK
  BY DEF IInv, Typed
<1> QED
  BY <1>1, Inductive, PTL

(* No two operations share an order: concurrent batches, which compute orders *)
(* from their snapshots, and deletes leave one operation for each order       *)
(* (incOrdersForAllowlistSinceOrder, decOrdersForAllowlistSinceOrder).        *)
THEOREM DistinctOrders ==
  ASSUME ~StaleDeletes
  PROVE  Spec => []OrdersDistinct
<1>1. IInv => OrdersDistinct
  BY DEF IInv, Tables, Sorted, OrdersDistinct
<1> QED
  BY <1>1, Inductive, PTL

(* There is at most one MAP_RESULTS_TO_DELEGATED_WALLETS and it is the last    *)
(* (ensureLatestOperationIsMapToDelegatedWallets).                             *)
THEOREM MapStaysLast ==
  ASSUME ~StaleDeletes
  PROVE  Spec => []MapIsLast
<1>1. IInv => MapIsLast
  BY DEF IInv, Tables, Sorted, MapIsLast
<1> QED
  BY <1>1, Inductive, PTL

(* What has ran is not behind what has not, the MAP operation apart (addBatch, *)
(* deleteCommonOperation).                                                     *)
THEOREM RanStaysFirst ==
  ASSUME ~StaleDeletes
  PROVE  Spec => []RanIsPrefix
<1>1. IInv => RanIsPrefix
  BY DEF IInv, Tables, RanFirst, RanIsPrefix
<1> QED
  BY <1>1, Inductive, PTL

(* No request changes the order in which two operations run, MAP apart         *)
(* (deleteEntityOperation, addBatch).                                          *)
THEOREM OrderIsKept ==
  ASSUME ~StaleDeletes
  PROVE  Spec => RelativeOrderKept
<1> DEFINE Kept == \A i, j \in (Ids(table) \cap Ids(table')) \ MapOperation :
                     table.order[i] < table.order[j] => table'.order[i] < table'.order[j]
<1>1. IInv /\ [Next]_vars => Kept
  BY NextStep DEF Agree
<1>2. Spec => [][Kept]_vars
  BY <1>1, Inductive, PTL DEF Spec
<1> QED
  BY <1>2 DEF RelativeOrderKept
==============================================================================
