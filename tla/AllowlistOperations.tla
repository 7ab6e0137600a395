------------------------- MODULE AllowlistOperations -------------------------
(***************************************************************************)
(* The operations of one allowlist: the rows of allowlist_operation with   *)
(* their op_order and has_ran, under concurrent requests that add batches  *)
(* of operations and delete operations.                                    *)
(*                                                                         *)
(* The transactions run at MySQL's default isolation, REPEATABLE READ. A   *)
(* SELECT reads the snapshot that the first SELECT of the transaction      *)
(* took, overlaid with the rows the transaction itself has changed. An     *)
(* UPDATE or DELETE reads what is committed, and locks the rows of the     *)
(* allowlist (the index on allowlist_id, gaps included) until the end: the *)
(* lock serialises the writers, and only what an adding request reads      *)
(* before its first UPDATE can be out of date.                             *)
(***************************************************************************)
EXTENDS Integers, FiniteSets

CONSTANTS
  Client,        \* API requests that can be in progress at a time
  Operation,     \* ids of operations
  MapOperation,  \* those of code MAP_RESULTS_TO_DELEGATED_WALLETS
  Orders,        \* orders that requests ask for
  MaxBatch,      \* operations in a batch
  MaxRequests,   \* bound on the requests of a behaviour
  StaleDeletes   \* may a delete come between a first SELECT and its lock?

ASSUME ConstantsAssumption ==
  /\ MapOperation \subseteq Operation
  /\ Orders \subseteq Nat \ {0}
  /\ MaxBatch \in Nat /\ MaxRequests \in Nat
  /\ StaleDeletes \in BOOLEAN

VARIABLES
  table,     \* the committed rows
  lock,      \* the request that holds the row locks, if any: {} or {c}
  work,      \* the rows as that request sees and changes them
  touched,   \* the rows it has changed
  phase,     \* where each request is
  batch,     \* operations each request has still to add
  place,     \* op_order each request inserts at, or deletes
  chosen,    \* operation each delete request has found at that order
  snapped,   \* requests whose transaction has its snapshot
  snap,      \* that snapshot, or what a delete request has read
  requests   \* requests made so far

txVars == <<lock, work, touched>>
vars == <<table, lock, work, touched, phase, batch, place, chosen, snapped,
          snap, requests>>

Ids(t) == DOMAIN t.order
EmptyTable == [order |-> [i \in {} |-> 0], ran |-> {}]
IsTable(t) ==
  /\ DOMAIN t = {"order", "ran"}
  /\ Ids(t) \subseteq Operation
  /\ t.order \in [Ids(t) -> Int]
  /\ t.ran \subseteq Ids(t)

Phases == {"idle", "adding", "placed", "deleteCommon", "deleteEntity"}

\* Type invariant; locks belong to a transaction in progress (addBatch).
TypeOK ==
  /\ IsTable(table) /\ IsTable(work)
  /\ lock \in SUBSET Client /\ \A c, d \in lock : c = d
  /\ \A c \in lock : phase[c] \in {"adding", "placed"}
  /\ touched \subseteq Ids(work)
  /\ phase \in [Client -> Phases]
  /\ batch \in [Client -> 0..MaxBatch]
  /\ place \in [Client -> Int]
  /\ chosen \in [Client -> SUBSET Operation]
  /\ snapped \subseteq Client
  /\ DOMAIN snap = Client /\ \A c \in Client : IsTable(snap[c])
  /\ requests \in 0..MaxRequests

Init ==
  /\ table = EmptyTable
  /\ lock = {} /\ work = EmptyTable /\ touched = {}
  /\ phase = [c \in Client |-> "idle"]
  /\ batch = [c \in Client |-> 0]
  /\ place = [c \in Client |-> 0]
  /\ chosen = [c \in Client |-> {}]
  /\ snapped = {}
  /\ snap = [c \in Client |-> EmptyTable]
  /\ requests = 0

------------------------------------------------------------------------------
(* Statements of AllowlistOperationRepository *)

From(t, k) == {i \in Ids(t) : t.order[i] >= k}

\* The op_order column as a SELECT of a transaction sees it.
View(t, changed, s) ==
  [i \in changed \cup Ids(s) |-> IF i \in changed THEN t.order[i] ELSE s.order[i]]

\* getLatestOrderForAllowlist: select max(op_order), or 0
Latest(order) ==
  IF DOMAIN order = {} THEN 0
  ELSE CHOOSE n \in {order[i] : i \in DOMAIN order} :
         \A i \in DOMAIN order : order[i] <= n

\* Mutant: "op_order > ?" instead of ">=".
PutAfter(t, o, k) ==
  [order |-> [i \in Ids(t) \cup {o} |->
                IF i = o THEN k
                ELSE IF t.order[i] > k THEN t.order[i] + 1 ELSE t.order[i]],
   ran   |-> t.ran]

\* incOrdersForAllowlistSinceOrder, then save
Put(t, o, k) ==
  [order |-> [i \in Ids(t) \cup {o} |->
                IF i = o THEN k
                ELSE IF t.order[i] >= k THEN t.order[i] + 1 ELSE t.order[i]],
   ran   |-> t.ran]

\* decOrdersForAllowlistSinceOrder k, then setOperationOrder of m to n
Move(t, m, k, n) ==
  [t EXCEPT !.order =
     [i \in Ids(t) |-> IF i = m THEN n
                       ELSE IF t.order[i] >= k THEN t.order[i] - 1
                       ELSE t.order[i]]]

\* Mutant: the operation before the deleted one moves too.
RemovedShiftsBefore(t, k) ==
  LET kept == {i \in Ids(t) : t.order[i] # k} IN
    [order |-> [i \in kept |-> IF t.order[i] >= k - 1 THEN t.order[i] - 1
                                                      ELSE t.order[i]],
     ran   |-> t.ran \cap kept]

\* delete by order, then decOrdersForAllowlistSinceOrder
Removed(t, k) ==
  LET kept == {i \in Ids(t) : t.order[i] # k} IN
    [order |-> [i \in kept |-> IF t.order[i] >= k THEN t.order[i] - 1
                                                  ELSE t.order[i]],
     ran   |-> t.ran \cap kept]

------------------------------------------------------------------------------
(* addBatch *)

\* What the transaction of c starts from, has changed, and reads from.
Base(c)     == IF c \in lock THEN work ELSE table
Changed(c)  == IF c \in lock THEN touched ELSE {}
Snapshot(c) == IF c \in snapped THEN snap[c] ELSE table

Begin(c) ==
  /\ phase[c] = "idle" /\ requests < MaxRequests
  /\ requests' = requests + 1
  /\ phase' = [phase EXCEPT ![c] = "adding"]
  /\ \E n \in 1..MaxBatch : batch' = [batch EXCEPT ![c] = n]
  /\ UNCHANGED <<table, txVars, place, chosen, snapped, snap>>

GivenOrder(c) ==
  /\ phase[c] = "adding" /\ batch[c] > 0
  /\ \E k \in Orders : place' = [place EXCEPT ![c] = k]
  /\ phase' = [phase EXCEPT ![c] = "placed"]
  /\ UNCHANGED <<table, txVars, batch, chosen, snapped, snap, requests>>

\* The first SELECT of a transaction takes its snapshot.
ReadLatestOrder(c) ==
  /\ phase[c] = "adding" /\ batch[c] > 0
  /\ place' = [place EXCEPT
       ![c] = Latest(View(Base(c), Changed(c), Snapshot(c))) + 1]
  /\ snapped' = snapped \cup {c}
  /\ snap' = [snap EXCEPT ![c] = Snapshot(c)]
  /\ phase' = [phase EXCEPT ![c] = "placed"]
  /\ UNCHANGED <<table, txVars, batch, chosen, requests>>

\* Mutant: has_ran of the operations behind the new one is left alone.
SavedKeepsRan(c, o) ==
  LET t == Put(Base(c), o, place[c])
  IN  [rows    |-> t,
       changed |-> Changed(c) \cup From(Base(c), place[c]) \cup {o}]

\* The rows after the operation is saved, and has_ran cleared everywhere if
\* an operation from its order on has ran; and the rows changed by then.
Saved(c, o) ==
  LET k == place[c]
      t == Put(Base(c), o, k)
      changed == Changed(c) \cup From(Base(c), k) \cup {o}
      v == View(t, changed, Snapshot(c))
      ranLater == \E i \in DOMAIN v :
                    /\ v[i] >= k
                    /\ i \in IF i \in changed THEN t.ran ELSE Snapshot(c).ran
  IN  [rows    |-> IF ranLater THEN [t EXCEPT !.ran = {}] ELSE t,
       changed |-> IF ranLater THEN changed \cup t.ran ELSE changed]

\* Mutant: the MAP operation stays where it is.
MapStays(c, s) == [rows |-> s.rows, changed |-> s.changed]

\* ensureLatestOperationIsMapToDelegatedWallets, with one such operation or
\* none: everything behind it moves down and it takes the latest order.
MapLast(c, s) ==
  LET v == View(s.rows, s.changed, Snapshot(c))
      maps == DOMAIN v \cap MapOperation
  IN  IF maps = {} THEN s
      ELSE LET m == CHOOSE i \in maps : TRUE IN
           IF v[m] = Latest(v) THEN s
           ELSE [rows    |-> Move(s.rows, m, v[m], Latest(v)),
                 changed |-> s.changed \cup From(s.rows, v[m])
                               \cup ({m} \cap Ids(s.rows))]

\* The operations of code MAP that ensureLatest... finds.
MapsFound(c, s) == DOMAIN View(s.rows, s.changed, Snapshot(c)) \cap MapOperation

Insert(c) ==
  /\ phase[c] = "placed" /\ lock \subseteq {c}
  /\ \E o \in Operation \ (Ids(table) \cup Ids(work)) :
       /\ \A d \in Client : o \notin Ids(snap[d])
       /\ LET s == Saved(c, o)
              done == MapLast(c, s) IN
            /\ \A i, j \in MapsFound(c, s) : i = j
            /\ work' = done.rows
            /\ touched' = done.changed
  /\ lock' = {c}
  /\ snapped' = snapped \cup {c}
  /\ snap' = [snap EXCEPT ![c] = Snapshot(c)]
  /\ phase' = [phase EXCEPT ![c] = "adding"]
  /\ batch' = [batch EXCEPT ![c] = @ - 1]
  /\ UNCHANGED <<table, place, chosen, requests>>

\* The request is over and its snapshot is gone.
End(c) ==
  /\ phase' = [phase EXCEPT ![c] = "idle"]
  /\ batch' = [batch EXCEPT ![c] = 0]
  /\ place' = [place EXCEPT ![c] = 0]
  /\ chosen' = [chosen EXCEPT ![c] = {}]
  /\ snapped' = snapped \ {c}
  /\ snap' = [snap EXCEPT ![c] = EmptyTable]
  /\ UNCHANGED requests

Release(c) ==
  /\ lock' = lock \ {c}
  /\ work' = IF c \in lock THEN EmptyTable ELSE work
  /\ touched' = IF c \in lock THEN {} ELSE touched

Commit(c) ==
  /\ phase[c] = "adding" /\ batch[c] = 0
  /\ table' = work
  /\ Release(c)
  /\ End(c)

\* "more than one operation of code", an invalid operation, a deadlock, or a
\* failure of the database, SNS or the lambda.
Rollback(c) ==
  /\ phase[c] # "idle"
  /\ Release(c)
  /\ End(c)
  /\ UNCHANGED table

------------------------------------------------------------------------------
(* delete *)

\* The list is read, and the operation with the order found in it.
DeleteRead(c) ==
  /\ phase[c] = "idle" /\ requests < MaxRequests
  /\ requests' = requests + 1
  /\ \E o \in Ids(table) :
       /\ chosen' = [chosen EXCEPT ![c] = {o}]
       /\ place' = [place EXCEPT ![c] = table.order[o]]
       /\ \E p \in IF o \in MapOperation THEN {"deleteCommon"}
                   ELSE {"deleteCommon", "deleteEntity"} :
            phase' = [phase EXCEPT ![c] = p]
  /\ snap' = [snap EXCEPT ![c] = table]
  /\ UNCHANGED <<table, txVars, batch, snapped>>

\* No adding request is between its first SELECT and its first UPDATE.
NoStaleReader == StaleDeletes \/ snapped = {}

\* The operation is deleted by its order, on a transaction of its own.
DeleteCommon(c) ==
  /\ phase[c] = "deleteCommon" /\ lock = {} /\ NoStaleReader
  /\ LET t == Removed(table, place[c]) IN
       table' = IF From(t, place[c]) \cap t.ran # {}
                  THEN [t EXCEPT !.ran = {}] ELSE t
  /\ End(c)
  /\ UNCHANGED txVars

\* All rows are deleted; those of the list read before that do not depend on
\* the entity are written again, numbered from 1 in their order.
DeleteEntity(c) ==
  /\ phase[c] = "deleteEntity" /\ lock = {} /\ NoStaleReader
  /\ \E kept \in SUBSET (Ids(snap[c]) \ chosen[c]) :
       \E n \in [kept -> 1..Cardinality(kept)] :
         /\ \A i, j \in kept : i # j =>
              /\ n[i] # n[j]
              /\ snap[c].order[i] < snap[c].order[j] => n[i] < n[j]
         /\ table' = [order |-> n, ran |-> {}]
  /\ End(c)
  /\ UNCHANGED txVars

------------------------------------------------------------------------------
(* The runner's setAllAsNotRan and setAllAsRan, see AllowlistRun *)
RunMarks ==
  /\ lock = {}
  /\ \E all \in {{}, Ids(table)} : table' = [table EXCEPT !.ran = all]
  /\ UNCHANGED <<txVars, phase, batch, place, chosen, snapped, snap, requests>>

ClientStep(c) ==
  \/ Begin(c) \/ GivenOrder(c) \/ ReadLatestOrder(c) \/ Insert(c)
  \/ Commit(c) \/ Rollback(c)
  \/ DeleteRead(c) \/ DeleteCommon(c) \/ DeleteEntity(c)

Next == RunMarks \/ \E c \in Client : ClientStep(c)

Spec == Init /\ [][Next]_vars

------------------------------------------------------------------------------
(* Safety *)

\* No two operations share an order, so that "delete operation 3" names one
\* (incOrdersForAllowlistSinceOrder, decOrdersForAllowlistSinceOrder).
OrdersDistinct ==
  \A i, j \in Ids(table) : table.order[i] = table.order[j] => i = j

\* There is at most one MAP_RESULTS_TO_DELEGATED_WALLETS and it is the last
\* (ensureLatestOperationIsMapToDelegatedWallets).
MapIsLast ==
  \A m \in Ids(table) \cap MapOperation :
    \A i \in Ids(table) \ {m} : table.order[i] < table.order[m]

\* An operation that has ran is not behind one that has not: adding or
\* deleting in the middle makes all of them run again. The MAP operation,
\* which others are slipped in front of, is the exception.
RanIsPrefix ==
  \A i, j \in Ids(table) \ MapOperation :
    table.order[i] < table.order[j] /\ j \in table.ran => i \in table.ran

(* Action properties *)

\* No request changes the order in which two operations run, MAP apart: the
\* increments and decrements shift whole tails, and deleteEntityOperation
\* numbers what is left in the order it had.
RelativeOrderKept ==
  [][\A i, j \in (Ids(table) \cap Ids(table')) \ MapOperation :
       table.order[i] < table.order[j] => table'.order[i] < table'.order[j]]_vars

\* A delete only deletes: what another request has deleted since this one
\* read the list does not come back (deleteEntityOperation).
DeletedStaysDeleted ==
  [][\A c \in Client : DeleteEntity(c) => Ids(table') \subseteq Ids(table)]_vars

==============================================================================
