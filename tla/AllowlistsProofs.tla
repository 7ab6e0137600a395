--------------------------- MODULE AllowlistsProofs ---------------------------
(***************************************************************************)
(* Proofs about Allowlists for any number of requests, wallets, lists and  *)
(* connections.                                                            *)
(***************************************************************************)
EXTENDS Allowlists, FiniteSetTheorems, TLAPS

OwnerPhases == {"find", "drop", "batch", "validate", "write"}

(* Who sent a request, and which list it is about. *)
Addressed ==
  \A r \in Request :
    /\ phase[r] # "idle" => wallet[r] \in Wallet
    /\ phase[r] \in OwnerPhases \cup {"access", "saveUser"} => target[r] \in List

(* A list has at most one row of users, before it is there and after it is gone. *)
OneRow == \A u, v \in users : u.list = v.list => u = v

Listed == \A l \in lists : \E u \in users : u.list = l

(* Lists that are being created are new. *)
New ==
  \A r \in Request : phase[r] = "saveUser" =>
    /\ \A u \in users : u.list # target[r]
    /\ \A q \in Request \ {r} : phase[q] = "saveUser" => target[q] # target[r]

(* Whoever has been let through is an owner, and remains it. *)
Checked == \A r \in Request : phase[r] \in OwnerPhases => Owns(r)

Typed == TypeOK /\ Addressed

(* The inductive invariant. *)
IInv == Typed /\ ConnectionsAreReturned /\ OneRow /\ Listed /\ New /\ Checked
-------------------------------------------------------------------------------
(* What the steps of a request may do to its own fields. *)
LEMMA AnswerType ==
  ASSUME Typed, NEW r \in Request, Answer(r)
  PROVE  /\ phase' \in [Request -> Phases]
         /\ wallet' \in [Request -> Wallet \cup {None}]
         /\ target' \in [Request -> List \cup {None}]
         /\ stamp' \in [Request -> 0..MaxTime]
         /\ Addressed'
<1>1. 0 \in 0..MaxTime
  BY ConstantsAssumption
<1>2. /\ phase' \in [Request -> Phases]
      /\ wallet' \in [Request -> Wallet \cup {None}]
      /\ target' \in [Request -> List \cup {None}]
      /\ stamp' \in [Request -> 0..MaxTime]
  BY <1>1 DEF Answer, Goto, Typed, TypeOK, Phases
<1>3. ASSUME NEW q \in Request, q # r
      PROVE  phase'[q] = phase[q] /\ wallet'[q] = wallet[q] /\ target'[q] = target[q]
  BY <1>3 DEF Answer, Goto, Typed, TypeOK
<1>4. phase'[r] = "idle"
  BY DEF Answer, Goto, Typed, TypeOK
<1>5. Addressed'
  BY <1>3, <1>4 DEF Typed, Addressed, OwnerPhases
<1> QED
  BY <1>2, <1>5

LEMMA ContinueType ==
  ASSUME Typed, NEW r \in Request, NEW p \in Phases, Continue(r, p),
         phase[r] # "idle",
         p \in OwnerPhases => phase[r] \in OwnerPhases \cup {"access"},
         p \notin {"access", "saveUser"}
  PROVE  /\ phase' \in [Request -> Phases]
         /\ UNCHANGED <<wallet, target, stamp>>
         /\ Addressed'
<1>1. phase' \in [Request -> Phases] /\ UNCHANGED <<wallet, target, stamp>>
  BY DEF Continue, Goto, Typed, TypeOK
<1>2. \A q \in Request : phase'[q] = IF q = r THEN p ELSE phase[q]
  BY DEF Continue, Goto, Typed, TypeOK
<1>3. Addressed'
  BY <1>1, <1>2 DEF Typed, Addressed, OwnerPhases
<1> QED
  BY <1>1, <1>3

(* A connection is taken when there is a free one, and given back. *)
LEMMA HeldType ==
  ASSUME Typed, NEW r \in Request,
         \/ held' = held \/ held' = held \ {r}
         \/ held' = held \cup {r} /\ Free
  PROVE  held' \subseteq Request /\ Cardinality(held') <= PoolSize
<1>1. held \in SUBSET Request /\ IsFiniteSet(held) /\ Cardinality(held) \in Nat
  BY ConstantsAssumption, FS_Subset, FS_CardinalityType DEF Typed, TypeOK
<1>2. Cardinality(held) <= PoolSize /\ PoolSize \in Nat
  BY ConstantsAssumption DEF Typed, TypeOK
<1>3. CASE held' = held
  BY <1>1, <1>2, <1>3
<1>4. CASE held' = held \ {r}
  <2>1. Cardinality(held') <= Cardinality(held) /\ Cardinality(held') \in Nat
    BY <1>1, <1>4, FS_Subset, FS_CardinalityType
  <2> QED
    BY <1>1, <1>2, <1>4, <2>1
<1>5. CASE held' = held \cup {r} /\ Free
  <2>1. Cardinality(held') \in {Cardinality(held), Cardinality(held) + 1}
    BY <1>1, <1>5, FS_AddElement
  <2> QED
    BY <1>1, <1>2, <1>5, <2>1 DEF Free
<1> QED
  BY <1>3, <1>4, <1>5

(* Every step keeps the variables typed. *)
LEMMA TypeStep == Typed /\ [Next]_vars => Typed'
<1> SUFFICES ASSUME Typed, [Next]_vars PROVE Typed'
  OBVIOUS
<1> USE DEF Phases, Acquiring, Transacting
<1>1. ASSUME NEW r \in Request, Answer(r), UNCHANGED <<tdh, clock>>,
             lists' \subseteq List, users' \subseteq User,
             held' \in {held, held \ {r}}
      PROVE  Typed'
  BY <1>1, AnswerType, HeldType DEF Typed, TypeOK
<1>2. ASSUME NEW r \in Request, NEW p \in Phases, Continue(r, p), phase[r] # "idle",
             p \in OwnerPhases => phase[r] \in OwnerPhases \cup {"access"},
             p \notin {"access", "saveUser"},
             UNCHANGED <<tdh, clock, lists, users>>,
             held' = held \/ (held' = held \cup {r} /\ Free)
      PROVE  Typed'
  BY <1>2, ContinueType, HeldType DEF Typed, TypeOK
<1>3. ASSUME NEW r \in Request, Create(r) PROVE Typed'
  <2>1. TypeOK'
    BY <1>3 DEF Create, Goto, Typed, TypeOK
  <2>2. Addressed'
    BY <1>3 DEF Create, Goto, Typed, TypeOK, Addressed, OwnerPhases
  <2> QED
    BY <2>1, <2>2 DEF Typed
<1>4. ASSUME NEW r \in Request, About(r) PROVE Typed'
  <2>1. PICK w \in Wallet, l \in {u.list : u \in users} :
          /\ wallet' = [wallet EXCEPT ![r] = w]
          /\ target' = [target EXCEPT ![r] = l]
    BY <1>4 DEF About
  <2>2. l \in List
    BY <2>1 DEF Typed, TypeOK, User
  <2>3. TypeOK'
    BY <1>4, <2>1, <2>2 DEF About, Goto, Typed, TypeOK
  <2>4. Addressed'
    BY <1>4, <2>1, <2>2 DEF About, Goto, Typed, TypeOK, Addressed, OwnerPhases
  <2> QED
    BY <2>3, <2>4 DEF Typed
<1>5. ASSUME NEW r \in Request, MetricsArrive(r) PROVE Typed'
  BY <1>1, <1>2, <1>5 DEF MetricsArrive, OwnerPhases, Typed, TypeOK
<1>6. ASSUME NEW r \in Request, CanWalletCreateAllowlist(r) PROVE Typed'
  BY <1>1, <1>2, <1>6
     DEF CanWalletCreateAllowlist, Query, OwnerPhases, Typed, TypeOK
<1>7. ASSUME NEW r \in Request, BeginCreate(r) PROVE Typed'
  <2>1. held' \subseteq Request /\ Cardinality(held') <= PoolSize
    BY <1>7, HeldType DEF BeginCreate, Query
  <2>2. TypeOK'
    BY <1>7, <2>1 DEF BeginCreate, Query, Goto, Typed, TypeOK
  <2>3. Addressed'
    BY <1>7 DEF BeginCreate, Query, Goto, Typed, TypeOK, Addressed, OwnerPhases
  <2> QED
    BY <2>2, <2>3 DEF Typed
<1>8. ASSUME NEW r \in Request, SaveList(r) PROVE Typed'
  <2>1. PICK l \in 1..MaxLists[tdh[wallet[r]]] : target' = [target EXCEPT ![r] = l]
    BY <1>8 DEF SaveList
  <2>2. l \in List
    <3>1. wallet[r] \in Wallet
      BY <1>8 DEF SaveList, Typed, Addressed
    <3>2. MaxLists[tdh[wallet[r]]] \in List \cup {0} /\ MaxLists["some"] \in Nat
      BY <3>1, ConstantsAssumption DEF Typed, TypeOK, Amounts, List
    <3> QED
      BY <2>1, <3>2 DEF List
  <2>3. TypeOK'
    BY <1>8, <2>1, <2>2 DEF SaveList, Goto, Typed, TypeOK
  <2>4. Addressed'
    BY <1>8, <2>1, <2>2 DEF SaveList, Goto, Typed, TypeOK, Addressed, OwnerPhases
  <2> QED
    BY <2>3, <2>4 DEF Typed
<1>9. ASSUME NEW r \in Request, SaveUser(r) PROVE Typed'
  <2>1. target[r] \in List /\ wallet[r] \in Wallet /\ stamp[r] \in 0..MaxTime
    BY <1>9 DEF SaveUser, Typed, TypeOK, Addressed
  <2>2. lists' \subseteq List /\ users' \subseteq User
    BY <1>9, <2>1 DEF SaveUser, Typed, TypeOK, User
  <2> QED
    BY <1>1, <1>9, <2>2 DEF SaveUser
<1>10. ASSUME NEW r \in Request, Intercept(r) PROVE Typed'
  BY <1>1, <1>2, <1>10 DEF Intercept, Query, OwnerPhases, Typed, TypeOK
<1>11. ASSUME NEW r \in Request, Find(r) PROVE Typed'
  BY <1>1, <1>2, <1>11 DEF Find, Query, OwnerPhases, Typed, TypeOK
<1>12. ASSUME NEW r \in Request, Drop(r) PROVE Typed'
  BY <1>1, <1>12 DEF Drop, Typed, TypeOK
<1>13. ASSUME NEW r \in Request, BeginBatch(r) PROVE Typed'
  BY <1>2, <1>13 DEF BeginBatch, Query, OwnerPhases, Typed, TypeOK
<1>14. ASSUME NEW r \in Request, ValidateAllowlistState(r) PROVE Typed'
  BY <1>1, <1>2, <1>14
     DEF ValidateAllowlistState, Query, OwnerPhases, Typed, TypeOK
<1>15. ASSUME NEW r \in Request, CommitBatch(r) PROVE Typed'
  BY <1>1, <1>15 DEF CommitBatch, Typed, TypeOK
<1>16. ASSUME NEW r \in Request, StepFails(r) \/ AcquireTimeout(r) PROVE Typed'
  BY <1>1, <1>16 DEF StepFails, AcquireTimeout, GiveUp, Typed, TypeOK
<1>17. CASE Tick \/ UNCHANGED vars
  <2>1. clock' \in 0..MaxTime
    BY <1>17, ConstantsAssumption DEF Tick, vars, Typed, TypeOK
  <2> QED
    BY <1>17, <2>1 DEF Tick, vars, Typed, TypeOK, Addressed
<1> QED
  BY <1>3, <1>4, <1>5, <1>6, <1>7, <1>8, <1>9, <1>10, <1>11, <1>12, <1>13, <1>14,
     <1>15, <1>16, <1>17 DEF Next, Advance
-------------------------------------------------------------------------------
(* Transactions are the steps between getting a connection and giving it back. *)
LEMMA HeldStep ==
  Typed /\ ConnectionsAreReturned /\ [Next]_vars => ConnectionsAreReturned'
<1> SUFFICES ASSUME Typed, ConnectionsAreReturned, [Next]_vars
             PROVE  ConnectionsAreReturned'
  OBVIOUS
<1> USE DEF ConnectionsAreReturned, Transacting, Typed, TypeOK, Goto
<1>1. ASSUME NEW r \in Request, NEW p \in Phases, phase' = [phase EXCEPT ![r] = p],
             \/ held' = held \cup {r} /\ p \in Transacting
             \/ held' = held \ {r} /\ p \notin Transacting
             \/ held' = held /\ (p \in Transacting <=> phase[r] \in Transacting)
      PROVE  ConnectionsAreReturned'
  BY <1>1
<1> USE DEF Phases, Acquiring
<1>2. ASSUME NEW r \in Request, Create(r) \/ About(r) \/ MetricsArrive(r)
      PROVE  ConnectionsAreReturned'
  BY <1>1, <1>2 DEF Create, About, MetricsArrive, Answer, Continue
<1>3. ASSUME NEW r \in Request,
             CanWalletCreateAllowlist(r) \/ BeginCreate(r) \/ SaveList(r) \/ SaveUser(r)
      PROVE  ConnectionsAreReturned'
  BY <1>1, <1>3 DEF CanWalletCreateAllowlist, BeginCreate, SaveList, SaveUser,
                    Query, Answer, Continue
<1>4. ASSUME NEW r \in Request, Intercept(r) \/ Find(r) \/ Drop(r)
      PROVE  ConnectionsAreReturned'
  BY <1>1, <1>4 DEF Intercept, Find, Drop, Query, Answer, Continue
<1>5. ASSUME NEW r \in Request,
             BeginBatch(r) \/ ValidateAllowlistState(r) \/ CommitBatch(r)
      PROVE  ConnectionsAreReturned'
  BY <1>1, <1>5 DEF BeginBatch, ValidateAllowlistState, CommitBatch, Query,
                    Answer, Continue
<1>6. ASSUME NEW r \in Request, StepFails(r) \/ AcquireTimeout(r)
      PROVE  ConnectionsAreReturned'
  BY <1>1, <1>6 DEF StepFails, AcquireTimeout, GiveUp, Answer
<1>7. CASE Tick \/ UNCHANGED vars
  BY <1>7 DEF Tick, vars
<1> QED
  BY <1>2, <1>3, <1>4, <1>5, <1>6, <1>7 DEF Next, Advance

(* Rows of users are only added, one for each list that has been created. *)
Rows == OneRow /\ Listed /\ New /\ Checked

LEMMA RowsStep == Typed /\ Typed' /\ Rows /\ [Next]_vars => Rows'
<1> SUFFICES ASSUME Typed, Typed', Rows, [Next]_vars PROVE Rows'
  OBVIOUS
<1> USE DEF Rows, Typed, TypeOK, Goto
<1>1. ASSUME NEW r \in Request, users' = users, lists' \subseteq lists,
             \A q \in Request \ {r} :
               phase'[q] = phase[q] /\ target'[q] = target[q] /\ wallet'[q] = wallet[q],
             phase'[r] # "saveUser",
             phase'[r] \in OwnerPhases =>
               /\ target'[r] = target[r] /\ wallet'[r] = wallet[r]
               /\ phase[r] \in OwnerPhases \/ HaveAllowlist(target[r], wallet[r])
      PROVE  Rows'
  <2>1. OneRow' /\ Listed'
    BY <1>1 DEF OneRow, Listed
  <2>2. New'
    BY <1>1 DEF New
  <2>3. ASSUME NEW q \in Request, phase'[q] \in OwnerPhases PROVE Owns(q)'
    <3>1. CASE q # r
      BY <1>1, <2>3, <3>1 DEF Checked, Owns
    <3>2. CASE q = r
      BY <1>1, <2>3, <3>2 DEF Checked, Owns, HaveAllowlist
    <3> QED
      BY <3>1, <3>2
  <2> QED
    BY <2>1, <2>2, <2>3 DEF Checked
<1>2. ASSUME NEW r \in Request, Create(r) \/ About(r) \/ MetricsArrive(r) PROVE Rows'
  BY <1>1, <1>2 DEF Create, About, MetricsArrive, Answer, Continue, OwnerPhases
<1>3. ASSUME NEW r \in Request, CanWalletCreateAllowlist(r) \/ BeginCreate(r)
      PROVE  Rows'
  BY <1>1, <1>3
     DEF CanWalletCreateAllowlist, BeginCreate, Answer, Continue, OwnerPhases
<1>4. ASSUME NEW r \in Request, SaveList(r) PROVE Rows'
  <2>1. PICK l \in 1..MaxLists[tdh[wallet[r]]] :
          ~Taken(l) /\ target' = [target EXCEPT ![r] = l]
    BY <1>4 DEF SaveList
  <2>2. /\ phase' = [phase EXCEPT ![r] = "saveUser"] /\ phase[r] = "saveList"
        /\ UNCHANGED <<lists, users, wallet>>
    BY <1>4 DEF SaveList
  <2>3. OneRow' /\ Listed'
    BY <2>2 DEF OneRow, Listed
  <2>4. New'
    <3>1. target'[r] = l /\ \A u \in users : u.list # l
      BY <2>1 DEF Taken
    <3>2. \A q \in Request \ {r} : phase[q] = "saveUser" => target[q] # l
      BY <2>1 DEF Taken
    <3>3. \A q \in Request \ {r} : target'[q] = target[q] /\ phase'[q] = phase[q]
      BY <2>1, <2>2
    <3> QED
      BY <2>2, <3>1, <3>2, <3>3 DEF New
  <2>5. Checked'
    BY <2>1, <2>2 DEF Checked, Owns, OwnerPhases
  <2> QED
    BY <2>3, <2>4, <2>5
<1>5. ASSUME NEW r \in Request, SaveUser(r) PROVE Rows'
  <2> DEFINE row == [list |-> target[r], wallet |-> wallet[r], at |-> stamp[r]]
  <2>1. /\ phase[r] = "saveUser" /\ lists' = lists \cup {target[r]}
        /\ users' = users \cup {row}
    BY <1>5 DEF SaveUser
  <2>2. \A q \in Request \ {r} :
          phase'[q] = phase[q] /\ target'[q] = target[q] /\ wallet'[q] = wallet[q]
    BY <1>5 DEF SaveUser, Answer
  <2>3. phase'[r] = "idle"
    BY <1>5 DEF SaveUser, Answer
  <2>4. row.list = target[r] /\ \A u \in users : u.list # target[r]
    BY <2>1 DEF New
  <2> HIDE DEF row
  <2>5. OneRow' /\ Listed'
    BY <2>1, <2>4 DEF OneRow, Listed
  <2>6. New'
    BY <2>1, <2>2, <2>3, <2>4 DEF New
  <2>7. Checked'
    BY <2>1, <2>2, <2>3 DEF Checked, Owns, OwnerPhases
  <2> QED
    BY <2>5, <2>6, <2>7
<1>6. ASSUME NEW r \in Request, Intercept(r) \/ Find(r) \/ Drop(r) PROVE Rows'
  BY <1>1, <1>6 DEF Intercept, Find, Drop, Query, Answer, Continue, OwnerPhases
<1>7. ASSUME NEW r \in Request,
             BeginBatch(r) \/ ValidateAllowlistState(r) \/ CommitBatch(r)
      PROVE  Rows'
  BY <1>1, <1>7 DEF BeginBatch, ValidateAllowlistState, CommitBatch, Query,
                    Answer, Continue, OwnerPhases
<1>8. ASSUME NEW r \in Request, StepFails(r) \/ AcquireTimeout(r) PROVE Rows'
  BY <1>1, <1>8 DEF StepFails, AcquireTimeout, GiveUp, Answer, OwnerPhases
<1>9. CASE Tick \/ UNCHANGED vars
  BY <1>9 DEF Tick, vars, OneRow, Listed, New, Checked, Owns
<1> QED
  BY <1>2, <1>3, <1>4, <1>5, <1>6, <1>7, <1>8, <1>9 DEF Next, Advance

(* The invariant is inductive. *)
LEMMA InductiveInvariant == Spec => []IInv
<1>1. Init => IInv
  <2> SUFFICES ASSUME Init PROVE IInv
    OBVIOUS
  <2>1. held = {} /\ Cardinality(held) <= PoolSize
    BY FS_EmptySet, ConstantsAssumption DEF Init
  <2>2. 0 \in 0..MaxTime
    BY ConstantsAssumption
  <2>3. Typed
    BY <2>1, <2>2 DEF Init, Typed, TypeOK, Addressed, Phases, OwnerPhases
  <2> QED
    BY <2>3 DEF Init, IInv, ConnectionsAreReturned, OneRow, Listed, New, Checked,
                Transacting, OwnerPhases
<1>2. IInv /\ [Next]_vars => IInv'
  BY TypeStep, HeldStep, RowsStep DEF IInv, Rows
<1> QED
  BY <1>1, <1>2, PTL DEF Spec
-------------------------------------------------------------------------------
(* The variables keep their types; in particular no more connections are held  *)
(* than the pool has.                                                          *)
THEOREM TypeCorrect == Spec => []TypeOK
  BY InductiveInvariant, PTL DEF IInv, Typed

(* Connections are held by transactions only: whatever fails, the request that *)
(* is answered has given its connection back (the finally blocks).             *)
THEOREM ConnectionsReturned == Spec => []ConnectionsAreReturned
  BY InductiveInvariant, PTL DEF IInv

(* A list has one owner as long as it is there (the transaction of create).    *)
THEOREM OneOwnerEach == Spec => []OneOwner
<1>1. IInv => OneOwner
  <2> SUFFICES ASSUME IInv, NEW l \in lists
               PROVE  Cardinality({u \in users : u.list = l}) = 1
    BY DEF OneOwner
  <2>1. PICK u \in users : u.list = l
    BY DEF IInv, Listed
  <2>2. {v \in users : v.list = l} = {u}
    BY <2>1 DEF IInv, OneRow
  <2> QED
    BY <2>2, FS_Singleton
<1> QED
  BY <1>1, InductiveInvariant, PTL

(* A list that disappears has been deleted by a request of its owner, and a    *)
(* batch is written only to a list of its sender, however long ago             *)
(* AllowlistAccessInterceptor has checked it.                                  *)
THEOREM OwnersChange == Spec => OnlyOwnersChange
<1> DEFINE Change ==
      /\ \A l \in lists \ lists' : \E r \in Request :
           phase[r] = "drop" /\ target[r] = l /\ Owns(r)
      /\ \A r \in Request : phase[r] = "write" /\ phase'[r] = "idle" => Owns(r)
<1>1. IInv /\ [Next]_vars => [Change]_vars
  <2> SUFFICES ASSUME IInv, [Next]_vars PROVE Change
    OBVIOUS
  <2>1. \A r \in Request : phase[r] \in {"drop", "write"} => Owns(r)
    BY DEF IInv, Checked, OwnerPhases
  <2>2. \A l \in lists \ lists' : \E r \in Request :
          phase[r] = "drop" /\ target[r] = l
    <3>1. ASSUME lists \subseteq lists' PROVE lists \ lists' = {}
      BY <3>1
    <3>2. ASSUME NEW r \in Request, Drop(r)
          PROVE  phase[r] = "drop" /\ lists \ lists' \subseteq {target[r]}
      BY <3>2 DEF Drop, Query
    <3>3. ASSUME NEW r \in Request, ~Drop(r), Create(r) \/ About(r) \/ Advance(r)
          PROVE  lists \subseteq lists'
      BY <3>3 DEF Advance, Create, About, MetricsArrive, CanWalletCreateAllowlist,
                  BeginCreate, SaveList, SaveUser, Intercept, Find, BeginBatch,
                  ValidateAllowlistState, CommitBatch, StepFails, AcquireTimeout, GiveUp
    <3>4. CASE Tick \/ UNCHANGED vars
      BY <3>4 DEF Tick, vars
    <3> QED
      BY <3>1, <3>2, <3>3, <3>4 DEF Next
  <2> QED
    BY <2>1, <2>2
<1> QED
  BY <1>1, InductiveInvariant, PTL DEF Spec, OnlyOwnersChange
-------------------------------------------------------------------------------
(* The creation limit. What counts for a wallet, and the requests that have    *)
(* passed the check and are yet to add to it.                                  *)
Recent(w) == {u \in users : u.wallet \in Group[w] /\ u.at >= clock - Window}
Creating(w) ==
  {r \in Request : /\ phase[r] \in {"create", "saveList", "saveUser"}
                   /\ wallet[r] \in Group[w]}

Within(w) == Cardinality(Recent(w)) + Cardinality(Creating(w))
               <= Limit - 1 + Cardinality(Request)

Limited ==
  /\ IsFiniteSet(users)
  /\ \A v, w \in Wallet : v \in Group[w] => tdh[v] = tdh[w]
  /\ \A w \in Wallet : tdh[w] # "unlimited" => Within(w)

(* Both sets are finite, and so may be counted. *)
LEMMA Countable ==
  ASSUME IsFiniteSet(users), NEW w \in Wallet
  PROVE  /\ IsFiniteSet(Recent(w)) /\ Cardinality(Recent(w)) \in Nat
         /\ IsFiniteSet(Creating(w)) /\ Cardinality(Creating(w)) \in Nat
         /\ Cardinality(Creating(w)) <= Cardinality(Request)
         /\ Cardinality(Request) \in Nat
<1>1. Recent(w) \in SUBSET users /\ Creating(w) \in SUBSET Request
  BY DEF Recent, Creating
<1> QED
  BY <1>1, ConstantsAssumption, FS_Subset, FS_CardinalityType

(* Nothing new counts for a wallet. *)
LEMMA NoMore ==
  ASSUME Typed, Limited, NEW w \in Wallet, Within(w), IsFiniteSet(users'),
         Recent(w)' \subseteq Recent(w), Creating(w)' \subseteq Creating(w)
  PROVE  Within(w)'
<1>1. /\ IsFiniteSet(Recent(w)) /\ Cardinality(Recent(w)) \in Nat
      /\ IsFiniteSet(Creating(w)) /\ Cardinality(Creating(w)) \in Nat
      /\ Cardinality(Request) \in Nat /\ Limit \in Nat
  BY Countable, ConstantsAssumption DEF Limited
<1>2. /\ Cardinality(Recent(w)') <= Cardinality(Recent(w))
      /\ Cardinality(Creating(w)') <= Cardinality(Creating(w))
      /\ IsFiniteSet(Recent(w)') /\ IsFiniteSet(Creating(w)')
  BY <1>1, FS_Subset
<1>3. Cardinality(Recent(w)') \in Nat /\ Cardinality(Creating(w)') \in Nat
  BY <1>2, FS_CardinalityType
<1> QED
  BY <1>1, <1>2, <1>3 DEF Within

(* Every step keeps what counts and what may be added within the limit. *)
LEMMA LimitStep == Typed /\ Typed' /\ Limited /\ [Next]_vars => Limited'
<1> SUFFICES ASSUME Typed, Typed', Limited, [Next]_vars PROVE Limited'
  OBVIOUS
<1> USE DEF Typed, TypeOK, Goto
<1>1. ASSUME tdh' = tdh, IsFiniteSet(users'),
             \A w \in Wallet : tdh[w] # "unlimited" => Within(w)'
      PROVE  Limited'
  BY <1>1 DEF Limited
<1>2. IsFiniteSet(users)
  BY DEF Limited
<1>3. ASSUME tdh' = tdh, users' = users, clock' >= clock,
             \A w \in Wallet :
               tdh[w] # "unlimited" => Creating(w)' \subseteq Creating(w)
      PROVE  Limited'
  <2>1. \A w \in Wallet : Recent(w)' \subseteq Recent(w)
    <3>1. \A u \in users : u.at \in Nat
      BY ConstantsAssumption DEF User
    <3>2. clock \in Nat /\ clock' \in Nat /\ Window \in Nat
      BY ConstantsAssumption
    <3> QED
      BY <1>3, <3>1, <3>2 DEF Recent
  <2>2. \A w \in Wallet : tdh[w] # "unlimited" => Within(w)'
    BY <1>2, <1>3, <2>1, NoMore DEF Limited
  <2> QED
    BY <1>1, <1>2, <1>3, <2>2
<1>4. ASSUME NEW r \in Request, UNCHANGED <<tdh, clock, users>>,
             \A q \in Request \ {r} : phase'[q] = phase[q] /\ wallet'[q] = wallet[q],
             \/ phase'[r] \notin {"create", "saveList", "saveUser"}
             \/ /\ phase[r] \in {"create", "saveList", "saveUser"}
                /\ wallet'[r] = wallet[r]
      PROVE  Limited'
  <2>1. \A w \in Wallet : Creating(w)' \subseteq Creating(w)
    BY <1>4 DEF Creating
  <2>2. clock \in Nat
    BY ConstantsAssumption
  <2> QED
    BY <1>3, <1>4, <2>1, <2>2
<1>5. ASSUME NEW r \in Request, Create(r) \/ About(r) PROVE Limited'
  BY <1>4, <1>5 DEF Create, About
<1>6. ASSUME NEW r \in Request, MetricsArrive(r) PROVE Limited'
  <2>1. CASE phase'[r] # "create"
    BY <1>4, <1>6, <2>1 DEF MetricsArrive, Answer, Continue
  <2>2. CASE phase'[r] = "create"
    <3>1. /\ tdh[wallet[r]] = "unlimited" /\ wallet[r] \in Wallet /\ wallet' = wallet
          /\ UNCHANGED <<tdh, clock, users>>
          /\ \A q \in Request \ {r} : phase'[q] = phase[q]
      BY <1>6, <2>2 DEF MetricsArrive, Answer, Continue, Addressed
    <3>2. \A w \in Wallet : tdh[w] # "unlimited" => Creating(w)' \subseteq Creating(w)
      BY <3>1 DEF Creating, Limited
    <3>3. clock \in Nat
      BY ConstantsAssumption
    <3> QED
      BY <1>3, <3>1, <3>2, <3>3
  <2> QED
    BY <2>1, <2>2
<1>7. ASSUME NEW r \in Request, CanWalletCreateAllowlist(r) PROVE Limited'
  <2>1. CASE phase'[r] # "create"
    BY <1>4, <1>7, <2>1 DEF CanWalletCreateAllowlist, Answer, Continue
  <2>2. CASE phase'[r] = "create"
    <3>1. /\ wallet[r] \in Wallet /\ wallet' = wallet
          /\ UNCHANGED <<tdh, clock, users>>
          /\ \A q \in Request \ {r} : phase'[q] = phase[q]
          /\ ~(Cardinality(Recent(wallet[r])) >= Limit)
      BY <1>7, <2>2 DEF CanWalletCreateAllowlist, CreatedAllowlistsCountAfterTime,
                        Recent, Query, Answer, Continue, Addressed
    <3>2. ASSUME NEW w \in Wallet, tdh[w] # "unlimited" PROVE Within(w)'
      <4>1. Recent(w)' = Recent(w)
        BY <3>1 DEF Recent
      <4>2. CASE wallet[r] \in Group[w]
        <5>1. Recent(w) = Recent(wallet[r])
          BY <3>1, <4>2, ConstantsAssumption DEF Recent
        <5>2. Cardinality(Recent(w)) \in Nat /\ Cardinality(Recent(w)) <= Limit - 1
          BY <1>2, <3>1, <5>1, Countable, ConstantsAssumption
        <5>3. Creating(w)' \in SUBSET Request
          BY DEF Creating
        <5>4. /\ Cardinality(Creating(w)') <= Cardinality(Request)
              /\ Cardinality(Creating(w)') \in Nat /\ Cardinality(Request) \in Nat
          BY <5>3, ConstantsAssumption, FS_Subset, FS_CardinalityType
        <5> QED
          BY <4>1, <5>2, <5>4, ConstantsAssumption DEF Within
      <4>3. CASE wallet[r] \notin Group[w]
        <5>1. Creating(w)' \subseteq Creating(w)
          BY <3>1, <4>3 DEF Creating
        <5> QED
          BY <1>2, <3>1, <3>2, <4>1, <5>1, NoMore DEF Limited
      <4> QED
        BY <4>2, <4>3
    <3> QED
      BY <1>1, <1>2, <3>1, <3>2
  <2> QED
    BY <2>1, <2>2
<1>8. ASSUME NEW r \in Request, BeginCreate(r) \/ SaveList(r) PROVE Limited'
  BY <1>4, <1>8 DEF BeginCreate, SaveList, Query
<1>9. ASSUME NEW r \in Request, SaveUser(r) PROVE Limited'
  <2> DEFINE row == [list |-> target[r], wallet |-> wallet[r], at |-> stamp[r]]
  <2>1. /\ users' = users \cup {row} /\ row.wallet = wallet[r]
        /\ phase[r] = "saveUser" /\ phase'[r] = "idle"
        /\ UNCHANGED <<tdh, clock>>
        /\ \A q \in Request \ {r} : phase'[q] = phase[q] /\ wallet'[q] = wallet[q]
    BY <1>9 DEF SaveUser, Answer
  <2> HIDE DEF row
  <2>2. IsFiniteSet(users')
    BY <1>2, <2>1, FS_AddElement
  <2>3. ASSUME NEW w \in Wallet, tdh[w] # "unlimited" PROVE Within(w)'
    <3>1. Within(w)
      BY <2>3 DEF Limited
    <3>2. CASE row.wallet \notin Group[w]
      <4>1. Recent(w)' \subseteq Recent(w)
        BY <2>1, <3>2 DEF Recent
      <4>2. Creating(w)' \subseteq Creating(w)
        BY <2>1, <3>2 DEF Creating
      <4> QED
        BY <2>2, <3>1, <4>1, <4>2, NoMore
    <3>3. CASE row.wallet \in Group[w]
      <4>1. Recent(w)' \in SUBSET (Recent(w) \cup {row})
        BY <2>1 DEF Recent
      <4>2. r \in Creating(w) /\ Creating(w)' = Creating(w) \ {r}
        BY <2>1, <3>3 DEF Creating
      <4>3. /\ IsFiniteSet(Recent(w)) /\ Cardinality(Recent(w)) \in Nat
            /\ IsFiniteSet(Creating(w)) /\ Cardinality(Creating(w)) \in Nat
            /\ Cardinality(Request) \in Nat /\ Limit \in Nat
        BY <1>2, Countable, ConstantsAssumption
      <4>4. /\ IsFiniteSet(Recent(w) \cup {row})
            /\ Cardinality(Recent(w) \cup {row})
                  \in {Cardinality(Recent(w)), Cardinality(Recent(w)) + 1}
        BY <4>3, FS_AddElement
      <4>5. /\ Cardinality(Recent(w)') <= Cardinality(Recent(w) \cup {row})
            /\ Cardinality(Recent(w)') \in Nat
        BY <4>1, <4>4, FS_Subset, FS_CardinalityType
      <4>6. Cardinality(Creating(w)') = Cardinality(Creating(w)) - 1
        <5>1. \A S : IsFiniteSet(S) /\ r \in S
                 => Cardinality(S \ {r}) = Cardinality(S) - 1
          BY FS_RemoveElement
        <5>2. Cardinality(Creating(w) \ {r}) = Cardinality(Creating(w)) - 1
          BY <4>2, <4>3, <5>1
        <5> QED
          BY <4>2, <5>2
      <4> QED
        BY <3>1, <4>3, <4>4, <4>5, <4>6 DEF Within
    <3> QED
      BY <3>2, <3>3
  <2> QED
    BY <1>1, <2>1, <2>2, <2>3
<1>10. ASSUME NEW r \in Request,
              \/ Intercept(r) \/ Find(r) \/ Drop(r) \/ BeginBatch(r)
              \/ ValidateAllowlistState(r) \/ CommitBatch(r)
       PROVE  Limited'
  BY <1>4, <1>10 DEF Intercept, Find, Drop, BeginBatch, ValidateAllowlistState,
                     CommitBatch, Answer, Continue
<1>11. ASSUME NEW r \in Request, StepFails(r) \/ AcquireTimeout(r) PROVE Limited'
  BY <1>4, <1>11 DEF StepFails, AcquireTimeout, GiveUp, Answer
<1>12. CASE Tick \/ UNCHANGED vars
  <2>1. clock' >= clock
    BY <1>12, ConstantsAssumption DEF Tick, vars
  <2>2. \A w \in Wallet : Creating(w)' \subseteq Creating(w)
    BY <1>12 DEF Tick, vars, Creating
  <2> QED
    BY <1>3, <1>12, <2>1, <2>2 DEF Tick, vars
<1> QED
  BY <1>5, <1>6, <1>7, <1>8, <1>9, <1>10, <1>11, <1>12 DEF Next, Advance

(* Simultaneous requests of consolidated wallets can exceed the limit, but     *)
(* only by those that are in progress at a time, for any number of wallets,    *)
(* any limit and any window (canWalletCreateAllowlist).                        *)
THEOREM LimitKept == Spec => []CreationLimit
<1>1. Init => Limited
  <2> SUFFICES ASSUME Init PROVE Limited
    OBVIOUS
  <2>1. users = {} /\ IsFiniteSet(users)
    BY FS_EmptySet DEF Init
  <2>2. ASSUME NEW w \in Wallet PROVE Within(w)
    <3>1. Recent(w) = {} /\ Creating(w) = {}
      BY DEF Init, Recent, Creating
    <3>2. Cardinality(Request) \in Nat /\ Limit \in Nat \ {0}
      BY ConstantsAssumption, FS_CardinalityType
    <3> QED
      BY <3>1, <3>2, FS_EmptySet DEF Within
  <2> QED
    BY <2>1, <2>2 DEF Init, Limited
<1>2. IInv /\ IInv' /\ Limited /\ [Next]_vars => Limited'
  BY LimitStep DEF IInv
<1>3. Limited => CreationLimit
  <2> SUFFICES ASSUME Limited, NEW w \in Wallet, tdh[w] # "unlimited"
               PROVE  Cardinality(Recent(w)) <= Limit + Cardinality(Request) - 1
    BY DEF CreationLimit, CreatedAllowlistsCountAfterTime, Recent
  <2>1. /\ Cardinality(Recent(w)) \in Nat /\ Cardinality(Creating(w)) \in Nat
        /\ Cardinality(Request) \in Nat /\ Limit \in Nat
    BY Countable, ConstantsAssumption DEF Limited
  <2> QED
    BY <2>1 DEF Limited, Within
<1> QED
  BY <1>1, <1>2, <1>3, InductiveInvariant, PTL DEF Spec
===============================================================================
