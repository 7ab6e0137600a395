------------------------------ MODULE Allowlists ------------------------------
(***************************************************************************)
(* Creating, deleting and editing allowlists as their owners, with the     *)
(* connection pool that the requests of one API process share.             *)
(*                                                                         *)
(* A request that runs a query of its own takes a connection for it and    *)
(* gives it back; the queries are atomic here. A transaction holds its     *)
(* connection from beginTransaction to the end in the finally block, and   *)
(* addBatch asks for a second one meanwhile. Lists are named by their ids  *)
(* (random UUIDs: never the same twice). The run status of a list is       *)
(* AllowlistRun's.                                                         *)
(***************************************************************************)
EXTENDS Integers, FiniteSets

CONSTANTS
  Request,   \* requests that can be in progress at a time
  Wallet,
  Group,     \* the wallets each wallet is consolidated with (Seize API)
  Limit,     \* ALLOWLIST_LIMIT_BELOW_REQUESTED_TDH_IN_TIME_WINDOW
  Window,    \* ALLOWLIST_TIME_WINDOW_MS_ALLOWLIST_CREATION
  PoolSize,  \* connectionLimit
  MaxLists,  \* bound on the lists of each wallet's group, by its TDH
  MaxTime,   \* bound on the clock
  None

Amounts == {"none", "some", "unlimited"}
List == 1..MaxLists["some"]

ASSUME ConstantsAssumption ==
  /\ IsFiniteSet(Request)
  /\ Group \in [Wallet -> SUBSET Wallet] /\ \A w \in Wallet : w \in Group[w]
  /\ \A v, w \in Wallet : v \in Group[w] => Group[v] = Group[w]
  /\ Limit \in Nat \ {0} /\ Window \in Nat /\ PoolSize \in Nat \ {0}
  /\ MaxLists \in [Amounts -> List \cup {0}] /\ MaxTime \in Nat /\ None \notin List \cup Wallet

VARIABLES
  tdh,      \* the boosted TDH of each wallet's group, which stays the same here
  clock,
  lists,    \* ids of the rows of allowlist
  users,    \* rows of allowlist_user, which no foreign key deletes
  phase,    \* the next await of each request
  wallet,   \* who sent it
  target,   \* the list it is about, or that it creates
  stamp,    \* createdAt of the list it creates
  held      \* the requests that hold a connection

vars == <<tdh, clock, lists, users, phase, wallet, target, stamp, held>>

User == [list : List, wallet : Wallet, at : 0..MaxTime]

\* In a transaction, and waiting for a connection.
Transacting == {"saveList", "saveUser", "validate", "write"}
Acquiring == {"count", "create", "access", "find", "drop", "batch", "validate"}
Phases == {"idle", "metrics"} \cup Transacting \cup Acquiring

\* Type invariant: the pool gives out no more connections than it has.
TypeOK ==
  /\ tdh \in [Wallet -> Amounts]
  /\ clock \in 0..MaxTime
  /\ lists \subseteq List /\ users \subseteq User
  /\ phase \in [Request -> Phases]
  /\ wallet \in [Request -> Wallet \cup {None}]
  /\ target \in [Request -> List \cup {None}]
  /\ stamp \in [Request -> 0..MaxTime]
  /\ held \subseteq Request /\ Cardinality(held) <= PoolSize

Init ==
  /\ tdh \in [Wallet -> Amounts]
  /\ \A v, w \in Wallet : v \in Group[w] => tdh[v] = tdh[w]
  /\ clock = 0
  /\ lists = {} /\ users = {}
  /\ phase = [r \in Request |-> "idle"]
  /\ wallet = [r \in Request |-> None]
  /\ target = [r \in Request |-> None]
  /\ stamp = [r \in Request |-> 0]
  /\ held = {}

Goto(r, p) == phase' = [phase EXCEPT ![r] = p]
Free == Cardinality(held) < PoolSize

\* The response is sent; nothing of the request is left.
Answer(r) ==
  /\ Goto(r, "idle")
  /\ wallet' = [wallet EXCEPT ![r] = None]
  /\ target' = [target EXCEPT ![r] = None]
  /\ stamp' = [stamp EXCEPT ![r] = 0]

Query(r, p) == phase[r] = p /\ Free
Continue(r, p) == Goto(r, p) /\ UNCHANGED <<wallet, target, stamp>>
-----------------------------------------------------------------------------
\* A request comes: create, or one about a list, which may have been deleted.
Create(r) ==
  /\ phase[r] = "idle"
  /\ \E w \in Wallet : wallet' = [wallet EXCEPT ![r] = w]
  /\ Goto(r, "metrics")
  /\ UNCHANGED <<tdh, clock, lists, users, target, stamp, held>>

About(r) ==
  /\ phase[r] = "idle"
  /\ \E w \in Wallet, l \in {u.list : u \in users} :
       /\ wallet' = [wallet EXCEPT ![r] = w]
       /\ target' = [target EXCEPT ![r] = l]
  /\ Goto(r, "access")
  /\ UNCHANGED <<tdh, clock, lists, users, stamp, held>>

\* getWalletConsolidationsAndTdh and canWalletCreateAllowlist up to its query.
\* Without an answer for the wallet its TDH is 0; a request without any is refused.
MetricsArrive(r) ==
  /\ phase[r] = "metrics"
  /\ \/ tdh[wallet[r]] = "unlimited" /\ Continue(r, "create")
     \/ tdh[wallet[r]] = "some" /\ Continue(r, "count")
     \/ Answer(r)
  /\ UNCHANGED <<tdh, clock, lists, users, held>>

\* createdAllowlistsCountAfterTime
CreatedAllowlistsCountAfterTime(wallets, time) ==
  Cardinality({u \in users : u.wallet \in wallets /\ u.at >= time})

\* Mutant: consolidated wallets are counted one by one.
CountsOwnWallet(r) ==
  /\ Query(r, "count")
  /\ IF CreatedAllowlistsCountAfterTime({wallet[r]}, clock - Window) >= Limit
     THEN Answer(r) ELSE Continue(r, "create")
  /\ UNCHANGED <<tdh, clock, lists, users, held>>

CanWalletCreateAllowlist(r) ==
  /\ Query(r, "count")
  /\ IF CreatedAllowlistsCountAfterTime(Group[wallet[r]], clock - Window) >= Limit
     THEN Answer(r) ELSE Continue(r, "create")
  /\ UNCHANGED <<tdh, clock, lists, users, held>>

\* A connection is got and createdAt taken; the id is one that is not in use.
BeginCreate(r) ==
  /\ Query(r, "create")
  /\ held' = held \cup {r}
  /\ stamp' = [stamp EXCEPT ![r] = clock]
  /\ Goto(r, "saveList")
  /\ UNCHANGED <<tdh, clock, lists, users, wallet, target>>

Taken(l) == (\E u \in users : u.list = l)
              \/ \E r \in Request : target[r] = l /\ phase[r] = "saveUser"

\* Mutant: the row of allowlist is not part of the transaction.
SaveListAtOnce(r) ==
  /\ phase[r] = "saveList"
  /\ \E l \in 1..MaxLists[tdh[wallet[r]]] :
       /\ ~Taken(l) /\ \A k \in 1..(l - 1) : Taken(k)
       /\ target' = [target EXCEPT ![r] = l]
       /\ lists' = lists \cup {l}
  /\ Goto(r, "saveUser")
  /\ UNCHANGED <<tdh, clock, users, wallet, stamp, held>>

SaveList(r) ==
  /\ phase[r] = "saveList"
  /\ \E l \in 1..MaxLists[tdh[wallet[r]]] :
       /\ ~Taken(l) /\ \A k \in 1..(l - 1) : Taken(k)
       /\ target' = [target EXCEPT ![r] = l]
  /\ Goto(r, "saveUser")
  /\ UNCHANGED <<tdh, clock, lists, users, wallet, stamp, held>>

\* The user's row is written and the transaction committed: both are there.
SaveUser(r) ==
  /\ phase[r] = "saveUser"
  /\ lists' = lists \cup {target[r]}
  /\ users' = users \cup {[list |-> target[r], wallet |-> wallet[r], at |-> stamp[r]]}
  /\ held' = held \ {r}
  /\ Answer(r)
  /\ UNCHANGED <<tdh, clock>>
-----------------------------------------------------------------------------
\* Mutant: any row of the list will do.
SomebodyHasAllowlist(l, w) == \E u \in users : u.list = l

HaveAllowlist(l, w) == \E u \in users : u.list = l /\ u.wallet = w

\* AllowlistAccessInterceptor, and on to the handler.
Intercept(r) ==
  /\ Query(r, "access")
  /\ IF HaveAllowlist(target[r], wallet[r])
     THEN \E handler \in {"find", "batch"} : Continue(r, handler)
     ELSE Answer(r)
  /\ UNCHANGED <<tdh, clock, lists, users, held>>

\* findById of get, which is then answered, and of delete: the list may be gone,
\* or have a run in progress.
Find(r) ==
  /\ Query(r, "find")
  /\ \/ target[r] \in lists /\ Continue(r, "drop")
     \/ Answer(r)
  /\ UNCHANGED <<tdh, clock, lists, users, held>>

Drop(r) ==
  /\ Query(r, "drop")
  /\ lists' = lists \ {target[r]}
  /\ Answer(r)
  /\ UNCHANGED <<tdh, clock, users, held>>

\* addBatch begins its transaction, and then validates the list's state with
\* another connection.
BeginBatch(r) ==
  /\ Query(r, "batch")
  /\ held' = held \cup {r}
  /\ Continue(r, "validate")
  /\ UNCHANGED <<tdh, clock, lists, users>>

ValidateAllowlistState(r) ==
  /\ Query(r, "validate")
  /\ \/ target[r] \in lists /\ Continue(r, "write") /\ UNCHANGED held
     \/ Answer(r) /\ held' = held \ {r}
  /\ UNCHANGED <<tdh, clock, lists, users>>

\* Its statements and its commit.
CommitBatch(r) ==
  /\ phase[r] = "write"
  /\ held' = held \ {r}
  /\ Answer(r)
  /\ UNCHANGED <<tdh, clock, lists, users>>
-----------------------------------------------------------------------------
\* A request fails at an await: its transaction is rolled back, its connection
\* given back.
GiveUp(r) ==
  /\ held' = held \ {r}
  /\ Answer(r)
  /\ UNCHANGED <<tdh, clock, lists, users>>

\* The answer to a statement is an error, or to the Seize API's request.
StepFails(r) ==
  /\ phase[r] # "idle" /\ (phase[r] \in Acquiring => Free)
  /\ GiveUp(r)

\* Mutant: a pool that lets requests wait for ever.
NoAcquireTimeout(r) == phase[r] \in Acquiring /\ ~Free /\ UNCHANGED vars

\* There has been no free connection for acquireTimeout.
AcquireTimeout(r) == phase[r] \in Acquiring /\ ~Free /\ GiveUp(r)

Tick ==
  /\ clock < MaxTime /\ clock' = clock + 1
  /\ UNCHANGED <<tdh, lists, users, phase, wallet, target, stamp, held>>

Advance(r) ==
  \/ MetricsArrive(r) \/ CanWalletCreateAllowlist(r) \/ BeginCreate(r)
  \/ SaveList(r) \/ SaveUser(r)
  \/ Intercept(r) \/ Find(r) \/ Drop(r)
  \/ BeginBatch(r) \/ ValidateAllowlistState(r) \/ CommitBatch(r)
  \/ StepFails(r) \/ AcquireTimeout(r)

Next == Tick \/ \E r \in Request : Create(r) \/ About(r) \/ Advance(r)

Spec == Init /\ [][Next]_vars

\* Queries and HTTP requests end with an answer or an error, and the pool with
\* acquireTimeout.
Fairness == \A r \in Request : WF_vars(Advance(r))
FairSpec == Spec /\ Fairness
-----------------------------------------------------------------------------
\* Wallets that are consolidated share the limit, whichever of them creates, and
\* deleting a list does not give its place back. The count is taken before the
\* transaction, so that requests in progress at a time can exceed the limit, but
\* only by those (canWalletCreateAllowlist).
CreationLimit ==
  \A w \in Wallet : tdh[w] # "unlimited" =>
    CreatedAllowlistsCountAfterTime(Group[w], clock - Window)
      <= Limit + Cardinality(Request) - 1

\* A list has one owner as long as it is there, also when its creation fails half
\* way (the transaction of create).
OneOwner == \A l \in lists : Cardinality({u \in users : u.list = l}) = 1

Owns(r) == \E u \in users : u.list = target[r] /\ u.wallet = wallet[r]

\* A list that disappears has been deleted by a request of its owner, and a batch
\* is written only to a list of its sender, however long ago the check was
\* (AllowlistAccessInterceptor).
OnlyOwnersChange ==
  [][/\ \A l \in lists \ lists' : \E r \in Request :
           phase[r] = "drop" /\ target[r] = l /\ Owns(r)
     /\ \A r \in Request : phase[r] = "write" /\ phase'[r] = "idle" => Owns(r)]_vars

\* Connections are held by transactions only: whatever fails, the request that is
\* answered has given its connection back (the finally blocks).
ConnectionsAreReturned == held = {r \in Request : phase[r] \in Transacting}

\* Every request is answered, also when those that hold connections all wait for
\* another one (addBatch and validateAllowlistState).
RequestsAreAnswered == \A r \in Request : phase[r] # "idle" ~> phase[r] = "idle"
=============================================================================
