---------------------------- MODULE ResultTables ----------------------------
(***************************************************************************)
(* The result tables of one allowlist: how the worker of a run fills them  *)
(* (RunnerService.insertResults), how planning the next run empties them,  *)
(* and what the queries of the API see meanwhile.                          *)
(*                                                                         *)
(* insertResults starts one createMany per table, all on one connection.   *)
(* Each has one INSERT under way at a time; the connection executes what it *)
(* is sent in that order, which Execute does with the answer and what the  *)
(* code sends next.  AllowlistRun shows that a run has one worker, so that *)
(* a worker is named by its run.  The winners are also read when wallets    *)
(* are counted for a draft of operations (UniqueWallets).                  *)
(***************************************************************************)
EXTENDS UniqueWallets, Sequences

CONSTANTS
  MaxRuns,  \* bound on the runs that are planned
  Rows,     \* the rows of each table that each run computes
  Winner,   \* what the winners' rows of each run say: a component and a wallet
  Drafts    \* sets of operations whose wallets a client counts

Run == 1..MaxRuns

\* In the order of insertResults; "pool" stands for the four tables of pools.
Table == {"pool", "phase", "component", "winner", "item"}

ASSUME ConstantsAssumption ==
  /\ MaxRuns \in Nat /\ None \notin Run
  /\ Rows \in [Run -> [Table -> Nat]]
  /\ \A n \in Run : Len(Winner[n]) = Rows[n]["winner"]

\* A request has finitely many operations and creates a custom pool once.
ASSUME DraftsAssumption ==
  /\ \A p \in DOMAIN PoolTokens : IsFiniteSet(PoolTokens[p])
  /\ \A ops \in Drafts :
       LET created == With(ops, "CREATE_CUSTOM_TOKEN_POOL") IN
       /\ IsFiniteSet(ops)
       /\ \A o, p \in created : IsFiniteSet(o.owners) /\ (o.id = p.id => o = p)

VARIABLES
  current,   \* the run allowlist_run has a row for, or 0
  status,    \* of that row
  rows,      \* committed rows of the result tables
  phase,     \* where each worker is
  commands,  \* what each worker's connection has been sent: INSERTs, by their
             \* tables, COMMIT or ROLLBACK
  next,      \* the row each createMany inserts; 0 when it has failed
  open,      \* is the connection in a transaction?
  tx,        \* rows of that transaction
  polled,    \* the run a client has seen COMPLETED, or None
  got,       \* what the client's queries have found since, by table
  counted    \* a draft whose wallets the client has counted, and how many, or None

rowVars == <<current, status, rows>>
workVars == <<phase, commands, next, open, tx>>
clientVars == <<polled, got, counted>>
vars == <<rowVars, workVars, clientVars>>

Row == [table : Table, run : Run, i : Nat]
Phases == {"idle", "running", "inserting", "committing", "rollingBack",
           "inserted", "failing", "done"}

RowsOf(n) == UNION {{[table |-> t, run |-> n, i |-> k] : k \in 1..Rows[n][t]} :
                      t \in Table}

\* Type invariant: a transaction has rows of its own run, and the client has asked
\* only after it saw a run completed.
TypeOK ==
  /\ current \in 0..MaxRuns
  /\ status \in {"NONE", "PENDING", "CLAIMED", "FAILED", "COMPLETED"}
  /\ current = 0 => status = "NONE" /\ rows = {}              \* foreign keys
  /\ rows \subseteq UNION {RowsOf(n) : n \in Run}
  /\ phase \in [Run -> Phases]
  /\ commands \in [Run -> Seq(Table \cup {"commit", "rollback"})]
  /\ next \in [Run -> [Table -> Nat]]
  /\ open \in [Run -> BOOLEAN] /\ DOMAIN tx = Run /\ DOMAIN got = Table
  /\ \A n \in Run : tx[n] \subseteq RowsOf(n) /\ (tx[n] # {} => open[n])
  /\ polled \in Run \cup {None}
  /\ \A t \in Table : polled = None => got[t] = None
  /\ polled # None => counted = None

Init ==
  /\ current = 0 /\ status = "NONE" /\ rows = {}
  /\ phase = [n \in Run |-> "idle"]
  /\ commands = [n \in Run |-> <<>>]
  /\ next = [n \in Run |-> [t \in Table |-> 1]]
  /\ open = [n \in Run |-> FALSE]
  /\ tx = [n \in Run |-> {}]
  /\ polled = None /\ got = [t \in Table |-> None] /\ counted = None

SetPhase(n, p) == phase' = [phase EXCEPT ![n] = p]
-----------------------------------------------------------------------------
\* Mutant: the winners' table is not emptied.
PlanKeepsWinners ==
  /\ status \notin {"PENDING", "CLAIMED"} /\ current < MaxRuns
  /\ \A n \in Run : tx[n] = {}
  /\ current' = current + 1 /\ status' = "PENDING"
  /\ rows' = {r \in rows : r.table = "winner"}
  /\ UNCHANGED <<workVars, clientVars>>

\* prepNewRun: the old row is deleted, its results go with it, and the new row is
\* written. It waits for transactions whose rows refer to the old one.
Plan ==
  /\ status \notin {"PENDING", "CLAIMED"} /\ current < MaxRuns
  /\ \A n \in Run : tx[n] = {}
  /\ current' = current + 1 /\ status' = "PENDING"
  /\ rows' = {}
  /\ UNCHANGED <<workVars, clientVars>>

\* claimRun, by the run's own worker; run computes its results.
Claim(n) ==
  /\ current = n /\ status = "PENDING"
  /\ status' = "CLAIMED"
  /\ SetPhase(n, "running")
  /\ UNCHANGED <<current, rows, commands, next, open, tx, clientVars>>

\* The first INSERT of each createMany that has rows.
Started(n) ==
  LET First(t) == IF Rows[n][t] > 0 THEN <<t>> ELSE <<>> IN
  First("pool") \o First("phase") \o First("component") \o First("winner")
    \o First("item")

\* Mutant: beginTransaction is forgotten.
InsertWithoutTransaction(n) ==
  /\ phase[n] = "running"
  /\ commands' = [commands EXCEPT ![n] = IF Started(n) = <<>> THEN <<"commit">>
                                         ELSE Started(n)]
  /\ SetPhase(n, IF Started(n) = <<>> THEN "committing" ELSE "inserting")
  /\ UNCHANGED <<rowVars, next, open, tx, clientVars>>

\* insertResults begins a transaction and starts a createMany for each table.
InsertResults(n) ==
  /\ phase[n] = "running"
  /\ open' = [open EXCEPT ![n] = TRUE]
  /\ commands' = [commands EXCEPT ![n] = IF Started(n) = <<>> THEN <<"commit">>
                                         ELSE Started(n)]
  /\ SetPhase(n, IF Started(n) = <<>> THEN "committing" ELSE "inserting")
  /\ UNCHANGED <<rowVars, next, tx, clientVars>>

\* The tables' primary keys are the entities' ids, the same in every run; a winner
\* gets an id of its own.
Clashes(r) ==
  r.table # "winner"
    /\ \E s \in rows \cup UNION {tx[n] : n \in Run} : s.table = r.table /\ s.i = r.i

Send(n, more) == commands' = [commands EXCEPT ![n] = Tail(@) \o more]

\* Mutant: the first createMany that ends is taken for all of them.
InsertedRaces(n, t) ==
  LET k == next[n][t]
      r == [table |-> t, run |-> n, i |-> k]
      last == k = Rows[n][t] IN
  /\ current # 0 /\ ~Clashes(r)
  /\ IF open[n] THEN tx' = [tx EXCEPT ![n] = @ \cup {r}] /\ UNCHANGED rows
     ELSE rows' = rows \cup {r} /\ UNCHANGED tx
  /\ next' = [next EXCEPT ![n][t] = k + 1]
  /\ Send(n, IF k < Rows[n][t] THEN <<t>>
             ELSE IF last /\ phase[n] = "inserting" THEN <<"commit">> ELSE <<>>)
  /\ IF last /\ phase[n] = "inserting" THEN SetPhase(n, "committing")
     ELSE UNCHANGED phase
  /\ UNCHANGED <<current, status, open, clientVars>>

\* The INSERT of a createMany succeeds. The loop goes on with the next row; when
\* all of them have ended, the transaction is committed.
Inserted(n, t) ==
  LET k == next[n][t]
      r == [table |-> t, run |-> n, i |-> k]
      after == [next[n] EXCEPT ![t] = k + 1]
      all == \A u \in Table : after[u] = Rows[n][u] + 1 IN
  /\ current # 0 /\ ~Clashes(r)
  /\ IF open[n] THEN tx' = [tx EXCEPT ![n] = @ \cup {r}] /\ UNCHANGED rows
     ELSE rows' = rows \cup {r} /\ UNCHANGED tx
  /\ next' = [next EXCEPT ![n] = after]
  /\ Send(n, IF k < Rows[n][t] THEN <<t>>
             ELSE IF all /\ phase[n] = "inserting" THEN <<"commit">> ELSE <<>>)
  /\ IF all /\ phase[n] = "inserting" THEN SetPhase(n, "committing")
     ELSE UNCHANGED phase
  /\ UNCHANGED <<current, status, open, clientVars>>

\* Mutant: the failure is swallowed.
InsertFailsSilently(n, t) ==
  /\ next' = [next EXCEPT ![n][t] = 0]
  /\ Send(n, <<>>)
  /\ UNCHANGED <<rowVars, phase, open, tx, clientVars>>

\* It fails: on the key of a row that is there, on a value that is too long, on
\* anything. The first failure ends the Promise.all and is followed by the
\* rollback; the other loops do not hear of it.
InsertFails(n, t) ==
  /\ next' = [next EXCEPT ![n][t] = 0]
  /\ Send(n, IF phase[n] = "inserting" THEN <<"rollback">> ELSE <<>>)
  /\ IF phase[n] = "inserting" THEN SetPhase(n, "rollingBack") ELSE UNCHANGED phase
  /\ UNCHANGED <<rowVars, open, tx, clientVars>>

\* The createMany of the repository of a table: its INSERT is executed.
CreateMany(n, t) ==
  /\ commands[n] # <<>> /\ Head(commands[n]) = t
  /\ Inserted(n, t) \/ InsertFails(n, t)

CreatePools(n) == CreateMany(n, "pool")
CreatePhases(n) == CreateMany(n, "phase")
CreateComponents(n) == CreateMany(n, "component")
CreateWinners(n) == CreateMany(n, "winner")
CreateItems(n) == CreateMany(n, "item")

Commit(n) ==
  /\ commands[n] # <<>> /\ Head(commands[n]) = "commit"
  /\ rows' = rows \cup tx[n]
  /\ tx' = [tx EXCEPT ![n] = {}]
  /\ open' = [open EXCEPT ![n] = FALSE]
  /\ Send(n, <<>>)
  /\ SetPhase(n, "inserted")
  /\ UNCHANGED <<current, status, next, clientVars>>

\* After it the connection commits each statement by itself.
Rollback(n) ==
  /\ commands[n] # <<>> /\ Head(commands[n]) = "rollback"
  /\ tx' = [tx EXCEPT ![n] = {}]
  /\ open' = [open EXCEPT ![n] = FALSE]
  /\ Send(n, <<>>)
  /\ SetPhase(n, "failing")
  /\ UNCHANGED <<rowVars, next, clientVars>>

\* The connection breaks: its transaction is undone and what it was sent is lost.
\* Nothing else is sent when the invocation is killed, or its container removed.
Break(n) ==
  /\ commands[n] # <<>>
  /\ commands' = [commands EXCEPT ![n] = <<>>]
  /\ tx' = [tx EXCEPT ![n] = {}]
  /\ open' = [open EXCEPT ![n] = FALSE]
  /\ \/ UNCHANGED phase /\ phase[n] \in {"failing", "done"}
     \/ SetPhase(n, "failing") /\ phase[n] # "done"
     \/ SetPhase(n, "done")
  /\ UNCHANGED <<rowVars, next, clientVars>>

\* changeStatusToCompleted
Complete(n) ==
  /\ phase[n] = "inserted"
  /\ status' = "COMPLETED"
  /\ SetPhase(n, "done")
  /\ UNCHANGED <<current, rows, commands, next, open, tx, clientVars>>

\* The results cannot be computed, or a later write fails.
StepFails(n) ==
  /\ phase[n] \in {"running", "inserted"}
  /\ SetPhase(n, "failing")
  /\ UNCHANGED <<rowVars, commands, next, open, tx, clientVars>>

\* changeStatusToError
ReportError(n) ==
  /\ phase[n] = "failing"
  /\ status' = "FAILED"
  /\ SetPhase(n, "done")
  /\ UNCHANGED <<current, rows, commands, next, open, tx, clientVars>>
-----------------------------------------------------------------------------
\* A client sees that the run is completed and asks for its results.
Poll ==
  /\ polled = None /\ counted = None /\ status = "COMPLETED"
  /\ polled' = current
  /\ UNCHANGED <<rowVars, workVars, got, counted>>

\* A query of one table. The parts of an answer that is put together of several
\* tables are asked for at once and come in any order.
Get(t) ==
  /\ polled # None /\ got[t] = None
  /\ got' = [got EXCEPT ![t] = {r \in rows : r.table = t}]
  /\ UNCHANGED <<rowVars, workVars, polled, counted>>

GetPools == Get("pool")
GetPhases == Get("phase")
GetComponents == Get("component")
GetWinners == Get("winner")
GetItems == Get("item")

WinnersOf(found) == {Winner[r.run][r.i] : r \in {x \in found : x.table = "winner"}}

\* getUniqueWalletsCountFromOperations: at any time, whatever the run's status.
CountUniqueWallets ==
  /\ polled = None /\ counted = None
  /\ \E ops \in Drafts :
       counted' = [ops |-> ops, answer |-> UniqueWalletsCount(ops, WinnersOf(rows))]
  /\ UNCHANGED <<rowVars, workVars, polled, got>>

\* The client has all it asked for, or gives up.
Forget ==
  /\ polled # None \/ counted # None
  /\ polled' = None /\ got' = [t \in Table |-> None] /\ counted' = None
  /\ UNCHANGED <<rowVars, workVars>>

Execute(n) ==
  \/ CreatePools(n) \/ CreatePhases(n) \/ CreateComponents(n) \/ CreateWinners(n)
  \/ CreateItems(n) \/ Commit(n) \/ Rollback(n) \/ Break(n)

WorkerStep(n) ==
  \/ InsertResults(n) \/ Execute(n) \/ Complete(n) \/ StepFails(n) \/ ReportError(n)

ClientStep ==
  \/ Poll \/ GetPools \/ GetPhases \/ GetComponents \/ GetWinners \/ GetItems
  \/ CountUniqueWallets \/ Forget

Next == Plan \/ ClientStep \/ \E n \in Run : Claim(n) \/ WorkerStep(n)

Spec == Init /\ [][Next]_vars

\* An invocation goes on until it ends, and the database answers its connection.
Fairness == \A n \in Run : WF_vars(WorkerStep(n))
FairSpec == Spec /\ Fairness
-----------------------------------------------------------------------------
\* The run that failed to insert a row.
FailedToInsert(n) == \E t \in Table : next[n][t] = 0

\* A completed run has all of its rows in the tables (insertResults commits when
\* every createMany has ended; changeStatusToCompleted).
CompletedIsComplete == status = "COMPLETED" => RowsOf(current) \subseteq rows

\* The type invariant with it.
TablesConsistent == TypeOK /\ CompletedIsComplete

\* The queries see all rows of a run or none of them, and none of a run that has
\* been replaced, unless an INSERT of that run failed (the transaction of
\* insertResults, the cascade of prepNewRun).
OthersAllOrNothing ==
  \A n \in Run : rows \cap RowsOf(n) # {} /\ ~FailedToInsert(n) =>
    n = current /\ RowsOf(n) \subseteq rows

\* A client that saw the run completed and finds no other one planned since has
\* got exactly its rows, table by table, unless an earlier run failed to insert.
AnswersAreOneRun ==
  polled # None /\ polled = current /\ ~(\E n \in Run : FailedToInsert(n)) =>
    \A t \in Table : got[t] # None => got[t] = {r \in RowsOf(polled) : r.table = t}

Owns(ops, wallet, pool) ==
  IF pool.type = "TOKEN_POOL"
  THEN pool.id \in DOMAIN PoolTokens /\ wallet \in PoolTokens[pool.id]
  ELSE \E o \in With(ops, "CREATE_CUSTOM_TOKEN_POOL") :
         o.id = pool.id /\ wallet \in o.owners

\* The wallets of a draft's items, with their phases, that neither own a token of a
\* removed pool nor are winners of a removed component.
Left(ops, winners) ==
  {x \in PhaseIds(ops) \X UNION ({PoolTokens[p] : p \in DOMAIN PoolTokens}
                                  \cup {o.owners : o \in With(ops, "CREATE_CUSTOM_TOKEN_POOL")}) :
     \E c \in With(ops, "ADD_COMPONENT"), a \in With(ops, "ADD_ITEM") :
       /\ c.phase = x[1] /\ a.component = c.id
       /\ Owns(ops, x[2], a.pool)
       /\ \A o \in With(ops, "REMOVE_POOL_WALLETS") :
            o.item = a.id => \A p \in o.pools : ~Owns(ops, x[2], p)
       /\ \A o \in With(ops, "REMOVE_COMPONENT_WALLETS") :
            o.item = a.id => \A w \in winners :
              w.component \in o.components => w.wallet # x[2]}

\* A draft is refused, or the winners it removes are all those of one run: none are
\* forgotten because they are still being inserted, unless an INSERT failed. Without
\* any it removes only from components of its own (getUniqueWalletsCountFromOperations,
\* insertResults).
CountsAreOfOneRun ==
  counted # None /\ counted.answer # None /\ ~(\E n \in Run : FailedToInsert(n)) =>
    LET ops == counted.ops
        drafted == {o.id : o \in With(ops, "ADD_COMPONENT")} IN
    \/ \E n \in Run : counted.answer = Cardinality(Left(ops, WinnersOf(RowsOf(n))))
    \/ /\ counted.answer = Cardinality(Left(ops, {}))
       /\ \A o \in With(ops, "REMOVE_COMPONENT_WALLETS") : o.components \subseteq drafted

\* An insertion ends with its outcome, whatever fails (the commit or the rollback is
\* sent exactly once).
InsertionEnds ==
  \A n \in Run : phase[n] \in {"inserting", "committing", "rollingBack"}
                   ~> phase[n] \in {"inserted", "failing", "done"}
=============================================================================
