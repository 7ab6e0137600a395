---------------------------- MODULE AllowlistRun ----------------------------
(***************************************************************************)
(* One allowlist: its run (the row of allowlist_run and the result tables  *)
(* that hang on it), its operations, the API requests that plan a run, add *)
(* or delete operations or delete the allowlist, and the worker lambdas    *)
(* that execute the run and are started by messages over SNS/SQS.          *)
(*                                                                         *)
(* A transaction is one action, because what it writes is locked until it  *)
(* commits; what a request reads outside of its transaction, and each      *)
(* autocommitted write of a worker, is an action of its own. The order of  *)
(* the operations is left to AllowlistOperations; here they are a set.     *)
(***************************************************************************)
EXTENDS Naturals

CONSTANTS
  Worker,       \* lambda invocations that can run at a time
  Client,       \* API requests that can be in progress at a time
  Operation,    \* ids of operations
  MaxReceives,  \* redeliveries of a message before the queue drops it
  MaxRequests,  \* bound on the requests of a behaviour
  Faults        \* the circumstances that are allowed, see FaultKinds

(***************************************************************************)
(* "duplicate": SQS delivers a message and keeps it.                       *)
(* "publish_fails": the message of a planned run is never sent.            *)
(* "last_kill": an invocation dies on the last delivery of its message.    *)
(***************************************************************************)
FaultKinds == {"duplicate", "publish_fails", "last_kill"}

ASSUME ConstantsAssumption ==
  /\ MaxReceives \in Nat /\ MaxRequests \in Nat
  /\ Faults \subseteq FaultKinds

VARIABLES
  exists,    \* is the allowlist there?
  status,    \* of its allowlist_run row; "NONE" without a row
  results,   \* operations whose effect the result tables show
  ops,       \* operations of the allowlist
  ran,       \* those with has_ran set
  queue,     \* waiting messages, by the redeliveries they have left
  phase,     \* where each worker is in the handler
  left,      \* redeliveries left to the message each worker handles
  executed,  \* operations each worker has read and executes
  loops,     \* operations whose rows abandoned loops of inserts have left
  api,       \* where each request is
  seen,      \* operations a delete request has read
  requests   \* requests made so far

rowVars    == <<exists, status, results>>
opVars     == <<ops, ran>>
workerVars == <<phase, left, executed, loops>>
apiVars    == <<api, seen, requests>>
vars == <<exists, status, results, ops, ran, queue, phase, left, executed,
          loops, api, seen, requests>>

Status == {"NONE", "PENDING", "CLAIMED", "FAILED", "COMPLETED"}
Active == {"PENDING", "CLAIMED"}
Phases == {"idle", "delivered", "refusing", "claimed", "running", "inserted",
           "marked", "failing", "returning", "throwing"}
ApiPhases == {"idle", "plan", "planned", "add", "delete", "drop"}

TypeOK ==
  /\ exists \in BOOLEAN
  /\ status \in Status
  /\ ops \subseteq Operation /\ ran \subseteq ops
  /\ results \subseteq Operation
  /\ status = "NONE" => results = {}                   \* foreign keys
  /\ ~exists => status = "NONE" /\ ops = {}            \* foreign keys
  /\ queue \in [0..MaxReceives -> Nat]
  /\ phase \in [Worker -> Phases]
  /\ left \in [Worker -> 0..MaxReceives]
  /\ executed \in [Worker -> SUBSET Operation]
  /\ loops \in [Worker -> SUBSET Operation]
  /\ api \in [Client -> ApiPhases]
  /\ seen \in [Client -> SUBSET Operation]
  /\ requests \in 0..MaxRequests

Init ==
  /\ exists = TRUE
  /\ status = "NONE"
  /\ ops = {} /\ ran = {} /\ results = {}
  /\ queue = [n \in 0..MaxReceives |-> 0]
  /\ phase = [w \in Worker |-> "idle"]
  /\ left = [w \in Worker |-> 0]
  /\ executed = [w \in Worker |-> {}]
  /\ loops = [w \in Worker |-> {}]
  /\ api = [c \in Client |-> "idle"]
  /\ seen = [c \in Client |-> {}]
  /\ requests = 0

Send(n) == queue' = [queue EXCEPT ![n] = @ + 1]

\* update allowlist_run set status = ... where allowlist_id = ...
SetStatus(s) == status' = IF status = "NONE" THEN "NONE" ELSE s

------------------------------------------------------------------------------
(* API requests *)

ApiGoto(c, p) ==
  /\ api' = [api EXCEPT ![c] = p]
  /\ UNCHANGED requests

\* A request has found the allowlist without an active run.
Admit(c, p) ==
  /\ api[c] = "idle" /\ requests < MaxRequests
  /\ exists /\ status \notin Active
  /\ api' = [api EXCEPT ![c] = p]
  /\ requests' = requests + 1
  /\ UNCHANGED <<rowVars, opVars, queue, workerVars>>

PlanCheck(c) == Admit(c, "plan") /\ UNCHANGED seen

\* The old run goes and its results with it (on delete cascade).
PrepNewRun(c) ==
  /\ api[c] = "plan" /\ exists
  /\ status' = "PENDING"
  /\ results' = {}
  /\ ApiGoto(c, "planned")
  /\ UNCHANGED <<exists, opVars, queue, workerVars, seen>>

PlanPublish(c) ==
  /\ api[c] = "planned"
  /\ Send(MaxReceives)
  /\ ApiGoto(c, "idle")
  /\ UNCHANGED <<rowVars, opVars, workerVars, seen>>

AddCheck(c) == Admit(c, "add") /\ UNCHANGED seen

\* has_ran is cleared everywhere when an operation behind the new one ran.
AddCommit(c) ==
  /\ api[c] = "add" /\ exists
  /\ \E o \in Operation \ (ops \cup results) :
       /\ \A w \in Worker : o \notin executed[w] \cup loops[w]
       /\ \A d \in Client : o \notin seen[d]
       /\ ops' = ops \cup {o}
  /\ ran' \in {ran, {}}
  /\ ApiGoto(c, "idle")
  /\ UNCHANGED <<rowVars, queue, workerVars, seen>>

DeleteCheck(c) ==
  /\ ops # {}
  /\ Admit(c, "delete")
  /\ seen' = [seen EXCEPT ![c] = ops]

DeleteDone(c) ==
  /\ ApiGoto(c, "idle")
  /\ seen' = [seen EXCEPT ![c] = {}]
  /\ UNCHANGED <<rowVars, queue, workerVars>>

\* By order: it deletes what is at that place by now, if anything is.
DeleteCommon(c) ==
  /\ api[c] = "delete"
  /\ \/ \E o \in ops : ops' = ops \ {o}
     \/ ops # seen[c] /\ UNCHANGED ops
  /\ ran' \in {ran \cap ops', {}}
  /\ DeleteDone(c)

\* Everything is deleted and the operations read that do not depend on the
\* deleted entity are written again.
DeleteEntity(c) ==
  /\ api[c] = "delete" /\ exists
  /\ \E o \in seen[c] : ops' \in SUBSET (seen[c] \ {o})
  /\ ran' = {}
  /\ DeleteDone(c)

DropCheck(c) == Admit(c, "drop") /\ UNCHANGED seen

\* Its run, results and operations go with it (on delete cascade).
DropAllowlist(c) ==
  /\ api[c] = "drop"
  /\ exists' = FALSE
  /\ status' = "NONE"
  /\ results' = {} /\ ops' = {} /\ ran' = {}
  /\ ApiGoto(c, "idle")
  /\ UNCHANGED <<queue, workerVars, seen>>

\* The database or SNS fails, or the API lambda dies; transactions roll back.
RequestFails(c) ==
  /\ \/ api[c] \in {"plan", "add", "delete", "drop"}
     \/ api[c] = "planned" /\ "publish_fails" \in Faults
  /\ ApiGoto(c, "idle")
  /\ seen' = [seen EXCEPT ![c] = {}]
  /\ UNCHANGED <<rowVars, opVars, queue, workerVars>>

------------------------------------------------------------------------------
(* The worker lambda *)

Goto(w, p) ==
  /\ phase' = [phase EXCEPT ![w] = p]
  /\ UNCHANGED left

Leave(w) ==
  /\ phase' = [phase EXCEPT ![w] = "idle"]
  /\ left' = [left EXCEPT ![w] = 0]
  /\ executed' = [executed EXCEPT ![w] = {}]

BackToQueue(w) ==
  IF left[w] > 0 THEN Send(left[w] - 1) ELSE UNCHANGED queue

\* The invocation gets a new environment or one that served another before.
Deliver(w) ==
  /\ phase[w] = "idle"
  /\ \E n \in 0..MaxReceives :
       /\ queue[n] > 0
       /\ \/ queue' = [queue EXCEPT ![n] = @ - 1]
          \/ /\ "duplicate" \in Faults /\ n > 0
             /\ queue' = [queue EXCEPT ![n] = @ - 1, ![n - 1] = @ + 1]
       /\ left' = [left EXCEPT ![w] = n]
  /\ phase' = [phase EXCEPT ![w] = "delivered"]
  /\ loops' \in {loops, [loops EXCEPT ![w] = {}]}
  /\ UNCHANGED <<rowVars, opVars, executed, apiVars>>

\* Mutant: the claim's query does not ask for status PENDING.
ClaimAnyStatus(w) ==
  /\ phase[w] = "delivered"
  /\ status # "NONE"
  /\ status' = "CLAIMED"
  /\ ran' = {}
  /\ Goto(w, "claimed")
  /\ UNCHANGED <<exists, results, ops, queue, executed, loops, apiVars>>

ClaimRun(w) ==
  /\ phase[w] = "delivered"
  /\ status = "PENDING"
  /\ status' = "CLAIMED"
  /\ ran' = {}
  /\ Goto(w, "claimed")
  /\ UNCHANGED <<exists, results, ops, queue, executed, loops, apiVars>>

\* There is no PENDING run and the destructuring of the empty answer throws,
\* or the transaction fails: both end in the catch block of claimRun.
ClaimFails(w) ==
  /\ phase[w] = "delivered"
  /\ Goto(w, "refusing")
  /\ UNCHANGED <<rowVars, opVars, queue, executed, loops, apiVars>>

\* Mutant: "hasn't got an unclaimed run", and nothing more.
RefuseQuietly(w) ==
  /\ phase[w] = "refusing"
  /\ Goto(w, "returning")
  /\ UNCHANGED <<rowVars, opVars, queue, executed, loops, apiVars>>

Refuse(w) ==
  /\ phase[w] = "refusing"
  /\ SetStatus("FAILED")
  /\ Goto(w, "returning")
  /\ UNCHANGED <<exists, results, opVars, queue, executed, loops, apiVars>>

ReadOperations(w) ==
  /\ phase[w] = "claimed"
  /\ executed' = [executed EXCEPT ![w] = ops]
  /\ Goto(w, "running")
  /\ UNCHANGED <<rowVars, opVars, queue, loops, apiVars>>

\* The entities refer to the run's row and are inserted with their ids.
InsertResults(w) ==
  /\ phase[w] = "running"
  /\ status # "NONE"
  /\ executed[w] \cap results = {}
  /\ results' = results \cup executed[w]
  /\ \E p \in {"inserted", "failing"} : Goto(w, p)
  /\ UNCHANGED <<exists, status, opVars, queue, executed, loops, apiVars>>

\* One insert fails and the transaction is rolled back: the other loops go
\* on, each until it is through or fails too, and nobody waits for them.
InsertFails(w) ==
  /\ phase[w] = "running"
  /\ status # "NONE"
  /\ \E rest \in SUBSET executed[w] :
       loops' = [loops EXCEPT ![w] = @ \cup rest]
  /\ Goto(w, "failing")
  /\ UNCHANGED <<rowVars, opVars, queue, executed, apiVars>>

\* What they insert commits by itself, while the error is reported or, as
\* the environment sleeps between invocations, in a later one: into
\* whatever run there is by then.
LateInsert(w) ==
  /\ phase[w] # "idle"
  /\ status # "NONE"
  /\ \E o \in loops[w] \ results :
       /\ results' = results \cup {o}
       /\ loops' = [loops EXCEPT ![w] = @ \ {o}]
  /\ UNCHANGED <<exists, status, opVars, queue, phase, left, executed, apiVars>>

\* Mutant: the operations are marked before the results are inserted.
MarkEarly(w) ==
  /\ phase[w] \in {"running", "inserted"}
  /\ ran' = ops
  /\ Goto(w, "marked")
  /\ UNCHANGED <<rowVars, ops, queue, executed, loops, apiVars>>

SetAllAsRan(w) ==
  /\ phase[w] = "inserted"
  /\ ran' = ops
  /\ Goto(w, "marked")
  /\ UNCHANGED <<rowVars, ops, queue, executed, loops, apiVars>>

Complete(w) ==
  /\ phase[w] = "marked"
  /\ SetStatus("COMPLETED")
  /\ \E p \in {"returning", "failing"} : Goto(w, p)
  /\ UNCHANGED <<exists, results, opVars, queue, executed, loops, apiVars>>

\* The execution fails or takes more than 14 minutes, or the database fails.
StepFails(w) ==
  /\ phase[w] \in {"claimed", "running", "inserted", "marked"}
  /\ Goto(w, "failing")
  /\ UNCHANGED <<rowVars, opVars, queue, executed, loops, apiVars>>

ReportError(w) ==
  /\ phase[w] = "failing"
  /\ SetStatus("FAILED")
  /\ Goto(w, "throwing")
  /\ UNCHANGED <<exists, results, opVars, queue, executed, loops, apiVars>>

Return(w) ==
  /\ phase[w] = "returning"
  /\ Leave(w)
  /\ UNCHANGED <<rowVars, opVars, queue, loops, apiVars>>

Throw(w) ==
  /\ phase[w] = "throwing"
  /\ BackToQueue(w)
  /\ Leave(w)
  /\ UNCHANGED <<rowVars, opVars, loops, apiVars>>

\* The invocation crashes or times out (900 s), wherever it is, and its
\* environment is gone.
Kill(w) ==
  /\ phase[w] \notin {"idle", "throwing"}
  /\ left[w] > 0 \/ "last_kill" \in Faults
  /\ BackToQueue(w)
  /\ Leave(w)
  /\ loops' = [loops EXCEPT ![w] = {}]
  /\ UNCHANGED <<rowVars, opVars, apiVars>>

------------------------------------------------------------------------------
WorkerStep(w) ==
  \/ Deliver(w) \/ ClaimRun(w) \/ ClaimFails(w) \/ Refuse(w)
  \/ ReadOperations(w) \/ InsertResults(w) \/ InsertFails(w)
  \/ SetAllAsRan(w) \/ Complete(w) \/ StepFails(w) \/ ReportError(w)
  \/ Return(w) \/ Throw(w)

\* What a request that was admitted still does.
RequestStep(c) ==
  \/ PrepNewRun(c) \/ PlanPublish(c) \/ AddCommit(c)
  \/ DeleteCommon(c) \/ DeleteEntity(c) \/ DropAllowlist(c) \/ RequestFails(c)

ClientStep(c) ==
  PlanCheck(c) \/ AddCheck(c) \/ DeleteCheck(c) \/ DropCheck(c) \/ RequestStep(c)

Next ==
  \/ \E w \in Worker : WorkerStep(w) \/ LateInsert(w) \/ Kill(w)
  \/ \E c \in Client : ClientStep(c)

Spec == Init /\ [][Next]_vars

\* A request ends, and so does an invocation; a waiting message is delivered.
FairSpec ==
  /\ Spec
  /\ \A w \in Worker : WF_vars(WorkerStep(w))
  /\ \A c \in Client : WF_vars(RequestStep(c))

(***************************************************************************)
(* An environment that asks for less than the API admits: users wait for   *)
(* each other's requests, and until no message of an earlier run is under  *)
(* way, though the row alone tells them no more than that it is finished.  *)
(***************************************************************************)
\* No message is waiting or being handled.
Quiet ==
  /\ \A n \in 0..MaxReceives : queue[n] = 0
  /\ \A w \in Worker : phase[w] = "idle"

Unoccupied == Quiet /\ \A c \in Client : api[c] = "idle"

PatientNext == Next /\ (requests' # requests => Unoccupied)

PatientSpec == Init /\ [][PatientNext]_vars

------------------------------------------------------------------------------
(* Safety *)

\* A worker that has claimed the run and will still write its outcome.
Working(w) == phase[w] \in {"claimed", "running", "inserted", "marked", "failing"}

\* At most one worker executes the run, and nobody plans another one or
\* deletes the allowlist meanwhile, when users wait (PatientSpec).
ExclusiveRun ==
  /\ \A v, w \in Worker : Working(v) /\ Working(w) => v = w
  /\ \A w \in Worker : Working(w) => status \notin {"NONE", "PENDING"}

\* hasRan "shows if the operation has already ran": an operation marked so
\* in a completed run is reflected in the results (setAllAsRan). It holds
\* when users wait, and not for every request the API admits.
RanWasExecuted == status = "COMPLETED" => ran \subseteq results

(* The inductive invariant behind them, for PatientSpec *)

\* A request has the allowlist for itself.
RequestsAlone ==
  \A c \in Client : api[c] # "idle" =>
    Quiet /\ \A d \in Client \ {c} : api[d] = "idle"

\* What the worker has read and written is still so.
WorkIsCurrent ==
  \A w \in Worker :
    /\ Working(w) /\ status = "COMPLETED" => phase[w] = "failing"
    /\ phase[w] = "running"  => executed[w] = ops
    /\ phase[w] = "inserted" => ops \subseteq results
    /\ phase[w] = "marked"   => ran \subseteq results

IInv ==
  /\ TypeOK
  /\ ExclusiveRun
  /\ RanWasExecuted
  /\ RequestsAlone
  /\ WorkIsCurrent

(* Action properties *)

\* A worker without the claim, because the allowlist "hasn't got an unclaimed
\* run", leaves the run alone: a COMPLETED one is not marked FAILED by it.
OnlyClaimantFails ==
  [][status' = "FAILED" /\ status = "COMPLETED" =>
       \E w \in Worker : Working(w) /\ phase'[w] # phase[w]]_vars

\* An allowlist that "has an active run" is not planned again: the run a
\* worker has claimed is not replaced (planRun).
ClaimedIsNotReplaced == [][status = "CLAIMED" => status' # "PENDING"]_vars

(* Liveness *)

\* An allowlist does not stay locked by its run: planning, editing and
\* deleting it become possible again.
RunEnds == (status \in Active) ~> (status \notin Active)

=============================================================================
