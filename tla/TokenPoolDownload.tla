-------------------------- MODULE TokenPoolDownload --------------------------
(***************************************************************************)
(* The life of one token pool snapshot ("token pool download"): its row in *)
(* token_pool_download, the rows it persists in token_pool_token, the      *)
(* messages that travel over SNS/SQS, the downloader lambdas that handle   *)
(* them and the API requests that create and retry the snapshot.           *)
(*                                                                         *)
(* A lambda invocation is a worker; each database write of the handler     *)
(* that another worker or a request can observe is an action of its own.   *)
(* The one transaction that matters, persisting the owners and marking the *)
(* row COMPLETED, is one action: the insert share-locks the parent row, so *)
(* no other write of the row takes effect between its statements.          *)
(***************************************************************************)
EXTENDS Integers, Sequences, Bags

CONSTANTS
  Worker,       \* downloader lambda invocations that can run at a time
  Client,       \* API requests that can be in progress at a time
  Target,       \* what the pool can be asked to be a snapshot of: the
                \* allowlist, contract, token ids and block of the parameters
  Contract,     \* the contracts of the targets
  ContractOf,   \* the contract of each target
  Snapshot,     \* the primary keys of the token_pool_token rows of a target
  TargetBlock,  \* the last block of any target; bounds the indexed block
  MaxReceives,  \* redeliveries of a message before the queue drops it
  MaxRequests,  \* bound on the add and retry requests of a behaviour
  TimeUp,       \* ticks after which an invocation may stop indexing
  LambdaLife,   \* ticks an invocation can live
  StaleAfter,   \* ticks without a heartbeat after which a row is stale
  Faults        \* the rare circumstances that are allowed, see FaultKinds

(***************************************************************************)
(* "slow_execute": allowlistCreator.execute can fail after transfer        *)
(*    indexing. "commit_ack": the acknowledgement of the persisting        *)
(*    transaction's COMMIT is lost. "slow_queue": a message waits in SQS   *)
(*    longer than the staleness limit. "readd": the operation is posted    *)
(*    again with the id of a pool that already has a row. "reuse": so is   *)
(*    one with that id and other parameters.                               *)
(***************************************************************************)
FaultKinds ==
  {"slow_execute", "commit_ack", "slow_queue", "readd", "reuse"}

ASSUME ConstantsAssumption ==
  /\ Target # {} /\ ContractOf \in [Target -> Contract]
  /\ TargetBlock \in Nat /\ MaxReceives \in Nat /\ MaxRequests \in Nat
  /\ TimeUp \in Nat /\ LambdaLife \in Nat /\ StaleAfter \in Nat \ {0}
  /\ Faults \subseteq FaultKinds

VARIABLES
  row,      \* the token_pool_download row
  tokens,   \* the keys of the pool's token_pool_token rows
  ops,      \* the targets of the committed CREATE_TOKEN_POOL operations
  tip,      \* latest block of each contract in the transfer table
  queue,    \* the bag of messages waiting in SQS (no order among them)
  phase,    \* where each worker is in the handler
  held,     \* the message each worker was invoked with and must delete
  state,    \* each worker's copy of the message's state
  path,     \* FAST (Alchemy snapshot) or SLOW (transfer history)
  entity,   \* the target in each worker's copy of the row it has claimed
  elapsed,  \* ticks each invocation has lasted, until it answers
  api,      \* where each API request is
  asked,    \* the target an add request asks for
  requests, \* requests made so far
  reused    \* has the id been posted again with other parameters? (history)

rowVars    == <<row, tokens>>
workerVars == <<phase, held, state, path, entity, elapsed>>
apiVars    == <<ops, api, asked, requests, reused>>
vars == <<row, tokens, ops, tip, queue, phase, held, state, path, entity,
          elapsed, api, asked, requests, reused>>

Status == {"NONE", "PENDING", "CLAIMED", "FAILED", "COMPLETED"}
Phases == {"idle", "delivered", "claimed", "indexing", "building",
           "persisting", "continuing", "requeued", "erroring", "throwing",
           "returning"}
ApiPhases == {"idle", "addPrepared", "addPublished",
              "checked", "recorded", "retryPrepared"}
Row   == [status: Status, target: Target, failures: Nat, age: 0..StaleAfter]
\* A starting block; the contract is not in the message, but it is known here.
StartingBlock == [of: Contract, at: 0..TargetBlock]
Blocks == Seq(StartingBlock)
State == [runs: Nat, blocks: Blocks]
Message == [runs: Nat, blocks: Blocks, left: 0..MaxReceives]

TypeOK ==
  /\ row \in Row
  /\ tokens \subseteq UNION {Snapshot[t] : t \in Target}
  /\ ops \subseteq Target
  /\ tip \in [Contract -> 0..TargetBlock]
  /\ BagToSet(queue) \subseteq Message /\ IsABag(queue)
  /\ phase \in [Worker -> Phases]
  /\ held \in [Worker -> Message]
  /\ state \in [Worker -> State]
  /\ path \in [Worker -> {"FAST", "SLOW"}]
  /\ entity \in [Worker -> Target]
  /\ elapsed \in [Worker -> 0..LambdaLife]
  /\ api \in [Client -> ApiPhases]
  /\ asked \in [Client -> Target]
  /\ requests \in 0..MaxRequests
  /\ reused \in BOOLEAN /\ (reused => "reuse" \in Faults)

FreshState == [runs |-> 0, blocks |-> <<>>]
NewRequest == [runs |-> 0, blocks |-> <<>>, left |-> MaxReceives]
NoMessage  == [runs |-> 0, blocks |-> <<>>, left |-> 0]
SomeTarget == CHOOSE t \in Target : TRUE

Init ==
  /\ row = [status |-> "NONE", target |-> SomeTarget, failures |-> 0, age |-> 0]
  /\ tokens = {}
  /\ ops = {}
  /\ tip = [c \in Contract |-> 0]
  /\ queue = EmptyBag
  /\ phase = [w \in Worker |-> "idle"]
  /\ held = [w \in Worker |-> NoMessage]
  /\ state = [w \in Worker |-> FreshState]
  /\ path = [w \in Worker |-> "FAST"]
  /\ entity = [w \in Worker |-> SomeTarget]
  /\ elapsed = [w \in Worker |-> 0]
  /\ api = [c \in Client |-> "idle"]
  /\ asked = [c \in Client |-> SomeTarget]
  /\ requests = 0
  /\ reused = FALSE

------------------------------------------------------------------------------
(* The writes of TokenPoolDownloadRepository *)

(* save replaces all but the failure history ("on duplicate key update") *)
Prepared(t) ==
  [row EXCEPT !.status = "PENDING", !.target = t, !.age = 0]

Claimed == [row EXCEPT !.status = "CLAIMED", !.age = 0]

Requeued == [row EXCEPT !.status = "PENDING", !.age = 0]

Heartbeat == [row EXCEPT !.age = 0]

FailureRecorded == [row EXCEPT !.failures = @ + 1]

Completed == [row EXCEPT !.status = "COMPLETED", !.age = 0]

Errored ==
  [row EXCEPT !.status = "FAILED", !.failures = row.failures + 1,
               !.age = 0]

(* isStale: only a PENDING or CLAIMED row without a recent heartbeat *)
Stale == row.status \in {"PENDING", "CLAIMED"} /\ row.age = StaleAfter

\* Mutant: "insert ignore".
NeverConflict(w) == FALSE

(* insert has no "on duplicate key": one row in common fails the lot. The  *)
(* keys are of the pool, the allowlist, the owner and the token, and rows  *)
(* of an earlier target stay: other targets may or may not have some.      *)
Conflict(w) == tokens \cap Snapshot[entity[w]] # {}

(***************************************************************************)
(* Messages.                                                               *)
(***************************************************************************)
Publish(m) == queue' = queue (+) SetToBag({m})

\* The invocation failed: the message becomes visible again, until it has
\* been received too often.
BackToQueue(m) ==
  IF m.left > 0 THEN Publish([m EXCEPT !.left = @ - 1])
                ELSE UNCHANGED queue

Goto(w, p) ==
  /\ phase' = [phase EXCEPT ![w] = p]
  /\ UNCHANGED <<held, state, path, entity, elapsed>>

\* The handler is about to answer: what it computed is no longer used.
Finish(w, answer) ==
  /\ phase' = [phase EXCEPT ![w] = answer]
  /\ state' = [state EXCEPT ![w] = FreshState]
  /\ path'  = [path EXCEPT ![w] = "FAST"]
  /\ entity' = [entity EXCEPT ![w] = SomeTarget]
  /\ elapsed' = [elapsed EXCEPT ![w] = 0]
  /\ UNCHANGED held

Leave(w) ==
  /\ phase' = [phase EXCEPT ![w] = "idle"]
  /\ held'  = [held EXCEPT ![w] = NoMessage]
  /\ state' = [state EXCEPT ![w] = FreshState]
  /\ path'  = [path EXCEPT ![w] = "FAST"]
  /\ entity' = [entity EXCEPT ![w] = SomeTarget]
  /\ elapsed' = [elapsed EXCEPT ![w] = 0]

------------------------------------------------------------------------------
(* API requests: adding the operation (addBatch), deleting it, retrying *)

ApiGoto(c, p) == api' = [api EXCEPT ![c] = p]

\* addBatch prepares the row on another connection than its transaction's.
\* It does not ask whether the id is in use: clients that choose a new one
\* for each operation never meet a row.
AddPrepare(c) ==
  /\ api[c] = "idle" /\ requests < MaxRequests
  /\ \E t \in Target :
       /\ \/ row.status = "NONE"
          \/ "readd" \in Faults /\ t = row.target
          \/ "reuse" \in Faults
       /\ row' = Prepared(t)
       /\ asked' = [asked EXCEPT ![c] = t]
       /\ reused' = (reused \/ (row.status # "NONE" /\ t # row.target))
  /\ requests' = requests + 1
  /\ ApiGoto(c, "addPrepared")
  /\ UNCHANGED <<tokens, ops, tip, queue, workerVars>>

AddPublish(c) ==
  /\ api[c] = "addPrepared"
  /\ Publish(NewRequest)
  /\ ApiGoto(c, "addPublished")
  /\ UNCHANGED <<rowVars, ops, tip, workerVars, asked, requests, reused>>

AddCommit(c) ==
  /\ api[c] = "addPublished"
  /\ ops' = ops \cup {asked[c]}
  /\ asked' = [asked EXCEPT ![c] = SomeTarget]
  /\ ApiGoto(c, "idle")
  /\ UNCHANGED <<rowVars, tip, queue, workerVars, requests, reused>>

\* The transaction is rolled back; the row and the message stay.
AddRollback(c) ==
  /\ api[c] \in {"addPrepared", "addPublished"}
  /\ asked' = [asked EXCEPT ![c] = SomeTarget]
  /\ ApiGoto(c, "idle")
  /\ UNCHANGED <<rowVars, ops, tip, queue, workerVars, requests, reused>>

\* Deleting the operation leaves the download, its tokens and its messages.
DeleteOperation ==
  /\ \E t \in ops : ops' = ops \ {t}
  /\ UNCHANGED <<rowVars, tip, queue, workerVars, api, asked, requests, reused>>

\* Mutant: the status of the row is not checked.
RetryAnyStatus(c) ==
  /\ api[c] = "idle" /\ requests < MaxRequests
  /\ row.status # "NONE"
  /\ requests' = requests + 1
  /\ ApiGoto(c, IF Stale THEN "checked" ELSE "recorded")
  /\ UNCHANGED <<rowVars, ops, tip, queue, workerVars, asked, reused>>

RetryCheck(c) ==
  /\ api[c] = "idle" /\ requests < MaxRequests
  /\ row.status = "FAILED" \/ Stale
  /\ requests' = requests + 1
  /\ ApiGoto(c, IF row.status = "FAILED" THEN "recorded" ELSE "checked")
  /\ UNCHANGED <<rowVars, ops, tip, queue, workerVars, asked, reused>>

RetryRecord(c) ==
  /\ api[c] = "checked"
  /\ row' = FailureRecorded
  /\ ApiGoto(c, "recorded")
  /\ UNCHANGED <<tokens, ops, tip, queue, workerVars, asked, requests, reused>>

\* Mutant: the first CREATE_TOKEN_POOL operation, whatever its id.
RetryPrepareAny(c) ==
  /\ api[c] = "recorded"
  /\ ops # {}
  /\ \E t \in Target : row' = Prepared(t)
  /\ ApiGoto(c, "retryPrepared")
  /\ UNCHANGED <<tokens, ops, tip, queue, workerVars, asked, requests, reused>>

RetryPrepare(c) ==
  /\ api[c] = "recorded"
  /\ \E t \in ops : row' = Prepared(t)
  /\ ApiGoto(c, "retryPrepared")
  /\ UNCHANGED <<tokens, ops, tip, queue, workerVars, asked, requests, reused>>

RetryPublish(c) ==
  /\ api[c] = "retryPrepared"
  /\ Publish(NewRequest)
  /\ ApiGoto(c, "idle")
  /\ UNCHANGED <<rowVars, ops, tip, workerVars, asked, requests, reused>>

\* 404 because the operation is gone, or the database, SNS or the lambda fails.
RetryAbort(c) ==
  /\ api[c] \in {"checked", "recorded", "retryPrepared"}
  /\ ApiGoto(c, "idle")
  /\ UNCHANGED <<rowVars, ops, tip, queue, workerVars, asked, requests, reused>>

------------------------------------------------------------------------------
(* The downloader lambda *)

\* handler: runsCount must agree with startingBlocks, and is then increased.
Deliver(w) ==
  /\ phase[w] = "idle"
  /\ \E m \in BagToSet(queue) :
       /\ queue' = queue (-) SetToBag({m})
       /\ held' = [held EXCEPT ![w] = m]
       /\ state' = [state EXCEPT ![w] = [runs   |-> m.runs + 1,
                                         blocks |-> m.blocks]]
       /\ phase' = [phase EXCEPT ![w] = IF m.runs = Len(m.blocks)
                                          THEN "delivered" ELSE "throwing"]
  /\ UNCHANGED <<rowVars, tip, path, entity, elapsed, apiVars>>

\* Mutant: the claim's query does not ask for status PENDING.
ClaimAnyStatus(w) ==
  /\ phase[w] = "delivered"
  /\ row.status \in {"PENDING", "CLAIMED"}
  /\ row' = Claimed
  /\ phase' = [phase EXCEPT ![w] = "claimed"]
  /\ entity' = [entity EXCEPT ![w] = row.target]
  /\ UNCHANGED <<tokens, tip, queue, held, state, path, elapsed, apiVars>>

\* The handler goes on with the copy of the row that the claim returns.
Claim(w) ==
  /\ phase[w] = "delivered"
  /\ row.status = "PENDING"
  /\ row' = Claimed
  /\ phase' = [phase EXCEPT ![w] = "claimed"]
  /\ entity' = [entity EXCEPT ![w] = row.target]
  /\ UNCHANGED <<tokens, tip, queue, held, state, path, elapsed, apiVars>>

\* No PENDING row, or the row is locked by a persisting transaction
\* (skip locked): the message is consumed.
NothingToClaim(w) ==
  /\ phase[w] = "delivered"
  /\ \/ row.status # "PENDING"
     \/ \E v \in Worker : phase[v] = "persisting"
  /\ Finish(w, "returning")
  /\ UNCHANGED <<rowVars, tip, queue, apiVars>>

\* Mutant: reprocessing is not detected.
NeverProcessed(w) == FALSE

\* Probe Alchemy, read the latest indexed block, detect a run that would
\* start where the previous one started, and choose the path.
AlreadyProcessed(w) ==
  /\ state[w].blocks # <<>>
  /\ state[w].blocks[Len(state[w].blocks)].at = tip[ContractOf[entity[w]]]

RefuseReprocessing(w) ==
  /\ phase[w] = "claimed"
  /\ AlreadyProcessed(w)
  /\ row' = Errored
  /\ Finish(w, "throwing")
  /\ UNCHANGED <<tokens, tip, queue, apiVars>>

Begin(w) ==
  /\ phase[w] = "claimed"
  /\ ~AlreadyProcessed(w)
  /\ row' = Heartbeat
  /\ LET c == ContractOf[entity[w]] IN
       state' = [state EXCEPT ![w].blocks = Append(@, [of |-> c, at |-> tip[c]])]
  /\ \E p \in {"FAST", "SLOW"} :
       /\ path' = [path EXCEPT ![w] = p]
       /\ phase' = [phase EXCEPT ![w] = IF p = "FAST" THEN "building"
                                                      ELSE "indexing"]
  /\ UNCHANGED <<tokens, tip, queue, held, entity, elapsed, apiVars>>

\* doTransferType: save a page of transfers, a heartbeat whether or not it
\* has brought something; after five minutes give up the rest to a
\* continuation. (Two types of transfers have five minutes each.)
IndexPage(w) ==
  /\ phase[w] = "indexing"
  /\ LET c == ContractOf[entity[w]] IN
       \E n \in tip[c]..TargetBlock : tip' = [tip EXCEPT ![c] = n]
  /\ row' = Heartbeat
  /\ \/ elapsed[w] < LambdaLife /\ Goto(w, "indexing")
     \/ elapsed[w] >= TimeUp /\ Goto(w, "continuing")
  /\ UNCHANGED <<tokens, queue, apiVars>>

IndexDone(w) ==
  /\ phase[w] = "indexing"
  /\ row' = Heartbeat
  /\ Goto(w, "building")
  /\ UNCHANGED <<tokens, tip, queue, apiVars>>

Requeue(w) ==
  /\ phase[w] = "continuing"
  /\ row' = Requeued
  /\ Goto(w, "requeued")
  /\ UNCHANGED <<tokens, tip, queue, apiVars>>

\* Mutant: the message does not carry the state.
PublishWithoutState(w) ==
  /\ phase[w] = "requeued"
  /\ Publish(NewRequest)
  /\ Finish(w, "returning")
  /\ UNCHANGED <<rowVars, tip, apiVars>>

PublishContinuation(w) ==
  /\ phase[w] = "requeued"
  /\ Publish([runs   |-> state[w].runs, blocks |-> state[w].blocks,
              left   |-> MaxReceives])
  /\ Finish(w, "returning")
  /\ UNCHANGED <<rowVars, tip, apiVars>>

ExecuteSucceeds(w) ==
  /\ phase[w] = "building"
  /\ row' = Heartbeat
  /\ Goto(w, "persisting")
  /\ UNCHANGED <<tokens, tip, queue, apiVars>>

\* The error is written, then rethrown: on the SLOW path start() catches it
\* and writes it again; on the FAST path the promise was not awaited there.
ExecuteFails(w) ==
  /\ phase[w] = "building"
  /\ path[w] = "FAST" \/ "slow_execute" \in Faults
  /\ row' = Errored
  /\ IF path[w] = "FAST" THEN Finish(w, "throwing") ELSE Goto(w, "erroring")
  /\ UNCHANGED <<tokens, tip, queue, apiVars>>

Persist(w) ==
  /\ phase[w] = "persisting"
  /\ ~Conflict(w)
  /\ tokens' = tokens \cup Snapshot[entity[w]]
  /\ row' = Completed
  /\ \/ Finish(w, "returning")
     \/ "commit_ack" \in Faults /\ Goto(w, "erroring")
  /\ UNCHANGED <<tip, queue, apiVars>>

\* Mutant: the owners are not inserted on the transaction's connection.
PersistFailsHalfway(w) ==
  /\ phase[w] = "persisting"
  /\ tokens' = tokens \cup Snapshot[entity[w]]
  /\ Goto(w, "erroring")
  /\ UNCHANGED <<row, tip, queue, apiVars>>

\* A duplicate key or any database error: rollback.
PersistFails(w) ==
  /\ phase[w] = "persisting"
  /\ Goto(w, "erroring")
  /\ UNCHANGED <<rowVars, tip, queue, apiVars>>

\* A call of the handler rejects before the snapshot is built.
StepFails(w) ==
  /\ phase[w] \in {"claimed", "indexing", "building"}
  /\ IF phase[w] = "building" /\ path[w] = "FAST"
       THEN Finish(w, "throwing") ELSE Goto(w, "erroring")
  /\ UNCHANGED <<rowVars, tip, queue, apiVars>>

\* changeStatusToError, and start() returns the error.
ReportError(w) ==
  /\ phase[w] = "erroring"
  /\ row' = Errored
  /\ Finish(w, "throwing")
  /\ UNCHANGED <<tokens, tip, queue, apiVars>>

Return(w) ==
  /\ phase[w] = "returning"
  /\ Leave(w)
  /\ UNCHANGED <<rowVars, tip, queue, apiVars>>

Throw(w) ==
  /\ phase[w] = "throwing"
  /\ BackToQueue(held[w])
  /\ Leave(w)
  /\ UNCHANGED <<rowVars, tip, apiVars>>

\* The invocation times out (900 s) or crashes, wherever it is.
Kill(w) ==
  /\ phase[w] \notin {"idle", "throwing"}
  /\ BackToQueue(held[w])
  /\ Leave(w)
  /\ UNCHANGED <<rowVars, tip, apiVars>>

------------------------------------------------------------------------------
(***************************************************************************)
(* Time passes in ticks. An invocation is killed when its life is over and *)
(* an API request, which lives for seconds, is over before the next tick.  *)
(* SQS hands a message out before the row of which it is the only one      *)
(* could go stale, unless "slow_queue" is allowed. Whether a row goes      *)
(* stale then depends on the heartbeats alone.                             *)
(***************************************************************************)
Undelivered == BagToSet(queue) # {} \/ \E w \in Worker : phase[w] # "idle"

Running(w) == phase[w] \notin {"idle", "returning", "throwing"}

Tick ==
  /\ \A c \in Client : api[c] = "idle"
  /\ \A w \in Worker : Running(w) => elapsed[w] < LambdaLife
  /\ \/ \E w \in Worker : Running(w)
     \/ row.status \in {"PENDING", "CLAIMED"} /\ row.age < StaleAfter
  /\ row' = [row EXCEPT !.age =
       IF /\ row.status \in {"PENDING", "CLAIMED"}
          /\ row.age < StaleAfter
          /\ \/ row.status = "CLAIMED" \/ row.age + 1 < StaleAfter
             \/ ~Undelivered \/ "slow_queue" \in Faults
         THEN @ + 1 ELSE @]
  /\ elapsed' = [w \in Worker |-> IF Running(w) THEN elapsed[w] + 1 ELSE 0]
  /\ UNCHANGED <<tokens, tip, queue, phase, held, state, path, entity, apiVars>>

WorkerStep(w) ==
  \/ Deliver(w) \/ Claim(w) \/ NothingToClaim(w)
  \/ RefuseReprocessing(w) \/ Begin(w)
  \/ IndexPage(w) \/ IndexDone(w) \/ Requeue(w) \/ PublishContinuation(w)
  \/ ExecuteSucceeds(w) \/ ExecuteFails(w)
  \/ Persist(w) \/ PersistFails(w) \/ StepFails(w) \/ ReportError(w)
  \/ Return(w) \/ Throw(w)

ClientStep(c) ==
  \/ AddPrepare(c) \/ AddPublish(c) \/ AddCommit(c) \/ AddRollback(c)
  \/ RetryCheck(c) \/ RetryRecord(c) \/ RetryPrepare(c) \/ RetryPublish(c)
  \/ RetryAbort(c)

Next ==
  \/ \E w \in Worker : WorkerStep(w) \/ Kill(w)
  \/ \E c \in Client : ClientStep(c)
  \/ DeleteOperation
  \/ Tick

Spec == Init /\ [][Next]_vars

\* Lambdas run to their end, a request ends (it answers or its 30 seconds
\* are over) and time passes. Nobody is obliged to send a request.
RequestEnds(c) == api[c] # "idle" /\ ClientStep(c)

FairSpec ==
  /\ Spec
  /\ \A w \in Worker : WF_vars(WorkerStep(w))
  /\ \A c \in Client : WF_vars(RequestEnds(c))
  /\ WF_vars(Tick)

------------------------------------------------------------------------------
(* Safety *)

\* A worker that owns the claim: it will still write the row on behalf of it.
Live(w) == phase[w] \in {"claimed", "indexing", "building", "persisting",
                         "continuing", "erroring"}

\* At most one invocation works on the snapshot, and the row says CLAIMED
\* while it does (claim ... for update skip locked).
ExclusiveClaim ==
  /\ \A v, w \in Worker : Live(v) /\ Live(w) => v = w
  /\ \A w \in Worker : Live(w) => row.status = "CLAIMED"

\* A COMPLETED row comes with exactly the owners of the target it names,
\* whoever else persisted, failed or prepared it again meanwhile, as long as
\* the id has not been posted again with other parameters.
CompletedHasSnapshot ==
  row.status = "COMPLETED" /\ ~reused => tokens = Snapshot[row.target]

\* Whatever is posted: the owners stored are those of whole snapshots, none
\* of which has lost a row to another, and a COMPLETED row has one at least.
\* (After "reuse" they can be those of an earlier target, or of both.)
StoredInWholeSnapshots ==
  \E D \in SUBSET Target :
    /\ tokens = UNION {Snapshot[t] : t \in D}
    /\ \A s, t \in D : s # t => Snapshot[s] \cap Snapshot[t] = {}
    /\ row.status = "COMPLETED" => D # {}

\* A snapshot that is not COMPLETED has left no owners behind, so that the
\* retry the API offers for it can succeed.
UnfinishedLeavesNothing == row.status # "COMPLETED" => tokens = {}

\* The messages a worker sends pass the handler's "Invalid state" check, and
\* every continuation starts at a later block than the one before it, unless
\* the pool was given another contract in between.
ContinuationsAdvance ==
  \A m \in BagToSet(queue) :
    LET b == m.blocks IN
      /\ m.runs = Len(b)
      /\ \A i \in 1..(Len(b) - 1) :
           b[i].of = b[i + 1].of => b[i].at < b[i + 1].at

(* The inductive invariant behind ExclusiveClaim and UnfinishedLeavesNothing *)

\* The circumstances under which they hold.
Calm ==
  /\ Faults = {} /\ LambdaLife < StaleAfter
  /\ \A c, d \in Client : c = d

\* An invocation that has claimed the row is younger than its last heartbeat.
HeartbeatsOfTheLiving == \A w \in Worker : Live(w) => row.age <= elapsed[w]

\* A PENDING row that is stale has no message and nobody at work, so that
\* nobody will claim it while a retry prepares it.
StaleIsDeserted ==
  row.status = "PENDING" /\ row.age = StaleAfter =>
    /\ ~Undelivered
    /\ \A c \in Client : api[c] \notin {"addPrepared", "retryPrepared"}

\* What a retry found when it read the row is still so when it writes it.
RetryStillJustified ==
  \A c \in Client :
    /\ api[c] = "checked" => Stale
    /\ api[c] = "recorded" => row.status = "FAILED" \/ Stale

\* While an id has one target, whoever works on the snapshot or asks for it
\* means the one the row names.
OneTarget ==
  ~reused =>
    /\ \A w \in Worker : Live(w) => entity[w] = row.target
    /\ \A c \in Client : api[c] \in {"addPrepared", "addPublished"} =>
         asked[c] = row.target /\ row.status # "NONE"
    /\ ops \subseteq {row.target}
    /\ row.status = "NONE" =>
         tokens = {} /\ ops = {} /\ \A w \in Worker : ~Live(w)

IInv ==
  /\ TypeOK
  /\ ExclusiveClaim
  /\ CompletedHasSnapshot
  /\ UnfinishedLeavesNothing
  /\ HeartbeatsOfTheLiving
  /\ StaleIsDeserted
  /\ RetryStillJustified
  /\ OneTarget

(* Action properties *)

\* A completed download "cannot be retried": its row is final.
CompletedIsFinal ==
  [][row.status = "COMPLETED" => row'.status = "COMPLETED"]_vars

\* failure_count grows once per failed attempt: never on a row that already
\* says FAILED, and never by more than one.
FailureCountedOnce ==
  [][row'.failures # row.failures =>
       row.status # "FAILED" /\ row'.failures = row.failures + 1]_vars

(* The abstract job that the row implements *)

Job == INSTANCE SnapshotJob WITH job <- row.status,
                                 wanted <- row.target,
                                 owners <- tokens,
                                 failures <- row.failures

\* While the rare faults stay away and one request is served at a time, the
\* distributed handling of a snapshot looks like one job.
ImplementsSnapshotJob == Job!JobSpec

(* Liveness *)

\* The API reports every snapshot as finished, failed or retryable in the
\* end; none stays in progress for ever.
Settled == row.status \in {"COMPLETED", "FAILED"} \/ Stale

EventuallySettled == (row.status \in {"PENDING", "CLAIMED"}) ~> Settled

==============================================================================
