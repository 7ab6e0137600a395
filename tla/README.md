# Verification of the allowlist API

TLA+ models of the 6529 allowlist API, the TLC runs that check them and the
theorems that TLAPS proves about them. Paths below are relative to the
repository; line numbers are those of `PROJECT.json`, whose `map` names the
code behind every definition.

## The system

An *allowlist* is a list of *operations* (create a token pool, add a phase,
map results to delegated wallets, ...). A *run* executes the operations with
the `@6529-collections/allowlist-lib` library and stores the outcome in result
tables. An operation that creates a token pool first needs a *snapshot* of the
pool's owners at a block (a "token pool download").

In production three lambdas share one MySQL database (`serverless-prod.yaml`):
the API (timeout 30 s), the worker that executes runs and the downloader that
makes snapshots (900 s each). The API starts the other two by messages through
SNS and SQS FIFO. Each message gets a random group id (`src/sns/sns.service.ts`), so
there is no order among messages and nothing keeps two of them from being
handled at once. An invocation that fails or times out makes SQS deliver its
message again.

### Components

| component | state | operations | what is hard | correct when |
|---|---|---|---|---|
| snapshots (`src/token-pool`, `src/api/token-pool-download`) | `token_pool_download` row: status, claims, failures, progress; `token_pool_token` rows | prepare, publish, claim, index a page, requeue, execute, persist, fail, retry | lambdas that die or run out of time, continuations, duplicate messages, retries against late lambdas | one lambda at a time; a COMPLETED row has exactly its owners; nothing stays in progress for ever |
| runs (`src/runner`, `src/api/allowlist`) | `allowlist_run` row, result tables, `has_ran` | plan, claim, execute, insert, mark, complete, fail | checks outside of the transaction, redelivery, partial failure | one worker at a time; what is marked as ran is in the results; every run ends |
| operations (`src/api/operation`) | `allowlist_operation` rows: order, `has_ran` | add a batch, delete by order, delete an entity | concurrent renumbering from snapshot reads | orders are distinct, MAP is last, what ran precedes what did not |
| allowlists (`src/api/allowlist`) | `allowlist`, `allowlist_user` | create within a limit, delete | limit counted before the insert; delete against a run | limit kept; nothing left behind |
| transfers (`src/repository/transfer`, `src/token-pool`) | `transfer` rows per contract and type | latest block, insert a page | two types advance separately, downloads of several pools together; a page may end inside a block | no gaps; snapshots of the whole history |
| block prediction (`src/api/other`, `src/etherscan-api`) | cache and pending requests per bucket | get block time | coalesced requests, expiry, failed fetches | a failure is not cached; one fetch per bucket |
| token id listing (`src/api/other`, `src/transpose-api`, `src/alchemy-api`) | pages of one request | collect, fall back, format | repeated tokens, endless pages, fallback in the middle | terminates within limits; ranges denote the ids |
| provider clients (`src/alchemy-api`, `src/etherscan-api`) | attempts of one call | request, retry | temporary against permanent failures | bounded attempts |
| database access (`src/repository/db.ts`) | pool of 5 connections | get, query, end | hold and wait, double end | no request waits for ever |
| result tables (`src/runner`, `src/repository`) | rows of pools, phases, components, items and winners | insert by concurrent loops on one connection, empty, query | loops that go on after a failure; queries on several connections | all rows of one run or none |
| unique wallet counts (`src/api/allowlist`) | none | count a draft's wallets | reads winners that are being inserted | counts with all winners of one run |
| deployment (`scripts`, `.github/workflows`) | functions' code and configuration, a job's tree | build, package, verify, update, smoke test | simultaneous jobs, edits in the console, idle functions | settings kept; only verified packages; workers before the API |
| authentication, Seize client, SNS client, configuration | none | | | |

Interactions: the API writes a row and sends a message (`RunnerProxy.start`,
`TokenPoolAsyncDownloader.start`); the lambda claims the row with `SELECT ...
FOR UPDATE SKIP LOCKED` and reports in it; a downloader that runs out of time
sends a message to itself; adding an operation starts a snapshot inside the
transaction that adds it; a run reads the snapshots' owners.

## Modules

| module | models |
|---|---|
| `TokenPoolDownload` | one snapshot, its messages, any number of downloader lambdas and API requests |
| `SnapshotJob` | the abstract job a snapshot promises to be |
| `AllowlistRun` | one allowlist: its run, its operations as a set, its messages, workers and requests |
| `AllowlistOperations` | order and `has_ran` of the operations, under MySQL's REPEATABLE READ |
| `TransferIndexing` | several downloads that index the transfers of one contract page by page |
| `TransferHistory` | the abstract history: it grows without gaps and answers with the whole of it |
| `ResultTables` | the inserts of each run's worker on its connection, and what clients see meanwhile; extends `UniqueWallets` |
| `UniqueWallets` | how many wallets a draft of operations leaves in each phase |
| `Allowlists` | creation within the limit, access, deletion and batches, over a pool of connections |
| `BlockPrediction` | predictions of block numbers, and the cache of block times they share |
| `ContractQueries` | token id lists and metadata of a contract, asked of two providers |
| `UpstreamProviders` | the kinds of failures and how they are reported; used by the two before |
| `Deployment` | jobs that release the lambda functions |
| `...Proofs` | proofs about the module they are named after, eight in all |
| `MC...` | constants of the instances that TLC checks |

Modules compose where one component relies on another: `TokenPoolDownload`
has the requests that add operations around a snapshot, `AllowlistRun` those that race with a run;
`TransferIndexing` is the loop inside `TokenPoolDownload`'s `IndexPage` and relies on one invocation per pool,
`ResultTables` is what `AllowlistRun` has as its insertion and relies on one worker per run;
both of these are what `ExclusiveClaim` and `ExclusiveRun` say, under their assumptions.

### TokenPoolDownload

`row` is the row (`row.status = "NONE"`: no row, `row.target`: what it asks for), `tokens` the keys of the persisted owners,
`ops` the targets of committed operations, `reused` whether other parameters have been posted for the pool id (a history variable), `tip` the latest indexed block of each contract, `queue` the bag of waiting messages. A *target*
is what the parameters ask for: allowlist, contract, token ids and block. `Snapshot` gives the primary keys a target's owners get, which are hashes
of the pool, the owner, the allowlist and the token, so that two targets of one pool may or may not share some (`Conflict`). A worker is a lambda
invocation: `phase` is where it is in the handler, `held` its message, `state` its copy of the message's state, `entity` the target in
its copy of the row, with which it goes on whatever the row says later. Each write another invocation or request can see
is an action; the transaction that persists the owners and completes the row is
one action, because its locks hide what is between. `AddPrepare`, `AddPublish`,
`AddCommit` and `AddRollback` are `addBatch` around the snapshot;
`RetryCheck`, `RetryRecord`, `RetryPrepare`, `RetryPublish` the retry, with its check
separate from its writes as in the code. The operators `Prepared`, `Claimed`,
`Requeued`, `Errored` ... are the statements of the repository class.

Time passes in ticks (`Tick`). `row.age` counts the ticks since the row's last heartbeat, and every write that is a heartbeat in the code resets it; a
row is stale when its age is `StaleAfter`, and in no other way. `elapsed` counts the ticks of an invocation: from `TimeUp` on it may leave the rest to a
continuation, at `LambdaLife` it has ended or is killed. A request takes less than a tick. A waiting message is handed out before its row goes stale,
unless `slow_queue` is allowed.

Rare circumstances are named in `Faults` so that a run or theorem says which it assumes away: `slow_execute` (the library fails
after indexing), `commit_ack` (the acknowledgement of the persisting commit is lost), `slow_queue`, `readd` (an operation is posted again with a pool id
that has a row) and `reuse` (the same with other parameters).

Abstractions: the two transfer types (single, batch) are one block number here,
so `IndexPage` stands for a page of either (`TransferIndexing` has both); the database's rows of another pool do not exist.

### AllowlistRun

`status` is the run's status ("NONE": no row), `results` the operations whose
effects the result tables show, `ops` and `ran` the operations and those with
`has_ran`. An API request checks the state in one action and writes in a later
one. Transactions are one action. `Refuse` is the catch block of `claimRun`, which a
message without PENDING run reaches because the destructuring of an empty answer
throws. After `InsertFails` the other loops of the `Promise.all` go on without the rolled back transaction: `loops` is what they still have, and
`LateInsert` one of their rows that is committed by itself, while the error is reported or in a later invocation of the same environment, into whatever run
there is by then. Circumstances in `Faults`: `duplicate`, `publish_fails`, `last_kill` (an invocation dies on the last delivery).

`Spec` admits every request that the API admits. `PatientSpec` is the same with users who make a new request only when no other one is in progress and no message
of an earlier run is under way (`Unoccupied`). The API does not ask that of them and cannot know it from the row; it is an assumption about the environment,
and each property says which of the two it is about.

### AllowlistOperations

`table` is what is committed. A SELECT of a transaction reads the snapshot of its
first SELECT (`snapped`, `snap`) overlaid with what the transaction changed
(`touched`), an UPDATE reads and locks what is committed (`lock`, `work`). `Insert` is one turn
of `addBatch`'s loop from the increment to `ensureLatestOperationIsMapToDelegatedWallets`; the SELECT of
the latest order before it is an action of its own, because other
transactions can commit between it and the lock. `DeleteRead` is the list read
outside of the transaction; `DeleteCommon` and `DeleteEntity` the two
transactions. What `removeEntity` (library) keeps is any subset without the chosen operation.
`RunMarks` is what runs do to `has_ran`, see `AllowlistRun`.

`StaleDeletes` says whether a delete may commit between an adding request's first
SELECT and its first UPDATE. When it may, the code can give two operations one
order and leave MAP before another operation, see "Disagreements".

### TransferIndexing

A log is its number among the logs of its type; `saved` are the rows of the `transfer` table.
A download asks for the latest block of each type, then fetches a page, saves it,
and starts the next at the block the table ends with; `key` is the last log of the page before,
by which it sees that a page brings nothing new. `starting` are the blocks a continuation carries: one
that has not advanced ends in an error (`RefuseReprocessing`). A snapshot (`Execute`) reads all
rows up to its block. Any step may fail and be retried. Etherscan is external. `BlocksFitPages` assumes
that no block has as many logs of a type as a page (10000): the library ends its pages early at such a block.

### ResultTables and UniqueWallets

`insertResults` starts one `createMany` per table in a `Promise.all`, all on one connection.
`commands` is what that connection has been sent, in order; executing an INSERT answers the loop that waits for
it, which sends its next one, or the commit when it is the last loop. A failure makes the code roll back but
does not stop the other loops, whose statements are then committed one by one. `Break` loses the connection. A worker is
named by its run. The client polls, then asks the tables in any order (`GetPools` ... `GetItems`), or counts a draft's wallets
(`CountUniqueWallets`, with `UniqueWalletsCount`). The four tables of pools are one table, and a row is
a run and a number.

### Allowlists

`phase` is the next await of each request. A query of its own takes a connection and gives it back in one
step; a transaction holds one (`held`), and a batch asks for a second meanwhile. Creating counts the lists of all
consolidated wallets (`count`), then inserts in a transaction (`create`, `saveList`, `saveUser`); a request about a list is
checked (`Intercept`) on one connection and served on another. `AcquireTimeout` is the pool's, `StepFails` any query that fails.

### BlockPrediction

JavaScript runs one continuation at a time, so an action is what happens between two awaits. `pending` are
the requests in progress per window of blocks, a promise being named by the request that started it; `joined` says who
awaits whom; `cache` keeps a sample until it expires. `Settle` resumes all who wait. `Respond` gives the predictions of a range of
timestamps; numbers are searched for as strings of digits (`Digits`, `IndexOf`), in order of blocks, which the set of matches leaves out.

### ContractQueries

One question at a time: pages from Transpose and, after a failure of it, all over again from Alchemy. A token id is a text: a number and how it is
spelt, decimal (`Written`) or in another way that the checks of the clients let pass, with leading zeros or, from Alchemy, in hexadecimal. `OddPageArrives` is a
page that fits no view: repeated, unordered or differently spelt ids, a continuation seen before, one that never ends. Bounds on pages and
tokens end a listing; HTTP attempts are bounded. `FormatNumberRange` drops repeated texts, as the code's `Set` does, then sorts by number and makes
ranges (`RangesOf`). The names of its variables and actions differ from those of `BlockPrediction`, whose proofs are in the same module. Metadata comes from Alchemy with
the texts kept in the code for the canonical contract.

### Deployment

Every job has its own tree (`dist`, `archive`, `maps`); functions are shared. `UpdateCode` and `UpdateConfiguration`
name a revision and are refused when it is old. Workflow runs share one concurrency group: one runs,
the last queued one waits and cancels an earlier queued one (`Dispatch`, `Start`); a developer's job is not in the group. `Edit` is an operator in the console, `Activated` the end of a cold start. Lambda itself is external.

## What TLC checks

| run | question | bounds |
|---|---|---|
| `download_single` | does the handling implement the job, exclusively and cleanly? | 2 lambdas, requests one at a time, 2 in all, 1 redelivery, 2 targets of one contract that share a key, 1 block, a lambda's life of 1 tick and staleness after 2, no rare faults |
| `download_posted` | does a COMPLETED row have exactly its owners, whatever is posted are the stored owners whole snapshots, do continuations advance, does every snapshot complete, fail or become retryable? | 2 lambdas, requests one at a time, 2 in all, 3 targets of 2 contracts, two of them with a key in common, a lambda's life of 1 tick and staleness after 2, every fault |
| `run_calm` | one worker at a time, results match `has_ran`, when users wait? | `PatientSpec`, 2 workers, 2 clients, 3 operations, 6 requests, 2 redeliveries, every fault |
| `run_settles` | does every run end? | 2 workers, 2 simultaneous requests, 3 in all, 1 redelivery, `duplicate` |
| `run_unclaimed` | does only the claimant fail a run? Violated: the refused claim writes FAILED | 2 workers, 2 requests one at a time, no faults |
| `operations_lists` | orders distinct, MAP last, others in order, what ran first? | 2 simultaneous requests, 4 in all, batches of 2, 5 operations, 2 of them MAP, given orders 1 and 3 |
| `transfers` | no gaps, whole snapshots, errors only without progress, the abstract history, an end? | 2 downloads to blocks 2 and 4 of an ERC1155 contract, pages of 3 that end inside blocks, 1 retry each |
| `results` | does a client see whole runs, do counts use whole runs, does every insertion end? | 2 runs with 2 winners each, two drafts, one of them of 2 phases |
| `allowlists` | limit, one owner each, only owners change, every request answered? | 2 requests, 2 consolidated wallets, limit 1, 3 lists, 2 connections |
| `blocks` | no stale or stuck entry, right predictions and matches, every request answered? | 3 requests, 2 windows, lifetime 1, 2 attempts, timestamps at and after the present |
| `contracts` | is an answer one provider's view, are only large lists refused, is every question answered? | 4 tokens, one of them in two spellings, pages of 2 and 1, 2 pages, 4 ids, 2 attempts |
| `deployment` | settings kept, verified packages, workers first, smoke tests of the own release? | 2 workflow runs for the worker, a developer's job for both functions, 1 edit |

Why these bounds: two invocations and two requests are what the races need; one redelivery makes a message arrive
twice; one block makes one continuation, two targets with a key in common and one of another contract all that a second persist can meet; two connections are held by two batches
that each want another; pages of 3 end both inside and between blocks; two runs are needed for the leftovers of one to
meet the next; three requests let one start a fetch, one join it and one come after it. `download_posted` lets the first target asked for be a fixed one
(`EarlyFirst`), as the others differ in name only; simultaneous requests, and lambdas that live longer than the staleness limit, are covered by the theorems about its three invariants. Each property has a mutant of
the code, a plausible slip in a definition it depends on, with which the same run finds it violated.

The runs of `TokenPoolDownload`, `AllowlistRun`, `AllowlistOperations`, `TransferIndexing`, `ResultTables` and `Deployment` have
`CHECK_DEADLOCK FALSE`: with the bound on requests, retries or jobs reached, the system really is idle. In the others somebody can always come,
and deadlock is checked. That connections are not waited for in a circle for ever is `RequestsAreAnswered`.

Properties under an assumption: `download_single` allows one request at a time, lambdas that do not outlive the staleness limit and no rare fault,
`CompletedHasSnapshot` that no other parameters have been posted for the pool id, `run_calm` users who wait (`PatientSpec`), `operations_lists` no stale delete. Without these the code does not keep them, see below.
Some properties except what the code does do: `OthersAllOrNothing` and `AnswersAreOneRun` a run whose insert failed, the latter also a new plan in the
middle of a client's queries; `CreationLimit` the overrun by simultaneous requests; `FunctionsAreRight` a developer who skips verify; `WorkersFirst` the order of separate
dispatches; `RangesAreTheList` the gap between two spellings of one token; `MatchesHaveDigits` a number that is given twice.

**Fairness.** What is fair is justified by the platform or by a timeout:

- lambdas (`TokenPoolDownload`, `AllowlistRun`, `ResultTables`, `TransferIndexing`): an invocation with a message makes progress or is ended after
  900 s, SQS delivers what is waiting, MySQL answers a connection;
- requests (`TokenPoolDownload`, `AllowlistRun`, `Allowlists`, `BlockPrediction`, `ContractQueries`): a query or an HTTP exchange ends, and the pool refuses
  a connection after `acquireTimeout`; the API lambda is ended after 30 s;
- time passes (`WF(Tick)` in `TokenPoolDownload`). A row becomes stale only by its age since the last heartbeat: invocations that keep
  continuing renew it for ever, so that `EventuallySettled` rests on continuations coming to an end. In its mutant they do not, and it fails.

Choices (whether a claim, an insert or a request fails) get no fairness of their own. `RunEnds` excludes the
two faults with which the code gives no guarantee: a message that is never sent
(`publish_fails`) and an invocation that dies on the last delivery (`last_kill`); both leave the run active for ever.
`EventuallySettled` needs no such exclusion: where nobody is left to renew it, a row becomes stale and so retryable.

## What is proved

Theorems hold for every value of the constants that meets the modules' named assumptions. Each rests on an inductive
invariant (`IInv`) with one lemma per action; the last step of a theorem is temporal.

| module | theorems | assuming |
|---|---|---|
| `TokenPoolDownloadProofs` | `TypeCorrect`, `CompletedSnapshotIsWhole`, `WholeSnapshotsStored`, `ContinuationsMakeProgress` | nothing: any faults, any requests |
| | `ClaimIsExclusive`, `RetryStartsClean`, `JobImplemented` (refinement of `SnapshotJob`) | `Calm`: one request at a time, no rare fault, lambdas younger than the staleness limit |
| `AllowlistRunProofs` | `TypeCorrect` (with the foreign keys) | nothing |
| | `RunIsExclusive`, `CompletedRunIsCurrent` | of `PatientSpec`: users wait for each other and for earlier messages |
| `AllowlistOperationsProofs` | `TypeCorrect`, `DistinctOrders`, `MapStaysLast`, `RanStaysFirst`, `OrderIsKept` | `~StaleDeletes` |
| `TransferIndexingProofs` | `TypeCorrect`, `NoGaps`, `WholeSnapshots`, `RefusalsAreJustified`, `HistoryImplemented` (refinement of `TransferHistory`) | `BlocksFitPages` |
| `ResultTablesProofs` | `CompletedRunsAreComplete`, `RunsAreAllOrNothing`, `AnswersOfOneRun` | nothing |
| | `CountsOfOneRun` | `DraftsAssumption`: a request is finite and creates a custom pool once |
| `AllowlistsProofs` | `TypeCorrect`, `ConnectionsReturned`, `OneOwnerEach`, `OwnersChange`, `LimitKept` | nothing |
| `OtherServiceProofs` | `PendingStaysLive`, `SamplesLive`, `PredictionsRight`, `MatchesRight` of `BlockPrediction` | nothing |
| | `AnswersRight`, `BoundsRefuseLarge` of `ContractQueries` | `BoundsInProportion`: the pages allowed hold no more ids than allowed; `NoneIsNoAnswer`: `None` stands for no answer |
| `DeploymentProofs` | `SettingsKept`, `FunctionsRight`, `WorkersAreFirst`, `SmokeSeesRelease` | nothing |

Why the strengthenings are needed:

- *Snapshots.* A retry prepares a row that may still be CLAIMED, and is right to because the row is
  stale. `IInv` adds that an invocation at work is at least as old as the last heartbeat (`HeartbeatsOfTheLiving`), so that
  with a life below the staleness limit nobody is at work on a stale row, that a stale PENDING row has no message and no request about to send one (`StaleIsDeserted`),
  that what a retry found is still so when it writes (`RetryStillJustified`), where requests one at a time enter, and that all who deal with the pool mean one target
  (`OneTarget`). Where simultaneous requests and late lambdas are allowed, exactness needs only the last, until other parameters are posted (`reused`), and that the owners are all there or none is.
- *Runs.* An active request has the allowlist for itself (`RequestsAlone`); what a worker has read and written is still so (`WorkIsCurrent`).
- *Operations.* An adding request reads a snapshot that others have added to since. Without stale deletes such a snapshot lacks
  only additions, and these are behind it or make it wait for the lock; what the lock holder has changed, laid over its snapshot, shows it
  the latest order and every MAP operation where it is. A turn of the loop ends in one of three ways: shifted, before MAP, or at the end.
- *Transfers.* What a download took for the latest block has no gap below it, also when another download has saved more since; a page in
  flight extends what is saved; types behind the current one are whole. A download that is refused because it got nowhere has, since it
  began, looked only at logs behind the one it began with (`Onward`): where it continues is where it began or a block that is saved (`Reached`).
- *Results.* Each loop has at most one INSERT waiting and the commit or rollback is sent once (`Sent`); the transaction has exactly what the loops have
  done (`Inserting`), so all of it when the commit is sent (`Committing`); only a failed insert leaves loops behind (`Leftovers`).
  A count reads the winners while they may be leftovers: unless an insert has failed, they are none or all of one run, and the sum over the
  phases is the number of pairs of a phase and a wallet that is left in it.
- *Allowlists.* A list and its owner are written together and new ids are unused; a request that passed the check still owns
  its list, or the list is gone; those who counted and have not inserted yet are at most the other requests.
- *Block times.* Pending entries and fetches in progress correspond one to one, and a sample is of the window it is kept for.
- *Token lists.* What the view has before the continuation is listed, nothing listed is still to come, and the list has at least what the
  pages before this one hold (`Listing`), so only an odd page makes a wrong list, and the bound on pages refuses only what is large.
  The loop of `RangesOf` has after each step made ranges of the ids it has passed, no two of which could be one, and which have a gap between
  them when all ids are of one spelling each.
- *Deployment.* Equal revisions mean equal settings; a job's archive has the steps it has run; the functions before the one it updates have been finished.

`TypeCorrect` is not checked by a run of its own: `TypeOK` is part of each `IInv` and, in the other modules, of a property a run checks
(`PredictionsAreRight`, `AnswersAreRight`, `FunctionsAreRight`, `TablesConsistent`).

What a sum, a loop or the digits of a number come to for every input is proved by least counterexample: of the sets of phases, the steps of the
loop or the numbers of digits for which the statement fails there is a least one, and the one before it shows that it does not fail there.
Powers of ten are a recursive function (`Ten`), whose equation is proved the same way (`TenRecursion`).

Only model-checked: liveness (`EventuallySettled`, `RunEnds`, `DownloadsEnd`, `InsertionEnds`, `RequestsAreAnswered` twice,
`QuestionsAreAnswered`), because TLAPS does not reason about fairness and ENABLED. Every safety invariant and every action property of a
passing run is a theorem. No module has a RECURSIVE operator.

## Disagreements

`run_unclaimed` shows one with the code's own text. Others are seen by checking the named definition with the constants given, in a
copy of the named configuration without symmetry:

| definition | violated with | what happens |
|---|---|---|
| `TokenPoolDownload!CompletedIsFinal` | `download_single`, `TwoClients`, `MaxRequests = 3` | the second of two simultaneous retries resets a COMPLETED row |
| `TokenPoolDownload!CompletedHasSnapshot` without `~reused` | `download_posted` | a pool id is posted again with other parameters: the owners of the old target, or of both, are there under a COMPLETED row that names the new one |
| `TokenPoolDownload!FailureCountedOnce` | `download_single`, `Faults = {"slow_execute"}` | `runOperationsAndFinishUp` counts a failure and rethrows it to `start`, which counts it again; the API says "How many times the snapshot has failed before." (`src/src/api/token-pool-download/model/token-pool-download-response-api.model.ts:109`) |
| `AllowlistRun!ClaimedIsNotReplaced` | `run_unclaimed`, `TwoClients` | two plans pass the check of `src/src/api/allowlist/allowlist.service.ts:232`, and the second replaces the run a worker has claimed |
| `AllowlistRun!RanWasExecuted` | `run_unclaimed`, `TwoClients` | an operation added after the worker read the list is marked, and shown, as "already ran" (`src/src/api/operation/model/allowlist-operation-response-api.model.ts:38`) |
| `AllowlistOperations!DeletedStaysDeleted` | `operations_lists` | a rewritten list brings back an operation deleted meanwhile |
| `AllowlistOperations!OrdersDistinct`, `MapIsLast` | `operations_lists`, `StaleDeletes = TRUE`, `MaxRequests = 5`, `FewOperations` | an order computed from a list that is gone; a MAP operation moved that is gone |
| `ResultTables!OthersAllOrNothing` without `FailedToInsert` | `results` | loops that go on after the rollback leave rows; winners have random keys, so they do not even collide with the next run's |

Noticed while reading, without a model:

- `attemptCount` is "How many times the token pool download has been claimed." (same file, line 104), but every retry sets it to 0 (`Prepared`).
- `src/src/repository/token-pool/token-pool.repository.ts:40` lacks a comma, so `token_ids` is selected as `wallets_count`.
- `src/src/repository/transfer/transfer.repository.ts:70` counts placeholders with repeated token ids and passes ids without repetition.
- `src/src/repository/db.ts:53` and `:60` end a connection twice after a successful query.
- A number given twice in `blockNumberIncludes` counts twice for each block (`src/src/api/other/other.utils.ts:24`).
- `formatNumberRange` drops repeated texts, not repeated numbers: `["1", "0x1"]` is answered as `1,1` (`src/src/app.utils.ts:18`).
- Predictions divide floating point numbers: 94513920 ms at 1875 blocks in 24613 s are 7200 blocks and the code answers 7201. The HTTP client of the countdown has no timeout of its own.
- A contract with exactly the maximal number of tokens (100000) cannot be listed, and the Alchemy fallback reaches 10000 ids.
- A component nobody has won is refused in a draft although it exists, and so is a draft counted before there are results.
- Requests of users that warm a function between deployment and smoke test make the smoke test fail although the release is good.

## Not modelled

- The in-process mode without SNS (`README.md`: one process, lambdas replaced by promises nobody waits for), and `DEV_MODE`.
- What the library computes and checks: parameters of operations, owners from transfers, the paging of Etherscan. Operations that select among an item's tokens in a draft.
- HTTP clients beyond their attempts and failures; gas prices, the current block, contract search: single requests without state.
- Authentication (nonces and tokens are checked by libraries), the Seize API client (its answers are inputs of `Allowlists`), configuration, time, monitoring and migrations.
- Listings that only read, and what they compute of a row.
- `op_order` of 0, negative or fractional, which requests may give: the code stores it.
- A connection that is ended twice: what the second end does is the driver's.
- Rows of other allowlists and pools, apart from the keys.
