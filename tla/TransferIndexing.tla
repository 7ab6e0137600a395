--------------------------- MODULE TransferIndexing ---------------------------
(***************************************************************************)
(* Indexing the transfers of one contract on the slow path of the token    *)
(* pool downloader (doWithoutAlchemy): invocations that fetch pages of     *)
(* Etherscan's logs through the library, save them in the transfer table   *)
(* and start where the table ends.                                         *)
(*                                                                         *)
(* Downloads for several pools of the contract run at a time; of each of   *)
(* them TokenPoolDownload shows that one invocation is at work.  A log is  *)
(* its number among the logs of its type.  Etherscan is external and knows *)
(* the chain up to every target.                                           *)
(***************************************************************************)
EXTENDS Integers, Sequences

CONSTANTS
  Chain,       \* of each type, the blocks of its logs in their order
  Types,       \* the types that the contract's schema has, in the code's order
  Download,
  Target,      \* block_no of each download
  PageSize,    \* logs in a page of Etherscan
  MaxRetries,  \* bound on the retries of each download
  None

Type == {"single", "batch"}
Log(t) == 1..Len(Chain[t])

ASSUME ConstantsAssumption ==
  /\ Chain \in [Type -> Seq(Nat)]
  /\ \A t \in Type : \A i, k \in Log(t) : i <= k => Chain[t][i] <= Chain[t][k]
  /\ Types \in {<<"single">>, <<"batch", "single">>}
  /\ Types = <<"single">> => Log("batch") = {}
  /\ Target \in [Download -> Nat] /\ PageSize \in Nat /\ MaxRetries \in Nat
  /\ None \notin [Type -> Nat] /\ None \notin [Type -> SUBSET Nat]

\* A block has less logs of a type than a page: Etherscan's pages have 10000.
ASSUME BlocksFitPages ==
  \A t \in Type : \A i, k \in Log(t) :
    Chain[t][i] = Chain[t][k] => i - k < PageSize - 1

VARIABLES
  saved,     \* of each type, the logs that have rows in transfer
  phase,     \* the next await of each download
  starting,  \* the last of startingBlocks
  latest,    \* singleTypeLatestBlock and batchTypeLatestBlock
  step,      \* which of Types is being indexed
  from,      \* the block its next page starts at
  key,       \* the last log of its last page, or 0 (latestUniqueKey)
  page,      \* a page that has been fetched
  read,      \* the logs a finished download has made its snapshot of
  retries

loop == <<step, from, key, page>>
vars == <<saved, phase, starting, latest, loop, read, retries>>

Running == {"single", "batch", "fetch", "save", "execute"}
Ended == {"done", "failed", "refused"}

\* Type invariant: pages that are saved have logs, and what is read is kept.
TypeOK ==
  /\ \A t \in Type : saved[t] \subseteq Log(t)
  /\ DOMAIN saved = Type
  /\ phase \in [Download -> {"idle"} \cup Running \cup Ended]
  /\ starting \in [Download -> [Type -> Nat] \cup {None}]
  /\ latest \in [Download -> [Type -> Nat]]
  /\ step \in [Download -> 1..Len(Types)]
  /\ from \in [Download -> Nat]
  /\ key \in [Download -> Nat]
  /\ page \in [Download -> SUBSET Nat]
  /\ \A d \in Download : phase[d] = "save" <=> page[d] # {}
  /\ read \in [Download -> [Type -> SUBSET Nat] \cup {None}]
  /\ \A d \in Download : phase[d] = "done" <=> read[d] # None
  /\ retries \in [Download -> 0..MaxRetries]

Init ==
  /\ saved = [t \in Type |-> {}]
  /\ phase = [d \in Download |-> "idle"]
  /\ starting = [d \in Download |-> None]
  /\ latest = [d \in Download |-> [t \in Type |-> 0]]
  /\ step = [d \in Download |-> 1]
  /\ from = [d \in Download |-> 0]
  /\ key = [d \in Download |-> 0]
  /\ page = [d \in Download |-> {}]
  /\ read = [d \in Download |-> None]
  /\ retries = [d \in Download |-> 0]

Goto(d, p) == phase' = [phase EXCEPT ![d] = p]
TypeOf(d) == Types[step[d]]
-----------------------------------------------------------------------------
\* getLatestTransferBlockNo
Latest(t) ==
  IF saved[t] = {} THEN 0
  ELSE Chain[t][CHOOSE i \in saved[t] : \A k \in saved[t] : k <= i]

\* The first invocation of a download, without startingBlocks.
Begin(d) ==
  /\ phase[d] = "idle"
  /\ Goto(d, "single")
  /\ UNCHANGED <<saved, starting, latest, loop, read, retries>>

AskSingle(d) ==
  /\ phase[d] = "single"
  /\ latest' = [latest EXCEPT ![d]["single"] = Latest("single")]
  /\ Goto(d, "batch")
  /\ UNCHANGED <<saved, starting, loop, read, retries>>

\* Mutant: only the single transfers are compared.
ReprocessedSingle(d, now) == starting[d] # None /\ starting[d]["single"] = now["single"]

\* Mutant: continuations are not compared.
NeverReprocessed(d, now) == FALSE

\* A continuation finds the latest blocks where the last invocation did.
Reprocessed(d, now) == starting[d] # None /\ starting[d] = now

\* Mutant: the first block that has no rows.
NextBlock(block) == block + 1

\* startingBlock of doTransferType: the last block may have been fetched in part.
StartingBlock(block) == block

AskBatch(d) ==
  LET now == [latest[d] EXCEPT !["batch"] = Latest("batch")] IN
  /\ phase[d] = "batch"
  /\ ~Reprocessed(d, now)
  /\ latest' = [latest EXCEPT ![d] = now]
  /\ starting' = [starting EXCEPT ![d] = now]
  /\ step' = [step EXCEPT ![d] = 1]
  /\ from' = [from EXCEPT ![d] = StartingBlock(now[Types[1]])]
  /\ key' = [key EXCEPT ![d] = 0]
  /\ Goto(d, "fetch")
  /\ UNCHANGED <<saved, page, read, retries>>

\* "Tried to reprocess already processed block", and the download is FAILED.
RefuseReprocessing(d) ==
  LET now == [latest[d] EXCEPT !["batch"] = Latest("batch")] IN
  /\ phase[d] = "batch"
  /\ Reprocessed(d, now)
  /\ latest' = [latest EXCEPT ![d] = now]
  /\ Goto(d, "refused")
  /\ UNCHANGED <<saved, starting, loop, read, retries>>
-----------------------------------------------------------------------------
\* The logs from a block on up to the target, and the first ones of them.
LogsFrom(d) ==
  {i \in Log(TypeOf(d)) : Chain[TypeOf(d)][i] \in from[d]..Target[d]}
PageOf(d) == {i \in LogsFrom(d) : \A k \in LogsFrom(d) : i - k < PageSize}

LastOf(logs) == CHOOSE i \in logs : \A k \in logs : k <= i

\* The library's getTransfers ends at an empty page, and at one that ends like the
\* page before.
Exhausted(d) == PageOf(d) # {} => LastOf(PageOf(d)) = key[d]

Fetch(d) ==
  /\ phase[d] = "fetch"
  /\ ~Exhausted(d)
  /\ page' = [page EXCEPT ![d] = PageOf(d)]
  /\ Goto(d, "save")
  /\ UNCHANGED <<saved, starting, latest, step, from, key, read, retries>>

\* Mutant: the rows of a page take the place of those that are there.
ReplaceTransfers(t, logs) == saved' = [saved EXCEPT ![t] = logs]

\* saveContractTransfers, a transaction in which rows that are there stay.
SaveContractTransfers(t, logs) == saved' = [saved EXCEPT ![t] = @ \cup logs]

\* The page is saved. The loop goes on, or the time is up and a continuation with
\* the startingBlocks takes over.
Save(d) ==
  /\ phase[d] = "save"
  /\ SaveContractTransfers(TypeOf(d), page[d])
  /\ key' = [key EXCEPT ![d] = LastOf(page[d])]
  /\ from' = [from EXCEPT ![d] = Chain[TypeOf(d)][LastOf(page[d])]]
  /\ page' = [page EXCEPT ![d] = {}]
  /\ \E p \in {"fetch", "single"} : Goto(d, p)
  /\ UNCHANGED <<starting, latest, step, read, retries>>

\* Mutant: the operations are executed when the first type has been indexed.
FirstTypeOnly(d) == FALSE

\* doTransferTypeBatch is followed by doTransferTypeSingle.
AnotherType(d) == step[d] < Len(Types)

\* A type has been indexed. The next one starts at the block that was its latest
\* when the invocation began.
NextType(d) ==
  /\ phase[d] = "fetch"
  /\ Exhausted(d)
  /\ AnotherType(d)
  /\ step' = [step EXCEPT ![d] = @ + 1]
  /\ from' = [from EXCEPT ![d] = StartingBlock(latest[d][Types[step[d] + 1]])]
  /\ key' = [key EXCEPT ![d] = 0]
  /\ UNCHANGED <<saved, phase, starting, latest, page, read, retries>>

Indexed(d) ==
  /\ phase[d] = "fetch"
  /\ Exhausted(d)
  /\ ~AnotherType(d)
  /\ Goto(d, "execute")
  /\ UNCHANGED <<saved, starting, latest, loop, read, retries>>

\* getContractTransfersOrdered
ContractTransfers(block) ==
  [t \in Type |-> {i \in saved[t] : Chain[t][i] <= block}]

\* The operations are executed with the history of the contract.
Execute(d) ==
  /\ phase[d] = "execute"
  /\ read' = [read EXCEPT ![d] = ContractTransfers(Target[d])]
  /\ Goto(d, "done")
  /\ UNCHANGED <<saved, starting, latest, loop, retries>>

\* A query, a request or a transaction fails, which is rolled back, or the
\* invocation is killed: a retry is possible once the row is FAILED or stale.
Fails(d) ==
  /\ phase[d] \in Running
  /\ page' = [page EXCEPT ![d] = {}]
  /\ Goto(d, "failed")
  /\ UNCHANGED <<saved, starting, latest, step, from, key, read, retries>>

\* A retry sends a message without startingBlocks.
Retry(d) ==
  /\ phase[d] \in {"failed", "refused"} /\ retries[d] < MaxRetries
  /\ retries' = [retries EXCEPT ![d] = @ + 1]
  /\ starting' = [starting EXCEPT ![d] = None]
  /\ Goto(d, "single")
  /\ UNCHANGED <<saved, latest, loop, read>>

Advance(d) ==
  \/ AskSingle(d) \/ AskBatch(d) \/ RefuseReprocessing(d)
  \/ Fetch(d) \/ Save(d) \/ NextType(d) \/ Indexed(d) \/ Execute(d) \/ Fails(d)

Next == \E d \in Download : Begin(d) \/ Advance(d) \/ Retry(d)

Spec == Init /\ [][Next]_vars

\* An invocation goes on, or ends after 900 s at the latest.
FairSpec == Spec /\ \A d \in Download : WF_vars(Advance(d))
-----------------------------------------------------------------------------
\* Whichever downloads index at a time, fail and start again: there is no gap
\* below a log that is saved, so that the latest block is a place to start from
\* (getLatestTransferBlockNo, doTransferType).
HistoryHasNoGaps ==
  \A t \in Type : \A i \in saved[t] : 1..i \subseteq saved[t]

\* A snapshot is made of all transfers up to its block and of no others, as long
\* as no block fills a page (doWithoutAlchemy, getContractTransfersOrdered).
SnapshotsAreWhole ==
  \A d \in Download : phase[d] = "done" =>
    read[d] = [t \in Type |-> {i \in Log(t) : Chain[t][i] <= Target[d]}]

\* A continuation is refused only if the invocation before it got no further
\* than the block it started at (the check of start).
RefusedWithoutProgress ==
  [][\A d \in Download : phase[d] = "batch" /\ phase'[d] = "refused" =>
       from[d] = starting[d][TypeOf(d)]]_vars

History == INSTANCE TransferHistory
  WITH known <- saved, finished <- {d \in Download : phase[d] = "done"}

\* What is known grows without gaps, and a download is done only when everything
\* up to its block is known.
ImplementsHistory == History!Spec

\* Continuations do not go on for ever, however often the time is up.
DownloadsEnd == \A d \in Download : phase[d] \in Running ~> phase[d] \in Ended
=============================================================================
