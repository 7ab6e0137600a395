-------------------------- MODULE BlockPrediction --------------------------
(***************************************************************************)
(* Predicting block numbers: requests of POST /other/predict-block-numbers *)
(* (and predict-block-number, where both timestamps are the same) in one   *)
(* API process.  Each reads the current block from Alchemy and then a      *)
(* sampled block time from EtherscanApiService, which keeps a sample per   *)
(* window of blocks for a while and lets simultaneous requests share one   *)
(* fetch.                                                                  *)
(*                                                                         *)
(* JavaScript runs one continuation at a time, so an action is what runs   *)
(* between two awaits.  The promise of a fetch is identified with the      *)
(* request that started it.  Time is in seconds.                           *)
(***************************************************************************)
EXTENDS Integers, Sequences, FiniteSets, UpstreamProviders

CONSTANTS
  Request,      \* requests that can be in progress at a time
  Block,        \* block numbers Alchemy answers
  BucketSize,   \* BLOCK_ESTIMATE_BUCKET_SIZE
  Lifetime,     \* BLOCK_TIME_CACHE_TTL_MS
  MaxAttempts,  \* MAX_ATTEMPTS of Etherscan
  Countdown,    \* usable answers: [blocks |-> remaining, seconds |-> estimate]
  Timestamp,    \* timestamps that are now for
  Included,     \* numbers that predicted blocks are searched for
  MaxTime       \* bound on the clock

ASSUME ConstantsAssumption ==
  /\ Block \subseteq Nat /\ Timestamp \subseteq Nat /\ Included \subseteq Nat
  /\ BucketSize \in Nat \ {0} /\ Lifetime \in Nat \ {0}
  /\ MaxAttempts \in Nat \ {0} /\ MaxTime \in Nat
  /\ \A c \in Countdown : c.blocks \in Nat \ {0} /\ c.seconds \in Nat \ {0}
  /\ None \notin Request

VARIABLES
  clock,
  phase,    \* where each request is
  now,      \* the time it came
  block,    \* the current block it was told
  attempt,  \* countdown requests the fetch it started has made
  outcome,  \* what that fetch ended with: a sample or a failure
  pending,  \* blockTimeRequests: the request whose fetch serves a bucket
  joined,   \* the request whose fetch each waiting request awaits
  cache,    \* cachedBlockTimes: the sample kept for a bucket
  sample    \* the block time each request was given

fetchVars == <<attempt, outcome, pending, joined, cache>>
vars == <<clock, phase, now, block, fetchVars, sample>>

\* The block whose countdown is now for; blocks of a bucket share it.
EstimateTargetBlock(b) == (b \div BucketSize + 2) * BucketSize
Target == {EstimateTargetBlock(b) : b \in Block}

Phases == {"idle", "number", "fetching", "fetched", "waiting", "sampled",
           "502", "503"}

\* A sample remembers the target it was fetched for and when it came.
Sample == {[rate |-> c, of |-> t, at |-> n] :
             c \in Countdown, t \in Target, n \in 0..MaxTime}
Failure(k) == [failed |-> k]
Entries == {[kept |-> s, expires |-> s.at + Lifetime] : s \in Sample}

\* Type invariant. An entry expires a lifetime after its sample came.
TypeOK ==
  /\ clock \in 0..MaxTime
  /\ phase \in [Request -> Phases]
  /\ now \in [Request -> (0..clock) \cup {None}]
  /\ block \in [Request -> Block \cup {None}]
  /\ attempt \in [Request -> 0..MaxAttempts]
  /\ outcome \in [Request -> Sample \cup {Failure(k) : k \in Failures} \cup {None}]
  /\ pending \in [Target -> Request \cup {None}]
  /\ joined \in [Request -> Request \cup {None}]
  /\ cache \in [Target -> Entries \cup {None}]
  /\ sample \in [Request -> Sample \cup {None}]

Init ==
  /\ clock = 0
  /\ phase = [r \in Request |-> "idle"]
  /\ now = [r \in Request |-> None]
  /\ block = [r \in Request |-> None]
  /\ attempt = [r \in Request |-> 0]
  /\ outcome = [r \in Request |-> None]
  /\ pending = [t \in Target |-> None]
  /\ joined = [r \in Request |-> None]
  /\ cache = [t \in Target |-> None]
  /\ sample = [r \in Request |-> None]
-----------------------------------------------------------------------------
TargetOf(r) == EstimateTargetBlock(block[r])

\* Timestamps a request that comes at this time may ask for.
Admissible(min, max, time) == min >= time /\ max >= time /\ min <= max

\* predictBlockNumbers up to its first await. A request that fails the checks
\* is answered 404 at once and changes nothing. Its timestamps are not kept here:
\* they matter only to the answer, which the properties take for all of them.
Receive(r) ==
  /\ phase[r] = "idle"
  /\ \E min, max \in Timestamp : Admissible(min, max, clock)
  /\ now' = [now EXCEPT ![r] = clock]
  /\ phase' = [phase EXCEPT ![r] = "number"]
  /\ UNCHANGED <<clock, block, fetchVars, sample>>

\* getBlockNumber fails; its errors are the JSON-RPC library's.
BlockNumberFails(r) ==
  /\ phase[r] = "number"
  /\ phase' = [phase EXCEPT ![r] = MapProviderError(Untyped)]
  /\ UNCHANGED <<clock, now, block, fetchVars, sample>>

\* Mutant: nobody looks at expiresAt.
CachedForEver(t) == cache[t] # None

Cached(t) == cache[t] # None /\ cache[t].expires > clock

\* getBlockNumber answers b, and getBlockTimeMillis runs up to its await: the
\* sample that is kept, the fetch that is pending, or a fetch of its own.
UseCached(r, t) ==
  /\ Cached(t)
  /\ sample' = [sample EXCEPT ![r] = cache[t].kept]
  /\ phase' = [phase EXCEPT ![r] = "sampled"]
  /\ UNCHANGED fetchVars

JoinPending(r, t) ==
  /\ ~Cached(t) /\ pending[t] # None
  /\ cache' = [cache EXCEPT ![t] = None]
  /\ joined' = [joined EXCEPT ![r] = pending[t]]
  /\ phase' = [phase EXCEPT ![r] = "waiting"]
  /\ UNCHANGED <<attempt, outcome, pending, sample>>

StartFetch(r, t) ==
  /\ ~Cached(t) /\ pending[t] = None
  /\ cache' = [cache EXCEPT ![t] = None]
  /\ pending' = [pending EXCEPT ![t] = r]
  /\ attempt' = [attempt EXCEPT ![r] = 1]
  /\ phase' = [phase EXCEPT ![r] = "fetching"]
  /\ UNCHANGED <<outcome, joined, sample>>

GetBlockTime(r) ==
  /\ phase[r] = "number"
  /\ \E b \in Block :
       /\ block' = [block EXCEPT ![r] = b]
       /\ LET t == EstimateTargetBlock(b) IN
          UseCached(r, t) \/ JoinPending(r, t) \/ StartFetch(r, t)
  /\ UNCHANGED <<clock, now>>
-----------------------------------------------------------------------------
\* The countdown is answered with usable numbers: fetchBlockTimeMillis keeps
\* the sample.
CountdownAnswered(r) ==
  /\ phase[r] = "fetching"
  /\ \E c \in Countdown :
       LET s == [rate |-> c, of |-> TargetOf(r), at |-> clock] IN
       /\ cache' = [cache EXCEPT ![TargetOf(r)] =
                      [kept |-> s, expires |-> clock + Lifetime]]
       /\ outcome' = [outcome EXCEPT ![r] = s]
  /\ phase' = [phase EXCEPT ![r] = "fetched"]
  /\ UNCHANGED <<clock, now, block, attempt, pending, joined, sample>>

\* An attempt fails: an HTTP failure, or status 200 whose message says no.
CountdownFailures ==
  {FailureByMessage(h) : h \in HttpFailures} \cup {"rate-limited", "rejected"}

Retry(r) ==
  /\ phase[r] = "fetching"
  /\ \E kind \in CountdownFailures : IsTemporary(kind)
  /\ attempt[r] < MaxAttempts
  /\ attempt' = [attempt EXCEPT ![r] = @ + 1]
  /\ UNCHANGED <<clock, phase, now, block, outcome, pending, joined, cache,
                 sample>>

\* getBlockCountdown gives up, or parseBlockTimeMillis finds no usable numbers.
FetchFails(r) ==
  /\ phase[r] = "fetching"
  /\ \E kind \in CountdownFailures \cup {"invalid-response"} :
       /\ IsTemporary(kind) => attempt[r] = MaxAttempts
       /\ outcome' = [outcome EXCEPT ![r] = Failure(kind)]
  /\ phase' = [phase EXCEPT ![r] = "fetched"]
  /\ UNCHANGED <<clock, now, block, attempt, pending, joined, cache, sample>>

\* Those who get the result of r's fetch: r, and the requests that await it.
Awaiting(r) == {r} \cup {w \in Request : joined[w] = r}

\* Mutant: a promise that was rejected stays in the map (then, not finally).
SettleKeepsFailed(r) ==
  /\ phase[r] = "fetched"
  /\ LET failed == outcome[r] \notin Sample IN
     /\ pending' = IF failed THEN pending ELSE [pending EXCEPT ![TargetOf(r)] = None]
     /\ phase' = [w \in Request |->
                    IF w \notin Awaiting(r) THEN phase[w]
                    ELSE IF failed THEN MapProviderError(outcome[r].failed)
                    ELSE "sampled"]
     /\ sample' = [w \in Request |-> IF w \in Awaiting(r) /\ ~failed
                                     THEN outcome[r] ELSE sample[w]]
  /\ joined' = [w \in Request |-> IF joined[w] = r THEN None ELSE joined[w]]
  /\ outcome' = [outcome EXCEPT ![r] = None]
  /\ attempt' = [attempt EXCEPT ![r] = 0]
  /\ UNCHANGED <<clock, now, block, cache>>

\* Mutant: those who share the fetch do not hear of its end.
SettleAlone(r) ==
  /\ phase[r] = "fetched"
  /\ pending' = [pending EXCEPT ![TargetOf(r)] = None]
  /\ LET failed == outcome[r] \notin Sample IN
     /\ phase' = [phase EXCEPT ![r] = IF failed THEN MapProviderError(outcome[r].failed)
                                      ELSE "sampled"]
     /\ sample' = [sample EXCEPT ![r] = IF failed THEN None ELSE outcome[r]]
  /\ outcome' = [outcome EXCEPT ![r] = None]
  /\ attempt' = [attempt EXCEPT ![r] = 0]
  /\ UNCHANGED <<clock, now, block, joined, cache>>

\* The fetch's finally: the promise is forgotten and settles for all who await it.
Settle(r) ==
  /\ phase[r] = "fetched"
  /\ pending' = [pending EXCEPT ![TargetOf(r)] = None]
  /\ LET failed == outcome[r] \notin Sample IN
     /\ phase' = [w \in Request |->
                    IF w \notin Awaiting(r) THEN phase[w]
                    ELSE IF failed THEN MapProviderError(outcome[r].failed)
                    ELSE "sampled"]
     /\ sample' = [w \in Request |-> IF w \in Awaiting(r) /\ ~failed
                                     THEN outcome[r] ELSE sample[w]]
  /\ joined' = [w \in Request |-> IF joined[w] = r THEN None ELSE joined[w]]
  /\ outcome' = [outcome EXCEPT ![r] = None]
  /\ attempt' = [attempt EXCEPT ![r] = 0]
  /\ UNCHANGED <<clock, now, block, cache>>

CeilDiv(a, b) == (a + b - 1) \div b

\* Mutant: Math.floor.
PredictBlockBefore(timestamp, r) ==
  {block[r] + ((timestamp - now[r]) * sample[r].rate.blocks) \div sample[r].rate.seconds}

\* predictBlockFromContext. The quotient is taken of floating-point numbers: one
\* that is a whole number can come out slightly above it and be rounded up.
PredictBlock(timestamp, r) ==
  LET work == (timestamp - now[r]) * sample[r].rate.blocks
      time == sample[r].rate.seconds
      up   == IF work > 0 /\ work % time = 0 THEN {0, 1} ELSE {0} IN
  {block[r] + CeilDiv(work, time) + u : u \in up}

\* Both bounds from one context: equal timestamps give equal blocks, and rounding
\* is monotone.
Predictions(r, min, max) ==
  {p \in [min : PredictBlock(min, r), max : PredictBlock(max, r)] :
     p.min <= p.max /\ (min = max => p.min = p.max)}

\* The answer, one of Predictions or the status of a failure, is sent, and the
\* request's place is free for another one.
Respond(r) ==
  /\ phase[r] \in {"sampled", "502", "503"}
  /\ phase' = [phase EXCEPT ![r] = "idle"]
  /\ now' = [now EXCEPT ![r] = None]
  /\ block' = [block EXCEPT ![r] = None]
  /\ sample' = [sample EXCEPT ![r] = None]
  /\ UNCHANGED <<clock, fetchVars>>

\* Time passes while nothing is ready to run: the continuations of a fetch that
\* has ended run at once.
Tick ==
  /\ clock < MaxTime
  /\ \A r \in Request : phase[r] \notin {"fetched", "sampled", "502", "503"}
  /\ clock' = clock + 1
  /\ UNCHANGED <<phase, now, block, fetchVars, sample>>

\* The steps of a request that has come.
Advance(r) ==
  \/ BlockNumberFails(r) \/ GetBlockTime(r)
  \/ CountdownAnswered(r) \/ Retry(r) \/ FetchFails(r)
  \/ Settle(r) \/ Respond(r)

Next ==
  \/ Tick
  \/ \E r \in Request : Receive(r) \/ Advance(r)

Spec == Init /\ [][Next]_vars

\* Every HTTP exchange ends, with a response or an error, and the continuation
\* that waits for it runs.
Fairness == \A r \in Request : WF_vars(Advance(r))
FairSpec == Spec /\ Fairness
-----------------------------------------------------------------------------
Ten[k \in Nat] == IF k = 0 THEN 1 ELSE 10 * Ten[k - 1]
Length(n) == CHOOSE k \in 1..(n + 1) : n < Ten[k] /\ (k = 1 \/ Ten[k - 1] <= n)

\* toString.
Digits(n) == [k \in 1..Length(n) |-> (n \div Ten[Length(n) - k]) % 10]

\* Mutant: endsWith.
EndsWith(string, search) ==
  /\ Len(search) <= Len(string)
  /\ SubSeq(string, Len(string) - Len(search) + 1, Len(string)) = search

IndexOf(string, search) ==
  \E k \in 0..(Len(string) - Len(search)) :
    SubSeq(string, k + 1, k + Len(search)) = search

\* countSubNumbersInRange, for one of the numbers: the blocks of the range whose
\* decimal string has that of the number in it.
CountSubNumbersInRange(start, end, n) ==
  {i \in start..end : IndexOf(Digits(i), Digits(n))}

\* The blocks reported for a number are those of the predicted range that show it
\* when their last digits are dropped and as many kept as the number has
\* (countSubNumbersInRange, which compares strings).
MatchesHaveDigits ==
  \A r \in Request : phase[r] = "sampled" =>
    \A min, max \in Timestamp : Admissible(min, max, now[r]) =>
      \A p \in Predictions(r, min, max), n \in Included :
        CountSubNumbersInRange(p.min, p.max, n) =
          {b \in p.min..p.max : \E k \in 0..(Length(b) - Length(n)) :
                                  (b \div Ten[k]) % Ten[Length(n)] = n}

\* Requests whose fetch is in progress, or has ended and not been forgotten.
Fetching(r) == phase[r] \in {"fetching", "fetched"}

\* A pending entry is a fetch of that bucket in progress, every such fetch is the
\* entry of its bucket, and whoever waits, waits for it: no request hangs on a
\* promise that is over, and no bucket is fetched twice at a time
\* (blockTimeRequests in getBlockTimeMillis).
PendingIsLive ==
  /\ \A t \in Target : pending[t] # None =>
       Fetching(pending[t]) /\ TargetOf(pending[t]) = t
  /\ \A r \in Request : Fetching(r) => pending[TargetOf(r)] = r
  /\ \A r \in Request : phase[r] = "waiting" =>
       joined[r] # None /\ joined[r] = pending[TargetOf(r)]

\* A request computes with a sample of its own window of blocks, whether it
\* fetched it, shared a fetch or found it kept (cachedBlockTimes).
SampleOfOwnWindow ==
  \A r \in Request : sample[r] # None => sample[r].of = TargetOf(r)

\* A sample is given out only within its lifetime, and one that is kept is not
\* fetched again within it, also when requests come while it is being fetched
\* (BLOCK_TIME_CACHE_TTL_MS).
SamplesLiveTheirTime ==
  [][/\ \A r \in Request : sample'[r] # None =>
           sample[r] = sample'[r] \/ clock < sample'[r].at + Lifetime
     /\ \A t \in Target : cache[t] # None /\ cache'[t] # cache[t] =>
           clock >= cache[t].kept.at + Lifetime]_vars

\* A predicted range starts no earlier than the block the request was told of,
\* however long it waited, and each bound is the first block due at its timestamp
\* or, by rounding, the one after (predictBlockFromContext).
PredictionIsDue ==
  \A r \in Request : phase[r] = "sampled" =>
    LET Due(k, timestamp) ==
          k * sample[r].rate.seconds >= (timestamp - now[r]) * sample[r].rate.blocks
        First(k, timestamp) ==
          /\ Due(k, timestamp)
          /\ k >= 2 => ~Due(k - 2, timestamp)
          /\ k = 1 => timestamp > now[r] IN
    \A min, max \in Timestamp : Admissible(min, max, now[r]) =>
      \A p \in Predictions(r, min, max) :
        /\ block[r] <= p.min /\ p.min <= p.max
        /\ First(p.min - block[r], min) /\ First(p.max - block[r], max)

\* The type invariant and what a prediction is right by: its sample and rounding.
PredictionsAreRight == TypeOK /\ SampleOfOwnWindow /\ PredictionIsDue

\* Every request is answered, also when every attempt fails and when it waits for
\* another request's fetch.
RequestsAreAnswered == \A r \in Request : phase[r] # "idle" ~> phase[r] = "idle"
=============================================================================
