-------------------------- MODULE OtherServiceProofs --------------------------
(***************************************************************************)
(* Proofs about the questions that OtherService answers: BlockPrediction,  *)
(* for any requests, blocks, answers and any lifetime of a sample, and     *)
(* ContractQueries, for any tokens, page sizes and bounds.  They share no  *)
(* state: each theorem is about one of the two specifications.             *)
(***************************************************************************)
EXTENDS BlockPrediction, ContractQueries, FiniteSetTheorems, FunctionTheorems,
        WellFoundedInduction, TLAPS

(* Only a request that has been given a sample has one; one that waits has   *)
(* joined a fetch.  What a fetch ends with is of now, and the bucket that is *)
(* being fetched keeps nothing.                                              *)
InProgress ==
  /\ \A r \in Request :
       /\ sample[r] # None => phase[r] = "sampled"
       /\ joined[r] # None => phase[r] = "waiting"
       /\ phase[r] \in {"fetching", "fetched", "waiting"} => block[r] \in Block
       /\ phase[r] = "fetching" => cache[TargetOf(r)] = None
       /\ phase[r] = "fetched" /\ outcome[r] \in Sample =>
            outcome[r].at = clock /\ outcome[r].of = TargetOf(r)
  /\ \A t \in Target : cache[t] # None => cache[t].kept.of = t

IInv == TypeOK /\ PendingIsLive /\ SampleOfOwnWindow /\ InProgress
------------------------------------------------------------------------------
LEMMA SampleType ==
  /\ \A c \in Countdown, t \in Target, n \in 0..MaxTime :
       [rate |-> c, of |-> t, at |-> n] \in Sample
  /\ \A s \in Sample : s.of \in Target /\ s.at \in 0..MaxTime
  BY DEF Sample

LEMMA EntryType ==
  /\ \A s \in Sample : [kept |-> s, expires |-> s.at + Lifetime] \in Entries
  /\ \A e \in Entries : e.kept \in Sample /\ e.expires = e.kept.at + Lifetime
  BY DEF Entries

LEMMA TargetType ==
  /\ \A b \in Block : EstimateTargetBlock(b) \in Target
  /\ \A r \in Request : block[r] \in Block => TargetOf(r) \in Target
  BY DEF Target, TargetOf

LEMMA FailureType ==
  /\ \A kind \in CountdownFailures \cup {"invalid-response"} : kind \in Failures
  /\ \A kind : MapProviderError(kind) \in {"502", "503"}
  BY DEF CountdownFailures, FailureByMessage, HttpFailures, Failures, FailureKinds, Untyped,
         MapProviderError

LEMMA InitIInv == Init => IInv
<1> SUFFICES ASSUME Init PROVE IInv
  OBVIOUS
<1>1. TypeOK
  BY ConstantsAssumption DEF Init, TypeOK, Phases
<1>2. PendingIsLive /\ SampleOfOwnWindow /\ InProgress
  BY DEF Init, PendingIsLive, SampleOfOwnWindow, InProgress, Fetching
<1> QED
  BY <1>1, <1>2 DEF IInv

(* A step of one request that has no fetch, before and after it. *)
LEMMA StepOfOne ==
  ASSUME IInv, NEW r \in Request, TypeOK', UNCHANGED <<clock, fetchVars>>,
         ~Fetching(r), ~Fetching(r)', phase[r] # "waiting", phase'[r] # "waiting",
         \A w \in Request \ {r} :
           phase'[w] = phase[w] /\ block'[w] = block[w] /\ sample'[w] = sample[w],
         sample'[r] # None => phase'[r] = "sampled" /\ sample'[r].of = TargetOf(r)'
  PROVE  IInv'
<1> USE DEF fetchVars, IInv
<1>1. \A w \in Request \ {r} : /\ TargetOf(w)' = TargetOf(w)
                               /\ Fetching(w)' <=> Fetching(w)
  BY DEF TargetOf, Fetching
<1>2. PendingIsLive'
  <2>1. \A t \in Target : pending[t] # None => pending[t] \in Request \ {r}
    BY DEF PendingIsLive, TypeOK
  <2> QED
    BY <1>1, <2>1 DEF PendingIsLive
<1>3. SampleOfOwnWindow'
  BY <1>1 DEF SampleOfOwnWindow
<1>4. InProgress'
  BY <1>1 DEF InProgress, Fetching
<1> QED
  BY <1>2, <1>3, <1>4

LEMMA ReceiveStep ==
  ASSUME IInv, NEW r \in Request, Receive(r) \/ BlockNumberFails(r) \/ Respond(r)
  PROVE  IInv'
<1>1. TypeOK'
  <2>1. clock \in 0..clock /\ clock' = clock
    BY DEF IInv, TypeOK, Receive, BlockNumberFails, Respond
  <2>2. MapProviderError(Untyped) \in Phases
    BY FailureType DEF Phases
  <2> QED
    BY <2>1, <2>2 DEF IInv, TypeOK, Receive, BlockNumberFails, Respond, fetchVars, Phases
<1>2. UNCHANGED <<clock, fetchVars>>
  BY DEF Receive, BlockNumberFails, Respond
<1>3. /\ phase[r] \in {"idle", "number", "sampled", "502", "503"}
      /\ phase'[r] \in {"idle", "number", "502", "503"}
  BY FailureType DEF IInv, TypeOK, Receive, BlockNumberFails, Respond
<1>4. \A w \in Request \ {r} :
        phase'[w] = phase[w] /\ block'[w] = block[w] /\ sample'[w] = sample[w]
  BY DEF IInv, TypeOK, Receive, BlockNumberFails, Respond
<1>5. sample'[r] = None
  BY DEF IInv, TypeOK, InProgress, Receive, BlockNumberFails, Respond
<1> QED
  BY <1>1, <1>2, <1>3, <1>4, <1>5, StepOfOne DEF Fetching

LEMMA GetBlockTimeStep ==
  ASSUME IInv, NEW r \in Request, GetBlockTime(r)
  PROVE  IInv'
<1> USE DEF fetchVars
<1>1. PICK b \in Block :
        /\ block' = [block EXCEPT ![r] = b]
        /\ \/ UseCached(r, EstimateTargetBlock(b))
           \/ JoinPending(r, EstimateTargetBlock(b))
           \/ StartFetch(r, EstimateTargetBlock(b))
  BY DEF GetBlockTime
<1> DEFINE t == EstimateTargetBlock(b)
<1>2. phase[r] = "number" /\ UNCHANGED <<clock, now>> /\ TypeOK
  BY DEF GetBlockTime, IInv
<1>3. t \in Target /\ block'[r] = b /\ \A w \in Request \ {r} : block'[w] = block[w]
  BY <1>1, <1>2, TargetType DEF TypeOK
<1>4. TargetOf(r)' = t /\ \A w \in Request \ {r} : TargetOf(w)' = TargetOf(w)
  BY <1>3 DEF TargetOf
<1>5. block' \in [Request -> Block \cup {None}]
  BY <1>1, <1>2 DEF TypeOK
<1>6. sample[r] = None /\ joined[r] = None
  BY <1>2 DEF IInv, InProgress
<1> HIDE DEF t
<1>7. CASE UseCached(r, t)
  <2>1. cache[t] \in Entries
    BY <1>2, <1>3, <1>7 DEF TypeOK, UseCached, Cached
  <2>2. cache[t].kept \in Sample /\ cache[t].kept.of = t
    BY <1>3, <1>7, <2>1, EntryType DEF IInv, InProgress, UseCached, Cached
  <2>3. sample' \in [Request -> Sample \cup {None}] /\ phase' \in [Request -> Phases]
    BY <1>2, <1>7, <2>2 DEF TypeOK, UseCached, Phases
  <2>4. TypeOK'
    BY <1>2, <1>5, <1>7, <2>3 DEF TypeOK, UseCached
  <2>5. /\ sample'[r] = cache[t].kept /\ phase'[r] = "sampled"
        /\ \A w \in Request \ {r} : phase'[w] = phase[w] /\ sample'[w] = sample[w]
    BY <1>2, <1>7 DEF TypeOK, UseCached
  <2> QED
    BY <1>2, <1>3, <1>4, <1>7, <2>2, <2>4, <2>5, StepOfOne DEF Fetching, UseCached
<1>8. CASE JoinPending(r, t)
  <2>1. /\ pending[t] \in Request /\ UNCHANGED <<attempt, outcome, pending, sample>>
        /\ ~Cached(t)
    BY <1>2, <1>3, <1>8 DEF TypeOK, JoinPending
  <2>2. /\ cache'[t] = None /\ \A u \in Target \ {t} : cache'[u] = cache[u]
        /\ joined'[r] = pending[t] /\ \A w \in Request \ {r} : joined'[w] = joined[w]
        /\ phase'[r] = "waiting" /\ \A w \in Request \ {r} : phase'[w] = phase[w]
    BY <1>2, <1>3, <1>8 DEF TypeOK, JoinPending
  <2>3. TypeOK'
    <3>1. cache' \in [Target -> Entries \cup {None}]
      BY <1>2, <1>8 DEF TypeOK, JoinPending
    <3>2. joined' \in [Request -> Request \cup {None}] /\ phase' \in [Request -> Phases]
      BY <1>2, <1>8, <2>1 DEF TypeOK, JoinPending, Phases
    <3> QED
      BY <1>2, <1>5, <2>1, <3>1, <3>2 DEF TypeOK
  <2>4. pending[t] # None /\ pending[t] # r
    BY <1>2, <1>3, <2>1, ConstantsAssumption DEF IInv, PendingIsLive, Fetching
  <2>5. \A w \in Request \ {r} : Fetching(w)' <=> Fetching(w)
    BY <2>2 DEF Fetching
  <2>6. ~Fetching(r) /\ ~Fetching(r)'
    BY <1>2, <2>2 DEF Fetching
  <2>7. PendingIsLive'
    <3>1. ASSUME NEW u \in Target, pending[u] # None
          PROVE  Fetching(pending[u])' /\ TargetOf(pending[u])' = u
      <4>1. pending[u] \in Request \ {r}
        BY <1>2, <2>6, <3>1 DEF IInv, PendingIsLive, TypeOK
      <4> QED
        BY <1>4, <2>5, <2>1, <3>1, <4>1 DEF IInv, PendingIsLive
    <3>2. \A w \in Request : Fetching(w)' => pending'[TargetOf(w)'] = w
      BY <1>4, <2>1, <2>5, <2>6 DEF IInv, PendingIsLive
    <3>3. \A w \in Request : phase'[w] = "waiting" =>
            joined'[w] # None /\ joined'[w] = pending'[TargetOf(w)']
      BY <1>4, <2>1, <2>2, <2>4 DEF IInv, PendingIsLive
    <3> QED
      BY <2>1, <3>1, <3>2, <3>3 DEF PendingIsLive
  <2>8. SampleOfOwnWindow'
    BY <1>4, <1>6, <2>1 DEF IInv, SampleOfOwnWindow
  <2>9. InProgress'
    <3>1. \A w \in Request \ {r} : phase[w] = "fetching" => cache'[TargetOf(w)] = None
      BY <2>2, TargetType DEF IInv, InProgress
    <3> QED
      BY <1>2, <1>3, <1>4, <1>6, <2>1, <2>2, <3>1 DEF IInv, InProgress
  <2> QED
    BY <2>3, <2>7, <2>8, <2>9 DEF IInv
<1>9. CASE StartFetch(r, t)
  <2>1. /\ pending[t] = None /\ UNCHANGED <<outcome, joined, sample>>
    BY <1>9 DEF StartFetch
  <2>2. /\ cache'[t] = None /\ \A u \in Target \ {t} : cache'[u] = cache[u]
        /\ pending'[t] = r /\ \A u \in Target \ {t} : pending'[u] = pending[u]
        /\ phase'[r] = "fetching" /\ \A w \in Request \ {r} : phase'[w] = phase[w]
    BY <1>2, <1>3, <1>9 DEF TypeOK, StartFetch
  <2>3. TypeOK'
    <3>1. cache' \in [Target -> Entries \cup {None}]
      BY <1>2, <1>9 DEF TypeOK, StartFetch
    <3>2. pending' \in [Target -> Request \cup {None}] /\ phase' \in [Request -> Phases]
      BY <1>2, <1>9 DEF TypeOK, StartFetch, Phases
    <3>3. attempt' \in [Request -> 0..MaxAttempts]
      BY <1>2, <1>9, ConstantsAssumption DEF TypeOK, StartFetch
    <3> QED
      BY <1>2, <1>5, <2>1, <3>1, <3>2, <3>3 DEF TypeOK
  <2>4. \A w \in Request \ {r} : Fetching(w)' <=> Fetching(w)
    BY <2>2 DEF Fetching
  <2>5. ~Fetching(r) /\ Fetching(r)' /\ r # None
    BY <1>2, <2>2, ConstantsAssumption DEF Fetching
  <2>6. PendingIsLive'
    <3>1. ASSUME NEW u \in Target, pending'[u] # None
          PROVE  \E w \in Request : w = pending'[u] /\ Fetching(w)' /\ TargetOf(w)' = u
      <4>1. CASE u = t
        BY <1>4, <2>2, <2>5, <4>1
      <4>2. CASE u # t
        <5>1. pending'[u] = pending[u] /\ pending[u] \in Request \ {r}
          BY <1>2, <2>2, <2>5, <3>1, <4>2 DEF IInv, PendingIsLive, TypeOK
        <5> QED
          BY <1>4, <2>4, <3>1, <5>1 DEF IInv, PendingIsLive
      <4> QED
        BY <4>1, <4>2
    <3>2. \A w \in Request : Fetching(w)' => pending'[TargetOf(w)'] = w
      <4> SUFFICES ASSUME NEW w \in Request \ {r}, Fetching(w)
                   PROVE  pending'[TargetOf(w)] = w
        BY <1>4, <2>2, <2>4
      <4>1. TargetOf(w) \in Target /\ pending[TargetOf(w)] = w /\ w # None
        BY TargetType, ConstantsAssumption DEF IInv, PendingIsLive, InProgress, Fetching
      <4> QED
        BY <2>1, <2>2, <4>1
    <3>3. \A w \in Request : phase'[w] = "waiting" =>
            joined'[w] # None /\ joined'[w] = pending'[TargetOf(w)']
      <4> SUFFICES ASSUME NEW w \in Request \ {r}, phase[w] = "waiting"
                   PROVE  joined[w] # None /\ joined[w] = pending'[TargetOf(w)]
        BY <1>4, <2>1, <2>2
      <4>1. /\ TargetOf(w) \in Target /\ joined[w] # None
            /\ joined[w] = pending[TargetOf(w)]
        BY TargetType DEF IInv, PendingIsLive, InProgress
      <4> QED
        BY <2>1, <2>2, <4>1
    <3> QED
      BY <3>1, <3>2, <3>3 DEF PendingIsLive, Fetching, TargetOf
  <2>7. SampleOfOwnWindow'
    BY <1>4, <1>6, <2>1 DEF IInv, SampleOfOwnWindow
  <2>8. InProgress'
    <3>1. \A w \in Request \ {r} : phase[w] = "fetching" => cache'[TargetOf(w)] = None
      BY <2>2, TargetType DEF IInv, InProgress
    <3> QED
      BY <1>2, <1>3, <1>4, <1>6, <2>1, <2>2, <3>1 DEF IInv, InProgress
  <2> QED
    BY <2>3, <2>6, <2>7, <2>8 DEF IInv
<1> QED
  BY <1>1, <1>7, <1>8, <1>9 DEF t

(* The steps of a fetch that do not end it for those who await it. *)
LEMMA FetchStep ==
  ASSUME IInv, NEW r \in Request, CountdownAnswered(r) \/ Retry(r) \/ FetchFails(r)
  PROVE  IInv'
<1> USE DEF fetchVars
<1>1. /\ TypeOK /\ phase[r] = "fetching" /\ block[r] \in Block
      /\ UNCHANGED <<clock, now, block, pending, joined, sample>>
  BY DEF CountdownAnswered, Retry, FetchFails, IInv, InProgress
<1>2. TargetOf(r) \in Target /\ pending[TargetOf(r)] = r /\ \A w \in Request : TargetOf(w)' = TargetOf(w)
  BY <1>1, TargetType DEF IInv, PendingIsLive, Fetching, TargetOf
<1>3. ASSUME phase' \in [Request -> Phases], TypeOK',
             \A w \in Request \ {r} : phase'[w] = phase[w] /\ outcome'[w] = outcome[w],
             phase'[r] \in {"fetching", "fetched"},
             phase'[r] = "fetching" => UNCHANGED cache,
             phase'[r] = "fetched" /\ outcome'[r] \in Sample =>
               outcome'[r].at = clock /\ outcome'[r].of = TargetOf(r),
             \A u \in Target \ {TargetOf(r)} : cache'[u] = cache[u],
             cache'[TargetOf(r)] # None => cache'[TargetOf(r)].kept.of = TargetOf(r)
      PROVE  IInv'
  <2>1. \A w \in Request : Fetching(w)' <=> Fetching(w)
    BY <1>1, <1>3 DEF Fetching
  <2>2. PendingIsLive'
    <3>1. \A t \in Target : pending[t] # None => pending[t] \in Request
      BY <1>1 DEF TypeOK
    <3> QED
      BY <1>1, <1>2, <1>3, <2>1, <3>1 DEF IInv, PendingIsLive
  <2>3. SampleOfOwnWindow'
    BY <1>1, <1>2 DEF IInv, SampleOfOwnWindow
  <2>4. \A w \in Request \ {r} : phase'[w] = "fetching" => cache'[TargetOf(w)] = None
    <3> SUFFICES ASSUME NEW w \in Request \ {r}, phase'[w] = "fetching"
                 PROVE  cache'[TargetOf(w)] = None
      OBVIOUS
    <3>1. phase[w] = "fetching" /\ Fetching(w)
      BY <1>3 DEF Fetching
    <3>2. TargetOf(w) \in Target /\ pending[TargetOf(w)] = w /\ cache[TargetOf(w)] = None
      BY <3>1, TargetType DEF IInv, PendingIsLive, InProgress
    <3> QED
      BY <1>2, <1>3, <3>2
  <2>5. InProgress'
    BY <1>1, <1>2, <1>3, <2>4 DEF IInv, InProgress
  <2> QED
    BY <1>3, <2>2, <2>3, <2>5 DEF IInv
<1>4. CASE CountdownAnswered(r)
  <2>1. PICK c \in Countdown :
          LET s == [rate |-> c, of |-> TargetOf(r), at |-> clock] IN
          /\ cache' = [cache EXCEPT ![TargetOf(r)] =
                         [kept |-> s, expires |-> clock + Lifetime]]
          /\ outcome' = [outcome EXCEPT ![r] = s]
    BY <1>4 DEF CountdownAnswered
  <2> DEFINE s == [rate |-> c, of |-> TargetOf(r), at |-> clock]
             e == [kept |-> s, expires |-> clock + Lifetime]
  <2>2. s \in Sample /\ s.at = clock /\ s.of = TargetOf(r)
    BY <1>1, <1>2, SampleType DEF TypeOK
  <2>3. e \in Entries /\ e.kept = s
    <3>1. e.kept = s /\ e = [kept |-> s, expires |-> s.at + Lifetime]
      OBVIOUS
    <3> HIDE DEF s, e
    <3> QED
      BY <2>2, <3>1, EntryType
  <2>4. cache' = [cache EXCEPT ![TargetOf(r)] = e] /\ outcome' = [outcome EXCEPT ![r] = s]
    BY <2>1
  <2> HIDE DEF s, e
  <2>5. /\ cache' \in [Target -> Entries \cup {None}]
        /\ cache'[TargetOf(r)] = e /\ \A u \in Target \ {TargetOf(r)} : cache'[u] = cache[u]
    BY <1>1, <1>2, <2>3, <2>4 DEF TypeOK
  <2>6. /\ outcome' \in [Request -> Sample \cup {Failure(k) : k \in Failures} \cup {None}]
        /\ outcome'[r] = s /\ \A w \in Request \ {r} : outcome'[w] = outcome[w]
    BY <1>1, <2>2, <2>4 DEF TypeOK
  <2>7. /\ phase' \in [Request -> Phases] /\ phase'[r] = "fetched"
        /\ \A w \in Request \ {r} : phase'[w] = phase[w]
    BY <1>1, <1>4 DEF TypeOK, CountdownAnswered, Phases
  <2>8. TypeOK'
    BY <1>1, <1>4, <2>5, <2>6, <2>7 DEF TypeOK, CountdownAnswered
  <2> QED
    BY <1>3, <2>2, <2>3, <2>5, <2>6, <2>7, <2>8
<1>5. CASE Retry(r)
  <2>1. attempt' \in [Request -> 0..MaxAttempts]
    <3>1. attempt[r] + 1 \in 0..MaxAttempts
      BY <1>1, <1>5, ConstantsAssumption DEF TypeOK, Retry
    <3> QED
      BY <1>1, <1>5, <3>1 DEF TypeOK, Retry
  <2>2. TypeOK'
    BY <1>1, <1>5, <2>1 DEF TypeOK, Retry
  <2> QED
    BY <1>1, <1>2, <1>3, <1>5, <2>2 DEF Retry, TypeOK, IInv, InProgress
<1>6. CASE FetchFails(r)
  <2>1. PICK kind \in CountdownFailures \cup {"invalid-response"} :
          outcome' = [outcome EXCEPT ![r] = Failure(kind)]
    BY <1>6 DEF FetchFails
  <2>2. kind \in Failures
    BY FailureType
  <2>3. /\ outcome' \in [Request -> Sample \cup {Failure(k) : k \in Failures} \cup {None}]
        /\ outcome'[r] = Failure(kind) /\ \A w \in Request \ {r} : outcome'[w] = outcome[w]
    BY <1>1, <2>1, <2>2 DEF TypeOK
  <2>4. Failure(kind) \notin Sample
    <3>1. DOMAIN Failure(kind) = {"failed"}
      BY DEF Failure
    <3>2. \A s \in Sample : DOMAIN s = {"rate", "of", "at"}
      BY DEF Sample
    <3>3. "rate" # "failed"
      OBVIOUS
    <3> QED
      BY <3>1, <3>2, <3>3
  <2>5. /\ phase' \in [Request -> Phases] /\ phase'[r] = "fetched"
        /\ \A w \in Request \ {r} : phase'[w] = phase[w]
    BY <1>1, <1>6 DEF TypeOK, FetchFails, Phases
  <2>6. TypeOK'
    BY <1>1, <1>6, <2>3, <2>5 DEF TypeOK, FetchFails
  <2> QED
    BY <1>1, <1>2, <1>3, <1>6, <2>3, <2>4, <2>5, <2>6 DEF FetchFails, IInv, InProgress
<1> QED
  BY <1>4, <1>5, <1>6

(* The end of a fetch, for all who await it. *)
LEMMA SettleStep ==
  ASSUME IInv, NEW r \in Request, Settle(r)
  PROVE  IInv'
<1> DEFINE t == TargetOf(r)
           fails == outcome[r] \notin Sample
<1>1. /\ TypeOK /\ phase[r] = "fetched" /\ block[r] \in Block
      /\ UNCHANGED <<clock, now, block, cache>> /\ sample[r] = None
  BY DEF Settle, IInv, InProgress
<1>2. /\ t \in Target /\ pending[t] = r /\ \A w \in Request : TargetOf(w)' = TargetOf(w)
      /\ r # None
  BY <1>1, TargetType, ConstantsAssumption DEF IInv, PendingIsLive, Fetching, TargetOf
<1>3. \A w \in Awaiting(r) : /\ w \in Request /\ TargetOf(w) = t
                             /\ phase[w] \in {"fetched", "waiting"}
  <2> SUFFICES ASSUME NEW w \in Request, joined[w] = r
               PROVE  TargetOf(w) = t /\ phase[w] = "waiting"
    BY <1>1 DEF Awaiting
  <2>1. phase[w] = "waiting" /\ pending[TargetOf(w)] = r
    BY <1>2 DEF IInv, InProgress, PendingIsLive
  <2>2. TargetOf(w) \in Target
    BY <2>1, TargetType DEF IInv, InProgress
  <2> QED
    BY <1>2, <2>1, <2>2 DEF IInv, PendingIsLive
<1>4. /\ pending' = [pending EXCEPT ![t] = None]
      /\ phase' = [w \in Request |->
                     IF w \notin Awaiting(r) THEN phase[w]
                     ELSE IF fails THEN MapProviderError(outcome[r].failed)
                     ELSE "sampled"]
      /\ sample' = [w \in Request |-> IF w \in Awaiting(r) /\ ~fails
                                      THEN outcome[r] ELSE sample[w]]
      /\ joined' = [w \in Request |-> IF joined[w] = r THEN None ELSE joined[w]]
      /\ outcome' = [outcome EXCEPT ![r] = None]
      /\ attempt' = [attempt EXCEPT ![r] = 0]
  BY DEF Settle
<1>5. ~fails => outcome[r].of = t
  BY <1>1 DEF IInv, InProgress
<1>6. r \in Awaiting(r)
  BY DEF Awaiting
<1>7. \A w \in Request :
        /\ w \notin Awaiting(r) => phase'[w] = phase[w] /\ sample'[w] = sample[w]
                                   /\ w # r /\ joined[w] # r
        /\ w \in Awaiting(r) => /\ phase'[w] \in {"502", "503", "sampled"}
                                /\ fails => sample'[w] = sample[w]
                                /\ ~fails => sample'[w] = outcome[r] /\ phase'[w] = "sampled"
  BY <1>4, FailureType DEF Awaiting
<1> HIDE DEF t, fails
<1>8. TypeOK'
  <2>1. phase' \in [Request -> Phases]
    <3>1. \A w \in Request : phase'[w] \in Phases
      BY <1>1, <1>7 DEF TypeOK, Phases
    <3> QED
      BY <1>4, <3>1
  <2>2. sample' \in [Request -> Sample \cup {None}]
    <3>1. \A w \in Request : sample'[w] \in Sample \cup {None}
      BY <1>1, <1>7 DEF TypeOK, fails
    <3> QED
      BY <1>4, <3>1
  <2>3. joined' \in [Request -> Request \cup {None}]
    BY <1>1, <1>4 DEF TypeOK
  <2>4. /\ pending' \in [Target -> Request \cup {None}]
        /\ outcome' \in [Request -> Sample \cup {Failure(k) : k \in Failures} \cup {None}]
    BY <1>1, <1>4 DEF TypeOK
  <2>5. attempt' \in [Request -> 0..MaxAttempts]
    BY <1>1, <1>4, ConstantsAssumption DEF TypeOK
  <2> QED
    BY <1>1, <2>1, <2>2, <2>3, <2>4, <2>5 DEF TypeOK
<1>9. /\ pending'[t] = None /\ \A u \in Target \ {t} : pending'[u] = pending[u]
  BY <1>1, <1>2, <1>4 DEF TypeOK
<1>10. \A w \in Request : Fetching(w)' <=> Fetching(w) /\ w # r
  <2>1. \A w \in Request : Fetching(w) /\ w \in Awaiting(r) => w = r
    BY <1>2 DEF Awaiting, IInv, InProgress, Fetching
  <2> QED
    BY <1>6, <1>7, <2>1 DEF Fetching
<1>11. PendingIsLive'
  <2>1. ASSUME NEW u \in Target, pending'[u] # None
        PROVE  \E w \in Request : w = pending'[u] /\ Fetching(w)' /\ TargetOf(w)' = u
    <3>1. u # t /\ pending'[u] = pending[u] /\ pending[u] \in Request
      BY <1>1, <1>9, <2>1 DEF TypeOK
    <3>2. Fetching(pending[u]) /\ TargetOf(pending[u]) = u
      BY <2>1, <3>1 DEF IInv, PendingIsLive
    <3>3. pending[u] # r
      BY <3>1, <3>2 DEF t
    <3> QED
      BY <1>2, <1>10, <3>1, <3>2, <3>3
  <2>2. ASSUME NEW w \in Request, Fetching(w)' PROVE pending'[TargetOf(w)'] = w
    <3>1. Fetching(w) /\ w # r /\ TargetOf(w) \in Target /\ pending[TargetOf(w)] = w
      BY <1>10, <2>2, TargetType DEF IInv, PendingIsLive, InProgress, Fetching
    <3> QED
      BY <1>2, <1>9, <3>1
  <2>3. ASSUME NEW w \in Request, phase'[w] = "waiting"
        PROVE  joined'[w] # None /\ joined'[w] = pending'[TargetOf(w)']
    <3>1. w \notin Awaiting(r) /\ phase[w] = "waiting" /\ joined[w] # r
      BY <1>7, <2>3
    <3>2. /\ TargetOf(w) \in Target /\ joined[w] # None
          /\ joined[w] = pending[TargetOf(w)]
      BY <3>1, TargetType DEF IInv, PendingIsLive, InProgress
    <3>3. joined'[w] = joined[w]
      BY <1>4, <3>1
    <3> QED
      BY <1>2, <1>9, <3>1, <3>2, <3>3
  <2> QED
    BY <2>1, <2>2, <2>3 DEF PendingIsLive, Fetching, TargetOf
<1>12. SampleOfOwnWindow'
  BY <1>2, <1>3, <1>5, <1>7 DEF IInv, SampleOfOwnWindow
<1>13. InProgress'
  <2>1. \A w \in Request :
          /\ sample'[w] # None => phase'[w] = "sampled"
          /\ joined'[w] # None => phase'[w] = "waiting"
    <3> SUFFICES ASSUME NEW w \in Request
                 PROVE  /\ sample'[w] # None => phase'[w] = "sampled"
                        /\ joined'[w] # None => phase'[w] = "waiting"
      OBVIOUS
    <3>1. CASE w \in Awaiting(r)
      <4>1. sample[w] = None
        BY <1>3, <3>1 DEF IInv, InProgress
      <4>2. joined'[w] = None
        BY <1>1, <1>4, <3>1 DEF Awaiting, IInv, InProgress
      <4> QED
        BY <1>7, <3>1, <4>1, <4>2
    <3>2. CASE w \notin Awaiting(r)
      <4>1. joined'[w] = joined[w]
        BY <1>4, <1>7, <3>2
      <4> QED
        BY <1>7, <3>2, <4>1 DEF IInv, InProgress
    <3> QED
      BY <3>1, <3>2
  <2>2. \A w \in Request : phase'[w] \in {"fetching", "fetched", "waiting"} =>
          w \notin Awaiting(r) /\ w # r /\ phase'[w] = phase[w]
    BY <1>6, <1>7
  <2>3. \A w \in Request \ {r} : outcome'[w] = outcome[w]
    BY <1>1, <1>4 DEF TypeOK
  <2> QED
    BY <1>1, <1>2, <2>1, <2>2, <2>3 DEF IInv, InProgress
<1> QED
  BY <1>8, <1>11, <1>12, <1>13 DEF IInv

LEMMA NextIInv == IInv /\ [Next]_vars => IInv'
<1> SUFFICES ASSUME IInv, [Next]_vars PROVE IInv'
  OBVIOUS
<1>1. CASE UNCHANGED vars
  BY <1>1 DEF vars, fetchVars, IInv, TypeOK, PendingIsLive, SampleOfOwnWindow, InProgress,
              Fetching, TargetOf
<1>2. CASE Tick
  <2>1. TypeOK'
    <3>1. clock' \in 0..MaxTime /\ 0..clock \subseteq 0..clock'
      BY <1>2, ConstantsAssumption DEF IInv, TypeOK, Tick
    <3>2. now' \in [Request -> (0..clock') \cup {None}]
      BY <1>2, <3>1 DEF IInv, TypeOK, Tick
    <3> QED
      BY <1>2, <3>1, <3>2 DEF IInv, TypeOK, Tick, fetchVars
  <2>2. InProgress'
    BY <1>2 DEF IInv, InProgress, Tick, fetchVars, TargetOf
  <2> QED
    BY <1>2, <2>1, <2>2 DEF IInv, PendingIsLive, SampleOfOwnWindow, Tick, fetchVars,
                            Fetching, TargetOf
<1> QED
  BY <1>1, <1>2, ReceiveStep, GetBlockTimeStep, FetchStep, SettleStep DEF Next, Advance
------------------------------------------------------------------------------
LEMMA Invariant == Spec => []IInv
  BY InitIInv, NextIInv, PTL DEF Spec

(* No request ever waits for a fetch that is over, and no bucket is fetched twice *)
(* at a time (blockTimeRequests in getBlockTimeMillis).                           *)
THEOREM PendingStaysLive == Spec => []PendingIsLive
<1>1. IInv => PendingIsLive
  BY DEF IInv
<1> QED
  BY <1>1, Invariant, PTL

(* A sample is given out only within its lifetime, and one that is kept is not   *)
(* fetched again within it (BLOCK_TIME_CACHE_TTL_MS), for any lifetime and any   *)
(* number of simultaneous requests.                                              *)
THEOREM SamplesLive == Spec => SamplesLiveTheirTime
<1> USE DEF fetchVars
<1> DEFINE Given == \A r \in Request : sample'[r] # None =>
                      sample[r] = sample'[r] \/ clock < sample'[r].at + Lifetime
           Forgotten == \A t \in Target : cache[t] # None /\ cache'[t] # cache[t] =>
                          clock >= cache[t].kept.at + Lifetime
<1>1. ASSUME IInv, NEW r \in Request, Receive(r) \/ Advance(r)
      PROVE  Given /\ Forgotten
  <2>1. TypeOK
    BY <1>1 DEF IInv
  <2>2. CASE Receive(r) \/ BlockNumberFails(r) \/ Respond(r)
    BY <2>1, <2>2 DEF Receive, BlockNumberFails, Respond, TypeOK
  <2>3. CASE GetBlockTime(r)
    <3>1. PICK b \in Block : \/ UseCached(r, EstimateTargetBlock(b))
                             \/ JoinPending(r, EstimateTargetBlock(b))
                             \/ StartFetch(r, EstimateTargetBlock(b))
      BY <2>3 DEF GetBlockTime
    <3> DEFINE t == EstimateTargetBlock(b)
    <3>2. t \in Target
      BY TargetType
    <3> HIDE DEF t
    <3>3. \A u \in Target : cache[u] # None =>
            cache[u].expires = cache[u].kept.at + Lifetime /\ cache[u].kept.at \in Nat
      BY <2>1, EntryType, SampleType DEF TypeOK
    <3>4. clock \in Nat /\ Lifetime \in Nat
      BY <2>1, ConstantsAssumption DEF TypeOK
    <3>5. CASE UseCached(r, t)
      <4>1. /\ sample'[r] = cache[t].kept /\ \A w \in Request \ {r} : sample'[w] = sample[w]
            /\ cache' = cache
        BY <2>1, <3>5 DEF UseCached, TypeOK
      <4>2. clock < cache[t].kept.at + Lifetime
        BY <3>2, <3>3, <3>5 DEF UseCached, Cached
      <4> QED
        BY <4>1, <4>2
    <3>6. CASE JoinPending(r, t) \/ StartFetch(r, t)
      <4>1. /\ ~Cached(t) /\ cache' = [cache EXCEPT ![t] = None] /\ sample' = sample
        BY <3>6 DEF JoinPending, StartFetch
      <4>2. \A u \in Target \ {t} : cache'[u] = cache[u]
        BY <2>1, <3>2, <4>1 DEF TypeOK
      <4>3. cache[t] # None => clock >= cache[t].kept.at + Lifetime
        <5>1. cache[t] # None => cache[t].expires = cache[t].kept.at + Lifetime
                                 /\ ~(cache[t].expires > clock) /\ cache[t].kept.at \in Nat
          BY <3>2, <3>3, <4>1 DEF Cached
        <5> QED
          BY <3>4, <5>1
      <4> QED
        BY <4>1, <4>2, <4>3
    <3> QED
      BY <3>1, <3>5, <3>6 DEF t
  <2>4. CASE CountdownAnswered(r)
    <3>1. cache[TargetOf(r)] = None /\ sample' = sample
      BY <1>1, <2>4 DEF CountdownAnswered, IInv, InProgress
    <3>2. \A u \in Target \ {TargetOf(r)} : cache'[u] = cache[u]
      BY <2>1, <2>4 DEF CountdownAnswered, TypeOK
    <3> QED
      BY <3>1, <3>2
  <2>5. CASE Retry(r) \/ FetchFails(r)
    BY <2>5 DEF Retry, FetchFails
  <2>6. CASE Settle(r)
    <3>1. cache' = cache /\ \A w \in Request : sample'[w] = sample[w] \/ sample'[w] = outcome[r]
      BY <2>6 DEF Settle
    <3>2. \A w \in Request : sample'[w] # sample[w] =>
            outcome[r] \in Sample /\ sample'[w] = outcome[r]
      BY <2>6 DEF Settle
    <3>3. outcome[r] \in Sample => outcome[r].at = clock
      BY <1>1, <2>6 DEF Settle, IInv, InProgress
    <3>4. clock < clock + Lifetime
      BY <2>1, ConstantsAssumption DEF TypeOK
    <3> QED
      BY <3>1, <3>2, <3>3, <3>4
  <2> QED
    BY <1>1, <2>2, <2>3, <2>4, <2>5, <2>6 DEF Advance
<1>2. IInv /\ [Next]_vars => [Given /\ Forgotten]_vars
  <2> SUFFICES ASSUME IInv, Next PROVE Given /\ Forgotten
    BY DEF vars
  <2>1. CASE Tick
    BY <2>1 DEF Tick
  <2> QED
    BY <1>1, <2>1 DEF Next
<1> QED
  BY <1>2, Invariant, PTL DEF Spec, SamplesLiveTheirTime
------------------------------------------------------------------------------
(* What a request predicts from: the time it came, its block and its sample. *)
Contexts ==
  \A r \in Request :
    /\ phase[r] \in {"number", "fetching", "fetched", "waiting", "sampled"} =>
         now[r] \in Nat
    /\ phase[r] = "sampled" => block[r] \in Block /\ sample[r] \in Sample

LEMMA ContextStep ==
  ASSUME IInv, Contexts, NEW r \in Request, Receive(r) \/ Advance(r)
  PROVE  Contexts'
<1> USE DEF fetchVars, Contexts
<1>1. TypeOK /\ InProgress
  BY DEF IInv
<1>2. CASE Receive(r)
  <2>1. now'[r] = clock /\ clock \in Nat /\ \A w \in Request \ {r} : now'[w] = now[w]
    BY <1>1, <1>2 DEF TypeOK, Receive
  <2> QED
    BY <1>1, <1>2, <2>1 DEF Receive, TypeOK
<1>3. CASE BlockNumberFails(r)
  BY <1>1, <1>3, FailureType DEF BlockNumberFails, TypeOK
<1>4. CASE Respond(r)
  BY <1>1, <1>4 DEF Respond, TypeOK
<1>5. CASE GetBlockTime(r)
  <2>1. PICK b \in Block :
          /\ block' = [block EXCEPT ![r] = b]
          /\ \/ UseCached(r, EstimateTargetBlock(b))
             \/ JoinPending(r, EstimateTargetBlock(b))
             \/ StartFetch(r, EstimateTargetBlock(b))
    BY <1>5 DEF GetBlockTime
  <2> DEFINE t == EstimateTargetBlock(b)
  <2>2. t \in Target /\ phase[r] = "number" /\ now' = now
    BY <1>5, TargetType DEF GetBlockTime
  <2>3. block'[r] = b /\ \A w \in Request \ {r} : block'[w] = block[w]
    BY <1>1, <2>1 DEF TypeOK
  <2> HIDE DEF t
  <2>4. \A w \in Request \ {r} : phase'[w] = phase[w] /\ sample'[w] = sample[w]
    BY <1>1, <2>1 DEF UseCached, JoinPending, StartFetch, TypeOK
  <2>5. phase'[r] = "sampled" => sample'[r] \in Sample
    <3>1. CASE UseCached(r, t)
      <4>1. cache[t] \in Entries
        BY <1>1, <2>2, <3>1 DEF TypeOK, UseCached, Cached
      <4> QED
        BY <1>1, <3>1, <4>1, EntryType DEF UseCached, TypeOK
    <3>2. CASE JoinPending(r, t) \/ StartFetch(r, t)
      BY <1>1, <3>2 DEF JoinPending, StartFetch, TypeOK
    <3> QED
      BY <2>1, <3>1, <3>2 DEF t
  <2> QED
    BY <2>2, <2>3, <2>4, <2>5
<1>6. CASE CountdownAnswered(r) \/ Retry(r) \/ FetchFails(r)
  <2>1. UNCHANGED <<now, block, sample>> /\ phase[r] = "fetching"
    BY <1>6 DEF CountdownAnswered, Retry, FetchFails
  <2>2. /\ phase'[r] \in {"fetching", "fetched"}
        /\ \A w \in Request \ {r} : phase'[w] = phase[w]
    BY <1>1, <1>6 DEF CountdownAnswered, Retry, FetchFails, TypeOK
  <2> QED
    BY <2>1, <2>2
<1>7. CASE Settle(r)
  <2>1. UNCHANGED <<now, block>> /\ phase[r] = "fetched"
    BY <1>7 DEF Settle
  <2>2. \A w \in Awaiting(r) : phase[w] \in {"fetched", "waiting"}
    BY <1>1, <2>1, ConstantsAssumption DEF Awaiting, InProgress
  <2>3. \A w \in Request :
          /\ w \notin Awaiting(r) => phase'[w] = phase[w] /\ sample'[w] = sample[w]
          /\ w \in Awaiting(r) =>
               /\ phase'[w] \in {"502", "503", "sampled"}
               /\ phase'[w] = "sampled" => sample'[w] \in Sample
    BY <1>7, FailureType DEF Settle
  <2>4. \A w \in Awaiting(r) : block[w] \in Block /\ w \in Request
    BY <1>1, <2>2 DEF Awaiting, InProgress
  <2> QED
    BY <2>1, <2>2, <2>3, <2>4
<1> QED
  BY <1>2, <1>3, <1>4, <1>5, <1>6, <1>7 DEF Advance

(* The quotient that is rounded up is the least that is large enough. *)
LEMMA CeilDivLeast ==
  ASSUME NEW a \in Nat, NEW b \in Nat \ {0}
  PROVE  /\ CeilDiv(a, b) \in Nat
         /\ CeilDiv(a, b) * b >= a
         /\ (CeilDiv(a, b) - 1) * b < a
         /\ a = 0 => CeilDiv(a, b) = 0
<1> DEFINE q == CeilDiv(a, b)
<1>1. q \in Int /\ q = (a + b - 1) \div b /\ a + b - 1 \in Nat
  BY DEF CeilDiv
<1>2. \A c \in Nat : \A e \in Int : e = c \div b => e * b <= c /\ c < e * b + b /\ e >= 0
  BY Z3
<1> HIDE DEF q
<1>3. q * b <= a + b - 1 /\ a + b - 1 < q * b + b /\ q \in Nat
  BY <1>1, <1>2
<1>4. q * b \in Int /\ (q - 1) * b = q * b - b
  BY <1>3
<1>5. q * b >= a /\ q * b - b < a
  BY <1>3, <1>4
<1>6. a = 0 => q = 0
  <2> SUFFICES ASSUME a = 0, q >= 1 PROVE FALSE
    BY <1>3
  <2>1. q * b >= b
    BY <1>3
  <2> QED
    BY <1>3, <1>4, <2>1
<1> QED
  BY <1>3, <1>4, <1>5, <1>6 DEF q

(* One bound of a prediction is due, and at most one block late. *)
LEMMA BoundIsDue ==
  ASSUME IInv, Contexts, NEW r \in Request, phase[r] = "sampled",
         NEW timestamp \in Timestamp, timestamp >= now[r],
         NEW p \in PredictBlock(timestamp, r)
  PROVE  LET k == p - block[r]
             time == sample[r].rate.seconds
             work == (timestamp - now[r]) * sample[r].rate.blocks IN
         /\ p \in Nat /\ block[r] <= p
         /\ k * time >= work
         /\ k >= 2 => ~((k - 2) * time >= work)
         /\ k = 1 => timestamp > now[r]
<1> DEFINE time == sample[r].rate.seconds
           blocks == sample[r].rate.blocks
           span == timestamp - now[r]
           work == span * blocks
           k == p - block[r]
<1>1. block[r] \in Nat /\ now[r] \in Nat /\ timestamp \in Nat
  BY ConstantsAssumption DEF Contexts
<1>2. time \in Nat \ {0} /\ blocks \in Nat \ {0}
  <2>1. sample[r] \in Sample
    BY DEF Contexts
  <2>2. sample[r].rate \in Countdown
    BY <2>1 DEF Sample
  <2> QED
    BY <2>2, ConstantsAssumption
<1>3. span \in Nat /\ (span = 0 <=> ~(timestamp > now[r]))
  BY <1>1
<1>4. work \in Nat /\ (span = 0 => work = 0)
  BY <1>2, <1>3
<1>5. PICK u \in {0, 1} : p = block[r] + CeilDiv(work, time) + u /\ (u = 1 => work > 0)
  BY DEF PredictBlock
<1> HIDE DEF time, blocks, span, work
<1>6. /\ CeilDiv(work, time) \in Nat
      /\ CeilDiv(work, time) * time >= work
      /\ (CeilDiv(work, time) - 1) * time < work
      /\ work = 0 => CeilDiv(work, time) = 0
  BY <1>2, <1>4, CeilDivLeast
<1>7. k = CeilDiv(work, time) + u /\ p \in Nat /\ block[r] <= p /\ k \in Nat
  BY <1>1, <1>5, <1>6
<1> HIDE DEF k
<1> DEFINE q == CeilDiv(work, time)
<1> HIDE DEF q
<1>8. k * time >= work
  <2>1. k * time >= q * time
    BY <1>2, <1>6, <1>7 DEF q
  <2> QED
    BY <1>2, <1>4, <1>6, <1>7, <2>1 DEF q
<1>9. (k - 2) * time < work
  <2>1. k - 2 <= q - 1 /\ q \in Nat
    BY <1>6, <1>7 DEF q
  <2>2. (k - 2) * time <= (q - 1) * time
    BY <1>2, <1>7, <2>1
  <2>3. (q - 1) * time < work
    BY <1>6 DEF q
  <2>4. (k - 2) * time \in Int /\ (q - 1) * time \in Int
    BY <1>2, <1>7, <2>1
  <2> QED
    BY <1>4, <2>2, <2>3, <2>4
<1>10. k = 1 => timestamp > now[r]
  <2> SUFFICES ASSUME span = 0 PROVE k = 0
    BY <1>3
  <2> QED
    BY <1>4, <1>5, <1>6, <1>7
<1>11. ~((k - 2) * time >= work)
  <2>1. (k - 2) * time \in Int
    BY <1>2, <1>7
  <2> QED
    BY <1>4, <1>9, <2>1
<1> QED
  BY <1>7, <1>8, <1>10, <1>11 DEF k, time, work, span, blocks

(* A request that has been told of a block and given a sample keeps both.    *)
LEMMA ContextsStay == Spec => [](IInv /\ Contexts)
<1>1. Init => IInv /\ Contexts
  BY InitIInv DEF Init, Contexts
<1>2. IInv /\ Contexts /\ [Next]_vars => (IInv /\ Contexts)'
  <2> SUFFICES ASSUME IInv, Contexts, [Next]_vars PROVE Contexts'
    BY NextIInv
  <2>1. CASE UNCHANGED vars
    BY <2>1 DEF vars, Contexts
  <2>2. CASE Tick
    BY <2>2 DEF Tick, Contexts
  <2> QED
    BY <2>1, <2>2, ContextStep DEF Next
<1> QED
  BY <1>1, <1>2, PTL DEF Spec

(* Whatever requests share, and whenever they come: a prediction is made with a *)
(* sample of its own window, its range starts no earlier than the current block *)
(* and each bound is the first block due, or by rounding the one after          *)
(* (predictBlockFromContext).                                                   *)
THEOREM PredictionsRight == Spec => []PredictionsAreRight
<1>1. IInv /\ Contexts => PredictionsAreRight
  <2> SUFFICES ASSUME IInv, Contexts, NEW r \in Request, phase[r] = "sampled",
                      NEW min \in Timestamp, NEW max \in Timestamp,
                      Admissible(min, max, now[r]), NEW p \in Predictions(r, min, max)
               PROVE  LET Due(k, timestamp) ==
                            k * sample[r].rate.seconds
                              >= (timestamp - now[r]) * sample[r].rate.blocks
                          First(k, timestamp) ==
                            /\ Due(k, timestamp)
                            /\ k >= 2 => ~Due(k - 2, timestamp)
                            /\ k = 1 => timestamp > now[r] IN
                      /\ block[r] <= p.min /\ p.min <= p.max
                      /\ First(p.min - block[r], min) /\ First(p.max - block[r], max)
    BY DEF PredictionsAreRight, PredictionIsDue, IInv
  <2>1. p.min \in PredictBlock(min, r) /\ p.max \in PredictBlock(max, r) /\ p.min <= p.max
    BY DEF Predictions
  <2>2. min >= now[r] /\ max >= now[r]
    BY DEF Admissible
  <2> QED
    BY <2>1, <2>2, BoundIsDue
<1> QED
  BY <1>1, ContextsStay, PTL
------------------------------------------------------------------------------
(* A finite set of ids has a least and a greatest one.                       *)
LEMMA LeastExists ==
  ASSUME NEW S \in SUBSET Nat, IsFiniteSet(S), S # {}
  PROVE  \E m \in S : \A u \in S : m <= u
<1> DEFINE Under(x) == {u \in S : u < x}
           Family == {Under(x) : x \in S}
<1>1. IsWellFoundedOn(StrictSubsetOrdering(S), SUBSET S)
  BY FS_StrictSubsetOrderingWellFounded, FS_FiniteSubsetsOfFinite
<1>2. Family \subseteq SUBSET S /\ Family # {}
  OBVIOUS
<1>3. PICK x \in Family :
        \A y \in Family : ~(<<y, x>> \in StrictSubsetOrdering(S))
  BY <1>1, <1>2, WFMin
<1>4. PICK m \in S : x = Under(m)
  BY <1>3
<1>5. \A u \in S : m <= u
  <2> SUFFICES ASSUME NEW u \in S, u < m PROVE FALSE
    OBVIOUS
  <2>1. Under(u) \subseteq Under(m) /\ Under(u) # Under(m)
    <3>1. u \in Under(m) /\ u \notin Under(u)
      OBVIOUS
    <3>2. \A v \in Under(u) : v \in Under(m)
      OBVIOUS
    <3> HIDE DEF Under
    <3> QED
      BY <3>1, <3>2
  <2>2. Under(u) \in Family
    OBVIOUS
  <2> QED
    BY <1>2, <1>3, <1>4, <2>1, <2>2 DEF StrictSubsetOrdering
<1> QED
  BY <1>5

(* The least of some numbers.                                                *)
LEMMA LeastNumber ==
  ASSUME NEW S \in SUBSET Nat, S # {}
  PROVE  \E m \in S : \A u \in S : m <= u
<1>1. PICK x \in S : TRUE
  OBVIOUS
<1> DEFINE low == {u \in S : u <= x}
<1>2. low \in SUBSET Nat /\ low # {} /\ IsFiniteSet(low)
  <2>1. x \in Nat /\ x \in S /\ x <= x
    OBVIOUS
  <2>2. x \in low /\ \A u \in low : u \in Nat /\ u \in 0..x
    BY <2>1
  <2>3. IsFiniteSet(0..x)
    BY <2>1, FS_Interval
  <2> HIDE DEF low
  <2> QED
    BY <2>2, <2>3, FS_Subset
<1>3. PICK m \in low : \A u \in low : m <= u
  <2> HIDE DEF low
  <2> QED
    BY <1>2, LeastExists
<1>4. \A u \in S : m <= u
  BY <1>3
<1> QED
  BY <1>4

(* The powers of ten up to the n-th are a function, and agree for any two n. *)
UpTo(g, n) == g = [k \in 0..n |-> IF k = 0 THEN 1 ELSE 10 * g[k - 1]]

LEMMA PowersExist ==
  ASSUME NEW n \in Nat
  PROVE  \E g : UpTo(g, n)
<1> DEFINE Bad == {k \in Nat : ~ \E g : UpTo(g, k)}
<1>1. SUFFICES ASSUME Bad # {} PROVE FALSE
  OBVIOUS
<1>2. PICK k \in Bad : \A j \in Bad : k <= j
  <2>1. Bad \in SUBSET Nat
    OBVIOUS
  <2> HIDE DEF Bad
  <2> QED
    BY <1>1, <2>1, LeastNumber
<1>3. k \in Nat /\ ~ \E g : UpTo(g, k)
  OBVIOUS
<1>4. CASE k = 0
  <2>1. UpTo([i \in 0..0 |-> 1], 0)
    BY DEF UpTo
  <2> QED
    BY <1>3, <1>4, <2>1
<1>5. CASE k # 0
  <2>1. k - 1 \in Nat /\ k - 1 < k
    BY <1>3, <1>5
  <2>2. PICK g : UpTo(g, k - 1)
    <3>1. k - 1 \notin Bad
      <4> HIDE DEF Bad
      <4> QED
        BY <1>2, <1>3, <2>1
    <3> QED
      BY <2>1, <3>1
  <2> DEFINE h == [i \in 0..k |-> IF i = k THEN 10 * g[k - 1] ELSE g[i]]
  <2>3. \A i \in 0..k : h[i] = IF i = 0 THEN 1 ELSE 10 * h[i - 1]
    <3> SUFFICES ASSUME NEW i \in 0..k
                 PROVE  h[i] = IF i = 0 THEN 1 ELSE 10 * h[i - 1]
      OBVIOUS
    <3>1. CASE i = k
      <4>1. k \in 0..k /\ k - 1 \in 0..k /\ k - 1 # k
        BY <1>3, <2>1
      <4>2. h[k] = 10 * g[k - 1] /\ h[k - 1] = g[k - 1]
        BY <4>1
      <4> QED
        BY <1>5, <3>1, <4>2
    <3>2. CASE i # k
      <4>1. i \in 0..(k - 1) /\ (i # 0 => i - 1 \in 0..k /\ i - 1 # k)
        BY <1>3, <3>2
      <4>2. g[i] = IF i = 0 THEN 1 ELSE 10 * g[i - 1]
        BY <2>2, <4>1 DEF UpTo
      <4>3. h[i] = g[i] /\ (i # 0 => h[i - 1] = g[i - 1])
        BY <3>2, <4>1
      <4> QED
        BY <4>2, <4>3
    <3> QED
      BY <3>1, <3>2
  <2>4. h = [i \in 0..k |-> h[i]]
    OBVIOUS
  <2>5. UpTo(h, k)
    <3> HIDE DEF h
    <3> QED
      BY <2>3, <2>4 DEF UpTo
  <2> QED
    BY <1>3, <2>5
<1> QED
  BY <1>4, <1>5

LEMMA PowersAgree ==
  ASSUME NEW n \in Nat, NEW m \in Nat, NEW g, NEW h, UpTo(g, n), UpTo(h, m),
         NEW j \in Nat, j <= n, j <= m
  PROVE  g[j] = h[j]
<1> DEFINE Bad == {k \in Nat : k <= n /\ k <= m /\ g[k] # h[k]}
<1>1. SUFFICES ASSUME Bad # {} PROVE FALSE
  OBVIOUS
<1>2. PICK k \in Bad : \A i \in Bad : k <= i
  <2>1. Bad \in SUBSET Nat
    OBVIOUS
  <2> HIDE DEF Bad
  <2> QED
    BY <1>1, <2>1, LeastNumber
<1>3. k \in Nat /\ k \in 0..n /\ k \in 0..m /\ g[k] # h[k]
  OBVIOUS
<1>4. /\ g[k] = IF k = 0 THEN 1 ELSE 10 * g[k - 1]
      /\ h[k] = IF k = 0 THEN 1 ELSE 10 * h[k - 1]
  BY <1>3 DEF UpTo
<1>5. k # 0 => g[k - 1] = h[k - 1]
  <2> SUFFICES ASSUME k # 0 PROVE k - 1 \in Nat /\ k - 1 <= n /\ k - 1 <= m /\ k - 1 \notin Bad
    OBVIOUS
  <2>1. k - 1 \in Nat /\ k - 1 <= n /\ k - 1 <= m /\ k - 1 < k
    BY <1>3
  <2> HIDE DEF Bad
  <2> QED
    BY <1>2, <1>3, <2>1
<1> QED
  BY <1>3, <1>4, <1>5

(* Every power of ten is ten times the one before it.                        *)
LEMMA TenRecursion == Ten = [k \in Nat |-> IF k = 0 THEN 1 ELSE 10 * Ten[k - 1]]
<1> DEFINE Up(n) == CHOOSE g : UpTo(g, n)
           F == [k \in Nat |-> Up(k)[k]]
<1>1. \A n \in Nat : UpTo(Up(n), n)
  BY PowersExist
<1> HIDE DEF Up
<1>2. \A k \in Nat : F[k] = IF k = 0 THEN 1 ELSE 10 * F[k - 1]
  <2> SUFFICES ASSUME NEW k \in Nat PROVE F[k] = IF k = 0 THEN 1 ELSE 10 * F[k - 1]
    OBVIOUS
  <2>1. k \in 0..k /\ F[k] = Up(k)[k]
    OBVIOUS
  <2>2. Up(k)[k] = IF k = 0 THEN 1 ELSE 10 * Up(k)[k - 1]
    BY <1>1, <2>1 DEF UpTo
  <2>3. k # 0 => F[k - 1] = Up(k)[k - 1]
    <3> SUFFICES ASSUME k # 0 PROVE F[k - 1] = Up(k)[k - 1]
      OBVIOUS
    <3>1. k - 1 \in Nat /\ k - 1 <= k - 1 /\ k - 1 <= k
      OBVIOUS
    <3>2. UpTo(Up(k), k) /\ UpTo(Up(k - 1), k - 1)
      BY <1>1, <3>1
    <3>3. Up(k - 1)[k - 1] = Up(k)[k - 1]
      BY <3>1, <3>2, PowersAgree
    <3> QED
      BY <3>1, <3>3
  <2> QED
    BY <2>1, <2>2, <2>3
<1>3. F = [k \in Nat |-> F[k]]
  OBVIOUS
<1> HIDE DEF F
<1>4. F = [k \in Nat |-> IF k = 0 THEN 1 ELSE 10 * F[k - 1]]
  BY <1>2, <1>3
<1> QED
  BY <1>4 DEF Ten

LEMMA TenValue ==
  /\ Ten[0] = 1
  /\ \A k \in Nat : Ten[k] \in Nat \ {0} /\ Ten[k + 1] = 10 * Ten[k] /\ k < Ten[k]
<1> DEFINE Bad == {k \in Nat : ~(Ten[k] \in Nat /\ k < Ten[k])}
<1>1. Ten[0] = 1
  BY TenRecursion
<1>2. \A k \in Nat : Ten[k + 1] = 10 * Ten[k]
  <2> SUFFICES ASSUME NEW k \in Nat PROVE Ten[k + 1] = 10 * Ten[k]
    OBVIOUS
  <2>1. k + 1 \in Nat /\ k + 1 # 0 /\ (k + 1) - 1 = k
    OBVIOUS
  <2> QED
    BY <2>1, TenRecursion
<1>3. Bad = {}
  <2>1. SUFFICES ASSUME Bad # {} PROVE FALSE
    OBVIOUS
  <2>2. PICK k \in Bad : \A i \in Bad : k <= i
    <3>1. Bad \in SUBSET Nat
      OBVIOUS
    <3> HIDE DEF Bad
    <3> QED
      BY <2>1, <3>1, LeastNumber
  <2>3. k \in Nat /\ ~(Ten[k] \in Nat /\ k < Ten[k])
    OBVIOUS
  <2>4. k # 0
    BY <1>1, <2>3
  <2>5. k - 1 \in Nat /\ k - 1 < k /\ (k - 1) + 1 = k
    BY <2>3, <2>4
  <2>6. Ten[k - 1] \in Nat /\ k - 1 < Ten[k - 1]
    <3>1. k - 1 \notin Bad
      <4> HIDE DEF Bad
      <4> QED
        BY <2>2, <2>3, <2>5
    <3> QED
      BY <2>5, <3>1
  <2>7. Ten[k] = 10 * Ten[k - 1]
    BY <1>2, <2>5
  <2> QED
    BY <2>3, <2>5, <2>6, <2>7
<1>4. \A k \in Nat : Ten[k] \in Nat /\ k < Ten[k]
  BY <1>3
<1> QED
  BY <1>1, <1>2, <1>4

(* Quotient and remainder are what they are multiplied and added up from.    *)
LEMMA Quotient ==
  ASSUME NEW a \in Nat, NEW t \in Nat \ {0}
  PROVE  /\ a \div t \in Nat /\ a % t \in 0..(t - 1)
         /\ a = (a \div t) * t + (a % t)
<1> DEFINE q == a \div t
           r == a % t
<1>1. q \in Int /\ r \in 0..(t - 1)
  OBVIOUS
<1>2. \A e \in Int, s \in Int : e = q /\ s = r => a = e * t + s /\ e >= 0
  BY Z3
<1> HIDE DEF q, r
<1>3. r \in Int /\ a = q * t + r /\ q >= 0
  BY <1>1, <1>2
<1> QED
  BY <1>1, <1>3 DEF q, r

LEMMA QuotientIs ==
  ASSUME NEW t \in Nat \ {0}, NEW q \in Nat, NEW p \in Nat,
         NEW r \in 0..(t - 1), NEW s \in 0..(t - 1), q * t + r = p * t + s
  PROVE  q = p /\ r = s
<1>1. ASSUME NEW x \in Nat, NEW y \in Nat, x < y,
             NEW v \in 0..(t - 1), NEW w \in 0..(t - 1), x * t + v = y * t + w
      PROVE  FALSE
  <2>1. PICK z \in Nat : y = x + 1 + z
    <3>1. y - x - 1 \in Nat /\ y = x + 1 + (y - x - 1)
      BY <1>1
    <3> QED
      BY <3>1
  <2>2. y * t = x * t + t + z * t
    BY <2>1
  <2>3. z * t \in Nat /\ x * t \in Nat /\ t \in Nat /\ v < t
    BY <2>1
  <2> QED
    BY <1>1, <2>2, <2>3
<1>2. q = p
  BY <1>1
<1>3. q * t \in Nat
  OBVIOUS
<1> QED
  BY <1>2, <1>3

(* To drop a digit more is to drop one of what is left, and to keep a digit  *)
(* more is to keep that one before those kept.                               *)
LEMMA OneDigitMore ==
  ASSUME NEW a \in Nat, NEW t \in Nat \ {0}
  PROVE  /\ a \div (10 * t) = (a \div t) \div 10
         /\ a % (10 * t) = ((a \div t) % 10) * t + (a % t)
<1> DEFINE q == a \div t
           r == a % t
           u == q \div 10
           d == q % 10
<1>1. q \in Nat /\ r \in 0..(t - 1) /\ a = q * t + r
  BY Quotient
<1> HIDE DEF q, r
<1>2. u \in Nat /\ d \in 0..9 /\ q = u * 10 + d
  BY <1>1, Quotient
<1> HIDE DEF u, d
<1>3. a = u * (10 * t) + (d * t + r)
  BY <1>1, <1>2
<1>4. d * t + r \in 0..((10 * t) - 1)
  <2>1. d * t \in Nat /\ d * t <= 9 * t
    BY <1>2
  <2> QED
    BY <1>1, <2>1
<1>5. 10 * t \in Nat \ {0}
  OBVIOUS
<1>6. /\ a \div (10 * t) \in Nat /\ a % (10 * t) \in 0..((10 * t) - 1)
      /\ a = (a \div (10 * t)) * (10 * t) + (a % (10 * t))
  <2> DEFINE T == 10 * t
  <2>1. T \in Nat \ {0}
    BY <1>5
  <2> HIDE DEF T
  <2>2. /\ a \div T \in Nat /\ a % T \in 0..(T - 1)
        /\ a = (a \div T) * T + (a % T)
    BY <2>1, Quotient
  <2> QED
    BY <2>2 DEF T
<1>7. a \div (10 * t) = u /\ a % (10 * t) = d * t + r
  <2> DEFINE T == 10 * t
             Q == a \div T
             R == a % T
             S == d * t + r
  <2>1. T \in Nat \ {0} /\ Q \in Nat /\ u \in Nat /\ R \in 0..(T - 1) /\ S \in 0..(T - 1)
    BY <1>2, <1>4, <1>5, <1>6
  <2>2. Q * T + R = u * T + S
    <3>1. a = Q * T + R
      BY <1>6
    <3>2. a = u * T + S
      BY <1>3
    <3> QED
      BY <3>1, <3>2
  <2>3. Q = u /\ R = S
    <3> HIDE DEF T, Q, R, S
    <3> QED
      BY <2>1, <2>2, QuotientIs
  <2> QED
    BY <2>3
<1>8. a \div (10 * t) = u
  BY <1>7
<1>9. a % (10 * t) = d * t + r
  BY <1>7
<1> QED
  BY <1>8, <1>9, Zenon DEF u, d, q, r

(* To drop some digits and then more is to drop them all.                   *)
LEMMA DropDigits ==
  ASSUME NEW a \in Nat, NEW s \in Nat, NEW j \in Nat
  PROVE  a \div Ten[s + j] = (a \div Ten[s]) \div Ten[j]
<1> DEFINE Bad == {k \in Nat : a \div Ten[s + k] # (a \div Ten[s]) \div Ten[k]}
<1>1. SUFFICES ASSUME Bad # {} PROVE FALSE
  OBVIOUS
<1>2. PICK k \in Bad : \A i \in Bad : k <= i
  <2>1. Bad \in SUBSET Nat
    OBVIOUS
  <2> HIDE DEF Bad
  <2> QED
    BY <1>1, <2>1, LeastNumber
<1>3. k \in Nat /\ a \div Ten[s + k] # (a \div Ten[s]) \div Ten[k]
  OBVIOUS
<1>4. Ten[s] \in Nat \ {0} /\ a \div Ten[s] \in Nat
  BY TenValue, Quotient
<1>5. k # 0
  <2> SUFFICES ASSUME k = 0 PROVE FALSE
    OBVIOUS
  <2>1. s + k = s /\ Ten[k] = 1
    BY TenValue
  <2>2. (a \div Ten[s]) \div 1 = a \div Ten[s]
    BY <1>4
  <2> QED
    BY <1>3, <2>1, <2>2
<1> DEFINE i == k - 1
           x == a \div Ten[s]
<1>6. i \in Nat /\ i < k /\ k = i + 1 /\ s + k = (s + i) + 1 /\ s + i \in Nat
  BY <1>3, <1>5
<1>7. a \div Ten[s + i] = x \div Ten[i]
  <2>1. i \notin Bad
    <3> HIDE DEF Bad, i
    <3> QED
      BY <1>2, <1>3, <1>6
  <2> QED
    BY <1>6, <2>1
<1>8. Ten[s + k] = 10 * Ten[s + i] /\ Ten[k] = 10 * Ten[i]
  <2> HIDE DEF i
  <2> QED
    BY <1>6, TenValue
<1>9. a \div (10 * Ten[s + i]) = (a \div Ten[s + i]) \div 10
  <2> HIDE DEF i
  <2>1. Ten[s + i] \in Nat \ {0}
    BY <1>6, TenValue
  <2> QED
    BY <2>1, OneDigitMore
<1>10. x \div (10 * Ten[i]) = (x \div Ten[i]) \div 10
  <2> HIDE DEF i, x
  <2>1. Ten[i] \in Nat \ {0} /\ x \in Nat
    BY <1>4, <1>6, TenValue DEF x
  <2> QED
    BY <2>1, OneDigitMore
<1> QED
  BY <1>3, <1>7, <1>8, <1>9, <1>10

(* The last digits are the same iff the numbers they show are.               *)
LEMMA SameDigits ==
  ASSUME NEW a \in Nat, NEW c \in Nat, NEW n \in Nat
  PROVE  (\A j \in 0..(n - 1) : (a \div Ten[j]) % 10 = (c \div Ten[j]) % 10)
           <=> a % Ten[n] = c % Ten[n]
<1> DEFINE Same(k) == \A j \in 0..(k - 1) : (a \div Ten[j]) % 10 = (c \div Ten[j]) % 10
           Bad == {k \in Nat : ~(Same(k) <=> a % Ten[k] = c % Ten[k])}
<1>1. SUFFICES ASSUME Bad # {} PROVE FALSE
  OBVIOUS
<1>2. PICK k \in Bad : \A i \in Bad : k <= i
  <2>1. Bad \in SUBSET Nat
    OBVIOUS
  <2> HIDE DEF Bad
  <2> QED
    BY <1>1, <2>1, LeastNumber
<1>3. k \in Nat /\ ~(Same(k) <=> a % Ten[k] = c % Ten[k])
  OBVIOUS
<1>4. k # 0
  <2> SUFFICES ASSUME k = 0 PROVE Same(k) /\ a % Ten[k] = c % Ten[k]
    BY <1>3
  <2>1. Ten[k] = 1 /\ a % 1 = 0 /\ c % 1 = 0
    BY TenValue
  <2>2. 0..(k - 1) = {}
    OBVIOUS
  <2> QED
    BY <2>1, <2>2
<1> DEFINE i == k - 1
           t == Ten[i]
<1>5. i \in Nat /\ i < k /\ k = i + 1
  BY <1>3, <1>4
<1>6. Same(i) <=> a % t = c % t
  <2>1. i \notin Bad
    <3> HIDE DEF Bad, i
    <3> QED
      BY <1>2, <1>3, <1>5
  <2> QED
    BY <1>5, <2>1
<1>7. t \in Nat \ {0} /\ Ten[k] = 10 * t
  <2> HIDE DEF i
  <2> QED
    BY <1>5, TenValue
<1>8. Same(k) <=> Same(i) /\ (a \div t) % 10 = (c \div t) % 10
  <2>1. 0..(k - 1) = 0..(i - 1) \cup {i}
    BY <1>5
  <2> HIDE DEF i
  <2> QED
    BY <2>1
<1> HIDE DEF t, i, Same, Bad
<1> DEFINE d == (a \div t) % 10
           e == (c \div t) % 10
           r == a % t
           s == c % t
<1>9. a % Ten[k] = d * t + r /\ c % Ten[k] = e * t + s
  <2>1. \A y \in Nat : y % (10 * t) = ((y \div t) % 10) * t + (y % t)
    BY <1>7, OneDigitMore, Zenon
  <2> QED
    BY <1>7, <2>1, Zenon
<1>10. d \in Nat /\ e \in Nat /\ r \in 0..(t - 1) /\ s \in 0..(t - 1)
  <2>1. /\ a \div t \in Nat /\ c \div t \in Nat
        /\ r \in 0..(t - 1) /\ s \in 0..(t - 1)
    BY <1>7, Quotient
  <2>2. \A y \in Nat : y % 10 \in Nat
    OBVIOUS
  <2> QED
    BY <2>1, <2>2
<1>11. d * t + r = e * t + s <=> d = e /\ r = s
  <2> HIDE DEF d, e, r, s
  <2> QED
    BY <1>7, <1>10, QuotientIs
<1> QED
  BY <1>3, <1>6, <1>8, <1>9, <1>11

(* A number has digits, and is below the power of ten of their number.       *)
LEMMA LengthBounds ==
  ASSUME NEW n \in Nat
  PROVE  Length(n) \in 1..(n + 1) /\ n < Ten[Length(n)]
<1> DEFINE Enough == {k \in Nat \ {0} : n < Ten[k]}
<1>1. n + 1 \in Enough
  <2>1. n + 1 \in Nat \ {0} /\ n + 1 < Ten[n + 1] /\ Ten[n + 1] \in Nat
    BY TenValue
  <2> QED
    BY <2>1
<1>2. PICK k \in Enough : \A u \in Enough : k <= u
  <2>1. Enough \in SUBSET Nat /\ Enough # {}
    BY <1>1
  <2> HIDE DEF Enough
  <2> QED
    BY <2>1, LeastNumber
<1>3. k \in 1..(n + 1) /\ n < Ten[k]
  <2>1. k <= n + 1
    <3> HIDE DEF Enough
    <3> QED
      BY <1>1, <1>2
  <2>2. k \in Nat \ {0} /\ n < Ten[k]
    OBVIOUS
  <2> QED
    BY <2>1, <2>2
<1>4. k = 1 \/ Ten[k - 1] <= n
  <2> SUFFICES ASSUME k # 1 PROVE Ten[k - 1] <= n
    OBVIOUS
  <2>1. k - 1 \in Nat \ {0} /\ k - 1 < k
    BY <1>3
  <2>2. k - 1 \notin Enough
    <3> HIDE DEF Enough
    <3> QED
      BY <1>2, <1>3, <2>1
  <2>3. Ten[k - 1] \in Nat
    BY <2>1, TenValue
  <2> QED
    BY <2>1, <2>2, <2>3
<1> QED
  BY <1>3, <1>4 DEF Length

(* A string is found where the number of its digits is the one it is of.     *)
LEMMA FoundWhereShown ==
  ASSUME NEW b \in Nat, NEW n \in Nat, NEW k \in 0..(Length(b) - Length(n))
  PROVE  SubSeq(Digits(b), k + 1, k + Length(n)) = Digits(n)
           <=> (b \div Ten[Length(b) - Length(n) - k]) % Ten[Length(n)] = n
<1> DEFINE l == Length(n)
           s == Length(b) - l - k
           x == b \div Ten[s]
           At(j) == (x \div Ten[j]) % 10 = (n \div Ten[j]) % 10
<1>1. l \in Nat \ {0} /\ Length(b) \in Nat /\ n < Ten[l]
  BY LengthBounds
<1>2. s \in Nat /\ Ten[s] \in Nat \ {0} /\ Ten[l] \in Nat
  <2>1. s \in Nat
    BY <1>1
  <2> HIDE DEF s, l
  <2> QED
    BY <1>1, <2>1, TenValue
<1>3. x \in Nat
  <2> HIDE DEF s
  <2> QED
    BY <1>2, Quotient
<1>4. /\ Digits(n) = [i \in 1..l |-> (n \div Ten[l - i]) % 10]
      /\ Digits(b) = [i \in 1..Length(b) |-> (b \div Ten[Length(b) - i]) % 10]
  BY DEF Digits
<1>5. SubSeq(Digits(b), k + 1, k + l) = [i \in 1..l |-> (x \div Ten[l - i]) % 10]
  <2>1. \A i \in 1..l : k + i \in 1..Length(b) /\ Length(b) - (k + i) = s + (l - i) /\ l - i \in Nat
    BY <1>1
  <2>2. \A i \in 1..l : Digits(b)[k + i] = (x \div Ten[l - i]) % 10
    <3> SUFFICES ASSUME NEW i \in 1..l PROVE Digits(b)[k + i] = (x \div Ten[l - i]) % 10
      OBVIOUS
    <3>1. Digits(b)[k + i] = (b \div Ten[s + (l - i)]) % 10
      <4> HIDE DEF s, l
      <4> QED
        BY <1>4, <2>1
    <3>2. b \div Ten[s + (l - i)] = x \div Ten[l - i]
      <4> HIDE DEF s, l, x
      <4>1. s \in Nat /\ l - i \in Nat
        BY <1>2, <2>1
      <4> DEFINE j == l - i
      <4> HIDE DEF j
      <4>2. b \div Ten[s + j] = (b \div Ten[s]) \div Ten[j]
        BY <4>1, DropDigits DEF j
      <4> QED
        BY <4>2 DEF j, x
    <3> QED
      BY <3>1, <3>2
  <2>3. SubSeq(Digits(b), k + 1, k + l) = [i \in 1..l |-> Digits(b)[k + i]]
    <3>1. (k + l) - (k + 1) + 1 = l /\ \A i \in 1..l : (k + 1) + i - 1 = k + i
      BY <1>1
    <3> HIDE DEF l
    <3> QED
      BY <1>1, <3>1
  <2> HIDE DEF l, x
  <2> QED
    BY <2>2, <2>3
<1> HIDE DEF x, s, l
<1>6. [i \in 1..l |-> (x \div Ten[l - i]) % 10] = Digits(n) <=> \A j \in 0..(l - 1) : At(j)
  <2>1. \A i \in 1..l : l - i \in 0..(l - 1)
    BY <1>1
  <2>2. \A j \in 0..(l - 1) : l - j \in 1..l /\ l - (l - j) = j
    BY <1>1
  <2>3. [i \in 1..l |-> (x \div Ten[l - i]) % 10] = Digits(n) <=> \A i \in 1..l : At(l - i)
    BY <1>4
  <2> HIDE DEF At
  <2> QED
    BY <2>1, <2>2, <2>3
<1>7. (\A j \in 0..(l - 1) : At(j)) <=> x % Ten[l] = n % Ten[l]
  BY <1>1, <1>3, SameDigits
<1>8. n % Ten[l] = n
  BY <1>1, <1>2
<1> QED
  BY <1>5, <1>6, <1>7, <1>8 DEF x, s, l

LEMMA FoundIffShown ==
  ASSUME NEW b \in Nat, NEW n \in Nat
  PROVE  IndexOf(Digits(b), Digits(n)) <=>
           \E k \in 0..(Length(b) - Length(n)) : (b \div Ten[k]) % Ten[Length(n)] = n
<1> DEFINE l == Length(n)
           h == Length(b)
           Shown(k) == (b \div Ten[k]) % Ten[l] = n
<1>1. l \in Nat /\ h \in Nat
  BY LengthBounds
<1>2. Len(Digits(n)) = l /\ Len(Digits(b)) = h
  <2> HIDE DEF l, h
  <2>1. /\ Digits(n) = [i \in 1..l |-> Digits(n)[i]]
        /\ Digits(b) = [i \in 1..h |-> Digits(b)[i]]
    BY DEF Digits, l, h
  <2> QED
    BY <1>1, <2>1
<1>3. IndexOf(Digits(b), Digits(n)) <=>
        \E k \in 0..(h - l) : SubSeq(Digits(b), k + 1, k + l) = Digits(n)
  BY <1>2 DEF IndexOf
<1>4. \A k \in 0..(h - l) : SubSeq(Digits(b), k + 1, k + l) = Digits(n) <=> Shown(h - l - k)
  BY FoundWhereShown
<1> HIDE DEF l, h
<1>5. \A k \in 0..(h - l) : h - l - k \in 0..(h - l) /\ h - l - (h - l - k) = k
  BY <1>1
<1>6. (\E k \in 0..(h - l) : Shown(h - l - k)) <=> \E k \in 0..(h - l) : Shown(k)
  <2> HIDE DEF Shown
  <2> QED
    BY <1>5
<1> QED
  BY <1>3, <1>4, <1>6 DEF l, h

(* Whatever range is predicted and whatever numbers are asked for, the blocks *)
(* reported are those that show the number (countSubNumbersInRange).          *)
THEOREM MatchesRight == Spec => []MatchesHaveDigits
<1>1. IInv /\ Contexts => MatchesHaveDigits
  <2> SUFFICES ASSUME IInv, Contexts, NEW r \in Request, phase[r] = "sampled",
                      NEW min \in Timestamp, NEW max \in Timestamp,
                      Admissible(min, max, now[r]),
                      NEW p \in Predictions(r, min, max), NEW n \in Included
               PROVE  CountSubNumbersInRange(p.min, p.max, n) =
                        {b \in p.min..p.max : \E k \in 0..(Length(b) - Length(n)) :
                                                (b \div Ten[k]) % Ten[Length(n)] = n}
    BY DEF MatchesHaveDigits
  <2>1. p.min \in PredictBlock(min, r) /\ p.max \in PredictBlock(max, r)
    BY DEF Predictions
  <2>2. min >= now[r] /\ max >= now[r]
    BY DEF Admissible
  <2>3. p.min \in Nat /\ p.max \in Nat
    BY <2>1, <2>2, BoundIsDue
  <2>4. n \in Nat
    BY ConstantsAssumption
  <2>5. \A b \in p.min..p.max : b \in Nat
    BY <2>3
  <2>6. \A b \in p.min..p.max : IndexOf(Digits(b), Digits(n)) <=>
          \E k \in 0..(Length(b) - Length(n)) : (b \div Ten[k]) % Ten[Length(n)] = n
    BY <2>4, <2>5, FoundIffShown
  <2> QED
    BY <2>6 DEF CountSubNumbersInRange
<1> QED
  BY <1>1, ContextsStay, PTL
------------------------------------------------------------------------------
LEMMA GreatestExists ==
  ASSUME NEW S \in SUBSET Nat, IsFiniteSet(S), S # {}
  PROVE  \E m \in S : \A u \in S : u <= m
<1> DEFINE Over(x) == {u \in S : u > x}
           Family == {Over(x) : x \in S}
<1>1. IsWellFoundedOn(StrictSubsetOrdering(S), SUBSET S)
  BY FS_StrictSubsetOrderingWellFounded, FS_FiniteSubsetsOfFinite
<1>2. Family \subseteq SUBSET S /\ Family # {}
  OBVIOUS
<1>3. PICK x \in Family :
        \A y \in Family : ~(<<y, x>> \in StrictSubsetOrdering(S))
  BY <1>1, <1>2, WFMin
<1>4. PICK m \in S : x = Over(m)
  BY <1>3
<1>5. \A u \in S : u <= m
  <2> SUFFICES ASSUME NEW u \in S, u > m PROVE FALSE
    OBVIOUS
  <2>1. Over(u) \subseteq Over(m) /\ Over(u) # Over(m)
    <3>1. u \in Over(m) /\ u \notin Over(u)
      OBVIOUS
    <3>2. \A v \in Over(u) : v \in Over(m)
      OBVIOUS
    <3> HIDE DEF Over
    <3> QED
      BY <3>1, <3>2
  <2>2. Over(u) \in Family
    OBVIOUS
  <2> QED
    BY <1>2, <1>3, <1>4, <2>1, <2>2 DEF StrictSubsetOrdering
<1> QED
  BY <1>5

(* The first k ids of a set: those with less than k others before them.      *)
FirstOf(S, k) == {t \in S : Cardinality({u \in S : u < t}) < k}

(* They come before all others, and are k unless there are no others.        *)
LEMMA FirstOnes ==
  ASSUME NEW S \in SUBSET Nat, IsFiniteSet(S), NEW k \in Nat \ {0}
  PROVE  /\ \A t \in FirstOf(S, k), u \in S : u <= t => u \in FirstOf(S, k)
         /\ Cardinality(FirstOf(S, k)) <= k
         /\ S \ FirstOf(S, k) # {} => Cardinality(FirstOf(S, k)) = k
<1> DEFINE Before(t) == {u \in S : u < t}
           items == FirstOf(S, k)
<1>0. IsFiniteSet(items) /\ items \in SUBSET Nat /\ Cardinality(items) \in Nat
      /\ \A t \in S : IsFiniteSet(Before(t)) /\ Cardinality(Before(t)) \in Nat
  <2>1. items \in SUBSET S /\ \A t \in S : Before(t) \in SUBSET S
    BY DEF FirstOf
  <2> QED
    BY <2>1, FS_Subset, FS_CardinalityType
<1>1. ASSUME NEW t \in items, NEW u \in S, u <= t PROVE u \in items
  <2>1. t \in S /\ Cardinality(Before(t)) < k
    BY <1>1 DEF FirstOf
  <2>4. Before(u) \in SUBSET Before(t)
    <3>1. \A v \in Before(u) : v \in Before(t)
      BY <1>1, <2>1
    <3> HIDE DEF Before
    <3> QED
      BY <3>1
  <2>2. Cardinality(Before(u)) <= Cardinality(Before(t))
    BY <1>0, <2>1, <2>4, FS_Subset
  <2> HIDE DEF Before
  <2>3. Cardinality(Before(u)) < k
    BY <1>0, <2>1, <2>2
  <2> QED
    BY <2>3 DEF FirstOf, Before
<1>2. Cardinality(items) <= k
  <2>1. CASE items = {}
    BY <2>1, FS_EmptySet
  <2>2. CASE items # {}
    <3>1. PICK m \in items : \A u \in items : u <= m
      BY <1>0, <2>2, GreatestExists
    <3>2. m \in S /\ Cardinality(Before(m)) < k
      BY DEF FirstOf
    <3>3. items \in SUBSET (Before(m) \cup {m})
      BY <1>0, <3>1 DEF FirstOf
    <3>4. IsFiniteSet(Before(m) \cup {m})
          /\ Cardinality(Before(m) \cup {m}) = Cardinality(Before(m)) + 1
      <4>1. IsFiniteSet(Before(m)) /\ m \notin Before(m)
        BY <1>0, <3>2
      <4> HIDE DEF Before
      <4> QED
        BY <4>1, FS_AddElement
    <3>5. Cardinality(items) <= Cardinality(Before(m) \cup {m})
      BY <3>3, <3>4, FS_Subset
    <3> HIDE DEF items, Before
    <3> QED
      BY <1>0, <3>2, <3>4, <3>5
  <2> QED
    BY <2>1, <2>2
<1>3. ASSUME S \ items # {} PROVE Cardinality(items) = k
  <2>1. PICK r \in S \ items : \A u \in S \ items : r <= u
    <3>1. S \ items \in SUBSET Nat /\ IsFiniteSet(S \ items)
      <4>1. S \ items \in SUBSET S
        OBVIOUS
      <4> QED
        BY <4>1, FS_Subset
    <3> QED
      BY <1>3, <3>1, LeastExists
  <2>2. Before(r) \in SUBSET items
    <3>1. \A v \in Before(r) : v \in items
      <4> SUFFICES ASSUME NEW v \in S, v < r, v \notin items PROVE FALSE
        OBVIOUS
      <4> HIDE DEF items
      <4> QED
        BY <2>1
    <3> HIDE DEF items, Before
    <3> QED
      BY <3>1
  <2>3. Cardinality(Before(r)) <= Cardinality(items)
    BY <1>0, <2>2, FS_Subset
  <2>4. ~(Cardinality(Before(r)) < k)
    BY <2>1 DEF FirstOf
  <2> HIDE DEF items, Before
  <2> QED
    BY <1>0, <1>2, <2>1, <2>3, <2>4
<1> QED
  BY <1>1, <1>2, <1>3

(* What a function maps a finite set to is finite; the numbers of texts, too. *)
LEMMA ImageIsFinite ==
  ASSUME NEW S, IsFiniteSet(S), NEW f
  PROVE  IsFiniteSet({f[x] : x \in S})
<1> DEFINE T == {f[x] : x \in S}
           g == [x \in S |-> f[x]]
<1>1. g \in [S -> T] /\ \A y \in T : \E x \in S : g[x] = y
  OBVIOUS
<1> HIDE DEF g, T
<1>2. g \in Surjection(S, T)
  BY <1>1 DEF Surjection
<1>3. IsFiniteSet(T)
  BY <1>2, FS_Surjection
<1> QED
  BY <1>3 DEF T

LEMMA NumbersAreFinite ==
  ASSUME NEW S, IsFiniteSet(S)
  PROVE  IsFiniteSet({x.no : x \in S})
<1> DEFINE f == [x \in S |-> x.no]
<1>1. {f[x] : x \in S} = {x.no : x \in S}
  OBVIOUS
<1> HIDE DEF f
<1>2. IsFiniteSet({f[x] : x \in S})
  BY ImageIsFinite
<1> QED
  BY <1>1, <1>2

(* The ids in the order of their numbers: each once.                         *)
LEMMA SortedExists ==
  ASSUME NEW S, IsFiniteSet(S), \A x \in S : x.no \in Nat
  PROVE  \E s \in [1..Cardinality(S) -> S] :
           \A i, j \in 1..Cardinality(S) : i < j => s[i].no <= s[j].no /\ s[i] # s[j]
<1> DEFINE Ordered(T) ==
             \E s \in [1..Cardinality(T) -> T] :
               \A i, j \in 1..Cardinality(T) :
                 i < j => s[i].no <= s[j].no /\ s[i] # s[j]
           Unordered == {T \in SUBSET S : ~Ordered(T)}
<1>1. IsWellFoundedOn(StrictSubsetOrdering(S), SUBSET S)
  BY FS_StrictSubsetOrderingWellFounded, FS_FiniteSubsetsOfFinite
<1>2. SUFFICES ASSUME Unordered # {} PROVE FALSE
  BY Zenon
<1>3. PICK T \in Unordered :
        \A U \in Unordered : ~(<<U, T>> \in StrictSubsetOrdering(S))
  BY <1>1, <1>2, WFMin
<1>4. T \in SUBSET S /\ (\A x \in T : x.no \in Nat) /\ IsFiniteSet(T) /\ ~Ordered(T)
  BY FS_Subset
<1>5. \A U \in SUBSET T : U # T => Ordered(U)
  <2> SUFFICES ASSUME NEW U \in SUBSET T, U # T, ~Ordered(U) PROVE FALSE
    OBVIOUS
  <2>1. U \in Unordered
    BY <1>4
  <2> HIDE DEF Ordered
  <2> QED
    BY <1>3, <1>4, <2>1 DEF StrictSubsetOrdering
<1>6. T # {}
  <2> SUFFICES ASSUME T = {} PROVE Ordered(T)
    BY <1>4
  <2>1. Cardinality(T) = 0
    BY FS_EmptySet
  <2>2. [i \in 1..0 |-> i] \in [1..Cardinality(T) -> T]
    BY <2>1
  <2> QED
    BY <2>1, <2>2
<1>7. PICK m \in T : \A u \in T : u.no <= m.no
  <2> DEFINE V == {x.no : x \in T}
  <2>1. IsFiniteSet(V) /\ V # {} /\ V \in SUBSET Nat
    BY <1>4, <1>6, NumbersAreFinite
  <2> HIDE DEF V
  <2>2. PICK v \in V : \A u \in V : u <= v
    BY <2>1, GreatestExists
  <2> QED
    BY <2>2 DEF V
<1> DEFINE n == Cardinality(T)
           U == T \ {m}
<1>8. /\ IsFiniteSet(U) /\ Cardinality(U) = n - 1 /\ n \in Nat \ {0}
      /\ U \in SUBSET T /\ U # T
  BY <1>4, <1>6, FS_RemoveElement, FS_CardinalityType, FS_EmptySet
<1>9. PICK q \in [1..Cardinality(U) -> U] :
        \A i, j \in 1..Cardinality(U) : i < j => q[i].no <= q[j].no /\ q[i] # q[j]
  BY <1>5, <1>8
<1> DEFINE s == [i \in 1..n |-> IF i = n THEN m ELSE q[i]]
<1> HIDE DEF n
<1>10. \A i \in 1..n : i # n => i \in 1..Cardinality(U) /\ s[i] = q[i] /\ q[i] \in U
  <2> SUFFICES ASSUME NEW i \in 1..n, i # n
               PROVE  i \in 1..Cardinality(U) /\ s[i] = q[i] /\ q[i] \in U
    OBVIOUS
  <2>1. i \in 1..Cardinality(U)
    BY <1>8
  <2>2. s[i] = q[i]
    OBVIOUS
  <2> HIDE DEF U
  <2>3. q[i] \in U
    BY <1>9, <2>1
  <2> QED
    BY <2>1, <2>2, <2>3
<1>11. s[n] = m
  BY <1>8
<1>12. s \in [1..n -> T]
  BY <1>10
<1>13. ASSUME NEW i \in 1..n, NEW j \in 1..n, i < j
       PROVE  s[i].no <= s[j].no /\ s[i] # s[j]
  <2>1. i # n
    BY <1>8, <1>13
  <2>2. s[i] \in T /\ s[i] # m
    BY <1>4, <1>10, <2>1
  <2>3. CASE j = n
    BY <1>4, <1>7, <1>11, <2>2, <2>3
  <2>4. CASE j # n
    <3>1. /\ i \in 1..Cardinality(U) /\ s[i] = q[i]
          /\ j \in 1..Cardinality(U) /\ s[j] = q[j]
      BY <1>10, <2>1, <2>4
    <3> HIDE DEF U, s
    <3> QED
      BY <1>9, <1>13, <3>1
  <2> QED
    BY <2>3, <2>4
<1> HIDE DEF s
<1> QED
  BY <1>4, <1>12, <1>13 DEF n

LEMMA SortedIds ==
  ASSUME NEW S, IsFiniteSet(S), \A x \in S : x.no \in Nat
  PROVE  /\ Sorted(S) \in [1..Cardinality(S) -> S]
         /\ Sorted(S) \in Seq(S) /\ Len(Sorted(S)) = Cardinality(S)
         /\ \A i, j \in 1..Cardinality(S) : i < j =>
              Sorted(S)[i].no <= Sorted(S)[j].no /\ Sorted(S)[i] # Sorted(S)[j]
         /\ \A x \in S : \E i \in 1..Cardinality(S) : Sorted(S)[i] = x
<1> DEFINE n == Cardinality(S)
           Ascending(s) == \A i, j \in 1..n : i < j => s[i].no <= s[j].no /\ s[i] # s[j]
<1>1. n \in Nat
  BY FS_CardinalityType
<1>2. \E s \in [1..n -> S] : Ascending(s)
  BY SortedExists
<1>3. Sorted(S) = CHOOSE s \in [1..n -> S] : Ascending(s)
  BY DEF Sorted
<1>4. Sorted(S) \in [1..n -> S] /\ Ascending(Sorted(S))
  <2> HIDE DEF Ascending, n
  <2> QED
    BY <1>2, <1>3
<1>5. Sorted(S) \in Injection(1..n, S)
  <2> DEFINE s == Sorted(S)
  <2>1. \A i, j \in 1..n : s[i] = s[j] => i = j
    <3> SUFFICES ASSUME NEW i \in 1..n, NEW j \in 1..n, i < j PROVE s[i] # s[j]
      BY <1>1
    <3> QED
      BY <1>4
  <2> QED
    BY <1>4, <2>1, Fun_IsInj
<1>6. Sorted(S) \in Surjection(1..n, S)
  <2>1. IsFiniteSet(1..n) /\ Cardinality(1..n) = Cardinality(S)
    BY <1>1, FS_Interval
  <2> QED
    BY <1>5, <2>1, FS_Injection
<1>7. \A x \in S : \E i \in 1..n : Sorted(S)[i] = x
  BY <1>6 DEF Surjection
<1>8. Sorted(S) \in Seq(S) /\ Len(Sorted(S)) = n
  <2> HIDE DEF n
  <2> QED
    BY <1>1, <1>4
<1> QED
  BY <1>4, <1>7, <1>8

(* Ranges that are a set of numbers, in order, no two of which could be one; *)
(* and with gaps between them.                                               *)
AreRanges(r, T) ==
  /\ r \in Seq([start : Nat, end : Nat])
  /\ UNION {r[i].start..r[i].end : i \in 1..Len(r)} = T
  /\ \A i \in 1..Len(r) : r[i].start <= r[i].end
  /\ \A i \in 1..(Len(r) - 1) :
       r[i].end <= r[i + 1].start /\ r[i + 1].start # r[i].end + 1

Apart(r) == \A i \in 1..(Len(r) - 1) : r[i].end + 1 < r[i + 1].start

LEMMA ExtendRanges ==
  ASSUME NEW T \in SUBSET Nat, NEW r, AreRanges(r, T), NEW t \in Nat,
         \A u \in T : u <= t
  PROVE  /\ AreRanges(Extend(r, t), T \cup {t})
         /\ Apart(r) /\ t \notin T => Apart(Extend(r, t))
<1> DEFINE n == Len(r)
           e == Extend(r, t)
           new == [start |-> t, end |-> t]
<1>1. /\ r \in Seq([start : Nat, end : Nat]) /\ n \in Nat
      /\ \A i \in 1..n : r[i] \in [start : Nat, end : Nat]
      /\ \A i \in 1..n : r[i].start \in Nat /\ r[i].end \in Nat
                         /\ r[i].start <= r[i].end
      /\ \A i \in 1..(n - 1) :
           r[i].end <= r[i + 1].start /\ r[i + 1].start # r[i].end + 1
      /\ Apart(r) => \A i \in 1..(n - 1) : r[i].end + 1 < r[i + 1].start
  <2>1. r \in Seq([start : Nat, end : Nat])
    BY DEF AreRanges
  <2>2. n \in Nat /\ \A i \in 1..n : r[i] \in [start : Nat, end : Nat]
    <3>1. ASSUME NEW R, r \in Seq(R) PROVE n \in Nat /\ \A i \in 1..n : r[i] \in R
      BY <3>1
    <3> QED
      BY <2>1, <3>1
  <2>3. \A i \in 1..n : r[i].start \in Nat /\ r[i].end \in Nat
    BY <2>2
  <2> QED
    BY <2>1, <2>2, <2>3 DEF AreRanges, Apart
<1>2. \A x : x \in T <=> \E i \in 1..n : x \in r[i].start..r[i].end
  BY DEF AreRanges
<1>3. r # <<>> => /\ n \in 1..n /\ Last(r) = r[n]
                  /\ r[n].end <= t /\ (t \notin T => r[n].end < t)
  <2> SUFFICES ASSUME r # <<>>
               PROVE  /\ n \in 1..n /\ Last(r) = r[n]
                      /\ r[n].end <= t /\ (t \notin T => r[n].end < t)
    OBVIOUS
  <2>1. n \in 1..n
    BY <1>1
  <2>2. r[n].end \in r[n].start..r[n].end
    BY <1>1, <2>1
  <2>3. r[n].end \in T /\ Last(r) = r[n]
    BY <1>2, <2>1, <2>2 DEF Last
  <2>4. r[n].end \in Nat
    BY <1>1, <2>1
  <2> QED
    BY <2>1, <2>3, <2>4
<1>4. CASE r # <<>> /\ t = Last(r).end + 1
  <2> DEFINE last == [start |-> r[n].start, end |-> t]
  <2>1. e = [r EXCEPT ![n].end = t]
    BY <1>4 DEF Extend
  <2>2. /\ Len(e) = n /\ \A i \in 1..(n - 1) : e[i] = r[i]
        /\ e \in Seq([start : Nat, end : Nat])
        /\ e[n].start = r[n].start /\ e[n].end = t
    <3>1. [r[n] EXCEPT !.end = t] \in [start : Nat, end : Nat]
      BY <1>1, <1>3, <1>4
    <3>2. e = [r EXCEPT ![n] = [r[n] EXCEPT !.end = t]]
      BY <2>1
    <3>3. [r[n] EXCEPT !.end = t].start = r[n].start /\ [r[n] EXCEPT !.end = t].end = t
      BY <1>1, <1>3, <1>4
    <3> HIDE DEF e
    <3> QED
      BY <1>1, <1>3, <1>4, <3>1, <3>2, <3>3
  <2>0. /\ t = r[n].end + 1 /\ n \in 1..n /\ n \in Nat
        /\ r[n].start \in Nat /\ r[n].end \in Nat /\ r[n].start <= r[n].end
    BY <1>1, <1>3, <1>4
  <2>9. \A i \in 1..n : i # n => i \in 1..(n - 1) /\ e[i] = r[i]
    BY <2>0, <2>2
  <2>10. e[n].start = r[n].start /\ e[n].end = r[n].end + 1
    BY <2>0, <2>2
  <2> HIDE DEF e, n
  <2>3. ASSUME NEW x
        PROVE  (\E i \in 1..n : x \in e[i].start..e[i].end) <=> x \in T \cup {t}
    <3>1. ASSUME NEW i \in 1..n, x \in e[i].start..e[i].end PROVE x \in T \cup {t}
      <4>1. CASE i = n
        <5>1. x \in r[n].start..r[n].end \/ x = t
          BY <2>0, <2>10, <3>1, <4>1
        <5> QED
          BY <1>2, <2>0, <5>1
      <4>2. CASE i # n
        BY <1>2, <2>9, <3>1, <4>2
      <4> QED
        BY <4>1, <4>2
    <3>2. ASSUME x \in T \cup {t} PROVE \E i \in 1..n : x \in e[i].start..e[i].end
      <4>1. CASE x = t
        <5>1. t \in e[n].start..e[n].end
          BY <2>0, <2>10
        <5> QED
          BY <2>0, <4>1, <5>1
      <4>2. CASE x \in T
        <5>1. PICK i \in 1..n : x \in r[i].start..r[i].end
          BY <1>2, <4>2
        <5>2. CASE i = n
          <6>1. x \in e[n].start..e[n].end
            BY <2>0, <2>10, <5>1, <5>2
          <6> QED
            BY <5>2, <6>1
        <5>3. CASE i # n
          BY <2>9, <5>1, <5>3
        <5> QED
          BY <5>2, <5>3
      <4> QED
        BY <3>2, <4>1, <4>2
    <3> QED
      BY <3>1, <3>2
  <2>4. \A i \in 1..n : e[i].start <= e[i].end
    <3> SUFFICES ASSUME NEW i \in 1..n PROVE e[i].start <= e[i].end
      OBVIOUS
    <3>1. CASE i = n
      BY <2>0, <2>10, <3>1
    <3>2. CASE i # n
      BY <1>1, <2>9, <3>2
    <3> QED
      BY <3>1, <3>2
  <2>5. \A i \in 1..(n - 1) :
          /\ e[i].end <= e[i + 1].start /\ e[i + 1].start # e[i].end + 1
          /\ Apart(r) => e[i].end + 1 < e[i + 1].start
    <3> SUFFICES ASSUME NEW i \in 1..(n - 1)
                 PROVE  /\ e[i].end <= e[i + 1].start /\ e[i + 1].start # e[i].end + 1
                        /\ Apart(r) => e[i].end + 1 < e[i + 1].start
      OBVIOUS
    <3>1. i \in 1..n /\ i # n /\ i + 1 \in 1..n
      BY <2>0
    <3>2. e[i + 1].start = r[i + 1].start
      BY <2>9, <2>10, <3>1
    <3> QED
      BY <1>1, <2>9, <3>1, <3>2
  <2>6. UNION {e[i].start..e[i].end : i \in 1..n} = T \cup {t}
    BY <2>3
  <2> QED
    BY <2>2, <2>4, <2>5, <2>6 DEF AreRanges, Apart, e
<1>5. CASE ~(r # <<>> /\ t = Last(r).end + 1)
  <2>1. e = Append(r, new)
    BY <1>5 DEF Extend
  <2>2. /\ Len(e) = n + 1 /\ \A i \in 1..n : e[i] = r[i]
        /\ e \in Seq([start : Nat, end : Nat])
        /\ e[n + 1].start = t /\ e[n + 1].end = t
    <3>1. new \in [start : Nat, end : Nat]
      OBVIOUS
    <3>2. /\ Len(Append(r, new)) = n + 1 /\ \A i \in 1..n : Append(r, new)[i] = r[i]
          /\ Append(r, new) \in Seq([start : Nat, end : Nat])
          /\ Append(r, new)[n + 1] = new
      <4> HIDE DEF new
      <4> QED
        BY <1>1, <3>1
    <3> HIDE DEF e
    <3> QED
      BY <2>1, <3>2
  <2> HIDE DEF e
  <2>3. ASSUME NEW x
        PROVE  (\E i \in 1..(n + 1) : x \in e[i].start..e[i].end) <=> x \in T \cup {t}
    <3>1. ASSUME NEW i \in 1..(n + 1), x \in e[i].start..e[i].end PROVE x \in T \cup {t}
      <4>1. CASE i = n + 1
        BY <2>2, <3>1, <4>1
      <4>2. CASE i # n + 1
        <5>1. i \in 1..n
          BY <1>1, <4>2
        <5> QED
          BY <1>2, <2>2, <3>1, <5>1
      <4> QED
        BY <4>1, <4>2
    <3>2. ASSUME x \in T \cup {t} PROVE \E i \in 1..(n + 1) : x \in e[i].start..e[i].end
      <4>1. CASE x = t
        <5>1. n + 1 \in 1..(n + 1) /\ t \in e[n + 1].start..e[n + 1].end
          BY <1>1, <2>2
        <5> QED
          BY <4>1, <5>1
      <4>2. CASE x \in T
        <5>1. PICK i \in 1..n : x \in r[i].start..r[i].end
          BY <1>2, <4>2
        <5>2. i \in 1..(n + 1) /\ e[i] = r[i]
          BY <1>1, <2>2
        <5> QED
          BY <5>1, <5>2
      <4> QED
        BY <3>2, <4>1, <4>2
    <3> QED
      BY <3>1, <3>2
  <2>4. \A i \in 1..(n + 1) : e[i].start <= e[i].end
    <3> SUFFICES ASSUME NEW i \in 1..(n + 1) PROVE e[i].start <= e[i].end
      OBVIOUS
    <3>1. CASE i = n + 1
      BY <2>2, <3>1
    <3>2. CASE i # n + 1
      <4>1. i \in 1..n
        BY <1>1, <3>2
      <4> QED
        BY <1>1, <2>2, <4>1
    <3> QED
      BY <3>1, <3>2
  <2>5. \A i \in 1..n :
          /\ e[i].end <= e[i + 1].start /\ e[i + 1].start # e[i].end + 1
          /\ Apart(r) /\ t \notin T => e[i].end + 1 < e[i + 1].start
    <3> SUFFICES ASSUME NEW i \in 1..n
                 PROVE  /\ e[i].end <= e[i + 1].start /\ e[i + 1].start # e[i].end + 1
                        /\ Apart(r) /\ t \notin T => e[i].end + 1 < e[i + 1].start
      OBVIOUS
    <3>1. CASE i = n
      <4>1. r # <<>>
        BY <1>1
      <4>2. /\ n \in 1..n /\ r[n].end <= t /\ t # r[n].end + 1
            /\ t \notin T => r[n].end < t
        BY <1>3, <1>5, <4>1
      <4>3. r[n].end \in Nat
        BY <1>1, <4>2
      <4>4. t \notin T => r[n].end + 1 < t
        BY <4>2, <4>3
      <4> QED
        BY <2>2, <3>1, <4>2, <4>4
    <3>2. CASE i # n
      <4>1. i \in 1..(n - 1) /\ i + 1 \in 1..n
        BY <1>1, <3>2
      <4> QED
        BY <1>1, <2>2, <4>1
    <3> QED
      BY <3>1, <3>2
  <2>6. UNION {e[i].start..e[i].end : i \in 1..(n + 1)} = T \cup {t}
    BY <2>3
  <2>7. 1..(Len(e) - 1) = 1..n
    BY <1>1, <2>2
  <2> HIDE DEF n
  <2> QED
    BY <2>2, <2>4, <2>5, <2>6, <2>7 DEF AreRanges, Apart, e
<1> QED
  BY <1>4, <1>5

(* A loop over the first k elements of a sequence is a function that a loop  *)
(* over one more extends.                                                    *)
LEMMA LoopExists ==
  ASSUME NEW n \in Nat, NEW s
  PROVE  \E g : g = [i \in 0..n |-> IF i = 0 THEN <<>> ELSE Extend(g[i - 1], s[i].no)]
<1> DEFINE Loop(g, k) ==
             g = [i \in 0..k |-> IF i = 0 THEN <<>> ELSE Extend(g[i - 1], s[i].no)]
           Bad == {k \in 0..n : ~ \E g : Loop(g, k)}
<1>1. SUFFICES ASSUME Bad # {} PROVE FALSE
  <2>1. n \in 0..n
    OBVIOUS
  <2> QED
    BY <1>1, <2>1
<1>2. Bad \in SUBSET Nat /\ IsFiniteSet(Bad)
  <2>1. Bad \in SUBSET (0..n) /\ IsFiniteSet(0..n)
    BY FS_Interval
  <2> HIDE DEF Bad
  <2>2. IsFiniteSet(Bad)
    BY <2>1, FS_Subset
  <2> QED
    BY <2>1, <2>2
<1>3. PICK k \in Bad : \A j \in Bad : k <= j
  <2> HIDE DEF Bad
  <2> QED
    BY <1>1, <1>2, LeastExists
<1>4. k \in 0..n /\ ~ \E g : Loop(g, k)
  OBVIOUS
<1>5. CASE k = 0
  <2> DEFINE h == [i \in 0..0 |-> <<>>]
  <2>1. Loop(h, 0)
    OBVIOUS
  <2> QED
    BY <1>4, <1>5, <2>1
<1>6. CASE k # 0
  <2>1. k - 1 \in 0..n /\ k \in Nat /\ k - 1 \in Nat
    BY <1>4, <1>6
  <2>2. PICK g : Loop(g, k - 1)
    <3>1. k - 1 \notin Bad
      <4> HIDE DEF Bad
      <4> QED
        BY <1>3, <2>1
    <3> QED
      BY <2>1, <3>1
  <2> DEFINE h == [i \in 0..k |-> IF i = k THEN Extend(g[k - 1], s[k].no) ELSE g[i]]
  <2>3. \A i \in 0..(k - 1) : h[i] = g[i]
    BY <2>1
  <2>4. \A i \in 0..k : h[i] = IF i = 0 THEN <<>> ELSE Extend(h[i - 1], s[i].no)
    <3> SUFFICES ASSUME NEW i \in 0..k
                 PROVE  h[i] = IF i = 0 THEN <<>> ELSE Extend(h[i - 1], s[i].no)
      OBVIOUS
    <3>1. CASE i = k
      <4>1. h[i] = Extend(g[k - 1], s[k].no) /\ h[k - 1] = g[k - 1]
        BY <2>1, <3>1
      <4> QED
        BY <1>6, <3>1, <4>1
    <3>2. CASE i # k
      <4>1. i \in 0..(k - 1) /\ (i # 0 => i - 1 \in 0..(k - 1))
        BY <2>1, <3>2
      <4>2. g[i] = IF i = 0 THEN <<>> ELSE Extend(g[i - 1], s[i].no)
        BY <2>2, <4>1
      <4> QED
        BY <2>3, <4>1, <4>2
    <3> QED
      BY <3>1, <3>2
  <2>5. DOMAIN h = 0..k /\ h = [i \in 0..k |-> h[i]]
    OBVIOUS
  <2>6. Loop(h, k)
    <3> HIDE DEF h
    <3> QED
      BY <2>4, <2>5
  <2> QED
    BY <1>4, <2>6
<1> QED
  BY <1>5, <1>6

LEMMA RangesAreTheSet ==
  ASSUME NEW S, IsFiniteSet(S), \A x \in S : x.no \in Nat
  PROVE  /\ AreRanges(RangesOf(Sorted(S)), {x.no : x \in S})
         /\ (\A x, y \in S : x.no = y.no => x = y) => Apart(RangesOf(Sorted(S)))
<1> DEFINE n == Cardinality(S)
           s == Sorted(S)
           F == CHOOSE g : g = [i \in 0..n |->
                                  IF i = 0 THEN <<>> ELSE Extend(g[i - 1], s[i].no)]
           Upto(k) == {s[i].no : i \in 1..k}
           Once == \A x, y \in S : x.no = y.no => x = y
           Bad == {k \in 0..n : ~(AreRanges(F[k], Upto(k)) /\ (Once => Apart(F[k])))}
<1>1. /\ n \in Nat /\ s \in [1..n -> S]
      /\ \A i, j \in 1..n : i < j => s[i].no <= s[j].no /\ s[i] # s[j]
      /\ \A x \in S : \E i \in 1..n : s[i] = x
  BY SortedIds, FS_CardinalityType
<1>2. Len(s) = n
  BY SortedIds
<1>3. RangesOf(s) = F[n]
  BY <1>2 DEF RangesOf
<1>13. \A i \in 1..n : s[i] \in S /\ s[i].no \in Nat
  BY <1>1
<1> HIDE DEF n, s
<1>4. F = [i \in 0..n |-> IF i = 0 THEN <<>> ELSE Extend(F[i - 1], s[i].no)]
  <2>1. \E g : g = [i \in 0..n |-> IF i = 0 THEN <<>> ELSE Extend(g[i - 1], s[i].no)]
    BY <1>1, LoopExists
  <2> QED
    BY <2>1
<1> HIDE DEF F
<1>5. F[0] = <<>> /\ \A k \in 1..n : F[k] = Extend(F[k - 1], s[k].no)
  BY <1>1, <1>4
<1>6. Upto(n) = {x.no : x \in S}
  BY <1>1, <1>13
<1>7. SUFFICES ASSUME Bad # {} PROVE FALSE
  <2>1. n \in 0..n
    BY <1>1
  <2>2. AreRanges(F[n], Upto(n)) /\ (Once => Apart(F[n]))
    BY <1>7, <2>1
  <2> HIDE DEF Upto
  <2> QED
    BY <1>3, <1>6, <2>2 DEF s
<1>8. Bad \in SUBSET Nat /\ IsFiniteSet(Bad)
  <2>1. Bad \in SUBSET (0..n) /\ IsFiniteSet(0..n)
    BY <1>1, FS_Interval
  <2> HIDE DEF Bad
  <2>2. IsFiniteSet(Bad)
    BY <2>1, FS_Subset
  <2> QED
    BY <2>1, <2>2
<1>9. PICK k \in Bad : \A j \in Bad : k <= j
  <2> HIDE DEF Bad
  <2> QED
    BY <1>7, <1>8, LeastExists
<1>10. k \in 0..n /\ ~(AreRanges(F[k], Upto(k)) /\ (Once => Apart(F[k])))
  OBVIOUS
<1>11. CASE k = 0
  <2>1. Upto(0) = {}
    OBVIOUS
  <2>2. AreRanges(<<>>, {}) /\ Apart(<<>>)
    BY DEF AreRanges, Apart
  <2> QED
    BY <1>5, <1>10, <1>11, <2>1, <2>2
<1>12. CASE k # 0
  <2>1. k \in 1..n /\ k - 1 \in 0..n
    BY <1>1, <1>10, <1>12
  <2>2. AreRanges(F[k - 1], Upto(k - 1)) /\ (Once => Apart(F[k - 1]))
    <3>1. k - 1 \notin Bad
      <4>1. k \in Nat /\ ~(k <= k - 1)
        BY <1>1, <2>1
      <4> HIDE DEF Bad
      <4> QED
        BY <1>9, <4>1
    <3> HIDE DEF Upto, Once
    <3> QED
      BY <2>1, <3>1
  <2>7. \A i \in 1..(k - 1) : i \in 1..n /\ i < k
    BY <1>1, <2>1
  <2>3. Upto(k - 1) \in SUBSET Nat /\ s[k].no \in Nat
    BY <1>13, <2>1, <2>7
  <2>4. \A u \in Upto(k - 1) : u <= s[k].no
    BY <1>1, <2>1, <2>7
  <2>8. Once => s[k].no \notin Upto(k - 1)
    <3> SUFFICES ASSUME Once, NEW i \in 1..(k - 1), s[i].no = s[k].no PROVE FALSE
      OBVIOUS
    <3>1. s[i] # s[k] /\ s[i] \in S /\ s[k] \in S
      BY <1>1, <1>13, <2>1, <2>7
    <3> QED
      BY <3>1
  <2>5. Upto(k) = Upto(k - 1) \cup {s[k].no}
    <3>1. 1..k = 1..(k - 1) \cup {k}
      BY <2>1
    <3> QED
      BY <3>1
  <2> HIDE DEF Upto, Once
  <2>6. /\ AreRanges(Extend(F[k - 1], s[k].no), Upto(k - 1) \cup {s[k].no})
        /\ Once => Apart(Extend(F[k - 1], s[k].no))
    BY <2>2, <2>3, <2>4, <2>8, ExtendRanges
  <2> QED
    BY <1>5, <1>10, <2>1, <2>5, <2>6
<1> QED
  BY <1>11, <1>12

LEMMA QueryConstants ==
  /\ Token \subseteq Nat /\ IsFiniteSet(Token) /\ None \notin Id
  /\ \A x \in Id : x.no \in Token
  /\ \A t \in Token : Written(t) \in Id /\ Written(t).no = t /\ Written(t) # None
  /\ TransposePage \in Nat \ {0} /\ AlchemyPage \in Nat \ {0}
  /\ MaxPages \in Nat \ {0} /\ MaxTokens \in Nat \ {0}
  /\ MaxHttpAttempts \in Nat \ {0}
  /\ \A p \in Provider : PageSize[p] \in Nat \ {0}
  /\ PageSize["transpose"] = TransposePage
  /\ PageSize["alchemy"] = AlchemyPage
<1>1. /\ TransposePage \in Nat \ {0} /\ AlchemyPage \in Nat \ {0}
      /\ MaxPages \in Nat \ {0} /\ MaxTokens \in Nat \ {0}
      /\ MaxHttpAttempts \in Nat \ {0}
  BY QueriesAssumption
<1>2. /\ Token \subseteq Nat /\ IsFiniteSet(Token) /\ None \notin Id
  BY QueriesAssumption
<1>4. \A x \in Id : x.no \in Token
  BY QueriesAssumption DEF Id, Written
<1>5. \A t \in Token : Written(t) \in Id /\ Written(t).no = t /\ Written(t) # None
  BY <1>2 DEF Id, Written
<1>3. /\ \A p \in Provider : PageSize[p] \in Nat \ {0}
      /\ PageSize["transpose"] = TransposePage
      /\ PageSize["alchemy"] = AlchemyPage
  BY <1>1 DEF Provider, PageSize
<1> QED
  BY <1>1, <1>2, <1>3, <1>4, <1>5

(* A page that is the provider's view is followed by what the page that is   *)
(* asked for next starts with; without another page it is all there is.      *)
LEMMA PageOfView ==
  ASSUME QueriesTypeOK
  PROVE  LET S == From(provider, continuation)
             first == FirstFrom(provider, continuation)
             next == NextOf(provider, continuation)
         IN  /\ first \subseteq S
             /\ Cardinality(first) <= PageSize[provider]
             /\ next = None => first = S
             /\ next # None => /\ next \in Id /\ next.no \in S
                               /\ Cardinality(first) = PageSize[provider]
                               /\ From(provider, next) = S \ first
                               /\ continuation # None => next.no > continuation.no
<1> DEFINE S == From(provider, continuation)
           k == PageSize[provider]
           items == FirstFrom(provider, continuation)
           next == NextOf(provider, continuation)
<1>1. S \in SUBSET Token /\ S \in SUBSET view /\ IsFiniteSet(S) /\ S \in SUBSET Nat
  <2>1. S \in SUBSET view
    BY DEF From
  <2>2. view \in SUBSET Token
    BY DEF QueriesTypeOK
  <2> QED
    BY <2>1, <2>2, QueryConstants, FS_Subset
<1>2. provider \in {"transpose", "alchemy"} /\ k \in Nat \ {0}
  BY QueryConstants DEF QueriesTypeOK, Provider
<1>3. items = FirstOf(S, k)
  <2>1. ASSUME NEW t PROVE t \in items <=> t \in FirstOf(S, k)
    <3>1. t \in items <=>
            t \in S /\ Cardinality({u \in S : u < t}) < k
      BY Zenon DEF FirstFrom
    <3> QED
      BY <3>1 DEF FirstOf
  <2> HIDE DEF items
  <2> QED
    BY <2>1
<1>4. /\ items \subseteq S
      /\ \A t \in items, u \in S : u <= t => u \in items
      /\ Cardinality(items) <= k
      /\ S \ items # {} => Cardinality(items) = k
  <2>1. items \subseteq S
    BY <1>3 DEF FirstOf
  <2> HIDE DEF S, k
  <2> QED
    BY <1>1, <1>2, <1>3, <2>1, FirstOnes
<1>5. IsFiniteSet(items) /\ IsFiniteSet(S \ items)
  <2>1. S \ items \in SUBSET S
    OBVIOUS
  <2> HIDE DEF S
  <2> QED
    BY <1>1, <1>4, <2>1, FS_Subset
<1>6. continuation # None => continuation.no \in Nat
  BY QueryConstants DEF QueriesTypeOK
<1>7. \A t \in view : t \in Nat
  BY QueryConstants DEF QueriesTypeOK
<1>10. \A t \in S : Written(t) \in Id /\ Written(t) # None /\ Written(t).no = t
  <2> HIDE DEF S
  <2> QED
    BY <1>1, QueryConstants
<1>11. NextOf(provider, continuation) =
         IF provider = "transpose"
         THEN IF Cardinality(items) = TransposePage
              THEN Written(CHOOSE t \in items : \A u \in items : u <= t) ELSE None
         ELSE IF S \ items # {}
              THEN Written(CHOOSE t \in S \ items : \A u \in S \ items : t <= u)
              ELSE None
  BY Zenon DEF NextOf
<1>8. CASE provider = "transpose"
  <2>1. \A c : From(provider, c) = {t \in view : c # None => t > c.no}
    BY <1>8 DEF From
  <2>2. k = TransposePage
    BY <1>8, QueryConstants
  <2> DEFINE m == CHOOSE t \in items : \A u \in items : u <= t
  <2>3. next = IF Cardinality(items) = TransposePage THEN Written(m) ELSE None
    BY <1>8, <1>11
  <2>4. CASE Cardinality(items) = k
    <3>1. items # {} /\ items \in SUBSET Nat
      BY <1>1, <1>2, <1>4, <2>4, FS_EmptySet
    <3>2. \E t \in items : \A u \in items : u <= t
      BY <1>5, <3>1, GreatestExists
    <3>3. m \in items /\ \A u \in items : u <= m
      BY <3>2
    <3> HIDE DEF m
    <3>8. m \in S
      BY <1>4, <3>3
    <3>4. next \in Id /\ next # None /\ next.no = m
      BY <1>10, <2>2, <2>3, <2>4, <3>8
    <3>5. continuation # None => m > continuation.no
      BY <2>1, <3>8
    <3>6. ASSUME NEW t PROVE t \in From(provider, next) <=> t \in S \ items
      <4>1. t \in From(provider, next) <=> t \in view /\ t > m
        BY <2>1, <3>4
      <4>2. t \in S <=> t \in view /\ (continuation # None => t > continuation.no)
        BY <2>1
      <4>3. t \in view => t \in Nat /\ m \in Nat
        BY <1>7, <3>1, <3>3
      <4> HIDE DEF items, S
      <4> QED
        BY <1>4, <1>6, <3>3, <3>8, <3>5, <4>1, <4>2, <4>3
    <3>7. From(provider, next) = S \ items
      BY <3>6
    <3> QED
      BY <1>4, <2>4, <3>4, <3>5, <3>7, <3>8
  <2>5. CASE Cardinality(items) # k
    BY <1>4, <2>2, <2>3, <2>5
  <2> QED
    BY <2>4, <2>5
<1>9. CASE provider = "alchemy"
  <2>1. \A c : From(provider, c) = {t \in view : c # None => t >= c.no}
    BY <1>9 DEF From
  <2> DEFINE m == CHOOSE t \in S \ items : \A u \in S \ items : t <= u
  <2>2. next = IF S \ items # {} THEN Written(m) ELSE None
    BY <1>9, <1>11
  <2>3. CASE S \ items # {}
    <3>1. S \ items \in SUBSET Nat
      BY <1>1
    <3>2. \E t \in S \ items : \A u \in S \ items : t <= u
      BY <1>5, <2>3, <3>1, LeastExists
    <3>3. m \in S \ items /\ \A u \in S \ items : m <= u
      BY <3>2
    <3> HIDE DEF m
    <3>4. m \in S /\ next \in Id /\ next # None /\ next.no = m
      BY <1>10, <2>2, <2>3, <3>3
    <3>5. PICK i \in items : TRUE
      BY <1>2, <1>4, <2>3, FS_EmptySet
    <3>6. continuation # None => m > continuation.no
      <4>1. SUFFICES ASSUME continuation # None, ~(m > continuation.no) PROVE FALSE
        OBVIOUS
      <4>2. m >= continuation.no /\ i >= continuation.no /\ i \in Nat /\ m \in Nat
        BY <1>1, <1>4, <2>1, <3>4, <4>1
      <4>3. m <= i
        BY <1>6, <4>1, <4>2
      <4> QED
        BY <1>4, <3>3, <4>3
    <3>7. ASSUME NEW t PROVE t \in From(provider, next) <=> t \in S \ items
      <4>1. t \in From(provider, next) <=> t \in view /\ t >= m
        BY <2>1, <3>4
      <4>2. t \in S <=> t \in view /\ (continuation # None => t >= continuation.no)
        BY <2>1
      <4>3. t \in view => t \in Nat /\ m \in Nat
        BY <1>1, <1>7, <3>4
      <4>4. t \in items /\ m <= t => m \in items
        BY <1>4, <3>4
      <4> HIDE DEF items, S
      <4> QED
        BY <1>4, <1>6, <3>3, <3>6, <4>1, <4>2, <4>3, <4>4
    <3>8. From(provider, next) = S \ items
      BY <3>7
    <3> QED
      BY <1>4, <2>3, <3>4, <3>6, <3>8
  <2>4. CASE S \ items = {}
    BY <1>4, <2>2, <2>4
  <2> QED
    BY <2>3, <2>4
<1> QED
  BY <1>2, <1>8, <1>9

(* Its texts: each of these tokens once.                                     *)
LEMMA PageIsWritten ==
  ASSUME QueriesTypeOK
  PROVE  LET first == FirstFrom(provider, continuation)
             items == PageOf(provider, continuation)
         IN  /\ items \in Seq(Id)
             /\ Len(items) = Cardinality(first)
             /\ Values(items) = first
<1> DEFINE first == FirstFrom(provider, continuation)
           W == {Written(t) : t \in first}
           items == PageOf(provider, continuation)
<1>1. first \in SUBSET Token /\ IsFiniteSet(first)
  <2>1. first \in SUBSET view /\ view \in SUBSET Token
    BY DEF FirstFrom, From, QueriesTypeOK
  <2> QED
    BY <2>1, QueryConstants, FS_Subset
<1>2. items = Sorted(W)
  BY DEF PageOf
<1> HIDE DEF first, items
<1>3. IsFiniteSet(W) /\ Cardinality(W) = Cardinality(first)
  <2> DEFINE f == [t \in first |-> Written(t)]
  <2>1. f \in Bijection(first, W)
    <3>1. f \in [first -> W] /\ \A x \in W : \E t \in first : f[t] = x
      OBVIOUS
    <3>2. \A t, u \in first : f[t] = f[u] => t = u
      BY DEF Written
    <3> HIDE DEF f, W
    <3>3. f \in Injection(first, W)
      BY <3>1, <3>2, Fun_IsInj
    <3> QED
      BY <3>1, <3>3 DEF Bijection, Surjection
  <2> HIDE DEF f, W
  <2> QED
    BY <1>1, <2>1, FS_Bijection DEF ExistsBijection
<1>4. /\ W \in SUBSET Id /\ \A x \in W : x.no \in Nat
      /\ \A t : t \in first <=> \E x \in W : x.no = t
  BY <1>1, QueryConstants DEF Written
<1> HIDE DEF W
<1>5. /\ Sorted(W) \in [1..Cardinality(W) -> W]
      /\ Sorted(W) \in Seq(W) /\ Len(Sorted(W)) = Cardinality(W)
      /\ \A x \in W : \E i \in 1..Cardinality(W) : Sorted(W)[i] = x
  BY <1>3, <1>4, SortedIds
<1>6. items \in Seq(Id) /\ Len(items) = Cardinality(first)
      /\ DOMAIN items = 1..Cardinality(W)
  BY <1>2, <1>3, <1>4, <1>5
<1>7. \A t : t \in Values(items) <=> t \in first
  BY <1>2, <1>4, <1>5, <1>6 DEF Values
<1> QED
  BY <1>6, <1>7 DEF first, items

(* What a page adds to a list.                                               *)
LEMMA ValuesOfBoth ==
  ASSUME NEW list \in Seq(Id), NEW items \in Seq(Id)
  PROVE  /\ list \o items \in Seq(Id)
         /\ Len(list \o items) = Len(list) + Len(items)
         /\ Values(list \o items) = Values(list) \cup Values(items)
<1> DEFINE both == list \o items
           m == Len(list)
           n == Len(items)
<1>1. /\ both \in Seq(Id) /\ Len(both) = m + n /\ m \in Nat /\ n \in Nat
      /\ \A i \in 1..m : both[i] = list[i]
      /\ \A i \in (m + 1)..(m + n) : both[i] = items[i - m]
      /\ DOMAIN list = 1..m /\ DOMAIN items = 1..n /\ DOMAIN both = 1..(m + n)
  OBVIOUS
<1> HIDE DEF both, m, n
<1>2. ASSUME NEW v PROVE v \in Values(both) <=> v \in Values(list) \cup Values(items)
  <2>1. ASSUME v \in Values(both) PROVE v \in Values(list) \cup Values(items)
    <3>1. PICK i \in 1..(m + n) : v = both[i].no
      BY <1>1, <2>1 DEF Values
    <3>2. CASE i \in 1..m
      BY <1>1, <3>1, <3>2 DEF Values
    <3>3. CASE i \notin 1..m
      <4>1. i \in (m + 1)..(m + n) /\ i - m \in 1..n
        BY <1>1, <3>3
      <4> QED
        BY <1>1, <3>1, <4>1 DEF Values
    <3> QED
      BY <3>2, <3>3
  <2>2. ASSUME v \in Values(list) PROVE v \in Values(both)
    <3>1. PICK i \in 1..m : v = list[i].no
      BY <1>1, <2>2 DEF Values
    <3>2. i \in 1..(m + n)
      BY <1>1
    <3> QED
      BY <1>1, <3>1, <3>2 DEF Values
  <2>3. ASSUME v \in Values(items) PROVE v \in Values(both)
    <3>1. PICK i \in 1..n : v = items[i].no
      BY <1>1, <2>3 DEF Values
    <3>2. i + m \in (m + 1)..(m + n) /\ i + m \in 1..(m + n) /\ (i + m) - m = i
      BY <1>1
    <3>3. both[i + m].no = v
      BY <1>1, <3>1, <3>2
    <3> QED
      BY <1>1, <3>2, <3>3 DEF Values
  <2> QED
    BY <2>1, <2>2, <2>3
<1> QED
  BY <1>1, <1>2 DEF both, m, n

(* A list as a set of texts, which formatNumberRange starts from.            *)
LEMMA ListOfTexts ==
  ASSUME NEW list \in Seq(Id)
  PROVE  /\ IsFiniteSet(ToSet(list)) /\ \A x \in ToSet(list) : x.no \in Nat
         /\ {x.no : x \in ToSet(list)} = Values(list)
         /\ OneSpelling(list) =>
              \A x, y \in ToSet(list) : x.no = y.no => x = y
<1>1. /\ DOMAIN list = 1..Len(list) /\ Len(list) \in Nat
      /\ \A i \in DOMAIN list : list[i] \in Id
  OBVIOUS
<1>2. ToSet(list) = {list[i] : i \in DOMAIN list}
  BY DEF ToSet
<1>3. IsFiniteSet(DOMAIN list)
  BY <1>1, FS_Interval
<1>4. IsFiniteSet({list[i] : i \in DOMAIN list})
  BY <1>3, ImageIsFinite
<1>5. \A x \in ToSet(list) : x.no \in Nat
  BY <1>1, <1>2, QueryConstants
<1>6. {x.no : x \in ToSet(list)} = Values(list)
  BY <1>2 DEF Values
<1>7. OneSpelling(list) => \A x, y \in ToSet(list) : x.no = y.no => x = y
  BY <1>2 DEF OneSpelling
<1> QED
  BY <1>2, <1>4, <1>5, <1>6, <1>7

(* A listing that has been answered from one view: it has what comes before  *)
(* the continuation, as much as its pages hold, and no token that is to come.*)
Listing ==
  question = "tokens" /\ sound =>
    LET rest == From(provider, continuation) IN
    /\ initially \subseteq view /\ Values(tokens) \subseteq view
    /\ initially \ rest \subseteq Values(tokens)
    /\ Values(tokens) \cap rest = {}
    /\ Len(tokens) = Cardinality(Values(tokens))
    /\ Len(tokens) >= (page - 1) * PageSize[provider]
    /\ seen # {} => continuation # None
    /\ \A x \in seen : x.no <= continuation.no

QInv ==
  /\ AnswersAreRight
  /\ answer # None => question = "answered"
  /\ Listing

(* The invariant follows from its parts when there is no answer.             *)
LEMMA Unanswered ==
  /\ answer = None => /\ ListIsOneView /\ RangesAreTheList
                      /\ MetadataIsComplete /\ UnavailableIsTemporary
  /\ answer' = None => /\ ListIsOneView' /\ RangesAreTheList'
                       /\ MetadataIsComplete' /\ UnavailableIsTemporary'
<1>1. Refused("503") # None
  <2>1. Refused("503") \in [status : {"400", "502", "503"}]
    BY DEF Refused
  <2> QED
    BY <2>1, NoneIsNoAnswer
<1> QED
  BY <1>1 DEF ListIsOneView, RangesAreTheList, MetadataIsComplete, Listed,
              UnavailableIsTemporary

LEMMA InitQInv ==
  ASSUME QueriesInit
  PROVE  QInv
<1>1. QueriesTypeOK
  BY QueryConstants, FS_EmptySet DEF QueriesInit, QueriesTypeOK, Provider
<1>2. answer = None /\ Listing
  BY DEF QueriesInit, Listing
<1> QED
  BY <1>1, <1>2, Unanswered DEF QInv, AnswersAreRight

(* A listing that begins.                                                    *)
LEMMA BeginsWithNothing ==
  ASSUME Fresh, question' = "tokens",
         provider' \in Provider,
         failed' \in [Provider -> Failures \cup {None}],
         answer' = None
  PROVE  QInv'
<1>1. QueriesTypeOK'
  BY QueryConstants, FS_EmptySet DEF Fresh, QueriesTypeOK
<1>2. Listing'
  <2>1. (page - 1)' = 0
    BY DEF Fresh
  <2>2. PageSize[provider'] \in Nat
    BY QueryConstants
  <2>3. (page - 1)' * PageSize[provider'] = 0
    BY <2>1, <2>2
  <2>4. \A t : t \in From(provider, continuation)' <=> t \in view'
    BY DEF From, Fresh
  <2>5. Values(<<>>) = {} /\ Len(<<>>) = 0
    BY DEF Values
  <2> HIDE DEF From
  <2> QED
    BY <2>3, <2>4, <2>5, FS_EmptySet DEF Listing, Fresh
<1> QED
  BY <1>1, <1>2, Unanswered DEF QInv, AnswersAreRight

LEMMA GiveUpKeeps ==
  ASSUME QInv, question = "tokens",
         NEW kind \in Failures, GiveUp(kind)
  PROVE  QInv'
<1>1. /\ QueriesTypeOK /\ answer = None
      /\ failed' \in [Provider -> Failures \cup {None}]
  BY DEF QInv, AnswersAreRight, QueriesTypeOK, GiveUp
<1>2. CASE provider = "transpose"
  BY <1>1, <1>2, BeginsWithNothing DEF GiveUp, Provider
<1>3. CASE provider # "transpose"
  <2>1. /\ question' = "answered"
        /\ answer' = Refused(
                       MapProviderErrors({failed["transpose"], kind}))
        /\ UNCHANGED <<view, provider, listing, initially, sound>>
    BY <1>3 DEF GiveUp
  <2>2. provider = "alchemy" /\ failed'["alchemy"] = kind
        /\ failed'["transpose"] = failed["transpose"]
    BY <1>1, <1>3 DEF GiveUp, QueriesTypeOK, Provider
  <2>3. QueriesTypeOK'
    BY <1>1, <2>1 DEF QueriesTypeOK, listing
  <2>4. UnavailableIsTemporary'
    <3>1. MapProviderErrors({failed["transpose"], kind}) = "503" =>
            IsTemporary(failed["transpose"]) /\ IsTemporary(kind)
      BY DEF MapProviderErrors
    <3>2. \A s, t : Refused(s) = Refused(t) => s = t
      BY DEF Refused
    <3> QED
      BY <2>1, <2>2, <3>1, <3>2 DEF UnavailableIsTemporary, Provider
  <2>5. ~Listed' /\ MetadataIsComplete'
    <3>1. DOMAIN answer' = {"status"}
      BY <2>1 DEF Refused
    <3> QED
      BY <3>1 DEF Listed, MetadataIsComplete
  <2> QED
    BY <2>1, <2>3, <2>4, <2>5
       DEF QInv, AnswersAreRight, ListIsOneView, RangesAreTheList, Listing
<1> QED
  BY <1>2, <1>3

(* A page that is taken: what is listed then, and how much of it.            *)
LEMMA PageTaken ==
  ASSUME QInv, NEW items \in Seq(Id), tokens' = tokens \o items
  PROVE  /\ tokens' \in Seq(Id) /\ Len(tokens') = Len(tokens) + Len(items)
         /\ Len(tokens) \in Nat /\ Len(items) \in Nat
         /\ Values(tokens') = Values(tokens) \cup Values(items)
         /\ /\ Len(tokens) = Cardinality(Values(tokens))
            /\ Len(items) = Cardinality(Values(items))
            /\ Values(tokens) \cap Values(items) = {}
            => Len(tokens') = Cardinality(Values(tokens'))
<1>1. tokens \in Seq(Id)
  BY DEF QInv, AnswersAreRight, QueriesTypeOK
<1>2. /\ tokens' \in Seq(Id) /\ Len(tokens') = Len(tokens) + Len(items)
      /\ Values(tokens') = Values(tokens) \cup Values(items)
  BY <1>1, ValuesOfBoth
<1>3. Len(tokens) \in Nat /\ Len(items) \in Nat
  BY <1>1
<1>4. IsFiniteSet(Values(tokens)) /\ IsFiniteSet(Values(items))
  <2>1. ASSUME NEW list \in Seq(Id) PROVE IsFiniteSet(Values(list))
    <3>1. Values(list) = {x.no : x \in ToSet(list)} /\ IsFiniteSet(ToSet(list))
      BY ListOfTexts
    <3>2. IsFiniteSet({x.no : x \in ToSet(list)})
      BY <3>1, NumbersAreFinite
    <3> QED
      BY <3>1, <3>2
  <2> QED
    BY <1>1, <2>1
<1>5. Values(tokens) \cap Values(items) = {} =>
        Cardinality(Values(tokens')) =
          Cardinality(Values(tokens)) + Cardinality(Values(items))
  <2> SUFFICES ASSUME Values(tokens) \cap Values(items) = {}
               PROVE  Cardinality(Values(tokens) \cup Values(items)) =
                        Cardinality(Values(tokens)) + Cardinality(Values(items))
    BY <1>2
  <2> DEFINE V == Values(tokens)
             W == Values(items)
  <2>1. IsFiniteSet(V) /\ IsFiniteSet(W) /\ V \cap W = {}
    BY <1>4
  <2> HIDE DEF V, W
  <2>2. Cardinality(V \cup W) = Cardinality(V) + Cardinality(W) - Cardinality(V \cap W)
    BY <2>1, FS_Union
  <2>3. Cardinality(V \cap W) = 0 /\ Cardinality(V) \in Nat /\ Cardinality(W) \in Nat
    BY <2>1, FS_EmptySet, FS_CardinalityType
  <2>4. Cardinality(V \cup W) = Cardinality(V) + Cardinality(W)
    BY <2>2, <2>3
  <2> QED
    BY <2>4 DEF V, W
<1> QED
  BY <1>2, <1>3, <1>5

(* A listing that goes on keeps the invariant.                               *)
LEMMA GoesOn ==
  ASSUME QInv, question = "tokens", answer = None,
         NEW items \in Seq(Id), NEW next \in Id, NEW fromView \in BOOLEAN,
         fromView => /\ sound
                     /\ items = PageOf(provider, continuation)
                     /\ next = NextOf(provider, continuation),
         Len(tokens') <= MaxTokens, page < MaxPages,
         tokens' = tokens \o items,
         continuation' = next, seen' = seen \cup {next}, page' = page + 1, tries' = 1,
         sound' = fromView,
         UNCHANGED <<view, question, provider, failed, answer, initially>>
  PROVE  QInv'
<1>1. /\ QueriesTypeOK /\ Listing
  BY DEF QInv, AnswersAreRight
<1>2. /\ tokens' \in Seq(Id) /\ Len(tokens') = Len(tokens) + Len(items)
      /\ Len(tokens) \in Nat /\ Len(items) \in Nat
      /\ Values(tokens') = Values(tokens) \cup Values(items)
      /\ /\ Len(tokens) = Cardinality(Values(tokens))
         /\ Len(items) = Cardinality(Values(items))
         /\ Values(tokens) \cap Values(items) = {}
         => Len(tokens') = Cardinality(Values(tokens'))
  BY PageTaken
<1>3. QueriesTypeOK'
  <2>1. page' \in 0..MaxPages /\ tries' \in 0..MaxHttpAttempts
    BY <1>1, QueryConstants DEF QueriesTypeOK
  <2>3. seen' \subseteq Id /\ continuation' \in Id \cup {None}
    BY <1>1 DEF QueriesTypeOK
  <2>4. /\ view' = view /\ initially' = initially /\ provider' = provider
        /\ failed' = failed /\ question' = question /\ sound' \in BOOLEAN
    OBVIOUS
  <2> QED
    BY <1>1, <1>2, <2>1, <2>3, <2>4 DEF QueriesTypeOK
<1>4. ASSUME fromView PROVE Listing'
  <2> DEFINE rest == From(provider, continuation)
             later == From(provider, next)
             k == PageSize[provider]
             old == Values(tokens)
             new == Values(items)
  <2>1. /\ initially \subseteq view /\ old \subseteq view
        /\ initially \ rest \subseteq old
        /\ old \cap rest = {}
        /\ Len(tokens) = Cardinality(old)
        /\ Len(tokens) >= (page - 1) * k
        /\ seen # {} => continuation # None
        /\ \A x \in seen : x.no <= continuation.no
    BY <1>1, <1>4 DEF Listing
  <2>2. next # None
    BY QueryConstants
  <2>3. /\ new \subseteq rest /\ next.no \in rest
        /\ Cardinality(new) = k /\ Len(items) = Cardinality(new)
        /\ later = rest \ new
        /\ continuation # None => next.no > continuation.no
    <3> HIDE DEF rest, later, k, new
    <3>1. LET S == From(provider, continuation)
             first == FirstFrom(provider, continuation)
             next1 == NextOf(provider, continuation)
          IN  /\ first \subseteq S
              /\ next1 # None =>
                   /\ next1.no \in S
                   /\ Cardinality(first) = PageSize[provider]
                   /\ From(provider, next1) = S \ first
                   /\ continuation # None => next1.no > continuation.no
      BY <1>1, PageOfView
    <3>2. /\ Values(items) = FirstFrom(provider, continuation)
          /\ Len(items) = Cardinality(FirstFrom(provider, continuation))
      BY <1>1, <1>4, PageIsWritten
    <3> QED
      BY <1>4, <2>2, <3>1, <3>2 DEF rest, later, k, new
  <2>4. rest \subseteq view
    BY DEF From
  <2>5. From(provider, continuation)' = later
    BY DEF From
  <2>6. k \in Nat /\ page \in Nat
    BY <1>1, QueryConstants DEF QueriesTypeOK
  <2>7. Len(tokens') >= (page' - 1) * PageSize[provider']
    <3>1. page' - 1 = page /\ provider' = provider
      BY <2>6
    <3> HIDE DEF k, old, new
    <3>2. page * k = (page - 1) * k + k
      BY <2>6
    <3>3. (page - 1) * k \in Int
      BY <2>6
    <3>4. Len(tokens') >= page * k
      BY <1>2, <2>1, <2>3, <2>6, <3>2, <3>3
    <3> QED
      BY <3>1, <3>4 DEF k
  <2>8. \A x \in seen' : x.no <= continuation'.no
    <3>1. /\ \A x \in seen : x.no \in Nat
          /\ next.no \in Nat
          /\ continuation # None => continuation.no \in Nat
      BY <1>1, QueryConstants DEF QueriesTypeOK
    <3> HIDE DEF rest, later, k
    <3> QED
      BY <2>1, <2>3, <3>1
  <2> HIDE DEF rest, later, k
  <2>9. /\ initially' \subseteq view' /\ Values(tokens') \subseteq view'
        /\ initially' \ later \subseteq Values(tokens')
        /\ Values(tokens') \cap later = {}
        /\ Len(tokens') = Cardinality(Values(tokens'))
    <3>1. old \cap new = {}
      BY <2>1, <2>3
    <3>2. /\ Values(tokens') = old \cup new
          /\ Len(tokens') = Cardinality(Values(tokens'))
      BY <1>2, <2>1, <2>3, <3>1
    <3> HIDE DEF old, new
    <3> QED
      BY <2>1, <2>3, <2>4, <3>2
  <2> QED
    BY <2>2, <2>5, <2>7, <2>8, <2>9 DEF Listing
<1>5. Listing'
  BY <1>4 DEF Listing
<1> QED
  BY <1>1, <1>3, <1>5, Unanswered DEF QInv, AnswersAreRight

(* A listing that ends.                                                      *)
LEMMA ListingEnds ==
  ASSUME QInv, question = "tokens",
         NEW items \in Seq(Id), NEW fromView \in BOOLEAN,
         fromView => /\ sound
                     /\ items = PageOf(provider, continuation)
                     /\ NextOf(provider, continuation) = None,
         Len(tokens') <= MaxTokens,
         tokens' = tokens \o items,
         question' = "answered", sound' = fromView,
         answer' = [status |-> "200", ids |-> FormatNumberRange(tokens')],
         UNCHANGED <<view, provider, continuation, seen, page, tries, failed, initially>>
  PROVE  QInv'
<1>1. /\ QueriesTypeOK /\ Listing
  BY DEF QInv, AnswersAreRight
<1>2. /\ tokens' \in Seq(Id) /\ Len(tokens') = Len(tokens) + Len(items)
      /\ Values(tokens') = Values(tokens) \cup Values(items)
      /\ /\ Len(tokens) = Cardinality(Values(tokens))
         /\ Len(items) = Cardinality(Values(items))
         /\ Values(tokens) \cap Values(items) = {}
         => Len(tokens') = Cardinality(Values(tokens'))
  BY PageTaken
<1>3. QueriesTypeOK'
  BY <1>1, <1>2 DEF QueriesTypeOK
<1>4. ListIsOneView'
  <2> SUFFICES ASSUME fromView
               PROVE  /\ initially \subseteq Values(tokens') /\ Values(tokens') \subseteq view
                      /\ Len(tokens') = Cardinality(Values(tokens'))
    BY DEF ListIsOneView
  <2> DEFINE rest == From(provider, continuation)
             old == Values(tokens)
             new == Values(items)
  <2>1. /\ initially \subseteq view /\ old \subseteq view
        /\ initially \ rest \subseteq old
        /\ old \cap rest = {}
        /\ Len(tokens) = Cardinality(old)
    BY <1>1 DEF Listing
  <2>2. new = rest /\ Len(items) = Cardinality(new)
    <3>1. LET first == FirstFrom(provider, continuation)
             next == NextOf(provider, continuation)
          IN  next = None => first = From(provider, continuation)
      BY <1>1, PageOfView
    <3>2. /\ Values(items) = FirstFrom(provider, continuation)
          /\ Len(items) = Cardinality(FirstFrom(provider, continuation))
      BY <1>1, PageIsWritten
    <3> QED
      BY <3>1, <3>2
  <2>3. rest \subseteq view
    BY DEF From
  <2> HIDE DEF rest, old, new
  <2>4. Values(tokens') = old \cup new /\ Len(tokens') = Cardinality(Values(tokens'))
    BY <1>2, <2>1, <2>2 DEF old, new
  <2> QED
    BY <2>1, <2>2, <2>3, <2>4
<1> DEFINE ranges == FormatNumberRange(tokens')
<1>5. RangesAreTheList'
  <2>1. /\ AreRanges(ranges, Values(tokens'))
        /\ OneSpelling(tokens') => Apart(ranges)
    <3> DEFINE T == ToSet(tokens')
    <3>1. /\ IsFiniteSet(T) /\ \A x \in T : x.no \in Nat
          /\ {x.no : x \in T} = Values(tokens')
          /\ OneSpelling(tokens') => \A x, y \in T : x.no = y.no => x = y
      BY <1>2, ListOfTexts
    <3>2. ranges = RangesOf(Sorted(T))
      BY DEF FormatNumberRange
    <3> HIDE DEF T, ranges
    <3>3. /\ AreRanges(RangesOf(Sorted(T)), {x.no : x \in T})
          /\ (\A x, y \in T : x.no = y.no => x = y) => Apart(RangesOf(Sorted(T)))
      BY <3>1, RangesAreTheSet
    <3> QED
      BY <3>1, <3>2, <3>3
  <2>2. answer'.ids = ranges
    OBVIOUS
  <2> HIDE DEF ranges
  <2>3. /\ UNION {ranges[i].start..ranges[i].end : i \in 1..Len(ranges)} = Values(tokens')
        /\ \A i \in 1..Len(ranges) : ranges[i].start <= ranges[i].end
        /\ \A i \in 1..(Len(ranges) - 1) :
             ranges[i].end <= ranges[i + 1].start /\ ranges[i + 1].start # ranges[i].end + 1
        /\ OneSpelling(tokens') =>
             \A i \in 1..(Len(ranges) - 1) : ranges[i].end + 1 < ranges[i + 1].start
    BY <2>1, Zenon DEF AreRanges, Apart
  <2> DEFINE r == answer.ids
  <2>4. r' = ranges
    BY <2>2
  <2> HIDE DEF r
  <2>6. /\ Values(tokens)' = Values(tokens')
        /\ OneSpelling(tokens)' <=> OneSpelling(tokens')
    BY DEF Values, OneSpelling
  <2>7. /\ UNION {r'[i].start..r'[i].end : i \in 1..Len(r')} = Values(tokens)'
        /\ \A i \in 1..Len(r') : r'[i].start <= r'[i].end
        /\ \A i \in 1..(Len(r') - 1) :
             r'[i].end <= r'[i + 1].start /\ r'[i + 1].start # r'[i].end + 1
        /\ OneSpelling(tokens)' =>
             \A i \in 1..(Len(r') - 1) : r'[i].end + 1 < r'[i + 1].start
    BY <2>3, <2>4, <2>6, Zenon
  <2> QED
    BY <2>7, Zenon DEF RangesAreTheList, r
<1> HIDE DEF ranges
<1>6. answer' # None => UnavailableIsTemporary' /\ MetadataIsComplete'
  <2>1. DOMAIN answer' = {"status", "ids"} /\ answer'.status = "200"
    OBVIOUS
  <2>2. answer' # Refused("503")
    <3>1. Refused("503").status = "503"
      BY DEF Refused
    <3> QED
      BY <2>1, <3>1
  <2> QED
    BY <2>1, <2>2 DEF UnavailableIsTemporary, MetadataIsComplete
<1>7. Listing'
  BY DEF Listing
<1> QED
  BY <1>1, <1>3, <1>4, <1>5, <1>6, <1>7, Unanswered DEF QInv, AnswersAreRight

LEMMA CollectKeeps ==
  ASSUME QInv, question = "tokens",
         NEW items \in Seq(Id), NEW next \in Id \cup {None},
         NEW fromView \in BOOLEAN,
         fromView => /\ sound
                     /\ items = PageOf(provider, continuation)
                     /\ next = NextOf(provider, continuation),
         Collect(items, next, fromView)
  PROVE  QInv'
<1> DEFINE n == Len(tokens) + Len(items)
<1>1. /\ "invalid-response" \in Failures
      /\ answer = None
      /\ tokens' = tokens \o items => Len(tokens') = n
  BY PageTaken DEF Failures, FailureKinds, QInv
<1>2. CASE GiveUp("invalid-response")
  BY <1>1, <1>2, GiveUpKeeps
<1>3. CASE /\ n <= MaxTokens /\ next = None
           /\ tokens' = tokens \o items
           /\ question' = "answered"
           /\ answer' = [status |-> "200", ids |-> FormatNumberRange(tokens')]
           /\ sound' = fromView
           /\ UNCHANGED <<view, provider, continuation, seen, page, tries, failed,
                          initially>>
  <2> HIDE DEF FormatNumberRange
  <2>1. Len(tokens') <= MaxTokens
    BY <1>1, <1>3
  <2> QED
    BY <1>3, <2>1, ListingEnds
<1>4. CASE /\ n <= MaxTokens /\ next # None /\ page < MaxPages
           /\ tokens' = tokens \o items
           /\ continuation' = next /\ seen' = seen \cup {next}
           /\ page' = page + 1 /\ tries' = 1
           /\ sound' = fromView
           /\ UNCHANGED <<view, question, provider, failed, answer, initially>>
  <2>1. next \in Id /\ Len(tokens') <= MaxTokens
    BY <1>1, <1>4
  <2> QED
    BY <1>1, <1>4, <2>1, GoesOn
<1> QED
  BY <1>2, <1>3, <1>4 DEF Collect

(* Answers about metadata: what they say of a contract is what they may.     *)
LEMMA MetadataAnswered ==
  ASSUME QInv, question \in Contracts,
         NEW status, NEW a, AnswerMetadata(status, question, a),
         status \in {"200", "500"},
         question = "canonical" =>
           /\ status = "200" /\ a # None
           /\ \A f \in Fields : a.texts[f] \in {"provided", "kept"}
           /\ a.verified => a # GetCanonicalFallback,
         question = "other" /\ a # None =>
           \A f \in Fields : a.texts[f] # "kept"
  PROVE  QInv'
<1>1. /\ question' = "answered" /\ answer = None
      /\ answer' = [status |-> status, contract |-> question, metadata |-> a]
      /\ UNCHANGED <<view, provider, continuation, seen, page, tokens,
                     tries, failed, initially, sound>>
  BY DEF AnswerMetadata, QInv, Contracts, listing
<1>2. QueriesTypeOK'
  BY <1>1 DEF QInv, AnswersAreRight, QueriesTypeOK
<1>3. ~Listed'
  <2>1. DOMAIN answer' = {"status", "contract", "metadata"}
    BY <1>1
  <2> QED
    BY <2>1 DEF Listed
<1>4. UnavailableIsTemporary'
  <2>1. Refused("503").status = "503" /\ answer'.status = status
    BY <1>1 DEF Refused
  <2> QED
    BY <2>1 DEF UnavailableIsTemporary
<1>5. MetadataIsComplete'
  BY <1>1 DEF MetadataIsComplete, Contracts
<1> QED
  BY <1>1, <1>2, <1>3, <1>4, <1>5
     DEF QInv, AnswersAreRight, ListIsOneView, RangesAreTheList, Listing

LEMMA MetadataStepKeeps ==
  ASSUME QInv,
         MetadataArrives \/ MetadataEmpty \/ MetadataFails
  PROVE  QInv'
<1> DEFINE Full(texts, verified) == [texts |-> texts, verified |-> verified]
<1>1. ASSUME NEW texts \in [Fields -> Texts \cup {"kept"}],
             NEW verified \in BOOLEAN
      PROVE  /\ Full(texts, verified) # None
             /\ Full(texts, verified).texts = texts
             /\ Full(texts, verified).verified = verified
  <2>1. Full(texts, verified) \in
          [texts : [Fields -> Texts \cup {"kept"}], verified : BOOLEAN]
    OBVIOUS
  <2> QED
    BY <2>1, NoneIsNoAnswer
<1>2. /\ GetCanonicalFallback # None
      /\ \A f \in Fields : GetCanonicalFallback.texts[f] = "kept"
      /\ GetCanonicalFallback.verified = FALSE
  <2>1. [f \in Fields |-> "kept"] \in
          [Fields -> Texts \cup {"kept"}]
    OBVIOUS
  <2> QED
    BY <1>1, <2>1 DEF GetCanonicalFallback
<1>3. CASE MetadataArrives
  <2>1. PICK raw \in [Fields -> Texts], verified \in BOOLEAN :
          /\ question \in Contracts
          /\ AnswerMetadata("200", question,
               Full(IF question = "canonical"
                    THEN ApplyCanonicalFallback(WithDefaults(raw))
                    ELSE WithDefaults(raw), verified))
    BY <1>3 DEF MetadataArrives
  <2> DEFINE texts == IF question = "canonical"
                      THEN ApplyCanonicalFallback(WithDefaults(raw))
                      ELSE WithDefaults(raw)
  <2>2. WithDefaults(raw) \in [Fields -> Texts]
    BY DEF WithDefaults, NormalizeTokenType, Texts
  <2>3. /\ ApplyCanonicalFallback(WithDefaults(raw)) \in
             [Fields -> {"provided", "kept"}]
    BY DEF ApplyCanonicalFallback, WithCanonicalFallback
  <2>4. texts \in [Fields -> Texts \cup {"kept"}]
    BY <2>2, <2>3 DEF Texts
  <2>5. /\ question = "canonical" =>
             \A f \in Fields : texts[f] \in {"provided", "kept"}
        /\ question = "other" => \A f \in Fields : texts[f] # "kept"
    BY <2>2, <2>3 DEF Texts
  <2>6. question \in Contracts /\
        AnswerMetadata("200", question, Full(texts, verified))
    BY <2>1
  <2> HIDE DEF texts
  <2>7. /\ Full(texts, verified) # None
        /\ Full(texts, verified).texts = texts
        /\ Full(texts, verified).verified = verified
    BY <1>1, <2>4
  <2> HIDE DEF Full
  <2> QED
    BY <1>2, <2>5, <2>6, <2>7, MetadataAnswered
<1>4. CASE MetadataEmpty
  <2>1. CASE question = "canonical"
    BY <1>2, <1>4, <2>1, MetadataAnswered DEF MetadataEmpty
  <2>2. CASE question # "canonical"
    BY <1>4, <2>2, MetadataAnswered DEF MetadataEmpty
  <2> QED
    BY <2>1, <2>2
<1>5. CASE MetadataFails
  <2>1. CASE question = "canonical"
    BY <1>2, <1>5, <2>1, MetadataAnswered DEF MetadataFails
  <2>2. CASE question # "canonical"
    BY <1>5, <2>2, MetadataAnswered DEF MetadataFails
  <2> QED
    BY <2>1, <2>2
<1> QED
  BY <1>3, <1>4, <1>5

LEMMA PageStepKeeps ==
  ASSUME QInv,
         PageArrives \/ OddPageArrives \/ PageFails
  PROVE  QInv'
<1>1. /\ QueriesTypeOK
  BY DEF QInv, AnswersAreRight
<1>2. CASE PageArrives
  <2> DEFINE items == PageOf(provider, continuation)
             next == NextOf(provider, continuation)
  <2>1. items \in Seq(Id) /\ next \in Id \cup {None}
    BY <1>1, PageOfView, PageIsWritten
  <2>2. question = "tokens" /\ Collect(items, next, sound)
    BY <1>2 DEF PageArrives
  <2>3. sound \in BOOLEAN
    BY <1>1 DEF QueriesTypeOK
  <2> HIDE DEF items, next
  <2>4. sound => /\ sound
                 /\ items = PageOf(provider, continuation)
                 /\ next = NextOf(provider, continuation)
    BY DEF items, next
  <2> QED
    BY <2>1, <2>2, <2>3, <2>4, CollectKeeps
<1>3. CASE OddPageArrives
  <2>1. PICK items \in OddPages(provider) :
          \E next \in OddNext(provider, items) :
            Collect(items, next, FALSE)
    BY <1>3 DEF OddPageArrives
  <2>2. PICK next \in OddNext(provider, items) :
          Collect(items, next, FALSE)
    BY <2>1
  <2>3. question = "tokens" /\ items \in Seq(Id)
    <3>1. \A p \in Provider : PageSize[p] \in Nat
      BY QueryConstants
    <3>2. provider \in Provider /\ MaxTokens \in Nat
      BY <1>1, QueryConstants DEF QueriesTypeOK
    <3>3. \A m \in Nat : \A q \in [1..m -> Id] : q \in Seq(Id)
      OBVIOUS
    <3>6. question = "tokens"
      BY <1>3 DEF OddPageArrives
    <3>4. CASE \E m \in 0..PageSize[provider] : items \in [1..m -> Id]
      <4>1. PICK m \in 0..PageSize[provider] : items \in [1..m -> Id]
        BY <3>4
      <4>2. m \in Nat
        BY <3>1, <3>2
      <4> QED
        BY <3>3, <3>6, <4>1, <4>2
    <3>5. CASE \E x \in Id : items = [i \in 1..MaxTokens |-> x]
      <4>1. items \in [1..MaxTokens -> Id]
        BY <3>5
      <4> QED
        BY <3>2, <3>3, <3>6, <4>1
    <3>7. \/ \E m \in 0..PageSize[provider] : items \in [1..m -> Id]
          \/ \E x \in Id : items = [i \in 1..MaxTokens |-> x]
      <4> DEFINE A == UNION {[1..m -> Id] : m \in 0..PageSize[provider]}
                 B == {[i \in 1..MaxTokens |-> x] : x \in Id}
      <4>1. OddPages(provider) = A \cup B
        BY Zenon DEF OddPages
      <4>2. items \in A => \E m \in 0..PageSize[provider] : items \in [1..m -> Id]
        OBVIOUS
      <4>3. items \in B => \E x \in Id : items = [i \in 1..MaxTokens |-> x]
        OBVIOUS
      <4>4. items \in OddPages(provider)
        BY <2>1
      <4> HIDE DEF A, B, OddPages
      <4>5. items \in A \/ items \in B
        BY <4>1, <4>4
      <4> QED
        BY <4>2, <4>3, <4>5
    <3> QED
      BY <3>4, <3>5, <3>7
  <2>4. next \in Id \cup {None}
    <3>1. TransposePage \in Nat \ {0}
      BY QueryConstants
    <3>2. Len(items) = TransposePage => Last(items) \in Id
      <4> SUFFICES ASSUME Len(items) = TransposePage PROVE Last(items) \in Id
        OBVIOUS
      <4>1. Len(items) \in 1..Len(items)
        BY <3>1
      <4> QED
        BY <2>3, <4>1 DEF Last
    <3> QED
      BY <2>2, <3>2 DEF OddNext
  <2> QED
    BY <2>2, <2>3, <2>4, CollectKeeps
<1>4. CASE PageFails
  BY <1>4, GiveUpKeeps DEF PageFails
<1> QED
  BY <1>2, <1>3, <1>4

LEMMA QuestionStep ==
  ASSUME QInv, [QueriesNext]_queryVars
  PROVE  QInv'
<1>1. /\ QueriesTypeOK /\ Listing
      /\ answer # None => question = "answered"
  BY DEF QInv, AnswersAreRight
<1>2. CASE UNCHANGED queryVars
  BY <1>2 DEF QInv, queryVars, listing, AnswersAreRight, QueriesTypeOK,
     Listing, From, ListIsOneView, RangesAreTheList, Listed,
     UnavailableIsTemporary, MetadataIsComplete
<1>3. CASE Mint
  <2>1. /\ question = "tokens" /\ answer' = None /\ view \subseteq view'
        /\ view' \subseteq Token
        /\ UNCHANGED <<question, provider, continuation, seen, page, tokens,
                       tries, failed, initially, sound>>
    BY <1>1, <1>3 DEF Mint, listing, QueriesTypeOK
  <2>2. QueriesTypeOK'
    BY <1>1, <2>1 DEF QueriesTypeOK
  <2>3. Listing'
    <3>1. \A t \in view : t \in From(provider, continuation)' <=>
                          t \in From(provider, continuation)
      BY <2>1 DEF From
    <3>2. From(provider, continuation) \subseteq view
      BY DEF From
    <3> QED
      BY <1>1, <2>1, <3>1, <3>2 DEF Listing
  <2> QED
    BY <2>1, <2>2, <2>3, Unanswered DEF QInv, AnswersAreRight
<1>4. CASE List
  <2>1. CASE question' = "tokens" /\ Fresh
    <3>1. answer' = None /\ provider' = provider /\ failed' = failed
      BY <1>1, <1>4, <2>1 DEF List
    <3> QED
      BY <1>1, <2>1, <3>1, BeginsWithNothing DEF QueriesTypeOK
  <2>2. CASE question' = "answered" /\ answer' = Refused("400")
             /\ UNCHANGED <<view, listing, initially, sound>>
    <3>1. QueriesTypeOK' /\ Listing'
      BY <1>1, <1>4, <2>2 DEF List, QueriesTypeOK, listing, Listing
    <3>2. Refused("400") # Refused("503")
          /\ DOMAIN Refused("400") = {"status"}
      BY DEF Refused
    <3> QED
      BY <2>2, <3>1, <3>2 DEF QInv, AnswersAreRight, ListIsOneView, RangesAreTheList,
         Listed, UnavailableIsTemporary, MetadataIsComplete
  <2> QED
    BY <1>4, <2>1, <2>2 DEF List
<1>5. CASE AskMetadata
  <2>1. QueriesTypeOK'
    BY <1>1, <1>5, QueryConstants
       DEF AskMetadata, QueriesTypeOK, Contracts, Provider
  <2>2. Listing' /\ answer' = None
    BY <1>1, <1>5 DEF AskMetadata, Listing, Contracts
  <2> QED
    BY <2>1, <2>2, Unanswered DEF QInv, AnswersAreRight
<1>6. CASE AlchemyRetry
  <2>1. /\ answer' = None
        /\ UNCHANGED <<view, question, provider, continuation, seen, page, tokens,
                       failed, initially, sound>>
    BY <1>1, <1>6 DEF AlchemyRetry, Contracts
  <2>2. QueriesTypeOK'
    BY <1>1, <1>6, QueryConstants DEF AlchemyRetry, QueriesTypeOK
  <2>3. Listing'
    BY <1>1, <2>1 DEF Listing, From
  <2> QED
    BY <2>1, <2>2, <2>3, Unanswered DEF QInv, AnswersAreRight
<1>7. CASE RespondToQuery
  <2>1. answer' = None /\ Listing'
    BY <1>7 DEF RespondToQuery, Listing
  <2>2. QueriesTypeOK'
    BY <1>1, <1>7, QueryConstants, FS_EmptySet
       DEF RespondToQuery, QueriesTypeOK, Provider
  <2> QED
    BY <2>1, <2>2, Unanswered DEF QInv, AnswersAreRight
<1> QED
  BY <1>2, <1>3, <1>4, <1>5, <1>6, <1>7, PageStepKeeps, MetadataStepKeeps
     DEF QueriesNext, AdvanceQuery

(* Whatever the providers do, an answer is what a client may take it for.    *)
THEOREM AnswersRight == QueriesSpec => []AnswersAreRight
<1>1. QueriesInit => QInv
  BY InitQInv
<1>2. QInv /\ [QueriesNext]_queryVars => QInv'
  BY QuestionStep
<1>3. QInv => AnswersAreRight
  BY DEF QInv
<1> QED
  BY <1>1, <1>2, <1>3, PTL DEF QueriesSpec

(* A provider that is given up by the bounds has shown more than they allow:  *)
(* what it has shown are as many tokens of its view.                         *)
LEMMA RefusedIsLarge ==
  ASSUME QInv, PageArrives, sound, failed' # failed
  PROVE  Cardinality(view) > Reach[provider]
<1> DEFINE S == From(provider, continuation)
           items == PageOf(provider, continuation)
           next == NextOf(provider, continuation)
           old == Values(tokens)
           new == FirstFrom(provider, continuation)
           n == Len(tokens) + Len(items)
           k == PageSize[provider]
<1>1. /\ QueriesTypeOK /\ question = "tokens"
      /\ Listing
  BY DEF QInv, AnswersAreRight, PageArrives
<1>2. /\ old \subseteq view /\ old \cap S = {}
      /\ Len(tokens) = Cardinality(old)
      /\ Len(tokens) >= (page - 1) * k
      /\ seen # {} => continuation # None
      /\ \A x \in seen : x.no <= continuation.no
  BY <1>1 DEF Listing
<1>3. /\ new \subseteq S
      /\ next # None => /\ next \in Id /\ next.no \in S /\ Cardinality(new) = k
                        /\ continuation # None => next.no > continuation.no
                        /\ From(provider, next) = S \ new
      /\ Len(items) = Cardinality(new)
  BY <1>1, PageOfView, PageIsWritten
<1>4. /\ S \subseteq view /\ view \in SUBSET Token /\ Token \subseteq Nat
      /\ IsFiniteSet(view) /\ provider \in {"transpose", "alchemy"}
      /\ Len(tokens) \in Nat /\ page \in Nat /\ k \in Nat
      /\ MaxPages \in Nat /\ MaxTokens \in Nat
      /\ continuation # None => continuation.no \in Nat
  <2>1. S \subseteq view
    BY DEF From
  <2>2. view \in SUBSET Token /\ IsFiniteSet(Token) /\ Token \subseteq Nat
    BY <1>1, QueryConstants DEF QueriesTypeOK
  <2>3. IsFiniteSet(view)
    BY <2>2, FS_Subset
  <2>4. Len(tokens) \in Nat /\ page \in Nat /\ provider \in {"transpose", "alchemy"}
    <3>1. tokens \in Seq(Id) /\ page \in 0..MaxPages /\ provider \in Provider
      BY <1>1 DEF QueriesTypeOK
    <3> QED
      BY <3>1, QueryConstants DEF Provider
  <2>5. continuation # None => continuation.no \in Nat
    BY <1>1, QueryConstants DEF QueriesTypeOK
  <2>6. k \in Nat /\ MaxPages \in Nat /\ MaxTokens \in Nat
    BY <2>4, QueryConstants DEF Provider
  <2> HIDE DEF S, k
  <2> QED
    BY <2>1, <2>2, <2>3, <2>4, <2>5, <2>6
<1>5. n > MaxTokens \/ (next # None /\ (next \in seen \/ page = MaxPages))
  BY <1>1 DEF PageArrives, Collect
<1> HIDE DEF S, items, next, old, new
<1>6. ~(next # None /\ next \in seen)
  <2> SUFFICES ASSUME next # None, next \in seen PROVE FALSE
    OBVIOUS
  <2>1. next.no \in S /\ continuation # None
        /\ next.no > continuation.no /\ next.no <= continuation.no
    BY <1>2, <1>3
  <2>2. next.no \in Nat /\ continuation.no \in Nat
    BY <1>4, <2>1
  <2> QED
    BY <2>1, <2>2
<1>7. /\ IsFiniteSet(old \cup new) /\ Cardinality(old \cup new) = n
      /\ n \in Nat /\ n <= Cardinality(view)
      /\ Cardinality(view) \in Nat
  <2>1. old \cap new = {} /\ old \in SUBSET view /\ new \in SUBSET view
    BY <1>2, <1>3, <1>4
  <2>2. IsFiniteSet(old) /\ IsFiniteSet(new)
    BY <1>4, <2>1, FS_Subset
  <2>3. /\ IsFiniteSet(old \cup new)
        /\ Cardinality(old \cup new) = Cardinality(old) + Cardinality(new) - 0
    BY <2>1, <2>2, FS_Union, FS_EmptySet
  <2>4. old \cup new \in SUBSET view
    BY <2>1
  <2>5. /\ Cardinality(old) \in Nat /\ Cardinality(new) \in Nat
        /\ Cardinality(view) \in Nat
    BY <1>4, <2>2, FS_CardinalityType
  <2>6. Cardinality(old \cup new) <= Cardinality(view)
    BY <1>4, <2>4, FS_Subset
  <2>7. Len(tokens) = Cardinality(old) /\ Len(items) = Cardinality(new)
    BY <1>2, <1>3
  <2> QED
    BY <2>3, <2>5, <2>6, <2>7
<1>8. MaxPages * k <= MaxTokens
  BY <1>1, BoundsInProportion DEF QueriesTypeOK
<1>9. /\ provider = "transpose" => Reach[provider] = MaxPages * k - 1
      /\ provider = "alchemy" => Reach[provider] = MaxPages * k
  BY <1>1, QueryConstants DEF Reach, Provider
<1> HIDE DEF k
<1>10. MaxPages * k \in Nat
  BY <1>4
<1>11. CASE n > MaxTokens
  BY <1>4, <1>7, <1>8, <1>9, <1>10, <1>11
<1>12. CASE next # None /\ page = MaxPages
  <2>1. (page - 1) * k + k = MaxPages * k /\ (page - 1) * k \in Int
    BY <1>4, <1>12
  <2>2. n >= MaxPages * k
    BY <1>2, <1>3, <1>4, <1>10, <1>12, <2>1
  <2>3. CASE provider = "transpose"
    BY <1>7, <1>9, <1>10, <2>2, <2>3
  <2>4. CASE provider = "alchemy"
    <3>1. next.no \notin old \cup new
      <4>1. next.no \in From(provider, next)
        <5>1. next.no \in view /\ next.no \in Nat
          BY <1>3, <1>4, <1>12
        <5> QED
          BY <5>1, <2>4 DEF From
      <4> QED
        BY <1>2, <1>3, <1>12, <4>1
    <3>2. Cardinality((old \cup new) \cup {next.no}) = n + 1
      BY <1>7, <3>1, FS_AddElement
    <3>3. (old \cup new) \cup {next.no} \in SUBSET view
      BY <1>2, <1>3, <1>4, <1>12
    <3>4. n + 1 <= Cardinality(view)
      BY <1>4, <3>2, <3>3, FS_Subset
    <3> QED
      BY <1>7, <1>9, <1>10, <2>2, <2>4, <3>4
  <2> QED
    BY <1>4, <2>3, <2>4
<1> QED
  BY <1>5, <1>6, <1>11, <1>12

(* The bounds refuse only a provider that has more than they allow.          *)
THEOREM BoundsRefuseLarge == QueriesSpec => BoundsRefuseOnlyLarge
<1>1. QueriesInit => QInv
  BY InitQInv
<1>2. QInv /\ [QueriesNext]_queryVars => QInv'
  BY QuestionStep
<1>3. QInv /\ [QueriesNext]_queryVars =>
        [PageArrives /\ sound /\ failed' # failed =>
           Cardinality(view) > Reach[provider]]_queryVars
  BY RefusedIsLarge
<1> QED
  BY <1>1, <1>2, <1>3, PTL DEF QueriesSpec, BoundsRefuseOnlyLarge
==============================================================================
