------------------------ MODULE TransferIndexingProofs ------------------------
(***************************************************************************)
(* Proofs about TransferIndexing for every chain, every number of          *)
(* downloads and every page size that a block's logs fit in.               *)
(***************************************************************************)
EXTENDS TransferIndexing, FiniteSetTheorems, WellFoundedInduction, TLAPS

(* The logs of a type before a block have rows. *)
KnownBelow(t, b) == \A k \in Log(t) : Chain[t][k] < b => k \in saved[t]

(* The logs of a type that a download needs have rows. *)
Whole(d, t) == \A i \in Log(t) : Chain[t][i] <= Target[d] => i \in saved[t]

(* Where a download goes on, and what it has behind it. *)
Indexing(d) ==
  /\ KnownBelow(TypeOf(d), from[d])
  /\ \/ key[d] = 0
     \/ key[d] \in saved[TypeOf(d)] /\ Chain[TypeOf(d)][key[d]] = from[d]
  /\ \A s \in 1..step[d] - 1 : Whole(d, Types[s])

(* A page that is to be saved leaves no gap. *)
PageExtends(d) ==
  /\ page[d] \subseteq Log(TypeOf(d))
  /\ \A i \in page[d] : 1..i \subseteq saved[TypeOf(d)] \cup page[d]

(* What is true of one download. *)
Sound(d) ==
  /\ \A t \in Type : KnownBelow(t, latest[d][t])
  /\ phase[d] \in {"fetch", "save"} => Indexing(d)
  /\ phase[d] = "save" => PageExtends(d)
  /\ phase[d] = "execute" => \A t \in Type : Whole(d, t)
  /\ phase[d] = "done" =>
       read[d] = [t \in Type |-> {i \in Log(t) : Chain[t][i] <= Target[d]}]

(* The inductive invariant. *)
IInv == TypeOK /\ HistoryHasNoGaps /\ \A d \in Download : Sound(d)
-------------------------------------------------------------------------------
(* The types and their logs. *)
LEMMA Constants ==
  /\ \A t \in Type : Len(Chain[t]) \in Nat /\ Log(t) \subseteq Nat \ {0}
  /\ \A t \in Type : \A i \in Log(t) : Chain[t][i] \in Nat
  /\ Len(Types) \in {1, 2}
  /\ \A s \in 1..Len(Types) : Types[s] \in Type
  /\ \A t \in Type : Log(t) = {} \/ \E s \in 1..Len(Types) : Types[s] = t
<1> USE ConstantsAssumption DEF Type, Log
<1>1. \A t \in Type : Chain[t] \in Seq(Nat)
  OBVIOUS
<1>2. CASE Types = <<"single">>
  BY <1>1, <1>2
<1>3. CASE Types = <<"batch", "single">>
  BY <1>1, <1>3
<1> QED
  BY <1>2, <1>3

(* The last log of a page or of the table. *)
LEMMA LastExists ==
  ASSUME NEW t \in Type, NEW logs \in SUBSET Log(t), logs # {}
  PROVE  LastOf(logs) \in logs /\ \A k \in logs : k <= LastOf(logs)
<1> DEFINE n == Len(Chain[t])
           Above == {(i + 1)..n : i \in logs}
<1>1. n \in Nat /\ logs \subseteq 1..n
  BY Constants DEF Log
<1>2. IsFiniteSet(1..n)
  BY <1>1, FS_Interval
<1>3. IsWellFoundedOn(StrictSubsetOrdering(1..n), SUBSET (1..n))
  BY <1>2, FS_StrictSubsetOrderingWellFounded, FS_FiniteSubsetsOfFinite
<1>4. Above \subseteq SUBSET (1..n) /\ Above # {}
  BY <1>1
<1>5. PICK x \in Above :
        \A y \in Above : ~(<<y, x>> \in StrictSubsetOrdering(1..n))
  BY <1>3, <1>4, WFMin
<1>6. PICK i \in logs : x = (i + 1)..n
  BY <1>5
<1>7. \A k \in logs : k <= i
  <2> SUFFICES ASSUME NEW k \in logs, k > i PROVE FALSE
    BY <1>1
  <2>1. (k + 1)..n \subseteq (i + 1)..n /\ (k + 1)..n # (i + 1)..n
    <3>1. k \in (i + 1)..n /\ k \notin (k + 1)..n
      BY <1>1
    <3> QED
      BY <1>1, <3>1
  <2>2. (k + 1)..n \in Above
    OBVIOUS
  <2> QED
    BY <1>4, <1>5, <1>6, <2>1, <2>2 DEF StrictSubsetOrdering
<1> QED
  BY <1>7 DEF LastOf

(* The first log of those a page may have. *)
LEMMA FirstExists ==
  ASSUME NEW t \in Type, NEW logs \in SUBSET Log(t), logs # {}
  PROVE  \E i \in logs : \A k \in logs : i <= k
<1> DEFINE n == Len(Chain[t])
           Upto == {1..i : i \in logs}
<1>1. n \in Nat /\ logs \subseteq 1..n
  BY Constants DEF Log
<1>2. IsFiniteSet(1..n)
  BY <1>1, FS_Interval
<1>3. IsWellFoundedOn(StrictSubsetOrdering(1..n), SUBSET (1..n))
  BY <1>2, FS_StrictSubsetOrderingWellFounded, FS_FiniteSubsetsOfFinite
<1>4. Upto \subseteq SUBSET (1..n) /\ Upto # {}
  BY <1>1
<1>5. PICK x \in Upto :
        \A y \in Upto : ~(<<y, x>> \in StrictSubsetOrdering(1..n))
  BY <1>3, <1>4, WFMin
<1>6. PICK i \in logs : x = 1..i
  BY <1>5
<1>7. \A k \in logs : i <= k
  <2> SUFFICES ASSUME NEW k \in logs, k < i PROVE FALSE
    BY <1>1
  <2>1. 1..k \subseteq 1..i /\ 1..k # 1..i
    <3>1. i \in 1..i /\ i \notin 1..k
      BY <1>1
    <3> QED
      BY <1>1, <3>1
  <2>2. 1..k \in Upto
    OBVIOUS
  <2> QED
    BY <1>4, <1>5, <1>6, <2>1, <2>2 DEF StrictSubsetOrdering
<1> QED
  BY <1>7

(* What is known stays known. *)
LEMMA KnownStays ==
  ASSUME \A t \in Type : saved[t] \subseteq saved'[t], NEW t \in Type
  PROVE  /\ \A b \in Nat : KnownBelow(t, b) => KnownBelow(t, b)'
         /\ \A d \in Download : Whole(d, t) => Whole(d, t)'
  BY DEF KnownBelow, Whole

(* The other downloads do not disturb one. *)
LEMMA OthersKeep ==
  ASSUME TypeOK, NEW d \in Download, Sound(d),
         \A t \in Type : saved[t] \subseteq saved'[t],
         phase'[d] = phase[d], latest'[d] = latest[d], step'[d] = step[d],
         from'[d] = from[d], key'[d] = key[d], page'[d] = page[d],
         read'[d] = read[d]
  PROVE  Sound(d)'
<1>1. TypeOf(d)' = TypeOf(d) /\ TypeOf(d) \in Type
  BY Constants DEF TypeOf, TypeOK
<1>2. \A t \in Type : latest[d][t] \in Nat
  BY DEF TypeOK
<1>3. from[d] \in Nat
  BY DEF TypeOK
<1>4. \A s \in 1..step[d] - 1 : Types[s] \in Type
  BY Constants DEF TypeOK
<1>5. \A t \in Type : KnownBelow(t, latest[d][t])'
  BY <1>2, KnownStays DEF Sound
<1>6. Indexing(d) => Indexing(d)'
  BY <1>1, <1>3, <1>4, KnownStays DEF Indexing
<1>7. PageExtends(d) => PageExtends(d)'
  BY <1>1 DEF PageExtends
<1>8. (\A t \in Type : Whole(d, t)) => (\A t \in Type : Whole(d, t))'
  BY KnownStays
<1> QED
  BY <1>5, <1>6, <1>7, <1>8 DEF Sound
-------------------------------------------------------------------------------
(* The latest block is one below which everything is known. *)
LEMMA LatestIsKnown ==
  ASSUME TypeOK, HistoryHasNoGaps, NEW t \in Type
  PROVE  Latest(t) \in Nat /\ KnownBelow(t, Latest(t))
<1>1. saved[t] \in SUBSET Log(t)
  BY DEF TypeOK
<1>2. CASE saved[t] = {}
  BY <1>2, Constants DEF Latest, KnownBelow
<1>3. CASE saved[t] # {}
  <2> DEFINE last == LastOf(saved[t])
  <2>1. last \in saved[t] /\ last \in Log(t)
    BY <1>1, <1>3, LastExists
  <2>2. Latest(t) = Chain[t][last]
    BY <1>3 DEF Latest, LastOf
  <2>3. 1..last \subseteq saved[t]
    BY <2>1 DEF HistoryHasNoGaps
  <2>4. ASSUME NEW k \in Log(t), Chain[t][k] < Chain[t][last]
        PROVE  k \in saved[t]
    <3>1. ~(last <= k)
      BY <2>1, <2>4, Constants, ConstantsAssumption
    <3>2. k \in 1..last
      BY <2>1, <3>1, Constants DEF Log
    <3> QED
      BY <2>3, <3>2
  <2> QED
    BY <2>1, <2>2, <2>4, Constants DEF KnownBelow
<1> QED
  BY <1>2, <1>3

(* A page has the first of the logs that a download needs from its block on. *)
LEMMA PageIsPrefix ==
  ASSUME TypeOK, NEW d \in Download, KnownBelow(TypeOf(d), from[d])
  PROVE  /\ TypeOf(d) \in Type
         /\ PageOf(d) \in SUBSET Log(TypeOf(d))
         /\ \A i \in PageOf(d) : 1..i \subseteq saved[TypeOf(d)] \cup PageOf(d)
<1> DEFINE t == TypeOf(d)
<1>1. t \in Type /\ from[d] \in Nat /\ Target[d] \in Nat
  BY Constants, ConstantsAssumption DEF TypeOK, TypeOf
<1>2. PageOf(d) \in SUBSET Log(t)
  BY DEF PageOf, LogsFrom
<1>3. ASSUME NEW i \in PageOf(d), NEW k \in 1..i, k \notin saved[t]
      PROVE  k \in PageOf(d)
  <2>1. i \in Log(t) /\ Chain[t][i] <= Target[d]
    BY <1>1, <1>2, Constants DEF PageOf, LogsFrom
  <2>2. k \in Log(t) /\ k <= i
    BY <1>1, <2>1, Constants DEF Log
  <2>3. Chain[t][k] <= Chain[t][i]
    BY <1>1, <2>1, <2>2, ConstantsAssumption
  <2>4. ~(Chain[t][k] < from[d])
    BY <1>3, <2>2 DEF KnownBelow
  <2>5. k \in LogsFrom(d)
    BY <1>1, <2>1, <2>2, <2>3, <2>4, Constants DEF LogsFrom
  <2>6. \A j \in LogsFrom(d) : i - j < PageSize
    BY <1>3 DEF PageOf
  <2>7. \A j \in LogsFrom(d) : k - j < PageSize
    <3> TAKE j \in LogsFrom(d)
    <3>1. i - j < PageSize /\ j \in Nat
      BY <1>1, <2>6, Constants DEF LogsFrom
    <3> QED
      BY <1>1, <2>1, <2>2, <3>1, Constants, ConstantsAssumption
  <2> QED
    BY <2>5, <2>7 DEF PageOf
<1> QED
  BY <1>1, <1>2, <1>3

(* The library ends its pages only when everything up to the target is known: *)
(* a last page that ends like the page before is not full, as it would have   *)
(* to consist of one block's logs.                                            *)
LEMMA ExhaustedIsWhole ==
  ASSUME TypeOK, HistoryHasNoGaps, NEW d \in Download, Indexing(d), Exhausted(d)
  PROVE  Whole(d, TypeOf(d))
<1> DEFINE t == TypeOf(d)
<1>1. /\ t \in Type /\ from[d] \in Nat /\ Target[d] \in Nat /\ PageSize \in Nat
      /\ Log(t) \subseteq Nat \ {0} /\ \A i \in Log(t) : Chain[t][i] \in Nat
  BY SMTT(30), Constants, ConstantsAssumption DEF TypeOK, TypeOf
<1>2. SUFFICES ASSUME NEW i \in Log(t), Chain[t][i] <= Target[d],
                      i \notin saved[t]
               PROVE  FALSE
  BY DEF Whole
<1>3. i \in LogsFrom(d)
  BY <1>1, <1>2 DEF Indexing, KnownBelow, LogsFrom
<1>4. LogsFrom(d) \in SUBSET Log(t) /\ PageOf(d) \in SUBSET Log(t)
  BY DEF LogsFrom, PageOf
<1>5. PageOf(d) # {}
  <2>1. PICK first \in LogsFrom(d) : \A k \in LogsFrom(d) : first <= k
    BY <1>1, <1>3, <1>4, FirstExists
  <2>2. 0 < PageSize - 1
    BY <1>1, <1>2, BlocksFitPages
  <2>3. \A k \in LogsFrom(d) : first - k < PageSize
    BY <1>1, <1>4, <2>1, <2>2
  <2> QED
    BY <2>1, <2>3 DEF PageOf
<1>6. /\ key[d] \in PageOf(d) /\ \A k \in PageOf(d) : k <= key[d]
  BY <1>1, <1>4, <1>5, LastExists DEF Exhausted
<1>7. key[d] \in Log(t) /\ key[d] # 0
  BY <1>1, <1>4, <1>6
<1>8. /\ 1..key[d] \subseteq saved[t] /\ Chain[t][key[d]] = from[d]
  BY <1>1, <1>7 DEF Indexing, HistoryHasNoGaps
<1> DEFINE j == key[d] + 1
<1>9. j \in Log(t) /\ j <= i
  BY SMTT(30), <1>1, <1>2, <1>7, <1>8 DEF Log
<1>10. Chain[t][key[d]] <= Chain[t][j] /\ Chain[t][j] <= Chain[t][i]
  <2>1. key[d] <= j
    BY <1>1, <1>7
  <2>2. \A a, b \in Log(t) : a <= b => Chain[t][a] <= Chain[t][b]
    BY <1>1, ConstantsAssumption
  <2> HIDE DEF j, t
  <2> QED
    BY <1>7, <1>9, <2>1, <2>2
<1>11. j \in LogsFrom(d) /\ j \notin PageOf(d)
  BY <1>1, <1>2, <1>6, <1>7, <1>8, <1>9, <1>10 DEF LogsFrom
<1>12. PICK k \in LogsFrom(d) : ~(j - k < PageSize)
  BY <1>11 DEF PageOf
<1>13. k \in Log(t) /\ k <= key[d] /\ from[d] <= Chain[t][k]
  <2>1. 0 < PageSize - 1
    BY <1>1, <1>2, BlocksFitPages
  <2> QED
    BY <1>1, <1>4, <1>7, <1>12, <2>1 DEF LogsFrom
<1>14. Chain[t][k] = Chain[t][key[d]]
  BY SMTT(30), <1>1, <1>7, <1>8, <1>13, ConstantsAssumption
<1>15. key[d] - k < PageSize - 1
  BY <1>1, <1>7, <1>13, <1>14, BlocksFitPages
<1> QED
  BY <1>1, <1>7, <1>12, <1>13, <1>15
-------------------------------------------------------------------------------
(* Every step keeps the variables typed. *)
LEMMA TypeStep == IInv /\ [Next]_vars => TypeOK'
<1> SUFFICES ASSUME IInv, [Next]_vars PROVE TypeOK'
  OBVIOUS
<1> USE DEF IInv, loop, Goto, Running, Ended, StartingBlock
<1>1. ASSUME NEW d \in Download, Begin(d) PROVE TypeOK'
  BY <1>1 DEF Begin, TypeOK
<1>2. ASSUME NEW d \in Download, AskSingle(d) PROVE TypeOK'
  <2>1. Latest("single") \in Nat
    BY LatestIsKnown DEF Type
  <2>2. latest' \in [Download -> [Type -> Nat]]
    BY <1>2, <2>1 DEF AskSingle, TypeOK
  <2> QED
    BY <1>2, <2>2 DEF AskSingle, TypeOK
<1>3. ASSUME NEW d \in Download PROVE
        [latest[d] EXCEPT !["batch"] = Latest("batch")] \in [Type -> Nat]
  <2>1. Latest("batch") \in Nat
    BY LatestIsKnown DEF Type
  <2> QED
    BY <2>1 DEF TypeOK
<1>4. ASSUME NEW d \in Download, AskBatch(d) PROVE TypeOK'
  <2> DEFINE now == [latest[d] EXCEPT !["batch"] = Latest("batch")]
  <2>1. now \in [Type -> Nat] /\ 1 \in 1..Len(Types) /\ now[Types[1]] \in Nat
    <3>1. now \in [Type -> Nat]
      BY <1>3
    <3>2. 1 \in 1..Len(Types) /\ Types[1] \in Type
      BY Constants
    <3> HIDE DEF now
    <3> QED
      BY <3>1, <3>2
  <2>2. /\ latest' = [latest EXCEPT ![d] = now]
        /\ starting' = [starting EXCEPT ![d] = now]
        /\ from' = [from EXCEPT ![d] = now[Types[1]]]
    BY <1>4 DEF AskBatch
  <2> HIDE DEF now
  <2>3. /\ latest' \in [Download -> [Type -> Nat]]
        /\ starting' \in [Download -> [Type -> Nat] \cup {None}]
        /\ from' \in [Download -> Nat]
    BY <2>1, <2>2 DEF TypeOK
  <2> QED
    BY SMTT(30), <1>4, <2>1, <2>3 DEF AskBatch, TypeOK
<1>5. ASSUME NEW d \in Download, RefuseReprocessing(d) PROVE TypeOK'
  <2>1. latest' \in [Download -> [Type -> Nat]]
    BY <1>3, <1>5 DEF RefuseReprocessing, TypeOK
  <2> QED
    BY <1>5, <2>1 DEF RefuseReprocessing, TypeOK
<1>6. ASSUME NEW d \in Download, Fetch(d) PROVE TypeOK'
  <2>1. PageOf(d) \in SUBSET Nat /\ PageOf(d) # {}
    <3>1. TypeOf(d) \in Type
      BY Constants DEF TypeOf, TypeOK
    <3> QED
      BY <1>6, <3>1, Constants DEF Fetch, Exhausted, PageOf, LogsFrom
  <2> QED
    BY <1>6, <2>1 DEF Fetch, TypeOK
<1>7. ASSUME NEW d \in Download, Save(d) PROVE TypeOK'
  <2> DEFINE t == TypeOf(d)
             last == LastOf(page[d])
  <2>1. t \in Type /\ page[d] \in SUBSET Log(t) /\ page[d] # {}
    BY <1>7, Constants DEF Save, Sound, PageExtends, TypeOf, TypeOK
  <2>2. last \in Log(t)
    BY <2>1, LastExists
  <2>3. last \in Nat /\ Chain[t][last] \in Nat
    BY <2>1, <2>2, Constants
  <2>4. /\ saved' = [saved EXCEPT ![t] = saved[t] \cup page[d]]
        /\ key' = [key EXCEPT ![d] = last]
        /\ from' = [from EXCEPT ![d] = Chain[t][last]]
    BY <1>7 DEF Save, SaveContractTransfers
  <2> HIDE DEF t, last
  <2>5. /\ \A u \in Type : saved'[u] \subseteq Log(u)
        /\ DOMAIN saved' = Type
        /\ key' \in [Download -> Nat] /\ from' \in [Download -> Nat]
    BY <2>1, <2>3, <2>4 DEF TypeOK
  <2> QED
    BY SMTT(30), <1>7, <2>5 DEF Save, TypeOK
<1>8. ASSUME NEW d \in Download, NextType(d) PROVE TypeOK'
  <2>1. step[d] + 1 \in 1..Len(Types)
    BY <1>8, Constants DEF NextType, AnotherType, TypeOK
  <2>2. latest[d][Types[step[d] + 1]] \in Nat
    BY <2>1, Constants DEF TypeOK
  <2> QED
    BY <1>8, <2>1, <2>2 DEF NextType, TypeOK
<1>9. ASSUME NEW d \in Download, Indexed(d) PROVE TypeOK'
  BY <1>9 DEF Indexed, TypeOK
<1>10. ASSUME NEW d \in Download, Execute(d) PROVE TypeOK'
  <2>1. ContractTransfers(Target[d]) \in [Type -> SUBSET Nat]
    BY Constants DEF ContractTransfers, TypeOK
  <2> HIDE DEF Type
  <2>2. ContractTransfers(Target[d]) # None
    BY <2>1, ConstantsAssumption
  <2> QED
    BY <1>10, <2>1, <2>2 DEF Execute, TypeOK
<1>11. ASSUME NEW d \in Download, Fails(d) PROVE TypeOK'
  BY <1>11 DEF Fails, TypeOK
<1>12. ASSUME NEW d \in Download, Retry(d) PROVE TypeOK'
  <2>1. retries[d] + 1 \in 0..MaxRetries
    BY <1>12, ConstantsAssumption DEF Retry, TypeOK
  <2> QED
    BY <1>12, <2>1 DEF Retry, TypeOK
<1>13. CASE UNCHANGED vars
  BY <1>13 DEF vars, TypeOK
<1> QED
  BY <1>1, <1>2, <1>4, <1>5, <1>6, <1>7, <1>8, <1>9, <1>10, <1>11, <1>12, <1>13
     DEF Next, Advance

(* Rows are added and never removed, and leave no gap. *)
LEMMA HistoryStep ==
  IInv /\ [Next]_vars => /\ \A t \in Type : saved[t] \subseteq saved'[t]
                        /\ HistoryHasNoGaps'
<1> SUFFICES ASSUME IInv, [Next]_vars
             PROVE  /\ \A t \in Type : saved[t] \subseteq saved'[t]
                    /\ HistoryHasNoGaps'
  OBVIOUS
<1>1. CASE saved' = saved
  BY <1>1 DEF IInv, HistoryHasNoGaps
<1>2. ASSUME NEW d \in Download, Save(d)
      PROVE  /\ \A t \in Type : saved[t] \subseteq saved'[t]
             /\ HistoryHasNoGaps'
  <2> DEFINE t == TypeOf(d)
  <2>1. t \in Type /\ PageExtends(d)
    BY <1>2, Constants DEF Save, IInv, Sound, TypeOf, TypeOK
  <2>2. saved' = [saved EXCEPT ![t] = saved[t] \cup page[d]]
    BY <1>2 DEF Save, SaveContractTransfers
  <2>3. saved'[t] = saved[t] \cup page[d]
    BY <2>1, <2>2 DEF IInv, TypeOK
  <2>4. \A u \in Type \ {t} : saved'[u] = saved[u]
    BY <2>2 DEF IInv, TypeOK
  <2>5. \A i \in saved'[t] : 1..i \subseteq saved'[t]
    BY <2>1, <2>3 DEF PageExtends, IInv, HistoryHasNoGaps
  <2> HIDE DEF t
  <2> QED
    BY <2>1, <2>3, <2>4, <2>5 DEF IInv, HistoryHasNoGaps
<1> QED
  BY <1>1, <1>2
     DEF Next, Advance, vars, Begin, AskSingle, AskBatch, RefuseReprocessing,
         Fetch, NextType, Indexed, Execute, Fails, Retry

(* A step of one download leaves the state of the others alone. *)
LEMMA Frame ==
  ASSUME TypeOK, NEW d \in Download, Begin(d) \/ Advance(d) \/ Retry(d),
         NEW e \in Download, e # d
  PROVE  /\ phase'[e] = phase[e] /\ latest'[e] = latest[e]
         /\ step'[e] = step[e] /\ from'[e] = from[e] /\ key'[e] = key[e]
         /\ page'[e] = page[e] /\ read'[e] = read[e]
<1> USE DEF TypeOK, Goto, loop
<1>1. CASE Begin(d) \/ Indexed(d) \/ Retry(d) \/ Fails(d) \/ Execute(d)
  BY <1>1 DEF Begin, Indexed, Retry, Fails, Execute
<1>2. CASE AskSingle(d) \/ AskBatch(d) \/ RefuseReprocessing(d)
  BY <1>2 DEF AskSingle, AskBatch, RefuseReprocessing
<1>3. CASE Fetch(d) \/ Save(d) \/ NextType(d)
  BY <1>3 DEF Fetch, Save, NextType
<1> QED
  BY <1>1, <1>2, <1>3 DEF Advance

(* Every step of a download keeps its own state sound. *)
LEMMA OwnStep ==
  ASSUME IInv, TypeOK', \A t \in Type : saved[t] \subseteq saved'[t],
         NEW d \in Download, Begin(d) \/ Advance(d) \/ Retry(d)
  PROVE  Sound(d)'
<1> USE DEF Goto, loop, Running, Ended
<1>1. TypeOK /\ HistoryHasNoGaps /\ Sound(d)
  BY DEF IInv
<1>2. TypeOf(d) \in Type
  BY <1>1, Constants DEF TypeOf, TypeOK
<1>3. ASSUME latest' = latest
      PROVE  \A t \in Type : KnownBelow(t, latest[d][t])'
  <2>1. \A t \in Type : latest[d][t] \in Nat
    BY <1>1 DEF TypeOK
  <2> QED
    BY <1>1, <1>3, <2>1, KnownStays DEF Sound
<1>4. CASE Begin(d) \/ Retry(d) \/ Fails(d)
  <2>1. latest' = latest /\ phase'[d] \in {"single", "failed"}
    BY <1>1, <1>4 DEF Begin, Retry, Fails, TypeOK
  <2> QED
    BY <1>3, <2>1 DEF Sound
<1>5. CASE AskSingle(d) \/ AskBatch(d) \/ RefuseReprocessing(d)
  <2>1. saved' = saved
    BY <1>5 DEF AskSingle, AskBatch, RefuseReprocessing
  <2>2. PICK t \in Type : latest'[d] = [latest[d] EXCEPT ![t] = Latest(t)]
    BY <1>1, <1>5
       DEF AskSingle, AskBatch, RefuseReprocessing, TypeOK, Type
  <2>3. \A u \in Type :
          latest'[d][u] = IF u = t THEN Latest(t) ELSE latest[d][u]
    BY <1>1, <2>2 DEF TypeOK
  <2>4. \A u \in Type : KnownBelow(u, latest[d][u])'
    <3>1. \A u \in Type : KnownBelow(u, latest'[d][u])
      BY <1>1, <2>3, LatestIsKnown DEF Sound
    <3> QED
      BY <2>1, <3>1 DEF KnownBelow
  <2>5. CASE AskSingle(d) \/ RefuseReprocessing(d)
    <3>1. phase'[d] \in {"batch", "refused"}
      BY <1>1, <2>5 DEF AskSingle, RefuseReprocessing, TypeOK
    <3> QED
      BY <2>4, <3>1 DEF Sound
  <2>6. CASE AskBatch(d)
    <3>1. /\ phase'[d] = "fetch" /\ step'[d] = 1 /\ key'[d] = 0
          /\ from'[d] = latest'[d][Types[1]]
      BY <1>1, <2>6 DEF AskBatch, StartingBlock, TypeOK
    <3>2. TypeOf(d)' = Types[1] /\ Types[1] \in Type
      BY <3>1, Constants DEF TypeOf
    <3>3. KnownBelow(TypeOf(d), from[d])'
      BY <2>4, <3>1, <3>2
    <3>4. Indexing(d)'
      BY <3>1, <3>3 DEF Indexing
    <3> QED
      BY <2>4, <3>1, <3>4 DEF Sound
  <2> QED
    BY <1>5, <2>5, <2>6
<1>6. CASE Fetch(d)
  <2>1. /\ phase[d] = "fetch" /\ phase'[d] = "save"
        /\ page'[d] = PageOf(d)
        /\ UNCHANGED <<saved, latest, step, from, key, read>>
    BY <1>1, <1>6 DEF Fetch, TypeOK
  <2>2. TypeOf(d)' = TypeOf(d)
    BY <2>1 DEF TypeOf
  <2>3. Indexing(d)'
    BY <1>1, <2>1, <2>2 DEF Sound, Indexing, KnownBelow, Whole
  <2>4. PageExtends(d)'
    BY <1>1, <2>1, <2>2, PageIsPrefix DEF Sound, Indexing, PageExtends
  <2> QED
    BY <1>3, <2>1, <2>3, <2>4 DEF Sound
<1>7. CASE Save(d)
  <2> DEFINE t == TypeOf(d)
             last == LastOf(page[d])
  <2>1. /\ phase[d] = "save" /\ phase'[d] \in {"fetch", "single"}
        /\ latest' = latest /\ step' = step
        /\ key'[d] = last /\ from'[d] = Chain[t][last]
        /\ saved' = [saved EXCEPT ![t] = saved[t] \cup page[d]]
    BY <1>1, <1>7 DEF Save, SaveContractTransfers, TypeOK
  <2>2. saved'[t] = saved[t] \cup page[d]
    BY <1>1, <1>2, <2>1 DEF TypeOK
  <2>3. PageExtends(d) /\ Indexing(d) /\ page[d] # {}
    BY <1>1, <2>1 DEF Sound, TypeOK
  <2>4. last \in page[d] /\ last \in Log(t)
    BY <1>2, <2>3, LastExists DEF PageExtends
  <2>5. TypeOf(d)' = t
    BY <2>1 DEF TypeOf
  <2>6. ASSUME NEW k \in Log(t), Chain[t][k] < Chain[t][last]
        PROVE  k \in saved'[t]
    <3>1. ~(last <= k)
      <4>1. Chain[t][k] \in Nat /\ Chain[t][last] \in Nat
        BY <1>2, <2>4, Constants
      <4>2. last <= k => Chain[t][last] <= Chain[t][k]
        BY <1>2, <2>4, ConstantsAssumption
      <4> QED
        BY <2>6, <4>1, <4>2
    <3>2. k \in 1..last
      BY <1>2, <2>4, <3>1, Constants DEF Log
    <3> QED
      BY <2>2, <2>3, <2>4, <3>2 DEF PageExtends
  <2>7. KnownBelow(TypeOf(d), from[d])'
    BY <2>1, <2>5, <2>6 DEF KnownBelow
  <2>8. \A s \in 1..step[d] - 1 : Whole(d, Types[s])'
    <3>1. \A s \in 1..step[d] - 1 : Types[s] \in Type
      BY <1>1, Constants DEF TypeOK
    <3> QED
      BY <2>3, <3>1, KnownStays DEF Indexing
  <2>9. Indexing(d)'
    BY <2>1, <2>2, <2>4, <2>5, <2>7, <2>8 DEF Indexing
  <2> QED
    BY <1>3, <2>1, <2>9 DEF Sound
<1>8. CASE NextType(d) \/ Indexed(d)
  <2>1. /\ phase[d] = "fetch" /\ Exhausted(d)
        /\ UNCHANGED <<saved, latest, read>>
    BY <1>8 DEF NextType, Indexed
  <2>2. \A s \in 1..step[d] : Whole(d, Types[s])
    <3>1. Indexing(d)
      BY <1>1, <2>1 DEF Sound
    <3>2. Whole(d, TypeOf(d))
      BY <1>1, <2>1, <3>1, ExhaustedIsWhole
    <3>3. step[d] \in Nat /\ \A s \in 1..step[d] : s = step[d] \/ s \in 1..step[d] - 1
      BY <1>1, Constants DEF TypeOK
    <3> QED
      BY <3>1, <3>2, <3>3 DEF Indexing, TypeOf
  <2>3. CASE NextType(d)
    <3>1. /\ phase'[d] = "fetch" /\ step'[d] = step[d] + 1 /\ key'[d] = 0
          /\ from'[d] = latest[d][Types[step[d] + 1]]
          /\ step[d] + 1 \in 1..Len(Types)
      BY <1>1, <2>1, <2>3, Constants
         DEF NextType, AnotherType, StartingBlock, TypeOK
    <3>2. TypeOf(d)' = Types[step[d] + 1] /\ Types[step[d] + 1] \in Type
      BY <3>1, Constants DEF TypeOf
    <3>3. KnownBelow(TypeOf(d), from[d])'
      BY <1>3, <2>1, <3>1, <3>2
    <3>4. \A s \in 1..step'[d] - 1 : Whole(d, Types[s])'
      <4>1. step'[d] - 1 = step[d]
        BY <1>1, <3>1, Constants DEF TypeOK
      <4> QED
        BY <2>1, <2>2, <4>1 DEF Whole
    <3> QED
      BY <1>3, <2>1, <3>1, <3>3, <3>4 DEF Sound, Indexing
  <2>4. CASE Indexed(d)
    <3>1. phase'[d] = "execute" /\ step[d] = Len(Types)
      BY <1>1, <2>4, Constants DEF Indexed, AnotherType, TypeOK
    <3>2. \A u \in Type : Whole(d, u)
      BY <2>2, <3>1, Constants DEF Whole
    <3>3. \A u \in Type : Whole(d, u)'
      BY <2>1, <3>2 DEF Whole
    <3> QED
      BY <1>3, <2>1, <3>1, <3>3 DEF Sound
  <2> QED
    BY <1>8, <2>3, <2>4
<1>9. CASE Execute(d)
  <2>1. /\ phase[d] = "execute" /\ phase'[d] = "done" /\ latest' = latest
        /\ read'[d] = ContractTransfers(Target[d])
    BY <1>1, <1>9 DEF Execute, TypeOK
  <2>2. \A u \in Type : Whole(d, u) /\ saved[u] \subseteq Log(u)
    BY <1>1, <2>1 DEF Sound, TypeOK
  <2>3. ContractTransfers(Target[d])
          = [u \in Type |-> {i \in Log(u) : Chain[u][i] <= Target[d]}]
    BY <2>2 DEF ContractTransfers, Whole
  <2> QED
    BY <1>3, <2>1, <2>3 DEF Sound
<1> QED
  BY <1>4, <1>5, <1>6, <1>7, <1>8, <1>9 DEF Advance

(* The invariant is inductive. *)
LEMMA InductiveInvariant == Spec => []IInv
<1>1. Init => IInv
  <2> SUFFICES ASSUME Init PROVE IInv
    OBVIOUS
  <2>1. TypeOK
    <3>1. 1 \in 1..Len(Types) /\ 0 \in 0..MaxRetries
      <4>1. 1 \in 1..Len(Types)
        BY Constants
      <4>2. 0 \in 0..MaxRetries
        BY ConstantsAssumption
      <4> QED
        BY <4>1, <4>2
    <3>2. \A t \in Type : saved[t] \subseteq Log(t)
      BY DEF Init
    <3>3. DOMAIN saved = Type
      BY DEF Init
    <3> QED
      BY <3>1, <3>2, <3>3 DEF Init, TypeOK, Running, Ended
  <2>2. \A d \in Download : Sound(d)
    BY Constants DEF Init, Sound, KnownBelow
  <2> QED
    BY <2>1, <2>2 DEF Init, IInv, HistoryHasNoGaps
<1>2. IInv /\ [Next]_vars => IInv'
  <2> SUFFICES ASSUME IInv, [Next]_vars PROVE IInv'
    OBVIOUS
  <2>1. TypeOK' /\ HistoryHasNoGaps' /\ \A t \in Type : saved[t] \subseteq saved'[t]
    BY TypeStep, HistoryStep
  <2>2. ASSUME NEW e \in Download PROVE Sound(e)'
    <3>1. TypeOK /\ Sound(e)
      BY DEF IInv
    <3>2. CASE UNCHANGED vars
      BY <2>1, <3>1, <3>2, OthersKeep DEF vars, loop
    <3>3. ASSUME NEW d \in Download, Begin(d) \/ Advance(d) \/ Retry(d)
          PROVE  Sound(e)'
      <4>1. CASE d = e
        BY <2>1, <3>3, <4>1, OwnStep
      <4>2. CASE d # e
        BY <2>1, <3>1, <3>3, <4>2, Frame, OthersKeep
      <4> QED
        BY <4>1, <4>2
    <3> QED
      BY <3>2, <3>3 DEF Next
  <2> QED
    BY <2>1, <2>2 DEF IInv
<1> QED
  BY <1>1, <1>2, PTL DEF Spec
-------------------------------------------------------------------------------
(* The variables keep their types: what is saved are logs of the chain, and a  *)
(* download carries the blocks and pages that the code's locals hold.          *)
THEOREM TypeCorrect == Spec => []TypeOK
  BY InductiveInvariant, PTL DEF IInv

(* Whichever downloads index at a time, fail and start again: there is no gap  *)
(* below a log that is saved, so that getLatestTransferBlockNo is a block to   *)
(* start from.                                                                 *)
THEOREM NoGaps == Spec => []HistoryHasNoGaps
  BY InductiveInvariant, PTL DEF IInv

(* The snapshot of a download is made of all transfers up to its block and of  *)
(* no others, as long as no block fills a page (doWithoutAlchemy,              *)
(* getContractTransfersOrdered).                                               *)
THEOREM WholeSnapshots == Spec => []SnapshotsAreWhole
<1>1. IInv => SnapshotsAreWhole
  BY DEF IInv, Sound, SnapshotsAreWhole
<1> QED
  BY <1>1, InductiveInvariant, PTL

-------------------------------------------------------------------------------
(* What a continuation has behind it: its invocation, or the one before it,    *)
(* started where startingBlocks says, and is still there or at a block that    *)
(* has been saved since.                                                       *)
Reached(d) ==
  from[d] = starting[d][TypeOf(d)]
    \/ \E i \in saved[TypeOf(d)] : Chain[TypeOf(d)][i] = from[d]

Onward(d) ==
  /\ phase[d] = "idle" => starting[d] = None
  /\ phase[d] \in {"fetch", "save"} => latest[d] = starting[d]
  /\ phase[d] = "save" => \A i \in page[d] : from[d] <= Chain[TypeOf(d)][i]
  /\ starting[d] # None /\ phase[d] \in {"fetch", "save", "single", "batch"} =>
       starting[d][TypeOf(d)] <= from[d] /\ Reached(d)
  /\ starting[d] # None /\ phase[d] = "batch" /\ TypeOf(d) = "single" =>
       from[d] = starting[d]["single"] \/ from[d] <= latest[d]["single"]

(* A saved log is at the latest block or below it. *)
LEMMA LatestIsLatest ==
  ASSUME TypeOK, NEW t \in Type, NEW i \in saved[t]
  PROVE  Latest(t) \in Nat /\ Chain[t][i] \in Nat /\ Chain[t][i] <= Latest(t)
<1> DEFINE last == LastOf(saved[t])
<1>1. saved[t] \in SUBSET Log(t) /\ saved[t] # {}
  BY DEF TypeOK
<1>2. last \in saved[t] /\ i <= last
  BY <1>1, LastExists
<1>3. Latest(t) = Chain[t][last]
  BY <1>1 DEF Latest, LastOf
<1>4. i \in Log(t) /\ last \in Log(t)
  BY <1>1, <1>2
<1> QED
  BY <1>2, <1>3, <1>4, Constants, ConstantsAssumption

(* Rows are only added, so that what one download has reached is not undone by *)
(* another one.                                                                *)
LEMMA OnwardStays ==
  ASSUME NEW d \in Download, TypeOK, Onward(d),
         \A t \in Type : saved[t] \subseteq saved'[t],
         phase'[d] = phase[d], latest'[d] = latest[d], step'[d] = step[d],
         from'[d] = from[d], page'[d] = page[d], starting'[d] = starting[d]
  PROVE  Onward(d)'
<1>1. TypeOf(d)' = TypeOf(d) /\ TypeOf(d) \in Type
  BY Constants DEF TypeOf, TypeOK
<1>2. Reached(d) => Reached(d)'
  BY <1>1 DEF Reached
<1> QED
  BY <1>1, <1>2 DEF Onward

(* Every step of a download keeps what it has behind it. *)
LEMMA OnwardStep ==
  ASSUME IInv, IInv', \A t \in Type : saved[t] \subseteq saved'[t],
         NEW d \in Download, Onward(d), Begin(d) \/ Advance(d) \/ Retry(d)
  PROVE  Onward(d)'
<1> DEFINE t == TypeOf(d)
<1>1. TypeOK /\ TypeOK' /\ Sound(d)
  BY DEF IInv
<1>2. t \in Type /\ starting[d] \in [Type -> Nat] \cup {None} /\ from[d] \in Nat
  BY <1>1, Constants DEF TypeOf, TypeOK
<1>3. CASE Begin(d) \/ Retry(d)
  <2>1. phase'[d] = "single" /\ starting'[d] = None
    BY <1>1, <1>3 DEF Begin, Retry, Goto, TypeOK, Onward
  <2> QED
    BY <2>1 DEF Onward
<1>4. CASE Indexed(d) \/ Execute(d) \/ Fails(d) \/ RefuseReprocessing(d)
  <2>1. phase'[d] \notin {"idle", "fetch", "save", "single", "batch"}
    BY <1>1, <1>4 DEF Indexed, Execute, Fails, RefuseReprocessing, Goto, TypeOK
  <2> QED
    BY <2>1 DEF Onward
<1>5. CASE AskSingle(d)
  <2>1. /\ phase[d] = "single" /\ phase'[d] = "batch"
        /\ latest'[d]["single"] = Latest("single")
        /\ UNCHANGED <<saved, starting, step, from>>
    BY <1>1, <1>5 DEF AskSingle, Goto, loop, Type, TypeOK
  <2>2. TypeOf(d)' = t /\ Reached(d)' = Reached(d)
    BY <2>1 DEF TypeOf, Reached
  <2>3. ASSUME starting[d] # None, t = "single"
        PROVE  from[d] = starting[d]["single"] \/ from[d] <= Latest("single")
    <3>1. Reached(d)
      BY <2>1, <2>3 DEF Onward
    <3> QED
      BY <1>1, <1>2, <2>3, <3>1, LatestIsLatest DEF Reached
  <2> QED
    BY <2>1, <2>2, <2>3 DEF Onward
<1>6. CASE AskBatch(d)
  <2>1. /\ phase'[d] = "fetch" /\ latest'[d] = starting'[d] /\ step'[d] = 1
        /\ from'[d] = starting'[d][Types[1]]
    BY <1>1, <1>6 DEF AskBatch, StartingBlock, Goto, TypeOK
  <2>2. TypeOf(d)' = Types[1] /\ from'[d] \in Nat
    BY <1>1, <2>1 DEF TypeOf, TypeOK
  <2>3. Reached(d)'
    BY <2>1, <2>2 DEF Reached
  <2> QED
    BY <2>1, <2>2, <2>3 DEF Onward
<1>7. CASE Fetch(d)
  <2>1. /\ phase[d] = "fetch" /\ phase'[d] = "save" /\ page'[d] = PageOf(d)
        /\ UNCHANGED <<saved, starting, latest, step, from>>
    BY <1>1, <1>7 DEF Fetch, Goto, TypeOK
  <2>2. TypeOf(d)' = t /\ Reached(d)' = Reached(d)
    BY <2>1 DEF TypeOf, Reached
  <2>3. \A i \in PageOf(d) : from[d] <= Chain[t][i]
    BY <1>2, Constants, ConstantsAssumption DEF PageOf, LogsFrom
  <2> QED
    BY <2>1, <2>2, <2>3 DEF Onward
<1>8. CASE Save(d)
  <2> DEFINE last == LastOf(page[d])
  <2>1. /\ phase[d] = "save" /\ phase'[d] \in {"fetch", "single"}
        /\ UNCHANGED <<starting, latest, step>>
        /\ from'[d] = Chain[t][last]
        /\ saved' = [saved EXCEPT ![t] = saved[t] \cup page[d]]
    BY <1>1, <1>8 DEF Save, SaveContractTransfers, Goto, TypeOK
  <2>2. page[d] # {} /\ page[d] \in SUBSET Log(t)
    BY <1>1, <2>1 DEF Sound, PageExtends, TypeOK
  <2>3. last \in page[d]
    BY <1>2, <2>2, LastExists
  <2>4. last \in saved'[t]
    BY <1>1, <1>2, <2>1, <2>3 DEF TypeOK
  <2>5. TypeOf(d)' = t
    BY <2>1 DEF TypeOf
  <2>6. Reached(d)'
    BY <2>1, <2>4, <2>5 DEF Reached
  <2>7. starting[d] # None => starting[d][t] <= from'[d]
    <3>1. from[d] <= Chain[t][last] /\ Chain[t][last] \in Nat
      BY <1>2, <2>1, <2>2, <2>3, Constants DEF Onward
    <3> SUFFICES ASSUME starting[d] # None PROVE starting[d][t] <= from'[d]
      OBVIOUS
    <3>2. starting[d][t] <= from[d] /\ starting[d][t] \in Nat
      BY <1>2, <2>1 DEF Onward
    <3> QED
      BY <1>2, <2>1, <3>1, <3>2
  <2> QED
    BY <2>1, <2>5, <2>6, <2>7 DEF Onward
<1>9. CASE NextType(d)
  <2>1. /\ phase[d] = "fetch" /\ UNCHANGED <<phase, starting, latest>>
        /\ step'[d] = step[d] + 1
        /\ from'[d] = latest[d][Types[step[d] + 1]]
    BY <1>1, <1>9 DEF NextType, StartingBlock, TypeOK
  <2>2. TypeOf(d)' = Types[step[d] + 1] /\ latest[d] = starting[d]
    BY <2>1 DEF TypeOf, Onward
  <2>3. from'[d] = starting'[d][TypeOf(d)'] /\ from'[d] \in Nat
    BY <1>1, <2>1, <2>2 DEF TypeOK
  <2>4. Reached(d)'
    BY <2>3 DEF Reached
  <2> QED
    BY <2>1, <2>2, <2>3, <2>4 DEF Onward
<1> QED
  BY <1>3, <1>4, <1>5, <1>6, <1>7, <1>8, <1>9 DEF Advance

(* All downloads have what Onward says behind them. *)
LEMMA OnwardInvariant == Spec => []\A d \in Download : Onward(d)
<1> DEFINE All == \A d \in Download : Onward(d)
<1>1. Init => All
  BY DEF Init, Onward
<1>2. IInv /\ IInv' /\ All /\ [Next]_vars => All'
  <2> SUFFICES ASSUME IInv, IInv', All, [Next]_vars, NEW e \in Download
               PROVE  Onward(e)'
    OBVIOUS
  <2>1. TypeOK /\ \A t \in Type : saved[t] \subseteq saved'[t]
    BY HistoryStep DEF IInv
  <2>2. CASE UNCHANGED vars
    BY <2>1, <2>2, OnwardStays DEF vars, loop
  <2>3. ASSUME NEW d \in Download, Begin(d) \/ Advance(d) \/ Retry(d)
        PROVE  Onward(e)'
    <3>1. CASE d = e
      BY <2>1, <2>3, <3>1, OnwardStep
    <3>2. CASE d # e
      <4>1. starting'[e] = starting[e]
        BY <2>1, <2>3, <3>2
           DEF Advance, Begin, AskSingle, AskBatch, RefuseReprocessing, Fetch, Save,
               NextType, Indexed, Execute, Fails, Retry, TypeOK
      <4> QED
        BY <2>1, <2>3, <3>2, <4>1, Frame, OnwardStays
    <3> QED
      BY <3>1, <3>2
  <2> QED
    BY <2>2, <2>3 DEF Next
<1> QED
  BY <1>1, <1>2, InductiveInvariant, PTL DEF Spec

(* A continuation is refused only if the invocation before it got no further   *)
(* than the block it started at: had it saved a page that ends later, the      *)
(* latest block of its type would be later, too (the check of start).          *)
THEOREM RefusalsAreJustified == Spec => RefusedWithoutProgress
<1> DEFINE All == \A d \in Download : Onward(d)
           Justified == \A d \in Download :
                          phase[d] = "batch" /\ phase'[d] = "refused" =>
                            from[d] = starting[d][TypeOf(d)]
<1>1. IInv /\ All /\ [Next]_vars => [Justified]_vars
  <2> SUFFICES ASSUME IInv, All, [Next]_vars, NEW d \in Download,
                      phase[d] = "batch", phase'[d] = "refused"
               PROVE  from[d] = starting[d][TypeOf(d)]
    OBVIOUS
  <2>1. TypeOK
    BY DEF IInv
  <2>2. RefuseReprocessing(d)
    <3>1. phase'[d] # phase[d]
      OBVIOUS
    <3>2. PICK e \in Download : Begin(e) \/ Advance(e) \/ Retry(e)
      BY <3>1 DEF Next, vars
    <3>3. e = d
      BY <2>1, <3>1, <3>2, Frame
    <3> QED
      BY <2>1, <3>2, <3>3
         DEF Advance, Begin, AskSingle, AskBatch, Fetch, Save, NextType, Indexed,
             Execute, Fails, Retry, Goto, TypeOK
  <2> DEFINE t == TypeOf(d)
  <2>3. starting[d] # None /\ starting[d] = [latest[d] EXCEPT !["batch"] = Latest("batch")]
    BY <2>2 DEF RefuseReprocessing, Reprocessed
  <2>4. t \in Type /\ from[d] \in Nat /\ starting[d] \in [Type -> Nat]
    <3>1. t \in Type /\ from[d] \in Nat
      BY <2>1, Constants DEF TypeOf, TypeOK
    <3>2. starting[d] \in [Type -> Nat] \cup {None}
      BY <2>1 DEF TypeOK
    <3> QED
      BY <2>3, <3>1, <3>2
  <2>5. starting[d][t] <= from[d] /\ Reached(d)
    BY <2>3 DEF Onward
  <2>6. CASE t = "batch"
    <3>1. starting[d][t] = Latest("batch")
      BY <2>1, <2>3, <2>6 DEF TypeOK, Type
    <3> QED
      BY <2>1, <2>4, <2>5, <2>6, <3>1, LatestIsLatest DEF Reached
  <2>7. CASE t = "single"
    <3>1. starting[d]["single"] = latest[d]["single"]
      BY <2>1, <2>3 DEF TypeOK, Type
    <3>2. from[d] = starting[d]["single"] \/ from[d] <= latest[d]["single"]
      BY <2>3, <2>7 DEF Onward
    <3> QED
      BY <2>4, <2>5, <2>7, <3>1, <3>2
  <2> QED
    BY <2>4, <2>6, <2>7 DEF Type
<1> QED
  BY <1>1, InductiveInvariant, OnwardInvariant, PTL DEF Spec, RefusedWithoutProgress

-------------------------------------------------------------------------------
(* Every step extends what is known by a whole stretch, finishes a download    *)
(* that knows everything up to its block, or does neither.                     *)
LEMMA HistoryNext ==
  IInv /\ IInv' /\ [Next]_vars
    => [History!Next]_(<<saved, {d \in Download : phase[d] = "done"}>>)
<1> DEFINE done == {d \in Download : phase[d] = "done"}
<1> SUFFICES ASSUME IInv, IInv', [Next]_vars
             PROVE  History!Next \/ (saved' = saved /\ done' = done)
  OBVIOUS
<1> USE DEF IInv, TypeOK, Goto
<1>1. ASSUME NEW d \in Download,
             \/ Begin(d) \/ AskSingle(d) \/ AskBatch(d) \/ RefuseReprocessing(d)
             \/ Fetch(d) \/ NextType(d) \/ Indexed(d) \/ Fails(d) \/ Retry(d)
      PROVE  saved' = saved /\ done' = done
  BY <1>1 DEF Begin, AskSingle, AskBatch, RefuseReprocessing, Fetch, NextType,
              Indexed, Fails, Retry, Running
<1>2. ASSUME NEW d \in Download, Save(d) PROVE History!Next
  <2> DEFINE t == TypeOf(d)
             n == LastOf(saved'[t])
  <2>1. t \in Type
    BY Constants DEF TypeOf
  <2>2. /\ page[d] # {} /\ done' = done
        /\ saved' = [saved EXCEPT ![t] = saved[t] \cup page[d]]
    BY <1>2 DEF Save, SaveContractTransfers
  <2>3. saved'[t] = saved[t] \cup page[d]
    BY <2>1, <2>2
  <2>4. saved'[t] \in SUBSET Log(t) /\ saved'[t] # {}
    BY <2>1, <2>2, <2>3
  <2>5. n \in saved'[t] /\ \A k \in saved'[t] : k <= n
    BY <2>1, <2>4, LastExists
  <2>6. n \in Log(t) /\ saved'[t] = 1..n
    <3>1. 1..n \subseteq saved'[t]
      BY <2>1, <2>5 DEF HistoryHasNoGaps
    <3>2. saved'[t] \subseteq 1..n
      BY <2>1, <2>4, <2>5, Constants DEF Log
    <3> QED
      BY <2>4, <2>5, <3>1, <3>2
  <2>7. saved' = [saved EXCEPT ![t] = 1..n]
    BY <2>2, <2>3, <2>6
  <2>8. saved[t] \subseteq 1..n
    BY <2>3, <2>6
  <2> HIDE DEF t, n
  <2>9. History!Extend(t)
    BY <2>2, <2>6, <2>7, <2>8 DEF History!Extend, Log
  <2> QED
    BY <2>1, <2>9 DEF History!Next
<1>3. ASSUME NEW d \in Download, Execute(d) PROVE History!Next
  <2>1. \A t \in Type : Whole(d, t)
    BY <1>3 DEF Execute, Sound
  <2>2. saved' = saved /\ done' = done \cup {d}
    BY <1>3 DEF Execute
  <2>3. History!Finish(d)
    BY <2>1, <2>2 DEF History!Finish, Whole, Log
  <2> QED
    BY <2>3 DEF History!Next
<1>4. CASE UNCHANGED vars
  BY <1>4 DEF vars
<1> QED
  BY <1>1, <1>2, <1>3, <1>4 DEF Next, Advance

(* Indexing implements TransferHistory: what is known of a contract only       *)
(* grows, without gaps, and a download is done only when everything up to its  *)
(* block is known.                                                             *)
THEOREM HistoryImplemented == Spec => ImplementsHistory
<1>1. Init => History!Init
  BY DEF Init, History!Init
<1>2. IInv /\ IInv' /\ [Next]_vars => [History!Next]_History!vars
  BY HistoryNext DEF History!vars
<1> QED
  BY <1>1, <1>2, InductiveInvariant, PTL
     DEF Spec, ImplementsHistory, History!Spec
===============================================================================
