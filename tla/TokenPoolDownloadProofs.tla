----------------------- MODULE TokenPoolDownloadProofs -----------------------
(***************************************************************************)
(* Proofs about TokenPoolDownload for every set of workers and targets,    *)
(* all snapshots, block ranges, lengths of time and bounds.                *)
(***************************************************************************)
EXTENDS TokenPoolDownload, TLAPS

(* Sending a message adds exactly that message to the queue. *)
LEMMA BagAdd ==
  ASSUME NEW B, IsABag(B), NEW m
  PROVE  /\ IsABag(B (+) SetToBag({m}))
         /\ BagToSet(B (+) SetToBag({m})) = BagToSet(B) \cup {m}
BY DEF IsABag, BagToSet, SetToBag, (+)

(* Receiving a message adds none. *)
LEMMA BagRemove ==
  ASSUME NEW B, IsABag(B), NEW m \in BagToSet(B)
  PROVE  /\ IsABag(B (-) SetToBag({m}))
         /\ BagToSet(B (-) SetToBag({m})) \subseteq BagToSet(B)
BY DEF IsABag, BagToSet, SetToBag, (-)

(* Every write of the repository yields a row. *)
LEMMA RowWrites ==
  ASSUME TypeOK
  PROVE  /\ \A t \in Target : Prepared(t) \in Row
         /\ Claimed \in Row /\ Requeued \in Row
         /\ Heartbeat \in Row /\ FailureRecorded \in Row
         /\ Completed \in Row /\ Errored \in Row
<1> SUFFICES row \in Row => /\ \A t \in Target : Prepared(t) \in Row
                            /\ Claimed \in Row /\ Requeued \in Row /\ Heartbeat \in Row
                            /\ FailureRecorded \in Row /\ Completed \in Row
                            /\ Errored \in Row
  BY DEF TypeOK
<1>0. 0 \in 0..StaleAfter
  BY ConstantsAssumption
<1>w. ASSUME row \in Row, NEW s \in Status, NEW t \in Target, NEW n \in Nat
      PROVE  [row EXCEPT !.status = s, !.target = t, !.failures = n, !.age = 0] \in Row
  BY <1>w, <1>0 DEF Row
<1>e. ASSUME row \in Row
      PROVE  /\ row.status \in Status /\ row.target \in Target
             /\ row.failures \in Nat /\ row.failures + 1 \in Nat
             /\ row = [status |-> row.status, target |-> row.target,
                       failures |-> row.failures, age |-> row.age]
  BY <1>e DEF Row
<1>1. row \in Row => \A t \in Target : Prepared(t) \in Row
  BY <1>w, <1>e, <1>0 DEF Prepared, Row, Status
<1>2. row \in Row => Claimed \in Row
  BY <1>w, <1>e, <1>0 DEF Claimed, Row, Status
<1>3. row \in Row => Requeued \in Row
  BY <1>w, <1>e, <1>0 DEF Requeued, Row, Status
<1>4. row \in Row => Heartbeat \in Row
  BY <1>0 DEF Heartbeat, Row
<1>5. row \in Row => FailureRecorded \in Row
  BY DEF FailureRecorded, Row
<1>6. row \in Row => Completed \in Row
  BY <1>w, <1>e, <1>0 DEF Completed, Row, Status
<1>7. row \in Row => Errored \in Row
  BY <1>w, <1>e, <1>0 DEF Errored, Row, Status
<1> QED
  BY <1>1, <1>2, <1>3, <1>4, <1>5, <1>6, <1>7

(* The constant messages and states are well typed. *)
LEMMA Constants ==
  /\ FreshState \in State
  /\ NewRequest \in Message /\ NoMessage \in Message
  /\ SomeTarget \in Target
BY ConstantsAssumption DEF SomeTarget, FreshState, NewRequest, NoMessage, State, Message, Blocks

(* The queue stays a bag of messages when one is sent. *)
LEMMA PublishType ==
  ASSUME TypeOK, NEW m \in Message, Publish(m)
  PROVE  /\ BagToSet(queue') \subseteq Message /\ IsABag(queue')
         /\ BagToSet(queue') = BagToSet(queue) \cup {m}
<1>1. IsABag(queue) /\ BagToSet(queue) \subseteq Message
  BY DEF TypeOK
<1>2. queue' = queue (+) SetToBag({m})
  BY DEF Publish
<1>3. /\ IsABag(queue (+) SetToBag({m}))
      /\ BagToSet(queue (+) SetToBag({m})) = BagToSet(queue) \cup {m}
  BY <1>1, BagAdd
<1> QED
  BY <1>1, <1>2, <1>3

(* ... and when one is returned to it. *)
LEMMA BackToQueueType ==
  ASSUME TypeOK, NEW w \in Worker, BackToQueue(held[w])
  PROVE  BagToSet(queue') \subseteq Message /\ IsABag(queue')
<1>1. held[w] \in Message
  BY DEF TypeOK
<1>2. CASE held[w].left > 0
  <2>1. [held[w] EXCEPT !.left = @ - 1] \in Message
    BY <1>1, <1>2, ConstantsAssumption DEF Message
  <2>2. Publish([held[w] EXCEPT !.left = @ - 1])
    BY <1>2 DEF BackToQueue
  <2> QED
    BY <2>1, <2>2, PublishType
<1>3. CASE ~(held[w].left > 0)
  BY <1>3 DEF BackToQueue, TypeOK
<1> QED
  BY <1>2, <1>3

(* The starting block of a run is well typed. *)
LEMMA StartType ==
  ASSUME TypeOK, NEW t \in Target
  PROVE  /\ ContractOf[t] \in Contract
         /\ tip[ContractOf[t]] \in 0..TargetBlock
         /\ [of |-> ContractOf[t], at |-> tip[ContractOf[t]]] \in StartingBlock
BY ConstantsAssumption DEF TypeOK, StartingBlock

LEMMA TypeStep == TypeOK /\ [Next]_vars => TypeOK'
<1> SUFFICES ASSUME TypeOK, [Next]_vars PROVE TypeOK'
  OBVIOUS
<1> USE ConstantsAssumption, RowWrites, Constants
        DEF rowVars, workerVars, apiVars, Phases, ApiPhases
<1>1. ASSUME NEW c \in Client, AddPrepare(c) PROVE TypeOK'
  BY <1>1 DEF TypeOK, AddPrepare, ApiGoto
<1>2. ASSUME NEW c \in Client, AddPublish(c) PROVE TypeOK'
  BY <1>2, PublishType DEF TypeOK, AddPublish, ApiGoto
<1>3. ASSUME NEW c \in Client, AddCommit(c) PROVE TypeOK'
  BY <1>3 DEF TypeOK, AddCommit, ApiGoto
<1>4. ASSUME NEW c \in Client, AddRollback(c) PROVE TypeOK'
  BY <1>4 DEF TypeOK, AddRollback, ApiGoto
<1>5. ASSUME NEW c \in Client, RetryCheck(c) PROVE TypeOK'
  BY <1>5 DEF TypeOK, RetryCheck, ApiGoto
<1>6. ASSUME NEW c \in Client, RetryRecord(c) PROVE TypeOK'
  BY <1>6 DEF TypeOK, RetryRecord, ApiGoto
<1>7. ASSUME NEW c \in Client, RetryPrepare(c) PROVE TypeOK'
  BY <1>7 DEF TypeOK, RetryPrepare, ApiGoto
<1>8. ASSUME NEW c \in Client, RetryPublish(c) PROVE TypeOK'
  BY <1>8, PublishType DEF TypeOK, RetryPublish, ApiGoto
<1>9. ASSUME NEW c \in Client, RetryAbort(c) PROVE TypeOK'
  BY <1>9 DEF TypeOK, RetryAbort, ApiGoto
<1>10. ASSUME NEW w \in Worker, Deliver(w) PROVE TypeOK'
  <2>1. PICK m \in BagToSet(queue) :
          /\ queue' = queue (-) SetToBag({m})
          /\ held' = [held EXCEPT ![w] = m]
          /\ state' = [state EXCEPT ![w] = [runs   |-> m.runs + 1,
                                            blocks |-> m.blocks]]
          /\ phase' = [phase EXCEPT ![w] = IF m.runs = Len(m.blocks)
                                             THEN "delivered" ELSE "throwing"]
    BY <1>10 DEF Deliver
  <2>2. m \in Message
    BY <2>1 DEF TypeOK
  <2>3. IsABag(queue') /\ BagToSet(queue') \subseteq Message
    <3>1. IsABag(queue) /\ BagToSet(queue) \subseteq Message
      BY DEF TypeOK
    <3> QED
      BY <2>1, <3>1, BagRemove
  <2>4. [runs |-> m.runs + 1, blocks |-> m.blocks] \in State
    BY <2>2 DEF State, Message
  <2>5. /\ held' \in [Worker -> Message] /\ state' \in [Worker -> State]
        /\ phase' \in [Worker -> Phases]
    BY <2>1, <2>2, <2>4 DEF TypeOK
  <2> QED
    BY <1>10, <2>3, <2>5 DEF Deliver, TypeOK
<1>11. ASSUME NEW w \in Worker, Claim(w) PROVE TypeOK'
  BY <1>11 DEF TypeOK, Claim, Row
<1>12. ASSUME NEW w \in Worker, NothingToClaim(w) PROVE TypeOK'
  BY <1>12 DEF TypeOK, NothingToClaim, Finish
<1>13. ASSUME NEW w \in Worker, RefuseReprocessing(w) PROVE TypeOK'
  BY <1>13 DEF TypeOK, RefuseReprocessing, Finish
<1>14. ASSUME NEW w \in Worker, Begin(w) PROVE TypeOK'
  <2> DEFINE b == [of |-> ContractOf[entity[w]],
                   at |-> tip[ContractOf[entity[w]]]]
  <2>1. state[w] \in State /\ b \in StartingBlock
    BY StartType DEF TypeOK
  <2>2. Append(state[w].blocks, b) \in Blocks
    <3> HIDE DEF b
    <3> QED
      BY <2>1 DEF State, Blocks
  <2>3. [state[w] EXCEPT !.blocks = Append(@, b)] \in State
    <3> HIDE DEF b
    <3> QED
      BY <2>1, <2>2 DEF State
  <2>4. state' \in [Worker -> State]
    BY <1>14, <2>3 DEF Begin, TypeOK
  <2>5. /\ phase' \in [Worker -> Phases] /\ path' \in [Worker -> {"FAST", "SLOW"}]
        /\ row' = Heartbeat
        /\ UNCHANGED <<tokens, tip, queue, held, entity, elapsed, apiVars>>
    <3>1. PICK p \in {"FAST", "SLOW"} :
            /\ path' = [path EXCEPT ![w] = p]
            /\ phase' = [phase EXCEPT ![w] = IF p = "FAST" THEN "building"
                                                          ELSE "indexing"]
      BY <1>14 DEF Begin
    <3>2. row' = Heartbeat /\ UNCHANGED <<tokens, tip, queue, held, entity, elapsed, apiVars>>
      BY <1>14 DEF Begin
    <3> QED
      BY <3>1, <3>2 DEF TypeOK, Phases
  <2> QED
    BY <2>4, <2>5 DEF TypeOK
<1>15. ASSUME NEW w \in Worker, IndexPage(w) PROVE TypeOK'
  <2>1. tip' \in [Contract -> 0..TargetBlock]
    <3>1. PICK n \in tip[ContractOf[entity[w]]]..TargetBlock :
            tip' = [tip EXCEPT ![ContractOf[entity[w]]] = n]
      BY <1>15 DEF IndexPage
    <3>2. n \in 0..TargetBlock
      BY StartType DEF TypeOK
    <3> QED
      BY <3>1, <3>2 DEF TypeOK
  <2> QED
    BY <1>15, <2>1 DEF TypeOK, IndexPage, Goto
<1>16. ASSUME NEW w \in Worker, IndexDone(w) PROVE TypeOK'
  BY <1>16 DEF TypeOK, IndexDone, Goto
<1>17. ASSUME NEW w \in Worker, Requeue(w) PROVE TypeOK'
  BY <1>17 DEF TypeOK, Requeue, Goto
<1>18. ASSUME NEW w \in Worker, PublishContinuation(w) PROVE TypeOK'
  <2> DEFINE n == [runs |-> state[w].runs, blocks |-> state[w].blocks,
                   left |-> MaxReceives]
  <2>1. n \in Message
    BY ConstantsAssumption DEF TypeOK, State, Message
  <2>2. Publish(n)
    BY <1>18 DEF PublishContinuation
  <2> HIDE DEF n
  <2>3. BagToSet(queue') \subseteq Message /\ IsABag(queue')
    BY <2>1, <2>2, PublishType
  <2> QED
    BY <1>18, <2>3 DEF TypeOK, PublishContinuation, Finish
<1>19. ASSUME NEW w \in Worker, ExecuteSucceeds(w) PROVE TypeOK'
  BY <1>19 DEF TypeOK, ExecuteSucceeds, Goto
<1>20. ASSUME NEW w \in Worker, ExecuteFails(w) PROVE TypeOK'
  BY <1>20 DEF TypeOK, ExecuteFails, Goto, Finish
<1>21. ASSUME NEW w \in Worker, Persist(w) PROVE TypeOK'
  BY <1>21 DEF TypeOK, Persist, Goto, Finish
<1>22. ASSUME NEW w \in Worker, PersistFails(w) PROVE TypeOK'
  BY <1>22 DEF TypeOK, PersistFails, Goto
<1>23. ASSUME NEW w \in Worker, StepFails(w) PROVE TypeOK'
  BY <1>23 DEF TypeOK, StepFails, Goto, Finish
<1>24. ASSUME NEW w \in Worker, ReportError(w) PROVE TypeOK'
  BY <1>24 DEF TypeOK, ReportError, Finish
<1>25. ASSUME NEW w \in Worker, Return(w) PROVE TypeOK'
  BY <1>25 DEF TypeOK, Return, Leave
<1>26. ASSUME NEW w \in Worker, Throw(w) PROVE TypeOK'
  BY <1>26, BackToQueueType DEF TypeOK, Throw, Leave
<1>27. ASSUME NEW w \in Worker, Kill(w) PROVE TypeOK'
  BY <1>27, BackToQueueType DEF TypeOK, Kill, Leave
<1>28. CASE DeleteOperation
  BY <1>28 DEF TypeOK, DeleteOperation
<1>29. CASE Tick
  <2>1. row' \in Row
    BY <1>29 DEF TypeOK, Tick, Row
  <2>2. elapsed' \in [Worker -> 0..LambdaLife]
    BY <1>29 DEF TypeOK, Tick
  <2> QED
    BY <1>29, <2>1, <2>2 DEF TypeOK, Tick
<1>30. CASE UNCHANGED vars
  BY <1>30 DEF TypeOK, vars
<1> QED
  BY <1>1, <1>2, <1>3, <1>4, <1>5, <1>6, <1>7, <1>8, <1>9, <1>10, <1>11, <1>12, <1>13, <1>14, <1>15, <1>16, <1>17, <1>18, <1>19, <1>20, <1>21, <1>22, <1>23, <1>24, <1>25, <1>26, <1>27, <1>28, <1>29, <1>30
     DEF Next, WorkerStep, ClientStep

(* The initial state is well typed. *)
LEMMA InitType == Init => TypeOK
<1> SUFFICES ASSUME Init PROVE TypeOK
  OBVIOUS
<1>1. row \in Row
  BY Constants, ConstantsAssumption DEF Init, Row, Status
<1>2. BagToSet(queue) \subseteq Message /\ IsABag(queue)
  BY DEF Init, EmptyBag, SetToBag, BagToSet, IsABag
<1>3. held \in [Worker -> Message] /\ state \in [Worker -> State]
  BY Constants DEF Init
<1>4. /\ tokens \subseteq UNION {Snapshot[t] : t \in Target}
      /\ tip \in [Contract -> 0..TargetBlock]
      /\ requests \in 0..MaxRequests /\ ops \subseteq Target
      /\ elapsed \in [Worker -> 0..LambdaLife]
      /\ entity \in [Worker -> Target] /\ asked \in [Client -> Target]
  BY ConstantsAssumption, Constants DEF Init
<1>5. /\ phase \in [Worker -> Phases]
      /\ path \in [Worker -> {"FAST", "SLOW"}]
      /\ api \in [Client -> ApiPhases]
      /\ reused \in BOOLEAN /\ (reused => "reuse" \in Faults)
  BY DEF Init, Phases, ApiPhases
<1> QED
  BY <1>1, <1>2, <1>3, <1>4, <1>5 DEF TypeOK

(* The variables keep their types. *)
THEOREM TypeCorrect == Spec => []TypeOK
  BY InitType, TypeStep, PTL DEF Spec

------------------------------------------------------------------------------
(* As long as the id is not posted again with other parameters, everybody   *)
(* who works on the snapshot or asks for it means the target of the row.    *)
LEMMA ReusedForEver == TypeOK /\ [Next]_vars /\ ~reused' => ~reused
<1> SUFFICES ASSUME TypeOK, [Next]_vars, ~reused' PROVE ~reused
  OBVIOUS
<1>1. ASSUME NEW c \in Client, AddPrepare(c) PROVE ~reused
  BY <1>1 DEF AddPrepare, TypeOK
<1>2. ASSUME NEW c \in Client, ClientStep(c), ~AddPrepare(c) PROVE ~reused
  BY <1>2 DEF ClientStep, AddPublish, AddCommit, AddRollback, RetryCheck,
              RetryRecord, RetryPrepare, RetryPublish, RetryAbort
<1>3. ASSUME NEW w \in Worker, WorkerStep(w) \/ Kill(w) PROVE ~reused
  BY <1>3 DEF WorkerStep, Deliver, Claim, NothingToClaim, RefuseReprocessing,
              Begin, IndexPage, IndexDone, Requeue, PublishContinuation,
              ExecuteSucceeds, ExecuteFails, Persist, PersistFails, StepFails,
              ReportError, Return, Throw, Kill, apiVars
<1>4. CASE DeleteOperation \/ Tick \/ UNCHANGED vars
  BY <1>4 DEF DeleteOperation, Tick, apiVars, vars
<1> QED
  BY <1>1, <1>2, <1>3, <1>4 DEF Next

LEMMA OneTargetStep == TypeOK /\ OneTarget /\ [Next]_vars => OneTarget'
<1> SUFFICES ASSUME TypeOK, OneTarget, [Next]_vars, ~reused, ~reused'
             PROVE  OneTarget'
  BY ReusedForEver DEF OneTarget
<1> USE ConstantsAssumption, Constants
        DEF OneTarget, TypeOK, Row, Status, rowVars, workerVars, apiVars, Live
<1>1. ASSUME NEW c \in Client, AddPrepare(c) PROVE OneTarget'
  <2>1. PICK t \in Target :
          /\ row.status = "NONE" \/ t = row.target
          /\ row' = Prepared(t)
          /\ asked' = [asked EXCEPT ![c] = t]
    BY <1>1 DEF AddPrepare
  <2>2. row'.target = t /\ row'.status = "PENDING"
    BY <2>1 DEF Prepared
  <2>3. /\ api' = [api EXCEPT ![c] = "addPrepared"]
        /\ UNCHANGED <<ops, tokens, phase, entity>>
    BY <1>1 DEF AddPrepare, ApiGoto
  <2>4. CASE row.status = "NONE"
    <3>1. \A d \in Client : api[d] \notin {"addPrepared", "addPublished"}
      BY <2>4
    <3> QED
      BY <2>1, <2>2, <2>3, <2>4, <3>1
  <2>5. CASE t = row.target
    BY <2>1, <2>2, <2>3, <2>5
  <2> QED
    BY <2>1, <2>4, <2>5
<1>2. ASSUME NEW c \in Client, AddPublish(c) PROVE OneTarget'
  BY <1>2 DEF AddPublish, ApiGoto
<1>3. ASSUME NEW c \in Client, AddCommit(c) PROVE OneTarget'
  BY <1>3 DEF AddCommit, ApiGoto
<1>4. ASSUME NEW c \in Client, AddRollback(c) PROVE OneTarget'
  BY <1>4 DEF AddRollback, ApiGoto
<1>5. ASSUME NEW c \in Client, RetryCheck(c) PROVE OneTarget'
  BY <1>5 DEF RetryCheck, ApiGoto
<1>6. ASSUME NEW c \in Client, RetryRecord(c) PROVE OneTarget'
  BY <1>6 DEF RetryRecord, ApiGoto, FailureRecorded
<1>7. ASSUME NEW c \in Client, RetryPrepare(c) PROVE OneTarget'
  <2>1. row' = Prepared(row.target)
    BY <1>7 DEF RetryPrepare
  <2> QED
    BY <1>7, <2>1 DEF RetryPrepare, ApiGoto, Prepared
<1>8. ASSUME NEW c \in Client, RetryPublish(c) PROVE OneTarget'
  BY <1>8 DEF RetryPublish, ApiGoto
<1>9. ASSUME NEW c \in Client, RetryAbort(c) PROVE OneTarget'
  BY <1>9 DEF RetryAbort, ApiGoto
<1>10. ASSUME NEW w \in Worker, Deliver(w) PROVE OneTarget'
  BY <1>10 DEF Deliver
<1>11. ASSUME NEW w \in Worker, Claim(w) PROVE OneTarget'
  BY <1>11 DEF Claim, Claimed
<1>12. ASSUME NEW w \in Worker,
              NothingToClaim(w) \/ PublishContinuation(w)
       PROVE  OneTarget'
  BY <1>12 DEF NothingToClaim, PublishContinuation, Finish
<1>13. ASSUME NEW w \in Worker, RefuseReprocessing(w) \/ ReportError(w)
       PROVE  OneTarget'
  <2>1. row' = Errored /\ Finish(w, "throwing") /\ Live(w)
    BY <1>13 DEF RefuseReprocessing, ReportError
  <2>2. UNCHANGED <<tokens, ops, api, asked>>
    BY <1>13 DEF RefuseReprocessing, ReportError
  <2> QED
    BY <2>1, <2>2 DEF Finish, Errored
<1>14. ASSUME NEW w \in Worker, Begin(w) PROVE OneTarget'
  BY <1>14 DEF Begin, Heartbeat
<1>15. ASSUME NEW w \in Worker, IndexPage(w) PROVE OneTarget'
  BY <1>15 DEF IndexPage, Goto, Heartbeat
<1>16. ASSUME NEW w \in Worker, IndexDone(w) \/ ExecuteSucceeds(w)
       PROVE  OneTarget'
  BY <1>16 DEF IndexDone, ExecuteSucceeds, Goto, Heartbeat
<1>17. ASSUME NEW w \in Worker, Requeue(w) PROVE OneTarget'
  BY <1>17 DEF Requeue, Goto, Requeued
<1>18. ASSUME NEW w \in Worker, ExecuteFails(w) PROVE OneTarget'
  BY <1>18 DEF ExecuteFails, Goto, Finish, Errored
<1>19. ASSUME NEW w \in Worker, Persist(w) PROVE OneTarget'
  BY <1>19 DEF Persist, Goto, Finish, Completed
<1>20. ASSUME NEW w \in Worker, PersistFails(w) \/ StepFails(w)
       PROVE  OneTarget'
  BY <1>20 DEF PersistFails, StepFails, Goto, Finish
<1>21. ASSUME NEW w \in Worker, Return(w) \/ Throw(w) \/ Kill(w)
       PROVE  OneTarget'
  BY <1>21 DEF Return, Throw, Kill, Leave
<1>22. CASE DeleteOperation
  BY <1>22 DEF DeleteOperation
<1>23. CASE Tick
  BY <1>23 DEF Tick
<1>24. CASE UNCHANGED vars
  BY <1>24 DEF vars
<1> QED
  BY <1>1, <1>2, <1>3, <1>4, <1>5, <1>6, <1>7, <1>8, <1>9, <1>10, <1>11, <1>12, <1>13, <1>14, <1>15, <1>16, <1>17, <1>18, <1>19, <1>20, <1>21, <1>22, <1>23, <1>24
     DEF Next, WorkerStep, ClientStep

LEMMA InitOneTarget == Init => OneTarget
BY DEF Init, OneTarget, Live

------------------------------------------------------------------------------
(* Neither ExclusiveClaim nor UnfinishedLeavesNothing is inductive: a retry *)
(* must not reset a row somebody works on, which needs RetryStillJustified, *)
(* and staleness justifies it only if whoever has claimed the row would     *)
(* have died before its last heartbeat is that old (HeartbeatsOfTheLiving)  *)
(* and nobody is about to claim it (StaleIsDeserted). All of them hold      *)
(* together with OneTarget.                                                 *)
Inv == ExclusiveClaim /\ CompletedHasSnapshot /\ UnfinishedLeavesNothing
       /\ HeartbeatsOfTheLiving /\ StaleIsDeserted /\ RetryStillJustified

LEMMA IInvStep ==
  ASSUME Calm
  PROVE  IInv /\ [Next]_vars => Inv'
<1> SUFFICES ASSUME IInv, [Next]_vars PROVE Inv'
  OBVIOUS
<1>s. ASSUME Stale PROVE \A w \in Worker : ~Live(w)
  <2> SUFFICES ASSUME NEW w \in Worker, Live(w) PROVE FALSE
    OBVIOUS
  <2>1. row.age <= elapsed[w] /\ elapsed[w] \in 0..LambdaLife
    BY DEF IInv, HeartbeatsOfTheLiving, TypeOK
  <2> QED
    BY <1>s, <2>1, ConstantsAssumption DEF Stale, Calm
<1> USE ConstantsAssumption
        DEF Inv, IInv, TypeOK, Calm, Row, Status, rowVars, workerVars, apiVars,
            ExclusiveClaim, CompletedHasSnapshot, UnfinishedLeavesNothing,
            HeartbeatsOfTheLiving, StaleIsDeserted, RetryStillJustified, Live,
            Stale, Undelivered
<1>1. ASSUME NEW c \in Client, AddPrepare(c) PROVE Inv'
  BY <1>1 DEF AddPrepare, ApiGoto, Prepared, OneTarget
<1>2. ASSUME NEW c \in Client, AddPublish(c) PROVE Inv'
  BY <1>2 DEF AddPublish, ApiGoto
<1>3. ASSUME NEW c \in Client, AddCommit(c) PROVE Inv'
  BY <1>3 DEF AddCommit, ApiGoto
<1>4. ASSUME NEW c \in Client, AddRollback(c) PROVE Inv'
  BY <1>4 DEF AddRollback, ApiGoto
<1>5. ASSUME NEW c \in Client, RetryCheck(c) PROVE Inv'
  BY <1>5 DEF RetryCheck, ApiGoto
<1>6. ASSUME NEW c \in Client, RetryRecord(c) PROVE Inv'
  BY <1>6 DEF RetryRecord, ApiGoto, FailureRecorded
<1>7. ASSUME NEW c \in Client, RetryPrepare(c) PROVE Inv'
  <2>1. \A w \in Worker : ~Live(w)
    <3> HIDE DEF Live
    <3> QED
      BY <1>7, <1>s DEF RetryPrepare
  <2> QED
    BY <1>7, <2>1 DEF RetryPrepare, ApiGoto, Prepared
<1>8. ASSUME NEW c \in Client, RetryPublish(c) PROVE Inv'
  BY <1>8 DEF RetryPublish, ApiGoto
<1>9. ASSUME NEW c \in Client, RetryAbort(c) PROVE Inv'
  BY <1>9 DEF RetryAbort, ApiGoto
<1>10. ASSUME NEW w \in Worker, Deliver(w) PROVE Inv'
  BY <1>10 DEF Deliver
<1>11. ASSUME NEW w \in Worker, Claim(w) PROVE Inv'
  BY <1>11 DEF Claim, Claimed
<1>12. ASSUME NEW w \in Worker, NothingToClaim(w) PROVE Inv'
  BY <1>12 DEF NothingToClaim, Finish
<1>13. ASSUME NEW w \in Worker, RefuseReprocessing(w) PROVE Inv'
  BY <1>13 DEF RefuseReprocessing, Finish, Errored
<1>14. ASSUME NEW w \in Worker, Begin(w) PROVE Inv'
  <2>1. /\ row' = Heartbeat /\ phase[w] = "claimed"
        /\ UNCHANGED <<tokens, queue, elapsed, api, entity>>
        /\ \E p \in {"building", "indexing"} :
             phase' = [phase EXCEPT ![w] = p]
    BY <1>14 DEF Begin
  <2> QED
    BY <2>1 DEF Heartbeat
<1>15. ASSUME NEW w \in Worker, IndexPage(w) PROVE Inv'
  BY <1>15 DEF IndexPage, Goto, Heartbeat
<1>16. ASSUME NEW w \in Worker, IndexDone(w) PROVE Inv'
  BY <1>16 DEF IndexDone, Goto, Heartbeat
<1>17. ASSUME NEW w \in Worker, Requeue(w) PROVE Inv'
  BY <1>17 DEF Requeue, Goto, Requeued
<1>18. ASSUME NEW w \in Worker, PublishContinuation(w) PROVE Inv'
  BY <1>18 DEF PublishContinuation, Finish
<1>19. ASSUME NEW w \in Worker, ExecuteSucceeds(w) PROVE Inv'
  BY <1>19 DEF ExecuteSucceeds, Goto, Heartbeat
<1>20. ASSUME NEW w \in Worker, ExecuteFails(w) PROVE Inv'
  BY <1>20 DEF ExecuteFails, Goto, Finish, Errored
<1>21. ASSUME NEW w \in Worker, Persist(w) PROVE Inv'
  <2>1. Live(w) /\ tokens = {} /\ row.status = "CLAIMED"
    BY <1>21 DEF Persist
  <2>2. tokens' = Snapshot[row.target]
    BY <1>21, <2>1 DEF Persist, OneTarget
  <2>3. row'.status = "COMPLETED" /\ row'.target = row.target /\ row'.age = 0
    BY <1>21 DEF Persist, Completed
  <2>4. /\ phase' = [phase EXCEPT ![w] = "returning"]
        /\ elapsed' = [elapsed EXCEPT ![w] = 0]
    BY <1>21 DEF Persist, Finish
  <2>5. \A v \in Worker : ~Live(v)'
    BY <2>1, <2>4
  <2>6. api' = api
    BY <1>21 DEF Persist
  <2>7. \A c \in Client : api[c] \notin {"checked", "recorded"}
    <3> HIDE DEF Live
    <3> QED
      BY <1>s, <2>1
  <2> HIDE DEF Inv, Live
  <2>8. /\ ExclusiveClaim' /\ CompletedHasSnapshot'
        /\ UnfinishedLeavesNothing' /\ HeartbeatsOfTheLiving'
    BY <2>2, <2>3, <2>5
  <2>9. StaleIsDeserted' /\ RetryStillJustified'
    BY <2>3, <2>6, <2>7
  <2> QED
    BY <2>8, <2>9 DEF Inv
<1>22. ASSUME NEW w \in Worker, PersistFails(w) PROVE Inv'
  BY <1>22 DEF PersistFails, Goto
<1>23. ASSUME NEW w \in Worker, StepFails(w) PROVE Inv'
  BY <1>23 DEF StepFails, Goto, Finish
<1>24. ASSUME NEW w \in Worker, ReportError(w) PROVE Inv'
  BY <1>24 DEF ReportError, Finish, Errored
<1>25. ASSUME NEW w \in Worker, Return(w) PROVE Inv'
  BY <1>25 DEF Return, Leave
<1>26. ASSUME NEW w \in Worker, Throw(w) PROVE Inv'
  BY <1>26 DEF Throw, Leave
<1>27. ASSUME NEW w \in Worker, Kill(w) PROVE Inv'
  BY <1>27 DEF Kill, Leave
<1>28. CASE DeleteOperation
  BY <1>28 DEF DeleteOperation
<1>29. CASE Tick
  BY <1>29 DEF Tick, Running
<1>30. CASE UNCHANGED vars
  BY <1>30 DEF vars
<1> QED
  BY <1>1, <1>2, <1>3, <1>4, <1>5, <1>6, <1>7, <1>8, <1>9, <1>10, <1>11, <1>12, <1>13, <1>14, <1>15, <1>16, <1>17, <1>18, <1>19, <1>20, <1>21, <1>22, <1>23, <1>24, <1>25, <1>26, <1>27, <1>28, <1>29, <1>30
     DEF Next, WorkerStep, ClientStep

(* The inductive invariant holds, when requests come one at a time and the  *)
(* rare faults stay away.                                                   *)
LEMMA InductiveInvariant ==
  ASSUME Calm
  PROVE  Spec => []IInv
<1>1. Init => IInv
  BY InitType, InitOneTarget
     DEF Init, IInv, ExclusiveClaim, CompletedHasSnapshot,
         UnfinishedLeavesNothing, HeartbeatsOfTheLiving, StaleIsDeserted,
         RetryStillJustified, Live
<1>2. IInv /\ [Next]_vars => IInv'
  BY TypeStep, OneTargetStep, IInvStep DEF IInv, Inv, Calm
<1> QED
  BY <1>1, <1>2, PTL DEF Spec

(* Never two invocations work on a snapshot, for any number of lambdas,     *)
(* redeliveries, continuations and retries.                                 *)
THEOREM ClaimIsExclusive ==
  ASSUME Calm
  PROVE  Spec => []ExclusiveClaim
<1>1. IInv => ExclusiveClaim
  BY DEF IInv
<1> QED
  BY <1>1, InductiveInvariant, PTL

(* A snapshot that is not COMPLETED has no owners in token_pool_token, so   *)
(* its retry does not run into duplicate keys.                              *)
THEOREM RetryStartsClean ==
  ASSUME Calm
  PROVE  Spec => []UnfinishedLeavesNothing
<1>1. IInv => UnfinishedLeavesNothing
  BY DEF IInv
<1> QED
  BY <1>1, InductiveInvariant, PTL

------------------------------------------------------------------------------
(* Under the same circumstances the distributed handling of a snapshot      *)
(* implements the abstract job: every step is a step of the job or none.    *)

LEMMA JobStep ==
  ASSUME Calm
  PROVE  IInv /\ [Next]_vars => [Job!JobNext]_Job!jobVars
<1> SUFFICES ASSUME IInv, [Next]_vars
             PROVE  [Job!JobNext]_Job!jobVars
  OBVIOUS
<1> USE DEF Job!JobNext, Job!jobVars, rowVars
<1>1. ASSUME UNCHANGED rowVars PROVE [Job!JobNext]_Job!jobVars
  BY <1>1
<1>2. ASSUME row' = Heartbeat, tokens' = tokens
      PROVE  [Job!JobNext]_Job!jobVars
  BY <1>2 DEF Heartbeat, IInv, TypeOK, Row
<1>3. ASSUME row' = Prepared(row.target) \/ row' = Requeued,
             tokens' = tokens, row.status \notin {"NONE", "COMPLETED"}
      PROVE  Job!Enqueue
  <2>1. CASE row' = Prepared(row.target)
    BY <1>3, <2>1 DEF Job!Enqueue, Prepared, IInv, TypeOK, Row
  <2>2. CASE row' = Requeued
    BY <1>3, <2>2 DEF Job!Enqueue, Requeued, IInv, TypeOK, Row
  <2> QED
    BY <1>3, <2>1, <2>2
<1>4. ASSUME row' = Errored, tokens' = tokens, row.status = "CLAIMED"
      PROVE  Job!Fail
  BY <1>4 DEF Job!Fail, Errored, IInv, TypeOK, Row
<1>5. ASSUME NEW w \in Worker, Live(w) PROVE row.status = "CLAIMED"
  BY <1>5 DEF IInv, ExclusiveClaim
<1>6. ASSUME NEW c \in Client, ClientStep(c)
      PROVE  [Job!JobNext]_Job!jobVars
  <2>1. CASE AddPrepare(c)
    <3>1. Job!Request
      BY <2>1 DEF Job!Request, AddPrepare, Prepared, Calm, IInv, TypeOK, Row
    <3> QED
      BY <3>1
  <2>2. CASE RetryPrepare(c)
    <3>1. row.status \notin {"NONE", "COMPLETED"}
      BY <2>2 DEF RetryPrepare, IInv, RetryStillJustified, Stale
    <3>2. row' = Prepared(row.target)
      BY <2>2 DEF RetryPrepare, IInv, OneTarget, TypeOK, Calm
    <3> QED
      BY <2>2, <3>1, <3>2, <1>3 DEF RetryPrepare
  <2>3. CASE RetryRecord(c)
    <3>1. row.status \in {"PENDING", "CLAIMED"}
      BY <2>3 DEF RetryRecord, IInv, RetryStillJustified, Stale
    <3>2. Job!GiveUp
      BY <2>3, <3>1
         DEF Job!GiveUp, RetryRecord, FailureRecorded, IInv, TypeOK, Row
    <3> QED
      BY <3>2
  <2>4. CASE \/ AddPublish(c) \/ AddCommit(c) \/ AddRollback(c)
             \/ RetryCheck(c) \/ RetryPublish(c) \/ RetryAbort(c)
    <3>1. UNCHANGED rowVars
      BY <2>4 DEF AddPublish, AddCommit, AddRollback, RetryCheck,
                  RetryPublish, RetryAbort
    <3> QED
      BY <3>1, <1>1
  <2> QED
    BY <1>6, <2>1, <2>2, <2>3, <2>4 DEF ClientStep
<1>7. ASSUME NEW w \in Worker, WorkerStep(w) \/ Kill(w)
      PROVE  [Job!JobNext]_Job!jobVars
  <2>1. CASE Claim(w)
    <3>1. Job!Start
      BY <2>1 DEF Job!Start, Claim, Claimed, IInv, TypeOK, Row
    <3> QED
      BY <3>1
  <2>2. CASE RefuseReprocessing(w) \/ ExecuteFails(w) \/ ReportError(w)
    <3>1. Live(w) /\ row' = Errored /\ tokens' = tokens
      BY <2>2 DEF RefuseReprocessing, ExecuteFails, ReportError, Live
    <3> QED
      BY <3>1, <1>4, <1>5
  <2>3. CASE Requeue(w)
    <3>1. Live(w) /\ row' = Requeued /\ tokens' = tokens
      BY <2>3 DEF Requeue, Live
    <3> QED
      BY <3>1, <1>3, <1>5
  <2>4. CASE Persist(w)
    <3>1. row.status = "CLAIMED"
      BY <2>4, <1>5 DEF Persist, Live
    <3>2. tokens' = Snapshot[row.target]
      BY <2>4, <3>1
         DEF Persist, IInv, UnfinishedLeavesNothing, OneTarget, Live,
             TypeOK, Calm
    <3>3. Job!Finish
      BY <2>4, <3>1, <3>2
         DEF Job!Finish, Persist, Completed, IInv, TypeOK, Row
    <3> QED
      BY <3>3
  <2>5. CASE Begin(w) \/ IndexPage(w) \/ IndexDone(w) \/ ExecuteSucceeds(w)
    <3>1. row' = Heartbeat /\ tokens' = tokens
      BY <2>5 DEF Begin, IndexPage, IndexDone, ExecuteSucceeds
    <3> QED
      BY <3>1, <1>2
  <2>6. CASE \/ Deliver(w) \/ NothingToClaim(w) \/ PublishContinuation(w)
             \/ PersistFails(w) \/ StepFails(w)
             \/ Return(w) \/ Throw(w) \/ Kill(w)
    <3>1. UNCHANGED rowVars
      BY <2>6 DEF Deliver, NothingToClaim, PublishContinuation, PersistFails,
                  StepFails, Return, Throw, Kill
    <3> QED
      BY <3>1, <1>1
  <2> QED
    BY <1>7, <2>1, <2>2, <2>3, <2>4, <2>5, <2>6 DEF WorkerStep
<1>8. CASE DeleteOperation
  BY <1>8, <1>1 DEF DeleteOperation
<1>9. CASE Tick
  BY <1>9 DEF Tick, IInv, TypeOK, Row
<1>10. CASE UNCHANGED vars
  BY <1>10, <1>1 DEF vars
<1> QED
  BY <1>6, <1>7, <1>8, <1>9, <1>10 DEF Next

(* TokenPoolDownload implements SnapshotJob. *)
THEOREM JobImplemented ==
  ASSUME Calm
  PROVE  Spec => ImplementsSnapshotJob
<1>1. Init => Job!JobInit
  BY Constants DEF Init, Job!JobInit
<1> QED
  BY <1>1, JobStep, InductiveInvariant, PTL
     DEF Spec, ImplementsSnapshotJob, Job!JobSpec

------------------------------------------------------------------------------
(* What does not need Calm: any number of simultaneous requests, zombies,   *)
(* stale retries, lost acknowledgements. The owners are all there or none   *)
(* is, and all are if the row says so, while one id means one target.       *)
AllOrNothing ==
  ~reused => /\ tokens \in {{}, Snapshot[row.target]}
             /\ row.status = "COMPLETED" => tokens = Snapshot[row.target]

LEMMA AllOrNothingStep ==
  TypeOK /\ OneTarget /\ AllOrNothing /\ [Next]_vars => AllOrNothing'
<1> SUFFICES ASSUME TypeOK, OneTarget, AllOrNothing, [Next]_vars,
                    ~reused, ~reused'
             PROVE  AllOrNothing'
  BY ReusedForEver DEF AllOrNothing
<1> USE ConstantsAssumption
        DEF AllOrNothing, CompletedHasSnapshot, TypeOK, Row, Status, rowVars
<1>1. ASSUME UNCHANGED rowVars PROVE AllOrNothing'
  BY <1>1
<1>2. ASSUME tokens' = tokens, row'.target = row.target,
             row'.status = row.status \/ row'.status # "COMPLETED"
      PROVE  AllOrNothing'
  BY <1>2
<1>3. ASSUME NEW c \in Client, ClientStep(c) PROVE AllOrNothing'
  <2>1. CASE AddPrepare(c)
    <3>1. tokens' = tokens /\ row'.status = "PENDING"
      BY <2>1 DEF AddPrepare, Prepared
    <3>2. CASE tokens = {}
      BY <3>1, <3>2
    <3>3. CASE tokens # {}
      <4>1. row'.target = row.target
        <5>1. row.status # "NONE"
          BY <3>3 DEF OneTarget
        <5>2. PICK t \in Target :
                row' = Prepared(t) /\ (reused' = (reused \/ t # row.target))
          BY <5>1, <2>1 DEF AddPrepare
        <5> QED
          BY <5>2 DEF Prepared
      <4> QED
        BY <3>1, <4>1, <1>2
    <3> QED
      BY <3>2, <3>3
  <2>2. CASE RetryPrepare(c)
    <3>1. row' = Prepared(row.target) /\ tokens' = tokens
      BY <2>2 DEF RetryPrepare, OneTarget
    <3> QED
      BY <3>1, <1>2 DEF Prepared
  <2>3. CASE RetryRecord(c)
    BY <2>3, <1>2 DEF RetryRecord, FailureRecorded
  <2>4. CASE \/ AddPublish(c) \/ AddCommit(c) \/ AddRollback(c)
             \/ RetryCheck(c) \/ RetryPublish(c) \/ RetryAbort(c)
    BY <2>4, <1>1 DEF AddPublish, AddCommit, AddRollback, RetryCheck,
                      RetryPublish, RetryAbort
  <2> QED
    BY <1>3, <2>1, <2>2, <2>3, <2>4 DEF ClientStep
<1>4. ASSUME NEW w \in Worker, WorkerStep(w) \/ Kill(w) PROVE AllOrNothing'
  <2>1. CASE Persist(w)
    <3>1. entity[w] = row.target
      BY <2>1 DEF Persist, OneTarget, Live
    <3>2. tokens' = tokens \cup Snapshot[row.target]
      BY <2>1, <3>1 DEF Persist
    <3>3. tokens' = Snapshot[row.target]
      BY <3>2
    <3>4. row'.target = row.target
      BY <2>1 DEF Persist, Completed
    <3> QED
      BY <3>3, <3>4
  <2>2. CASE \/ Claim(w) \/ RefuseReprocessing(w) \/ Begin(w) \/ IndexPage(w)
             \/ IndexDone(w) \/ Requeue(w) \/ ExecuteSucceeds(w)
             \/ ExecuteFails(w) \/ ReportError(w)
    <3>1. row' \in {Claimed, Requeued, Errored, Heartbeat} /\ tokens' = tokens
      BY <2>2 DEF Claim, RefuseReprocessing, Begin, IndexPage, IndexDone,
                  Requeue, ExecuteSucceeds, ExecuteFails, ReportError
    <3>2. /\ row'.target = row.target
          /\ row'.status = row.status \/ row'.status # "COMPLETED"
      <4>1. row' \in {Claimed, Requeued, Errored} \/ row' = Heartbeat
        BY <3>1
      <4>2. CASE row' = Heartbeat
        BY <4>2 DEF Heartbeat
      <4>3. CASE row' \in {Claimed, Requeued, Errored}
        BY <4>3 DEF Claimed, Requeued, Errored
      <4> QED
        BY <4>1, <4>2, <4>3
    <3> QED
      BY <3>1, <3>2, <1>2
  <2>3. CASE \/ Deliver(w) \/ NothingToClaim(w) \/ PublishContinuation(w)
             \/ PersistFails(w) \/ StepFails(w)
             \/ Return(w) \/ Throw(w) \/ Kill(w)
    BY <2>3, <1>1 DEF Deliver, NothingToClaim, PublishContinuation,
                      PersistFails, StepFails, Return, Throw, Kill
  <2> QED
    BY <1>4, <2>1, <2>2, <2>3 DEF WorkerStep
<1>5. CASE DeleteOperation
  BY <1>5, <1>1 DEF DeleteOperation
<1>6. CASE Tick
  <2>1. /\ tokens' = tokens /\ row'.status = row.status
        /\ row'.target = row.target
    BY <1>6 DEF Tick
  <2> QED
    BY <2>1, <1>2
<1>7. CASE UNCHANGED vars
  BY <1>7, <1>1 DEF vars
<1> QED
  BY <1>3, <1>4, <1>5, <1>6, <1>7 DEF Next

(* A COMPLETED row comes with exactly the snapshot of the target it names,  *)
(* even when several invocations persist it, fail it and prepare it again   *)
(* in any order, until an id is posted again with other parameters.         *)
THEOREM CompletedSnapshotIsWhole == Spec => []CompletedHasSnapshot
<1>1. Init => AllOrNothing
  BY DEF Init, AllOrNothing
<1>2. AllOrNothing => CompletedHasSnapshot
  BY DEF AllOrNothing, CompletedHasSnapshot
<1> QED
  BY <1>1, <1>2, InitOneTarget, OneTargetStep, AllOrNothingStep, TypeCorrect,
     PTL DEF Spec

LEMMA WholeSnapshotsStep ==
  TypeOK /\ StoredInWholeSnapshots /\ [Next]_vars => StoredInWholeSnapshots'
<1> SUFFICES ASSUME TypeOK, StoredInWholeSnapshots, [Next]_vars
             PROVE  StoredInWholeSnapshots'
  OBVIOUS
<1>1. ASSUME tokens' = tokens,
             row'.status = row.status \/ row'.status # "COMPLETED"
      PROVE  StoredInWholeSnapshots'
  BY <1>1 DEF StoredInWholeSnapshots
<1>2. ASSUME NEW w \in Worker, Persist(w) PROVE StoredInWholeSnapshots'
  <2>1. PICK D \in SUBSET Target :
          /\ tokens = UNION {Snapshot[t] : t \in D}
          /\ \A s, t \in D : s # t => Snapshot[s] \cap Snapshot[t] = {}
    BY DEF StoredInWholeSnapshots
  <2> DEFINE E == D \cup {entity[w]}
  <2>2. E \in SUBSET Target /\ E # {}
    BY DEF TypeOK
  <2>3. /\ tokens' = tokens \cup Snapshot[entity[w]]
        /\ tokens \cap Snapshot[entity[w]] = {}
    BY <1>2 DEF Persist, Conflict
  <2>4. tokens' = UNION {Snapshot[t] : t \in E}
    BY <2>1, <2>3
  <2>5. \A s, t \in E : s # t => Snapshot[s] \cap Snapshot[t] = {}
    <3>1. \A t \in D : Snapshot[t] \cap Snapshot[entity[w]] = {}
      BY <2>1, <2>3
    <3> QED
      BY <2>1, <3>1
  <2> HIDE DEF E
  <2> QED
    BY <2>2, <2>4, <2>5 DEF StoredInWholeSnapshots
<1>3. ASSUME UNCHANGED rowVars PROVE StoredInWholeSnapshots'
  BY <1>1, <1>3 DEF rowVars
<1>4. ASSUME tokens' = tokens, row \in Row,
             \/ \E t \in Target : row' = Prepared(t)
             \/ row' \in {Claimed, Requeued, Errored, Heartbeat,
                          FailureRecorded}
      PROVE  StoredInWholeSnapshots'
  BY <1>1, <1>4 DEF Prepared, Claimed, Requeued, Errored, Heartbeat,
                    FailureRecorded, Row, Status
<1> USE DEF TypeOK
<1>5. ASSUME NEW c \in Client, ClientStep(c) PROVE StoredInWholeSnapshots'
  <2>1. CASE AddPrepare(c) \/ RetryPrepare(c) \/ RetryRecord(c)
    BY <2>1, <1>4 DEF AddPrepare, RetryPrepare, RetryRecord
  <2>2. CASE \/ AddPublish(c) \/ AddCommit(c) \/ AddRollback(c)
             \/ RetryCheck(c) \/ RetryPublish(c) \/ RetryAbort(c)
    BY <2>2, <1>3 DEF AddPublish, AddCommit, AddRollback, RetryCheck,
                      RetryPublish, RetryAbort
  <2> QED
    BY <1>5, <2>1, <2>2 DEF ClientStep
<1>6. ASSUME NEW w \in Worker, WorkerStep(w) \/ Kill(w)
      PROVE  StoredInWholeSnapshots'
  <2>1. CASE \/ Claim(w) \/ RefuseReprocessing(w) \/ Begin(w) \/ IndexPage(w)
             \/ IndexDone(w) \/ Requeue(w) \/ ExecuteSucceeds(w)
             \/ ExecuteFails(w) \/ ReportError(w)
    BY <2>1, <1>4 DEF Claim, RefuseReprocessing, Begin, IndexPage, IndexDone,
                      Requeue, ExecuteSucceeds, ExecuteFails, ReportError
  <2>2. CASE \/ Deliver(w) \/ NothingToClaim(w) \/ PublishContinuation(w)
             \/ PersistFails(w) \/ StepFails(w)
             \/ Return(w) \/ Throw(w) \/ Kill(w)
    BY <2>2, <1>3 DEF Deliver, NothingToClaim, PublishContinuation,
                      PersistFails, StepFails, Return, Throw, Kill
  <2> QED
    BY <1>2, <1>6, <2>1, <2>2 DEF WorkerStep
<1>7. CASE DeleteOperation
  BY <1>7, <1>3 DEF DeleteOperation
<1>8. CASE Tick
  BY <1>8, <1>1 DEF Tick, Row
<1>9. CASE UNCHANGED vars
  BY <1>9, <1>3 DEF vars, rowVars
<1> QED
  BY <1>5, <1>6, <1>7, <1>8, <1>9 DEF Next

(* With every fault, other parameters for one id among them: what is stored *)
(* are whole snapshots, none of which has lost a row to another.            *)
THEOREM WholeSnapshotsStored == Spec => []StoredInWholeSnapshots
<1>1. Init => StoredInWholeSnapshots
  <2> SUFFICES ASSUME Init PROVE StoredInWholeSnapshots
    OBVIOUS
  <2>1. tokens = UNION {Snapshot[t] : t \in {}} /\ row.status # "COMPLETED"
    BY DEF Init
  <2> QED
    BY <2>1 DEF StoredInWholeSnapshots
<1> QED
  BY <1>1, WholeSnapshotsStep, TypeCorrect, PTL DEF Spec

------------------------------------------------------------------------------
(* Continuations: of two starting blocks a message carries one after the    *)
(* other, the later is higher if they are of one contract; none lies beyond *)
(* what is indexed, and the run count is their number. Workers keep this    *)
(* while they handle a message.                                             *)
Advancing(b, t) ==
  /\ \A i \in 1..(Len(b) - 1) : b[i].of = b[i + 1].of => b[i].at < b[i + 1].at
  /\ \A i \in 1..Len(b) : b[i].at <= t[b[i].of]

WellFormed(m, t) == m.runs = Len(m.blocks) /\ Advancing(m.blocks, t)

AdvanceInv ==
  /\ \A m \in BagToSet(queue) : WellFormed(m, tip)
  /\ \A w \in Worker : WellFormed(held[w], tip)
  /\ \A w \in Worker : Advancing(state[w].blocks, tip)
  /\ \A w \in Worker : phase[w] \in {"delivered", "claimed"} =>
       state[w].runs = Len(state[w].blocks) + 1
  /\ \A w \in Worker : phase[w] \in {"indexing", "continuing", "requeued"} =>
       state[w].runs = Len(state[w].blocks)

(* Later tips keep a sequence of starting blocks advancing. *)
LEMMA AdvancingMono ==
  ASSUME NEW b \in Blocks, NEW t \in [Contract -> Nat],
         NEW u \in [Contract -> Nat], \A c \in Contract : t[c] <= u[c],
         Advancing(b, t)
  PROVE  Advancing(b, u)
<1>1. \A i \in 1..Len(b) : b[i].of \in Contract /\ b[i].at \in Nat
  <2> TAKE i \in 1..Len(b)
  <2>1. b[i] \in StartingBlock
    BY DEF Blocks
  <2> QED
    BY <2>1, ConstantsAssumption DEF StartingBlock
<1>2. \A i \in 1..Len(b) : b[i].at <= u[b[i].of]
  <2> TAKE i \in 1..Len(b)
  <2>1. b[i].at <= t[b[i].of] /\ t[b[i].of] <= u[b[i].of]
    BY <1>1 DEF Advancing
  <2>2. t[b[i].of] \in Nat /\ u[b[i].of] \in Nat /\ b[i].at \in Nat
    BY <1>1
  <2> QED
    BY <2>1, <2>2
<1> QED
  BY <1>2 DEF Advancing

(* Starting at the tip keeps it advancing unless the last run did so too.   *)
LEMMA AdvancingAppend ==
  ASSUME NEW b \in Blocks, NEW t \in [Contract -> 0..TargetBlock],
         NEW c \in Contract, Advancing(b, t),
         ~(b # <<>> /\ b[Len(b)].at = t[c])
  PROVE  Advancing(Append(b, [of |-> c, at |-> t[c]]), t)
<1> DEFINE s == [of |-> c, at |-> t[c]]
           d == Append(b, s)
<1>1. Len(d) = Len(b) + 1 /\ Len(b) \in Nat
  BY DEF Blocks
<1>2. /\ \A i \in 1..Len(b) : d[i] = b[i] /\ b[i] \in StartingBlock
      /\ d[Len(b) + 1] = s
  BY DEF Blocks
<1>3. s.of = c /\ s.at = t[c] /\ t[c] \in Nat
  BY ConstantsAssumption
<1> HIDE DEF d, s
<1>4. \A i \in 1..Len(d) : d[i].at <= t[d[i].of]
  <2> TAKE i \in 1..Len(d)
  <2>1. CASE i = Len(b) + 1
    BY <1>2, <1>3, <2>1
  <2>2. CASE i # Len(b) + 1
    <3>1. i \in 1..Len(b)
      BY <1>1, <2>2
    <3> QED
      BY <1>2, <3>1 DEF Advancing
  <2> QED
    BY <2>1, <2>2
<1>5. \A i \in 1..(Len(d) - 1) : d[i].of = d[i + 1].of => d[i].at < d[i + 1].at
  <2> SUFFICES ASSUME NEW i \in 1..Len(b), d[i].of = d[i + 1].of
               PROVE  d[i].at < d[i + 1].at
    BY <1>1
  <2>1. CASE i = Len(b)
    <3>1. b # <<>> /\ d[i] = b[i] /\ d[i + 1] = s
      BY <1>1, <1>2, <2>1
    <3>2. b[i].at # t[c] /\ b[i].of = c /\ b[i].at <= t[c]
      BY <1>3, <2>1, <3>1 DEF Advancing
    <3>3. b[i].at \in Nat
      BY <1>2, ConstantsAssumption DEF StartingBlock
    <3> QED
      BY <1>3, <3>1, <3>2, <3>3
  <2>2. CASE i # Len(b)
    <3>1. i \in 1..(Len(b) - 1) /\ i + 1 \in 1..Len(b)
      BY <1>1, <2>2
    <3>2. d[i] = b[i] /\ d[i + 1] = b[i + 1]
      BY <1>2, <3>1
    <3> QED
      BY <3>1, <3>2 DEF Advancing
  <2> QED
    BY <2>1, <2>2
<1>6. Advancing(d, t)
  BY <1>4, <1>5 DEF Advancing
<1> QED
  BY <1>6 DEF d, s

(* A message put back keeps what it carries. *)
LEMMA BackToQueueWellFormed ==
  ASSUME TypeOK, AdvanceInv, NEW w \in Worker, BackToQueue(held[w])
  PROVE  \A m \in BagToSet(queue') : WellFormed(m, tip)
<1>1. held[w] \in Message /\ WellFormed(held[w], tip)
  BY DEF TypeOK, AdvanceInv
<1>2. CASE held[w].left > 0
  <2> DEFINE n == [held[w] EXCEPT !.left = @ - 1]
  <2>1. n.runs = held[w].runs /\ n.blocks = held[w].blocks
    BY <1>1 DEF Message
  <2>2. n \in Message
    BY <1>1, <1>2, ConstantsAssumption DEF Message
  <2>3. Publish(n)
    BY <1>2 DEF BackToQueue
  <2> HIDE DEF n
  <2>4. BagToSet(queue') = BagToSet(queue) \cup {n}
    BY <2>2, <2>3, PublishType
  <2>5. WellFormed(n, tip)
    BY <1>1, <2>1 DEF WellFormed
  <2> QED
    BY <2>4, <2>5 DEF AdvanceInv
<1>3. CASE ~(held[w].left > 0)
  BY <1>3 DEF BackToQueue, AdvanceInv
<1> QED
  BY <1>2, <1>3

(* Messages and states that carry no blocks. *)
LEMMA EmptyAdvances ==
  ASSUME NEW t
  PROVE  /\ WellFormed(NewRequest, t) /\ WellFormed(NoMessage, t)
         /\ Advancing(FreshState.blocks, t)
BY DEF WellFormed, Advancing, NewRequest, NoMessage, FreshState

LEMMA AdvanceStep == TypeOK /\ AdvanceInv /\ [Next]_vars => AdvanceInv'
<1> SUFFICES ASSUME TypeOK, AdvanceInv, [Next]_vars PROVE AdvanceInv'
  OBVIOUS
<1> USE EmptyAdvances DEF workerVars, apiVars
<1>1. ASSUME UNCHANGED <<tip, queue, held, state, phase>> PROVE AdvanceInv'
  BY <1>1 DEF AdvanceInv
<1>2. ASSUME Publish(NewRequest), UNCHANGED <<tip, held, state, phase>>
      PROVE  AdvanceInv'
  <2>1. BagToSet(queue') = BagToSet(queue) \cup {NewRequest}
    BY <1>2, Constants, PublishType
  <2> QED
    BY <1>2, <2>1 DEF AdvanceInv
<1>3. ASSUME NEW c \in Client, ClientStep(c) PROVE AdvanceInv'
  <2>1. CASE AddPublish(c) \/ RetryPublish(c)
    BY <1>2, <2>1 DEF AddPublish, RetryPublish
  <2>2. CASE \/ AddPrepare(c) \/ AddCommit(c) \/ AddRollback(c)
             \/ RetryCheck(c) \/ RetryRecord(c) \/ RetryPrepare(c)
             \/ RetryAbort(c)
    BY <1>1, <2>2 DEF AddPrepare, AddCommit, AddRollback, RetryCheck,
                      RetryRecord, RetryPrepare, RetryAbort
  <2> QED
    BY <1>3, <2>1, <2>2 DEF ClientStep
<1>4. ASSUME NEW w \in Worker, Deliver(w) PROVE AdvanceInv'
  <2>1. PICK m \in BagToSet(queue) :
          /\ queue' = queue (-) SetToBag({m})
          /\ held' = [held EXCEPT ![w] = m]
          /\ state' = [state EXCEPT ![w] = [runs   |-> m.runs + 1,
                                            blocks |-> m.blocks]]
          /\ phase' = [phase EXCEPT ![w] = IF m.runs = Len(m.blocks)
                                             THEN "delivered" ELSE "throwing"]
    BY <1>4 DEF Deliver
  <2>2. BagToSet(queue') \subseteq BagToSet(queue)
    BY <2>1, BagRemove DEF TypeOK
  <2>3. WellFormed(m, tip) /\ tip' = tip
    BY <1>4, <2>1 DEF AdvanceInv, Deliver
  <2> QED
    BY <2>1, <2>2, <2>3 DEF AdvanceInv, TypeOK, WellFormed
<1>5. ASSUME NEW w \in Worker, Begin(w) PROVE AdvanceInv'
  <2> DEFINE b == state[w].blocks
             n == [of |-> ContractOf[entity[w]],
                   at |-> tip[ContractOf[entity[w]]]]
  <2>1. b \in Blocks /\ n \in StartingBlock
    BY StartType DEF TypeOK, State
  <2>2. Advancing(Append(b, n), tip)
    <3>1. ~(b # <<>> /\ b[Len(b)].at = tip[ContractOf[entity[w]]])
      BY <1>5 DEF Begin, AlreadyProcessed
    <3>2. Advancing(b, tip) /\ tip \in [Contract -> 0..TargetBlock]
      BY DEF AdvanceInv, TypeOK
    <3>3. ContractOf[entity[w]] \in Contract
      BY StartType DEF TypeOK
    <3> QED
      BY <2>1, <3>1, <3>2, <3>3, AdvancingAppend
  <2> HIDE DEF n
  <2>3. /\ state' = [state EXCEPT ![w].blocks = Append(b, n)]
        /\ UNCHANGED <<tip, queue, held>>
        /\ phase[w] = "claimed"
        /\ \E p \in {"building", "indexing"} :
             phase' = [phase EXCEPT ![w] = p]
    BY <1>5 DEF Begin, n
  <2>4. Len(Append(b, n)) = Len(b) + 1
    BY <2>1 DEF Blocks
  <2>5. /\ state'[w].blocks = Append(b, n)
        /\ state'[w].runs = state[w].runs
        /\ \A v \in Worker \ {w} : state'[v] = state[v]
    BY <2>1, <2>3 DEF TypeOK, State
  <2>6. \A v \in Worker : Advancing(state'[v].blocks, tip)
    BY <2>2, <2>5 DEF AdvanceInv
  <2> QED
    BY <2>3, <2>4, <2>5, <2>6 DEF AdvanceInv, TypeOK
<1>6. ASSUME NEW w \in Worker, IndexPage(w) PROVE AdvanceInv'
  <2>1. /\ tip \in [Contract -> Nat] /\ tip' \in [Contract -> Nat]
        /\ \A c \in Contract : tip[c] <= tip'[c]
    <3>1. PICK n \in tip[ContractOf[entity[w]]]..TargetBlock :
            tip' = [tip EXCEPT ![ContractOf[entity[w]]] = n]
      BY <1>6 DEF IndexPage
    <3>2. tip \in [Contract -> Nat]
      BY ConstantsAssumption DEF TypeOK
    <3>3. n \in Nat /\ tip[ContractOf[entity[w]]] <= n
      <4>1. tip[ContractOf[entity[w]]] \in Nat
        BY StartType, ConstantsAssumption DEF TypeOK
      <4> QED
        BY <3>1, <4>1, ConstantsAssumption
    <3>4. tip' \in [Contract -> Nat]
      BY <3>1, <3>2, <3>3
    <3>5. ASSUME NEW c \in Contract PROVE tip[c] <= tip'[c]
      <4>1. tip[c] \in Nat
        BY <3>2
      <4>2. CASE c = ContractOf[entity[w]]
        BY <3>1, <3>2, <3>3, <4>1, <4>2
      <4>3. CASE c # ContractOf[entity[w]]
        BY <3>1, <3>2, <4>1, <4>3
      <4> QED
        BY <4>2, <4>3
    <3> QED
      BY <3>2, <3>4, <3>5
  <2>2. \A b \in Blocks : Advancing(b, tip) => Advancing(b, tip')
    BY <2>1, AdvancingMono
  <2>3. \A m \in Message : WellFormed(m, tip) => WellFormed(m, tip')
    BY <2>2 DEF WellFormed, Message
  <2>4. \A v \in Worker : Advancing(state[v].blocks, tip')
    BY <2>2 DEF AdvanceInv, TypeOK, State
  <2>5. /\ \A m \in BagToSet(queue) : WellFormed(m, tip')
        /\ \A v \in Worker : WellFormed(held[v], tip')
    BY <2>3 DEF AdvanceInv, TypeOK
  <2>6. /\ UNCHANGED <<queue, held, state>> /\ phase[w] = "indexing"
        /\ \E p \in {"indexing", "continuing"} :
             phase' = [phase EXCEPT ![w] = p]
    BY <1>6 DEF IndexPage, Goto
  <2> QED
    BY <2>4, <2>5, <2>6 DEF AdvanceInv, TypeOK
<1>7. ASSUME NEW w \in Worker, PublishContinuation(w) PROVE AdvanceInv'
  <2> DEFINE n == [runs |-> state[w].runs, blocks |-> state[w].blocks,
                   left |-> MaxReceives]
  <2>1. n \in Message
    BY ConstantsAssumption DEF TypeOK, State, Message
  <2>2. BagToSet(queue') = BagToSet(queue) \cup {n}
    BY <1>7, <2>1, PublishType DEF PublishContinuation
  <2>3. WellFormed(n, tip)
    BY <1>7 DEF PublishContinuation, WellFormed, AdvanceInv
  <2> HIDE DEF n
  <2> QED
    BY <1>7, <2>2, <2>3 DEF PublishContinuation, Finish, AdvanceInv, TypeOK
<1>8. ASSUME NEW w \in Worker, Throw(w) \/ Kill(w) PROVE AdvanceInv'
  <2>1. BackToQueue(held[w]) /\ Leave(w) /\ tip' = tip
    BY <1>8 DEF Throw, Kill
  <2>2. \A m \in BagToSet(queue') : WellFormed(m, tip')
    BY <2>1, BackToQueueWellFormed
  <2> QED
    BY <2>1, <2>2 DEF Leave, AdvanceInv, TypeOK
<1>9. ASSUME NEW w \in Worker, UNCHANGED <<tip, queue>>,
             \/ (Goto(w, "continuing") /\ phase[w] = "indexing")
             \/ (Goto(w, "requeued") /\ phase[w] = "continuing")
             \/ (\E p \in {"building", "persisting", "erroring"} : Goto(w, p))
             \/ (\E p \in {"throwing", "returning"} : Finish(w, p))
             \/ Leave(w)
      PROVE  AdvanceInv'
  <2>1. CASE Goto(w, "continuing") /\ phase[w] = "indexing"
    BY <1>9, <2>1 DEF Goto, AdvanceInv, TypeOK
  <2>2. CASE Goto(w, "requeued") /\ phase[w] = "continuing"
    BY <1>9, <2>2 DEF Goto, AdvanceInv, TypeOK
  <2>3. CASE \E p \in {"building", "persisting", "erroring"} : Goto(w, p)
    BY <1>9, <2>3 DEF Goto, AdvanceInv, TypeOK
  <2>4. CASE \E p \in {"throwing", "returning"} : Finish(w, p)
    BY <1>9, <2>4 DEF Finish, AdvanceInv, TypeOK
  <2>5. CASE Leave(w)
    BY <1>9, <2>5 DEF Leave, AdvanceInv, TypeOK
  <2> QED
    BY <1>9, <2>1, <2>2, <2>3, <2>4, <2>5
<1>10. ASSUME NEW w \in Worker,
              \/ Claim(w) \/ NothingToClaim(w) \/ RefuseReprocessing(w)
              \/ IndexDone(w) \/ Requeue(w) \/ ExecuteSucceeds(w)
              \/ ExecuteFails(w) \/ Persist(w) \/ PersistFails(w)
              \/ StepFails(w) \/ ReportError(w) \/ Return(w)
       PROVE  AdvanceInv'
  <2>1. CASE Claim(w)
    BY <2>1 DEF Claim, AdvanceInv, TypeOK
  <2>2. CASE IndexDone(w)
    BY <1>9, <2>2 DEF IndexDone
  <2>3. CASE Requeue(w)
    BY <1>9, <2>3 DEF Requeue
  <2>4. CASE ExecuteSucceeds(w)
    BY <1>9, <2>4 DEF ExecuteSucceeds
  <2>5. CASE NothingToClaim(w) \/ RefuseReprocessing(w) \/ ReportError(w)
    BY <1>9, <2>5 DEF NothingToClaim, RefuseReprocessing, ReportError
  <2>6. CASE ExecuteFails(w) \/ StepFails(w)
    BY <1>9, <2>6 DEF ExecuteFails, StepFails
  <2>7. CASE Persist(w) \/ PersistFails(w)
    BY <1>9, <2>7 DEF Persist, PersistFails
  <2>8. CASE Return(w)
    BY <1>9, <2>8 DEF Return
  <2> QED
    BY <1>10, <2>1, <2>2, <2>3, <2>4, <2>5, <2>6, <2>7, <2>8
<1>11. CASE DeleteOperation \/ Tick \/ UNCHANGED vars
  BY <1>1, <1>11 DEF DeleteOperation, Tick, vars
<1> QED
  BY <1>3, <1>4, <1>5, <1>6, <1>7, <1>8, <1>10, <1>11 DEF Next, WorkerStep

(* The handler's "Invalid state" check never fires and no continuation      *)
(* starts where the run before it did.                                      *)
THEOREM ContinuationsMakeProgress == Spec => []ContinuationsAdvance
<1>1. Init => AdvanceInv
  BY EmptyAdvances DEF Init, AdvanceInv, EmptyBag, SetToBag, BagToSet
<1>2. AdvanceInv => ContinuationsAdvance
  BY DEF AdvanceInv, ContinuationsAdvance, WellFormed, Advancing
<1> QED
  BY <1>1, <1>2, AdvanceStep, TypeCorrect, PTL DEF Spec
==============================================================================
