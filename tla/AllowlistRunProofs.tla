-------------------------- MODULE AllowlistRunProofs --------------------------
(***************************************************************************)
(* Proofs about AllowlistRun for every set of workers and operations and   *)
(* every number of redeliveries and requests.                              *)
(***************************************************************************)
EXTENDS AllowlistRun, TLAPS

(* Changing one count of the queue keeps it well typed. *)
LEMMA CountType ==
  ASSUME NEW S, NEW f \in [S -> Nat], NEW n \in S, NEW k \in Nat
  PROVE  [f EXCEPT ![n] = k] \in [S -> Nat]
  OBVIOUS

(* Sending a message keeps the queue well typed ... *)
LEMMA SendType ==
  ASSUME TypeOK, NEW n \in 0..MaxReceives, Send(n)
  PROVE  queue' \in [0..MaxReceives -> Nat]
<1>1. queue \in [0..MaxReceives -> Nat]
  BY DEF TypeOK
<1>2. queue[n] + 1 \in Nat
  BY <1>1
<1>3. queue' = [queue EXCEPT ![n] = queue[n] + 1]
  BY DEF Send
<1> QED
  BY <1>1, <1>2, <1>3, CountType

(* ... and so does returning one, or dropping it. *)
LEMMA BackToQueueType ==
  ASSUME TypeOK, NEW w \in Worker, BackToQueue(w)
  PROVE  queue' \in [0..MaxReceives -> Nat]
<1>1. left[w] \in 0..MaxReceives /\ MaxReceives \in Nat
  BY ConstantsAssumption DEF TypeOK
<1>2. CASE left[w] > 0
  <2>1. left[w] - 1 \in 0..MaxReceives
    BY <1>1, <1>2
  <2> QED
    BY <1>2, <2>1, SendType DEF BackToQueue
<1>3. CASE ~(left[w] > 0)
  BY <1>3 DEF BackToQueue, TypeOK
<1> QED
  BY <1>2, <1>3

(* Receiving a message, whether or not SQS keeps a copy of it. *)
LEMMA DeliverType ==
  ASSUME TypeOK, NEW w \in Worker, Deliver(w)
  PROVE  /\ queue' \in [0..MaxReceives -> Nat]
         /\ left' \in [Worker -> 0..MaxReceives]
<1>1. PICK n \in 0..MaxReceives :
        /\ queue[n] > 0
        /\ \/ queue' = [queue EXCEPT ![n] = @ - 1]
           \/ /\ "duplicate" \in Faults /\ n > 0
              /\ queue' = [queue EXCEPT ![n] = @ - 1, ![n - 1] = @ + 1]
        /\ left' = [left EXCEPT ![w] = n]
  BY DEF Deliver
<1>2. MaxReceives \in Nat /\ queue \in [0..MaxReceives -> Nat]
  BY ConstantsAssumption DEF TypeOK
<1>3. queue[n] \in Nat /\ queue[n] - 1 \in Nat
  BY <1>1, <1>2
<1>4. ASSUME queue' = [queue EXCEPT ![n] = @ - 1]
      PROVE  queue' \in [0..MaxReceives -> Nat]
  <2>1. queue' = [queue EXCEPT ![n] = queue[n] - 1]
    BY <1>4
  <2> QED
    BY <1>2, <1>3, <2>1, CountType
<1>5. ASSUME n > 0, queue' = [queue EXCEPT ![n] = @ - 1, ![n - 1] = @ + 1]
      PROVE  queue' \in [0..MaxReceives -> Nat]
  <2>1. n - 1 \in 0..MaxReceives /\ n - 1 # n
    BY <1>2, <1>5
  <2>2. queue[n - 1] + 1 \in Nat
    BY <1>2, <2>1
  <2>3. \A i \in 0..MaxReceives :
          queue'[i] = IF i = n - 1 THEN queue[n - 1] + 1
                      ELSE IF i = n THEN queue[n] - 1 ELSE queue[i]
    BY <1>2, <1>5, <2>1
  <2>4. queue' = [i \in 0..MaxReceives |-> queue'[i]]
    BY <1>2, <1>5
  <2>5. \A i \in 0..MaxReceives : queue'[i] \in Nat
    BY <1>2, <1>3, <2>2, <2>3
  <2> QED
    BY <2>4, <2>5
<1>6. left' \in [Worker -> 0..MaxReceives]
  BY <1>1 DEF TypeOK
<1> QED
  BY <1>1, <1>4, <1>5, <1>6

(* Every step keeps the variables typed and the foreign keys satisfied. *)
LEMMA TypeStep == TypeOK /\ [Next]_vars => TypeOK'
<1> SUFFICES ASSUME TypeOK, [Next]_vars PROVE TypeOK'
  OBVIOUS
<1> USE DEF rowVars, opVars, workerVars, apiVars
<1>1. ASSUME NEW c \in Client, NEW p \in ApiPhases, Admit(c, p)
      PROVE  /\ UNCHANGED <<rowVars, opVars, queue, workerVars>>
             /\ api' \in [Client -> ApiPhases]
             /\ requests' \in 0..MaxRequests
  BY <1>1, ConstantsAssumption DEF Admit, TypeOK
<1>2. ASSUME NEW c \in Client,
             PlanCheck(c) \/ AddCheck(c) \/ DropCheck(c) \/ DeleteCheck(c)
      PROVE  TypeOK'
  BY <1>1, <1>2
     DEF PlanCheck, AddCheck, DropCheck, DeleteCheck, ApiPhases, TypeOK
<1>3. ASSUME NEW c \in Client, PrepNewRun(c) PROVE TypeOK'
  BY <1>3 DEF PrepNewRun, ApiGoto, ApiPhases, Status, TypeOK
<1>4. ASSUME NEW c \in Client, PlanPublish(c) PROVE TypeOK'
  <2>1. queue' \in [0..MaxReceives -> Nat]
    BY <1>4, SendType, ConstantsAssumption DEF PlanPublish
  <2> QED
    BY <1>4, <2>1 DEF PlanPublish, ApiGoto, ApiPhases, TypeOK
<1>5. ASSUME NEW c \in Client, AddCommit(c) PROVE TypeOK'
  BY <1>5 DEF AddCommit, ApiGoto, ApiPhases, TypeOK
<1>6. ASSUME NEW c \in Client, DeleteDone(c)
      PROVE  /\ UNCHANGED <<rowVars, queue, workerVars, requests>>
             /\ api' \in [Client -> ApiPhases]
             /\ seen' \in [Client -> SUBSET Operation]
  BY <1>6 DEF DeleteDone, ApiGoto, ApiPhases, TypeOK
<1>7. ASSUME NEW c \in Client, DeleteCommon(c) PROVE TypeOK'
  BY <1>6, <1>7 DEF DeleteCommon, TypeOK
<1>8. ASSUME NEW c \in Client, DeleteEntity(c) PROVE TypeOK'
  BY <1>6, <1>8 DEF DeleteEntity, TypeOK
<1>9. ASSUME NEW c \in Client, DropAllowlist(c) PROVE TypeOK'
  BY <1>9 DEF DropAllowlist, ApiGoto, ApiPhases, Status, TypeOK
<1>10. ASSUME NEW c \in Client, RequestFails(c) PROVE TypeOK'
  BY <1>10 DEF RequestFails, ApiGoto, ApiPhases, TypeOK
<1>11. ASSUME NEW w \in Worker, Deliver(w) PROVE TypeOK'
  BY <1>11, DeliverType DEF Deliver, Phases, TypeOK
<1>12. ASSUME NEW w \in Worker, ClaimRun(w) \/ ClaimFails(w) PROVE TypeOK'
  BY <1>12 DEF ClaimRun, ClaimFails, Goto, Phases, Status, TypeOK
<1>13. ASSUME NEW w \in Worker, Refuse(w) \/ ReportError(w) \/ Complete(w)
       PROVE  TypeOK'
  BY <1>13 DEF Refuse, ReportError, Complete, SetStatus, Goto, Phases,
               Status, TypeOK
<1>14. ASSUME NEW w \in Worker, ReadOperations(w) \/ SetAllAsRan(w)
       PROVE  TypeOK'
  BY <1>14 DEF ReadOperations, SetAllAsRan, Goto, Phases, TypeOK
<1>15. ASSUME NEW w \in Worker,
              InsertResults(w) \/ InsertFails(w) \/ LateInsert(w)
       PROVE  TypeOK'
  BY <1>15 DEF InsertResults, InsertFails, LateInsert, Goto, Phases, TypeOK
<1>16. ASSUME NEW w \in Worker, StepFails(w) PROVE TypeOK'
  BY <1>16 DEF StepFails, Goto, Phases, TypeOK
<1>17. ASSUME NEW w \in Worker, Leave(w)
       PROVE  /\ phase' \in [Worker -> Phases]
              /\ left' \in [Worker -> 0..MaxReceives]
              /\ executed' \in [Worker -> SUBSET Operation]
  BY <1>17, ConstantsAssumption DEF Leave, Phases, TypeOK
<1>18. ASSUME NEW w \in Worker, Return(w) PROVE TypeOK'
  BY <1>17, <1>18 DEF Return, TypeOK
<1>19. ASSUME NEW w \in Worker, Throw(w) \/ Kill(w) PROVE TypeOK'
  BY <1>17, <1>19, BackToQueueType DEF Throw, Kill, TypeOK
<1>20. CASE UNCHANGED vars
  BY <1>20 DEF vars, TypeOK
<1> QED
  BY <1>2, <1>3, <1>4, <1>5, <1>7, <1>8, <1>9, <1>10, <1>11, <1>12, <1>13,
     <1>14, <1>15, <1>16, <1>18, <1>19, <1>20
     DEF Next, WorkerStep, ClientStep, RequestStep

(* The initial state is well typed. *)
LEMMA InitType == Init => TypeOK
  BY ConstantsAssumption DEF Init, TypeOK, Status, Phases, ApiPhases

(* The variables keep their types and the tables their foreign keys. *)
THEOREM TypeCorrect == Spec => []TypeOK
  BY InitType, TypeStep, PTL DEF Spec

------------------------------------------------------------------------------
(* Neither property is inductive: a worker marks and completes what it has  *)
(* read and inserted, so nobody may have changed the operations or the run  *)
(* meanwhile (WorkIsCurrent), and a request writes what it has checked, so  *)
(* no worker may be on its way (RequestsAlone). Late inserts of abandoned   *)
(* loops only add results.                                                  *)
Inv == ExclusiveRun /\ RanWasExecuted /\ RequestsAlone /\ WorkIsCurrent

(* A request that is in progress is the only actor. *)
LEMMA RequestStepInv ==
  ASSUME IInv, NEW c \in Client, ClientStep(c),
         requests' # requests => Unoccupied
  PROVE  Inv'
<1> USE DEF rowVars, opVars, workerVars, apiVars
<1>a. CASE PlanCheck(c) \/ AddCheck(c) \/ DeleteCheck(c) \/ DropCheck(c)
  <2>1. \E p \in ApiPhases : Admit(c, p)
    BY <1>a DEF PlanCheck, AddCheck, DeleteCheck, DropCheck, ApiPhases
  <2>2. requests' # requests
    BY <2>1, ConstantsAssumption DEF Admit, IInv, TypeOK
  <2>3. Unoccupied /\ UNCHANGED <<rowVars, opVars, queue, workerVars>>
    BY <2>1, <2>2 DEF Admit
  <2>4. \A d \in Client \ {c} : api'[d] = "idle"
    BY <2>1, <2>3 DEF Admit, Unoccupied, IInv, TypeOK
  <2>5. RequestsAlone'
    BY <2>3, <2>4 DEF RequestsAlone, Unoccupied, Quiet
  <2> QED
    BY <2>3, <2>5 DEF Inv, IInv, ExclusiveRun, RanWasExecuted, WorkIsCurrent, Working
<1>b. CASE RequestStep(c)
  <2>1. /\ Quiet /\ \A d \in Client \ {c} : api[d] = "idle"
        /\ UNCHANGED workerVars
    BY <1>b DEF IInv, RequestsAlone, RequestStep, PrepNewRun, PlanPublish,
                AddCommit, DeleteCommon, DeleteEntity, DeleteDone,
                DropAllowlist, RequestFails
  <2>2. \A w \in Worker : ~Working(w)' /\ phase'[w] = "idle"
    BY <2>1 DEF Quiet, Working
  <2>3. ExclusiveRun' /\ WorkIsCurrent'
    BY <2>2 DEF ExclusiveRun, WorkIsCurrent
  <2>4. RequestsAlone'
    <3>1. \A d \in Client \ {c} : api'[d] = "idle"
      BY <1>b, <2>1
         DEF RequestStep, PrepNewRun, PlanPublish, AddCommit, DeleteCommon,
             DeleteEntity, DeleteDone, DropAllowlist, RequestFails, ApiGoto,
             IInv, TypeOK
    <3>2. CASE PlanPublish(c)
      <4>1. api'[c] = "idle"
        BY <3>2 DEF PlanPublish, ApiGoto, IInv, TypeOK
      <4> QED
        BY <3>1, <4>1 DEF RequestsAlone
    <3>3. CASE ~PlanPublish(c)
      <4>1. UNCHANGED queue
        BY <1>b, <3>3
           DEF RequestStep, PrepNewRun, AddCommit, DeleteCommon, DeleteEntity,
               DeleteDone, DropAllowlist, RequestFails
      <4> QED
        BY <2>1, <3>1, <4>1 DEF RequestsAlone, Quiet
    <3> QED
      BY <3>2, <3>3
  <2>5. RanWasExecuted'
    <3>1. CASE PlanPublish(c) \/ RequestFails(c)
      BY <3>1 DEF PlanPublish, RequestFails, IInv, RanWasExecuted
    <3>2. CASE PrepNewRun(c) \/ DropAllowlist(c)
      BY <3>2 DEF PrepNewRun, DropAllowlist, RanWasExecuted
    <3>3. CASE AddCommit(c) \/ DeleteCommon(c) \/ DeleteEntity(c)
      BY <3>3 DEF AddCommit, DeleteCommon, DeleteEntity, DeleteDone, IInv,
                  RanWasExecuted
    <3> QED
      BY <1>b, <3>1, <3>2, <3>3 DEF RequestStep
  <2> QED
    BY <2>3, <2>4, <2>5 DEF Inv
<1> QED
  BY <1>a, <1>b DEF ClientStep

(* While an invocation or a message is under way there is no request.       *)
LEMMA WorkerStepInv ==
  ASSUME IInv, NEW w \in Worker, WorkerStep(w) \/ LateInsert(w) \/ Kill(w)
  PROVE  Inv'
<1> USE DEF rowVars, opVars, workerVars, apiVars
<1>1. ~Quiet
  BY DEF Quiet, IInv, TypeOK, WorkerStep, Kill, Deliver, ClaimRun, ClaimFails,
         Refuse, ReadOperations, InsertResults, InsertFails, LateInsert,
         SetAllAsRan, Complete, StepFails, ReportError, Return, Throw
<1>2. UNCHANGED apiVars
  BY DEF WorkerStep, Kill, Deliver, ClaimRun, ClaimFails, Refuse,
         ReadOperations, InsertResults, InsertFails, LateInsert, SetAllAsRan,
         Complete, StepFails, ReportError, Return, Throw
<1>3. RequestsAlone'
  BY <1>1, <1>2 DEF RequestsAlone, IInv
<1> USE DEF IInv, TypeOK, ExclusiveRun, RanWasExecuted,
            WorkIsCurrent, Working
<1>4. ASSUME Deliver(w)
       PROVE  ExclusiveRun' /\ RanWasExecuted' /\ WorkIsCurrent'
  BY <1>4 DEF Deliver
<1>5. ASSUME ClaimRun(w)
       PROVE  ExclusiveRun' /\ RanWasExecuted' /\ WorkIsCurrent'
  BY <1>5 DEF ClaimRun, Goto
<1>6. ASSUME ClaimFails(w)
       PROVE  ExclusiveRun' /\ RanWasExecuted' /\ WorkIsCurrent'
  BY <1>6 DEF ClaimFails, Goto
<1>7. ASSUME Refuse(w)
       PROVE  ExclusiveRun' /\ RanWasExecuted' /\ WorkIsCurrent'
  BY <1>7 DEF Refuse, SetStatus, Goto
<1>8. ASSUME ReadOperations(w)
       PROVE  ExclusiveRun' /\ RanWasExecuted' /\ WorkIsCurrent'
  BY <1>8 DEF ReadOperations, Goto
<1>9. ASSUME InsertResults(w)
       PROVE  ExclusiveRun' /\ RanWasExecuted' /\ WorkIsCurrent'
  BY <1>9 DEF InsertResults, Goto
<1>10. ASSUME InsertFails(w)
       PROVE  ExclusiveRun' /\ RanWasExecuted' /\ WorkIsCurrent'
  BY <1>10 DEF InsertFails, Goto
<1>11. ASSUME SetAllAsRan(w)
       PROVE  ExclusiveRun' /\ RanWasExecuted' /\ WorkIsCurrent'
  BY <1>11 DEF SetAllAsRan, Goto
<1>12. ASSUME Complete(w)
       PROVE  ExclusiveRun' /\ RanWasExecuted' /\ WorkIsCurrent'
  BY <1>12 DEF Complete, SetStatus, Goto
<1>13. ASSUME StepFails(w)
       PROVE  ExclusiveRun' /\ RanWasExecuted' /\ WorkIsCurrent'
  BY <1>13 DEF StepFails, Goto
<1>14. ASSUME ReportError(w)
       PROVE  ExclusiveRun' /\ RanWasExecuted' /\ WorkIsCurrent'
  BY <1>14 DEF ReportError, SetStatus, Goto
<1>15. ASSUME Return(w) \/ Throw(w) \/ Kill(w)
       PROVE  ExclusiveRun' /\ RanWasExecuted' /\ WorkIsCurrent'
  <2>1. UNCHANGED <<status, results, ops, ran>> /\ Leave(w)
    BY <1>15 DEF Return, Throw, Kill
  <2>2. \A v \in Worker \ {w} : /\ phase'[v] = phase[v]
                                /\ executed'[v] = executed[v]
    BY <2>1 DEF Leave
  <2>3. phase'[w] = "idle"
    BY <2>1 DEF Leave
  <2> QED
    BY <2>1, <2>2, <2>3
<1>16. ASSUME LateInsert(w)
       PROVE  ExclusiveRun' /\ RanWasExecuted' /\ WorkIsCurrent'
  BY <1>16 DEF LateInsert
<1> QED
  BY <1>3, <1>4, <1>5, <1>6, <1>7, <1>8, <1>9, <1>10, <1>11, <1>12, <1>13,
     <1>14, <1>15, <1>16 DEF WorkerStep, Inv

(* The inductive invariant holds when users wait for each other and for the *)
(* messages of earlier runs, whatever crashes and redeliveries.             *)
LEMMA InductiveInvariant == PatientSpec => []IInv
<1>1. Init => IInv
  BY InitType
     DEF Init, IInv, ExclusiveRun, RanWasExecuted, RequestsAlone,
         WorkIsCurrent, Working
<1>2. IInv /\ UNCHANGED vars => Inv'
  BY DEF vars, IInv, Inv, ExclusiveRun, RanWasExecuted, RequestsAlone,
         WorkIsCurrent, Working, Quiet
<1>3. IInv /\ [PatientNext]_vars => IInv'
  BY <1>2, TypeStep, RequestStepInv, WorkerStepInv
     DEF IInv, Inv, Next, PatientNext
<1> QED
  BY <1>1, <1>3, PTL DEF PatientSpec

(* Never two workers execute the run of an allowlist, and no run is planned *)
(* or deleted under a worker that executes it, when users wait.             *)
THEOREM RunIsExclusive == PatientSpec => []ExclusiveRun
<1>1. IInv => ExclusiveRun
  BY DEF IInv
<1> QED
  BY <1>1, InductiveInvariant, PTL

(* Every operation shown as ran in a completed run is in its results, when  *)
(* users wait.                                                              *)
THEOREM CompletedRunIsCurrent == PatientSpec => []RanWasExecuted
<1>1. IInv => RanWasExecuted
  BY DEF IInv
<1> QED
  BY <1>1, InductiveInvariant, PTL
==============================================================================
