--------------------------- MODULE DeploymentProofs ---------------------------
(***************************************************************************)
(* Proofs about Deployment for any jobs, functions and edits.              *)
(***************************************************************************)
EXTENDS Deployment, FiniteSetTheorems, SequenceTheorems, WellFoundedInduction, TLAPS

Snapshots == [rev : Nat, setting : Nat]

(* A job that is past its build has an archive and a function it is at, and *)
(* it has read the configuration that it changes.                           *)
Prepared ==
  \A j \in Job :
    /\ pc[j] \in Updating => archive[j] \in Contents
    /\ pc[j] \in Updating \cup Smoking => at[j] \in 1..Len(Functions)
    /\ pc[j] = "configure" => read[j] \in Snapshots

Typed == TypeOK /\ Prepared
-------------------------------------------------------------------------------
(* Every job has a first function; one that follows is the next it is for.    *)
LEMMA FollowingType ==
  ASSUME NEW j \in Job, NEW i \in 0..Len(Functions)
  PROVE  /\ Following(j, i) \in 0..Len(Functions)
         /\ i = 0 => Following(j, i) \in 1..Len(Functions)
         /\ Following(j, i) # 0 => Following(j, i) \in SelectFunctions(j)
         /\ \A k \in SelectFunctions(j) :
              k > i => Following(j, i) # 0 /\ Following(j, i) <= k
<1> DEFINE later == {k \in SelectFunctions(j) : k > i}
           Upto == {1..k : k \in later}
<1>1. Len(Functions) \in Nat \ {0}
  BY ConstantsAssumption
<1>2. later \subseteq 1..Len(Functions)
  BY DEF SelectFunctions
<1>3. CASE later = {}
  <2>1. Following(j, i) = 0 /\ \A k \in SelectFunctions(j) : ~(k > i)
    BY <1>3 DEF Following
  <2>2. i # 0
    <3>1. PICK k \in 1..Len(Functions) : Service[j] = None \/ Service[j] = Functions[k]
      <4>1. CASE Service[j] = None
        BY <1>1, <4>1
      <4>2. CASE Service[j] # None
        BY <4>2, ConstantsAssumption DEF Names
      <4> QED
        BY <4>1, <4>2
    <3>2. k \in SelectFunctions(j) /\ k > 0
      BY <3>1 DEF SelectFunctions
    <3> QED
      BY <1>3, <3>2
  <2> QED
    BY <1>1, <2>1, <2>2
<1>4. CASE later # {}
  <2>1. IsFiniteSet(1..Len(Functions))
    BY <1>1, FS_Interval
  <2>2. IsWellFoundedOn(StrictSubsetOrdering(1..Len(Functions)),
                        SUBSET (1..Len(Functions)))
    BY <2>1, FS_StrictSubsetOrderingWellFounded, FS_FiniteSubsetsOfFinite
  <2>3. Upto \subseteq SUBSET (1..Len(Functions)) /\ Upto # {}
    BY <1>1, <1>2, <1>4
  <2>4. PICK x \in Upto :
          \A y \in Upto : ~(<<y, x>> \in StrictSubsetOrdering(1..Len(Functions)))
    BY <2>2, <2>3, WFMin
  <2>5. PICK k \in later : x = 1..k
    BY <2>4
  <2>6. \A m \in later : k <= m
    <3> SUFFICES ASSUME NEW m \in later, m < k PROVE FALSE
      BY <1>1, <1>2
    <3>1. 1..m \subseteq 1..k /\ 1..m # 1..k
      <4>1. k \in 1..k /\ k \notin 1..m
        BY <1>1, <1>2
      <4> QED
        BY <1>1, <1>2, <4>1
    <3>2. 1..m \in Upto
      OBVIOUS
    <3> QED
      BY <2>3, <2>4, <2>5, <3>1, <3>2 DEF StrictSubsetOrdering
  <2>7. Following(j, i) \in later /\ \A m \in later : Following(j, i) <= m
    BY <1>4, <2>6 DEF Following
  <2> QED
    BY <1>1, <1>2, <2>7
<1> QED
  BY <1>3, <1>4

(* The function that a job is at. *)
LEMMA FunctionType ==
  ASSUME NEW j \in Job, at[j] \in 1..Len(Functions)
  PROVE  FunctionOf(j) \in Names
  BY DEF FunctionOf, Names

(* A configuration that is changed stays one. *)
LEMMA ConfigType ==
  ASSUME TypeOK, NEW f \in Names, NEW c \in Configurations,
         config' = [config EXCEPT ![f] = c]
  PROVE  /\ config' \in [Names -> Configurations]
         /\ config'[f] = c /\ \A g \in Names \ {f} : config'[g] = config[g]
  BY DEF TypeOK

(* What an action makes of a configuration is one. *)
LEMMA Changed ==
  ASSUME NEW c \in Configurations,
         NEW u \in {"Successful", "InProgress", "Failed"}
  PROVE  /\ [c EXCEPT !.update = u, !.rev = c.rev + 1] \in Configurations
         /\ [c EXCEPT !.rev = c.rev + 1, !.update = u] \in Configurations
         /\ [c EXCEPT !.setting = c.setting + 1, !.rev = c.rev + 1] \in Configurations
<1>1. c.rev + 1 \in Nat /\ c.setting + 1 \in Nat
  BY DEF Configurations
<1>2. \A d \in Configurations : \A n \in Nat : [d EXCEPT !.rev = n] \in Configurations
  BY DEF Configurations
<1>3. \A d \in Configurations : [d EXCEPT !.update = u] \in Configurations
  BY DEF Configurations
<1>4. \A d \in Configurations : \A n \in Nat : [d EXCEPT !.setting = n] \in Configurations
  BY DEF Configurations
<1>5. [c EXCEPT !.update = u, !.rev = c.rev + 1] \in Configurations
  <2>1. [[c EXCEPT !.update = u] EXCEPT !.rev = c.rev + 1] \in Configurations
    BY <1>1, <1>2, <1>3
  <2> QED
    BY <2>1
<1>6. [c EXCEPT !.rev = c.rev + 1, !.update = u] \in Configurations
  <2>1. [[c EXCEPT !.rev = c.rev + 1] EXCEPT !.update = u] \in Configurations
    BY <1>1, <1>2, <1>3
  <2> QED
    BY <2>1
<1>7. [c EXCEPT !.setting = c.setting + 1, !.rev = c.rev + 1] \in Configurations
  <2>1. [[c EXCEPT !.setting = c.setting + 1] EXCEPT !.rev = c.rev + 1] \in Configurations
    BY <1>1, <1>2, <1>4
  <2> QED
    BY <2>1
<1> QED
  BY <1>5, <1>6, <1>7

(* A job that ends keeps the types. *)
LEMMA EndType ==
  ASSUME Typed, NEW j \in Job, NEW how \in Ended, End(j, how)
  PROVE  /\ pc' = [pc EXCEPT ![j] = how]
         /\ pc' \in [Job -> {"idle", "queued"} \cup Running \cup Ended]
         /\ dist' \in [Job -> Contents]
         /\ archive' \in [Job -> Contents \cup {None}]
         /\ maps' = maps
         /\ at' \in [Job -> 0..Len(Functions)]
         /\ read' \in [Job -> [rev : Nat, setting : Nat] \cup {None}]
         /\ Prepared'
<1>1. 0 \in 0..Len(Functions) /\ {} \in Contents
  BY ConstantsAssumption DEF Contents
<1>2. /\ pc' = [pc EXCEPT ![j] = how] /\ maps' = maps
      /\ pc' \in [Job -> {"idle", "queued"} \cup Running \cup Ended]
  BY DEF End, Goto, Typed, TypeOK
<1>3. dist' \in [Job -> Contents]
  BY <1>1 DEF End, Typed, TypeOK
<1>4. archive' \in [Job -> Contents \cup {None}]
  BY DEF End, Typed, TypeOK
<1>5. /\ at' \in [Job -> 0..Len(Functions)]
      /\ read' \in [Job -> [rev : Nat, setting : Nat] \cup {None}]
  BY <1>1 DEF End, Typed, TypeOK
<1>6. \A k \in Job \ {j} : /\ pc'[k] = pc[k] /\ archive'[k] = archive[k]
                           /\ at'[k] = at[k] /\ read'[k] = read[k]
  BY DEF End, Goto, Typed, TypeOK
<1>7. pc'[j] = how
  BY DEF End, Goto, Typed, TypeOK
<1>8. Prepared'
  BY <1>6, <1>7 DEF Typed, Prepared, Ended, Updating, Smoking
<1> QED
  BY <1>2, <1>3, <1>4, <1>5, <1>8

(* A job that goes on keeps the types. *)
LEMMA GotoType ==
  ASSUME Typed, NEW j \in Job,
         NEW step \in {"queued"} \cup Running, Goto(j, step)
  PROVE  /\ pc' \in [Job -> {"idle", "queued"} \cup Running \cup Ended]
         /\ pc'[j] = step /\ \A k \in Job \ {j} : pc'[k] = pc[k]
  BY DEF Goto, Typed, TypeOK

(* The commands of the build, which do not touch the functions. *)
LEMMA CommandType ==
  ASSUME Typed, NEW j \in Job, Dispatch(j) \/ Command(j)
  PROVE  Typed'
<1> USE DEF Typed, TypeOK, tree, lambda
<1>1. ASSUME UNCHANGED <<at, read, lambda>>,
             dist' \in [Job -> Contents], maps' \in [Job -> Contents \cup {None}],
             NEW step \in Building \cup {"queued", "deploy"}, Goto(j, step),
             archive' \in [Job -> Contents \cup {None}],
             \A k \in Job \ {j} : archive'[k] = archive[k]
      PROVE  Typed'
  <2>1. /\ pc' \in [Job -> {"idle", "queued"} \cup Running \cup Ended]
        /\ pc'[j] = step /\ \A k \in Job \ {j} : pc'[k] = pc[k]
    BY <1>1, GotoType DEF Running
  <2>2. Prepared'
    BY <1>1, <2>1 DEF Prepared, Building, Updating, Smoking
  <2> QED
    BY <1>1, <2>1, <2>2
<1> USE DEF Building
<1>2. CASE Dispatch(j)
  <2>1. pc' \in [Job -> {"idle", "queued"} \cup Running \cup Ended]
    BY <1>2 DEF Dispatch, Ended
  <2>2. \A k \in Job : pc'[k] \in {"queued", "cancelled", pc[k]}
    BY <1>2 DEF Dispatch
  <2>3. Prepared'
    BY <1>2, <2>2 DEF Dispatch, Prepared, Updating, Smoking
  <2> QED
    BY <1>2, <2>1, <2>3 DEF Dispatch
<1>3. CASE Start(j)
  BY <1>1, <1>3 DEF Start
<1>4. CASE Build(j) \/ BundleFails(j)
  <2>1. {"compiled", "bundled"} \in Contents /\ {"compiled"} \in Contents /\ {} \in Contents
    BY DEF Contents
  <2>2. PICK c \in Contents : dist' = [dist EXCEPT ![j] = c]
    BY <1>4, <2>1 DEF Build, BundleFails
  <2>3. dist' \in [Job -> Contents]
    BY <2>2
  <2> QED
    BY <1>1, <1>4, <2>3 DEF Build, BundleFails, After
<1>5. CASE Inject(j)
  <2>1. dist' \in [Job -> Contents]
    BY <1>5 DEF Inject, Contents
  <2> QED
    BY <1>1, <1>5, <2>1 DEF Inject, After
<1>6. CASE Package(j)
  <2>1. /\ archive' \in [Job -> Contents \cup {None}]
        /\ \A k \in Job \ {j} : archive'[k] = archive[k]
    BY <1>6 DEF Package, Contents
  <2> QED
    BY <1>1, <1>6, <2>1 DEF Package, After
<1>7. CASE Verify(j) \/ Skip(j)
  BY <1>1, <1>7 DEF Verify, Skip, After
<1>8. CASE Upload(j)
  <2>1. maps' \in [Job -> Contents \cup {None}]
    BY <1>8 DEF Upload
  <2> QED
    BY <1>1, <1>8, <2>1 DEF Upload, After
<1>9. CASE Fails(j)
  BY <1>9, EndType DEF Fails, Ended
<1> QED
  BY <1>2, <1>3, <1>4, <1>5, <1>6, <1>7, <1>8, <1>9 DEF Command

(* The steps of an update and of a smoke test. *)
LEMMA UpdateType ==
  ASSUME Typed, NEW j \in Job, Update(j) \/ Smoke(j)
  PROVE  Typed'
<1> USE DEF Typed, TypeOK, tree, lambda, Updating, Smoking
<1>1. ASSUME UNCHANGED tree, NEW step \in Updating \cup Smoking, Goto(j, step),
             versions' \in [Names -> Seq([job : Job \cup {None}, contents : Contents])],
             config' \in [Names -> Configurations], edits' = edits,
             at' \in [Job -> 0..Len(Functions)],
             \A k \in Job \ {j} : at'[k] = at[k] /\ read'[k] = read[k],
             at'[j] \in 1..Len(Functions),
             read' \in [Job -> [rev : Nat, setting : Nat] \cup {None}],
             step \in Updating => archive[j] \in Contents,
             step = "configure" => read'[j] \in Snapshots
      PROVE  Typed'
  <2>1. /\ pc' \in [Job -> {"idle", "queued"} \cup Running \cup Ended]
        /\ pc'[j] = step /\ \A k \in Job \ {j} : pc'[k] = pc[k]
    BY <1>1, GotoType DEF Running
  <2>2. Prepared'
    BY <1>1, <2>1 DEF Prepared
  <2> QED
    BY <1>1, <2>1, <2>2
<1>2. ASSUME NEW how \in Ended, End(j, how),
             versions' \in [Names -> Seq([job : Job \cup {None}, contents : Contents])],
             config' \in [Names -> Configurations], edits' = edits
      PROVE  Typed'
  BY <1>2, EndType
<1>3. ASSUME NEW step \in {"revision", "invoke"}, Begin(j, step), UNCHANGED tree,
             UNCHANGED lambda, archive[j] \in Contents
      PROVE  Typed'
  <2>1. Following(j, 0) \in 1..Len(Functions)
    BY ConstantsAssumption, FollowingType
  <2>2. /\ at' \in [Job -> 0..Len(Functions)] /\ at'[j] \in 1..Len(Functions)
        /\ \A k \in Job \ {j} : at'[k] = at[k] /\ read'[k] = read[k]
    BY <1>3, <2>1 DEF Begin
  <2>3. read' \in [Job -> [rev : Nat, setting : Nat] \cup {None}]
    BY <1>3 DEF Begin
  <2> QED
    BY <1>1, <1>3, <2>2, <2>3 DEF Begin
<1>4. CASE BeginDeployment(j)
  BY <1>3, <1>4 DEF BeginDeployment
<1>5. ASSUME pc[j] \in Updating \cup Smoking
      PROVE  /\ at[j] \in 1..Len(Functions) /\ FunctionOf(j) \in Names
             /\ Current(j) \in Configurations
             /\ Snapshot(j) \in Snapshots
             /\ pc[j] \in Updating => archive[j] \in Contents
  <2>1. at[j] \in 1..Len(Functions) /\ FunctionOf(j) \in Names
    BY <1>5, FunctionType DEF Prepared
  <2>2. Current(j) \in Configurations
    BY <2>1 DEF Current
  <2>3. Current(j).rev \in Nat /\ Current(j).setting \in Nat
    BY <2>2 DEF Configurations
  <2> QED
    BY <1>5, <2>1, <2>2, <2>3 DEF Snapshot, Snapshots, Prepared
<1>6. CASE GetRevision(j) \/ GetConfiguration(j)
  <2>1. pc[j] \in Updating
    BY <1>6 DEF GetRevision, GetConfiguration
  <2>2. /\ read' \in [Job -> [rev : Nat, setting : Nat] \cup {None}]
        /\ read'[j] \in Snapshots /\ \A k \in Job \ {j} : read'[k] = read[k]
    BY <1>5, <1>6, <2>1 DEF GetRevision, GetConfiguration, Snapshots
  <2>3. PICK step \in {"code", "final", "configure"} : Goto(j, step)
    BY <1>6 DEF GetRevision, GetConfiguration
  <2> QED
    BY <1>1, <1>5, <1>6, <2>1, <2>2, <2>3 DEF GetRevision, GetConfiguration
<1>7. CASE UpdateCode(j)
  <2> DEFINE f == FunctionOf(j)
  <2>1. pc[j] \in Updating
    BY <1>7 DEF UpdateCode
  <2>2. [job |-> j, contents |-> archive[j]] \in [job : Job \cup {None}, contents : Contents]
    BY <1>5, <2>1
  <2>3. f \in Names
    BY <1>5, <2>1
  <2>4. versions' \in [Names -> Seq([job : Job \cup {None}, contents : Contents])]
    <3>1. Append(versions[f], [job |-> j, contents |-> archive[j]])
            \in Seq([job : Job \cup {None}, contents : Contents])
      BY <2>2, <2>3, AppendProperties
    <3> QED
      BY <1>7, <3>1 DEF UpdateCode
  <2>5. config' \in [Names -> Configurations]
    <3> DEFINE c == [config[f] EXCEPT !.rev = config[f].rev + 1, !.update = "InProgress"]
    <3>1. c \in Configurations
      BY <1>5, <2>1, <2>3, Changed DEF Current
    <3>2. config' = [config EXCEPT ![f] = c]
      BY <1>7, <2>3 DEF UpdateCode
    <3> QED
      BY <2>3, <3>1, <3>2
  <2> QED
    BY <1>1, <1>5, <1>7, <2>1, <2>4, <2>5 DEF UpdateCode, Prepared
<1>8. CASE Refused(j)
  BY <1>2, <1>8 DEF Refused, Ended
<1>9. CASE WaitUpdated(j)
  <2>1. pc[j] \in Updating
    BY <1>9 DEF WaitUpdated
  <2>2. CASE End(j, "failed")
    BY <1>2, <1>9, <2>2 DEF WaitUpdated, Ended
  <2>3. CASE ~End(j, "failed")
    <3>1. PICK step \in {"read", "final"} : Goto(j, step)
      BY <1>9, <2>3 DEF WaitUpdated
    <3> QED
      BY <1>1, <1>5, <1>9, <2>1, <2>3, <3>1 DEF WaitUpdated
  <2> QED
    BY <2>2, <2>3
<1>10. CASE UpdateConfiguration(j)
  <2> DEFINE f == FunctionOf(j)
             c == [setting |-> read[j].setting, sentry |-> TRUE, handler |-> "dist",
                   rev |-> config[f].rev + 1, update |-> "InProgress",
                   state |-> config[f].state]
  <2>1. pc[j] = "configure" /\ pc[j] \in Updating
    BY <1>10 DEF UpdateConfiguration
  <2>2. f \in Names /\ config[f] \in Configurations /\ read[j].setting \in Nat
    BY <1>5, <2>1 DEF Prepared, Current, Snapshots
  <2>3. c \in Configurations
    BY <2>2 DEF Configurations
  <2>4. config' = [config EXCEPT ![f] = c]
    BY <1>10 DEF UpdateConfiguration
  <2>5. config' \in [Names -> Configurations]
    BY <2>2, <2>3, <2>4
  <2> QED
    BY <1>1, <1>5, <1>10, <2>1, <2>5 DEF UpdateConfiguration
<1>11. CASE FinalCheck(j)
  <2>1. pc[j] \in Updating
    BY <1>11 DEF FinalCheck
  <2>2. CASE Mismatch(j)
    BY <1>2, <1>11, <2>2 DEF FinalCheck, Ended
  <2>3. CASE ~Mismatch(j) /\ Following(j, at[j]) = 0
    BY <1>3, <1>5, <1>11, <2>1, <2>3 DEF FinalCheck
  <2>4. CASE ~Mismatch(j) /\ Following(j, at[j]) # 0
    <3>1. Following(j, at[j]) \in 0..Len(Functions)
      BY FollowingType
    <3>2. Following(j, at[j]) \in 1..Len(Functions)
      BY <2>4, <3>1, ConstantsAssumption
    <3>3. at' \in [Job -> 0..Len(Functions)] /\ at'[j] \in 1..Len(Functions)
      BY <1>11, <2>4, <3>1, <3>2 DEF FinalCheck
    <3>4. read' \in [Job -> [rev : Nat, setting : Nat] \cup {None}]
      BY <1>11, <2>4 DEF FinalCheck
    <3> QED
      BY <1>1, <1>5, <1>11, <2>1, <2>4, <3>3, <3>4 DEF FinalCheck
  <2> QED
    BY <2>2, <2>3, <2>4
<1>12. CASE Invoke(j)
  <2>1. pc[j] \in Smoking
    BY <1>12 DEF Invoke
  <2>2. CASE Answered(j)
    <3>1. CASE Following(j, at[j]) = 0
      BY <1>2, <1>12, <2>2, <3>1 DEF Invoke, Answered, Ended
    <3>2. CASE Following(j, at[j]) # 0
      <4>1. Following(j, at[j]) \in 0..Len(Functions)
        BY FollowingType
      <4>2. Following(j, at[j]) \in 1..Len(Functions)
        BY <3>2, <4>1, ConstantsAssumption
      <4>3. at' \in [Job -> 0..Len(Functions)] /\ at'[j] \in 1..Len(Functions)
        BY <2>2, <3>2, <4>1, <4>2 DEF Answered
      <4> QED
        BY <1>1, <1>12, <2>2, <3>2, <4>3 DEF Invoke, Answered
    <3> QED
      BY <3>1, <3>2
  <2>3. CASE Wakes(j)
    <3> DEFINE f == FunctionOf(j)
               c == [config[f] EXCEPT !.state = "Pending"]
    <3>1. f \in Names /\ config[f] \in Configurations
      BY <1>5, <2>1 DEF Current
    <3>2. c \in Configurations
      BY <3>1 DEF Configurations
    <3>3. config' = [config EXCEPT ![f] = c]
      BY <2>3 DEF Wakes
    <3>4. config' \in [Names -> Configurations]
      BY <3>1, <3>2, <3>3
    <3> QED
      BY <1>1, <1>5, <1>12, <2>1, <2>3, <3>4 DEF Invoke, Wakes
  <2> QED
    BY <1>12, <2>2, <2>3 DEF Invoke
<1>13. CASE WaitActive(j)
  BY <1>1, <1>5, <1>13 DEF WaitActive
<1> QED
  BY <1>4, <1>6, <1>7, <1>8, <1>9, <1>10, <1>11, <1>12, <1>13 DEF Update, Smoke

(* The steps of Lambda and of an operator. *)
LEMMA LambdaType ==
  ASSUME Typed, NEW f \in Names, UpdateEnds(f) \/ Activated(f) \/ Edit(f)
  PROVE  Typed'
<1> USE DEF Typed, TypeOK, tree
<1>1. ASSUME NEW c \in Configurations, config' = [config EXCEPT ![f] = c],
             UNCHANGED <<pc, tree, at, read, versions>>, edits' \in [Names -> Nat]
      PROVE  Typed'
  <2>1. config' \in [Names -> Configurations]
    BY <1>1
  <2>2. Prepared'
    BY <1>1 DEF Prepared
  <2> QED
    BY <1>1, <2>1, <2>2
<1>2. config[f] \in Configurations
  OBVIOUS
<1>3. CASE UpdateEnds(f)
  <2>1. PICK status \in {"Successful", "Failed"} :
          config' = [config EXCEPT ![f] =
                       [config[f] EXCEPT !.update = status, !.rev = config[f].rev + 1]]
    BY <1>3 DEF UpdateEnds
  <2>2. [config[f] EXCEPT !.update = status, !.rev = config[f].rev + 1] \in Configurations
    BY <1>2, Changed
  <2> QED
    BY <1>1, <1>3, <2>1, <2>2 DEF UpdateEnds
<1>4. CASE Activated(f)
  <2>1. [config[f] EXCEPT !.state = "Active"] \in Configurations
    BY <1>2 DEF Configurations
  <2>2. config' = [config EXCEPT ![f] = [config[f] EXCEPT !.state = "Active"]]
    BY <1>4 DEF Activated
  <2> QED
    BY <1>1, <1>4, <2>1, <2>2 DEF Activated
<1>5. CASE Edit(f)
  <2> DEFINE c == [config[f] EXCEPT !.setting = config[f].setting + 1,
                                    !.rev = config[f].rev + 1]
  <2>1. c \in Configurations
    BY <1>2, Changed
  <2>2. config' = [config EXCEPT ![f] = c]
    BY <1>5 DEF Edit
  <2>3. edits' \in [Names -> Nat]
    BY <1>5 DEF Edit
  <2> QED
    BY <1>1, <1>5, <2>1, <2>2, <2>3 DEF Edit
<1> QED
  BY <1>3, <1>4, <1>5

LEMMA InitTyped == Init => Typed
<1> SUFFICES ASSUME Init PROVE Typed
  OBVIOUS
<1> USE DEF Init
<1>1. 0 \in 0..Len(Functions) /\ {} \in Contents /\ {"compat"} \in Contents
  BY ConstantsAssumption DEF Contents
<1>2. versions \in [Names -> Seq([job : Job \cup {None}, contents : Contents])]
  <2>1. [job |-> None, contents |-> {"compat"}] \in [job : Job \cup {None}, contents : Contents]
    BY <1>1
  <2>2. <<[job |-> None, contents |-> {"compat"}]>>
          \in Seq([job : Job \cup {None}, contents : Contents])
    BY <2>1
  <2> QED
    BY <2>2
<1>3. config \in [Names -> Configurations]
  BY DEF Configurations
<1>4. Prepared
  BY DEF Prepared, Updating, Smoking
<1> QED
  BY <1>1, <1>2, <1>3, <1>4 DEF Typed, TypeOK

LEMMA NextTyped == Typed /\ [Next]_vars => Typed'
<1> SUFFICES ASSUME Typed, [Next]_vars PROVE Typed'
  OBVIOUS
<1>1. CASE UNCHANGED vars
  BY <1>1 DEF vars, tree, lambda, Typed, TypeOK, Prepared
<1> QED
  BY <1>1, CommandType, UpdateType, LambdaType DEF Next
-------------------------------------------------------------------------------
(* What an operator has set is kept: the configuration that a job sends back is *)
(* the current one for as long as its revision is.                              *)
FreshRead ==
  \A j \in Job :
    pc[j] = "configure" =>
      /\ read[j].rev <= Current(j).rev
      /\ read[j].rev = Current(j).rev => read[j].setting = Current(j).setting

Kept == Typed /\ SettingsAreKept /\ FreshRead

(* Steps that leave the functions alone. *)
LEMMA KeptAlone ==
  ASSUME Kept, Typed', UNCHANGED <<config, edits>>, NEW j \in Job,
         \A k \in Job \ {j} :
           /\ pc'[k] = pc[k] \/ pc'[k] # "configure"
           /\ at'[k] = at[k] /\ read'[k] = read[k],
         pc'[j] # "configure"
  PROVE  Kept'
  BY DEF Kept, SettingsAreKept, FreshRead, Current, FunctionOf

(* A function gets a new revision. *)
LEMMA KeptByRevision ==
  ASSUME Kept, Typed', NEW f \in Names, NEW c \in Configurations,
         config' = [config EXCEPT ![f] = c], c.rev > config[f].rev,
         c.setting = edits'[f], \A g \in Names \ {f} : edits'[g] = edits[g],
         UNCHANGED <<at, read>>,
         \A k \in Job : pc'[k] = pc[k] \/ pc'[k] # "configure"
  PROVE  Kept'
<1> USE DEF Kept
<1>1. config'[f] = c /\ \A g \in Names \ {f} : config'[g] = config[g]
  BY DEF Typed, TypeOK
<1>2. SettingsAreKept'
  BY <1>1 DEF SettingsAreKept
<1>3. FreshRead'
  <2> SUFFICES ASSUME NEW j \in Job, pc'[j] = "configure"
               PROVE  /\ read'[j].rev <= Current(j)'.rev
                      /\ read'[j].rev = Current(j)'.rev
                           => read'[j].setting = Current(j)'.setting
    BY DEF FreshRead
  <2>1. pc[j] = "configure"
    OBVIOUS
  <2>2. FunctionOf(j) \in Names /\ FunctionOf(j)' = FunctionOf(j)
    BY <2>1, FunctionType DEF Typed, Prepared, Updating, FunctionOf
  <2>3. CASE FunctionOf(j) = f
    <3>1. read[j].rev <= config[f].rev /\ read[j].rev \in Nat
      BY <2>1, <2>3 DEF FreshRead, Current, Typed, Prepared, Snapshots
    <3>2. c.rev \in Nat /\ config[f].rev \in Nat
      BY DEF Configurations, Typed, TypeOK
    <3>3. read[j].rev < c.rev
      BY <3>1, <3>2
    <3> QED
      BY <1>1, <2>2, <2>3, <3>1, <3>2, <3>3 DEF Current
  <2>4. CASE FunctionOf(j) # f
    BY <1>1, <2>1, <2>2, <2>4 DEF FreshRead, Current
  <2> QED
    BY <2>3, <2>4
<1> QED
  BY <1>2, <1>3

LEMMA InitKept == Init => Kept
<1> SUFFICES ASSUME Init PROVE Kept
  OBVIOUS
<1>1. SettingsAreKept
  BY DEF Init, SettingsAreKept
<1>2. FreshRead
  BY DEF Init, FreshRead
<1> QED
  BY <1>1, <1>2, InitTyped DEF Kept

LEMMA NextKept == Kept /\ [Next]_vars => Kept'
<1> SUFFICES ASSUME Kept, [Next]_vars PROVE Kept'
  OBVIOUS
<1> USE DEF tree, lambda
<1>1. Typed /\ Typed'
  BY NextTyped DEF Kept
<1>2. CASE UNCHANGED vars
  BY <1>1, <1>2 DEF vars, Kept, SettingsAreKept, FreshRead, Current, FunctionOf
<1>3. ASSUME NEW j \in Job, NEW how \in Ended, End(j, how), UNCHANGED <<config, edits>>
      PROVE  Kept'
  <2>1. /\ pc'[j] # "configure"
        /\ \A k \in Job \ {j} : pc'[k] = pc[k] /\ at'[k] = at[k] /\ read'[k] = read[k]
    BY <1>1, <1>3 DEF End, Goto, Typed, TypeOK, Ended
  <2> QED
    BY <1>1, <1>3, <2>1, KeptAlone
<1>4. ASSUME NEW j \in Job, NEW step, step # "configure", Goto(j, step),
             UNCHANGED <<config, edits>>,
             \A k \in Job \ {j} : at'[k] = at[k] /\ read'[k] = read[k]
      PROVE  Kept'
  <2>1. pc'[j] # "configure" /\ \A k \in Job \ {j} : pc'[k] = pc[k]
    BY <1>1, <1>4 DEF Goto, Typed, TypeOK
  <2> QED
    BY <1>1, <1>4, <2>1, KeptAlone
<1>5. ASSUME NEW j \in Job, Dispatch(j) PROVE Kept'
  <2>1. \A k \in Job : pc'[k] = pc[k] \/ pc'[k] # "configure"
    BY <1>1, <1>5 DEF Dispatch
  <2>2. pc'[j] # "configure"
    BY <1>1, <1>5 DEF Dispatch
  <2> QED
    BY <1>1, <1>5, <2>1, <2>2, KeptAlone DEF Dispatch
<1>6. ASSUME NEW j \in Job, Command(j) PROVE Kept'
  <2>1. CASE Fails(j)
    BY <1>3, <2>1 DEF Fails, Ended
  <2>2. CASE ~Fails(j)
    <3>1. /\ UNCHANGED <<at, read, config, edits>>
          /\ \E step \in {"build", "inject", "package", "verify", "upload", "deploy"} :
               Goto(j, step)
      BY <1>6, <2>2 DEF Command, Start, Build, BundleFails, Inject, Package, Verify,
                       Upload, Skip, After
    <3> QED
      BY <1>4, <3>1
  <2> QED
    BY <2>1, <2>2
<1>7. ASSUME NEW j \in Job, pc[j] \in Updating \cup Smoking
      PROVE  FunctionOf(j) \in Names /\ Current(j) \in Configurations
  BY <1>1, <1>7, FunctionType DEF Current, Typed, TypeOK, Prepared
<1>8. ASSUME NEW j \in Job, GetConfiguration(j) PROVE Kept'
  <2> DEFINE f == FunctionOf(j)
  <2>1. pc[j] \in Updating
    BY <1>8 DEF GetConfiguration, Updating
  <2>2. f \in Names /\ config[f].rev \in Nat
    BY <1>7, <2>1 DEF Current, Configurations
  <2>3. /\ read'[j] = Snapshot(j)
        /\ \A k \in Job \ {j} : pc'[k] = pc[k] /\ read'[k] = read[k]
        /\ UNCHANGED <<at, config, edits>>
    BY <1>1, <1>8 DEF GetConfiguration, Goto, Typed, TypeOK
  <2>4. FreshRead'
    BY <2>2, <2>3 DEF FreshRead, Snapshot, Current, FunctionOf, Kept
  <2> QED
    BY <1>1, <2>3, <2>4 DEF Kept, SettingsAreKept
<1>9. ASSUME NEW j \in Job, UpdateCode(j) PROVE Kept'
  <2> DEFINE f == FunctionOf(j)
             c == [config[f] EXCEPT !.rev = config[f].rev + 1, !.update = "InProgress"]
  <2>1. pc[j] \in Updating
    BY <1>9 DEF UpdateCode, Updating
  <2>2. f \in Names /\ config[f] \in Configurations
    BY <1>7, <2>1 DEF Current
  <2>3. c \in Configurations
    BY <2>2, Changed
  <2>4. c.rev = config[f].rev + 1 /\ c.setting = config[f].setting /\ config[f].rev \in Nat
    BY <2>2 DEF Configurations
  <2>5. config' = [config EXCEPT ![f] = c]
    BY <1>1, <1>9, <2>2 DEF UpdateCode, Typed, TypeOK
  <2>6. \A k \in Job : pc'[k] = pc[k] \/ pc'[k] # "configure"
    BY <1>1, <1>9 DEF UpdateCode, Goto, Typed, TypeOK
  <2>7. c.setting = edits'[f] /\ UNCHANGED <<at, read, edits>>
    BY <1>9, <2>2, <2>4 DEF UpdateCode, Kept, SettingsAreKept
  <2>8. c.rev > config[f].rev
    BY <2>4
  <2> HIDE DEF c, f
  <2> QED
    BY <1>1, <2>2, <2>3, <2>5, <2>6, <2>7, <2>8, KeptByRevision
<1>10. ASSUME NEW j \in Job, UpdateConfiguration(j) PROVE Kept'
  <2> DEFINE f == FunctionOf(j)
             c == [setting |-> read[j].setting, sentry |-> TRUE, handler |-> "dist",
                   rev |-> config[f].rev + 1, update |-> "InProgress",
                   state |-> config[f].state]
  <2>1. pc[j] = "configure" /\ pc[j] \in Updating /\ Accepts(j)
    BY <1>10 DEF UpdateConfiguration, Updating
  <2>2. f \in Names /\ config[f] \in Configurations
    BY <1>7, <2>1 DEF Current
  <2>3. read[j].setting = config[f].setting /\ config[f].rev \in Nat
    BY <2>1, <2>2 DEF Kept, FreshRead, Accepts, Current, Configurations
  <2>4. c \in Configurations
    BY <2>2, <2>3 DEF Configurations
  <2>5. config' = [config EXCEPT ![f] = c]
    BY <1>10 DEF UpdateConfiguration
  <2>6. \A k \in Job : pc'[k] = pc[k] \/ pc'[k] # "configure"
    BY <1>1, <1>10 DEF UpdateConfiguration, Goto, Typed, TypeOK
  <2>7. c.setting = edits'[f] /\ UNCHANGED <<at, read, edits>>
    BY <1>10, <2>2, <2>3 DEF UpdateConfiguration, Kept, SettingsAreKept
  <2>8. c.rev > config[f].rev
    BY <2>3
  <2> HIDE DEF c, f
  <2> QED
    BY <1>1, <2>2, <2>4, <2>5, <2>6, <2>7, <2>8, KeptByRevision
<1>11. ASSUME NEW j \in Job,
              BeginDeployment(j) \/ GetRevision(j) \/ Refused(j) \/ WaitUpdated(j)
                \/ FinalCheck(j) \/ WaitActive(j)
       PROVE  Kept'
  <2>1. CASE \E how \in Ended : End(j, how)
    BY <1>3, <1>11, <2>1 DEF BeginDeployment, GetRevision, Refused, WaitUpdated, FinalCheck,
                             WaitActive
  <2>2. CASE ~\E how \in Ended : End(j, how)
    <3>1. "failed" \in Ended
      BY DEF Ended
    <3>2. /\ UNCHANGED <<config, edits>>
          /\ \E step \in {"revision", "code", "read", "final", "invoke", "reinvoke"} :
               Goto(j, step)
      BY <1>11, <2>2, <3>1 DEF BeginDeployment, GetRevision, Refused, WaitUpdated,
                               FinalCheck, WaitActive, Begin
    <3>3. \A k \in Job \ {j} : at'[k] = at[k] /\ read'[k] = read[k]
      BY <1>1, <1>11, <2>2, <3>1 DEF BeginDeployment, GetRevision, Refused, WaitUpdated,
                               FinalCheck, WaitActive, Begin, Typed, TypeOK
    <3> QED
      BY <1>4, <3>2, <3>3
  <2> QED
    BY <2>1, <2>2
<1>12. ASSUME NEW j \in Job, Invoke(j) PROVE Kept'
  <2> DEFINE f == FunctionOf(j)
  <2>1. pc[j] \in Smoking /\ edits' = edits
    BY <1>12 DEF Invoke, Smoking
  <2>2. f \in Names /\ config[f] \in Configurations
    BY <1>7, <2>1 DEF Current
  <2>3. CASE Answered(j)
    <3>1. CASE End(j, "passed")
      BY <1>3, <2>1, <2>3, <3>1 DEF Answered, Ended
    <3>2. CASE ~End(j, "passed")
      <4>1. \A k \in Job \ {j} : at'[k] = at[k] /\ read'[k] = read[k]
        BY <1>1, <2>3, <3>2 DEF Answered, Typed, TypeOK
      <4> QED
        BY <1>4, <2>1, <2>3, <3>2, <4>1 DEF Answered
    <3> QED
      BY <3>1, <3>2
  <2>4. CASE Wakes(j)
    <3>1. config' = [config EXCEPT ![f] = [config[f] EXCEPT !.state = "Pending"]]
      BY <2>4 DEF Wakes
    <3>2. \A g \in Names : config'[g].rev = config[g].rev
                           /\ config'[g].setting = config[g].setting
      BY <1>1, <2>2, <3>1 DEF Typed, TypeOK, Configurations
    <3>3. \A k \in Job : pc'[k] = pc[k] \/ pc'[k] # "configure"
      BY <1>1, <2>4 DEF Wakes, Goto, Typed, TypeOK
    <3>4. FreshRead'
      <4> SUFFICES ASSUME NEW k \in Job, pc'[k] = "configure"
                   PROVE  /\ read'[k].rev <= Current(k)'.rev
                          /\ read'[k].rev = Current(k)'.rev
                               => read'[k].setting = Current(k)'.setting
        BY DEF FreshRead
      <4>1. pc[k] = "configure" /\ pc[k] \in Updating
        BY <3>3 DEF Updating
      <4>2. FunctionOf(k) \in Names /\ FunctionOf(k)' = FunctionOf(k) /\ read' = read
        BY <1>7, <2>4, <4>1 DEF Wakes, FunctionOf
      <4> QED
        BY <3>2, <4>1, <4>2 DEF Kept, FreshRead, Current
    <3> QED
      BY <1>1, <2>1, <3>2, <3>4 DEF Kept, SettingsAreKept
  <2> QED
    BY <1>12, <2>3, <2>4 DEF Invoke
<1>13. ASSUME NEW f \in Names, UpdateEnds(f) PROVE Kept'
  <2>1. PICK status \in {"Successful", "Failed"} :
          config' = [config EXCEPT ![f] =
                       [config[f] EXCEPT !.update = status, !.rev = config[f].rev + 1]]
    BY <1>1, <1>13 DEF UpdateEnds, Typed, TypeOK
  <2> DEFINE c == [config[f] EXCEPT !.update = status, !.rev = config[f].rev + 1]
  <2>2. c \in Configurations
    BY <1>1, Changed DEF Typed, TypeOK
  <2>3. c.rev = config[f].rev + 1 /\ c.setting = config[f].setting /\ config[f].rev \in Nat
    BY <1>1 DEF Configurations, Typed, TypeOK
  <2>4. c.setting = edits'[f] /\ UNCHANGED <<pc, at, read, edits>>
    BY <1>13, <2>3 DEF UpdateEnds, Kept, SettingsAreKept
  <2>5. c.rev > config[f].rev /\ config' = [config EXCEPT ![f] = c]
    BY <2>1, <2>3
  <2> HIDE DEF c
  <2> QED
    BY <1>1, <2>2, <2>4, <2>5, KeptByRevision
<1>14. ASSUME NEW f \in Names, Activated(f) PROVE Kept'
  <2>1. config' = [config EXCEPT ![f] = [config[f] EXCEPT !.state = "Active"]]
    BY <1>14 DEF Activated
  <2>2. \A g \in Names : config'[g].rev = config[g].rev
                         /\ config'[g].setting = config[g].setting
    BY <1>1, <2>1 DEF Typed, TypeOK, Configurations
  <2>3. UNCHANGED <<pc, at, read, edits>>
    BY <1>14 DEF Activated
  <2>4. FreshRead'
    <3> SUFFICES ASSUME NEW k \in Job, pc'[k] = "configure"
                 PROVE  /\ read'[k].rev <= Current(k)'.rev
                        /\ read'[k].rev = Current(k)'.rev
                             => read'[k].setting = Current(k)'.setting
      BY DEF FreshRead
    <3>1. pc[k] = "configure" /\ pc[k] \in Updating
      BY <2>3 DEF Updating
    <3>2. FunctionOf(k) \in Names /\ FunctionOf(k)' = FunctionOf(k)
      BY <1>7, <2>3, <3>1 DEF FunctionOf
    <3> QED
      BY <2>2, <2>3, <3>1, <3>2 DEF Kept, FreshRead, Current
  <2> QED
    BY <1>1, <2>2, <2>3, <2>4 DEF Kept, SettingsAreKept
<1>15. ASSUME NEW f \in Names, Edit(f) PROVE Kept'
  <2> DEFINE c == [config[f] EXCEPT !.setting = config[f].setting + 1,
                                    !.rev = config[f].rev + 1]
  <2>1. config' = [config EXCEPT ![f] = c]
    BY <1>1, <1>15 DEF Edit, Typed, TypeOK
  <2>2. c \in Configurations
    BY <1>1, Changed DEF Typed, TypeOK
  <2>3. c.rev = config[f].rev + 1 /\ c.setting = config[f].setting + 1
        /\ config[f].rev \in Nat
    BY <1>1 DEF Configurations, Typed, TypeOK
  <2>4. /\ UNCHANGED <<pc, at, read>> /\ edits'[f] = edits[f] + 1
        /\ \A g \in Names \ {f} : edits'[g] = edits[g]
    BY <1>1, <1>15 DEF Edit, Typed, TypeOK
  <2>5. c.setting = edits'[f]
    BY <2>3, <2>4 DEF Kept, SettingsAreKept
  <2>6. c.rev > config[f].rev
    BY <2>3
  <2> HIDE DEF c
  <2> QED
    BY <1>1, <2>1, <2>2, <2>4, <2>5, <2>6, KeptByRevision
<1> QED
  BY <1>2, <1>5, <1>6, <1>8, <1>9, <1>10, <1>11, <1>12, <1>13, <1>14, <1>15
     DEF Next, Update, Smoke

(* What operators have set stays, whatever deployments update the functions at *)
(* the same time: deploy-lambdas.cjs sends the environment that it has read    *)
(* back with the revision that it has read.                                    *)
THEOREM SettingsKept == Spec => []SettingsAreKept
<1>1. Kept => SettingsAreKept
  BY DEF Kept
<1> QED
  BY <1>1, InitKept, NextKept, PTL DEF Spec
-------------------------------------------------------------------------------
Early == {"idle", "queued"} \cup Building
Bundle == {"compiled", "bundled", "injected"}
Full == Bundle \cup {"compat"}

(* What is in the tree of a job; a workflow run has come there by every command. *)
Assembled(j) ==
  /\ dist[j] # {} => "compiled" \in dist[j]
  /\ archive[j] # None \/ pc[j] \in Updating => {"compiled", "compat"} \subseteq archive[j]
  /\ j \in Dispatched =>
       /\ pc[j] = "inject" => dist[j] = {"compiled", "bundled"}
       /\ pc[j] \in {"package", "verify", "upload"} => dist[j] = Bundle
       /\ pc[j] \in {"verify", "upload", "deploy"} \cup Updating => archive[j] = Full
       /\ pc[j] \in {"deploy"} \cup Updating => maps[j] = Bundle

(* A published version has the handlers under src/, and those under dist/ unless *)
(* it is the one from before; a workflow run's one is of its finished build.      *)
Published(f) ==
  /\ Len(versions[f]) > 0
  /\ \A i \in 1..Len(versions[f]) :
       LET v == versions[f][i] IN
       /\ "compat" \in v.contents
       /\ i > 1 => "compiled" \in v.contents
       /\ v.job \in Dispatched =>
            v.contents = Full /\ maps[v.job] = Bundle /\ pc[v.job] \notin Early

(* Handlers under dist/ are configured for functions with new code only. *)
Configured ==
  /\ \A f \in Names : config[f].handler = "dist" => Len(versions[f]) > 1
  /\ \A j \in Job : pc[j] \in {"waitCode", "read", "configure"}
                    => Len(versions[FunctionOf(j)]) > 1

Right ==
  /\ Typed /\ Configured
  /\ \A j \in Job : Assembled(j)
  /\ \A f \in Names : Published(f)

LEMMA InitRight == Init => Right
<1> SUFFICES ASSUME Init PROVE Right
  OBVIOUS
<1> USE DEF Init
<1>1. Configured
  BY DEF Configured
<1>2. \A j \in Job : Assembled(j)
  BY DEF Assembled, Updating
<1>3. \A f \in Names : Published(f)
  BY ConstantsAssumption DEF Published
<1> QED
  BY <1>1, <1>2, <1>3, InitTyped DEF Right

(* A step of a job that leaves the functions' code and handlers alone. *)
LEMMA RightAlone ==
  ASSUME Right, Typed', UNCHANGED versions,
         \A f \in Names : config'[f].handler = config[f].handler,
         NEW j \in Job, Assembled(j)',
         \A k \in Job \ {j} :
           /\ pc'[k] = pc[k] \/ pc'[k] = "cancelled"
           /\ dist'[k] = dist[k] /\ archive'[k] = archive[k] /\ maps'[k] = maps[k]
           /\ at'[k] = at[k],
         maps'[j] = maps[j] \/ pc[j] \in Early,
         pc'[j] \in Early => pc[j] \in Early,
         pc'[j] \in {"waitCode", "read", "configure"} => Len(versions[FunctionOf(j)']) > 1
  PROVE  Right'
<1> USE DEF Right
<1>1. Configured'
  BY DEF Configured, FunctionOf
<1>2. \A k \in Job : Assembled(k)'
  <2> SUFFICES ASSUME NEW k \in Job, k # j PROVE Assembled(k)'
    OBVIOUS
  <2>1. Assembled(k)
    OBVIOUS
  <2> QED
    BY <2>1 DEF Assembled, Updating
<1>3. \A f \in Names : Published(f)'
  <2> SUFFICES ASSUME NEW f \in Names PROVE Published(f)'
    OBVIOUS
  <2>1. Published(f)
    OBVIOUS
  <2>2. "cancelled" \notin Early
    BY DEF Early, Building
  <2>3. \A k \in Dispatched : pc[k] \notin Early => maps'[k] = maps[k] /\ pc'[k] \notin Early
    BY <2>2, ConstantsAssumption
  <2> QED
    BY <2>1, <2>3 DEF Published
<1> QED
  BY <1>1, <1>2, <1>3

(* A job that ends. *)
LEMMA RightAtEnd ==
  ASSUME Right, Typed', UNCHANGED lambda, NEW j \in Job, NEW how \in Ended, End(j, how)
  PROVE  Right'
<1>1. /\ pc'[j] = how /\ dist'[j] = {} /\ archive'[j] = None /\ maps' = maps
      /\ \A k \in Job \ {j} : /\ pc'[k] = pc[k] /\ dist'[k] = dist[k]
                              /\ archive'[k] = archive[k] /\ at'[k] = at[k]
  BY DEF End, Goto, Right, Typed, TypeOK
<1>2. Assembled(j)'
  BY <1>1 DEF Assembled, Ended, Updating
<1> QED
  BY <1>1, <1>2, RightAlone DEF Ended, Early, Building, lambda

(* The commands of the build. *)
LEMMA RightCommand ==
  ASSUME Right, Typed', NEW j \in Job, Dispatch(j) \/ Command(j)
  PROVE  Right'
<1> USE DEF tree, lambda
<1>1. Typed /\ Assembled(j)
  BY DEF Right
<1>2. ASSUME NEW step \in Early \cup {"deploy"}, Goto(j, step), UNCHANGED <<at, lambda>>,
             pc[j] \in Early, Assembled(j)',
             \A k \in Job \ {j} :
               dist'[k] = dist[k] /\ archive'[k] = archive[k] /\ maps'[k] = maps[k]
      PROVE  Right'
  <2>1. pc'[j] = step /\ \A k \in Job \ {j} : pc'[k] = pc[k]
    BY <1>1, <1>2 DEF Goto, Typed, TypeOK
  <2>2. pc'[j] \notin {"waitCode", "read", "configure"}
    BY <2>1 DEF Early, Building
  <2> QED
    BY <1>2, <2>1, <2>2, RightAlone
<1>3. CASE Dispatch(j)
  <2>1. /\ pc[j] = "idle" /\ pc'[j] = "queued"
        /\ \A k \in Job \ {j} : pc'[k] = pc[k] \/ pc'[k] = "cancelled"
    BY <1>1, <1>3 DEF Dispatch, Typed, TypeOK
  <2>2. Assembled(j)'
    BY <1>1, <1>3, <2>1 DEF Dispatch, Assembled, Updating
  <2>3. pc[j] \in Early /\ pc'[j] \notin {"waitCode", "read", "configure"}
    BY <2>1 DEF Early
  <2> QED
    BY <1>3, <2>1, <2>2, <2>3, RightAlone DEF Dispatch
<1>4. ASSUME NEW step, Goto(j, step) PROVE pc'[j] = step
  BY <1>1, <1>4 DEF Goto, Typed, TypeOK
<1>5. CASE Start(j)
  <2>1. Assembled(j)'
    BY <1>1, <1>4, <1>5 DEF Start, Assembled, Updating
  <2> QED
    BY <1>2, <1>5, <2>1 DEF Start, Early, Building
<1>6. CASE Build(j) \/ BundleFails(j)
  <2>1. PICK c : /\ dist' = [dist EXCEPT ![j] = c]
                 /\ c # {} => "compiled" \in c
                 /\ j \in Dispatched => c = {"compiled", "bundled"}
    BY <1>6 DEF Build, BundleFails
  <2>2. dist'[j] = c /\ \A k \in Job \ {j} : dist'[k] = dist[k]
    <3>1. dist' = [dist EXCEPT ![j] = c]
      BY <2>1
    <3>2. dist \in [Job -> Contents]
      BY <1>1 DEF Typed, TypeOK
    <3> QED
      BY <3>1, <3>2
  <2>3. Goto(j, "inject") /\ UNCHANGED <<archive, maps>> /\ pc[j] = "build"
    BY <1>6 DEF Build, BundleFails, After
  <2>4. Assembled(j)'
    <3>1. pc'[j] = "inject"
      BY <1>4, <2>3
    <3>2. /\ dist'[j] # {} => "compiled" \in dist'[j]
          /\ j \in Dispatched => dist'[j] = {"compiled", "bundled"}
      BY <2>1, <2>2
    <3> QED
      BY <1>1, <2>3, <3>1, <3>2 DEF Assembled, Updating
  <2> QED
    BY <1>2, <1>6, <2>2, <2>3, <2>4 DEF Build, BundleFails, Early, Building
<1>7. CASE Inject(j)
  <2>1. dist'[j] = dist[j] \cup {"injected"} /\ \A k \in Job \ {j} : dist'[k] = dist[k]
    BY <1>1, <1>7 DEF Inject, Typed, TypeOK
  <2>2. Goto(j, "package") /\ UNCHANGED <<archive, maps>> /\ pc[j] = "inject" /\ dist[j] # {}
    BY <1>7 DEF Inject, After
  <2>3. pc'[j] = "package"
    BY <1>4, <2>2
  <2>4. j \in Dispatched => dist'[j] = Bundle
    BY <1>1, <2>1, <2>2 DEF Assembled, Bundle
  <2>5. "compiled" \in dist'[j]
    BY <1>1, <2>1, <2>2 DEF Assembled
  <2>6. Assembled(j)'
    BY <1>1, <2>2, <2>3, <2>4, <2>5 DEF Assembled, Updating
  <2> QED
    BY <1>2, <1>7, <2>1, <2>2, <2>6 DEF Inject, Early, Building
<1>8. CASE Package(j)
  <2>1. /\ archive'[j] = dist[j] \cup {"compat"}
        /\ \A k \in Job \ {j} : archive'[k] = archive[k]
    BY <1>1, <1>8 DEF Package, Typed, TypeOK
  <2>2. Goto(j, "verify") /\ UNCHANGED <<dist, maps>> /\ pc[j] = "package" /\ dist[j] # {}
    BY <1>8 DEF Package, After
  <2>3. pc'[j] = "verify"
    BY <1>4, <2>2
  <2>4. {"compiled", "compat"} \subseteq archive'[j]
    BY <1>1, <2>1, <2>2 DEF Assembled
  <2>5. j \in Dispatched => dist'[j] = Bundle /\ archive'[j] = Full
    BY <1>1, <2>1, <2>2 DEF Assembled, Full
  <2>6. Assembled(j)'
    BY <1>1, <2>2, <2>3, <2>4, <2>5 DEF Assembled, Updating
  <2> QED
    BY <1>2, <1>8, <2>1, <2>2, <2>6 DEF Package, Early, Building
<1>9. CASE Verify(j)
  <2>1. Goto(j, "upload") /\ UNCHANGED tree /\ pc[j] = "verify"
    BY <1>9 DEF Verify, After
  <2>2. Assembled(j)'
    BY <1>1, <1>4, <2>1 DEF Assembled, Updating
  <2> QED
    BY <1>2, <1>9, <2>1, <2>2 DEF Verify, Early, Building
<1>10. CASE Upload(j)
  <2>1. maps'[j] = dist[j] /\ \A k \in Job \ {j} : maps'[k] = maps[k]
    BY <1>1, <1>10 DEF Upload, Typed, TypeOK
  <2>2. Goto(j, "deploy") /\ UNCHANGED <<dist, archive>> /\ pc[j] = "upload"
    BY <1>10 DEF Upload, After
  <2>3. Assembled(j)'
    BY <1>1, <1>4, <2>1, <2>2 DEF Assembled, Updating
  <2> QED
    BY <1>2, <1>10, <2>1, <2>2, <2>3 DEF Upload, Early, Building
<1>11. CASE Skip(j)
  <2>1. PICK step \in {"package", "upload", "deploy"} : Goto(j, step)
    BY <1>11 DEF Skip, After
  <2>2. Assembled(j)'
    BY <1>1, <1>4, <1>11, <2>1 DEF Skip, Assembled, Updating
  <2> QED
    BY <1>2, <1>11, <2>1, <2>2 DEF Skip, Early, Building
<1>12. CASE Fails(j)
  BY <1>12, RightAtEnd DEF Fails, Ended
<1> QED
  BY <1>3, <1>5, <1>6, <1>7, <1>8, <1>9, <1>10, <1>11, <1>12 DEF Command

(* A step of an update or of a smoke test that publishes nothing. *)
LEMMA RightStep ==
  ASSUME Right, Typed', UNCHANGED <<tree, versions>>,
         \A f \in Names : config'[f].handler = config[f].handler,
         NEW j \in Job, pc[j] \in Updating \cup Smoking \cup {"deploy"},
         NEW step \in Updating \cup Smoking, Goto(j, step),
         step \in Updating
           => pc[j] \in Updating \/ (pc[j] = "deploy" /\ archive[j] # None),
         \A k \in Job \ {j} : at'[k] = at[k],
         step \in {"waitCode", "read", "configure"} => Len(versions[FunctionOf(j)']) > 1
  PROVE  Right'
<1> USE DEF tree
<1>1. pc'[j] = step /\ \A k \in Job \ {j} : pc'[k] = pc[k]
  BY DEF Goto, Right, Typed, TypeOK
<1>2. pc'[j] \notin Early \cup {"inject", "package", "verify", "upload", "deploy"}
  BY <1>1 DEF Early, Building, Updating, Smoking
<1>3. Assembled(j)'
  <2>1. Assembled(j)
    BY DEF Right
  <2> QED
    BY <1>1, <1>2, <2>1 DEF Assembled
<1> QED
  BY <1>1, <1>2, <1>3, RightAlone

(* The code of a function is updated. *)
LEMMA RightUpdateCode ==
  ASSUME Right, Typed', NEW j \in Job, UpdateCode(j)
  PROVE  Right'
<1> DEFINE f == FunctionOf(j)
           v == [job |-> j, contents |-> archive[j]]
<1> USE DEF tree
<1>1. Typed /\ Assembled(j) /\ pc[j] = "code" /\ pc[j] \in Updating
  BY DEF Right, UpdateCode, Updating
<1>2. f \in Names /\ archive[j] \in Contents /\ config[f] \in Configurations
  BY <1>1, FunctionType DEF Typed, TypeOK, Prepared
<1>3. /\ versions' = [versions EXCEPT ![f] = Append(@, v)]
      /\ UNCHANGED <<tree, at>>
      /\ pc' = [pc EXCEPT ![j] = "waitCode"]
  BY DEF UpdateCode, Goto
<1>4. pc'[j] = "waitCode" /\ \A k \in Job \ {j} : pc'[k] = pc[k]
  BY <1>1, <1>3 DEF Typed, TypeOK
<1>5. versions'[f] = Append(versions[f], v) /\ \A g \in Names \ {f} : versions'[g] = versions[g]
  BY <1>1, <1>2, <1>3 DEF Typed, TypeOK
<1>6. /\ versions[f] \in Seq([job : Job \cup {None}, contents : Contents])
      /\ v \in [job : Job \cup {None}, contents : Contents]
  BY <1>1, <1>2 DEF Typed, TypeOK
<1>7. /\ Len(versions'[f]) = Len(versions[f]) + 1 /\ Len(versions[f]) \in Nat
      /\ \A i \in 1..Len(versions[f]) : versions'[f][i] = versions[f][i]
      /\ versions'[f][Len(versions[f]) + 1] = v
  <2> HIDE DEF v, f
  <2> QED
    BY <1>5, <1>6, AppendProperties
<1>8. Published(f)
  BY <1>2 DEF Right
<1>9. Len(versions'[f]) > 1 /\ \A g \in Names : Len(versions'[g]) >= Len(versions[g])
  <2>1. \A g \in Names : Len(versions[g]) \in Nat
    BY <1>1 DEF Typed, TypeOK
  <2>2. Len(versions[f]) > 0
    BY <1>8 DEF Published
  <2> HIDE DEF f, v
  <2>3. \A g \in Names : g = f \/ versions'[g] = versions[g]
    BY <1>5
  <2> QED
    BY <1>7, <2>1, <2>2, <2>3
<1>10. \A g \in Names : config'[g].handler = config[g].handler
  <2>1. config' = [config EXCEPT ![f] = [config[f] EXCEPT !.rev = config[f].rev + 1,
                                                          !.update = "InProgress"]]
    BY <1>1, <1>2 DEF UpdateCode, Typed, TypeOK
  <2> HIDE DEF f
  <2> QED
    BY <1>1, <1>2, <2>1 DEF Typed, TypeOK, Configurations
<1>11. Configured'
  <2>1. \A k \in Job : pc[k] \in Updating => FunctionOf(k)' = FunctionOf(k)
                                             /\ FunctionOf(k) \in Names
    BY <1>1, <1>3, FunctionType DEF FunctionOf, Typed, Prepared
  <2>2. \A g \in Names : Len(versions[g]) \in Nat /\ Len(versions'[g]) \in Nat
    BY <1>1 DEF Typed, TypeOK
  <2>3. ASSUME NEW k \in Job, pc'[k] \in {"waitCode", "read", "configure"}
        PROVE  Len(versions'[FunctionOf(k)']) > 1
    <3>1. pc[k] \in Updating
      BY <1>1, <1>4, <2>3 DEF Updating
    <3>2. CASE k = j
      BY <1>9, <2>1, <3>1, <3>2
    <3>3. CASE k # j
      <4>1. Len(versions[FunctionOf(k)]) > 1
        BY <1>4, <2>3, <3>3 DEF Right, Configured
      <4> HIDE DEF f
      <4> QED
        BY <1>9, <2>1, <2>2, <3>1, <4>1
    <3> QED
      BY <3>2, <3>3
  <2>4. ASSUME NEW g \in Names, config'[g].handler = "dist" PROVE Len(versions'[g]) > 1
    <3>1. Len(versions[g]) > 1
      BY <1>10, <2>4 DEF Right, Configured
    <3> QED
      BY <1>9, <2>2, <3>1
  <2> QED
    BY <2>3, <2>4 DEF Configured
<1>12. \A k \in Job : Assembled(k)'
  <2> SUFFICES ASSUME NEW k \in Job PROVE Assembled(k)'
    OBVIOUS
  <2>1. Assembled(k)
    BY DEF Right
  <2> QED
    BY <1>1, <1>3, <1>4, <2>1 DEF Assembled, Updating
<1>13. \A g \in Names : Published(g)'
  <2> SUFFICES ASSUME NEW g \in Names PROVE Published(g)'
    OBVIOUS
  <2>1. Published(g) /\ Len(versions[g]) \in Nat
    BY <1>1 DEF Right, Typed, TypeOK
  <2>2. \A k \in Job : pc[k] \notin Early => pc'[k] \notin Early
    BY <1>4 DEF Early, Building
  <2>3. maps' = maps /\ \A k \in Dispatched : k \in Job
    BY <1>3, ConstantsAssumption
  <2>4. CASE g # f
    <3>1. versions'[g] = versions[g]
      BY <1>5, <2>4
    <3> QED
      BY <2>1, <2>2, <2>3, <3>1 DEF Published
  <2>5. CASE g = f
    <3>1. /\ "compat" \in v.contents /\ "compiled" \in v.contents
          /\ v.job \in Dispatched =>
               v.contents = Full /\ maps[v.job] = Bundle /\ pc'[v.job] \notin Early
      BY <1>1, <1>4 DEF Assembled, Early, Building
    <3> HIDE DEF v, f
    <3>2. \A i \in 1..Len(versions'[f]) : i \in 1..Len(versions[f]) \/ i = Len(versions[f]) + 1
      BY <1>7
    <3>3. \A i \in 1..Len(versions[f]) :
            LET w == versions'[f][i] IN
            /\ "compat" \in w.contents
            /\ i > 1 => "compiled" \in w.contents
            /\ w.job \in Dispatched =>
                 w.contents = Full /\ maps'[w.job] = Bundle /\ pc'[w.job] \notin Early
      BY <1>7, <1>8, <2>2, <2>3 DEF Published
    <3> QED
      BY <1>7, <2>3, <2>5, <3>1, <3>2, <3>3 DEF Published
  <2> QED
    BY <2>4, <2>5
<1> QED
  BY <1>11, <1>12, <1>13 DEF Right

(* The configuration of a function is updated. *)
LEMMA RightUpdateConfiguration ==
  ASSUME Right, Typed', NEW j \in Job, UpdateConfiguration(j)
  PROVE  Right'
<1> DEFINE f == FunctionOf(j)
<1> USE DEF tree
<1>1. /\ Typed /\ pc[j] = "configure" /\ pc[j] \in Updating
      /\ UNCHANGED <<tree, at, versions>>
  BY DEF Right, UpdateConfiguration, Updating
<1>2. f \in Names
  BY <1>1, FunctionType DEF Typed, Prepared
<1>3. pc'[j] = "waitConfig" /\ \A k \in Job \ {j} : pc'[k] = pc[k]
  BY <1>1 DEF UpdateConfiguration, Goto, Typed, TypeOK
<1>4. \A g \in Names \ {f} : config'[g] = config[g]
  BY <1>1, <1>2 DEF UpdateConfiguration, Typed, TypeOK
<1>5. Len(versions[f]) > 1
  BY <1>1 DEF Right, Configured
<1>6. Configured'
  <2>1. \A k \in Job : FunctionOf(k)' = FunctionOf(k)
    BY <1>1 DEF FunctionOf
  <2>2. \A g \in Names : config'[g].handler = "dist" => Len(versions[g]) > 1
    BY <1>4, <1>5 DEF Right, Configured
  <2> QED
    BY <1>1, <1>3, <2>1, <2>2 DEF Right, Configured
<1>7. \A k \in Job : Assembled(k)'
  <2> SUFFICES ASSUME NEW k \in Job PROVE Assembled(k)'
    OBVIOUS
  <2>1. Assembled(k)
    BY DEF Right
  <2> QED
    BY <1>1, <1>3, <2>1 DEF Assembled, Updating
<1>8. \A g \in Names : Published(g)'
  <2> SUFFICES ASSUME NEW g \in Names PROVE Published(g)'
    OBVIOUS
  <2>1. Published(g) /\ \A k \in Dispatched : k \in Job
    BY ConstantsAssumption DEF Right
  <2>2. \A k \in Job : pc[k] \notin Early => pc'[k] \notin Early
    BY <1>3 DEF Early, Building
  <2> QED
    BY <1>1, <2>1, <2>2 DEF Published
<1> QED
  BY <1>6, <1>7, <1>8 DEF Right

LEMMA NextRight == Right /\ [Next]_vars => Right'
<1> SUFFICES ASSUME Right, [Next]_vars PROVE Right'
  OBVIOUS
<1> USE DEF tree, lambda
<1>1. Typed /\ Typed'
  BY NextTyped DEF Right
<1>2. CASE UNCHANGED vars
  BY <1>1, <1>2 DEF vars, Right, Configured, FunctionOf, Assembled, Published
<1>3. ASSUME NEW j \in Job, Dispatch(j) \/ Command(j) PROVE Right'
  BY <1>1, <1>3, RightCommand
<1>4. ASSUME NEW j \in Job, UpdateCode(j) \/ UpdateConfiguration(j) PROVE Right'
  BY <1>1, <1>4, RightUpdateCode, RightUpdateConfiguration
<1>5. ASSUME NEW j \in Job, BeginDeployment(j) PROVE Right'
  <2>1. /\ Goto(j, "revision") /\ \A k \in Job \ {j} : at'[k] = at[k]
        /\ pc[j] = "deploy" /\ archive[j] # None
    BY <1>1, <1>5 DEF BeginDeployment, Begin, Typed, TypeOK
  <2> QED
    BY <1>1, <1>5, <2>1, RightStep DEF BeginDeployment, Updating
<1>6. ASSUME NEW j \in Job, GetRevision(j) PROVE Right'
  BY <1>1, <1>6, RightStep DEF GetRevision, Updating
<1>7. ASSUME NEW j \in Job, Refused(j) PROVE Right'
  BY <1>1, <1>7, RightAtEnd DEF Refused, Ended
<1>8. ASSUME NEW j \in Job, WaitUpdated(j) \/ GetConfiguration(j) PROVE Right'
  <2>1. CASE End(j, "failed")
    BY <1>1, <1>8, <2>1, RightAtEnd DEF WaitUpdated, GetConfiguration, Ended
  <2>2. CASE ~End(j, "failed")
    <3>1. /\ pc[j] \in Updating /\ UNCHANGED <<tree, at, lambda>>
          /\ \E step \in {"read", "final", "configure"} :
               /\ Goto(j, step)
               /\ step # "final" => pc[j] \in {"waitCode", "read"}
      BY <1>8, <2>2 DEF WaitUpdated, GetConfiguration, Updating
    <3>2. pc[j] \in {"waitCode", "read"} => Len(versions[FunctionOf(j)]) > 1
      BY DEF Right, Configured
    <3>3. FunctionOf(j)' = FunctionOf(j)
      BY <3>1 DEF FunctionOf
    <3> QED
      BY <1>1, <3>1, <3>2, <3>3, RightStep DEF Updating
  <2> QED
    BY <2>1, <2>2
<1>9. ASSUME NEW j \in Job, FinalCheck(j) PROVE Right'
  <2>1. CASE End(j, "failed")
    BY <1>1, <1>9, <2>1, RightAtEnd DEF FinalCheck, Ended
  <2>2. CASE ~End(j, "failed")
    <3>1. /\ pc[j] \in Updating /\ UNCHANGED <<tree, lambda>>
          /\ \E step \in {"invoke", "revision"} : Goto(j, step)
      BY <1>9, <2>2 DEF FinalCheck, Begin, Updating
    <3>2. \A k \in Job \ {j} : at'[k] = at[k]
      BY <1>1, <1>9, <2>2 DEF FinalCheck, Begin, Typed, TypeOK
    <3> QED
      BY <1>1, <3>1, <3>2, RightStep DEF Updating, Smoking
  <2> QED
    BY <2>1, <2>2
<1>10. ASSUME NEW j \in Job, Invoke(j) PROVE Right'
  <2>1. pc[j] \in Smoking /\ UNCHANGED <<versions, edits>>
    BY <1>10 DEF Invoke, Smoking
  <2>2. CASE Answered(j)
    <3>1. CASE End(j, "passed")
      BY <1>1, <2>1, <2>2, <3>1, RightAtEnd DEF Answered, Ended
    <3>2. CASE ~End(j, "passed")
      <4>1. Goto(j, "invoke") /\ UNCHANGED <<tree, config>>
        BY <2>2, <3>2 DEF Answered
      <4>2. \A k \in Job \ {j} : at'[k] = at[k]
        BY <1>1, <2>2, <3>2 DEF Answered, Typed, TypeOK
      <4> QED
        BY <1>1, <2>1, <4>1, <4>2, RightStep DEF Updating, Smoking
    <3> QED
      BY <3>1, <3>2
  <2>3. CASE Wakes(j)
    <3>1. FunctionOf(j) \in Names
      BY <1>1, <2>1, FunctionType DEF Typed, Prepared
    <3>2. \A g \in Names : config'[g].handler = config[g].handler
      BY <1>1, <2>3, <3>1 DEF Wakes, Typed, TypeOK, Configurations
    <3> QED
      BY <1>1, <2>1, <2>3, <3>2, RightStep DEF Wakes, Updating, Smoking
  <2> QED
    BY <1>10, <2>2, <2>3 DEF Invoke
<1>11. ASSUME NEW j \in Job, WaitActive(j) PROVE Right'
  BY <1>1, <1>11, RightStep DEF WaitActive, Updating, Smoking
<1>12. ASSUME NEW f \in Names, UpdateEnds(f) \/ Activated(f) \/ Edit(f) PROVE Right'
  <2>1. UNCHANGED <<pc, tree, at, read, versions>>
    BY <1>12 DEF UpdateEnds, Activated, Edit
  <2>2. \A g \in Names : config'[g].handler = config[g].handler
    <3>1. CASE UpdateEnds(f)
      <4>1. PICK status \in {"Successful", "Failed"} :
              config' = [config EXCEPT ![f] =
                           [config[f] EXCEPT !.update = status, !.rev = config[f].rev + 1]]
        BY <1>1, <3>1 DEF UpdateEnds, Typed, TypeOK
      <4> QED
        BY <1>1, <4>1 DEF Typed, TypeOK, Configurations
    <3>2. CASE Activated(f)
      BY <1>1, <3>2 DEF Activated, Typed, TypeOK, Configurations
    <3>3. CASE Edit(f)
      <4>1. config' = [config EXCEPT ![f] =
                         [config[f] EXCEPT !.setting = config[f].setting + 1,
                                           !.rev = config[f].rev + 1]]
        BY <1>1, <3>3 DEF Edit, Typed, TypeOK
      <4> QED
        BY <1>1, <4>1 DEF Typed, TypeOK, Configurations
    <3> QED
      BY <1>12, <3>1, <3>2, <3>3
  <2> QED
    BY <1>1, <2>1, <2>2 DEF Right, Configured, FunctionOf, Assembled, Published
<1> QED
  BY <1>2, <1>3, <1>4, <1>5, <1>6, <1>7, <1>8, <1>9, <1>10, <1>11, <1>12
     DEF Next, Update, Smoke

LEMMA RightIsRight == Right => FunctionsAreRight
<1> SUFFICES ASSUME Right PROVE FunctionsAreRight
  OBVIOUS
<1>1. TypeOK
  BY DEF Right, Typed
<1>2. \A f \in Names : /\ Published(f) /\ Len(versions[f]) \in Nat
                       /\ config[f].handler \in {"src", "dist"}
                       /\ config[f].handler = "dist" => Len(versions[f]) > 1
  BY <1>1 DEF Right, Configured, TypeOK, Configurations
<1>3. HandlerExists
  BY <1>2 DEF HandlerExists, Runs, Published
<1>4. ReleasesAreVerified
  <2>1. Full = {"compiled", "bundled", "injected", "compat"} /\ Bundle = Full \ {"compat"}
    BY DEF Full, Bundle
  <2> QED
    BY <1>2, <2>1 DEF ReleasesAreVerified, Published
<1> QED
  BY <1>1, <1>3, <1>4 DEF FunctionsAreRight

(* Whatever jobs run, fail or skip at the same time: every command leaves what  *)
(* it should, a function always has the handler that it is configured with, and *)
(* what a workflow run publishes is the verified build whose source maps it has *)
(* uploaded (package-lambda.cjs, deploy-lambdas.cjs, staging.yml).              *)
THEOREM FunctionsRight == Spec => []FunctionsAreRight
  BY InitRight, NextRight, RightIsRight, PTL DEF Spec
-------------------------------------------------------------------------------
(* The workflow's concurrency group has one run at a time. *)
OneRun ==
  \A j, k \in Dispatched : pc[j] \in Running /\ pc[k] \in Running => j = k

(* A function that a job has finished with: it has published there, the         *)
(* configuration is the new one, and no other workflow run has published since. *)
Finished(j, w) ==
  /\ \E n \in 1..Len(versions[w]) : versions[w][n].job = j
  /\ config[w].handler = "dist" /\ config[w].sentry
  /\ j \in Dispatched => Runs(w).job \in {j} \cup (Job \ Dispatched)

(* A job that updates a function has finished with those before it, and one that *)
(* tests has finished with all of its functions.                                 *)
InTurn(j) ==
  pc[j] \in Updating \cup Smoking =>
    /\ at[j] \in SelectFunctions(j)
    /\ \A k \in SelectFunctions(j) :
         pc[j] \in Smoking \/ k < at[j] => Finished(j, Functions[k])

Ordered == Right /\ OneRun /\ \A j \in Job : InTurn(j)

LEMMA SelectType ==
  ASSUME NEW j \in Job
  PROVE  SelectFunctions(j) \subseteq 1..Len(Functions)
         /\ \A k \in SelectFunctions(j) : Functions[k] \in Names
  BY DEF SelectFunctions, Names

(* A step that publishes nothing and takes back no configuration, of a job that *)
(* ends, goes on, or starts while no other runs.                                *)
LEMMA OrderedAlone ==
  ASSUME Ordered, Right', UNCHANGED versions,
         \A f \in Names : /\ config'[f].handler \in {"dist", config[f].handler}
                          /\ config'[f].sentry \/ config'[f].sentry = config[f].sentry,
         NEW j \in Job, InTurn(j)',
         \A k \in Job \ {j} : at'[k] = at[k] /\ (pc'[k] = pc[k] \/ pc'[k] = "cancelled"),
         \/ pc[j] \in Running
         \/ pc'[j] \notin Running
         \/ j \notin Dispatched
         \/ \A k \in Dispatched : pc[k] \notin Running
  PROVE  Ordered'
<1> USE DEF Ordered
<1>1. "cancelled" \notin Running
  BY DEF Running, Building, Updating, Smoking
<1>2. \A k \in Dispatched : k \in Job
  BY ConstantsAssumption
<1>3. OneRun'
  BY <1>1, <1>2 DEF OneRun
<1>4. ASSUME NEW k \in Job \ {j} PROVE InTurn(k)'
  <2>1. InTurn(k) /\ SelectFunctions(k)' = SelectFunctions(k)
    BY DEF SelectFunctions
  <2>2. ASSUME NEW w \in Names, Finished(k, w) PROVE Finished(k, w)'
    BY <2>2 DEF Finished, Runs
  <2>3. pc'[k] \in Updating \cup Smoking => pc'[k] = pc[k]
    BY DEF Updating, Smoking
  <2> QED
    BY <2>1, <2>2, <2>3, SelectType DEF InTurn
<1> QED
  BY <1>3, <1>4

(* A job that updates or tests goes on with the same function. *)
LEMMA OrderedOn ==
  ASSUME Ordered, Right', UNCHANGED <<versions, at>>,
         \A f \in Names : /\ config'[f].handler \in {"dist", config[f].handler}
                          /\ config'[f].sentry \/ config'[f].sentry = config[f].sentry,
         NEW j \in Job, NEW step, Goto(j, step),
         \/ pc[j] \in Updating /\ step \in Updating
         \/ pc[j] \in Smoking /\ step \in Smoking
  PROVE  Ordered'
<1>1. pc'[j] = step /\ \A k \in Job \ {j} : pc'[k] = pc[k]
  BY DEF Goto, Ordered, Right, Typed, TypeOK
<1>2. InTurn(j)'
  <2>1. InTurn(j) /\ SelectFunctions(j)' = SelectFunctions(j)
    BY DEF SelectFunctions, Ordered
  <2>2. ASSUME NEW w \in Names, Finished(j, w) PROVE Finished(j, w)'
    BY <2>2 DEF Finished, Runs
  <2>3. pc'[j] \in Smoking => pc[j] \in Smoking
    BY <1>1 DEF Updating, Smoking
  <2> QED
    BY <1>1, <2>1, <2>2, <2>3, SelectType DEF InTurn
<1> QED
  BY <1>1, <1>2, OrderedAlone DEF Running

(* A job that ends, or that has not begun to update. *)
LEMMA OrderedBefore ==
  ASSUME Ordered, Right', UNCHANGED lambda, NEW j \in Job,
         pc'[j] \notin Updating \cup Smoking,
         \A k \in Job \ {j} : at'[k] = at[k] /\ (pc'[k] = pc[k] \/ pc'[k] = "cancelled"),
         \/ pc[j] \in Running
         \/ pc'[j] \notin Running
         \/ j \notin Dispatched
         \/ \A k \in Dispatched : pc[k] \notin Running
  PROVE  Ordered'
<1>1. InTurn(j)'
  BY DEF InTurn
<1> QED
  BY <1>1, OrderedAlone DEF lambda

LEMMA OrderedAtEnd ==
  ASSUME Ordered, Right', UNCHANGED lambda, NEW j \in Job, NEW how \in Ended, End(j, how)
  PROVE  Ordered'
<1>1. /\ pc'[j] = how
      /\ \A k \in Job \ {j} : pc'[k] = pc[k] /\ at'[k] = at[k]
  BY DEF End, Goto, Ordered, Right, Typed, TypeOK
<1>2. pc'[j] \notin Running
  BY <1>1 DEF Ended, Running, Building, Updating, Smoking
<1> QED
  BY <1>1, <1>2, OrderedBefore DEF Running

LEMMA OrderedCommand ==
  ASSUME Ordered, Right', NEW j \in Job, Dispatch(j) \/ Command(j)
  PROVE  Ordered'
<1> USE DEF tree, lambda
<1>1. Typed
  BY DEF Ordered, Right
<1>2. CASE Dispatch(j)
  <2>1. /\ pc'[j] = "queued" /\ UNCHANGED <<at, lambda>>
        /\ \A k \in Job \ {j} : pc'[k] = pc[k] \/ pc'[k] = "cancelled"
    BY <1>1, <1>2 DEF Dispatch, Typed, TypeOK
  <2>2. pc'[j] \notin Running
    BY <2>1 DEF Running, Building, Updating, Smoking
  <2> QED
    BY <2>1, <2>2, OrderedBefore DEF Running
<1>3. CASE Fails(j)
  BY <1>3, OrderedAtEnd DEF Fails, Ended
<1>4. CASE Command(j) /\ ~Fails(j)
  <2>1. PICK step \in {"build", "inject", "package", "verify", "upload", "deploy"} :
          Goto(j, step)
    BY <1>4 DEF Command, Start, Build, BundleFails, Inject, Package, Verify, Upload, Skip,
                After
  <2>2. UNCHANGED <<at, lambda>>
    BY <1>4 DEF Command, Start, Build, BundleFails, Inject, Package, Verify, Upload, Skip
  <2>3. \/ pc[j] \in Running \/ j \notin Dispatched
        \/ \A k \in Dispatched : pc[k] \notin Running
    BY <1>4 DEF Command, Start, Build, BundleFails, Inject, Package, Verify, Upload, Skip,
                Running, Building
  <2>4. pc'[j] = step /\ \A k \in Job \ {j} : pc'[k] = pc[k]
    BY <1>1, <2>1 DEF Goto, Typed, TypeOK
  <2>5. pc'[j] \notin Updating \cup Smoking
    BY <2>4 DEF Updating, Smoking
  <2> QED
    BY <2>2, <2>3, <2>4, <2>5, OrderedBefore
<1> QED
  BY <1>2, <1>3, <1>4

(* The code of a function is updated: what others have finished with stays so. *)
LEMMA OrderedUpdateCode ==
  ASSUME Ordered, Right', NEW j \in Job, UpdateCode(j)
  PROVE  Ordered'
<1> DEFINE f == FunctionOf(j)
           v == [job |-> j, contents |-> archive[j]]
<1>1. /\ Typed /\ pc[j] = "code" /\ UNCHANGED at
      /\ versions' = [versions EXCEPT ![f] = Append(@, v)]
      /\ pc' = [pc EXCEPT ![j] = "waitCode"]
  BY DEF Ordered, Right, UpdateCode, Goto
<1>2. f \in Names /\ archive[j] \in Contents
  BY <1>1, FunctionType DEF Typed, TypeOK, Prepared, Updating
<1>3. pc'[j] = "waitCode" /\ \A k \in Job \ {j} : pc'[k] = pc[k]
  BY <1>1 DEF Typed, TypeOK
<1>4. versions'[f] = Append(versions[f], v) /\ \A w \in Names \ {f} : versions'[w] = versions[w]
  BY <1>1, <1>2 DEF Typed, TypeOK
<1>5. /\ versions[f] \in Seq([job : Job \cup {None}, contents : Contents])
      /\ v \in [job : Job \cup {None}, contents : Contents]
  BY <1>1, <1>2 DEF Typed, TypeOK
<1>6. /\ Len(versions'[f]) = Len(versions[f]) + 1 /\ Len(versions[f]) \in Nat
      /\ \A i \in 1..Len(versions[f]) : versions'[f][i] = versions[f][i]
      /\ versions'[f][Len(versions'[f])].job = j
  <2>1. v.job = j
    OBVIOUS
  <2> HIDE DEF v, f
  <2>2. versions'[f][Len(versions[f]) + 1] = v /\ Len(versions'[f]) = Len(versions[f]) + 1
    BY <1>4, <1>5, AppendProperties
  <2> QED
    BY <1>4, <1>5, <2>1, <2>2, AppendProperties
<1>7. \A w \in Names : config'[w].handler = config[w].handler
                       /\ config'[w].sentry = config[w].sentry
  <2>1. config' = [config EXCEPT ![f] = [config[f] EXCEPT !.rev = config[f].rev + 1,
                                                          !.update = "InProgress"]]
    BY <1>1, <1>2 DEF UpdateCode, Typed, TypeOK
  <2> HIDE DEF f
  <2> QED
    BY <1>1, <1>2, <2>1 DEF Typed, TypeOK, Configurations
<1>8. ASSUME NEW k \in Job, pc[k] \in Updating \cup Smoking, NEW w \in Names, Finished(k, w)
      PROVE  Finished(k, w)'
  <2>1. \E n \in 1..Len(versions'[w]) : versions'[w][n].job = k
    <3>1. PICK n \in 1..Len(versions[w]) : versions[w][n].job = k
      BY <1>8 DEF Finished
    <3> HIDE DEF f, v
    <3>2. CASE w = f
      BY <1>6, <3>1, <3>2
    <3>3. CASE w # f
      BY <1>4, <3>1, <3>3
    <3> QED
      BY <3>2, <3>3
  <2>2. k \in Dispatched => Runs(w)'.job \in {k} \cup (Job \ Dispatched)
    <3>1. j \in Dispatched /\ k \in Dispatched => j = k
      BY <1>1, <1>8 DEF Ordered, OneRun, Running, Updating
    <3> HIDE DEF f, v
    <3>2. CASE w = f
      BY <1>6, <3>1, <3>2 DEF Runs
    <3>3. CASE w # f
      BY <1>4, <1>8, <3>3 DEF Finished, Runs
    <3> QED
      BY <3>2, <3>3
  <2> QED
    BY <1>7, <1>8, <2>1, <2>2 DEF Finished
<1>9. \A k \in Job : InTurn(k)'
  <2> SUFFICES ASSUME NEW k \in Job PROVE InTurn(k)'
    OBVIOUS
  <2>1. InTurn(k) /\ SelectFunctions(k)' = SelectFunctions(k)
    BY DEF SelectFunctions, Ordered
  <2>2. /\ pc'[k] \in Updating <=> pc[k] \in Updating
        /\ pc'[k] \in Smoking <=> pc[k] \in Smoking
    BY <1>1, <1>3 DEF Updating, Smoking
  <2> QED
    BY <1>1, <1>8, <2>1, <2>2, SelectType DEF InTurn
<1>10. OneRun'
  BY <1>1, <1>3, ConstantsAssumption DEF Ordered, OneRun, Running, Updating
<1> QED
  BY <1>9, <1>10 DEF Ordered

(* The function of a final check that passes is finished with. *)
LEMMA OrderedFinalCheck ==
  ASSUME Ordered, Right', NEW j \in Job, FinalCheck(j)
  PROVE  Ordered'
<1> USE DEF tree, lambda
<1>1. Typed /\ InTurn(j) /\ pc[j] = "final" /\ pc[j] \in Updating /\ UNCHANGED lambda
  BY DEF Ordered, Right, FinalCheck, Updating
<1>2. CASE Mismatch(j)
  BY <1>2, OrderedAtEnd DEF FinalCheck, Ended
<1>3. CASE ~Mismatch(j)
  <2> DEFINE f == FunctionOf(j)
             next == Following(j, at[j])
  <2>1. at[j] \in SelectFunctions(j) /\ at[j] \in 0..Len(Functions) /\ f \in Names
    BY <1>1, SelectType DEF InTurn, Typed, TypeOK, FunctionOf
  <2>2. Finished(j, f)
    <3>1. Len(versions[f]) \in Nat /\ Len(versions[f]) > 0
      BY <1>1, <2>1 DEF Ordered, Right, Published, Typed, TypeOK
    <3>2. Runs(f).job = j /\ Len(versions[f]) \in 1..Len(versions[f])
      BY <1>3, <3>1 DEF Mismatch, Runs
    <3> QED
      BY <1>3, <3>2 DEF Mismatch, Finished, Runs
  <2>3. \A k \in SelectFunctions(j) : k <= at[j] => Finished(j, Functions[k])
    <3> SUFFICES ASSUME NEW k \in SelectFunctions(j), k <= at[j]
                 PROVE  Finished(j, Functions[k])
      OBVIOUS
    <3>1. CASE k = at[j]
      BY <2>2, <3>1 DEF FunctionOf
    <3>2. CASE k < at[j]
      BY <1>1, <3>2 DEF InTurn
    <3> QED
      BY <2>1, <3>1, <3>2, SelectType, ConstantsAssumption
  <2>4. \A w \in Names : Finished(j, w)' <=> Finished(j, w)
    BY <1>1 DEF Finished, Runs
  <2>5. SelectFunctions(j)' = SelectFunctions(j)
    BY DEF SelectFunctions
  <2>6. CASE next = 0
    <3>1. /\ pc'[j] = "invoke" /\ \A k \in Job \ {j} : pc'[k] = pc[k] /\ at'[k] = at[k]
          /\ at'[j] = Following(j, 0)
      BY <1>1, <1>3, <2>6 DEF FinalCheck, Begin, Goto, Typed, TypeOK
    <3>2. Following(j, 0) \in SelectFunctions(j)
      <4>1. 0 \in 0..Len(Functions)
        BY ConstantsAssumption
      <4>2. Following(j, 0) # 0
        BY <4>1, FollowingType
      <4> QED
        BY <4>1, <4>2, FollowingType
    <3>3. \A k \in SelectFunctions(j) : k <= at[j]
      BY <2>1, <2>6, FollowingType, SelectType, ConstantsAssumption
    <3>4. InTurn(j)'
      BY <2>3, <2>4, <2>5, <3>1, <3>2, <3>3, SelectType DEF InTurn
    <3> QED
      BY <1>1, <3>1, <3>4, OrderedAlone DEF Running
  <2>7. CASE next # 0
    <3>1. /\ pc'[j] = "revision" /\ \A k \in Job \ {j} : pc'[k] = pc[k] /\ at'[k] = at[k]
          /\ at'[j] = next
      BY <1>1, <1>3, <2>7 DEF FinalCheck, Goto, Typed, TypeOK
    <3>2. next \in SelectFunctions(j)
          /\ \A k \in SelectFunctions(j) : k > at[j] => next <= k
      BY <2>1, <2>7, FollowingType
    <3>3. \A k \in SelectFunctions(j) : k < next => k <= at[j]
      BY SMTT(30), <2>1, <3>2, SelectType, ConstantsAssumption
    <3>4. InTurn(j)'
      BY <2>3, <2>4, <2>5, <3>1, <3>2, <3>3, SelectType DEF InTurn, Smoking
    <3> QED
      BY <1>1, <3>1, <3>4, OrderedAlone DEF Running
  <2> QED
    BY <2>6, <2>7
<1> QED
  BY <1>2, <1>3

LEMMA InitOrdered == Init => Ordered
<1> SUFFICES ASSUME Init PROVE Ordered
  OBVIOUS
<1>1. OneRun
  BY ConstantsAssumption DEF Init, OneRun, Running, Building, Updating, Smoking
<1>2. \A j \in Job : InTurn(j)
  BY DEF Init, InTurn, Updating, Smoking
<1> QED
  BY <1>1, <1>2, InitRight DEF Ordered

LEMMA NextOrdered == Ordered /\ [Next]_vars => Ordered'
<1> SUFFICES ASSUME Ordered, [Next]_vars PROVE Ordered'
  OBVIOUS
<1> USE DEF tree, lambda
<1>1. Typed /\ Right /\ Right'
  BY NextRight DEF Ordered, Right
<1>2. CASE UNCHANGED vars
  BY <1>1, <1>2 DEF vars, Ordered, OneRun, InTurn, SelectFunctions, Finished, Runs
<1>3. ASSUME NEW j \in Job, Dispatch(j) \/ Command(j) PROVE Ordered'
  BY <1>1, <1>3, OrderedCommand
<1>4. ASSUME NEW j \in Job, BeginDeployment(j) PROVE Ordered'
  <2>1. /\ pc[j] = "deploy" /\ pc'[j] = "revision" /\ at'[j] = Following(j, 0)
        /\ \A k \in Job \ {j} : pc'[k] = pc[k] /\ at'[k] = at[k]
        /\ UNCHANGED <<versions, config>>
    BY <1>1, <1>4 DEF BeginDeployment, Begin, Goto, Typed, TypeOK
  <2>2. /\ Following(j, 0) \in SelectFunctions(j)
        /\ \A k \in SelectFunctions(j) : ~(k < Following(j, 0))
    <3>1. 0 \in 0..Len(Functions)
      BY ConstantsAssumption
    <3>2. /\ Following(j, 0) \in SelectFunctions(j)
          /\ \A k \in SelectFunctions(j) : k > 0 => Following(j, 0) <= k
      BY <3>1, FollowingType
    <3> QED
      BY <3>2, SelectType, ConstantsAssumption
  <2>3. SelectFunctions(j)' = SelectFunctions(j)
    BY DEF SelectFunctions
  <2>4. InTurn(j)'
    BY <2>1, <2>2, <2>3 DEF InTurn, Smoking
  <2> QED
    BY <1>1, <2>1, <2>4, OrderedAlone DEF Running
<1>5. ASSUME NEW j \in Job, GetRevision(j) \/ GetConfiguration(j) PROVE Ordered'
  <2>1. pc[j] \in Updating /\ \E step \in Updating : Goto(j, step)
    BY <1>5 DEF GetRevision, GetConfiguration, Updating
  <2> QED
    BY <1>1, <1>5, <2>1, OrderedOn DEF GetRevision, GetConfiguration
<1>6. ASSUME NEW j \in Job, UpdateCode(j) PROVE Ordered'
  BY <1>1, <1>6, OrderedUpdateCode
<1>7. ASSUME NEW j \in Job, Refused(j) PROVE Ordered'
  BY <1>1, <1>7, OrderedAtEnd DEF Refused, Ended
<1>8. ASSUME NEW j \in Job, WaitUpdated(j) PROVE Ordered'
  <2>1. CASE End(j, "failed")
    BY <1>1, <1>8, <2>1, OrderedAtEnd DEF WaitUpdated, Ended
  <2>2. CASE ~End(j, "failed")
    <3>1. pc[j] \in Updating /\ \E step \in Updating : Goto(j, step)
      BY <1>8, <2>2 DEF WaitUpdated, Updating
    <3> QED
      BY <1>1, <1>8, <2>2, <3>1, OrderedOn DEF WaitUpdated
  <2> QED
    BY <2>1, <2>2
<1>9. ASSUME NEW j \in Job, UpdateConfiguration(j) PROVE Ordered'
  <2> DEFINE c == [setting |-> read[j].setting, sentry |-> TRUE, handler |-> "dist",
                   rev |-> config[FunctionOf(j)].rev + 1, update |-> "InProgress",
                   state |-> config[FunctionOf(j)].state]
  <2>1. /\ pc[j] = "configure" /\ Goto(j, "waitConfig") /\ UNCHANGED <<at, versions>>
        /\ config' = [config EXCEPT ![FunctionOf(j)] = c]
    BY <1>9 DEF UpdateConfiguration
  <2>2. c.handler = "dist" /\ c.sentry
    OBVIOUS
  <2> HIDE DEF c
  <2>3. \A w \in Names : config'[w] \in {c, config[w]}
    BY <1>1, <2>1 DEF Typed, TypeOK
  <2>4. \A w \in Names : /\ config'[w].handler \in {"dist", config[w].handler}
                         /\ config'[w].sentry \/ config'[w].sentry = config[w].sentry
    BY <2>2, <2>3
  <2> QED
    BY <1>1, <2>1, <2>4, OrderedOn DEF Updating
<1>10. ASSUME NEW j \in Job, FinalCheck(j) PROVE Ordered'
  BY <1>1, <1>10, OrderedFinalCheck
<1>11. ASSUME NEW j \in Job, Invoke(j) PROVE Ordered'
  <2>1. pc[j] \in Smoking /\ UNCHANGED <<versions, edits>>
    BY <1>11 DEF Invoke, Smoking
  <2>2. CASE Answered(j)
    <3>1. CASE End(j, "passed")
      BY <1>1, <2>1, <2>2, <3>1, OrderedAtEnd DEF Answered, Ended
    <3>2. CASE ~End(j, "passed")
      <4> DEFINE next == Following(j, at[j])
      <4>1. next # 0
        BY <2>2, <3>2 DEF Answered
      <4>2. /\ pc'[j] = "invoke" /\ at'[j] = next
            /\ \A k \in Job \ {j} : pc'[k] = pc[k] /\ at'[k] = at[k]
            /\ UNCHANGED <<versions, config>>
        BY <1>1, <2>1, <2>2, <3>2, <4>1 DEF Answered, Goto, Typed, TypeOK
      <4>3. next \in SelectFunctions(j)
        BY <1>1, <4>1, FollowingType DEF Typed, TypeOK
      <4>4. InTurn(j) /\ SelectFunctions(j)' = SelectFunctions(j)
        BY DEF SelectFunctions, Ordered
      <4>5. \A w \in Names : Finished(j, w)' <=> Finished(j, w)
        BY <4>2 DEF Finished, Runs
      <4>6. InTurn(j)'
        BY <2>1, <4>2, <4>3, <4>4, <4>5, SelectType DEF InTurn
      <4> QED
        BY <1>1, <2>1, <4>2, <4>6, OrderedAlone DEF Running
    <3> QED
      BY <3>1, <3>2
  <2>3. CASE Wakes(j)
    <3>1. FunctionOf(j) \in Names
      BY <1>1, <2>1, FunctionType DEF Typed, Prepared
    <3>2. \A w \in Names : config'[w].handler = config[w].handler
                           /\ config'[w].sentry = config[w].sentry
      BY <1>1, <2>3, <3>1 DEF Wakes, Typed, TypeOK, Configurations
    <3> QED
      BY <1>1, <2>1, <2>3, <3>2, OrderedOn DEF Wakes, Smoking
  <2> QED
    BY <1>11, <2>2, <2>3 DEF Invoke
<1>12. ASSUME NEW j \in Job, WaitActive(j) PROVE Ordered'
  BY <1>1, <1>12, OrderedOn DEF WaitActive, Smoking
<1>13. ASSUME NEW f \in Names, UpdateEnds(f) \/ Activated(f) \/ Edit(f) PROVE Ordered'
  <2>1. UNCHANGED <<pc, tree, at, read, versions>>
    BY <1>13 DEF UpdateEnds, Activated, Edit
  <2>2. \A w \in Names : config'[w].handler = config[w].handler
                         /\ config'[w].sentry = config[w].sentry
    <3>1. CASE UpdateEnds(f)
      <4>1. PICK status \in {"Successful", "Failed"} :
              config' = [config EXCEPT ![f] =
                           [config[f] EXCEPT !.update = status, !.rev = config[f].rev + 1]]
        BY <1>1, <3>1 DEF UpdateEnds, Typed, TypeOK
      <4> QED
        BY <1>1, <4>1 DEF Typed, TypeOK, Configurations
    <3>2. CASE Activated(f)
      BY <1>1, <3>2 DEF Activated, Typed, TypeOK, Configurations
    <3>3. CASE Edit(f)
      <4>1. config' = [config EXCEPT ![f] =
                         [config[f] EXCEPT !.setting = config[f].setting + 1,
                                           !.rev = config[f].rev + 1]]
        BY <1>1, <3>3 DEF Edit, Typed, TypeOK
      <4> QED
        BY <1>1, <4>1 DEF Typed, TypeOK, Configurations
    <3> QED
      BY <1>13, <3>1, <3>2, <3>3
  <2>3. \A w \in Names : \A j \in Job : Finished(j, w)' <=> Finished(j, w)
    BY <2>1, <2>2 DEF Finished, Runs
  <2>4. \A j \in Job : SelectFunctions(j)' = SelectFunctions(j)
    BY DEF SelectFunctions
  <2> QED
    BY <1>1, <2>1, <2>3, <2>4, SelectType DEF Ordered, OneRun, InTurn
<1> QED
  BY <1>2, <1>3, <1>4, <1>5, <1>6, <1>7, <1>8, <1>9, <1>10, <1>11, <1>12, <1>13
     DEF Next, Update, Smoke

(* A job for all functions updates one after those before it run its code, fully *)
(* configured (deploy-lambdas.cjs): by the time it publishes for a function, it   *)
(* has finished with every one before it.                                         *)
THEOREM WorkersAreFirst == Spec => WorkersFirst
<1> DEFINE InOrder ==
      \A j \in Job : \A i, k \in SelectFunctions(j) :
        LET f == Functions[i]  w == Functions[k] IN
        /\ k < i
        /\ versions'[f] # versions[f] /\ versions'[f][Len(versions'[f])].job = j
        => /\ \E n \in 1..Len(versions[w]) : versions[w][n].job = j
           /\ Runs(w).job = j => config[w].handler = "dist" /\ config[w].sentry
<1>1. Ordered /\ [Next]_vars => InOrder
  <2> SUFFICES ASSUME Ordered, [Next]_vars, NEW j \in Job,
                      NEW i \in SelectFunctions(j), NEW k \in SelectFunctions(j), k < i,
                      versions'[Functions[i]] # versions[Functions[i]],
                      versions'[Functions[i]][Len(versions'[Functions[i]])].job = j
               PROVE  Finished(j, Functions[k])
    BY DEF Finished
  <2> DEFINE f == Functions[i]
  <2>1. Typed /\ f \in Names
    BY SelectType DEF Ordered, Right
  <2>2. PICK m \in Job : UpdateCode(m)
    <3>1. versions' # versions
      OBVIOUS
    <3> QED
      BY <3>1 DEF Next, Dispatch, Command, Update, Smoke, Start, Build, BundleFails, Inject,
           Package, Verify, Upload, Skip, Fails, BeginDeployment, GetRevision, Refused,
           WaitUpdated, GetConfiguration, UpdateConfiguration, FinalCheck, Invoke,
           WaitActive, UpdateEnds, Activated, Edit, vars, lambda
  <2>3. pc[m] \in Updating /\ FunctionOf(m) \in Names /\ archive[m] \in Contents
    BY <2>1, <2>2, FunctionType DEF UpdateCode, Typed, Prepared, Updating
  <2>4. versions' = [versions EXCEPT ![FunctionOf(m)] =
                       Append(@, [job |-> m, contents |-> archive[m]])]
    BY <2>2 DEF UpdateCode
  <2>5. f = FunctionOf(m)
    BY <2>1, <2>4 DEF Typed, TypeOK
  <2>6. j = m
    <3> DEFINE v == [job |-> m, contents |-> archive[m]]
    <3>1. versions'[f] = Append(versions[f], v)
      BY <2>1, <2>4, <2>5 DEF Typed, TypeOK
    <3>2. /\ versions[f] \in Seq([job : Job \cup {None}, contents : Contents])
          /\ v \in [job : Job \cup {None}, contents : Contents] /\ v.job = m
      BY <2>1, <2>3 DEF Typed, TypeOK
    <3> HIDE DEF v
    <3>3. versions'[f][Len(versions'[f])] = v
      BY <3>1, <3>2, AppendProperties
    <3> QED
      BY <3>2, <3>3
  <2>7. at[j] = i
    <3>1. at[j] \in 1..Len(Functions)
      BY <2>1, <2>3, <2>6 DEF Typed, Prepared
    <3> QED
      BY <2>5, <2>6, <3>1, SelectType, ConstantsAssumption DEF FunctionOf
  <2> QED
    BY <2>3, <2>6, <2>7 DEF Ordered, InTurn
<1>2. Ordered /\ [Next]_vars => [InOrder]_vars
  BY <1>1
<1> QED
  BY <1>2, InitOrdered, NextOrdered, PTL DEF Spec, WorkersFirst

(* A smoke test of a workflow run is answered by the code that it has released, *)
(* or by what a developer has put in its place: the concurrency group keeps      *)
(* every other run from publishing until the test has ended.                     *)
THEOREM SmokeSeesRelease == Spec => SmokeSawRelease
<1> DEFINE Seen == \A j \in Dispatched :
                     pc[j] \in {"invoke", "reinvoke"} /\ at'[j] # at[j]
                     => Runs(FunctionOf(j)).job \in {j} \cup (Job \ Dispatched)
<1>1. Ordered => Seen
  <2> SUFFICES ASSUME Ordered, NEW j \in Dispatched, pc[j] \in {"invoke", "reinvoke"}
               PROVE  Runs(FunctionOf(j)).job \in {j} \cup (Job \ Dispatched)
    OBVIOUS
  <2>1. j \in Job /\ InTurn(j) /\ pc[j] \in Smoking
    BY ConstantsAssumption DEF Ordered, Smoking
  <2>2. Finished(j, FunctionOf(j))
    BY <2>1 DEF InTurn, FunctionOf
  <2> QED
    BY <2>2 DEF Finished
<1>2. Ordered /\ [Next]_vars => [Seen]_vars
  BY <1>1
<1> QED
  BY <1>2, InitOrdered, NextOrdered, PTL DEF Spec, SmokeSawRelease
===============================================================================
