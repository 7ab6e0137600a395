----------------------------- MODULE Deployment -----------------------------
(***************************************************************************)
(* Releasing the Lambda functions: the commands of a deployment workflow   *)
(* (.github/workflows) or of a developer, run by jobs that share the       *)
(* functions of one environment: building and bundling, packaging,         *)
(* verifying (scripts/*.cjs), updating each function with the AWS CLI      *)
(* (deploy-lambdas.cjs) and the smoke test (smoke-lambdas.cjs).            *)
(*                                                                         *)
(* Every job works in a tree of its own.  Lambda is external: an update is *)
(* accepted for the revision it names and completes later; every change of *)
(* a function gives it a new revision.                                     *)
(***************************************************************************)
EXTENDS Integers, Sequences

CONSTANTS
  Job,          \* jobs, each with the source of one release
  Dispatched,   \* those that are runs of the deployment workflow
  Functions,    \* the functions in the order they are updated, the API last
  Service,      \* the function a job is for, or None for all of them
  MaxEdits,     \* bound on operators' changes to settings of each function
  None

Names == {Functions[i] : i \in 1..Len(Functions)}

ASSUME ConstantsAssumption ==
  /\ Dispatched \subseteq Job
  /\ Functions \in Seq(STRING) /\ Len(Functions) > 0
  /\ \A i, k \in 1..Len(Functions) : Functions[i] = Functions[k] => i = k
  /\ MaxEdits \in [Names -> Nat]
  /\ Service \in [Job -> Names \cup {None}] /\ None \notin Names \cup Job

VARIABLES
  pc,        \* where each job is
  dist,      \* what has been done to its dist directory
  archive,   \* what is in its .serverless/allowlist-api.zip, or None
  maps,      \* the source maps it has uploaded, or None
  at,        \* the function it is updating or testing, as an index
  read,      \* what it read last of the function's configuration
  versions,  \* what each function has published, the last of which it runs
  config,    \* each function's configuration
  edits      \* settings of each function that operators have changed

tree == <<dist, archive, maps>>
lambda == <<versions, config, edits>>
vars == <<pc, tree, at, read, lambda>>

Building == {"build", "inject", "package", "verify", "upload"}
Updating == {"revision", "code", "waitCode", "read", "configure", "waitConfig",
             "final"}
Smoking == {"invoke", "activating", "reinvoke"}
Running == Building \cup {"deploy"} \cup Updating \cup Smoking
Ended == {"passed", "failed", "cancelled"}

\* An archive's build steps, and "compat": the handlers under src/.
Contents == SUBSET {"compiled", "bundled", "injected", "compat"}
Configurations ==
  [setting : Nat, sentry : BOOLEAN, handler : {"src", "dist"}, rev : Nat,
   update : {"Successful", "InProgress", "Failed"},
   state : {"Active", "Inactive", "Pending"}]

\* Type invariant: what each command leaves behind.
TypeOK ==
  /\ pc \in [Job -> {"idle", "queued"} \cup Running \cup Ended]
  /\ dist \in [Job -> Contents]
  /\ archive \in [Job -> Contents \cup {None}]
  /\ maps \in [Job -> Contents \cup {None}]
  /\ at \in [Job -> 0..Len(Functions)]
  /\ read \in [Job -> [rev : Nat, setting : Nat] \cup {None}]
  /\ versions \in [Names -> Seq([job : Job \cup {None}, contents : Contents])]
  /\ config \in [Names -> Configurations]
  /\ edits \in [Names -> Nat]

\* The first release by these scripts: code of the obsolete build, with handlers
\* under src/ only; in use, or idle for long.
Init ==
  /\ pc = [j \in Job |-> "idle"]
  /\ dist = [j \in Job |-> {}]
  /\ archive = [j \in Job |-> None]
  /\ maps = [j \in Job |-> None]
  /\ at = [j \in Job |-> 0]
  /\ read = [j \in Job |-> None]
  /\ versions = [f \in Names |-> <<[job |-> None, contents |-> {"compat"}]>>]
  /\ \E state \in {"Active", "Inactive"} :
       config = [f \in Names |->
         [setting |-> 0, sentry |-> FALSE, handler |-> "src", rev |-> 0,
          update |-> "Successful", state |-> state]]
  /\ edits = [f \in Names |-> 0]
-----------------------------------------------------------------------------
Goto(j, step) == pc' = [pc EXCEPT ![j] = step]

\* A job ends; its processes are gone and its tree is of no more use.
End(j, how) ==
  /\ Goto(j, how)
  /\ dist' = [dist EXCEPT ![j] = {}]
  /\ archive' = [archive EXCEPT ![j] = None]
  /\ at' = [at EXCEPT ![j] = 0]
  /\ read' = [read EXCEPT ![j] = None]
  /\ UNCHANGED maps

\* The workflow is dispatched. Its runs are in one concurrency group, in which
\* the last one waits for the running one and takes the place of another waiting.
Dispatch(j) ==
  /\ pc[j] = "idle" /\ j \in Dispatched
  /\ pc' = [k \in Job |-> IF k = j THEN "queued"
                          ELSE IF pc[k] = "queued" THEN "cancelled" ELSE pc[k]]
  /\ UNCHANGED <<tree, at, read, lambda>>

\* Mutant: a workflow without a concurrency group.
StartAnyTime(j) ==
  /\ pc[j] = "queued" \/ (pc[j] = "idle" /\ j \notin Dispatched)
  /\ Goto(j, "build")
  /\ UNCHANGED <<tree, at, read, lambda>>

\* A run begins when none is running; a developer begins at any time.
Start(j) ==
  /\ \/ /\ pc[j] = "queued"
        /\ \A k \in Dispatched : pc[k] \notin Running
     \/ /\ pc[j] = "idle" /\ j \notin Dispatched
  /\ Goto(j, "build")
  /\ UNCHANGED <<tree, at, read, lambda>>

\* Mutant: the functions are deployed before the source maps are uploaded.
AfterWithoutUpload(step) ==
  CASE step = "build" -> "inject"
    [] step = "inject" -> "package"
    [] step = "package" -> "verify"
    [] step \in {"verify", "upload"} -> "deploy"

\* The commands in the order of the workflow.
After(step) ==
  CASE step = "build" -> "inject"
    [] step = "inject" -> "package"
    [] step = "package" -> "verify"
    [] step = "verify" -> "upload"
    [] step = "upload" -> "deploy"

\* yarn build: nest compiles into dist, which the bundle then replaces.
Build(j) ==
  /\ pc[j] = "build"
  /\ dist' = [dist EXCEPT ![j] = {"compiled", "bundled"}]
  /\ Goto(j, After("build"))
  /\ UNCHANGED <<archive, maps, at, read, lambda>>

\* Bundling fails and leaves what was compiled, or nothing when dist was already
\* removed; a developer may not notice.
BundleFails(j) ==
  /\ pc[j] = "build" /\ j \notin Dispatched
  /\ \E left \in {{"compiled"}, {}} : dist' = [dist EXCEPT ![j] = left]
  /\ Goto(j, After("build"))
  /\ UNCHANGED <<archive, maps, at, read, lambda>>

\* yarn sentry:sourcemaps:inject
Inject(j) ==
  /\ pc[j] = "inject"
  /\ dist[j] # {}
  /\ dist' = [dist EXCEPT ![j] = @ \cup {"injected"}]
  /\ Goto(j, After("inject"))
  /\ UNCHANGED <<archive, maps, at, read, lambda>>

\* yarn lambda:package: the old archive is removed, dist is copied, handlers of
\* the same names are put under src/.
Package(j) ==
  /\ pc[j] = "package"
  /\ dist[j] # {}
  /\ archive' = [archive EXCEPT ![j] = dist[j] \cup {"compat"}]
  /\ Goto(j, After("package"))
  /\ UNCHANGED <<dist, maps, at, read, lambda>>

\* An archive's handlers load when their dependencies have been bundled.
Loads(contents) == {"bundled", "compat"} \subseteq contents

\* yarn lambda:package:verify: the files and the debug ids are there, and each
\* handler loads.
Verify(j) ==
  /\ pc[j] = "verify"
  /\ archive[j] # None
  /\ Loads(archive[j]) /\ "injected" \in archive[j]
  /\ Goto(j, After("verify"))
  /\ UNCHANGED <<tree, at, read, lambda>>

\* yarn sentry:sourcemaps:upload
Upload(j) ==
  /\ pc[j] = "upload"
  /\ maps' = [maps EXCEPT ![j] = dist[j]]
  /\ Goto(j, After("upload"))
  /\ UNCHANGED <<dist, archive, at, read, lambda>>

\* Any command may fail, which ends the job.
Fails(j) ==
  /\ pc[j] \in Running
  /\ End(j, "failed")
  /\ UNCHANGED lambda

\* A developer runs the commands by hand, and need not run all of them.
Skip(j) ==
  /\ j \notin Dispatched
  /\ pc[j] \in {"inject", "verify", "upload"}
  /\ Goto(j, After(pc[j]))
  /\ UNCHANGED <<tree, at, read, lambda>>
-----------------------------------------------------------------------------
\* selectFunctions, as indices.
SelectFunctions(j) ==
  {i \in 1..Len(Functions) : Service[j] = None \/ Service[j] = Functions[i]}

\* Mutant: the functions from the last one to the first one.
FollowingBackwards(j, i) ==
  LET earlier == {k \in SelectFunctions(j) : i = 0 \/ k < i} IN
  IF earlier = {} THEN 0 ELSE CHOOSE k \in earlier : \A m \in earlier : k >= m

\* The first selected function after i, if there is one.
Following(j, i) ==
  LET later == {k \in SelectFunctions(j) : k > i} IN
  IF later = {} THEN 0 ELSE CHOOSE k \in later : \A m \in later : k <= m

FunctionOf(j) == Functions[at[j]]
Current(j) == config[FunctionOf(j)]
Snapshot(j) == [rev |-> Current(j).rev, setting |-> Current(j).setting]

\* The deployment begins, and the smoke test when it has ended.
Begin(j, step) ==
  /\ at' = [at EXCEPT ![j] = Following(j, 0)]
  /\ read' = [read EXCEPT ![j] = None]
  /\ Goto(j, step)

BeginDeployment(j) ==
  /\ pc[j] = "deploy"
  /\ archive[j] # None
  /\ Begin(j, "revision")
  /\ UNCHANGED <<tree, lambda>>

\* get-function-configuration, for its revision
GetRevision(j) ==
  /\ pc[j] = "revision"
  /\ read' = [read EXCEPT ![j] = Snapshot(j)]
  /\ Goto(j, "code")
  /\ UNCHANGED <<tree, at, lambda>>

\* Lambda accepts an update.
Accepts(j) == Current(j).rev = read[j].rev /\ Current(j).update # "InProgress"

\* update-function-code --publish
UpdateCode(j) ==
  LET f == FunctionOf(j) IN
  /\ pc[j] = "code"
  /\ Accepts(j)
  /\ versions' = [versions EXCEPT ![f] =
                    Append(@, [job |-> j, contents |-> archive[j]])]
  /\ config' = [config EXCEPT ![f].rev = @ + 1, ![f].update = "InProgress"]
  /\ Goto(j, "waitCode")
  /\ UNCHANGED <<tree, at, read, edits>>

Refused(j) ==
  /\ pc[j] \in {"code", "configure"}
  /\ ~Accepts(j)
  /\ End(j, "failed")
  /\ UNCHANGED lambda

\* wait function-updated-v2 ends when the last update is over; it fails when the
\* update did.
WaitUpdated(j) ==
  /\ pc[j] \in {"waitCode", "waitConfig"}
  /\ Current(j).update # "InProgress"
  /\ IF Current(j).update = "Failed"
     THEN End(j, "failed")
     ELSE /\ Goto(j, IF pc[j] = "waitCode" THEN "read" ELSE "final")
          /\ UNCHANGED <<tree, at, read>>
  /\ UNCHANGED lambda

\* The configuration is read; is anything to be changed?
GetConfiguration(j) ==
  /\ pc[j] = "read"
  /\ read' = [read EXCEPT ![j] = Snapshot(j)]
  /\ Goto(j, IF Current(j).handler = "dist" /\ Current(j).sentry THEN "final"
             ELSE "configure")
  /\ UNCHANGED <<tree, at, lambda>>

\* Mutant: an update without the revision that was read.
UpdateConfigurationBlindly(j) ==
  LET f == FunctionOf(j) IN
  /\ pc[j] = "configure"
  /\ Current(j).update # "InProgress"
  /\ config' = [config EXCEPT ![f] =
                  [setting |-> read[j].setting, sentry |-> TRUE, handler |-> "dist",
                   rev |-> @.rev + 1, update |-> "InProgress", state |-> @.state]]
  /\ Goto(j, "waitConfig")
  /\ UNCHANGED <<tree, at, read, versions, edits>>

\* update-function-configuration with all of the environment that was read.
UpdateConfiguration(j) ==
  LET f == FunctionOf(j) IN
  /\ pc[j] = "configure"
  /\ Accepts(j)
  /\ config' = [config EXCEPT ![f] =
                  [setting |-> read[j].setting, sentry |-> TRUE, handler |-> "dist",
                   rev |-> @.rev + 1, update |-> "InProgress", state |-> @.state]]
  /\ Goto(j, "waitConfig")
  /\ UNCHANGED <<tree, at, read, versions, edits>>

\* The final configuration against what the job sent: state, status, code,
\* handler and every variable of the environment.
Mismatch(j) ==
  LET f == FunctionOf(j) IN
  \/ config[f].state = "Pending" \/ config[f].update # "Successful"
  \/ versions[f][Len(versions[f])].contents # archive[j]
  \/ versions[f][Len(versions[f])].job # j
  \/ config[f].handler # "dist" \/ ~config[f].sentry
  \/ config[f].setting # read[j].setting

FinalCheck(j) ==
  /\ pc[j] = "final"
  /\ IF Mismatch(j) THEN End(j, "failed")
     ELSE /\ IF Following(j, at[j]) = 0 THEN Begin(j, "invoke")
             ELSE /\ at' = [at EXCEPT ![j] = Following(j, @)]
                  /\ read' = [read EXCEPT ![j] = None]
                  /\ Goto(j, "revision")
          /\ UNCHANGED tree
  /\ UNCHANGED lambda
-----------------------------------------------------------------------------
\* The function's answer to a smoke test passes when its code loads and it did a
\* cold start; the test goes on to the next function.
Answered(j) ==
  LET f == FunctionOf(j)  next == Following(j, at[j]) IN
  /\ config[f].state = "Active"
  /\ Loads(versions[f][Len(versions[f])].contents)
  /\ IF next = 0 THEN End(j, "passed")
     ELSE /\ at' = [at EXCEPT ![j] = next]
          /\ Goto(j, "invoke")
          /\ UNCHANGED <<tree, read>>
  /\ UNCHANGED config

\* The first attempt on an idle function wakes it and waits for it.
Wakes(j) ==
  LET f == FunctionOf(j) IN
  /\ config[f].state # "Active" /\ pc[j] = "invoke"
  /\ config' = [config EXCEPT ![f].state = "Pending"]
  /\ Goto(j, "activating")
  /\ UNCHANGED <<tree, at, read>>

Invoke(j) ==
  /\ pc[j] \in {"invoke", "reinvoke"}
  /\ Answered(j) \/ Wakes(j)
  /\ UNCHANGED <<versions, edits>>

\* wait function-active-v2
WaitActive(j) ==
  /\ pc[j] = "activating" /\ Current(j).state = "Active"
  /\ Goto(j, "reinvoke")
  /\ UNCHANGED <<tree, at, read, lambda>>
-----------------------------------------------------------------------------
\* Lambda completes an update, or fails to.
UpdateEnds(f) ==
  /\ config[f].update = "InProgress"
  /\ \E status \in {"Successful", "Failed"} :
       config' = [config EXCEPT ![f].update = status, ![f].rev = @ + 1]
  /\ UNCHANGED <<pc, tree, at, read, versions, edits>>

\* A function that was idle for long has been woken.
Activated(f) ==
  /\ config[f].state = "Pending"
  /\ config' = [config EXCEPT ![f].state = "Active"]
  /\ UNCHANGED <<pc, tree, at, read, versions, edits>>

\* An operator changes a variable of the environment that no job is about.
Edit(f) ==
  /\ edits[f] < MaxEdits[f] /\ config[f].update # "InProgress"
  /\ edits' = [edits EXCEPT ![f] = @ + 1]
  /\ config' = [config EXCEPT ![f].setting = @ + 1, ![f].rev = @ + 1]
  /\ UNCHANGED <<pc, tree, at, read, versions>>

Command(j) ==
  \/ Start(j) \/ Build(j) \/ BundleFails(j) \/ Inject(j) \/ Package(j) \/ Verify(j)
  \/ Upload(j) \/ Skip(j) \/ Fails(j)
Update(j) ==
  \/ BeginDeployment(j) \/ GetRevision(j) \/ UpdateCode(j) \/ Refused(j)
  \/ WaitUpdated(j) \/ GetConfiguration(j) \/ UpdateConfiguration(j) \/ FinalCheck(j)
Smoke(j) == Invoke(j) \/ WaitActive(j)

Next ==
  \/ \E j \in Job : Dispatch(j) \/ Command(j) \/ Update(j) \/ Smoke(j)
  \/ \E f \in Names : UpdateEnds(f) \/ Activated(f) \/ Edit(f)

Spec == Init /\ [][Next]_vars
-----------------------------------------------------------------------------
\* What an operator has set stays: a deployment sends the whole environment back,
\* and never one that has changed since it was read (deploy-lambdas.cjs).
SettingsAreKept == \A f \in Names : config[f].setting = edits[f]

Runs(f) == versions[f][Len(versions[f])]

\* The handler a function is configured with is in the code that it runs, also
\* between the update of the code and that of the configuration: "changing the
\* configured handlers to dist/ cannot create a code/config transition outage"
\* (README.md:93; the compatibility handlers of package-lambda.cjs).
HandlerExists ==
  \A f \in Names :
    (IF config[f].handler = "src" THEN "compat" ELSE "compiled") \in Runs(f).contents

\* What the workflow publishes has been bundled, has the debug ids of source maps
\* that were uploaded before, and loads (staging.yml, production.yml).
ReleasesAreVerified ==
  \A f \in Names : \A i \in 1..Len(versions[f]) :
    LET v == versions[f][i] IN
    v.job \in Dispatched =>
      /\ v.contents = {"compiled", "bundled", "injected", "compat"}
      /\ maps[v.job] = v.contents \ {"compat"}

\* The type invariant, and that functions always run what they are configured for
\* and that what the workflow releases, unlike a developer, has been verified.
FunctionsAreRight == TypeOK /\ HandlerExists /\ ReleasesAreVerified

\* A job for all functions updates one after those before it run its code, fully
\* configured, or code that another job has put there since: workers are ready
\* before the API can enqueue work (deploy-lambdas.cjs).
WorkersFirst ==
  [][\A j \in Job : \A i, k \in SelectFunctions(j) :
       LET f == Functions[i]  w == Functions[k] IN
       /\ k < i
       /\ versions'[f] # versions[f] /\ versions'[f][Len(versions'[f])].job = j
       => /\ \E n \in 1..Len(versions[w]) : versions[w][n].job = j
          /\ Runs(w).job = j => config[w].handler = "dist" /\ config[w].sentry]_vars

\* The smoke test of a workflow run is answered by the code it has released, or
\* by what a developer has put in its place, never by another run's.
SmokeSawRelease ==
  [][\A j \in Dispatched :
       pc[j] \in {"invoke", "reinvoke"} /\ at'[j] # at[j]
       => Runs(FunctionOf(j)).job \in {j} \cup (Job \ Dispatched)]_vars
=============================================================================
