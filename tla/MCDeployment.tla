---------------------------- MODULE MCDeployment ----------------------------
(* An instance of Deployment for model checking. *)
EXTENDS Deployment, TLC

CONSTANTS ci1, ci2, dev

WorkerThenApi == <<"allowlist-worker", "allowlist-api">>

\* Two runs of the workflow for the worker, and a developer's job for both functions.
Jobs == {ci1, ci2, dev}
WorkflowRuns == {ci1, ci2}
EditsOfWorker == [f \in Names |-> IF f = "allowlist-worker" THEN 1 ELSE 0]
Services == (ci1 :> "allowlist-worker") @@ (ci2 :> "allowlist-worker") @@ (dev :> None)
=============================================================================
