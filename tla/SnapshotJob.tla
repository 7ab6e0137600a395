---------------------------- MODULE SnapshotJob ----------------------------
(***************************************************************************)
(* What the API promises about a token pool snapshot, without queues,      *)
(* lambdas or transactions: a job that somebody works on at most once at a *)
(* time, whose owners, those of what was asked for first, appear at the    *)
(* moment it is done and not before, which stays done, and which counts    *)
(* each of its failures once.                                              *)
(***************************************************************************)
EXTENDS Naturals

CONSTANTS Target, Snapshot

VARIABLES job, wanted, owners, failures

jobVars == <<job, wanted, owners, failures>>

JobInit == job = "NONE" /\ wanted \in Target /\ owners = {} /\ failures = 0

Request ==
  /\ job = "NONE"
  /\ job' = "PENDING"
  /\ wanted' \in Target
  /\ UNCHANGED <<owners, failures>>

\* The snapshot is retried, given back by a run whose time is up, or restarted
\* after nobody reported progress: never once it is done.
Enqueue ==
  /\ job \notin {"NONE", "COMPLETED"}
  /\ job' = "PENDING"
  /\ UNCHANGED <<wanted, owners, failures>>

Start ==
  /\ job = "PENDING"
  /\ job' = "CLAIMED"
  /\ UNCHANGED <<wanted, owners, failures>>

Finish ==
  /\ job = "CLAIMED"
  /\ job' = "COMPLETED"
  /\ owners' = Snapshot[wanted]
  /\ UNCHANGED <<wanted, failures>>

Fail ==
  /\ job = "CLAIMED"
  /\ job' = "FAILED"
  /\ failures' = failures + 1
  /\ UNCHANGED <<wanted, owners>>

\* A retry gives up on a run that reports no progress.
GiveUp ==
  /\ job \in {"PENDING", "CLAIMED"}
  /\ failures' = failures + 1
  /\ UNCHANGED <<job, wanted, owners>>

JobNext == Request \/ Enqueue \/ Start \/ Finish \/ Fail \/ GiveUp

JobSpec == JobInit /\ [][JobNext]_jobVars
=============================================================================
