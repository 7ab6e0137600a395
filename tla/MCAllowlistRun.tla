--------------------------- MODULE MCAllowlistRun ---------------------------
(* Instances of AllowlistRun for model checking. *)
EXTENDS AllowlistRun, TLC

CONSTANTS w1, w2, c1, c2, o1, o2, o3

TwoWorkers == {w1, w2}
OneClient  == {c1}
TwoClients == {c1, c2}
TwoOperations == {o1, o2}
ThreeOperations == {o1, o2, o3}

Symmetry == Permutations(Worker) \cup Permutations(Client)
              \cup Permutations(Operation)
=============================================================================
