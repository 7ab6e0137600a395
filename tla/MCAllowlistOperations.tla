------------------------ MODULE MCAllowlistOperations ------------------------
(* Instances of AllowlistOperations for model checking. *)
EXTENDS AllowlistOperations, TLC

CONSTANTS c1, c2, a1, a2, a3, m1, m2

TwoClients == {c1, c2}
FewOperations == {a1, a2, m1, m2}
SomeOperations == {a1, a2, a3, m1, m2}
MapOperations == {m1, m2}

Symmetry == Permutations(Client) \cup Permutations(MapOperation)
              \cup Permutations(Operation \ MapOperation)
==============================================================================
