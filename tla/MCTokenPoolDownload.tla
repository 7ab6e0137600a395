------------------------- MODULE MCTokenPoolDownload -------------------------
(* Model values for checking TokenPoolDownload with TLC. *)
EXTENDS TokenPoolDownload, TLC

CONSTANTS w1, w2, c1, c2

TwoWorkers == {w1, w2}
OneClient  == {c1}
TwoClients == {c1, c2}

Symmetry == Permutations(Worker) \cup Permutations(Client)

\* Token 1 of the contract changes hands between two blocks, token 2 does
\* not; the third target is of another contract.
TwoTargets == {"early", "late"}
ThreeTargets == TwoTargets \cup {"other"}
TwoContracts == {"nft", "memes"}
ContractOfEach ==
  [t \in Target |-> IF t = "other" THEN "memes" ELSE "nft"]
OwnersOf ==
  [early |-> {"1 of A", "2 of B"}, late |-> {"1 of C", "2 of B"},
   other |-> {"3 of A"}]

\* Which target is asked for first does not matter: two of the first contract
\* change their names, or the contracts do.
EarlyFirst == row.status = "NONE" /\ row'.status # "NONE" => row'.target = "early"
==============================================================================
