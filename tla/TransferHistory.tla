--------------------------- MODULE TransferHistory ---------------------------
(***************************************************************************)
(* What indexing the transfers of a contract promises: of each type an     *)
(* initial part of the chain's logs is known, which only grows, and a      *)
(* snapshot is made when everything up to its block is known.              *)
(* TransferIndexing is shown to implement this.                            *)
(***************************************************************************)
EXTENDS Integers, Sequences

CONSTANTS
  Type,      \* types of transfers
  Chain,     \* of each type, the blocks of its logs in their order
  Download,
  Target     \* the block of each download's snapshot

VARIABLES known, finished

vars == <<known, finished>>

Init == known = [t \in Type |-> {}] /\ finished = {}

\* More of the logs of a type become known, without a gap.
Extend(t) ==
  /\ \E n \in 1..Len(Chain[t]) :
       /\ known[t] \subseteq 1..n
       /\ known' = [known EXCEPT ![t] = 1..n]
  /\ UNCHANGED finished

Finish(d) ==
  /\ \A t \in Type : \A i \in 1..Len(Chain[t]) :
       Chain[t][i] <= Target[d] => i \in known[t]
  /\ finished' = finished \cup {d}
  /\ UNCHANGED known

Next == (\E t \in Type : Extend(t)) \/ (\E d \in Download : Finish(d))

Spec == Init /\ [][Next]_vars
=============================================================================
