----------------------------- MODULE MCAllowlists -----------------------------
(* An instance of Allowlists for model checking. *)
EXTENDS Allowlists

CONSTANTS r1, r2, first, second

TwoRequests == {r1, r2}

\* Two wallets that are consolidated.
Wallets == {first, second}
Consolidated == [w \in Wallet |-> Wallets]

\* Enough lists to exceed the limit by more than the requests in progress.
ListsByTdh == [a \in Amounts |-> CASE a = "none" -> 0
                                   [] a = "some" -> 3
                                   [] a = "unlimited" -> 1]
=============================================================================
