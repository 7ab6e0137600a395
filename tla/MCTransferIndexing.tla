-------------------------- MODULE MCTransferIndexing --------------------------
(* An ERC1155 contract whose pages end within blocks. *)
EXTENDS TransferIndexing

CONSTANTS d1, d2

TwoTypes == <<"batch", "single">>
Blocks == [t \in {"single", "batch"} |->
             IF t = "single" THEN <<1, 2, 2, 3, 3, 4>> ELSE <<1, 1, 3>>]
TwoDownloads == {d1, d2}
Targets == [d \in TwoDownloads |-> IF d = d1 THEN 2 ELSE 4]
=============================================================================
