--------------------------- MODULE MCContractQueries ---------------------------
(* An instance of ContractQueries for model checking. *)
EXTENDS ContractQueries

\* The bounds are in the proportion of the code's: as many ids as fill all of
\* Transpose's pages, so that either bound can be the one that is met.
ASSUME MaxTokens = MaxPages * TransposePage
================================================================================
