------------------------- MODULE UpstreamProviders -------------------------
(***************************************************************************)
(* How the clients of the HTTP providers (Alchemy, Etherscan, Transpose)   *)
(* classify what comes back, and which failures they try again.            *)
(* Source: common/upstream-provider.error.ts and the private helpers       *)
(* toProviderError and getFailureKind of the three clients.                *)
(***************************************************************************)

CONSTANT None  \* what is not there: no answer, no failure, no sample

\* UpstreamProviderFailureKind; "untyped" stands for an error that is not an
\* UpstreamProviderError at all, which the clients rethrow as it is.
FailureKinds == {"invalid-response", "rate-limited", "rejected", "unavailable"}
Untyped == "untyped"
Failures == FailureKinds \cup {Untyped}

IsTemporary(kind) == kind \in {"rate-limited", "unavailable"}

\* How an HTTP exchange can go wrong: no response; status 429; 500 and above;
\* another status, whose body speaks of a rate limit or not; an error that is
\* not the HTTP library's.
HttpFailures == {"network", "429", "5xx", "4xx-limit", "4xx", "other"}

\* Alchemy judges by the status alone.
AlchemyFailure(reply) ==
  CASE reply = "429" -> "rate-limited"
    [] reply \in {"5xx", "network"} -> "unavailable"
    [] reply \in {"4xx", "4xx-limit"} -> "rejected"
    [] OTHER -> Untyped

\* Etherscan and Transpose also read the message of the response.
FailureByMessage(reply) ==
  CASE reply \in {"429", "4xx-limit"} -> "rate-limited"
    [] reply \in {"5xx", "network"} -> "unavailable"
    [] reply = "4xx" -> "rejected"
    [] OTHER -> Untyped

\* The status of the answer to a failure of one provider, and to the failures of
\* all the providers that were tried.
MapProviderError(kind) ==
  IF kind \in FailureKinds /\ ~IsTemporary(kind) THEN "502" ELSE "503"

MapProviderErrors(kinds) ==
  IF \A kind \in kinds : IsTemporary(kind) THEN "503" ELSE "502"
=============================================================================
