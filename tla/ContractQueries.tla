-------------------------- MODULE ContractQueries --------------------------
(***************************************************************************)
(* Questions about a contract that the API passes on to providers:         *)
(*   - its token ids (GET /other/contract-token-ids-as-string), listed page*)
(*     by page from Transpose and, when that fails, from Alchemy;          *)
(*   - its metadata (GET /other/contract-metadata), from Alchemy with the  *)
(*     texts kept in the code for the 6529 contracts.                      *)
(*                                                                         *)
(* The provider that is asked has its own view of the tokens that are      *)
(* minted, which grows while a listing is under way; it answers from it,   *)
(* fails, or answers nonsense.  An id is a text: a number and how it is    *)
(* spelt, since both providers' checks let leading zeros pass and Alchemy's*)
(* lets hexadecimal pass, too.                                             *)
(*                                                                         *)
(* Names that BlockPrediction, the other half of OtherService, has as well *)
(* are told apart, so that the proofs can extend both modules.             *)
(***************************************************************************)
EXTENDS Integers, SequencesExt, UpstreamProviders

CONSTANTS
  Token,            \* the numbers of tokens
  Respelt,          \* those that an odd page may spell in another way
  TransposePage,    \* TRANSPOSE_PAGE_SIZE
  AlchemyPage,      \* limit of getNFTsForContract
  MaxPages,         \* MAX_TOKEN_ID_PAGES
  MaxTokens,        \* MAX_TOKEN_IDS
  MaxHttpAttempts   \* MAX_HTTP_ATTEMPTS of Alchemy

\* Token ids are texts. Providers write a number in decimal; "odd" is the same
\* number in hexadecimal or with leading zeros.
Written(t) == [no |-> t, as |-> "decimal"]
Id == {Written(t) : t \in Token} \cup {[no |-> t, as |-> "odd"] : t \in Respelt}
Values(list) == {list[i].no : i \in DOMAIN list}

ASSUME QueriesAssumption ==
  /\ Token \subseteq Nat /\ IsFiniteSet(Token) /\ Respelt \subseteq Token
  /\ None \notin Id
  /\ \A n \in {TransposePage, AlchemyPage, MaxPages, MaxTokens, MaxHttpAttempts} :
       n \in Nat \ {0}

VARIABLES
  view,          \* the tokens the provider knows of
  question,      \* "idle", "tokens", a contract whose metadata is asked, "answered"
  provider,      \* the provider that is asked
  continuation,  \* where the page that is asked for starts
  seen,          \* seenContinuations
  page,          \* pages asked of this provider
  tokens,        \* tokenIds: the texts listed so far
  tries,         \* requests made for this page
  failed,        \* how each provider that was given up failed
  answer,        \* the answer, or None
  initially,     \* its view when its listing began
  sound          \* has this provider answered from its view so far?

listing == <<continuation, seen, page, tokens, tries>>
queryVars == <<view, question, provider, listing, failed, answer, initially, sound>>

Provider == {"transpose", "alchemy"}
PageSize == [p \in Provider |-> IF p = "transpose" THEN TransposePage
                                ELSE AlchemyPage]

\* Full pages of either provider stay within MAX_TOKEN_IDS, as they do with 100
\* pages of 1000 and of 100 ids and 100 000 ids.
ASSUME BoundsInProportion ==
  \A p \in Provider : MaxPages * PageSize[p] <= MaxTokens

Refused(status) == [status |-> status]

\* Texts of a contract's metadata: what the provider says, what the code keeps,
\* or a placeholder that stands for neither.
Texts == {"provided", "placeholder", "absent"}
Fields == {"name", "tokenType", "imageUrl", "description"}
Contracts == {"canonical", "other"}

ASSUME NoneIsNoAnswer ==
  None \notin [status : {"400", "502", "503"}] \cup
               [texts : [Fields -> Texts \cup {"kept"}], verified : BOOLEAN]

\* Type invariant; ids are listed from one provider at a time.
QueriesTypeOK ==
  /\ view \subseteq Token /\ initially \subseteq view
  /\ question \in {"idle", "tokens", "canonical", "other", "answered"}
  /\ provider \in Provider
  /\ continuation \in Id \cup {None}
  /\ seen \subseteq Id
  /\ page \in 0..MaxPages
  /\ tokens \in Seq(Id) /\ Len(tokens) <= MaxTokens
  /\ tries \in 0..MaxHttpAttempts
  /\ failed \in [Provider -> Failures \cup {None}]
  /\ sound \in BOOLEAN

\* Mutant: the ids of the provider that was given up are kept.
FreshKeepsTokens ==
  /\ view' \in SUBSET Token /\ initially' = view'
  /\ continuation' = None /\ seen' = {} /\ page' = 1
  /\ tokens' = tokens /\ tries' = 1 /\ sound' = TRUE

\* A provider is asked from the beginning, whatever it knows of.
Fresh ==
  /\ view' \in SUBSET Token /\ initially' = view'
  /\ continuation' = None /\ seen' = {} /\ page' = 1
  /\ tokens' = <<>> /\ tries' = 1 /\ sound' = TRUE

QueriesInit ==
  /\ view = {} /\ initially = {}
  /\ question = "idle"
  /\ provider = "transpose"
  /\ continuation = None /\ seen = {} /\ page = 0
  /\ tokens = <<>> /\ tries = 0 /\ sound = TRUE
  /\ failed = [p \in Provider |-> None]
  /\ answer = None
-----------------------------------------------------------------------------
\* A token is minted and the provider comes to know of it.
Mint ==
  /\ question = "tokens"
  /\ \E t \in Token \ view : view' = view \cup {t}
  /\ UNCHANGED <<question, provider, listing, failed, answer, initially, sound>>

\* getContractTokenIdsAsString: the first page is asked of Transpose, unless
\* getAddressVariants finds the address invalid, which no other provider mends.
List ==
  /\ question = "idle"
  /\ \/ /\ question' = "tokens" /\ Fresh
        /\ UNCHANGED answer
     \/ /\ question' = "answered" /\ answer' = Refused("400")
        /\ UNCHANGED <<view, listing, initially, sound>>
  /\ UNCHANGED <<provider, failed>>

\* The list without repeated texts, in the order of the numbers: texts that differ
\* are kept apart even when they spell the same number.
Sorted(ids) ==
  CHOOSE s \in [1..Cardinality(ids) -> ids] :
    \A i, j \in 1..Cardinality(ids) : i < j => s[i].no <= s[j].no /\ s[i] # s[j]

\* The tokens from a point on, the first ones of them, which make a page, the page,
\* and the point where the next page starts: Transpose's is the last id of a full
\* page, Alchemy's the id that follows the page.
From(p, start) ==
  {t \in view : start # None =>
     IF p = "transpose" THEN t > start.no ELSE t >= start.no}
FirstFrom(p, start) ==
  {t \in From(p, start) :
     Cardinality({u \in From(p, start) : u < t}) < PageSize[p]}
PageOf(p, start) == Sorted({Written(t) : t \in FirstFrom(p, start)})
NextOf(p, start) ==
  LET first == FirstFrom(p, start)  rest == From(p, start) \ first IN
  IF p = "transpose"
  THEN IF Cardinality(first) = TransposePage
       THEN Written(CHOOSE t \in first : \A u \in first : u <= t) ELSE None
  ELSE IF rest # {} THEN Written(CHOOSE t \in rest : \A u \in rest : t <= u)
       ELSE None

\* A well-formed page that need not come from the provider's view: ids that repeat,
\* in any order and spelling, or more than were asked for. Transpose's continuation
\* is still the last id of the page.
OddPages(p) == (UNION {[1..n -> Id] : n \in 0..PageSize[p]})
                 \cup {[i \in 1..MaxTokens |-> x] : x \in Id}
OddNext(p, items) ==
  IF p = "alchemy" THEN Id \cup {None}
  ELSE IF Len(items) = TransposePage THEN {Last(items)} ELSE {None}

\* Mutant: Alchemy is the fallback of Alchemy, too.
GiveUpForAlchemy(kind) ==
  /\ failed' = [failed EXCEPT !["transpose"] = kind]
  /\ provider' = "alchemy"
  /\ Fresh /\ UNCHANGED <<question, answer>>

\* The provider is given up: the other one starts from the beginning, or there is
\* none left.
GiveUp(kind) ==
  /\ failed' = [failed EXCEPT ![provider] = kind]
  /\ IF provider = "transpose"
     THEN provider' = "alchemy" /\ Fresh /\ UNCHANGED <<question, answer>>
     ELSE /\ question' = "answered"
          /\ answer' = Refused(MapProviderErrors({failed["transpose"], kind}))
          /\ UNCHANGED <<view, provider, listing, initially, sound>>

\* formatNumberRange: repeated texts are dropped, then a loop over the sorted numbers
\* extends the last range or begins another one.
Extend(ranges, t) ==
  IF ranges # <<>> /\ t = Last(ranges).end + 1
  THEN [ranges EXCEPT ![Len(ranges)].end = t]
  ELSE Append(ranges, [start |-> t, end |-> t])

RangesOf(sorted) ==
  LET ranges[i \in 0..Len(sorted)] ==
        IF i = 0 THEN <<>> ELSE Extend(ranges[i - 1], sorted[i].no)
  IN ranges[Len(sorted)]

\* Mutant: repeated texts are not dropped.
FormatKeepsRepeats(list) == RangesOf(SortSeq(list, LAMBDA a, b : a.no < b.no))

FormatNumberRange(list) == RangesOf(Sorted(ToSet(list)))

\* Mutant: the page after the last one is counted too.
CollectOnePageLess(items, next, fromView) ==
  LET n == Len(tokens) + Len(items) IN
  \/ /\ n > MaxTokens \/ (next # None /\ (next \in seen \/ page >= MaxPages - 1))
     /\ GiveUp("invalid-response")
  \/ /\ n <= MaxTokens /\ next = None
     /\ tokens' = tokens \o items
     /\ question' = "answered"
     /\ answer' = [status |-> "200", ids |-> FormatNumberRange(tokens')]
     /\ sound' = fromView
     /\ UNCHANGED <<view, provider, continuation, seen, page, tries, failed,
                    initially>>
  \/ /\ n <= MaxTokens /\ next # None
     /\ next \notin seen /\ page < MaxPages - 1
     /\ tokens' = tokens \o items
     /\ continuation' = next /\ seen' = seen \cup {next}
     /\ page' = page + 1 /\ tries' = 1
     /\ sound' = fromView
     /\ UNCHANGED <<view, question, provider, failed, answer, initially>>

\* A page arrives in collectTokenIds; fromView: it and all before it were the
\* provider's view.
Collect(items, next, fromView) ==
  LET n == Len(tokens) + Len(items) IN
  \/ /\ n > MaxTokens
     /\ GiveUp("invalid-response")
  \/ /\ n <= MaxTokens /\ next = None
     /\ tokens' = tokens \o items
     /\ question' = "answered"
     /\ answer' = [status |-> "200", ids |-> FormatNumberRange(tokens')]
     /\ sound' = fromView
     /\ UNCHANGED <<view, provider, continuation, seen, page, tries, failed,
                    initially>>
  \/ /\ n <= MaxTokens /\ next # None
     /\ next \in seen \/ page = MaxPages
     /\ GiveUp("invalid-response")
  \/ /\ n <= MaxTokens /\ next # None
     /\ next \notin seen /\ page < MaxPages
     /\ tokens' = tokens \o items
     /\ continuation' = next /\ seen' = seen \cup {next}
     /\ page' = page + 1 /\ tries' = 1
     /\ sound' = fromView
     /\ UNCHANGED <<view, question, provider, failed, answer, initially>>

\* The provider answers from its view, or something else that passes for a page.
PageArrives ==
  /\ question = "tokens"
  /\ Collect(PageOf(provider, continuation), NextOf(provider, continuation), sound)

OddPageArrives ==
  /\ question = "tokens"
  /\ \E items \in OddPages(provider) : \E next \in OddNext(provider, items) :
       Collect(items, next, FALSE)

\* A request to Alchemy fails in a way that is worth another try.
AlchemyRetry ==
  /\ question # "tokens" => question \in Contracts
  /\ provider = "alchemy"
  /\ \E h \in HttpFailures : IsTemporary(AlchemyFailure(h))
  /\ tries < MaxHttpAttempts
  /\ tries' = tries + 1
  /\ UNCHANGED <<view, question, provider, continuation, seen, page, tokens, failed,
                 answer, initially, sound>>

\* What alchemyGet throws: the last failure.
AlchemyGives(kind) ==
  \E h \in HttpFailures :
    /\ kind = AlchemyFailure(h)
    /\ IsTemporary(kind) => tries = MaxHttpAttempts

\* Transpose is asked once. A response without success is judged by its message.
TransposeFailures == {FailureByMessage(h) : h \in HttpFailures}
                       \cup {"rate-limited", "rejected"}

\* A page does not come, or what comes is not well-formed: truncated, no ids.
PageFails ==
  /\ question = "tokens"
  /\ \E kind \in Failures :
       /\ \/ kind = "invalid-response"
          \/ /\ provider = "transpose" /\ kind \in TransposeFailures
          \/ /\ provider = "alchemy" /\ AlchemyGives(kind)
       /\ GiveUp(kind)

\* getContractMetadata of the API, for a contract the code keeps texts of or not.
AskMetadata ==
  /\ question = "idle"
  /\ question' \in Contracts
  /\ provider' = "alchemy" /\ tries' = 1
  /\ UNCHANGED <<view, continuation, seen, page, tokens, failed, answer, initially,
                 sound>>

\* The client's reading of a response: an unknown token type has a name for it.
NormalizeTokenType(text) == IF text = "provided" THEN text ELSE "placeholder"
\* Then the service's defaults; only the image has none.
WithDefaults(raw) ==
  [f \in Fields |-> IF f = "tokenType" THEN NormalizeTokenType(raw[f])
                    ELSE IF f # "imageUrl" /\ raw[f] = "absent" THEN "placeholder"
                    ELSE raw[f]]

WithCanonicalFallback(text) == IF text = "provided" THEN text ELSE "kept"
ApplyCanonicalFallback(texts) == [f \in Fields |-> WithCanonicalFallback(texts[f])]
GetCanonicalFallback == [texts |-> [f \in Fields |-> "kept"], verified |-> FALSE]

AnswerMetadata(status, contract, a) ==
  /\ question' = "answered"
  /\ answer' = [status |-> status, contract |-> contract, metadata |-> a]
  /\ UNCHANGED <<view, provider, listing, failed, initially, sound>>

MetadataArrives ==
  /\ question \in Contracts
  /\ \E raw \in [Fields -> Texts], verified \in BOOLEAN :
       LET texts == WithDefaults(raw) IN
       AnswerMetadata("200", question,
         [texts |-> IF question = "canonical" THEN ApplyCanonicalFallback(texts)
                    ELSE texts,
          verified |-> verified])

\* The provider has nothing.
MetadataEmpty ==
  /\ question \in Contracts
  /\ AnswerMetadata("200", question,
       IF question = "canonical" THEN GetCanonicalFallback ELSE None)

\* The failure is answered with the kept texts, or passed on.
MetadataFails ==
  /\ question \in Contracts
  /\ \E kind \in Failures : AlchemyGives(kind)
  /\ IF question = "canonical"
     THEN AnswerMetadata("200", question, GetCanonicalFallback)
     ELSE AnswerMetadata("500", question, None)

\* The response is sent.
RespondToQuery ==
  /\ question = "answered"
  /\ question' = "idle" /\ answer' = None
  /\ view' = {} /\ initially' = {}
  /\ provider' = "transpose"
  /\ continuation' = None /\ seen' = {} /\ page' = 0
  /\ tokens' = <<>> /\ tries' = 0 /\ sound' = TRUE
  /\ failed' = [p \in Provider |-> None]

AdvanceQuery ==
  \/ RespondToQuery
  \/ PageFails \/ AlchemyRetry \/ PageArrives \/ OddPageArrives
  \/ MetadataEmpty \/ MetadataFails \/ MetadataArrives

QueriesNext == Mint \/ List \/ AskMetadata \/ AdvanceQuery

QueriesSpec == QueriesInit /\ [][QueriesNext]_queryVars

\* Every HTTP exchange ends, and the continuation that waits for it runs.
FairQueriesSpec == QueriesSpec /\ WF_queryVars(AdvanceQuery)
-----------------------------------------------------------------------------
Listed == answer # None /\ answer.status = "200" /\ "ids" \in DOMAIN answer

\* A list is all of one provider's: it has what that provider knew when the listing
\* began, nothing that it never knew, and each token once; nothing is left of a
\* provider that was given up in the middle (getContractTokenIdsAsString).
ListIsOneView ==
  Listed /\ sound =>
    /\ initially \subseteq Values(tokens) /\ Values(tokens) \subseteq view
    /\ Len(tokens) = Cardinality(Values(tokens))

\* The ranges of an answer are the tokens of the list, in order, and no two of them
\* could be one; there is a gap between them, except where the list spells a token
\* in two ways, which formatNumberRange does not tell before it has numbers.
OneSpelling(list) ==
  \A i, j \in DOMAIN list : list[i].no = list[j].no => list[i] = list[j]
RangesAreTheList ==
  Listed =>
    LET r == answer.ids IN
    /\ UNION {r[i].start..r[i].end : i \in 1..Len(r)} = Values(tokens)
    /\ \A i \in 1..Len(r) : r[i].start <= r[i].end
    /\ \A i \in 1..(Len(r) - 1) :
         r[i].end <= r[i + 1].start /\ r[i + 1].start # r[i].end + 1
    /\ OneSpelling(tokens) =>
         \A i \in 1..(Len(r) - 1) : r[i].end + 1 < r[i + 1].start

\* The most ids a provider can list within its pages: Transpose's last full page
\* asks for another one.
Reach == [p \in Provider |-> IF p = "transpose" THEN MaxPages * TransposePage - 1
                             ELSE MaxPages * AlchemyPage]

\* The bounds on pages and ids refuse no list that is within their reach: a provider
\* that answers all pages from its view is given up only when it has more
\* (MAX_TOKEN_ID_PAGES, MAX_TOKEN_IDS).
BoundsRefuseOnlyLarge ==
  [][PageArrives /\ sound /\ failed' # failed =>
       Cardinality(view) > Reach[provider]]_queryVars

\* 503 tells the client that it is worth trying again: all that failed was
\* temporary; a permanent failure of the first provider is not lost behind a
\* temporary one of the second (mapProviderErrors).
UnavailableIsTemporary ==
  answer = Refused("503") => \A p \in Provider : IsTemporary(failed[p])

\* The contracts the code keeps texts of are always answered, with every text the
\* provider's or the kept one and verified only on the provider's word; for other
\* contracts no kept text is shown (getContractMetadata).
MetadataIsComplete ==
  answer # None /\ "metadata" \in DOMAIN answer =>
    LET m == answer.metadata IN
    IF answer.contract = "canonical"
    THEN /\ answer.status = "200" /\ m # None
         /\ \A f \in Fields : m.texts[f] \in {"provided", "kept"}
         /\ m.verified => m # GetCanonicalFallback
    ELSE m # None => \A f \in Fields : m.texts[f] # "kept"

\* The type invariant and what a client may take an answer for, of each kind.
AnswersAreRight ==
  /\ QueriesTypeOK
  /\ ListIsOneView
  /\ RangesAreTheList
  /\ UnavailableIsTemporary
  /\ MetadataIsComplete

\* Every question is answered, whatever the providers do: retries end, and pages
\* that never end are cut off.
QuestionsAreAnswered == question # "idle" ~> question = "idle"
=============================================================================
