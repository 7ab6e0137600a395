--------------------------- MODULE UniqueWallets ---------------------------
(***************************************************************************)
(* How many wallets a draft of an allowlist's operations leaves in each    *)
(* phase (AllowlistUniqueWalletsCalculationService).  A request's          *)
(* operations are a set: each comes after those that create what it names. *)
(* The operations that select among an item's tokens are left out; the     *)
(* library executes the others and is external.                            *)
(***************************************************************************)
EXTENDS Integers, FiniteSetsExt

CONSTANTS
  PoolTokens,  \* the owners in token_pool_token, of each pool with a snapshot
  None         \* the answer of a request that fails

With(ops, code) == {o \in ops : o.code = code}

\* toCreateAndOtherOps, UNIQUE_WALLET_COUNTS_OPS_RELEVANCY: the order of the wallets
\* is not relevant, and a token pool is not created again but read.
RelevantOps(ops) ==
  {o \in ops : o.code \notin {"ITEM_SORT_WALLETS", "CREATE_TOKEN_POOL"}}

TokenPoolIds(ops) ==
  LET used == {o.pool : o \in With(ops, "ADD_ITEM")}
                \cup UNION {o.pools : o \in With(ops, "REMOVE_POOL_WALLETS")} IN
  {p.id : p \in {q \in used : q.type = "TOKEN_POOL"}}

\* Pools that have rows exist for the operations.
TokenPools(ids) == [p \in ids \cap DOMAIN PoolTokens |-> PoolTokens[p]]

CustomPools(ops) ==
  LET create == With(ops, "CREATE_CUSTOM_TOKEN_POOL") IN
  [p \in {o.id : o \in create} |-> (CHOOSE o \in create : o.id = p).owners]

WinnerComponentIds(ops) ==
  UNION {o.components : o \in With(ops, "REMOVE_COMPONENT_WALLETS")}

\* Mutant: each winner's row takes the place of the one before it.
OneWinnerEach(winners, ids) ==
  [c \in ids \cap {w.component : w \in winners} |->
     {(CHOOSE w \in winners : w.component = c).wallet}]

\* The mock components of the test phase: those that have winners.
ComponentWinners(winners, ids) ==
  [c \in ids \cap {w.component : w \in winners} |->
     {w.wallet : w \in {v \in winners : v.component = c}}]

PhaseIds(ops) == {o.phase : o \in With(ops, "ADD_COMPONENT")}

Pools(ops, p) ==
  IF p.type = "TOKEN_POOL" THEN TokenPools(TokenPoolIds(ops)) ELSE CustomPools(ops)
Exists(ops, p) == p.id \in DOMAIN Pools(ops, p)
Owners(ops, p) == Pools(ops, p)[p.id]
Mock(ops, winners) == ComponentWinners(winners, WinnerComponentIds(ops))

\* An operation that names a pool or a component that does not exist fails; a
\* component of the draft exists and has no winners.
Executes(ops, winners, o) ==
  /\ o.code = "ADD_ITEM" => Exists(ops, o.pool)
  /\ o.code = "REMOVE_POOL_WALLETS" => \A p \in o.pools : Exists(ops, p)
  /\ o.code = "REMOVE_COMPONENT_WALLETS" =>
       o.components \subseteq {c.id : c \in With(ops, "ADD_COMPONENT")}
                               \cup DOMAIN Mock(ops, winners)

Removed(ops, winners, o) ==
  IF o.code = "REMOVE_POOL_WALLETS" THEN UNION {Owners(ops, p) : p \in o.pools}
  ELSE UNION {Mock(ops, winners)[c] : c \in o.components \cap DOMAIN Mock(ops, winners)}

ItemWallets(ops, winners, a) ==
  LET removing == With(ops, "REMOVE_POOL_WALLETS")
                    \cup With(ops, "REMOVE_COMPONENT_WALLETS") IN
  Owners(ops, a.pool)
    \ UNION {Removed(ops, winners, o) : o \in {r \in removing : r.item = a.id}}

PhaseWallets(ops, winners, p) ==
  LET InPhase(a) == \E c \in With(ops, "ADD_COMPONENT") :
                      c.id = a.component /\ c.phase = p IN
  UNION {ItemWallets(ops, winners, a) : a \in {b \in With(ops, "ADD_ITEM") : InPhase(b)}}

\* getUniqueWalletsCountFromOperations: a wallet counts once in each phase.
UniqueWalletsCount(all, winners) ==
  LET ops == RelevantOps(all)
      Count(p) == Cardinality(PhaseWallets(ops, winners, p)) IN
  IF all # {} /\ \A o \in ops : Executes(ops, winners, o)
  THEN MapThenSumSet(Count, PhaseIds(ops))
  ELSE None
=============================================================================
