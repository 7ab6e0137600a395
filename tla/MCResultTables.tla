--------------------------- MODULE MCResultTables ---------------------------
(* An instance of ResultTables for model checking. *)
EXTENDS ResultTables

\* Every run computes two winners, and the second more pools.
ComputedRows ==
  [n \in Run |-> [t \in Table |-> IF t = "winner" THEN 2
                                  ELSE IF t = "pool" THEN (IF n = 1 THEN 1 ELSE 2) ELSE 1]]
Won(w) == [component |-> "c1", wallet |-> w]
Winners == [n \in Run |-> IF n = 1 THEN <<Won("w1"), Won("w2")>>
                                   ELSE <<Won("w1"), Won("w3")>>]

Tokens == [p \in {"members", "banned"} |->
             IF p = "members" THEN {"w1", "w2", "w3", "w4"} ELSE {"w4"}]

\* Two phases: the winners of c1 are removed from the members and from a custom pool,
\* and those who are banned from the members.
Draft ==
  LET Component(p, id) == [code |-> "ADD_COMPONENT", phase |-> p, id |-> id]
      Item(c, id, p) == [code |-> "ADD_ITEM", component |-> c, id |-> id, pool |-> p]
      members == [type |-> "TOKEN_POOL", id |-> "members"]
      banned == [type |-> "TOKEN_POOL", id |-> "banned"]
      custom == [type |-> "CUSTOM_TOKEN_POOL", id |-> "friends"] IN
  {[code |-> "CREATE_TOKEN_POOL", id |-> "members"],
   [code |-> "CREATE_CUSTOM_TOKEN_POOL", id |-> "friends", owners |-> {"w2", "w5"}],
   Component("p1", "c2"), Component("p2", "c3"),
   Item("c2", "i1", members), Item("c3", "i2", custom), Item("c3", "i3", members),
   [code |-> "ITEM_SORT_WALLETS", item |-> "i1"],
   [code |-> "REMOVE_POOL_WALLETS", item |-> "i1", pools |-> {banned}],
   [code |-> "REMOVE_COMPONENT_WALLETS", item |-> "i1", components |-> {"c1"}],
   [code |-> "REMOVE_COMPONENT_WALLETS", item |-> "i2", components |-> {"c1", "c2"}]}

\* A draft of the winners' component itself, which is never refused.
OwnDraft ==
  {[code |-> "ADD_COMPONENT", phase |-> "p1", id |-> "c1"],
   [code |-> "ADD_ITEM", component |-> "c1", id |-> "i1",
    pool |-> [type |-> "TOKEN_POOL", id |-> "members"]],
   [code |-> "REMOVE_COMPONENT_WALLETS", item |-> "i1", components |-> {"c1"}]}
CountedDrafts == {Draft, OwnDraft}
=============================================================================
