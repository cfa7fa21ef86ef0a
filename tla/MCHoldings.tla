----------------------------- MODULE MCHoldings -----------------------------
(* A small instance of Holdings and Amounts for TLC: three mints fetched   *)
(* two at a time, accounts of alice and bob, and every text of up to five  *)
(* symbols.                                                                *)
EXTENDS Holdings

AllTexts == BoundedSeq(Symbols, 5)

MCAddresses == <<"a1", "a2", "a3", "a4">>
MCMints == <<"gold", "iron", "lead">>
MCDecimalsOf == [gold |-> 0, iron |-> 2, lead |-> 6]
Query(cmd, owner, mint, address) ==
    [cmd |-> cmd, owner |-> owner, mint |-> mint, address |-> address]
MCQueries ==
    {Query("token_accounts", o, "none", "none") : o \in Owners}
    \cup {Query("token_balance", "alice", "iron", "a1"),
          Query("token_balance", "alice", "gold", "a3"),
          Query("token_balance", "alice", "wood", "a2")}   \* no such mint
    \cup {Query("token_account", "none", "none", a) : a \in {"a1", "a4"}}

Tokens(mint, owner, n) == [mint |-> mint, owner |-> owner, amount |-> n]
MCHoldings ==
    {[a1 |-> NoHolding, a2 |-> NoHolding, a3 |-> NoHolding, a4 |-> NoHolding],
     [a1 |-> Tokens("iron", "alice", 7), a2 |-> Tokens("lead", "alice", 0),
      a3 |-> Tokens("gold", "alice", 7), a4 |-> Tokens("iron", "alice", 0)],
     [a1 |-> Tokens("iron", "bob", 7), a2 |-> NoHolding,
      a3 |-> Tokens("gold", "alice", 0), a4 |-> Tokens("lead", "bob", 7)],
     [a1 |-> Stray, a2 |-> Stray, a3 |-> Tokens("gold", "alice", 7), a4 |-> Stray]}
=============================================================================
