------------------------------- MODULE Ledger -------------------------------
(***************************************************************************)
(* The part of the chain the wallet commands touch: one mint, token        *)
(* accounts of that mint, and the ARCH of a few keys.  The system program,  *)
(* the APL token program and the associated-token program are not in the   *)
(* repository; Handle models them as token.rs and the commands use them,   *)
(* and a transaction executes all of its instructions or none.             *)
(***************************************************************************)
EXTENDS Integers, Sequences

CONSTANTS
    Keys,        \* public keys that sign or receive
    MintKey,     \* the key whose address is the mint
    Addresses,   \* addresses of token accounts
    Ata,         \* associated token address of each key for the mint
    MaxAmount,   \* the largest u64
    Fee,         \* BASE_FEE_PER_SIGNATURE
    Commands,    \* executions of the wallet commands
    Requests     \* what a command may be asked to do

ASSUME KeysAssumption == MintKey \in Keys /\ "none" \notin Keys
ASSUME AtaAssumption ==
    /\ Ata \in [Keys -> Addresses]
    /\ \A k, l \in Keys : Ata[k] = Ata[l] => k = l
ASSUME AmountsAssumption == MaxAmount \in Nat /\ Fee \in Nat \ {0}

\* "allocated" is a token-program account that holds no mint yet, "foreign" any other account.
Mints == [state : {"missing", "allocated", "initialized", "foreign"},
          auth : Keys \cup {"none"}, supply : Nat]
\* "foreign" is an account of another mint or of another program.
TokenAccounts == [state : {"missing", "initialized", "frozen", "foreign"},
                  owner : Keys \cup {"none"}, amount : Nat]
Ledgers == [mint : Mints, acct : [Addresses -> TokenAccounts], lamports : [Keys -> Nat]]

NoTokenAccount == [state |-> "missing", owner |-> "none", amount |-> 0]
EmptyAccount(owner) == [state |-> "initialized", owner |-> owner, amount |-> 0]

Usable(acct, a, owner) ==
    \/ acct[a].state = "missing"
    \/ acct[a].state = "initialized" /\ acct[a].owner = owner
Opened(acct, owner) ==
    IF acct[Ata[owner]].state = "missing"
    THEN [acct EXCEPT ![Ata[owner]] = EmptyAccount(owner)] ELSE acct
RoomFor(mint, n) == mint.supply + n <= MaxAmount
Issued(mint, n) == [mint EXCEPT !.supply = @ + n]
Plus(acct, a, n) == [acct EXCEPT ![a].amount = @ + n]
Minus(acct, a, n) == [acct EXCEPT ![a].amount = @ - n]
\* ARCH moves from k to l; k also pays the fee of its signature.
Paid(lamports, k, l, n) == [lamports EXCEPT ![k] = @ - (n + Fee), ![l] = @ + n]

-----------------------------------------------------------------------------
(* Requests.                                                               *)

\* "to" is a key for the commands that address a user, else a token account.
CommandNames == {"create_mint", "mint_tokens", "transfer_user",
                 "transfer_account", "transfer_arch"}

ASSUME RequestsAssumption ==
    \A j \in Requests :
        /\ j.cmd \in CommandNames /\ j.signer \in Keys
        /\ j.amount \in 0..MaxAmount /\ j.fixed \in BOOLEAN
        /\ j.cmd \in {"transfer_user", "transfer_account"} => j.source \in Addresses
        /\ IF j.cmd = "transfer_account" THEN j.to \in Addresses ELSE j.to \in Keys
        \* create-mint issues to its own authority; --fixed-supply needs a supply.
        /\ j.cmd = "create_mint" => j.to = j.signer /\ (j.fixed => j.amount > 0)

\* The account a token command credits.
Destination(j) == IF j.cmd = "transfer_account" THEN j.to ELSE Ata[j.to]

-----------------------------------------------------------------------------
(* Instructions.  Fields an instruction does not use are "none" or 0.      *)

Instruction(op, from, to, by, amount) ==
    [op |-> op, from |-> from, to |-> to, by |-> by, amount |-> amount]

CreateAccount(payer) == Instruction("create_account", payer, "none", "none", 0)
InitializeMint(auth) == Instruction("initialize_mint", "none", "none", auth, 0)
CreateAta(owner) == Instruction("create_ata", "none", owner, "none", 0)
MintTo(a, by, n) == Instruction("mint_to", "none", a, by, n)
RevokeMinting(by) == Instruction("revoke", "none", "none", by, 0)
TransferTokens(a, b, by, n) == Instruction("transfer", a, b, by, n)
TransferLamports(k, l, n) == Instruction("system_transfer", k, l, k, n)

\* A handler refuses (no ledger) or returns the ledger after it.
When(accepted, M) == IF accepted THEN {M} ELSE {}

HandleCreateAccount(L) ==
    When(L.mint.state = "missing", [L EXCEPT !.mint.state = "allocated"])

HandleInitializeMint(i, L) ==
    When(L.mint.state = "allocated",
         [L EXCEPT !.mint = [state |-> "initialized", auth |-> i.by, supply |-> 0]])

\* Idempotent: an account the owner already has is left as it is.
HandleCreateAta(i, L) ==
    When(/\ L.mint.state = "initialized"
         /\ \/ L.acct[Ata[i.to]].state = "missing"
            \/ /\ L.acct[Ata[i.to]].state \in {"initialized", "frozen"}
               /\ L.acct[Ata[i.to]].owner = i.to,
         [L EXCEPT !.acct = Opened(L.acct, i.to)])

HandleMintTo(i, L) ==
    When(/\ L.mint.state = "initialized" /\ L.mint.auth = i.by
         /\ L.acct[i.to].state = "initialized"
         /\ RoomFor(L.mint, i.amount),
         [L EXCEPT !.mint = Issued(L.mint, i.amount),
                   !.acct = Plus(L.acct, i.to, i.amount)])

HandleRevoke(i, L) ==
    When(L.mint.state = "initialized" /\ L.mint.auth = i.by,
         [L EXCEPT !.mint.auth = "none"])

HandleTransfer(i, L) ==
    When(/\ L.acct[i.from].state = "initialized" /\ L.acct[i.to].state = "initialized"
         /\ L.acct[i.from].owner = i.by /\ L.acct[i.from].amount >= i.amount,
         [L EXCEPT !.acct = Plus(Minus(L.acct, i.from, i.amount), i.to, i.amount)])

\* With the fee of the one signature; the fees and the rent of the token
\* commands, which no command checks, are left out.
HandleSystemTransfer(i, L) ==
    When(L.lamports[i.from] >= i.amount + Fee,
         [L EXCEPT !.lamports = Paid(L.lamports, i.from, i.to, i.amount)])

Handle(i, L) ==
    CASE i.op = "create_account"  -> HandleCreateAccount(L)
      [] i.op = "initialize_mint" -> HandleInitializeMint(i, L)
      [] i.op = "create_ata"      -> HandleCreateAta(i, L)
      [] i.op = "mint_to"         -> HandleMintTo(i, L)
      [] i.op = "revoke"          -> HandleRevoke(i, L)
      [] i.op = "transfer"        -> HandleTransfer(i, L)
      [] i.op = "system_transfer" -> HandleSystemTransfer(i, L)

\* Instruction k of a transaction, on each ledger in S.
Stage(tx, k, S) == IF k <= Len(tx) THEN UNION {Handle(tx[k], L) : L \in S} ELSE S

\* All instructions or none; no command sends more than five.
Executed(tx, L) ==
    Stage(tx, 5, Stage(tx, 4, Stage(tx, 3, Stage(tx, 2, Stage(tx, 1, {L})))))

-----------------------------------------------------------------------------
(* What others may do to the ledger between two steps of a command.        *)

Disturbances == {"frozen", "spent", "revoked", "opened"}

Thawed(acct, a) ==
    [acct EXCEPT ![a].state = IF @ = "initialized" THEN "frozen" ELSE "initialized"]
\* The freeze authority freezes or thaws a token account.
Frozen(L) ==
    {[L EXCEPT !.acct = Thawed(L.acct, a)] :
        a \in {b \in Addresses : L.acct[b].state \in {"initialized", "frozen"}}}

\* An owner moves tokens or ARCH out of the accounts shown here.
Spent(L) ==
    {[L EXCEPT !.acct = Minus(L.acct, a, 1)] :
        a \in {b \in Addresses : L.acct[b].state = "initialized" /\ L.acct[b].amount > 0}}
    \cup {[L EXCEPT !.lamports = [L.lamports EXCEPT ![k] = @ - 1]] :
            k \in {l \in Keys : L.lamports[l] > 0}}

\* The mint authority gives up minting.
Revoked(L) ==
    When(L.mint.state = "initialized" /\ L.mint.auth # "none",
         [L EXCEPT !.mint.auth = "none"])

\* Somebody opens the associated account of a key.
OpenedByOthers(L) ==
    {[L EXCEPT !.acct = Opened(L.acct, k)] :
        k \in {l \in Keys : L.mint.state = "initialized"
                            /\ L.acct[Ata[l]].state = "missing"}}

Others(L, kinds) ==
    UNION {CASE d = "frozen"  -> Frozen(L)
             [] d = "spent"   -> Spent(L)
             [] d = "revoked" -> Revoked(L)
             [] d = "opened"  -> OpenedByOthers(L) : d \in kinds}
=============================================================================
