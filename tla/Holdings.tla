------------------------------- MODULE Holdings -------------------------------
(***************************************************************************)
(* What token-accounts, token-balance and token-account report: they read  *)
(* token accounts and then mints, or the other way round, in requests      *)
(* between which other users act, and print each amount in the decimals of *)
(* its mint.  Any request may fail, and a node may leave accounts out of   *)
(* its answer.                                                             *)
(*                                                                         *)
(* Abstracted data: of a token account its mint, its owner and its amount; *)
(* of a mint its decimals, which never change.                             *)
(***************************************************************************)
EXTENDS Amounts

CONSTANTS
    Addresses,     \* of token accounts, in the order of their bytes
    Mints,         \* addresses of mints, in the order of their bytes
    DecimalsOf,    \* the decimals of each mint
    Owners,
    Balances,      \* amounts other users hold and move
    BatchSize,     \* RPC_ACCOUNT_BATCH_SIZE
    Queries,       \* what may be asked; token-balance with the associated address
    InitialHoldings,
    Faults,        \* "request_fails", "answer_short", "answer_bad"
    MaxTurns       \* bound: how often other users act

Holding == [mint : ToSet(Mints), owner : Owners, amount : Balances]
NoHolding == [mint |-> "none", owner |-> "none", amount |-> 0]
\* An account that is no token account: somebody sent ARCH to the address.
Stray == [mint |-> "none", owner |-> "nobody", amount |-> 0]
Contents == Holding \cup {NoHolding, Stray}

\* An address is that of one account.
ASSUME AddressesAssumption ==
    /\ Addresses \in Seq(ToSet(Addresses)) /\ IsInjective(Addresses)
    /\ Mints \in Seq(ToSet(Mints)) /\ IsInjective(Mints)

ASSUME HoldingsAssumption ==
    /\ BatchSize \in Nat \ {0} /\ MaxTurns \in Nat
    /\ DecimalsOf \in [ToSet(Mints) -> Scales] /\ Balances \subseteq 0..MaxAmount
    /\ {NoHolding, Stray} \cap Holding = {}
    /\ InitialHoldings \subseteq [ToSet(Addresses) -> Contents]
    /\ Queries # {}
    /\ \A q \in Queries :
         /\ q.cmd \in {"token_accounts", "token_balance", "token_account"}
         /\ q.cmd # "token_account" => q.owner \in Owners
         /\ q.cmd # "token_accounts" => q.address \in ToSet(Addresses)

VARIABLES
    held,      \* what stands at each address
    query,     \* what was asked
    found,     \* the accounts read, by address
    known,     \* the decimals of the mints read
    batch,     \* where the next batch of mints begins
    lines,     \* what is reported
    then,      \* history: the chain when the accounts were read
    faulty,    \* history: a request failed, or its answer left something out
    turns      \* history: how often other users have acted

reading == <<held, query, found, known, batch, lines, then, faulty, turns>>

\* The step of the command is kept in "at", which Amounts goes on from once a
\* line is printed.
Fail == at' = "failed" /\ UNCHANGED <<text, decimals, amount, shown>>
Goto(step) == at' = step /\ UNCHANGED <<text, decimals, amount, shown>>

\* The elements of A in the order of s: sort_by_key, and a BTreeSet.
InOrder(s, A) ==
    LET places == {i \in DOMAIN s : s[i] \in A}
    IN  [k \in 1..Cardinality(places) |->
            s[CHOOSE i \in places : Cardinality({j \in places : j <= i}) = k]]

Exists(a) == held[a] # NoHolding
\* decode_token_account: the owning program, the length and the contents.
IsToken(h) == h \in Holding
Line(a, n, scale) == [address |-> a, amount |-> n, decimals |-> scale]

-----------------------------------------------------------------------------
(* token-accounts: list_token_accounts.                                    *)

\* get_program_accounts with its two filters.
OwnedBy(owner) == {a \in ToSet(Addresses) : IsToken(held[a]) /\ held[a].owner = owner}

FetchAccounts ==
    /\ at = "reading" /\ query.cmd = "token_accounts"
    /\ found' = [a \in OwnedBy(query.owner) |-> held[a]]
    /\ then' = held
    /\ Goto("mints")
    /\ UNCHANGED <<held, query, known, batch, lines, faulty, turns>>

\* Each mint once.
Needed == InOrder(Mints, {found[a].mint : a \in DOMAIN found})
Batch == SubSeq(Needed, batch, Min({batch + BatchSize - 1, Len(Needed)}))

\* Mutant: the chunks overlap the wrong way.
SkippedOne == batch + BatchSize + 1
NextBatch == batch + BatchSize

\* Mutant: the answers are taken from the end.
Popped(infos, i) == infos[Len(infos) + 1 - i]
Zipped(infos, i) == infos[i]

\* The loop inserts the decimals decoded from the answer under the mint it is zipped
\* with.
Inserted(infos) ==
    LET asked == {Batch[i] : i \in DOMAIN infos}
    IN  [m \in DOMAIN known \cup asked |->
            IF m \in asked THEN Zipped(infos, CHOOSE i \in DOMAIN infos : Batch[i] = m)
            ELSE known[m]]

\* The node answers for the first n mints of the batch, in its order.  An account that
\* is missing or is no mint (decode_mint) is "bad".
FetchMints ==
    /\ at = "mints" /\ batch <= Len(Needed)
    /\ \E n \in 0..Len(Batch), bad \in BOOLEAN :
         /\ n < Len(Batch) => "answer_short" \in Faults
         /\ bad => "answer_bad" \in Faults /\ n > 0
         /\ IF bad THEN Fail /\ UNCHANGED <<known, batch>>
            ELSE /\ known' = Inserted([i \in 1..n |-> DecimalsOf[Batch[i]]])
                 /\ batch' = NextBatch
                 /\ UNCHANGED <<text, decimals, amount, shown, at>>
         /\ faulty' = (faulty \/ bad \/ n < Len(Batch))
    /\ UNCHANGED <<held, query, found, lines, then, turns>>

Listed == InOrder(Addresses, DOMAIN found)

Assemble ==
    /\ at = "mints" /\ batch > Len(Needed)
    /\ IF \A a \in DOMAIN found : found[a].mint \in DOMAIN known
       THEN /\ lines' = [i \in DOMAIN Listed |-> LET h == found[Listed[i]]
                                                IN  Line(Listed[i], h.amount, known[h.mint])]
            /\ Goto("reported")
       ELSE Fail /\ UNCHANGED lines
    /\ UNCHANGED <<held, query, found, known, batch, then, faulty, turns>>

-----------------------------------------------------------------------------
(* token-account: read_token_account.                                      *)

ReadAccount ==
    /\ at = "reading" /\ query.cmd = "token_account"
    /\ then' = held
    /\ IF IsToken(held[query.address])
       THEN found' = [a \in {query.address} |-> held[a]] /\ Goto("mint")
       ELSE Fail /\ UNCHANGED found
    /\ UNCHANGED <<held, query, known, batch, lines, faulty, turns>>

ReadItsMint ==
    /\ at = "mint" /\ query.cmd = "token_account"
    /\ lines' = LET h == found[query.address]
                IN  <<Line(query.address, h.amount, DecimalsOf[h.mint])>>
    /\ Goto("reported")
    /\ UNCHANGED <<held, query, found, known, batch, then, faulty, turns>>

-----------------------------------------------------------------------------
(* token-balance: read_associated_balance.                                 *)

IsMint(address) == address \in ToSet(Mints)

ReadMint ==
    /\ at = "reading" /\ query.cmd = "token_balance"
    /\ IF IsMint(query.mint) THEN Goto("own") ELSE Fail
    /\ UNCHANGED reading

IsOwn(h) == IsToken(h) /\ h.mint = query.mint /\ h.owner = query.owner

\* An associated account may have been given to another owner, and what stands at its
\* address may be no token account.  None at all is a balance of zero.
ReadOwn ==
    /\ at = "own"
    /\ then' = held
    /\ IF Exists(query.address) => IsOwn(held[query.address])
       THEN /\ lines' = <<Line(query.address, held[query.address].amount,
                            DecimalsOf[query.mint])>>
            /\ Goto("reported")
       ELSE Fail /\ UNCHANGED lines
    /\ UNCHANGED <<held, query, found, known, batch, faulty, turns>>

-----------------------------------------------------------------------------
\* A request fails, or an account in its answer cannot be decoded.
RequestFails ==
    /\ "request_fails" \in Faults
    /\ at \in {"reading", "mint", "own"} \/ (at = "mints" /\ batch <= Len(Needed))
    /\ Fail
    /\ faulty' = TRUE
    /\ UNCHANGED <<held, query, found, known, batch, lines, then, turns>>

\* Accounts are opened, closed, spent from, paid into and given away, and ARCH is sent
\* to an address before a token account is there.
OthersAct ==
    /\ at \in {"reading", "mints", "mint", "own"} /\ turns < MaxTurns
    /\ \E a \in ToSet(Addresses), h \in Contents :
         h # held[a] /\ held' = [held EXCEPT ![a] = h]
    /\ turns' = turns + 1
    /\ UNCHANGED <<query, found, known, batch, lines, then, faulty>>
    /\ UNCHANGED vars

\* A line is printed: format_amount has the amount and the decimals.
PrintLine ==
    /\ at = "reported"
    /\ \E i \in DOMAIN lines :
         amount' = lines[i].amount /\ decimals' = lines[i].decimals
    /\ at' = "parsed"
    /\ UNCHANGED <<text, shown, reading>>

Reading ==
    \/ FetchAccounts \/ FetchMints \/ Assemble \/ ReadAccount \/ ReadItsMint
    \/ ReadMint \/ ReadOwn \/ RequestFails \/ OthersAct \/ PrintLine

Blank == found = <<>> /\ known = <<>> /\ batch = 1 /\ lines = <<>> /\ faulty = FALSE /\ turns = 0
ReadingInit ==
    /\ at = "reading" /\ text = <<>> /\ decimals = 0 /\ amount = 0 /\ shown = <<>>
    /\ held \in InitialHoldings /\ then = held
    /\ query \in Queries
    /\ Blank
\* An amount that is typed, or read by another command.
TypingInit ==
    /\ Init
    /\ held = [a \in ToSet(Addresses) |-> NoHolding] /\ then = held
    /\ query \in {CHOOSE q \in Queries : TRUE}
    /\ Blank

SessionInit == ReadingInit \/ TypingInit
SessionNext == Reading \/ (Next /\ UNCHANGED reading)
SessionSpec == SessionInit /\ [][SessionNext]_<<vars, reading>>

-----------------------------------------------------------------------------
(* What a query ought to answer for the accounts on the chain at one       *)
(* moment.                                                                 *)

Answer(q, chain) ==
    LET Shown(a, mint) == Line(a, chain[a].amount, DecimalsOf[mint])
        there == chain[q.address]
        mine == {a \in ToSet(Addresses) : chain[a] \in Holding /\ chain[a].owner = q.owner}
    IN  CASE q.cmd = "token_accounts" -> {Shown(a, chain[a].mint) : a \in mine}
          [] q.cmd = "token_account" ->
               IF there \in Holding THEN {Shown(q.address, there.mint)} ELSE {}
          [] q.cmd = "token_balance" ->
               IF /\ IsMint(q.mint)
                  /\ \/ there = NoHolding
                     \/ there \in Holding /\ there.mint = q.mint /\ there.owner = q.owner
               THEN {Shown(q.address, q.mint)} ELSE {}

(* Whatever others do between its requests, a query reports the accounts   *)
(* as they stood together at one moment: all it was asked for and no       *)
(* others, each once, in order and in the decimals of its own mint.  It    *)
(* fails only if a request did, an answer was incomplete, or there was     *)
(* nothing to report (list_token_accounts, read_associated_balance).       *)
ReportIsSnapshot ==
    /\ at = "reported" =>
           /\ ToSet(lines) = Answer(query, then)
           /\ Len(lines) = Cardinality(Answer(query, then))
           /\ \A i, k \in DOMAIN lines : i < k =>
                  \E m, n \in DOMAIN Addresses : /\ m < n
                                                 /\ Addresses[m] = lines[i].address
                                                 /\ Addresses[n] = lines[k].address
    /\ at = "failed" => faulty \/ (query.cmd # "token_accounts" /\ Answer(query, then) = {})
=============================================================================
