---------------------------- MODULE WalletPromise ----------------------------
(***************************************************************************)
(* What the token and ARCH commands promise their user, without reads,     *)
(* signatures, instructions or transactions: a command takes effect at     *)
(* most once, wholly or not at all and exactly as it was asked to; success *)
(* is reported only afterwards, and a command that reports a refusal has   *)
(* changed nothing and never will.  Only a command that could not learn    *)
(* the outcome may have taken effect or may still do so.                   *)
(***************************************************************************)
EXTENDS Ledger

VARIABLES
    ledger,    \* the chain
    job,       \* what each command was asked to do
    done,      \* whether it has taken effect
    report     \* "none" while it runs, then "ok", "refused" or "unknown"

promise == <<ledger, job, done, report>>

\* Credit a user: the account is opened when the user has none.
Credited(acct, owner, n) == Plus(Opened(acct, owner), Ata[owner], n)
MayHold(acct, owner) == Usable(acct, Ata[owner], owner)

Permitted(j, L) ==
    /\ j.cmd # "create_mint" => j.amount > 0
    /\ CASE j.cmd = "create_mint" ->
              /\ j.signer # MintKey
              /\ L.mint.state = "missing"
              /\ j.amount > 0 => MayHold(L.acct, j.signer)
         [] j.cmd = "mint_tokens" ->
              /\ L.mint.state = "initialized" /\ L.mint.auth = j.signer
              /\ RoomFor(L.mint, j.amount)
              /\ MayHold(L.acct, j.to)
         [] j.cmd \in {"transfer_user", "transfer_account"} ->
              /\ L.acct[j.source].state = "initialized"
              /\ L.acct[j.source].owner = j.signer
              /\ L.acct[j.source].amount >= j.amount
              /\ Destination(j) # j.source
              /\ IF j.cmd = "transfer_user" THEN MayHold(L.acct, j.to)
                 ELSE L.acct[j.to].state = "initialized"
         [] j.cmd = "transfer_arch" ->
              /\ j.to # j.signer
              /\ L.lamports[j.signer] >= j.amount + Fee

Intended(j, L) ==
    CASE j.cmd = "create_mint" ->
           [L EXCEPT !.mint = [state |-> "initialized",
                               auth |-> IF j.fixed THEN "none" ELSE j.signer,
                               supply |-> j.amount],
                     !.acct = IF j.amount > 0 THEN Credited(L.acct, j.signer, j.amount) ELSE L.acct]
      [] j.cmd = "mint_tokens" ->
           [L EXCEPT !.mint = Issued(L.mint, j.amount),
                     !.acct = Credited(L.acct, j.to, j.amount)]
      [] j.cmd = "transfer_user" ->
           [L EXCEPT !.acct = Credited(Minus(L.acct, j.source, j.amount), j.to, j.amount)]
      [] j.cmd = "transfer_account" ->
           [L EXCEPT !.acct = Plus(Minus(L.acct, j.source, j.amount), j.to, j.amount)]
      [] j.cmd = "transfer_arch" ->
           [L EXCEPT !.lamports = Paid(L.lamports, j.signer, j.to, j.amount)]

Init ==
    /\ ledger \in Ledgers
    /\ job \in [Commands -> Requests]
    /\ done = [c \in Commands |-> FALSE]
    /\ report = [c \in Commands |-> "none"]

TakeEffect(c) ==
    /\ ~done[c] /\ report[c] \in {"none", "unknown"}
    /\ Permitted(job[c], ledger)
    /\ ledger' = Intended(job[c], ledger)
    /\ done' = [done EXCEPT ![c] = TRUE]
    /\ UNCHANGED <<job, report>>

Report(c, how) ==
    /\ report[c] = "none"
    /\ how = "ok" => done[c]
    /\ how = "refused" => ~done[c]
    /\ report' = [report EXCEPT ![c] = how]
    /\ UNCHANGED <<ledger, job, done>>

OthersAct ==
    /\ ledger' \in Others(ledger, Disturbances)
    /\ UNCHANGED <<job, done, report>>

Next ==
    \/ OthersAct
    \/ \E c \in Commands :
         TakeEffect(c) \/ \E how \in {"ok", "refused", "unknown"} : Report(c, how)

Spec == Init /\ [][Next]_promise
=============================================================================
