------------------------------- MODULE Wallet -------------------------------
(***************************************************************************)
(* The commands that move value: create-mint, mint-tokens, token-transfer, *)
(* token-transfer-to-account and transfer-arch, from their checks and      *)
(* reads over the signatures of local keys and cosigners to the one        *)
(* transaction each sends and waits for.  Between any two requests other   *)
(* commands and other users act.                                           *)
(*                                                                         *)
(* Abstracted data: amounts are raw and small, public keys and addresses   *)
(* are model values; a message stands for the command that built it.       *)
(***************************************************************************)
EXTENDS Ledger

CONSTANTS
    Remote,          \* keys whose signer source is a cosigner
    InitialLedgers,  \* what earlier commands and other users may have left
    Faults,          \* "tx_fails", "client_stops", and what others do
    MaxTurns         \* bound: how often others act

ASSUME WalletAssumption ==
    /\ Remote \subseteq Keys
    /\ InitialLedgers \subseteq Ledgers
    /\ Faults \subseteq Disturbances \cup {"tx_fails", "client_stops"}
    /\ MaxTurns \in Nat
    /\ "none" \notin Commands

VARIABLES
    ledger,    \* the chain
    job,       \* what each command was asked to do
    pc,        \* the request each command has reached
    status,    \* "idle", "running", "ok" or the error it returned
    signed,    \* the signatures it has collected
    tx,        \* its transaction: "none", "pending", "processed" or "failed"
    calm,      \* history: nobody else has changed the ledger since it began
    turns      \* history: how often others have acted

vars == <<ledger, job, pc, status, signed, tx, calm, turns>>

Steps == {"start", "mint", "source", "destination", "sign", "send", "wait"}
Refusals == {"refused", "unsigned", "tx_failed"}
TxStates == {"none", "pending", "processed", "failed"}

-----------------------------------------------------------------------------
(* The transaction of each command.                                        *)

\* mint_to_user_instructions: the recipient's account is opened on the way.
MintToUser(user, authority, n) == <<CreateAta(user), MintTo(Ata[user], authority, n)>>

\* Mutant: the supply is left open.
UnsealedMint(j) ==
    <<CreateAccount(j.signer), InitializeMint(j.signer)>>
        \o IF j.amount > 0 THEN MintToUser(j.signer, j.signer, j.amount) ELSE <<>>
CreateMintInstructions(j) ==
    <<CreateAccount(j.signer), InitializeMint(j.signer)>>
        \o (IF j.amount > 0 THEN MintToUser(j.signer, j.signer, j.amount) ELSE <<>>)
        \o (IF j.fixed THEN <<RevokeMinting(j.signer)>> ELSE <<>>)

TransferInstructions(j) ==
    (IF j.cmd = "transfer_user" THEN <<CreateAta(j.to)>> ELSE <<>>)
        \o <<TransferTokens(j.source, Destination(j), j.signer, j.amount)>>

Instructions(j) ==
    CASE j.cmd = "create_mint"   -> CreateMintInstructions(j)
      [] j.cmd = "mint_tokens"   -> MintToUser(j.to, j.signer, j.amount)
      [] j.cmd = "transfer_arch" -> <<TransferLamports(j.signer, j.to, j.amount)>>
      [] OTHER -> TransferInstructions(j)

\* The keys that must sign, in the order of the message's accounts.
Required(j) == IF j.cmd = "create_mint" THEN <<j.signer, MintKey>> ELSE <<j.signer>>

-----------------------------------------------------------------------------
(* What a command refuses before it signs.                                 *)

\* Mutant: amount plus fee wraps around.
WrappedBalance(j) == (j.amount + Fee) % (MaxAmount + 1)
RequiredBalance(j) == j.amount + Fee

\* Before the first request.
LocalRefusal(j) ==
    \/ j.cmd = "create_mint" /\ j.signer = MintKey
    \/ j.cmd = "transfer_arch" /\ (\/ j.to = j.signer
                                   \/ j.amount = 0
                                   \/ RequiredBalance(j) > MaxAmount)

MintRefusal(j, L) ==
    \/ L.mint.state # "initialized"
    \/ j.cmd = "mint_tokens" /\ L.mint.auth # j.signer
    \/ j.amount = 0

TokenSourceRefusal(j, L) ==
    \/ L.acct[j.source].state # "initialized"
    \/ L.acct[j.source].owner # j.signer
    \/ L.acct[j.source].amount < j.amount

\* An account of the token program contains data and is not system-owned.
HoldsData(k, L) == k = MintKey /\ L.mint.state # "missing"
ArchSourceRefusal(j, L) ==
    HoldsData(j.signer, L) \/ L.lamports[j.signer] < RequiredBalance(j)

SourceRefusal(j, L) ==
    IF j.cmd = "transfer_arch" THEN ArchSourceRefusal(j, L)
    ELSE \/ TokenSourceRefusal(j, L)
         \/ j.cmd = "transfer_user" /\ Destination(j) = j.source

DestinationRefusal(j, L) ==
    L.acct[j.to].state # "initialized" \/ j.to = j.source

-----------------------------------------------------------------------------
(* Signatures.                                                             *)

Signature(k, c) == [by |-> k, of |-> c]
Signatures == [by : Keys \cup {"none"}, of : Commands \cup {"none"}]

\* What a cosigner may answer: a signature, or no valid one ("none"), the key
\* it claims and the digest it reports, if any.
Answers == [signature : Signatures, pubkey : Keys, digest : Commands \cup {"none"}]

\* Mutant: the reported key and digest are believed.
BelievedAnswer(a, k, c) ==
    /\ a.signature.by # "none" /\ a.pubkey = k /\ a.digest \in {c, "none"}
\* verify_response, for key k and the message of c.
VerifiedAnswer(a, k, c) ==
    /\ a.signature.by # "none" /\ a.pubkey = k /\ a.digest \in {c, "none"}
    /\ a.signature = Signature(k, c)

WellSigned(c) ==
    signed[c] = [i \in 1..Len(Required(job[c])) |-> Signature(Required(job[c])[i], c)]

\* What the node does with the transaction of c.
Outcome(c) == IF WellSigned(c) THEN Executed(Instructions(job[c]), ledger) ELSE {}

-----------------------------------------------------------------------------
Init ==
    /\ ledger \in InitialLedgers
    /\ job \in [Commands -> Requests]
    /\ pc = [c \in Commands |-> "start"]
    /\ status = [c \in Commands |-> "idle"]
    /\ signed = [c \in Commands |-> <<>>]
    /\ tx = [c \in Commands |-> "none"]
    /\ calm = [c \in Commands |-> TRUE]
    /\ turns = 0

At(c, step) == status[c] = "running" /\ pc[c] = step
Goto(c, step) == pc' = [pc EXCEPT ![c] = step] /\ UNCHANGED status
Return(c, how) == status' = [status EXCEPT ![c] = how] /\ UNCHANGED pc
\* Whoever changes the ledger disturbs the other commands in progress.
Disturbs(c) == calm' = [d \in Commands |-> calm[d] /\ (d = c \/ status[d] # "running")]

FirstStep(j) ==
    CASE j.cmd = "create_mint" -> "sign"
      [] j.cmd = "transfer_arch" -> "source"
      [] OTHER -> "mint"

Begin(c) ==
    /\ status[c] = "idle"
    /\ status' = [status EXCEPT ![c] = IF LocalRefusal(job[c]) THEN "refused" ELSE "running"]
    /\ pc' = [pc EXCEPT ![c] = FirstStep(job[c])]
    /\ UNCHANGED <<ledger, job, signed, tx, calm, turns>>

ReadMint(c) ==
    /\ At(c, "mint")
    /\ IF MintRefusal(job[c], ledger) THEN Return(c, "refused")
       ELSE Goto(c, IF job[c].cmd = "mint_tokens" THEN "sign" ELSE "source")
    /\ UNCHANGED <<ledger, job, signed, tx, calm, turns>>

ReadSource(c) ==
    /\ At(c, "source")
    /\ IF SourceRefusal(job[c], ledger) THEN Return(c, "refused")
       ELSE Goto(c, IF job[c].cmd = "transfer_account" THEN "destination" ELSE "sign")
    /\ UNCHANGED <<ledger, job, signed, tx, calm, turns>>

ReadDestination(c) ==
    /\ At(c, "destination")
    /\ IF DestinationRefusal(job[c], ledger) THEN Return(c, "refused")
       ELSE Goto(c, "sign")
    /\ UNCHANGED <<ledger, job, signed, tx, calm, turns>>

\* The key that signs next.
NextKey(c) == Required(job[c])[Len(signed[c]) + 1]

Signs(c, s) ==
    /\ signed' = [signed EXCEPT ![c] = Append(@, s)]
    /\ Goto(c, IF Len(signed[c]) + 1 = Len(Required(job[c])) THEN "send" ELSE "sign")

SignLocally(c) ==
    /\ At(c, "sign") /\ NextKey(c) \notin Remote
    /\ Signs(c, Signature(NextKey(c), c))
    /\ UNCHANGED <<ledger, job, tx, calm, turns>>

AskCosigner(c) ==
    /\ At(c, "sign") /\ NextKey(c) \in Remote
    /\ \E a \in Answers :
         IF VerifiedAnswer(a, NextKey(c), c) THEN Signs(c, a.signature)
         ELSE Return(c, "unsigned") /\ UNCHANGED signed
    /\ UNCHANGED <<ledger, job, tx, calm, turns>>

Send(c) ==
    /\ At(c, "send")
    /\ tx' = [tx EXCEPT ![c] = "pending"]
    /\ Goto(c, "wait")
    /\ UNCHANGED <<ledger, job, signed, calm, turns>>

\* The node executes the transaction, whether or not the client still waits.
Land(c) ==
    /\ tx[c] = "pending"
    /\ ledger' \in Outcome(c)
    /\ tx' = [tx EXCEPT ![c] = "processed"]
    /\ Disturbs(c)
    /\ UNCHANGED <<job, pc, status, signed, turns>>

Reject(c) ==
    /\ tx[c] = "pending"
    /\ Outcome(c) = {} \/ "tx_fails" \in Faults
    /\ tx' = [tx EXCEPT ![c] = "failed"]
    /\ UNCHANGED <<ledger, job, pc, status, signed, calm, turns>>

\* Mutant: the status of the processed transaction is not looked at.
AnyStatus(c) == "ok"
Verdict(c) == IF tx[c] = "processed" THEN "ok" ELSE "tx_failed"

Confirm(c) ==
    /\ At(c, "wait") /\ tx[c] \in {"processed", "failed"}
    /\ Return(c, Verdict(c))
    /\ UNCHANGED <<ledger, job, signed, tx, calm, turns>>

\* A request fails, its answer is lost, the client is killed: after the
\* request that sends, the transaction may or may not have reached the node.
Stop(c) ==
    /\ "client_stops" \in Faults /\ status[c] = "running"
    /\ Return(c, "lost")
    /\ IF pc[c] = "send" THEN tx' \in {tx, [tx EXCEPT ![c] = "pending"]} ELSE UNCHANGED tx
    /\ UNCHANGED <<ledger, job, signed, calm, turns>>

Client(c) ==
    \/ Begin(c) \/ ReadMint(c) \/ ReadSource(c) \/ ReadDestination(c)
    \/ SignLocally(c) \/ AskCosigner(c) \/ Send(c) \/ Confirm(c)

OthersStep ==
    /\ turns < MaxTurns /\ turns' = turns + 1
    /\ ledger' \in Others(ledger, Faults \cap Disturbances)
    /\ calm' = [c \in Commands |-> calm[c] /\ status[c] # "running"]
    /\ UNCHANGED <<job, pc, status, signed, tx>>

Next == OthersStep \/ \E c \in Commands : Client(c) \/ Land(c) \/ Reject(c) \/ Stop(c)

Spec == Init /\ [][Next]_vars

-----------------------------------------------------------------------------
(* Every variable keeps its type.                                          *)
TypeOK ==
    /\ ledger \in Ledgers
    /\ job \in [Commands -> Requests]
    /\ pc \in [Commands -> Steps]
    /\ status \in [Commands -> {"idle", "running", "ok", "lost"} \cup Refusals]
    /\ signed \in [Commands -> Seq(Signatures)]
    /\ tx \in [Commands -> TxStates]
    /\ calm \in [Commands -> BOOLEAN]
    /\ turns \in 0..MaxTurns

(* Whatever a cosigner answers, a transaction that leaves the client       *)
(* carries one signature per required account, in the order of the         *)
(* message, each of that key over that message.                            *)
SentIsSigned == \A c \in Commands : tx[c] # "none" => WellSigned(c)

(* Once a create-mint with --fixed-supply has taken effect, the supply is  *)
(* what it issued and nobody can ever mint again.                          *)
FixedSupplySealed ==
    \A c \in Commands :
        job[c].cmd = "create_mint" /\ job[c].fixed /\ tx[c] = "processed" =>
            ledger.mint = [state |-> "initialized", auth |-> "none",
                           supply |-> job[c].amount]

\* What no command reads before it sends: whether the mint address is taken,
\* the account of the user it credits, and the room left in the supply.
Unforeseen(j, L) ==
    \/ j.cmd = "create_mint" /\ L.mint.state # "missing"
    \/ /\ j.cmd \in {"create_mint", "mint_tokens", "transfer_user"}
       /\ ~Usable(L.acct, Ata[j.to], j.to)
    \/ j.cmd = "mint_tokens" /\ ~RoomFor(L.mint, j.amount)

(* What a command validated is what the chain asks for: while nobody else  *)
(* has changed the ledger since it began, its transaction is accepted,     *)
(* unless for what no command reads.                                       *)
ValidatedIsAccepted ==
    \A c \in Commands :
        calm[c] /\ status[c] = "running" /\ tx[c] = "pending" =>
            Outcome(c) # {} \/ Unforeseen(job[c], ledger)

\* How a command's end looks to its user.
ReportOf(c) ==
    CASE status[c] \in {"idle", "running"} -> "none"
      [] status[c] \in Refusals -> "refused"
      [] status[c] = "lost" -> "unknown"
      [] status[c] = "ok" -> "ok"

Promise == INSTANCE WalletPromise WITH
    done <- [c \in Commands |-> tx[c] = "processed"],
    report <- [c \in Commands |-> ReportOf(c)]

(* The commands keep the promise of WalletPromise: every command takes     *)
(* effect at most once, as a whole and as requested, reports success only  *)
(* afterwards and a refusal only if it has changed nothing, whatever is    *)
(* stale, rejected, repeated or lost on the way.                           *)
ImplementsPromise == Promise!Spec

-----------------------------------------------------------------------------
(* Why the promise is kept: the parts of an inductive invariant.           *)

\* A request that has passed the checks of its own arguments.
Sound(j) ==
    /\ ~LocalRefusal(j)
    /\ j.cmd # "create_mint" => j.amount > 0
    /\ j.cmd \in {"transfer_user", "transfer_account"} => Destination(j) # j.source

PartlySigned(c) ==
    /\ Len(signed[c]) < Len(Required(job[c]))
    /\ \A i \in 1..Len(signed[c]) : signed[c][i] = Signature(Required(job[c])[i], c)

RunningInv(c) ==
    /\ ~LocalRefusal(job[c])
    /\ pc[c] # "start"
    /\ pc[c] \in {"mint", "source", "destination"} => signed[c] = <<>>
    /\ pc[c] = "mint" => job[c].cmd \notin {"create_mint", "transfer_arch"}
    /\ pc[c] = "source" =>
           /\ job[c].cmd \in {"transfer_user", "transfer_account", "transfer_arch"}
           /\ job[c].amount > 0
    /\ pc[c] = "destination" => job[c].cmd = "transfer_account" /\ job[c].amount > 0
    /\ pc[c] = "sign" => Sound(job[c]) /\ PartlySigned(c)
    /\ pc[c] \in {"send", "wait"} => Sound(job[c]) /\ WellSigned(c)
    /\ pc[c] # "wait" => tx[c] = "none"

CommandInv(c) ==
    /\ status[c] = "idle" => tx[c] = "none" /\ signed[c] = <<>>
    /\ status[c] = "running" => RunningInv(c)
    /\ tx[c] # "none" => Sound(job[c]) /\ WellSigned(c)
    /\ status[c] \in {"refused", "unsigned"} => tx[c] = "none"
    /\ status[c] = "tx_failed" => tx[c] = "failed"
    /\ status[c] = "ok" => tx[c] = "processed"

WalletInv == \A c \in Commands : CommandInv(c)
=============================================================================
