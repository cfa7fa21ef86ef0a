---------------------------- MODULE WalletProofs ----------------------------
(***************************************************************************)
(* Proofs about Wallet: types, signatures, fixed supplies, that the        *)
(* commands implement WalletPromise, and that what they validated is       *)
(* accepted.                                                               *)
(***************************************************************************)
EXTENDS Wallet, TLAPS

-----------------------------------------------------------------------------
(* Transactions instruction by instruction.                                *)

LEMMA StageAt ==
    ASSUME NEW tx0, NEW k \in Nat, NEW S, NEW M \in Stage(tx0, k, S), k <= Len(tx0)
    PROVE  \E P \in S : M \in Handle(tx0[k], P)
BY DEF Stage

LEMMA StagePast ==
    ASSUME NEW tx0, NEW k \in Nat, NEW S, ~(k <= Len(tx0))
    PROVE  Stage(tx0, k, S) = S
BY DEF Stage

\* A transaction of n instructions goes through n handlers.
LEMMA ExecutedOne ==
    ASSUME NEW tx0, NEW L, NEW M \in Executed(tx0, L), Len(tx0) = 1
    PROVE  M \in Handle(tx0[1], L)
<1>1. \A S : /\ Stage(tx0, 5, S) = S /\ Stage(tx0, 4, S) = S
             /\ Stage(tx0, 3, S) = S /\ Stage(tx0, 2, S) = S
  BY DEF Stage
<1>2. M \in Stage(tx0, 1, {L})
  BY <1>1 DEF Executed
<1>3. QED
  BY <1>2, StageAt

LEMMA ExecutedTwo ==
    ASSUME NEW tx0, NEW L, NEW M \in Executed(tx0, L), Len(tx0) = 2
    PROVE  \E P \in Handle(tx0[1], L) : M \in Handle(tx0[2], P)
<1>1. \A S : Stage(tx0, 5, S) = S /\ Stage(tx0, 4, S) = S /\ Stage(tx0, 3, S) = S
  BY DEF Stage
<1>2. M \in Stage(tx0, 2, Stage(tx0, 1, {L}))
  BY <1>1 DEF Executed
<1>3. PICK P \in Stage(tx0, 1, {L}) : M \in Handle(tx0[2], P)
  BY <1>2, StageAt
<1>4. QED
  BY <1>3, StageAt

\* Four or five.
LEMMA ExecutedFour ==
    ASSUME NEW tx0, NEW L, NEW M \in Executed(tx0, L), Len(tx0) \in {4, 5}
    PROVE  \E A \in Handle(tx0[1], L) : \E B \in Handle(tx0[2], A) :
           \E C \in Handle(tx0[3], B) : \E D \in Handle(tx0[4], C) :
               IF Len(tx0) = 5 THEN M \in Handle(tx0[5], D) ELSE M = D
<1> DEFINE S1 == Stage(tx0, 1, {L})
           S2 == Stage(tx0, 2, S1)
           S3 == Stage(tx0, 3, S2)
           S4 == Stage(tx0, 4, S3)
<1>1. M \in Stage(tx0, 5, S4)
  BY DEF Executed
<1> HIDE DEF S4
<1>2. PICK D \in S4 : IF Len(tx0) = 5 THEN M \in Handle(tx0[5], D) ELSE M = D
  <2>1. CASE Len(tx0) = 5
    BY <1>1, <2>1, StageAt
  <2>2. CASE Len(tx0) = 4
    <3>1. Stage(tx0, 5, S4) = S4
      BY <2>2 DEF Stage
    <3>2. QED
      BY <1>1, <2>2, <3>1
  <2>3. QED
    BY <2>1, <2>2
<1> HIDE DEF S3
<1>3. PICK C \in S3 : D \in Handle(tx0[4], C)
  BY <1>2, StageAt DEF S4
<1> HIDE DEF S2
<1>4. PICK B \in S2 : C \in Handle(tx0[3], B)
  BY <1>3, StageAt DEF S3
<1> HIDE DEF S1
<1>5. PICK A \in S1 : B \in Handle(tx0[2], A)
  BY <1>4, StageAt DEF S2
<1>6. A \in Handle(tx0[1], L)
  BY <1>5, StageAt DEF S1
<1>7. QED
  BY <1>2, <1>3, <1>4, <1>5, <1>6

-----------------------------------------------------------------------------
(* The handlers' results.                                                  *)

TypedAccounts == [Addresses -> TokenAccounts]

LEMMA OpenedType ==
    ASSUME NEW acct \in TypedAccounts, NEW k \in Keys
    PROVE  /\ Opened(acct, k) \in TypedAccounts
           /\ \A a \in Addresses : a # Ata[k] => Opened(acct, k)[a] = acct[a]
  BY AtaAssumption DEF Opened, EmptyAccount, TypedAccounts, TokenAccounts

LEMMA PlusType ==
    ASSUME NEW acct \in TypedAccounts, NEW a \in Addresses, NEW n \in Nat
    PROVE  Plus(acct, a, n) \in TypedAccounts
<1>1. acct[a] \in TokenAccounts
  BY DEF TypedAccounts
<1> DEFINE b == [acct[a] EXCEPT !.amount = acct[a].amount + n]
<1>2. b \in TokenAccounts
  BY <1>1 DEF TokenAccounts
<1>3. Plus(acct, a, n) = [acct EXCEPT ![a] = b]
  BY DEF Plus
<1> HIDE DEF b
<1>4. QED
  BY <1>2, <1>3 DEF TypedAccounts

LEMMA MinusType ==
    ASSUME NEW acct \in TypedAccounts, NEW a \in Addresses, NEW n \in Nat,
           acct[a].amount >= n
    PROVE  Minus(acct, a, n) \in TypedAccounts
<1>1. acct[a] \in TokenAccounts
  BY DEF TypedAccounts
<1> DEFINE b == [acct[a] EXCEPT !.amount = acct[a].amount - n]
<1>2. b \in TokenAccounts
  BY <1>1 DEF TokenAccounts
<1>3. Minus(acct, a, n) = [acct EXCEPT ![a] = b]
  BY DEF Minus
<1> HIDE DEF b
<1>4. QED
  BY <1>2, <1>3 DEF TypedAccounts

\* Opening an account and minting to it or moving tokens to it: the account
\* was missing or in use by its owner.
LEMMA AtaHandled ==
    ASSUME NEW L, NEW k, NEW P \in Handle(CreateAta(k), L)
    PROVE  /\ L.mint.state = "initialized"
           /\ P = [L EXCEPT !.acct = Opened(L.acct, k)]
           /\ \/ L.acct[Ata[k]].state = "missing"
              \/ /\ L.acct[Ata[k]].state \in {"initialized", "frozen"}
                 /\ L.acct[Ata[k]].owner = k
  BY DEF Handle, CreateAta, Instruction, HandleCreateAta, When

LEMMA LamportsHandled ==
    ASSUME NEW L, NEW k, NEW l, NEW n, NEW P \in Handle(TransferLamports(k, l, n), L)
    PROVE  /\ L.lamports[k] >= n + Fee
           /\ P = [L EXCEPT !.lamports = Paid(L.lamports, k, l, n)]
  BY DEF Handle, TransferLamports, Instruction, HandleSystemTransfer, When

LEMMA CreateHandled ==
    ASSUME NEW L, NEW payer, NEW P \in Handle(CreateAccount(payer), L)
    PROVE  /\ L.mint.state = "missing"
           /\ P = [L EXCEPT !.mint.state = "allocated"]
  BY DEF Handle, CreateAccount, Instruction, HandleCreateAccount, When

LEMMA InitializeHandled ==
    ASSUME NEW L, NEW by, NEW P \in Handle(InitializeMint(by), L)
    PROVE  P = [L EXCEPT !.mint = [state |-> "initialized", auth |-> by, supply |-> 0]]
  BY DEF Handle, InitializeMint, Instruction, HandleInitializeMint, When

LEMMA RevokeHandled ==
    ASSUME NEW L, NEW by, NEW P \in Handle(RevokeMinting(by), L)
    PROVE  P = [L EXCEPT !.mint.auth = "none"]
  BY DEF Handle, RevokeMinting, Instruction, HandleRevoke, When

\* The promise speaks of the same ledger.
LEMMA SameLedger ==
    /\ Promise!Ledgers = Ledgers
    /\ \A acct, a, n : Promise!Plus(acct, a, n) = Plus(acct, a, n)
    /\ \A mint, n : Promise!RoomFor(mint, n) = RoomFor(mint, n)
    /\ \A mint, n : Promise!Issued(mint, n) = Issued(mint, n)
    /\ \A acct, a, n : Promise!Minus(acct, a, n) = Minus(acct, a, n)
    /\ \A acct, k : Promise!Opened(acct, k) = Opened(acct, k)
    /\ \A acct, a, k : Promise!Usable(acct, a, k) = Usable(acct, a, k)
    /\ \A lamports, k, l, n : Promise!Paid(lamports, k, l, n) = Paid(lamports, k, l, n)
    /\ \A j : Promise!Destination(j) = Destination(j)
<1>1. Promise!Ledgers = Ledgers
  BY DEF Promise!Ledgers, Ledgers, Promise!Mints, Mints, Promise!TokenAccounts, TokenAccounts
<1>2. \A acct, a, n : Promise!Plus(acct, a, n) = Plus(acct, a, n)
  BY DEF Promise!Plus, Plus
<1>3. \A acct, a, n : Promise!Minus(acct, a, n) = Minus(acct, a, n)
  BY DEF Promise!Minus, Minus
<1>4. \A acct, k : Promise!Opened(acct, k) = Opened(acct, k)
  BY DEF Promise!Opened, Opened, Promise!EmptyAccount, EmptyAccount
<1>5. \A acct, a, k : Promise!Usable(acct, a, k) = Usable(acct, a, k)
  BY DEF Promise!Usable, Usable
<1>6. \A lamports, k, l, n : Promise!Paid(lamports, k, l, n) = Paid(lamports, k, l, n)
  BY DEF Promise!Paid, Paid
<1>7. \A j : Promise!Destination(j) = Destination(j)
  BY DEF Promise!Destination, Destination
<1>8. \A mint, n : /\ Promise!Issued(mint, n) = Issued(mint, n)
                   /\ Promise!RoomFor(mint, n) = RoomFor(mint, n)
  BY DEF Promise!Issued, Issued, Promise!RoomFor, RoomFor
<1>9. QED
  BY <1>1, <1>2, <1>3, <1>4, <1>5, <1>6, <1>7, <1>8

-----------------------------------------------------------------------------
(* What a sound command's transaction does.                                *)

\* M is L after opening an account for k, unless it has one, and minting to it.
MintedTo(L, k, by, n, M) ==
    /\ L.mint.state = "initialized" /\ L.mint.auth = by
    /\ RoomFor(L.mint, n)
    /\ Usable(L.acct, Ata[k], k)
    /\ M = [mint |-> Issued(L.mint, n), acct |-> Plus(Opened(L.acct, k), Ata[k], n),
            lamports |-> L.lamports]
    /\ M \in Ledgers

LEMMA MintToUserLands ==
    ASSUME NEW L \in Ledgers, NEW k \in Keys, NEW by, NEW n \in Nat,
           NEW P \in Handle(CreateAta(k), L), NEW M \in Handle(MintTo(Ata[k], by, n), P)
    PROVE  MintedTo(L, k, by, n, M)
<1>1. /\ L.mint.state = "initialized"
      /\ P = [L EXCEPT !.acct = Opened(L.acct, k)]
      /\ \/ L.acct[Ata[k]].state = "missing"
         \/ /\ L.acct[Ata[k]].state \in {"initialized", "frozen"}
            /\ L.acct[Ata[k]].owner = k
  BY AtaHandled
<1>2. /\ P.mint.auth = by /\ P.acct[Ata[k]].state = "initialized"
      /\ RoomFor(P.mint, n)
      /\ M = [P EXCEPT !.mint = Issued(P.mint, n),
                       !.acct = Plus(P.acct, Ata[k], n)]
  BY DEF Handle, MintTo, Instruction, HandleMintTo, When
<1>3. P = [mint |-> L.mint, acct |-> Opened(L.acct, k), lamports |-> L.lamports]
  BY <1>1 DEF Ledgers
<1>4. Ata[k] \in Addresses /\ L.acct \in TypedAccounts /\ L.mint \in Mints
  BY AtaAssumption DEF Ledgers, TypedAccounts
<1>5. Usable(L.acct, Ata[k], k)
  BY <1>1, <1>2, <1>3, <1>4 DEF Usable, Opened
<1>6. M = [mint |-> Issued(L.mint, n),
           acct |-> Plus(Opened(L.acct, k), Ata[k], n),
           lamports |-> L.lamports]
  BY <1>2, <1>3
<1>7. Opened(L.acct, k) \in TypedAccounts
  BY <1>4, OpenedType
<1>8. Plus(Opened(L.acct, k), Ata[k], n) \in TypedAccounts
  BY <1>4, <1>7, PlusType
<1>9. Issued(L.mint, n) \in Mints
  BY <1>4 DEF Mints, Issued
<1>10. M \in Ledgers
  BY <1>6, <1>8, <1>9 DEF Ledgers, TypedAccounts
<1>11. QED
  BY <1>1, <1>2, <1>3, <1>5, <1>6, <1>10 DEF MintedTo

\* The parts of a ledger.
LEMMA LedgerParts ==
    ASSUME NEW L \in Ledgers
    PROVE  /\ L = [mint |-> L.mint, acct |-> L.acct, lamports |-> L.lamports]
           /\ L.mint \in Mints /\ L.acct \in TypedAccounts /\ L.lamports \in [Keys -> Nat]
  BY DEF Ledgers, TypedAccounts

LEMMA RequestType ==
    ASSUME NEW j \in Requests
    PROVE  /\ j.cmd \in CommandNames /\ j.signer \in Keys /\ j.amount \in Nat
           /\ j.fixed \in BOOLEAN
           /\ j.cmd \in {"transfer_user", "transfer_account"} => j.source \in Addresses
           /\ j.cmd # "transfer_account" => j.to \in Keys /\ Ata[j.to] \in Addresses
           /\ j.cmd = "transfer_account" => j.to \in Addresses
           /\ j.cmd = "create_mint" => j.to = j.signer /\ (j.fixed => j.amount > 0)
           /\ j.signer # "none"
  BY RequestsAssumption, AtaAssumption, AmountsAssumption, KeysAssumption

\* The mint account is created and initialized.
LEMMA NewMintLands ==
    ASSUME NEW L \in Ledgers, NEW k \in Keys,
           NEW A \in Handle(CreateAccount(k), L), NEW B \in Handle(InitializeMint(k), A)
    PROVE  /\ L.mint.state = "missing"
           /\ B = [mint |-> [state |-> "initialized", auth |-> k, supply |-> 0],
                   acct |-> L.acct, lamports |-> L.lamports]
           /\ B \in Ledgers
<1>1. L.mint.state = "missing" /\ A = [L EXCEPT !.mint.state = "allocated"]
  BY CreateHandled
<1>2. B = [A EXCEPT !.mint = [state |-> "initialized", auth |-> k, supply |-> 0]]
  BY InitializeHandled
<1>3. A.acct = L.acct /\ A.lamports = L.lamports
      /\ A = [mint |-> A.mint, acct |-> L.acct, lamports |-> L.lamports]
  BY <1>1, LedgerParts
<1>4. B = [mint |-> [state |-> "initialized", auth |-> k, supply |-> 0],
           acct |-> L.acct, lamports |-> L.lamports]
  BY <1>2, <1>3
<1>5. B \in Ledgers
  BY <1>4, LedgerParts DEF Ledgers, Mints, TypedAccounts
<1>6. QED
  BY <1>1, <1>4, <1>5

LEMMA CreateMintLands ==
    ASSUME NEW L \in Ledgers, NEW j \in Requests, j.cmd = "create_mint", Sound(j),
           NEW M \in Executed(Instructions(j), L)
    PROVE  Promise!Permitted(j, L) /\ M = Promise!Intended(j, L) /\ M \in Ledgers
<1> DEFINE tx0 == Instructions(j)
           born == [state |-> "initialized", auth |-> j.signer, supply |-> 0]
<1>1. /\ j.signer \in Keys /\ j.to = j.signer /\ j.amount \in Nat /\ j.fixed \in BOOLEAN
      /\ j.fixed => j.amount > 0
      /\ j.signer # MintKey
  BY RequestType DEF Sound, LocalRefusal
<1>2. CASE j.amount = 0
  <2>1. /\ Len(tx0) = 2
        /\ tx0[1] = CreateAccount(j.signer) /\ tx0[2] = InitializeMint(j.signer)
    BY <1>1, <1>2 DEF Instructions, CreateMintInstructions
  <2>2. PICK A \in Handle(CreateAccount(j.signer), L) : M \in Handle(InitializeMint(j.signer), A)
    BY <2>1, ExecutedTwo
  <2>3. /\ L.mint.state = "missing" /\ M \in Ledgers
        /\ M = [mint |-> born, acct |-> L.acct, lamports |-> L.lamports]
    BY <1>1, <2>2, NewMintLands
  <2>4. Promise!Permitted(j, L)
    BY <1>1, <1>2, <2>3 DEF Promise!Permitted
  <2>5. Promise!Intended(j, L) = [mint |-> born, acct |-> L.acct, lamports |-> L.lamports]
    <3>1. Promise!Intended(j, L)
              = [L EXCEPT !.mint = [state |-> "initialized",
                                    auth |-> IF j.fixed THEN "none" ELSE j.signer,
                                    supply |-> j.amount],
                          !.acct = IF j.amount > 0
                                   THEN Promise!Credited(L.acct, j.signer, j.amount)
                                   ELSE L.acct]
      BY DEF Promise!Intended
    <3>2. ~j.fixed /\ ~(j.amount > 0)
      BY <1>1, <1>2
    <3>3. Promise!Intended(j, L) = [L EXCEPT !.mint = born, !.acct = L.acct]
      BY <1>2, <3>1, <3>2
    <3>4. QED
      BY <3>3, LedgerParts
  <2>6. QED
    BY <2>3, <2>4, <2>5
<1>3. CASE j.amount > 0
  <2>1. /\ Len(tx0) = IF j.fixed THEN 5 ELSE 4
        /\ tx0[1] = CreateAccount(j.signer) /\ tx0[2] = InitializeMint(j.signer)
        /\ tx0[3] = CreateAta(j.signer)
        /\ tx0[4] = MintTo(Ata[j.signer], j.signer, j.amount)
        /\ j.fixed => tx0[5] = RevokeMinting(j.signer)
    BY <1>1, <1>3 DEF Instructions, CreateMintInstructions, MintToUser
  <2> HIDE DEF tx0
  <2>2. /\ M \in Executed(tx0, L) /\ Len(tx0) \in {4, 5}
        /\ \E A \in Handle(tx0[1], L) : \E B \in Handle(tx0[2], A) :
           \E C \in Handle(tx0[3], B) : \E D \in Handle(tx0[4], C) :
               IF Len(tx0) = 5 THEN M \in Handle(tx0[5], D) ELSE M = D
    <3>1. M \in Executed(tx0, L) /\ Len(tx0) \in {4, 5}
      BY <1>1, <2>1 DEF tx0
    <3>2. QED
      BY <3>1, ExecutedFour
  <2>3. PICK A \in Handle(tx0[1], L) : \E B \in Handle(tx0[2], A) :
           \E C \in Handle(tx0[3], B) : \E D \in Handle(tx0[4], C) :
               IF Len(tx0) = 5 THEN M \in Handle(tx0[5], D) ELSE M = D
    BY <2>2
  <2>4. PICK B \in Handle(tx0[2], A) :
           \E C \in Handle(tx0[3], B) : \E D \in Handle(tx0[4], C) :
               IF Len(tx0) = 5 THEN M \in Handle(tx0[5], D) ELSE M = D
    BY <2>3
  <2>5. PICK C \in Handle(tx0[3], B) : \E D \in Handle(tx0[4], C) :
               IF Len(tx0) = 5 THEN M \in Handle(tx0[5], D) ELSE M = D
    BY <2>4
  <2>6. PICK D \in Handle(tx0[4], C) :
               IF Len(tx0) = 5 THEN M \in Handle(tx0[5], D) ELSE M = D
    BY <2>5
  <2>7. /\ L.mint.state = "missing" /\ B \in Ledgers
        /\ B = [mint |-> born, acct |-> L.acct, lamports |-> L.lamports]
    BY <1>1, <2>1, NewMintLands
  <2>8. /\ Usable(B.acct, Ata[j.signer], j.signer)
        /\ D = [mint |-> Issued(B.mint, j.amount),
                acct |-> Plus(Opened(B.acct, j.signer), Ata[j.signer], j.amount),
                lamports |-> B.lamports]
        /\ D \in Ledgers
    <3>1. C \in Handle(CreateAta(j.signer), B)
          /\ D \in Handle(MintTo(Ata[j.signer], j.signer, j.amount), C)
      BY <2>1
    <3>2. MintedTo(B, j.signer, j.signer, j.amount, D)
      BY <1>1, <2>7, <3>1, MintToUserLands
    <3>3. QED
      BY <3>2 DEF MintedTo
  <2> DEFINE sealed(auth) == [state |-> "initialized", auth |-> auth, supply |-> j.amount]
             credit == Plus(Opened(L.acct, j.signer), Ata[j.signer], j.amount)
  <2>9. D = [mint |-> sealed(j.signer), acct |-> credit, lamports |-> L.lamports]
    <3>1. Issued(born, j.amount) = sealed(j.signer)
      BY <1>1 DEF Issued
    <3>2. QED
      BY <2>7, <2>8, <3>1
  <2>10. M = [mint |-> sealed(IF j.fixed THEN "none" ELSE j.signer), acct |-> credit,
             lamports |-> L.lamports]
    <3>1. CASE j.fixed
      <4>1. M = [D EXCEPT !.mint.auth = "none"]
        BY <2>1, <2>6, <3>1, RevokeHandled
      <4>2. QED
        BY <2>9, <3>1, <4>1
    <3>2. CASE ~j.fixed
      BY <1>1, <2>1, <2>6, <2>9, <3>2
    <3>3. QED
      BY <3>1, <3>2
  <2>11. M \in Ledgers
    <3>1. credit \in TypedAccounts
      BY <2>8, <2>9, LedgerParts
    <3>2. QED
      BY <1>1, <2>10, <3>1, LedgerParts DEF Ledgers, Mints, TypedAccounts
  <2>12. Promise!Permitted(j, L)
    BY <1>1, <1>3, <2>7, <2>8, SameLedger DEF Promise!Permitted, Promise!MayHold
  <2>13. Promise!Intended(j, L)
            = [mint |-> sealed(IF j.fixed THEN "none" ELSE j.signer), acct |-> credit,
               lamports |-> L.lamports]
    <3>1. Promise!Credited(L.acct, j.signer, j.amount) = credit
      BY SameLedger DEF Promise!Credited
    <3>2. Promise!Intended(j, L)
              = [L EXCEPT !.mint = [state |-> "initialized",
                                    auth |-> IF j.fixed THEN "none" ELSE j.signer,
                                    supply |-> j.amount],
                          !.acct = IF j.amount > 0
                                   THEN Promise!Credited(L.acct, j.signer, j.amount)
                                   ELSE L.acct]
      BY DEF Promise!Intended
    <3>3. QED
      BY <1>1, <1>3, <3>1, <3>2, LedgerParts
  <2>14. QED
    BY <2>10, <2>11, <2>12, <2>13
<1>4. QED
  BY <1>1, <1>2, <1>3

LEMMA MintTokensLands ==
    ASSUME NEW L \in Ledgers, NEW j \in Requests, j.cmd = "mint_tokens", Sound(j),
           NEW M \in Executed(Instructions(j), L)
    PROVE  Promise!Permitted(j, L) /\ M = Promise!Intended(j, L) /\ M \in Ledgers
<1> DEFINE tx0 == Instructions(j)
<1>1. j.signer \in Keys /\ j.to \in Keys /\ j.amount \in Nat /\ j.amount > 0
  BY RequestType DEF Sound
<1>2. /\ Len(tx0) = 2
      /\ tx0[1] = CreateAta(j.to) /\ tx0[2] = MintTo(Ata[j.to], j.signer, j.amount)
  BY DEF Instructions, MintToUser
<1>3. PICK P \in Handle(CreateAta(j.to), L) :
         M \in Handle(MintTo(Ata[j.to], j.signer, j.amount), P)
  BY <1>2, ExecutedTwo
<1>4. MintedTo(L, j.to, j.signer, j.amount, M)
  BY <1>1, <1>3, MintToUserLands
<1>5. Promise!Permitted(j, L)
  BY <1>1, <1>4, SameLedger DEF Promise!Permitted, Promise!MayHold, MintedTo
<1>6. Promise!Intended(j, L)
          = [L EXCEPT !.mint = Promise!Issued(L.mint, j.amount),
                      !.acct = Promise!Credited(L.acct, j.to, j.amount)]
  BY DEF Promise!Intended
<1>7. Promise!Credited(L.acct, j.to, j.amount) = Plus(Opened(L.acct, j.to), Ata[j.to], j.amount)
  BY SameLedger DEF Promise!Credited
<1>8. M = Promise!Intended(j, L)
  BY <1>4, <1>6, <1>7, SameLedger, LedgerParts DEF MintedTo
<1>9. QED
  BY <1>4, <1>5, <1>8 DEF MintedTo

\* M is L after moving n tokens of by from a to b.
MovedTo(L, a, b, by, n, M) ==
    /\ L.acct[a].state = "initialized" /\ L.acct[b].state = "initialized"
    /\ L.acct[a].owner = by /\ L.acct[a].amount >= n
    /\ M = [mint |-> L.mint, acct |-> Plus(Minus(L.acct, a, n), b, n),
            lamports |-> L.lamports]
    /\ M \in Ledgers

LEMMA TransferLands ==
    ASSUME NEW L \in Ledgers, NEW a \in Addresses, NEW b \in Addresses, NEW by,
           NEW n \in Nat, NEW M \in Handle(TransferTokens(a, b, by, n), L)
    PROVE  MovedTo(L, a, b, by, n, M)
<1>1. /\ L.acct[a].state = "initialized" /\ L.acct[b].state = "initialized"
      /\ L.acct[a].owner = by /\ L.acct[a].amount >= n
      /\ M = [L EXCEPT !.acct = Plus(Minus(L.acct, a, n), b, n)]
  BY DEF Handle, TransferTokens, Instruction, HandleTransfer, When
<1>2. M = [mint |-> L.mint, acct |-> Plus(Minus(L.acct, a, n), b, n), lamports |-> L.lamports]
  BY <1>1, LedgerParts
<1>3. Minus(L.acct, a, n) \in TypedAccounts
  BY <1>1, LedgerParts, MinusType
<1>4. Plus(Minus(L.acct, a, n), b, n) \in TypedAccounts
  BY <1>3, PlusType
<1>5. M \in Ledgers
  BY <1>2, <1>4, LedgerParts DEF Ledgers, TypedAccounts
<1>6. QED
  BY <1>1, <1>2, <1>5 DEF MovedTo

LEMMA AccountTransferLands ==
    ASSUME NEW L \in Ledgers, NEW j \in Requests, j.cmd = "transfer_account", Sound(j),
           NEW M \in Executed(Instructions(j), L)
    PROVE  Promise!Permitted(j, L) /\ M = Promise!Intended(j, L) /\ M \in Ledgers
<1> DEFINE tx0 == Instructions(j)
<1>1. /\ j.signer \in Keys /\ j.to \in Addresses /\ j.source \in Addresses
      /\ j.amount \in Nat /\ j.amount > 0
      /\ Destination(j) = j.to /\ j.to # j.source
  BY RequestType DEF Sound, Destination
<1>2. Len(tx0) = 1 /\ tx0[1] = TransferTokens(j.source, j.to, j.signer, j.amount)
  BY <1>1 DEF Instructions, TransferInstructions
<1>3. M \in Handle(TransferTokens(j.source, j.to, j.signer, j.amount), L)
  BY <1>2, ExecutedOne
<1>4. MovedTo(L, j.source, j.to, j.signer, j.amount, M)
  BY <1>1, <1>3, TransferLands
<1>5. Promise!Permitted(j, L)
  BY <1>1, <1>4, SameLedger DEF Promise!Permitted, MovedTo
<1>6. Promise!Intended(j, L)
          = [L EXCEPT !.acct = Promise!Plus(Promise!Minus(L.acct, j.source, j.amount),
                                            j.to, j.amount)]
  BY DEF Promise!Intended
<1>7. M = Promise!Intended(j, L)
  BY <1>4, <1>6, SameLedger, LedgerParts DEF MovedTo
<1>8. QED
  BY <1>4, <1>5, <1>7 DEF MovedTo

\* Opening one account and debiting another commute.
LEMMA OpenedMinus ==
    ASSUME NEW acct \in TypedAccounts, NEW k \in Keys, NEW a \in Addresses, NEW n \in Nat,
           a # Ata[k]
    PROVE  Opened(Minus(acct, a, n), k) = Minus(Opened(acct, k), a, n)
<1> DEFINE less(f) == [f[a] EXCEPT !.amount = f[a].amount - n]
<1>1. \A f : Minus(f, a, n) = [f EXCEPT ![a] = less(f)]
  BY DEF Minus
<1>2. Ata[k] \in Addresses
  BY AtaAssumption
<1>3. CASE acct[Ata[k]].state = "missing"
  <2>1. Opened(acct, k) = [acct EXCEPT ![Ata[k]] = EmptyAccount(k)]
    BY <1>3 DEF Opened
  <2>2. Minus(acct, a, n)[Ata[k]] = acct[Ata[k]]
    BY <1>1, <1>2 DEF TypedAccounts
  <2>3. Opened(Minus(acct, a, n), k) = [Minus(acct, a, n) EXCEPT ![Ata[k]] = EmptyAccount(k)]
    BY <1>3, <2>2 DEF Opened
  <2>4. less(Opened(acct, k)) = less(acct)
    BY <1>2, <2>1 DEF TypedAccounts
  <2> DEFINE x == less(acct)
             e == EmptyAccount(k)
  <2>5. /\ Opened(Minus(acct, a, n), k) = [[acct EXCEPT ![a] = x] EXCEPT ![Ata[k]] = e]
        /\ Minus(Opened(acct, k), a, n) = [[acct EXCEPT ![Ata[k]] = e] EXCEPT ![a] = x]
    BY <1>1, <2>1, <2>3, <2>4
  <2> HIDE DEF x, e
  <2>6. [[acct EXCEPT ![a] = x] EXCEPT ![Ata[k]] = e]
            = [[acct EXCEPT ![Ata[k]] = e] EXCEPT ![a] = x]
    BY <1>2 DEF TypedAccounts
  <2>7. QED
    BY <2>5, <2>6
<1>4. CASE acct[Ata[k]].state # "missing"
  <2>1. Opened(acct, k) = acct
    BY <1>4 DEF Opened
  <2>2. Minus(acct, a, n)[Ata[k]] = acct[Ata[k]]
    BY <1>1, <1>2 DEF TypedAccounts
  <2>3. Opened(Minus(acct, a, n), k) = Minus(acct, a, n)
    BY <1>4, <2>2 DEF Opened
  <2>4. QED
    BY <2>1, <2>3
<1>5. QED
  BY <1>3, <1>4

LEMMA UserTransferLands ==
    ASSUME NEW L \in Ledgers, NEW j \in Requests, j.cmd = "transfer_user", Sound(j),
           NEW M \in Executed(Instructions(j), L)
    PROVE  Promise!Permitted(j, L) /\ M = Promise!Intended(j, L) /\ M \in Ledgers
<1> DEFINE tx0 == Instructions(j)
           a == Ata[j.to]
<1>1. /\ j.signer \in Keys /\ j.to \in Keys /\ a \in Addresses /\ j.source \in Addresses
      /\ j.amount \in Nat /\ j.amount > 0
      /\ Destination(j) = a /\ a # j.source
  BY RequestType DEF Sound, Destination
<1>2. /\ Len(tx0) = 2
      /\ tx0[1] = CreateAta(j.to)
      /\ tx0[2] = TransferTokens(j.source, a, j.signer, j.amount)
  BY <1>1 DEF Instructions, TransferInstructions
<1>3. PICK P \in Handle(CreateAta(j.to), L) :
         M \in Handle(TransferTokens(j.source, a, j.signer, j.amount), P)
  BY <1>2, ExecutedTwo
<1>4. /\ P = [L EXCEPT !.acct = Opened(L.acct, j.to)]
      /\ \/ L.acct[a].state = "missing"
         \/ /\ L.acct[a].state \in {"initialized", "frozen"}
            /\ L.acct[a].owner = j.to
  BY <1>3, AtaHandled
<1>5. /\ Opened(L.acct, j.to) \in TypedAccounts
      /\ Opened(L.acct, j.to)[j.source] = L.acct[j.source]
  BY <1>1, LedgerParts, OpenedType
<1>6. /\ P.mint = L.mint /\ P.acct = Opened(L.acct, j.to) /\ P.lamports = L.lamports
      /\ P = [mint |-> L.mint, acct |-> Opened(L.acct, j.to), lamports |-> L.lamports]
  BY <1>4, LedgerParts
<1>7. P \in Ledgers
  BY <1>5, <1>6, LedgerParts DEF Ledgers, TypedAccounts
<1>8. MovedTo(P, j.source, a, j.signer, j.amount, M)
  BY <1>1, <1>3, <1>7, TransferLands
<1>9. Usable(L.acct, a, j.to)
  BY <1>4, <1>6, <1>8 DEF Usable, MovedTo, Opened
<1>10. Promise!Permitted(j, L)
  BY <1>1, <1>5, <1>6, <1>8, <1>9, SameLedger
     DEF Promise!Permitted, Promise!MayHold, MovedTo
<1>11. Promise!Intended(j, L)
           = [L EXCEPT !.acct = Promise!Credited(Promise!Minus(L.acct, j.source, j.amount),
                                                 j.to, j.amount)]
  BY DEF Promise!Intended
<1>12. Promise!Credited(Promise!Minus(L.acct, j.source, j.amount), j.to, j.amount)
           = Plus(Minus(Opened(L.acct, j.to), j.source, j.amount), a, j.amount)
  <2>1. Opened(Minus(L.acct, j.source, j.amount), j.to)
            = Minus(Opened(L.acct, j.to), j.source, j.amount)
    BY <1>1, LedgerParts, OpenedMinus
  <2>2. QED
    BY <2>1, SameLedger DEF Promise!Credited
<1>13. M = Promise!Intended(j, L)
  BY <1>6, <1>8, <1>11, <1>12, LedgerParts DEF MovedTo
<1>14. QED
  BY <1>8, <1>10, <1>13 DEF MovedTo

LEMMA ArchTransferLands ==
    ASSUME NEW L \in Ledgers, NEW j \in Requests, j.cmd = "transfer_arch", Sound(j),
           NEW M \in Executed(Instructions(j), L)
    PROVE  Promise!Permitted(j, L) /\ M = Promise!Intended(j, L) /\ M \in Ledgers
<1> DEFINE tx0 == Instructions(j)
<1>1. /\ j.signer \in Keys /\ j.to \in Keys /\ j.to # j.signer
      /\ j.amount \in Nat /\ j.amount > 0
  BY RequestType DEF Sound, LocalRefusal
<1>2. Len(tx0) = 1 /\ tx0[1] = TransferLamports(j.signer, j.to, j.amount)
  BY DEF Instructions
<1>3. M \in Handle(TransferLamports(j.signer, j.to, j.amount), L)
  BY <1>2, ExecutedOne
<1>4. /\ L.lamports[j.signer] >= j.amount + Fee
      /\ M = [L EXCEPT !.lamports = Paid(L.lamports, j.signer, j.to, j.amount)]
  BY <1>3, LamportsHandled
<1>5. Promise!Permitted(j, L)
  BY <1>1, <1>4 DEF Promise!Permitted
<1>6. Promise!Intended(j, L)
          = [L EXCEPT !.lamports = Promise!Paid(L.lamports, j.signer, j.to, j.amount)]
  BY DEF Promise!Intended
<1>7. M = Promise!Intended(j, L)
  BY <1>4, <1>6, SameLedger
<1>8. Paid(L.lamports, j.signer, j.to, j.amount) \in [Keys -> Nat]
  BY <1>1, <1>4, LedgerParts, AmountsAssumption DEF Paid
<1>9. M \in Ledgers
  BY <1>4, <1>8, LedgerParts DEF Ledgers, TypedAccounts
<1>10. QED
  BY <1>5, <1>7, <1>9

(* A sound command's transaction, if the chain accepts it, is permitted by *)
(* the promise and does exactly what was intended.                         *)
LEMMA LandsAsIntended ==
    ASSUME NEW L \in Ledgers, NEW j \in Requests, Sound(j),
           NEW M \in Executed(Instructions(j), L)
    PROVE  Promise!Permitted(j, L) /\ M = Promise!Intended(j, L) /\ M \in Ledgers
<1>1. j.cmd \in CommandNames
  BY RequestType
<1>2. QED
  BY <1>1, CreateMintLands, MintTokensLands, UserTransferLands, AccountTransferLands,
     ArchTransferLands DEF CommandNames

-----------------------------------------------------------------------------
(* What others do.                                                         *)

LEMMA ThawedType ==
    ASSUME NEW acct \in TypedAccounts, NEW a \in Addresses
    PROVE  Thawed(acct, a) \in TypedAccounts
<1> DEFINE b == [acct[a] EXCEPT !.state = IF acct[a].state = "initialized"
                                          THEN "frozen" ELSE "initialized"]
<1>1. b \in TokenAccounts
  BY DEF TypedAccounts, TokenAccounts
<1>2. Thawed(acct, a) = [acct EXCEPT ![a] = b]
  BY DEF Thawed
<1> HIDE DEF b
<1>3. QED
  BY <1>1, <1>2 DEF TypedAccounts

LEMMA OthersCases ==
    ASSUME NEW L, NEW kinds \in SUBSET Disturbances, NEW M
    PROVE  M \in Others(L, kinds) <=>
               \/ "frozen" \in kinds /\ M \in Frozen(L)
               \/ "spent" \in kinds /\ M \in Spent(L)
               \/ "revoked" \in kinds /\ M \in Revoked(L)
               \/ "opened" \in kinds /\ M \in OpenedByOthers(L)
<1> DEFINE kind(d) == CASE d = "frozen"  -> Frozen(L)
                        [] d = "spent"   -> Spent(L)
                        [] d = "revoked" -> Revoked(L)
                        [] d = "opened"  -> OpenedByOthers(L)
<1>1. M \in Others(L, kinds) <=> \E d \in kinds : M \in kind(d)
  BY DEF Others
<1>2. /\ kind("frozen") = Frozen(L) /\ kind("spent") = Spent(L)
      /\ kind("revoked") = Revoked(L) /\ kind("opened") = OpenedByOthers(L)
  OBVIOUS
<1> HIDE DEF kind
<1>3. \A d \in kinds : d \in {"frozen", "spent", "revoked", "opened"}
  BY DEF Disturbances
<1>4. QED
  BY <1>1, <1>2, <1>3

\* They leave a ledger, and a mint without authority as it is.
LEMMA OthersLand ==
    ASSUME NEW L \in Ledgers, NEW M \in Others(L, Disturbances)
    PROVE  M \in Ledgers /\ (L.mint.auth = "none" => M.mint = L.mint)
<1>1. CASE M \in Frozen(L)
  <2>1. PICK a \in Addresses : M = [L EXCEPT !.acct = Thawed(L.acct, a)]
    BY <1>1 DEF Frozen
  <2>2. QED
    BY <2>1, ThawedType, LedgerParts DEF Ledgers, TypedAccounts
<1>2. CASE M \in Spent(L)
  <2>1. CASE \E a \in Addresses : L.acct[a].amount > 0 /\ M = [L EXCEPT !.acct = Minus(L.acct, a, 1)]
    <3>1. PICK a \in Addresses : L.acct[a].amount > 0 /\ M = [L EXCEPT !.acct = Minus(L.acct, a, 1)]
      BY <2>1
    <3>2. L.acct[a].amount >= 1
      BY <3>1, LedgerParts DEF TypedAccounts, TokenAccounts
    <3>3. Minus(L.acct, a, 1) \in TypedAccounts
      BY <3>2, MinusType, LedgerParts
    <3>4. QED
      BY <3>1, <3>3, LedgerParts DEF Ledgers, TypedAccounts
  <2>2. CASE \E k \in Keys : L.lamports[k] > 0
                 /\ M = [L EXCEPT !.lamports = [L.lamports EXCEPT ![k] = @ - 1]]
    <3>1. PICK k \in Keys : L.lamports[k] > 0
                 /\ M = [L EXCEPT !.lamports = [L.lamports EXCEPT ![k] = @ - 1]]
      BY <2>2
    <3> DEFINE less == [L.lamports EXCEPT ![k] = @ - 1]
    <3>2. less \in [Keys -> Nat]
      BY <3>1, LedgerParts
    <3> HIDE DEF less
    <3>3. M = [L EXCEPT !.lamports = less]
      BY <3>1 DEF less
    <3>4. QED
      BY <3>2, <3>3, LedgerParts DEF Ledgers, TypedAccounts
  <2>3. QED
    BY <1>2, <2>1, <2>2 DEF Spent
<1>3. CASE M \in Revoked(L)
  <2>1. L.mint.auth # "none" /\ M = [L EXCEPT !.mint.auth = "none"]
    BY <1>3 DEF Revoked, When
  <2>2. QED
    BY <2>1, LedgerParts DEF Ledgers, TypedAccounts, Mints
<1>4. CASE M \in OpenedByOthers(L)
  <2>1. PICK k \in Keys : M = [L EXCEPT !.acct = Opened(L.acct, k)]
    BY <1>4 DEF OpenedByOthers
  <2>2. QED
    BY <2>1, OpenedType, LedgerParts DEF Ledgers, TypedAccounts
<1>5. QED
  BY <1>1, <1>2, <1>3, <1>4, OthersCases

-----------------------------------------------------------------------------
(* Types.                                                                  *)

LEMMA RequiredType ==
    ASSUME NEW j \in Requests
    PROVE  /\ Required(j) \in Seq(Keys) /\ Len(Required(j)) \in {1, 2}
           /\ 0 < Len(Required(j))
  BY RequestType, KeysAssumption DEF Required

LEMMA SignatureType ==
    ASSUME NEW k \in Keys, NEW c \in Commands
    PROVE  Signature(k, c) \in Signatures
  BY DEF Signature, Signatures

LEMMA NextKeyType ==
    ASSUME TypeOK, NEW c \in Commands, PartlySigned(c)
    PROVE  NextKey(c) \in Keys
<1>1. Required(job[c]) \in Seq(Keys) /\ Len(signed[c]) \in Nat
  BY RequiredType DEF TypeOK
<1>2. Len(signed[c]) + 1 \in 1..Len(Required(job[c]))
  BY <1>1 DEF PartlySigned
<1>3. QED
  BY <1>1, <1>2 DEF NextKey

LEMMA TypeInit == Init => TypeOK
  BY WalletAssumption DEF Init, TypeOK, Steps, TxStates

LEMMA TypeStep ==
    ASSUME TypeOK, WalletInv, [Next]_vars
    PROVE  TypeOK'
<1> USE DEF Steps, TxStates, Refusals
<1>1. CASE OthersStep
  <2>1. ledger' \in Ledgers
    BY <1>1, OthersLand, OthersCases DEF OthersStep, TypeOK, Disturbances
  <2>2. turns' \in 0..MaxTurns
    BY <1>1, WalletAssumption DEF OthersStep, TypeOK
  <2>3. QED
    BY <1>1, <2>1, <2>2 DEF OthersStep, TypeOK
<1>2. ASSUME NEW c \in Commands, Begin(c)
      PROVE  TypeOK'
  BY <1>2 DEF TypeOK, Begin, FirstStep
<1>3. ASSUME NEW c \in Commands, ReadMint(c)
      PROVE  TypeOK'
  BY <1>3 DEF TypeOK, ReadMint, Return, Goto
<1>4. ASSUME NEW c \in Commands, ReadSource(c)
      PROVE  TypeOK'
  BY <1>4 DEF TypeOK, ReadSource, Return, Goto
<1>5. ASSUME NEW c \in Commands, ReadDestination(c)
      PROVE  TypeOK'
  BY <1>5 DEF TypeOK, ReadDestination, Return, Goto
<1>6. ASSUME NEW c \in Commands, SignLocally(c)
      PROVE  TypeOK'
  <2>1. PartlySigned(c)
    BY <1>6 DEF SignLocally, At, WalletInv, CommandInv, RunningInv
  <2>2. Signature(NextKey(c), c) \in Signatures
    BY <2>1, NextKeyType, SignatureType
  <2>3. QED
    BY <1>6, <2>2 DEF TypeOK, SignLocally, Signs, Goto
<1>7. ASSUME NEW c \in Commands, AskCosigner(c)
      PROVE  TypeOK'
  <2>1. PICK a \in Answers :
           IF VerifiedAnswer(a, NextKey(c), c) THEN Signs(c, a.signature)
           ELSE Return(c, "unsigned") /\ UNCHANGED signed
    BY <1>7 DEF AskCosigner
  <2>2. a.signature \in Signatures
    BY DEF Answers
  <2>3. UNCHANGED <<ledger, job, tx, calm, turns>>
    BY <1>7 DEF AskCosigner
  <2>4. CASE Signs(c, a.signature)
    <3>1. signed' \in [Commands -> Seq(Signatures)]
      BY <2>2, <2>4 DEF TypeOK, Signs
    <3>2. pc' \in [Commands -> Steps] /\ status' = status
      BY <2>4 DEF TypeOK, Signs, Goto
    <3>3. QED
      BY <2>3, <3>1, <3>2 DEF TypeOK
  <2>5. CASE Return(c, "unsigned") /\ UNCHANGED signed
    BY <2>3, <2>5 DEF TypeOK, Return
  <2>6. QED
    BY <2>1, <2>4, <2>5
<1>8. ASSUME NEW c \in Commands, Send(c)
      PROVE  TypeOK'
  BY <1>8 DEF TypeOK, Send, Goto
<1>9. ASSUME NEW c \in Commands, Land(c)
      PROVE  TypeOK'
  <2>1. Sound(job[c]) /\ job[c] \in Requests /\ ledger \in Ledgers
    BY <1>9 DEF Land, WalletInv, CommandInv, TypeOK
  <2>2. ledger' \in Executed(Instructions(job[c]), ledger)
    BY <1>9 DEF Land, Outcome
  <2>3. ledger' \in Ledgers
    BY <2>1, <2>2, LandsAsIntended
  <2>4. QED
    BY <1>9, <2>3 DEF TypeOK, Land, Disturbs
<1>10. ASSUME NEW c \in Commands, Reject(c)
       PROVE  TypeOK'
  BY <1>10 DEF TypeOK, Reject
<1>11. ASSUME NEW c \in Commands, Confirm(c)
       PROVE  TypeOK'
  BY <1>11 DEF TypeOK, Confirm, Verdict, Return
<1>12. ASSUME NEW c \in Commands, Stop(c)
       PROVE  TypeOK'
  BY <1>12 DEF TypeOK, Stop, Return
<1>13. CASE UNCHANGED vars
  BY <1>13 DEF TypeOK, vars
<1>14. QED
  BY <1>1, <1>2, <1>3, <1>4, <1>5, <1>6, <1>7, <1>8, <1>9, <1>10, <1>11, <1>12, <1>13
     DEF Next, Client

-----------------------------------------------------------------------------
(* The inductive invariant.                                                *)

\* What CommandInv says of a command depends on that command alone.
LEMMA SameCommand ==
    ASSUME NEW d \in Commands, CommandInv(d), job' = job,
           pc'[d] = pc[d], status'[d] = status[d], signed'[d] = signed[d], tx'[d] = tx[d]
    PROVE  CommandInv(d)'
  BY DEF CommandInv, RunningInv, WellSigned, PartlySigned

\* One more correct signature.
LEMMA SignsWell ==
    ASSUME TypeOK, NEW c \in Commands, PartlySigned(c), job' = job,
           Signs(c, Signature(NextKey(c), c))
    PROVE  IF Len(signed[c]) + 1 = Len(Required(job[c])) THEN WellSigned(c)'
           ELSE PartlySigned(c)'
<1> DEFINE keys == Required(job[c])
           old == signed[c]
           s == Signature(NextKey(c), c)
           new == Append(old, s)
<1>1. keys \in Seq(Keys) /\ Len(keys) \in {1, 2} /\ old \in Seq(Signatures)
  BY RequiredType DEF TypeOK
<1>2. s \in Signatures
  BY NextKeyType, SignatureType
<1>3. signed'[c] = new
  BY DEF Signs, TypeOK
<1>4. s = Signature(keys[Len(old) + 1], c)
  BY DEF NextKey
<1>5. /\ new \in Seq(Signatures) /\ Len(new) = Len(old) + 1
      /\ \A i \in 1..Len(old) : new[i] = old[i]
      /\ new[Len(old) + 1] = s
  <2> HIDE DEF s, old
  <2>1. QED
    BY <1>1, <1>2
<1>6. \A i \in 1..Len(old) : old[i] = Signature(keys[i], c)
  BY DEF PartlySigned
<1>7. \A i \in 1..Len(new) : new[i] = Signature(keys[i], c)
  <2>1. Len(old) \in Nat
    BY <1>1
  <2> HIDE DEF new, old, s, keys
  <2>2. \A i \in 1..Len(new) : i \in 1..Len(old) \/ i = Len(old) + 1
    BY <1>5, <2>1
  <2>3. QED
    BY <1>4, <1>5, <1>6, <2>2
<1>8. Len(old) < Len(keys)
  BY DEF PartlySigned
<1>9. CASE Len(old) + 1 = Len(keys)
  <2>1. new = [i \in 1..Len(keys) |-> Signature(keys[i], c)]
    <3>1. Len(new) = Len(keys) /\ new = [i \in 1..Len(new) |-> new[i]]
      <4> HIDE DEF new, old, keys
      <4>1. QED
        BY <1>5, <1>9
    <3> HIDE DEF new, old, keys
    <3>2. QED
      BY <1>7, <3>1
  <2>2. WellSigned(c)'
    BY <1>3, <2>1 DEF WellSigned
  <2>3. QED
    BY <1>9, <2>2
<1>10. CASE Len(old) + 1 # Len(keys)
  <2>1. Len(new) < Len(keys)
    <3> HIDE DEF new
    <3>1. QED
      BY <1>1, <1>5, <1>8, <1>10
  <2>2. PartlySigned(c)'
    <3> HIDE DEF new
    <3>1. QED
      BY <1>3, <1>7, <2>1 DEF PartlySigned
  <2>3. QED
    BY <1>10, <2>2
<1>11. QED
  BY <1>9, <1>10

\* It signs on, or is ready to send.
LEMMA SignsOn ==
    ASSUME TypeOK, NEW d \in Commands, At(d, "sign"), Sound(job[d]), PartlySigned(d),
           tx[d] = "none", tx' = tx, job' = job, Signs(d, Signature(NextKey(d), d))
    PROVE  CommandInv(d)'
<1>1. status'[d] = "running"
  BY DEF Signs, Goto, At
<1>2. pc'[d] = IF Len(signed[d]) + 1 = Len(Required(job[d])) THEN "send" ELSE "sign"
  BY DEF Signs, Goto, TypeOK
<1>3. RunningInv(d)'
  BY <1>2, SignsWell DEF RunningInv, Sound
<1>4. QED
  BY <1>1, <1>3 DEF CommandInv

LEMMA InvInit == Init => WalletInv
  BY DEF Init, WalletInv, CommandInv

\* A command that gives up before it sends has changed nothing.
LEMMA GivesUp ==
    ASSUME NEW d \in Commands, tx[d] = "none", tx' = tx,
           status'[d] \in {"refused", "unsigned"}
    PROVE  CommandInv(d)'
  BY DEF CommandInv

\* One that goes on keeps its invariant if what the next step needs holds.
LEMMA GoesOn ==
    ASSUME NEW d \in Commands, tx[d] = "none", tx' = tx,
           status'[d] = "running", RunningInv(d)'
    PROVE  CommandInv(d)'
  BY DEF CommandInv

\* A command is ready to sign as soon as its request is found sound.
LEMMA ReadyToSign ==
    ASSUME TypeOK, NEW d \in Commands, tx[d] = "none", tx' = tx, job' = job,
           signed' = signed, status'[d] = "running", pc'[d] = "sign",
           Sound(job[d]), signed[d] = <<>>
    PROVE  CommandInv(d)'
<1>1. 0 < Len(Required(job[d]))
  BY RequiredType DEF TypeOK
<1>2. signed'[d] = <<>> /\ Len(signed'[d]) = 0
  OBVIOUS
<1>3. PartlySigned(d)'
  <2>1. Len(signed'[d]) < Len(Required(job'[d]))
    <3>1. Required(job'[d]) = Required(job[d])
      OBVIOUS
    <3>2. QED
      BY <1>1, <1>2, <3>1
  <2>2. \A i \in 1..Len(signed'[d]) : FALSE
    BY <1>2
  <2>3. QED
    BY <2>1, <2>2 DEF PartlySigned
<1>4. RunningInv(d)'
  BY <1>3 DEF RunningInv, Sound
<1>5. QED
  BY <1>4, GoesOn

LEMMA InvStep ==
    ASSUME TypeOK, WalletInv, [Next]_vars
    PROVE  WalletInv'
<1> SUFFICES ASSUME NEW d \in Commands
             PROVE  CommandInv(d)'
  BY DEF WalletInv
<1>0. CommandInv(d)
  BY DEF WalletInv
<1>1. CASE OthersStep
  BY <1>0, <1>1, SameCommand DEF OthersStep
<1>2. ASSUME NEW c \in Commands, c # d, Client(c) \/ Land(c) \/ Reject(c) \/ Stop(c)
      PROVE  CommandInv(d)'
  <2>1. /\ job' = job /\ pc'[d] = pc[d] /\ status'[d] = status[d]
        /\ signed'[d] = signed[d] /\ tx'[d] = tx[d]
    BY <1>2 DEF TypeOK, Client, Begin, ReadMint, ReadSource, ReadDestination, SignLocally,
       AskCosigner, Send, Confirm, Land, Reject, Stop, Signs, Goto, Return
  <2>2. QED
    BY <1>0, <2>1, SameCommand
<1>3. CASE Begin(d)
  <2>1. /\ status[d] = "idle" /\ tx[d] = "none" /\ signed[d] = <<>>
        /\ tx' = tx /\ job' = job /\ signed' = signed
        /\ status'[d] = IF LocalRefusal(job[d]) THEN "refused" ELSE "running"
        /\ pc'[d] = FirstStep(job[d])
    BY <1>0, <1>3 DEF Begin, CommandInv, TypeOK
  <2>2. CASE LocalRefusal(job[d])
    BY <2>1, <2>2, GivesUp
  <2>3. CASE ~LocalRefusal(job[d]) /\ job[d].cmd = "create_mint"
    <3>1. pc'[d] = "sign"
      BY <2>1, <2>3 DEF FirstStep
    <3>2. QED
      BY <2>1, <2>3, <3>1, ReadyToSign DEF Sound
  <2>4. CASE ~LocalRefusal(job[d]) /\ job[d].cmd = "transfer_arch"
    <3>1. pc'[d] = "source"
      BY <2>1, <2>4 DEF FirstStep
    <3>2. job[d].amount > 0
      BY <2>4, RequestType DEF LocalRefusal, TypeOK
    <3>3. RunningInv(d)'
      BY <2>1, <2>4, <3>1, <3>2 DEF RunningInv
    <3>4. QED
      BY <2>1, <2>4, <3>3, GoesOn
  <2>5. CASE ~LocalRefusal(job[d]) /\ job[d].cmd \notin {"create_mint", "transfer_arch"}
    <3>1. pc'[d] = "mint"
      BY <2>1, <2>5 DEF FirstStep
    <3>2. RunningInv(d)'
      BY <2>1, <2>5, <3>1 DEF RunningInv
    <3>3. QED
      BY <2>1, <2>5, <3>2, GoesOn
  <2>6. QED
    BY <2>2, <2>3, <2>4, <2>5
<1>4. CASE ReadMint(d)
  <2>1. /\ At(d, "mint") /\ tx[d] = "none" /\ signed[d] = <<>> /\ ~LocalRefusal(job[d])
        /\ job[d].cmd \in {"mint_tokens", "transfer_user", "transfer_account"}
        /\ job[d].amount \in Nat
        /\ tx' = tx /\ job' = job /\ signed' = signed
    BY <1>0, <1>4, RequestType
       DEF ReadMint, At, CommandInv, RunningInv, CommandNames, TypeOK
  <2>2. CASE MintRefusal(job[d], ledger)
    BY <1>4, <2>1, <2>2, GivesUp DEF ReadMint, Return, TypeOK
  <2>3. CASE ~MintRefusal(job[d], ledger)
    <3>1. job[d].amount > 0
      BY <2>1, <2>3 DEF MintRefusal
    <3>2. /\ status'[d] = "running"
          /\ pc'[d] = IF job[d].cmd = "mint_tokens" THEN "sign" ELSE "source"
      BY <1>4, <2>1, <2>3 DEF ReadMint, Goto, At, TypeOK
    <3>3. CASE job[d].cmd = "mint_tokens"
      BY <2>1, <3>1, <3>2, <3>3, ReadyToSign DEF Sound
    <3>4. CASE job[d].cmd # "mint_tokens"
      <4>1. RunningInv(d)'
        BY <2>1, <3>1, <3>2, <3>4 DEF RunningInv
      <4>2. QED
        BY <2>1, <3>2, <4>1, GoesOn
    <3>5. QED
      BY <3>3, <3>4
  <2>4. QED
    BY <2>2, <2>3
<1>5. CASE ReadSource(d)
  <2>1. /\ At(d, "source") /\ tx[d] = "none" /\ signed[d] = <<>> /\ ~LocalRefusal(job[d])
        /\ job[d].cmd \in {"transfer_user", "transfer_account", "transfer_arch"}
        /\ job[d].amount > 0
        /\ tx' = tx /\ job' = job /\ signed' = signed
    BY <1>0, <1>5 DEF ReadSource, At, CommandInv, RunningInv
  <2>2. CASE SourceRefusal(job[d], ledger)
    BY <1>5, <2>1, <2>2, GivesUp DEF ReadSource, Return, TypeOK
  <2>3. CASE ~SourceRefusal(job[d], ledger)
    <3>1. /\ status'[d] = "running"
          /\ pc'[d] = IF job[d].cmd = "transfer_account" THEN "destination" ELSE "sign"
      BY <1>5, <2>1, <2>3 DEF ReadSource, Goto, At, TypeOK
    <3>2. CASE job[d].cmd = "transfer_account"
      <4>1. RunningInv(d)'
        BY <2>1, <3>1, <3>2 DEF RunningInv
      <4>2. QED
        BY <2>1, <3>1, <4>1, GoesOn
    <3>3. CASE job[d].cmd # "transfer_account"
      <4>1. Sound(job[d])
        BY <2>1, <2>3, <3>3 DEF Sound, SourceRefusal
      <4>2. QED
        BY <2>1, <3>1, <3>3, <4>1, ReadyToSign
    <3>4. QED
      BY <3>2, <3>3
  <2>4. QED
    BY <2>2, <2>3
<1>6. CASE ReadDestination(d)
  <2>1. /\ At(d, "destination") /\ tx[d] = "none" /\ signed[d] = <<>> /\ ~LocalRefusal(job[d])
        /\ job[d].cmd = "transfer_account" /\ job[d].amount > 0
        /\ tx' = tx /\ job' = job /\ signed' = signed
    BY <1>0, <1>6 DEF ReadDestination, At, CommandInv, RunningInv
  <2>2. CASE DestinationRefusal(job[d], ledger)
    BY <1>6, <2>1, <2>2, GivesUp DEF ReadDestination, Return, TypeOK
  <2>3. CASE ~DestinationRefusal(job[d], ledger)
    <3>1. status'[d] = "running" /\ pc'[d] = "sign"
      BY <1>6, <2>1, <2>3 DEF ReadDestination, Goto, At, TypeOK
    <3>2. Sound(job[d])
      BY <2>1, <2>3 DEF Sound, DestinationRefusal, Destination
    <3>3. QED
      BY <2>1, <3>1, <3>2, ReadyToSign
  <2>4. QED
    BY <2>2, <2>3
<1>7. CASE SignLocally(d)
  <2>1. /\ At(d, "sign") /\ Sound(job[d]) /\ PartlySigned(d) /\ tx[d] = "none"
        /\ tx' = tx /\ job' = job /\ Signs(d, Signature(NextKey(d), d))
    BY <1>0, <1>7 DEF SignLocally, At, CommandInv, RunningInv
  <2>2. QED
    BY <2>1, SignsOn
<1>8. CASE AskCosigner(d)
  <2>1. /\ At(d, "sign") /\ Sound(job[d]) /\ PartlySigned(d) /\ tx[d] = "none"
        /\ tx' = tx /\ job' = job
    BY <1>0, <1>8 DEF AskCosigner, At, CommandInv, RunningInv
  <2>2. PICK a \in Answers :
           IF VerifiedAnswer(a, NextKey(d), d) THEN Signs(d, a.signature)
           ELSE Return(d, "unsigned") /\ UNCHANGED signed
    BY <1>8 DEF AskCosigner
  <2>3. CASE VerifiedAnswer(a, NextKey(d), d)
    <3>1. Signs(d, Signature(NextKey(d), d))
      BY <2>2, <2>3 DEF VerifiedAnswer
    <3>2. QED
      BY <2>1, <3>1, SignsOn
  <2>4. CASE ~VerifiedAnswer(a, NextKey(d), d)
    BY <2>1, <2>2, <2>4, GivesUp DEF Return, TypeOK
  <2>5. QED
    BY <2>3, <2>4
<1>9. CASE Send(d)
  BY <1>0, <1>9 DEF TypeOK, Send, At, Goto, CommandInv, RunningInv, WellSigned
<1>10. CASE Land(d)
  BY <1>0, <1>10 DEF TypeOK, Land, CommandInv, RunningInv, WellSigned, PartlySigned
<1>11. CASE Reject(d)
  BY <1>0, <1>11 DEF TypeOK, Reject, CommandInv, RunningInv, WellSigned, PartlySigned
<1>12. CASE Confirm(d)
  BY <1>0, <1>12 DEF TypeOK, Confirm, At, Return, Verdict, CommandInv, RunningInv, WellSigned
<1>13. CASE Stop(d)
  BY <1>0, <1>13 DEF TypeOK, Stop, Return, CommandInv, RunningInv, WellSigned
<1>14. CASE UNCHANGED vars
  BY <1>0, <1>14, SameCommand DEF vars
<1>15. QED
  BY <1>1, <1>2, <1>3, <1>4, <1>5, <1>6, <1>7, <1>8, <1>9, <1>10, <1>11, <1>12, <1>13, <1>14
     DEF Next, Client
-----------------------------------------------------------------------------
(* What the invariant gives.                                               *)

\* The types and the invariant hold in every reachable state.
THEOREM Inductive == Spec => [](TypeOK /\ WalletInv)
<1>1. Init => TypeOK /\ WalletInv
  BY TypeInit, InvInit
<1>2. TypeOK /\ WalletInv /\ [Next]_vars => (TypeOK /\ WalletInv)'
  BY TypeStep, InvStep
<1>3. QED
  BY <1>1, <1>2, PTL DEF Spec

\* Every variable keeps its type: no command makes a balance negative.
THEOREM TypeCorrect == Spec => []TypeOK
  BY Inductive, PTL

\* Whatever a cosigner answers, only fully signed transactions are sent.
THEOREM SignedHolds == Spec => []SentIsSigned
<1>1. TypeOK /\ WalletInv => SentIsSigned
  BY DEF WalletInv, CommandInv, SentIsSigned
<1>2. QED
  BY <1>1, Inductive, PTL

-----------------------------------------------------------------------------
(* The refinement.                                                         *)

\* A command whose state does not change looks the same.
LEMMA SameReport ==
    ASSUME NEW c \in Commands, status'[c] = status[c]
    PROVE  ReportOf(c)' = ReportOf(c)
  BY DEF ReportOf

\* What the user sees of each end of a command.
LEMMA Reports ==
    ASSUME NEW c \in Commands
    PROVE  /\ status[c] \in {"idle", "running"} => ReportOf(c) = "none"
           /\ status[c] \in {"refused", "unsigned", "tx_failed"} => ReportOf(c) = "refused"
           /\ status[c] = "lost" => ReportOf(c) = "unknown"
           /\ status[c] = "ok" => ReportOf(c) = "ok"
  BY DEF ReportOf, Refusals

LEMMA RefinedInit == Init => Promise!Init
<1> SUFFICES ASSUME Init
             PROVE  Promise!Init
  OBVIOUS
<1>1. ledger \in Ledgers
  BY WalletAssumption DEF Init
<1>2. \A c \in Commands : tx[c] # "processed" /\ ReportOf(c) = "none"
  <2>1. \A c \in Commands : tx[c] = "none" /\ status[c] = "idle"
    BY DEF Init
  <2>2. QED
    BY <2>1, Reports
<1>3. /\ [c \in Commands |-> tx[c] = "processed"] = [c \in Commands |-> FALSE]
      /\ [c \in Commands |-> ReportOf(c)] = [c \in Commands |-> "none"]
  BY <1>2
<1>4. Promise!Ledgers = Ledgers
  BY DEF Promise!Ledgers, Ledgers, Promise!Mints, Mints, Promise!TokenAccounts, TokenAccounts
<1>5. QED
  BY <1>1, <1>3, <1>4 DEF Init, Promise!Init

\* A command that ends reports, and nothing else changes.
LEMMA EndsWithReport ==
    ASSUME TypeOK, NEW c \in Commands, status[c] \in {"idle", "running"},
           NEW how, status' = [status EXCEPT ![c] = how],
           ledger' = ledger, job' = job,
           \A d \in Commands : (tx'[d] = "processed") = (tx[d] = "processed"),
           \/ how \in {"refused", "unsigned", "tx_failed"} /\ tx[c] # "processed"
           \/ how = "ok" /\ tx[c] = "processed"
           \/ how = "lost"
    PROVE  Promise!Next
<1>1. ReportOf(c) = "none"
  BY Reports
<1>2. status'[c] = how
  BY DEF TypeOK
<1>3. \E told \in {"ok", "refused", "unknown"} :
         /\ ReportOf(c)' = told
         /\ told = "ok" => tx[c] = "processed"
         /\ told = "refused" => tx[c] # "processed"
  BY <1>2 DEF ReportOf, Refusals
<1>4. PICK told \in {"ok", "refused", "unknown"} :
         /\ ReportOf(c)' = told
         /\ told = "ok" => tx[c] = "processed"
         /\ told = "refused" => tx[c] # "processed"
  BY <1>3
<1>5. \A d \in Commands : d # c => ReportOf(d)' = ReportOf(d)
  BY SameReport DEF TypeOK
<1>6. [d \in Commands |-> ReportOf(d)]' =
         [[d \in Commands |-> ReportOf(d)] EXCEPT ![c] = told]
  BY <1>4, <1>5
<1>7. Promise!Report(c, told)
  BY <1>1, <1>4, <1>6 DEF Promise!Report
<1>8. QED
  BY <1>7 DEF Promise!Next

\* A step that changes neither the chain nor an outcome is not seen.
LEMMA NotSeen ==
    ASSUME ledger' = ledger, job' = job,
           \A d \in Commands : (tx'[d] = "processed") = (tx[d] = "processed"),
           \A d \in Commands : ReportOf(d)' = ReportOf(d)
    PROVE  UNCHANGED Promise!promise
  BY DEF Promise!promise
\* The chain of the promise is the chain of the commands.
LEMMA SameOthers ==
    ASSUME NEW L, NEW kinds
    PROVE  Promise!Others(L, kinds) = Others(L, kinds)
  BY DEF Promise!Others, Others, Promise!Frozen, Frozen, Promise!Thawed, Thawed,
     Promise!Spent, Spent, Promise!Minus, Minus, Promise!Revoked, Revoked,
     Promise!When, When, Promise!OpenedByOthers, OpenedByOthers, Promise!Opened, Opened,
     Promise!EmptyAccount, EmptyAccount

LEMMA OthersRefined ==
    ASSUME TypeOK, OthersStep
    PROVE  Promise!OthersAct
<1>1. ledger' \in Others(ledger, Disturbances)
  BY OthersCases DEF OthersStep, Disturbances
<1>2. ledger' \in Promise!Others(ledger, Promise!Disturbances)
  BY <1>1, SameOthers DEF Promise!Disturbances, Disturbances
<1>3. \A c \in Commands : ReportOf(c)' = ReportOf(c)
  BY SameReport DEF OthersStep
<1>4. /\ [c \in Commands |-> tx[c] = "processed"]' = [c \in Commands |-> tx[c] = "processed"]
      /\ [c \in Commands |-> ReportOf(c)]' = [c \in Commands |-> ReportOf(c)]
  BY <1>3 DEF OthersStep
<1>5. QED
  BY <1>2, <1>4 DEF Promise!OthersAct, OthersStep

\* A transaction that lands is the effect the command was asked for.
LEMMA LandRefined ==
    ASSUME TypeOK, WalletInv, NEW c \in Commands, Land(c)
    PROVE  Promise!TakeEffect(c)
<1>1. /\ tx[c] = "pending" /\ Sound(job[c]) /\ status[c] \notin {"ok", "refused", "unsigned", "tx_failed"}
      /\ job[c] \in Requests /\ ledger \in Ledgers
  BY DEF Land, WalletInv, CommandInv, TypeOK
<1>2. ReportOf(c) \in {"none", "unknown"}
  BY <1>1, Reports DEF TypeOK, Refusals
<1>3. ledger' \in Executed(Instructions(job[c]), ledger)
  BY DEF Land, Outcome
<1>4. Promise!Permitted(job[c], ledger) /\ ledger' = Promise!Intended(job[c], ledger)
  BY <1>1, <1>3, LandsAsIntended
<1>5. \A d \in Commands : ReportOf(d)' = ReportOf(d)
  BY SameReport DEF Land
<1>6. \A d \in Commands : (tx'[d] = "processed") = (IF d = c THEN TRUE ELSE tx[d] = "processed")
  BY DEF Land, TypeOK
<1>7. /\ [d \in Commands |-> tx[d] = "processed"]' =
             [[d \in Commands |-> tx[d] = "processed"] EXCEPT ![c] = TRUE]
      /\ [d \in Commands |-> ReportOf(d)]' = [d \in Commands |-> ReportOf(d)]
  BY <1>5, <1>6
<1>8. tx[c] # "processed"
  BY <1>1
<1>9. QED
  BY <1>2, <1>4, <1>7, <1>8 DEF Promise!TakeEffect, Land

\* A step of a command in progress that neither ends it nor lands.
LEMMA GoesOnUnseen ==
    ASSUME TypeOK, NEW c \in Commands, status[c] \in {"idle", "running"},
           status'[c] = "running", \A d \in Commands : d # c => status'[d] = status[d],
           ledger' = ledger, job' = job,
           \A d \in Commands : (tx'[d] = "processed") = (tx[d] = "processed")
    PROVE  UNCHANGED Promise!promise
<1>1. ReportOf(c) = "none"
  BY Reports
<1>2. ReportOf(c)' = "none"
  BY DEF ReportOf, Refusals
<1>3. \A d \in Commands : ReportOf(d)' = ReportOf(d)
  BY <1>1, <1>2, SameReport
<1>4. QED
  BY <1>3, NotSeen

\* Every step is one of the promise or is not seen.
LEMMA StepRefined ==
    ASSUME TypeOK, WalletInv, [Next]_vars
    PROVE  [Promise!Next]_(Promise!promise)
<1> DEFINE Kept == /\ ledger' = ledger /\ job' = job
                   /\ \A d \in Commands : (tx'[d] = "processed") = (tx[d] = "processed")
<1>1. CASE OthersStep
  BY <1>1, OthersRefined DEF Promise!Next
<1>2. ASSUME NEW c \in Commands, Land(c)
      PROVE  [Promise!Next]_(Promise!promise)
  BY <1>2, LandRefined DEF Promise!Next
<1>3. ASSUME NEW c \in Commands, Begin(c)
      PROVE  [Promise!Next]_(Promise!promise)
  <2>1. Kept /\ status[c] = "idle" /\ tx[c] # "processed"
    BY <1>3 DEF Begin, WalletInv, CommandInv
  <2>2. CASE LocalRefusal(job[c])
    <3>1. status' = [status EXCEPT ![c] = "refused"]
      BY <1>3, <2>2 DEF Begin
    <3>2. QED
      BY <2>1, <3>1, EndsWithReport
  <2>3. CASE ~LocalRefusal(job[c])
    <3>1. status' = [status EXCEPT ![c] = "running"]
      BY <1>3, <2>3 DEF Begin
    <3>2. QED
      BY <2>1, <3>1, GoesOnUnseen DEF TypeOK
  <2>4. QED
    BY <2>2, <2>3
<1>4. ASSUME NEW c \in Commands, NEW step,
             At(c, step), tx[c] # "processed", Kept,
             Return(c, "refused") \/ Return(c, "unsigned") \/ Goto(c, "sign")
               \/ Goto(c, "source") \/ Goto(c, "destination") \/ Goto(c, "send")
      PROVE  [Promise!Next]_(Promise!promise)
  <2>1. status[c] = "running"
    BY <1>4 DEF At
  <2>2. CASE Return(c, "refused") \/ Return(c, "unsigned")
    BY <1>4, <2>1, <2>2, EndsWithReport DEF Return
  <2>3. CASE status' = status
    BY <1>4, <2>1, <2>3, GoesOnUnseen
  <2>4. QED
    BY <1>4, <2>2, <2>3 DEF Goto
<1>5. ASSUME NEW c \in Commands,
             ReadMint(c) \/ ReadSource(c) \/ ReadDestination(c) \/ SignLocally(c) \/ AskCosigner(c)
      PROVE  [Promise!Next]_(Promise!promise)
  <2>1. PICK step \in {"mint", "source", "destination", "sign"} : At(c, step)
    BY <1>5 DEF ReadMint, ReadSource, ReadDestination, SignLocally, AskCosigner
  <2>2. tx[c] # "processed"
    BY <2>1 DEF At, WalletInv, CommandInv, RunningInv
  <2>3. Kept
    BY <1>5 DEF ReadMint, ReadSource, ReadDestination, SignLocally, AskCosigner
  <2>4. \/ Return(c, "refused") \/ Return(c, "unsigned") \/ Goto(c, "sign")
        \/ Goto(c, "source") \/ Goto(c, "destination") \/ Goto(c, "send")
    BY <1>5 DEF ReadMint, ReadSource, ReadDestination, SignLocally, AskCosigner, Signs
  <2>5. QED
    BY <1>4, <2>1, <2>2, <2>3, <2>4
<1>6. ASSUME NEW c \in Commands, Send(c)
      PROVE  [Promise!Next]_(Promise!promise)
  <2>1. status[c] = "running" /\ status' = status /\ tx[c] = "none" /\ ledger' = ledger /\ job' = job
    BY <1>6 DEF Send, At, Goto, WalletInv, CommandInv, RunningInv
  <2>2. Kept
    BY <1>6, <2>1 DEF Send, TypeOK
  <2>3. QED
    BY <2>1, <2>2, GoesOnUnseen
<1>7. ASSUME NEW c \in Commands, Reject(c)
      PROVE  [Promise!Next]_(Promise!promise)
  <2>1. Kept
    BY <1>7 DEF Reject, TypeOK
  <2>2. \A d \in Commands : ReportOf(d)' = ReportOf(d)
    BY <1>7, SameReport DEF Reject
  <2>3. QED
    BY <2>1, <2>2, NotSeen
<1>8. ASSUME NEW c \in Commands, Confirm(c)
      PROVE  [Promise!Next]_(Promise!promise)
  <2>1. status[c] = "running" /\ Kept /\ status' = [status EXCEPT ![c] = Verdict(c)]
    BY <1>8 DEF Confirm, At, Return
  <2>2. \/ Verdict(c) = "ok" /\ tx[c] = "processed"
        \/ Verdict(c) = "tx_failed" /\ tx[c] # "processed"
    BY <1>8 DEF Confirm, Verdict
  <2>3. QED
    BY <2>1, <2>2, EndsWithReport
<1>9. ASSUME NEW c \in Commands, Stop(c)
      PROVE  [Promise!Next]_(Promise!promise)
  <2>1. /\ status[c] = "running" /\ ledger' = ledger /\ job' = job
        /\ status' = [status EXCEPT ![c] = "lost"]
    BY <1>9 DEF Stop, Return
  <2>2. pc[c] = "send" => tx[c] = "none"
    BY <2>1 DEF WalletInv, CommandInv, RunningInv
  <2>3. Kept
    BY <1>9, <2>1, <2>2 DEF Stop, TypeOK
  <2>4. QED
    BY <2>1, <2>3, EndsWithReport
<1>10. CASE UNCHANGED vars
  <2>1. Kept /\ \A d \in Commands : ReportOf(d)' = ReportOf(d)
    BY <1>10, SameReport DEF vars
  <2>2. QED
    BY <2>1, NotSeen
<1>11. QED
  BY <1>1, <1>2, <1>3, <1>5, <1>6, <1>7, <1>8, <1>9, <1>10 DEF Next, Client

\* The commands implement WalletPromise: at most one effect, whole and as
\* requested; success reported after it, a refusal only without it.
THEOREM Refines == Spec => ImplementsPromise
<1>1. Init => Promise!Init
  BY RefinedInit
<1>2. TypeOK /\ WalletInv /\ [Next]_vars => [Promise!Next]_(Promise!promise)
  BY StepRefined
<1>3. QED
  BY <1>1, <1>2, Inductive, PTL DEF Spec, ImplementsPromise, Promise!Spec
-----------------------------------------------------------------------------
(* Fixed supplies.                                                         *)

\* A mint that nobody may mint from is left as it is by every transaction.
LEMMA SealedStays ==
    ASSUME NEW L \in Ledgers, NEW j \in Requests, Promise!Permitted(j, L),
           L.mint.state = "initialized", L.mint.auth = "none"
    PROVE  Promise!Intended(j, L).mint = L.mint
<1>1. j.cmd \in {"transfer_user", "transfer_account", "transfer_arch"}
  BY RequestType DEF CommandNames, Promise!Permitted
<1>2. CASE j.cmd = "transfer_user"
  <2>1. Promise!Intended(j, L) = [L EXCEPT !.acct =
           Promise!Credited(Promise!Minus(L.acct, j.source, j.amount), j.to, j.amount)]
    BY <1>2 DEF Promise!Intended
  <2>2. QED
    BY <2>1 DEF Ledgers
<1>3. CASE j.cmd = "transfer_account"
  <2>1. Promise!Intended(j, L) = [L EXCEPT !.acct =
           Promise!Plus(Promise!Minus(L.acct, j.source, j.amount), j.to, j.amount)]
    BY <1>3 DEF Promise!Intended
  <2>2. QED
    BY <2>1 DEF Ledgers
<1>4. CASE j.cmd = "transfer_arch"
  <2>1. Promise!Intended(j, L) = [L EXCEPT !.lamports =
           Promise!Paid(L.lamports, j.signer, j.to, j.amount)]
    BY <1>4 DEF Promise!Intended
  <2>2. QED
    BY <2>1 DEF Ledgers
<1>5. QED
  BY <1>1, <1>2, <1>3, <1>4

\* A fixed supply is created as asked.
LEMMA CreatedSealed ==
    ASSUME NEW L \in Ledgers, NEW j, j.cmd = "create_mint", j.fixed
    PROVE  Promise!Intended(j, L).mint =
               [state |-> "initialized", auth |-> "none", supply |-> j.amount]
<1> DEFINE mint == [state |-> "initialized", auth |-> IF j.fixed THEN "none" ELSE j.signer,
                    supply |-> j.amount]
           acct == IF j.amount > 0 THEN Promise!Credited(L.acct, j.signer, j.amount) ELSE L.acct
<1>1. Promise!Intended(j, L) = [L EXCEPT !.mint = mint, !.acct = acct]
  BY DEF Promise!Intended
<1>2. mint = [state |-> "initialized", auth |-> "none", supply |-> j.amount]
  OBVIOUS
<1> HIDE DEF mint, acct
<1>3. [L EXCEPT !.mint = mint, !.acct = acct].mint = mint
  BY DEF Ledgers
<1>4. QED
  BY <1>1, <1>2, <1>3

LEMMA SealedStep ==
    ASSUME TypeOK, WalletInv, FixedSupplySealed, [Next]_vars
    PROVE  FixedSupplySealed'
<1> SUFFICES ASSUME NEW d \in Commands, job'[d].cmd = "create_mint", job'[d].fixed,
                    tx'[d] = "processed"
             PROVE  ledger'.mint = [state |-> "initialized", auth |-> "none",
                                    supply |-> job'[d].amount]
  BY DEF FixedSupplySealed
<1>1. job' = job
  BY DEF Next, vars, Client, OthersStep, Begin, ReadMint, ReadSource, ReadDestination,
     SignLocally, AskCosigner, Send, Land, Reject, Confirm, Stop
<1>2. CASE OthersStep
  <2>1. ledger.mint = [state |-> "initialized", auth |-> "none", supply |-> job[d].amount]
    BY <1>1, <1>2 DEF OthersStep, FixedSupplySealed
  <2>2. ledger' \in Others(ledger, Disturbances)
    BY <1>2, OthersCases DEF OthersStep, Disturbances
  <2>3. ledger'.mint = ledger.mint
    BY <2>1, <2>2, OthersLand DEF TypeOK
  <2>4. QED
    BY <1>1, <2>1, <2>3
<1>3. ASSUME NEW c \in Commands, Land(c)
      PROVE  ledger'.mint = [state |-> "initialized", auth |-> "none",
                             supply |-> job'[d].amount]
  <2>1. Sound(job[c]) /\ job[c] \in Requests /\ ledger \in Ledgers
    BY <1>3 DEF Land, WalletInv, CommandInv, TypeOK
  <2>2. ledger' \in Executed(Instructions(job[c]), ledger)
    BY <1>3 DEF Land, Outcome
  <2>3. Promise!Permitted(job[c], ledger) /\ ledger' = Promise!Intended(job[c], ledger)
    BY <2>1, <2>2, LandsAsIntended
  <2>4. CASE c = d
    BY <1>1, <2>1, <2>3, <2>4, CreatedSealed
  <2>5. CASE c # d
    <3>1. tx[d] = "processed"
      BY <1>3, <2>5 DEF Land, TypeOK
    <3>2. ledger.mint = [state |-> "initialized", auth |-> "none", supply |-> job[d].amount]
      BY <1>1, <3>1 DEF FixedSupplySealed
    <3>3. ledger'.mint = ledger.mint
      BY <2>1, <2>3, <3>2, SealedStays
    <3>4. QED
      BY <1>1, <3>2, <3>3
  <2>6. QED
    BY <2>4, <2>5
<1>4. CASE ledger' = ledger /\ tx[d] = "processed"
  BY <1>1, <1>4 DEF FixedSupplySealed
<1>5. ASSUME NEW c \in Commands, Client(c) \/ Reject(c) \/ Stop(c)
      PROVE  ledger' = ledger /\ tx[d] = "processed"
  BY <1>5 DEF TypeOK, Client, Begin, ReadMint, ReadSource, ReadDestination, SignLocally,
     AskCosigner, Send, Confirm, Reject, Stop
<1>6. CASE UNCHANGED vars
  BY <1>4, <1>6 DEF vars
<1>7. QED
  BY <1>2, <1>3, <1>4, <1>5, <1>6 DEF Next

\* Once a fixed supply is created, nobody can ever mint again.
THEOREM SealedHolds == Spec => []FixedSupplySealed
<1>1. Init => FixedSupplySealed
  BY DEF Init, FixedSupplySealed
<1>2. TypeOK /\ WalletInv /\ FixedSupplySealed /\ [Next]_vars => FixedSupplySealed'
  BY SealedStep
<1>3. QED
  BY <1>1, <1>2, Inductive, PTL DEF Spec

-----------------------------------------------------------------------------
(* Transactions that are accepted.                                         *)

LEMMA StageReached ==
    ASSUME NEW tx0, NEW k \in Nat, k <= Len(tx0), NEW S, NEW L \in S, NEW M \in Handle(tx0[k], L)
    PROVE  M \in Stage(tx0, k, S)
BY DEF Stage

\* A transaction goes through, if each handler accepts what the one before it left.
LEMMA OneExecutes ==
    ASSUME NEW tx0, NEW L, Len(tx0) = 1, NEW M \in Handle(tx0[1], L)
    PROVE  Executed(tx0, L) # {}
<1>1. M \in Stage(tx0, 1, {L})
  BY StageReached
<1>2. \A S : /\ Stage(tx0, 5, S) = S /\ Stage(tx0, 4, S) = S
             /\ Stage(tx0, 3, S) = S /\ Stage(tx0, 2, S) = S
  BY DEF Stage
<1>3. QED
  BY <1>1, <1>2 DEF Executed

LEMMA TwoExecute ==
    ASSUME NEW tx0, NEW L, Len(tx0) = 2,
           NEW A \in Handle(tx0[1], L), NEW M \in Handle(tx0[2], A)
    PROVE  Executed(tx0, L) # {}
<1>1. A \in Stage(tx0, 1, {L})
  BY StageReached
<1>2. M \in Stage(tx0, 2, Stage(tx0, 1, {L}))
  BY <1>1, StageReached
<1>3. \A S : Stage(tx0, 5, S) = S /\ Stage(tx0, 4, S) = S /\ Stage(tx0, 3, S) = S
  BY DEF Stage
<1>4. QED
  BY <1>2, <1>3 DEF Executed

LEMMA FourExecute ==
    ASSUME NEW tx0, NEW L, Len(tx0) \in {4, 5},
           NEW A \in Handle(tx0[1], L), NEW B \in Handle(tx0[2], A),
           NEW C \in Handle(tx0[3], B), NEW D \in Handle(tx0[4], C),
           Len(tx0) = 5 => Handle(tx0[5], D) # {}
    PROVE  Executed(tx0, L) # {}
<1> DEFINE S1 == Stage(tx0, 1, {L})
           S2 == Stage(tx0, 2, S1)
           S3 == Stage(tx0, 3, S2)
           S4 == Stage(tx0, 4, S3)
<1>0. 1 <= Len(tx0) /\ 2 <= Len(tx0) /\ 3 <= Len(tx0) /\ 4 <= Len(tx0)
  OBVIOUS
<1>1. A \in S1
  BY <1>0, StageReached
<1>2. Executed(tx0, L) = Stage(tx0, 5, S4)
  BY DEF Executed
<1> HIDE DEF S1
<1>3. B \in S2
  BY <1>0, <1>1, StageReached
<1> HIDE DEF S2
<1>4. C \in S3
  BY <1>0, <1>3, StageReached
<1> HIDE DEF S3
<1>5. D \in S4
  BY <1>0, <1>4, StageReached
<1> HIDE DEF S4
<1>6. CASE Len(tx0) = 5
  <2>1. PICK M \in Handle(tx0[5], D) : TRUE
    BY <1>6
  <2>2. 5 <= Len(tx0)
    BY <1>6
  <2>3. M \in Stage(tx0, 5, S4)
    BY <1>5, <2>1, <2>2, StageReached
  <2>4. QED
    BY <1>2, <2>3
<1>7. CASE Len(tx0) = 4
  <2>1. Stage(tx0, 5, S4) = S4
    BY <1>7 DEF Stage
  <2>2. QED
    BY <1>2, <1>5, <2>1
<1>8. QED
  BY <1>6, <1>7

\* Opening a user's account and minting to it.
LEMMA MintToUserExecutes ==
    ASSUME NEW L \in Ledgers, NEW k \in Keys, NEW by, NEW n \in Nat,
           L.mint.state = "initialized", L.mint.auth = by,
           Usable(L.acct, Ata[k], k), RoomFor(L.mint, n)
    PROVE  \E P \in Handle(CreateAta(k), L) : \E M \in Handle(MintTo(Ata[k], by, n), P) :
               M.mint = Issued(L.mint, n)
<1> DEFINE P == [L EXCEPT !.acct = Opened(L.acct, k)]
           M == [P EXCEPT !.mint = Issued(P.mint, n), !.acct = Plus(P.acct, Ata[k], n)]
<1>1. Ata[k] \in Addresses /\ L.acct \in TypedAccounts
  BY AtaAssumption, LedgerParts
<1>2. P \in Handle(CreateAta(k), L)
  BY DEF Handle, CreateAta, Instruction, HandleCreateAta, When, Usable
<1>3. P.mint = L.mint /\ P.acct = Opened(L.acct, k) /\ P.lamports = L.lamports
      /\ P = [mint |-> L.mint, acct |-> Opened(L.acct, k), lamports |-> L.lamports]
  BY LedgerParts
<1>4. P.acct[Ata[k]].state = "initialized"
  BY <1>1, <1>3 DEF Usable, Opened, EmptyAccount, TypedAccounts
<1> HIDE DEF P
<1>5. M \in Handle(MintTo(Ata[k], by, n), P)
  BY <1>3, <1>4 DEF Handle, MintTo, Instruction, HandleMintTo, When
<1>6. M.mint = Issued(L.mint, n)
  BY <1>3
<1>7. QED
  BY <1>2, <1>5, <1>6

LEMMA CreateMintAccepted ==
    ASSUME NEW L \in Ledgers, NEW j \in Requests, j.cmd = "create_mint", ~Unforeseen(j, L)
    PROVE  Executed(Instructions(j), L) # {}
<1> DEFINE tx0 == Instructions(j)
           born == [state |-> "initialized", auth |-> j.signer, supply |-> 0]
           A == [L EXCEPT !.mint.state = "allocated"]
           B == [A EXCEPT !.mint = born]
<1>1. /\ j.signer \in Keys /\ j.to = j.signer /\ j.amount \in 0..MaxAmount /\ j.fixed \in BOOLEAN
      /\ j.fixed => j.amount > 0
      /\ L.mint.state = "missing" /\ Usable(L.acct, Ata[j.signer], j.signer)
  BY RequestsAssumption DEF Unforeseen
<1>2. A \in Handle(CreateAccount(j.signer), L)
  BY <1>1 DEF Handle, CreateAccount, Instruction, HandleCreateAccount, When
<1>3. A.mint.state = "allocated" /\ A.acct = L.acct /\ A.lamports = L.lamports
      /\ A = [mint |-> A.mint, acct |-> L.acct, lamports |-> L.lamports]
  BY LedgerParts DEF Mints
<1> HIDE DEF A
<1>4. B \in Handle(InitializeMint(j.signer), A)
  BY <1>3 DEF Handle, InitializeMint, Instruction, HandleInitializeMint, When
<1>5. B = [mint |-> born, acct |-> L.acct, lamports |-> L.lamports]
  BY <1>3
<1>6. B \in Ledgers
  BY <1>1, <1>5, LedgerParts DEF Ledgers, Mints, TypedAccounts
<1>7. B.mint = born /\ B.acct = L.acct
  BY <1>5
<1> HIDE DEF B
<1>8. CASE j.amount = 0
  <2>1. /\ Len(tx0) = 2
        /\ tx0[1] = CreateAccount(j.signer) /\ tx0[2] = InitializeMint(j.signer)
    BY <1>1, <1>8 DEF Instructions, CreateMintInstructions
  <2>2. QED
    BY <1>2, <1>4, <2>1, TwoExecute
<1>9. CASE j.amount > 0
  <2>1. /\ Len(tx0) = IF j.fixed THEN 5 ELSE 4
        /\ tx0[1] = CreateAccount(j.signer) /\ tx0[2] = InitializeMint(j.signer)
        /\ tx0[3] = CreateAta(j.signer)
        /\ tx0[4] = MintTo(Ata[j.signer], j.signer, j.amount)
        /\ j.fixed => tx0[5] = RevokeMinting(j.signer)
    BY <1>1, <1>9 DEF Instructions, CreateMintInstructions, MintToUser
  <2>2. RoomFor(B.mint, j.amount)
    BY <1>1, <1>7, AmountsAssumption DEF RoomFor
  <2>3. PICK C \in Handle(CreateAta(j.signer), B) :
           \E D \in Handle(MintTo(Ata[j.signer], j.signer, j.amount), C) :
               D.mint = Issued(B.mint, j.amount)
    BY <1>1, <1>6, <1>7, <2>2, MintToUserExecutes
  <2>4. PICK D \in Handle(MintTo(Ata[j.signer], j.signer, j.amount), C) :
           D.mint = Issued(B.mint, j.amount)
    BY <2>3
  <2>5. D.mint.state = "initialized" /\ D.mint.auth = j.signer
    BY <1>7, <2>4 DEF Issued
  <2>6. Handle(RevokeMinting(j.signer), D) # {}
    BY <2>5 DEF Handle, RevokeMinting, Instruction, HandleRevoke, When
  <2>7. Len(tx0) \in {4, 5} /\ (Len(tx0) = 5 => Handle(tx0[5], D) # {})
    BY <2>1, <2>6
  <2> HIDE DEF tx0
  <2>8. /\ A \in Handle(tx0[1], L) /\ B \in Handle(tx0[2], A)
        /\ C \in Handle(tx0[3], B) /\ D \in Handle(tx0[4], C)
    BY <1>2, <1>4, <2>1, <2>3, <2>4
  <2>9. Executed(tx0, L) # {}
    BY <2>7, <2>8, FourExecute
  <2>10. QED
    BY <2>9 DEF tx0
<1>10. QED
  BY <1>1, <1>8, <1>9, AmountsAssumption

LEMMA MintTokensAccepted ==
    ASSUME NEW L \in Ledgers, NEW j \in Requests, j.cmd = "mint_tokens",
           ~MintRefusal(j, L), ~Unforeseen(j, L)
    PROVE  Executed(Instructions(j), L) # {}
<1> DEFINE tx0 == Instructions(j)
<1>1. /\ j.to \in Keys /\ j.amount \in Nat
      /\ L.mint.state = "initialized" /\ L.mint.auth = j.signer
      /\ Usable(L.acct, Ata[j.to], j.to) /\ RoomFor(L.mint, j.amount)
  BY RequestType DEF MintRefusal, Unforeseen
<1>2. /\ Len(tx0) = 2
      /\ tx0[1] = CreateAta(j.to) /\ tx0[2] = MintTo(Ata[j.to], j.signer, j.amount)
  BY DEF Instructions, MintToUser
<1>3. PICK P \in Handle(CreateAta(j.to), L) :
         Handle(MintTo(Ata[j.to], j.signer, j.amount), P) # {}
  BY <1>1, MintToUserExecutes
<1>4. QED
  BY <1>2, <1>3, TwoExecute

LEMMA AccountTransferAccepted ==
    ASSUME NEW L \in Ledgers, NEW j \in Requests, j.cmd = "transfer_account",
           ~SourceRefusal(j, L), ~DestinationRefusal(j, L)
    PROVE  Executed(Instructions(j), L) # {}
<1> DEFINE tx0 == Instructions(j)
<1>1. Len(tx0) = 1 /\ tx0[1] = TransferTokens(j.source, j.to, j.signer, j.amount)
  BY DEF Instructions, TransferInstructions, Destination
<1>2. /\ j.source \in Addresses /\ j.amount \in Nat /\ L.acct[j.source].amount \in Nat
  BY RequestType, LedgerParts DEF TypedAccounts, TokenAccounts
<1>3. /\ L.acct[j.source].state = "initialized" /\ L.acct[j.to].state = "initialized"
      /\ L.acct[j.source].owner = j.signer /\ L.acct[j.source].amount >= j.amount
  BY <1>2 DEF SourceRefusal, TokenSourceRefusal, DestinationRefusal
<1>4. Handle(TransferTokens(j.source, j.to, j.signer, j.amount), L) # {}
  BY <1>3 DEF Handle, TransferTokens, Instruction, HandleTransfer, When
<1>5. QED
  BY <1>1, <1>4, OneExecutes

LEMMA UserTransferAccepted ==
    ASSUME NEW L \in Ledgers, NEW j \in Requests, j.cmd = "transfer_user",
           ~MintRefusal(j, L), ~SourceRefusal(j, L), ~Unforeseen(j, L)
    PROVE  Executed(Instructions(j), L) # {}
<1> DEFINE tx0 == Instructions(j)
           a == Ata[j.to]
           P == [L EXCEPT !.acct = Opened(L.acct, j.to)]
<1>1. /\ j.to \in Keys /\ a \in Addresses /\ j.source \in Addresses /\ j.amount \in Nat
      /\ L.acct[j.source].amount \in Nat /\ L.acct \in TypedAccounts
  BY RequestType, LedgerParts DEF TypedAccounts, TokenAccounts
<1>2. /\ Len(tx0) = 2
      /\ tx0[1] = CreateAta(j.to)
      /\ tx0[2] = TransferTokens(j.source, a, j.signer, j.amount)
  BY DEF Instructions, TransferInstructions, Destination
<1>3. /\ L.mint.state = "initialized"
      /\ L.acct[j.source].state = "initialized" /\ L.acct[j.source].owner = j.signer
      /\ L.acct[j.source].amount >= j.amount /\ a # j.source
      /\ Usable(L.acct, a, j.to)
  BY <1>1 DEF MintRefusal, SourceRefusal, TokenSourceRefusal, Destination, Unforeseen
<1>4. P \in Handle(CreateAta(j.to), L)
  BY <1>3 DEF Handle, CreateAta, Instruction, HandleCreateAta, When, Usable
<1>5. P.acct = Opened(L.acct, j.to)
  BY LedgerParts
<1>6. P.acct[j.source] = L.acct[j.source] /\ P.acct[a].state = "initialized"
  BY <1>1, <1>3, <1>5 DEF Usable, Opened, EmptyAccount, TypedAccounts
<1> HIDE DEF P
<1>7. Handle(TransferTokens(j.source, a, j.signer, j.amount), P) # {}
  BY <1>3, <1>6 DEF Handle, TransferTokens, Instruction, HandleTransfer, When
<1>8. QED
  BY <1>2, <1>4, <1>7, TwoExecute

LEMMA ArchTransferAccepted ==
    ASSUME NEW L \in Ledgers, NEW j \in Requests, j.cmd = "transfer_arch", ~SourceRefusal(j, L)
    PROVE  Executed(Instructions(j), L) # {}
<1> DEFINE tx0 == Instructions(j)
<1>1. Len(tx0) = 1 /\ tx0[1] = TransferLamports(j.signer, j.to, j.amount)
  BY DEF Instructions
<1>2. /\ j.signer \in Keys /\ j.amount \in Nat /\ L.lamports[j.signer] \in Nat
  BY RequestType, LedgerParts
<1>3. L.lamports[j.signer] >= j.amount + Fee
  BY <1>2, AmountsAssumption DEF SourceRefusal, ArchSourceRefusal, RequiredBalance
<1>4. Handle(TransferLamports(j.signer, j.to, j.amount), L) # {}
  BY <1>3 DEF Handle, TransferLamports, Instruction, HandleSystemTransfer, When
<1>5. QED
  BY <1>1, <1>4, OneExecutes

-----------------------------------------------------------------------------
(* What a command that nobody disturbs has read is still so.               *)

\* The checks a command has passed, by the request it has reached.
MintChecked(c) ==
    /\ job[c].cmd \in {"mint_tokens", "transfer_user", "transfer_account"}
    /\ pc[c] \in {"source", "destination", "sign", "send", "wait"}
SourceChecked(c) ==
    \/ /\ job[c].cmd = "transfer_account" /\ pc[c] \in {"destination", "sign", "send", "wait"}
    \/ /\ job[c].cmd \in {"transfer_user", "transfer_arch"}
       /\ pc[c] \in {"sign", "send", "wait"}
DestinationChecked(c) ==
    job[c].cmd = "transfer_account" /\ pc[c] \in {"sign", "send", "wait"}

CheckedInv(c) ==
    calm[c] /\ status[c] = "running" /\ tx[c] # "processed" =>
        /\ MintChecked(c) => ~MintRefusal(job[c], ledger)
        /\ SourceChecked(c) => ~SourceRefusal(job[c], ledger)
        /\ DestinationChecked(c) => ~DestinationRefusal(job[c], ledger)

ChecksInv == \A c \in Commands : CheckedInv(c)

LEMMA ChecksInit == Init => ChecksInv
  BY DEF Init, ChecksInv, CheckedInv

\* A command that others may have disturbed, or whose transaction has been
\* processed, owes nothing; one that has read nothing new owes what it owed.
LEMMA ChecksKept ==
    ASSUME NEW d \in Commands, CheckedInv(d), job' = job, pc'[d] = pc[d],
           calm'[d] /\ status'[d] = "running" /\ tx'[d] # "processed" =>
               /\ calm[d] /\ status[d] = "running" /\ tx[d] # "processed"
               /\ ledger' = ledger
    PROVE  CheckedInv(d)'
  BY DEF CheckedInv, MintChecked, SourceChecked, DestinationChecked

LEMMA ChecksStep ==
    ASSUME TypeOK, WalletInv, ChecksInv, [Next]_vars
    PROVE  ChecksInv'
<1> SUFFICES ASSUME NEW d \in Commands
             PROVE  CheckedInv(d)'
  BY DEF ChecksInv
<1>0. CheckedInv(d) /\ CommandInv(d)
  BY DEF ChecksInv, WalletInv
<1>1. CASE OthersStep
  <2>1. calm'[d] => status[d] # "running"
    BY <1>1 DEF OthersStep
  <2>2. QED
    BY <1>0, <1>1, <2>1, ChecksKept DEF OthersStep
<1>2. ASSUME NEW c \in Commands, c # d, Client(c) \/ Land(c) \/ Reject(c) \/ Stop(c)
      PROVE  CheckedInv(d)'
  <2>1. /\ job' = job /\ pc'[d] = pc[d] /\ status'[d] = status[d] /\ tx'[d] = tx[d]
    BY <1>2 DEF TypeOK, Client, Begin, ReadMint, ReadSource, ReadDestination, SignLocally,
       AskCosigner, Send, Confirm, Land, Reject, Stop, Signs, Goto, Return
  <2>2. CASE Land(c)
    <3>1. calm'[d] => status[d] # "running"
      BY <1>2, <2>2 DEF Land, Disturbs
    <3>2. QED
      BY <1>0, <2>1, <3>1, ChecksKept
  <2>3. CASE ~Land(c)
    <3>1. ledger' = ledger /\ calm' = calm
      BY <1>2, <2>3 DEF Client, Begin, ReadMint, ReadSource, ReadDestination, SignLocally,
         AskCosigner, Send, Confirm, Reject, Stop
    <3>2. QED
      BY <1>0, <2>1, <3>1, ChecksKept
  <2>4. QED
    BY <2>2, <2>3
<1>3. CASE Begin(d)
  <2>1. job' = job /\ pc'[d] = FirstStep(job[d])
    BY <1>3 DEF Begin, TypeOK
  <2>2. QED
    BY <2>1 DEF CheckedInv, MintChecked, SourceChecked, DestinationChecked, FirstStep
<1>4. CASE ReadMint(d) \/ ReadSource(d) \/ ReadDestination(d)
  <2>1. /\ ledger' = ledger /\ job' = job /\ tx' = tx /\ calm' = calm
        /\ status[d] = "running" /\ pc[d] \in {"mint", "source", "destination"} /\ RunningInv(d)
    BY <1>0, <1>4 DEF ReadMint, ReadSource, ReadDestination, At, CommandInv
  <2>2. CASE status'[d] # "running"
    BY <2>2 DEF CheckedInv
  <2>3. CASE status'[d] = "running"
    <3>1. CASE ReadMint(d)
      <4>1. /\ ~MintRefusal(job[d], ledger) /\ pc[d] = "mint"
            /\ pc'[d] = IF job[d].cmd = "mint_tokens" THEN "sign" ELSE "source"
        BY <2>3, <3>1 DEF ReadMint, At, Goto, Return, TypeOK
      <4>2. job[d].cmd \in {"mint_tokens", "transfer_user", "transfer_account"}
        BY <2>1, <4>1, RequestType DEF RunningInv, CommandNames, TypeOK
      <4>3. ~SourceChecked(d)' /\ ~DestinationChecked(d)'
        BY <2>1, <4>1, <4>2 DEF SourceChecked, DestinationChecked
      <4>4. QED
        BY <2>1, <4>1, <4>3 DEF CheckedInv
    <3>2. CASE ReadSource(d)
      <4>1. /\ ~SourceRefusal(job[d], ledger) /\ pc[d] = "source"
            /\ pc'[d] = IF job[d].cmd = "transfer_account" THEN "destination" ELSE "sign"
        BY <2>3, <3>2 DEF ReadSource, At, Goto, Return, TypeOK
      <4>2. ~DestinationChecked(d)' /\ (MintChecked(d)' => MintChecked(d))
        BY <2>1, <4>1 DEF MintChecked, DestinationChecked
      <4>3. QED
        BY <1>0, <2>1, <4>1, <4>2 DEF CheckedInv
    <3>3. CASE ReadDestination(d)
      <4>1. /\ ~DestinationRefusal(job[d], ledger) /\ pc[d] = "destination"
            /\ pc'[d] = "sign" /\ job[d].cmd = "transfer_account"
        BY <2>1, <2>3, <3>3 DEF ReadDestination, At, Goto, Return, RunningInv, TypeOK
      <4>2. MintChecked(d) /\ SourceChecked(d)
        BY <4>1 DEF MintChecked, SourceChecked
      <4>3. QED
        BY <1>0, <2>1, <4>1, <4>2 DEF CheckedInv
    <3>4. QED
      BY <1>4, <3>1, <3>2, <3>3
  <2>4. QED
    BY <2>2, <2>3
<1>5. CASE SignLocally(d) \/ AskCosigner(d) \/ Send(d)
  <2>1. /\ ledger' = ledger /\ job' = job /\ calm' = calm
        /\ status[d] = "running" /\ pc[d] \in {"sign", "send"} /\ tx[d] = "none"
    BY <1>0, <1>5 DEF SignLocally, AskCosigner, Send, At, CommandInv, RunningInv
  <2>2. status'[d] = "running" => pc'[d] \in {"sign", "send", "wait"}
    BY <1>5, <2>1 DEF SignLocally, AskCosigner, Send, Signs, Goto, Return, TypeOK
  <2>3. pc'[d] \in {"sign", "send", "wait"} =>
            /\ MintChecked(d)' => MintChecked(d)
            /\ SourceChecked(d)' => SourceChecked(d)
            /\ DestinationChecked(d)' => DestinationChecked(d)
    BY <2>1 DEF MintChecked, SourceChecked, DestinationChecked
  <2>4. QED
    BY <1>0, <2>1, <2>2, <2>3 DEF CheckedInv
<1>6. CASE Land(d)
  <2>1. tx'[d] = "processed"
    BY <1>6 DEF Land, TypeOK
  <2>2. QED
    BY <2>1 DEF CheckedInv
<1>7. CASE Reject(d)
  <2>1. tx[d] = "pending"
    BY <1>7 DEF Reject
  <2>2. QED
    BY <1>0, <1>7, <2>1, ChecksKept DEF Reject
<1>8. CASE Confirm(d) \/ Stop(d)
  <2>1. status'[d] # "running"
    BY <1>8 DEF Confirm, Stop, Return, Verdict, TypeOK
  <2>2. QED
    BY <2>1 DEF CheckedInv
<1>9. CASE UNCHANGED vars
  BY <1>0, <1>9, ChecksKept DEF vars
<1>10. QED
  BY <1>1, <1>2, <1>3, <1>4, <1>5, <1>6, <1>7, <1>8, <1>9 DEF Next, Client

\* While nobody else changes the ledger, every check a command has passed
\* would be passed again, until its own transaction is processed.
THEOREM ChecksInductive == Spec => []ChecksInv
<1>1. Init => ChecksInv
  BY ChecksInit
<1>2. TypeOK /\ WalletInv /\ ChecksInv /\ [Next]_vars => ChecksInv'
  BY ChecksStep
<1>3. QED
  BY <1>1, <1>2, Inductive, PTL DEF Spec

\* What a command validated is what the chain asks for: the handlers accept
\* its whole transaction, unless for what no command reads.
THEOREM ValidatedAlwaysAccepted == Spec => []ValidatedIsAccepted
<1>1. ASSUME TypeOK, WalletInv, ChecksInv
      PROVE  ValidatedIsAccepted
  <2> SUFFICES ASSUME NEW c \in Commands, calm[c], status[c] = "running", tx[c] = "pending",
                      ~Unforeseen(job[c], ledger)
               PROVE  Outcome(c) # {}
    BY DEF ValidatedIsAccepted
  <2>1. WellSigned(c) /\ pc[c] = "wait" /\ ledger \in Ledgers /\ job[c] \in Requests
        /\ job[c].cmd \in CommandNames
    BY <1>1, RequestType DEF WalletInv, CommandInv, RunningInv, TypeOK
  <2>2. /\ MintChecked(c) => ~MintRefusal(job[c], ledger)
        /\ SourceChecked(c) => ~SourceRefusal(job[c], ledger)
        /\ DestinationChecked(c) => ~DestinationRefusal(job[c], ledger)
    BY <1>1 DEF ChecksInv, CheckedInv
  <2>3. Executed(Instructions(job[c]), ledger) # {}
    BY <2>1, <2>2, CreateMintAccepted, MintTokensAccepted, UserTransferAccepted,
       AccountTransferAccepted, ArchTransferAccepted
       DEF MintChecked, SourceChecked, DestinationChecked, CommandNames
  <2>4. QED
    BY <2>1, <2>3 DEF Outcome
<1>2. QED
  BY <1>1, Inductive, ChecksInductive, PTL
=============================================================================
