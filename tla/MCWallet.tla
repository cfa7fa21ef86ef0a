------------------------------ MODULE MCWallet ------------------------------
(* Small instances of Wallet for TLC: alice creates the mint and issues,   *)
(* bob receives, "vault" is a second account of alice.                     *)
EXTENDS Wallet

MCAta == [alice |-> "alice_ata", bob |-> "bob_ata", mint |-> "mint_ata"]

Request(cmd, signer, source, to, n, fixed) ==
    [cmd |-> cmd, signer |-> signer, source |-> source, to |-> to,
     amount |-> n, fixed |-> fixed]

Creations ==
    {Request("create_mint", "alice", "none", "alice", 1, f) : f \in BOOLEAN}
        \cup {Request("create_mint", "mint", "none", "mint", 0, FALSE)}
Mintings == {Request("mint_tokens", k, "none", "bob", 2, FALSE) : k \in {"alice", "bob"}}
UserTransfers ==
    {Request("transfer_user", "alice", "alice_ata", k, 2, FALSE) : k \in {"alice", "bob"}}
AccountTransfers ==
    {Request("transfer_account", "alice", a, "vault", 1, FALSE) : a \in {"vault", "alice_ata"}}
ArchTransfers ==
    {Request("transfer_arch", "alice", "none", "bob", n, FALSE) : n \in {0, 1, MaxAmount}}
AllRequests == Creations \cup Mintings \cup UserTransfers \cup AccountTransfers \cup ArchTransfers

TokenAccount(state, owner, n) == [state |-> state, owner |-> owner, amount |-> n]
Start(mint, alice, bob, vault, arch) ==
    [mint |-> mint,
     acct |-> [a \in Addresses |-> CASE a = "alice_ata" -> alice [] a = "bob_ata" -> bob
                                     [] a = "vault" -> vault [] OTHER -> NoTokenAccount],
     lamports |-> [k \in Keys |-> IF k = "alice" THEN arch ELSE 0]]
Minted(auth, n) == [state |-> "initialized", auth |-> auth, supply |-> n]
NoMint == [state |-> "missing", auth |-> "none", supply |-> 0]

MCLedgers ==
    {\* Nothing yet, or only somebody else's account at the mint's address.
     Start(NoMint, NoTokenAccount, NoTokenAccount, NoTokenAccount, 3),
     Start([NoMint EXCEPT !.state = "foreign"], NoTokenAccount, NoTokenAccount,
           NoTokenAccount, 2),
     Start([NoMint EXCEPT !.state = "allocated"], NoTokenAccount, NoTokenAccount,
           NoTokenAccount, 0),
     \* A mint of alice's, tokens in two accounts, bob without one.
     Start(Minted("alice", 3), TokenAccount("initialized", "alice", 2), NoTokenAccount,
           TokenAccount("initialized", "alice", 1), 2),
     \* A fixed supply; bob's account frozen, the vault another mint's.
     Start(Minted("none", 2), TokenAccount("initialized", "alice", 2),
           TokenAccount("frozen", "bob", 0), TokenAccount("foreign", "alice", 2), 1),
     \* bob gave his associated account away.
     Start(Minted("alice", 3), TokenAccount("initialized", "alice", 3),
           TokenAccount("initialized", "alice", 0), TokenAccount("initialized", "bob", 0), 3)}
=============================================================================
