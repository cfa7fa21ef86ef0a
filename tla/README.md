# A verification development for arch-kit

arch-kit is the command line client of the Arch Network: it generates keys,
deploys programs, publishes their IDL, creates and moves tokens and checks a
node's health. This directory models the parts of it whose correctness depends
on interleavings, failures, retries or on arithmetic at its limits, model-checks
them with TLC and proves the most important properties for every value of the
parameters with TLAPS.

Paths below are relative to the repository root under `src/` (so the crate's
`src/idl.rs` is `src/src/idl.rs`).

## Inventory

| Component | State | Operations | Interacts with | Hard behaviour | Correct when |
|---|---|---|---|---|---|
| IDL publication (`idl.rs`) | canonical IDL account on chain, three kinds of buffer accounts, locals of a run | `publish`: initialize, upgrade or skip, resize, upload, verify | chain (Satellite handlers), called by deploy | several transactions per run; overlapping runs; a run that dies while a transaction is in flight; late transactions | a published document stays decodable, is replaced only as a whole, capacity grows only on request, a success leaves the room that was asked for, every run ends |
| Vanity search (`vanity.rs`) | `found`, `attempts`, channel, threads | spawn, draw, claim, send, receive, join | called by keygen | simultaneous matches, a bounded channel, worker panics | one key, no blocked thread, exact count, run returns |
| Key files (`keys.rs`, `commands/keygen.rs`) | the key files | load, generate without replacing, load or generate | deploy, faucet, init, signers | two processes on one path, death between create and write, several outputs | a key is never replaced; who loads a path agrees with who wrote it |
| Deployment (`commands/deploy.rs`) | program account, authority balance | load keys, fund, assign, upload, publish | key files, faucet, SDK deployer, IDL publication | concurrent spender or funder, failure between steps, repeat after a failure | the funding loop ends after a bounded number of grants; a repeat succeeds unless the IDL's account is out of its reach; ELF and IDL match unless runs overlap |
| Transactions (`transaction.rs`) | transaction in flight | sign, send, wait | all token commands | lost answers, clients that stop with a transaction in flight | success is reported only for a processed transaction, a refusal only for one that never takes effect |
| Tokens (`token.rs`, `create_mint.rs`, `mint_tokens.rs`, `token_transfer.rs`, `transfer_arch.rs`) | mints, token accounts, balances | create, mint, transfer | transactions, signers | stale validation, one transaction per command | a command takes effect at most once, wholly or not at all and as requested; a fixed supply stays fixed; what was validated is accepted when nobody interferes |
| Amounts (`utils.rs`) | none | parse, format | token commands | u64 boundary, decimals | a text is read as the value it denotes or refused, parsing inverts formatting |
| Health (`client.rs`) | none | readiness, two samples | node | restart of the node between the samples | healthy only with progress |
| Signers (`arch_signer.rs`) | none | local signature, cosigner exchange | transactions | wrong or partial answers of the cosigner | a signature belongs to the key and message asked for |
| Project initialisation (`commands/init.rs`) | directory | name, check, create, render | key files | interruption between two files, two runs for one destination, any destination name | existing files are never touched, success means a whole project of one run, the crate gets a usable name |
| Token queries (`token.rs`, `token_accounts.rs`, `token_account.rs`, `token_balance.rs`) | none | read accounts, read their mints in batches, print | node, amounts | the accounts change between the requests; a batch boundary; short or empty answers | what is reported stood on the chain at one moment, complete, in the decimals of its own mint |
| Other queries, faucet, IDL build, encryption, argument parsing | none | one read or one request each | node | none | not modelled, see below |
| Workflows (`.github/workflows`) | release, its assets and notes | create, attach, skip, refuse, edit | GitHub | re-run and overlapping jobs, lost answers | published assets are never replaced and match, a re-run completes the release |

## Modules

| Module | Models | Extends |
|---|---|---|
| `IdlPublish` | `src/src/idl.rs` | |
| `MCIdlPublish` | small instances of it | `IdlPublish` |
| `IdlPublishProofs` | theorems about it | `IdlPublish` |
| `VanitySearch` | `src/src/vanity.rs` | |
| `MCVanitySearch` | small instances of it | `VanitySearch` |
| `VanitySearchProofs` | theorems about it | `VanitySearch` |
| `KeyFiles` | `src/src/keys.rs`, `src/src/commands/keygen.rs` | |
| `MCKeyFiles` | small instances of it | `KeyFiles` |
| `KeyFilesProofs` | theorems about it | `KeyFiles` |
| `Deploy` | `src/src/commands/deploy.rs` | |
| `MCDeploy` | small instances of it | `Deploy` |
| `DeployProofs` | theorems about it | `Deploy` |
| `Ledger` | the mint, token accounts and ARCH balances the wallet commands touch, and the handlers of their instructions (external) | |
| `WalletPromise` | what the wallet commands promise, without reads, signatures and transactions | `Ledger` |
| `Wallet` | `create_mint.rs`, `mint_tokens.rs`, `token_transfer.rs`, `transfer_arch.rs`, `token.rs`, `arch_signer.rs`, `transaction.rs` | `Ledger`; instantiates `WalletPromise` |
| `MCWallet` | a small instance of it | `Wallet` |
| `WalletProofs` | theorems about it | `Wallet` |
| `Amounts` | `parse_amount` and `format_amount` of `utils.rs` | |
| `Holdings` | `list_token_accounts`, `read_token_account` and `read_associated_balance` of `token.rs`, which the token queries call | `Amounts` |
| `MCHoldings` | a small instance of both | `Holdings` |
| `HoldingsProofs` | theorems about both | `Holdings` |
| `ProjectInit` | `src/src/commands/init.rs`: what it does to the destination | |
| `ProjectNames` | `src/src/commands/init.rs`: the names it derives | |
| `MCProjectInit` | a small instance of both | `ProjectInit`, `ProjectNames` |
| `ProjectInitProofs` | theorems about both | `ProjectInit`, `ProjectNames` |
| `ReleaseAssets` | the release job of `.github/workflows/release-binary.yml` | |
| `MCReleaseAssets` | a small instance of it | `ReleaseAssets` |
| `ReleaseProofs` | theorems about it | `ReleaseAssets` |

Each component is a state machine of its own and abstracts the one it calls to
what it needs of it: `Deploy` takes the publication as far as two deployments can tell its
steps apart (read, create, write to the end, replace, verify) and key loading as an argument check (`Begin`), `KeyFiles` takes the vanity search as a
call that may fail (`SearchFails`), `Wallet` takes an amount as the number `Amounts`
says a text is read as, `ProjectInit` takes the program key as an argument that may
be refused. The composed part is the wallet: five commands, signers and
`transaction.rs` over one ledger, shown to implement `WalletPromise`; and the
queries, whose lines `Amounts` prints and reads back (`SessionSpec`).

### IdlPublish

A publisher is one execution of `publish`. `pc[p]` names the call it has
reached, `tx[p]` the state of the transaction of that call, `loc[p]` its
locals (the payload it read, `current_space`, `target_space`, the write
offset) and `status[p]` how it stands. `idl` is the canonical account and
`buf[p]` the buffers that run creates under fresh keys: `backup` and `empty`
for a resize, `upgrade` for a new document.

Every transaction takes three steps, as in `send`: `Submit` (signed and handed
to the node), `LandX` or `RejectTx` (the node executes all its instructions or
none) and `ConfirmX` (the client after `wait_for_processed_transaction`).
Between them every other run may act. `Stop` lets a client die or give up at
any step; its transaction stays in flight and may land at any later time.

| Code | Actions |
|---|---|
| `prepare_bytes` | `Begin` |
| `publish`, first read | `ReadMissing`, `RefuseExisting`, `PlanUpgrade` |
| `initialize` | `LandCreate`, then `LandGrow` and `LandWrite` in their loops |
| `prepare_resize_buffers` | `LandBackup`, `CheckBackup`, `LandEmpty` |
| `grow_account` with buffers | `LandSwap`: SetBuffer(empty), Resize, SetBuffer(backup) and, in the last turn, both Close instructions, in one transaction |
| read after the resize | `Reread` |
| upgrade | `LandBuffer`, `LandUpload`, `LandSet` |
| `verify_published` | `Verify` |
| loop conditions | `Due`, `LeaveLoop`; the counters advance in `ConfirmResize` and `ConfirmWrite` |

A document is the compressed form of an IDL; its byte `i` is `<<d, i>>`. A
payload inflates to `d` when it starts with all bytes of `d` (zlib stops at the
end of its stream), which is what makes appended leftovers and mixtures
visible. `Decoded` gives the normalised IDL of a document: two documents may decode to the
same one, because the account may have been written by a tool that compresses otherwise.
The comparisons of `upgrade_or_skip` and `verify_published` are of decoded IDLs
(`Holds`), so a run may find its IDL unchanged in an account that its own
compressed form does not fit. The Satellite handlers are not in the repository: `Room`, `Fresh`,
`Owned`, `Appended` and `Accepts` model them as `idl.rs` uses them and as the
replay in `idl_tests.rs` does; the map marks them external.

### VanitySearch

One state per statement of `search_worker` that touches shared state, one per
step of `run`. A key is abstracted to whether it matches and a candidate to
the worker that found it; `tries` counts the keys really drawn, which nothing
in the program does, so that the reported number can be compared with it.

### KeyFiles

A process is one execution of `keygen`, of a command that loads keys, or of one that
generates missing keys (`deploy --generate-if-missing`). `idx[p]` is the
position of the path it works on and `held[p]` the keys it has so far. A key
is known by the process that generated it, a file by its state (`torn`
between `create_new` and `write_all`) and its maker.

| Code | Actions |
|---|---|
| `preflight_paths` | `Preflight`, one path per step |
| `VanitySearch::new`, `run` | `SearchFails` |
| `load_or_generate_key`, `symlink_metadata` | `Probe` |
| `load_existing_key`, `parse_secret_key` | `Load` |
| `persist_key_file` | `Create`, `Write`, `Sync`, `CreateFails`, `WriteFails` |
| death, failing stat or read | `Killed` |

### Deploy

A run is one execution of `deploy`. `prog` is the account at the program's
address, `elf` the run whose ELF is there, `balance` the authority's, counted in fees;
`idl` is the run whose IDL is published, or what else is at its address (`NoRun`): nothing,
an account that was created and not written to its end, another authority's, an earlier
whole one. `seen[r]` is the local `balance` of the funding loop, `inflight` the runs that
ended with a transaction on its way. `grants`, `calm` (no other run was active when the run
began and nobody has acted since) and `met` (the runs it has overlapped with) are history
variables no code has; a run is active until its last transaction is settled.

| Code | Actions |
|---|---|
| checks before the first request | `Begin` (a rejected argument ends the run here) |
| funding loop | `ReadBalance`, `Funded`, `Faucet`, `CheckFunded` |
| `path_string`, `prepare_program_account` | `ReadProgram` (here the same-key and path checks), `Assign`, `AssignFails`, `Reread` |
| `try_deploy_program` (external) | `SdkRead`, `SdkCreate`, `SdkUpload`, `SdkFails` |
| `idl::publish` | `ReadIdl` (which may refuse), `SendIdl`, `IdlFails`, `VerifyIdl`; every error is `IdlAfterDeployment` |
| failing requests, death | `Interrupted`, which leaves a transaction in flight that `LateLands` settles at any later time |

`Spend` and `SendToProgram` are other users of the chain. The SDK skips the
creation of an account that exists, as the comment at `deploy.rs:208-209` says;
this is what `prepare_program_account` is for. Of `idl::publish` the steps are kept that
another deployment can tell apart: the creation, the last write after it, the final
SetBuffer and the two reads. Whether a whole account is too small is a choice that only
`--allow-idl-resize` (`job[r].resize`) excludes. Each run deploys an ELF and an IDL of its
own. Rent and the fees of the publication are left aside; the latter are what the second
grant of the funding target is for (`deploy.rs:130-140`).

### Wallet

A command is one execution of `create-mint`, `mint-tokens`, `token-transfer`,
`token-transfer-to-account` or `transfer-arch`; all executions share `ledger`.
`signed[c]` are the signatures it has collected, `tx[c]` its transaction.
`calm` (nobody else has changed the ledger since the command began) and `turns`
are history variables.

| Code | Actions |
|---|---|
| argument checks: authority is not the mint, recipient is not the sender, amount plus fee | `Begin` (`LocalRefusal`) |
| `read_mint`, mint authority, `parse_amount` of zero | `ReadMint` |
| `read_token_account` of the source, ARCH source account | `ReadSource` |
| `read_token_account` of the destination | `ReadDestination` |
| `sign_transaction`, local keys | `SignLocally` |
| cosigner request and `verify_response` | `AskCosigner` |
| `send_transaction` | `Send` |
| `wait_for_processed_transaction`, status check | `Confirm` |
| failing requests, lost answers, death | `Stop` |
| execution of the transaction (external) | `Land`, `Reject` |

`Instructions` builds the transaction of each command as the code does, `Handle`
executes one instruction, `Executed` all or none. `Others` is what somebody else
may do between two steps: freeze or thaw an account, spend, revoke the mint
authority, open an associated account. A cosigner answers anything of
`Answers`: a signature of any key over any message, or none, with any key and
digest claimed.

`WalletPromise` has one step per command, `TakeEffect`, which changes the
ledger exactly as requested if `Permitted`; `Report` tells the user.
The refinement mapping takes `done` to "the transaction is processed" and
`report` to the status (`ReportOf`): an error before the transaction is sent and
a transaction the node rejected are refusals, a command that stopped is
"unknown". The ledger and the requests are mapped to themselves.

Abstractions: a message stands for the command that built it, amounts
are raw, the fees and the rent of the token commands, which no command checks,
are left out, and the resolution of a signer from a file or the environment is
too: an unusable one is refused before the first request. A command that stops before
it sends is reported as "unknown" as well, which promises less than the code does.
Two identical requests that read the same finalized block build the same message;
what the node does with the second transaction of one id is not in the repository
and is left out (see the hazards).

### Amounts

A text is a sequence of digits in radix `Base`, dots, spaces and other symbols.
`Parse`, `Show` and `Retype` run `parse_amount`, `format_amount` and hand the
printed text back. `ParseAmount` and `FormatAmount` follow the code digit by digit
(trim, split at the dot, fill up with zeros, check the bound; split, pop zeros,
pop the dot); `Value` reads digits as `str::parse` does, `Digits` writes a number by
repeated division. `Denotes` is the reference and follows no code: the sum of the digits
times the powers of their places.

### Holdings

`held` is what stands at each address, `found` the accounts a query has read and `known` the
decimals it has of each mint, `lines` what it reports. `then` (the chain when
the accounts were read) and `faulty` (a request failed or its answer left
something out) are history variables; the property compares `lines` with `then`.

| Code | Actions |
|---|---|
| `list_token_accounts`: `get_program_accounts` | `FetchAccounts` |
| one batch of mints, zipped with the answer | `FetchMints`, `Zipped`, `Inserted` |
| sort, look up the mint of each account | `Assemble` |
| `read_token_account` | `ReadAccount`, `ReadItsMint` |
| `read_associated_balance` | `ReadMint`, `ReadOwn` |
| `format_amount` of a line | `PrintLine`, from where `Amounts` goes on |

An answer to a batch is a sequence of what the node holds of its mints, in the order of the
batch; the loop pairs it with the addresses by position, so a wrong pairing would give a
mint the decimals of another. It may be short, or contain an account that is missing or is
no mint. `Stray` is an account that is no token account, such as one that ARCH was sent to:
`get_program_accounts` leaves it out, `decode_token_account` refuses it.
`OthersAct` opens, closes, fills and gives away accounts between the requests. A mint
account never disappears and never changes its decimals, so of the mints only the
decimals are kept. An answer of `get_program_accounts` that leaves accounts out cannot
be told from a complete one and is not modelled.

### ProjectInit


`tree` says what is at each path: nothing, a directory, or a file, of which run
and whether wholly written. `Template` is the order in which `render_directory`
visits the template. `Check` and `MakeRoot` are separate steps, because
`ensure_destination_is_available` and `create_dir_all` are separate calls; `OpenFile` and
`WriteFile` are the two halves of `write_new_file`. `OthersCreate` is another
program, `Clear` a user who removes what failed runs left.

### ProjectNames

`FromPath` derives the names of the package and the crate from the last component
of the destination: `Normalized` reads its characters as `normalized_package_name` does, then
come the hyphens, the digit in front and the keywords of `from_path`. `NamesAreUsable` says independently of
it where each letter and digit must stand: `Place` counts what is kept up to it and the
words begun. What runs do to the tree does not depend on the names, so `CommandSpec` derives them first, for every
destination, and forgets them (`Named`) before the tree changes; `NamesSpec` is the first half alone.

### ReleaseAssets

A job is one execution of the release job of one version; its build is the
package it attaches. One action per `gh` or `git` request, in the order of the
script: `CheckTag`, `View`, `CreateRelease`, `Download` and `Upload` for each of the
two files, `ReadBody`, `EditNotes`. A request that fails takes the branch
the script gives it (`RequestFails`: a failed look reads as "no release"); after
`AnswerLost` the job has failed but GitHub has done what it asked.
Left out: a tag somebody else pushes between the check and the creation, and an
upload that is attached in part.

## Runs

| Run | Instance | Shows |
|---|---|---|
| `idl_rivals` | two overlapping runs of two authorities, transactions that fail, clients that stop, fairness | `NeverMixed`, `SuccessClosesResizeBuffers`, `SuccessEndures`, `PublishedStaysWhole`, `GrowthIsOptIn`, `EveryRunEnds` |
| `idl_serial` | three runs one after the other, failing transactions | `UndisturbedRunSucceeds`, `OnlySetReplaces`, `ResizeRestoresOriginal` |
| `idl_late_resize` (violation) | runs one after the other, clients that stop | the late resize of an abandoned run undoes a later publication |
| `idl_interrupted` (violation) | runs one after the other, clients that stop | an interrupted initialisation blocks every later run |
| `vanity` | three workers, panics, fairness | `OneWinner`, `SenderNeverWaits`, `NeverEmptyHanded`, `AttemptsExact`, `SearchEnds` |
| `key_files` | three processes, two paths, any job, failing writes, processes killed | `NeverReplaced`, `HeldIsStored`, `KeygenDelivers`, `ClashIsRival`, `TornIsAccounted` |
| `deploy` | two runs, overlapping or not, interruptions, late transactions, spenders, senders | `GrantsBounded`, `UndisturbedDeploySucceeds`, `MismatchIsOverlap` |
| `deploy_live` | two overlapping runs that fund one authority, a spender, fairness | `EveryRunEnds` |
| `wallet` | two commands of any kind over six initial ledgers, a cosigner that answers anything, other users, failing transactions, clients that stop | `SentIsSigned`, `FixedSupplySealed`, `ValidatedIsAccepted`, `ImplementsPromise` |
| `amounts` | every text of at most five symbols and every amount, for five numbers of decimals; seven queries over four initial chains, other users, failing requests, short answers and answers that cannot be decoded | `ParsedIsDenoted`, `ShownIsRead`, `ReportIsSnapshot` |
| `project_init` | every destination of at most five characters; three runs for one destination, failing writes, kills, other programs, a user who clears | `NamesAreUsable`, `SuccessIsWhole`, `OneMaker`, `SomebodyWins`, `NeverReplaced` |
| `release_assets` | three jobs, two builds, re-run or overlapping, failing requests, lost answers, cancellation | `AssetsMatch`, `SuccessIsComplete`, `RerunSucceeds`, `AssetsNeverReplaced` |

The type invariants and the inductive invariants of the modules with a proof
module were checked with TLC before they were proved; they are theorems now
and no run repeats them.

Bounds. For `IdlPublish` the header is 1 byte, a resize adds at most 2, a
write carries at most 2, the default account has 3 and existing accounts have
2 or 5 bytes of capacity. Document `a` (1 byte) fits every account exactly or
with room; `b` (4 bytes) takes two writes and does not fit an account of 2 or
the default one; a request of 7 takes three resizes from 2, one from 5, and 3
is too small for `b`. Document `c` (1 byte) is another compression of the IDL in `b`, which an
earlier publication may have left: it fits where `b` does not. So every loop runs zero, one and several times and every
comparison is met with equality. Two runs suffice for a disturbance, a third
one (in turn) for what a run leaves to the next but one. For
`VanitySearch` three workers give a winner, a loser of the same match and a
bystander; a batch of 2 with 3 draws (`MaxTries`) crosses the batch boundary.
For `KeyFiles` two paths and jobs of one and two paths (in both
orders, and one path twice) cover a partial keygen, a duplicate destination
and a file taken between the preflight and the creation; the third process
loads what the other two fight for. For `Deploy` a deployment costs 3 fees, the target
is 3 and the faucet gives 2 (`deploy`), or the target is 4 and it gives 1 (`deploy_live`), so that the loop
runs zero, one and several times and the spender can undo a grant exactly or in part; `MaxBalance` is the
target, and a grant beyond it is cut, which never turns a rise
into none because the loop only asks below the target. Two runs suffice for a
disturbance, for a repeat after it and for a transaction that lands after its run; what earlier
ones left at the program's and the IDL's address is in `Init`.
For `Wallet` the largest u64 is 5 and the fee 1, so that 5 plus the fee
overflows, 3 in supply plus two issues of 2 meets the limit and passes it, and a source of 2 or 3
is enough for one transfer and not for two. Every request comes in an
acceptable and a refused form, a create-mint with and without a fixed supply;
the ledgers hold no mint, a foreign or half-made account at its address, a mint
with and without authority, missing, frozen, foreign and given-away accounts. Two
commands suffice for a stale validation; others act once (`MaxTurns`), between
any two steps. One user's key and the mint's sign by cosigner. For `Amounts` radix 3 and a
largest amount of 100 give texts of up to five symbols that are below, at and beyond
it; the scales 0 to 6 are below, at and above the digits of a text and of an
amount. For `Holdings` three mints are fetched two at a time, so that an owner needs no
batch, one full or short batch, or two; the chains have no, some and all accounts in use,
of both owners, and addresses without a token account; others act twice, which is enough to change an account and change it
back. For `ProjectNames` the characters are a keyword's two letters, a capital, a digit, a
hyphen and a space: words, gaps and a digit at either end and in between, keywords in
both cases. For `ProjectInit` the template has one directory of two files and a file
of its own, the shape of `templates/simple_program` with one of its files at the root; three runs give a winner, a loser and a run
after both. For `ReleaseAssets` three jobs cover a job, its overlapping
rival and a re-run after both, and two builds are the same and another package.
Runs, commands, jobs and threads stop by themselves, so deadlock is not checked;
`EveryRunEnds` and `SearchEnds` say instead that nothing gets stuck.

Fairness. `FairSpec` of `IdlPublish` assumes that a client process keeps
executing (weak fairness on its steps) and that the node eventually settles
what it was sent, as `wait_for_processed_transaction` assumes; it does not
assume that a transaction succeeds, nor that a client never stops. `FairSpec`
of `VanitySearch` assumes that threads are scheduled; it does not assume that
a worker ever finds a match, and a panic is never owed. `FairSpec` of `Deploy`
assumes that a run keeps executing and its requests are answered; nobody has
to stop spending.

Each property has a mutant: a definition changed the way a plausible bug would
(a buffer closed one turn late, the restore left to a later transaction, a
skipped byte between chunks, a load and store in place of the
compare-and-exchange), under which TLC finds the property violated. The
mutated forms stand next to the definitions they change.

## Findings

1. A resize restores a snapshot that was taken before its first transaction.
   When a resize transaction of an abandoned run lands late (`idl_late_resize`), it
   replaces a newer published document by the older one; two overlapping runs reach
   the same state without any fault. The comment in `grow_account` promises that every
   committed state has the original IDL; that holds when runs neither overlap nor are
   abandoned (`idl_serial`).
2. A run interrupted during `initialize` leaves an account that does not
   decode, and `upgrade_or_skip` fails for every later run before it
   considers a repair (`idl_interrupted`), although the README says that reusing the keys
   updates the deployment. In `Deploy` this is why an undisturbed deployment may end in
   `IdlAfterDeployment` (`IdlBlocked`), and stay so.

What still holds in all these cases is `PublishedStaysWhole`: a decodable
account stays decodable.

## Proofs

`IdlPublishProofs`, for any sets of publishers, documents, authorities and
jobs, any document sizes and any positive header, increment and write size
with `Increment >= HeaderLen` (`ConstantsAssumption`), with or without overlap
and faults:

- `TypeCorrect`: `Spec => []TypeOK`.
- `Inductive`: `Spec => []IInv`. `NeverMixed` and `PublishedStaysWhole` are not
  inductive alone. `IInv` adds why they hold: at most one run is filling the
  account (`OneFiller`), what it has written is all there is (`FillingInv`), everybody else
  who may still touch the account found it whole (`UpdatingInv`), the buffers
  a transaction copies from hold nothing, a whole document or the part
  uploaded so far (`BufferInv`), and offsets stay inside the document
  (`OffsetInv`). The proof has one step per action.
- `PayloadNeverMixed`, `PublishedForGood`: `[]NeverMixed` and
  `PublishedStaysWhole`, from `Inductive`.

Also in `IdlPublishProofs`, under the same assumptions, about what a run leaves behind:

- `LeavesInductive`: `Spec => []LeavesInv`, which says what a run has established
  at each of its steps and others cannot undo. `AccountInv`: the account has room for its
  payload. `CapacityInv`: a lower bound of its capacity, from the transaction that created
  it over each turn of the growth loop to the end. `ResizeInv`: a run on the resize path
  was given `--allow-idl-resize`, and its buffers are closed when the last turn of the loop
  has landed. `DoneInv`: a run that reported success found the account decodable.
- `SuccessForGood` (`SuccessEndures`) and `SuccessCloses` (`SuccessClosesResizeBuffers`)
  follow; neither is inductive alone, because success is reported many steps after the
  transaction that earned it. `GrowthNeedsConsent` (`GrowthIsOptIn`) uses `ResizeInv`
  for transactions that land after their run has ended.

And for runs that take turns (`Overlap` false and no `"client_stops"`, both conditions of
the theorems, under which the run `idl_serial` checks the properties):

- `SerialInductive`: `Spec => []SerialInv`. `TakeTurns`: while a run is at work the others
  have not begun, or have ended without a transaction in flight. So what the run has
  read stays true, and `TurnInv` says what it is at each step: that a creator's account
  holds what has been written of its document (`CreatorKnows`), that during a resize the backup holds the published
  document and the account itself or nothing but the swap's two halves (`ResizerKnows`,
  `BackupReady`), that the upload buffer holds what has been uploaded (`UploaderKnows`), and
  that the space is the one the loop counted on (`LandedSpace`). `CalmInv`: when no
  transaction has failed in an earlier turn, every run that ended reported success or was
  refused for its arguments (`OwedStays`), and between turns a live account holds a whole document.
- `SerialRunsSucceed` (`UndisturbedRunSucceeds`): every transaction of such a run passes the
  handler's checks (`SerialAccepts`). `SerialResizeRestores` (`ResizeRestoresOriginal`) and
  `SerialSetReplaces` (`OnlySetReplaces`) are proved step by step from the same invariant.

`VanitySearchProofs`: `TypeCorrect`; `SearchInductive` (`SearchInv`: `found`
has a winner until the main thread stops, a candidate is in the channel or
received exactly when its worker has sent it, giving up means a panic); from it
`OneWinnerHolds`, `SenderNeverWaitsHolds` and `NeverEmptyHandedHolds`.
`CounterInductive` (`AttemptsInv`: the counter is the sum of what each worker has counted,
a worker that still runs has drawn only its pending keys more, and one that has ended
normally has flushed them); from it
`AttemptsAlwaysExact`. The sum is `MapThenSumSet` of the community modules. Its
recursion is unfolded in `Summation`, `SumExists` and `SumUnfolds`, and that a sum changes with one of its terms
(`SumChanges`) is shown by taking a minimal set for which it fails, since a set of workers
is finite (`WorkersAssumption`): the program starts a fixed number of threads.

`KeyFilesProofs`, for any set of processes and paths and any jobs: `TypeCorrect`;
`Inductive` (`FilesInv`: a process that writes owns the file it is filling,
and holds as many keys as it has done paths, besides `HeldIsStored` itself,
which is not inductive without them); `HeldStaysStored` and `ExistingEndures`
(`NeverReplaced`) follow; `TornStaysAccounted`, from `FilesInv` step by step.
`KeygenInductive` (`KeygensInv`: once its preflight has passed, no destination of a keygen
holds an earlier file and none is named twice, and the files it has made are those it
holds and the one it is working on); `KeygenAlwaysDelivers` and `ClashIsAlwaysRival` follow.

`DeployProofs`, for any runs and jobs, any grant and any target of at least
the cost of a deployment: `TypeCorrect`; `FundingCounted` (`FundingInv`: the
balance a run has seen is at least the number of its faucet calls, whatever
others do between a call and the read); `FaucetCallsBounded` follows, since
the loop asks only below the target. `OverlapInductive` (`OverlapInv`): a run has met every run
that is active beside it (`MetInv`), and a run that may still write the IDL has, unless it
was met, replaced the ELF of those that succeeded before it (`PublishingInv`), because
`SdkUpload` comes before the publication; `MismatchAlwaysOverlap` (`MismatchIsOverlap`) follows.
`CalmInductive` (`CalmInv`): a calm run in progress is the only active one (`AloneInv`), so
what it has seen of the balance, of the program's account and of the IDL's is still so and the
authority can pay for the calls that are left (`ReadyInv`); and what blocked the IDL of one
that ended is still in the way (`StuckInv`, `BlockedStays`: nobody completes or removes an
account that is another's or unfinished). `UndisturbedAlwaysDeploys` follows.

`WalletProofs`, for any number of commands, any keys, accounts and initial
ledgers, any requests that satisfy `RequestsAssumption`, any cosigners and any
behaviour of the other users:

- `TypeCorrect`: in particular no balance and no supply is ever negative.
- `Inductive`: `Spec => []WalletInv`. A command's part of it, `CommandInv`, says what has been
  checked at each step (`RunningInv`: a request is `Sound` once its command has reached
  the signatures), that the signatures collected so far are the right ones
  (`PartlySigned`), and how the status and the transaction belong together (a refusal has no
  transaction in flight, "ok" a processed one).
- `LandsAsIntended`: a transaction of a `Sound`, well-signed command that the
  chain executes is `Permitted` and yields exactly `Intended`. The argument
  goes through the instructions of each command one by one (`ExecutedOne`,
  `ExecutedTwo`, `ExecutedFour`; the five of a `create-mint` with a fixed supply directly): what the handlers demand together is what the promise demands,
  and their effects compose to the one requested.
- `SignedHolds`: `SentIsSigned`, from `Inductive`.
- `SealedHolds`: `FixedSupplySealed`: no step of a command or of anybody else
  changes a mint without an authority, and a processed create-mint with a fixed supply
  has left one.
- `Refines`: `Spec => Promise!Spec`. `Land` is `TakeEffect` by `LandsAsIntended`;
  `Confirm`, `Stop` and the refusing branches are `Report`, truthful because of
  `WalletInv`; `OthersStep` is `OthersAct`; all other steps stutter.
- `ChecksInductive`: `Spec => []ChecksInv`: while nobody else has changed the ledger since
  a command began, every check it has made would be passed again, until its own
  transaction is processed. `ValidatedAlwaysAccepted` (`ValidatedIsAccepted`) follows: the checks
  of each command cover what the handlers of its instructions ask, one after the other,
  except for what no command reads (`Unforeseen`).

`ProjectInitProofs`, for any number of runs and any template whose directories
have each entry once (`EntriesAssumption`: the template is a directory tree embedded at
compile time) and that has a file (`TemplateAssumption`). `TemplateOrder` proves from the definition of
`FlattenSeq` that the template has every file once and behind its directory, by
induction over the directories (a minimal counterexample, `BlockAdds` for the step).

- `Invariant`: `Spec => []InitInv`. `PlaceInv` says where in the template a run
  stands, `WorkInv` that what it has passed is its own and whole, and
  `FirstDecides` that whoever owns a file of the destination owns the first one of
  the template: this is why two runs that both found the destination absent
  cannot both contribute, and why `OneMaker` is not inductive alone.
- `TypeCorrect`, `SuccessAlwaysWhole`, `AlwaysOneMaker`, `NothingReplaced` follow.
- `WinInductive`: `Spec => []WinInv`. While nothing else interferes the first file of the template
  belongs to a run that has not failed, or a run that will create it is on its way (`Hope`).
  Such a run cannot fail (`OpenSucceeds`): the directories it passed are there
  (`EnteredInv`) and, by `TemplateOrder`, include the one it needs; a file in its way would be its
  own (`FirstDecides`), hence one it has passed (`OwnsInv`), and the template has no file twice.
  `SomebodyAlwaysWins` (`SomebodyWins`) follows.

And for any alphabet, prefix, keywords and destinations with what `NamesAssumption` says of
them (the kinds of characters are disjoint, no keyword begins with `arch_`):

- `NamesInductive` and `NamesAlwaysUsable`: `NamesSpec => []NamesAreUsable`. `ReadInv` says
  what has been written after each character: everything kept so far is at its `Place`, the gap is
  open exactly behind a separator, and no hyphen is at an end or beside another
  (`ReadStep`, by induction in `NormalizedKeeps`). `NormalizedStays` is the second induction: a name of this
  form is read back as itself. `CrateIsIdentifier` covers the digit, the keywords and the prefix. `Reaches`
  is the induction both use, over the numbers up to a length.

`ReleaseProofs`, for any number of jobs, builds and files and any faults:

- `TypeCorrect`, and `Invariant`: `Spec => []ReleaseInv`. `AttachedInv`: the first
  file decides which build the release belongs to, because the loop attaches it first and
  every job compares it before it attaches the next; `JobInv`: what a job has
  done so far; `Distinct`: no checksum is twice in the notes, although two jobs may read
  them at once; `AloneInv`: what a job that runs alone has seen is still so.
- `AssetsAlwaysMatch`, `SuccessAlwaysComplete`, `RerunAlwaysSucceeds` and
  `AssetsStay` (`AssetsNeverReplaced`) follow.

`HoldingsProofs`, for any accounts, mints, decimals, owners, batch size, queries and
faults, and any number of turns of others (`MaxTurns`):

- `SessionInvariant`: `SessionSpec => []QueryInv`. `FoundInv`: what a query has in hand is what stood on the chain
  when it read the accounts, whatever has changed since, and after any number of batches
  every mint before the next batch is known unless an answer left one out (`BatchReaches`:
  the batches leave no gap), and every mint known has its own decimals (`AnswerInserted`). `InOrderFacts` and `InOrderLists` show that `InOrder` enumerates a
  set once and in order, by counting places.
- `ReportAlwaysSnapshot` (`ReportIsSnapshot`) follows, with `AllKnown` (a report fails for a
  missing mint only after an incomplete answer) and `ListIsAnswer`.

And for any radix, largest amount, decimals and texts of symbols (`AmountsAssumption`,
`TextsAssumption`):

- `TextsInvariant`: `SessionSpec => []TextsInv`: what was read is what `ParseAmount` makes of the
  text, what is printed is what `FormatAmount` makes of the amount, and the amounts that a query
  hands over to be printed are u64s (`LinesType`, from `QueryInv`). What the two operators
  compute is then a question of their definitions:
- `ParsedAlwaysDenoted` (`ParsedIsDenoted`). `FormFacts`: `parse_amount` refuses a text for its form
  exactly if it is no amount. `DenotesRaw`: the digits with the zeros that fill up the
  decimals are worth what the text denotes, an induction over the places in which
  the sum and the reading of a beginning differ by a power of the radix (`PowerFacts`).
- `ShownAlwaysRead` (`ShownIsRead`). `DigitsFacts`: the digits written of a number are worth the number and
  do not begin with 0. `FormatFacts` says what is printed in terms of them (`Prints`), `PrintsRaw` that
  `parse_amount` sees the same digits again. `PrintsShortest`: two texts of one value agree from the
  end on (`SameEnding`), so one that was shorter would lack a digit that is not 0.

Only model-checked: the liveness properties (`EveryRunEnds`, `SearchEnds`), since
the prover has no liveness under fairness. Every invariant and action property of a
passing run is a theorem. The installed provers cannot instantiate an induction theorem
and know nothing of `^`; where a proof needed induction over a template, a set of workers, a list, a
number or a text, it was done by hand with a minimal counterexample (`WFMin`, and `Reaches` for the numbers
up to a length), and a recursive function was shown to exist before its equations were used
(`ReadingExists`, `WritingExists`, `PowerExists`, `SumExists`).

## Plan

Done: IDL publication, vanity search, key files, deployment, the wallet commands
with their refinement, amounts and the token queries, project initialisation and
the release job with their proofs.

Left:

1. An abstract register that holds the published document, and `IdlPublish`
   without overlap as an implementation of it (refinement mapping: the document
   the canonical account decodes to).

## Observations

Two arguments are refused only after the faucet has been used: one key for
program and authority (`deploy.rs:218`) and an ELF path that is not UTF-8
(`deploy.rs:162`). They are `LateRejections` of `Deploy`. No document promises otherwise.
Deployments that overlap may leave the ELF of one with the IDL of the other, and a run that
ended with its SetBuffer in flight overlaps with those that begin before it lands:
`MismatchIsOverlap` says that nothing else does. The deployment workflows run `arch-kit deploy`
without a concurrency group, so this is a state they can reach. No document promises otherwise.

When one worker of the vanity search panics, `run` reports the panic even if another has found a
key and the key was received (`vanity.rs:120`). No document promises the key.

A release job that created the release, wrote its checksum into the notes and
failed before it attached a file leaves that checksum behind when a later
build attaches other bytes. `SuccessIsComplete` therefore speaks of the job's own
checksum and not of the whole text; no document promises more.

A destination such as `123` gives the package the name `123`, which starts with a digit;
only the crate gets the prefix `arch_`. `NamesAreUsable` asks for an identifier of the
crate alone, as the code does. Cargo, which is not in the repository, has its own rules
for packages.

## Not modelled

- The queries `pubkey`, `ata`, `arch-balance` and `mint-info` derive an address or read once
  and print.
- Node health (`client.rs`) compares two samples of one counter once; it keeps no
  state, and a property of it could only repeat the comparison.
- The `faucet` command is one SDK call and one read; its loop form, the
  funding of a deployment, is in `Deploy`.
- `build-idl` runs an external tool and writes its output.
- `encryption.rs` is one request and cryptography.
- Argument parsing, network tables and error texts carry no state; what an
  argument check refuses is in the action that begins a command.
- `test_rpc.rs` is a scripted server for tests.
- Of the workflows, building and publishing the crate is left to cargo and
  crates.io, and the deployment workflow to `Deploy` and `IdlPublish`.
- JSON normalisation and zlib are abstracted to documents, their byte sequences and the IDL each
  decodes to, public keys and signatures to model values.
