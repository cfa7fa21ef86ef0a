------------------------------- MODULE Deploy -------------------------------
(***************************************************************************)
(* The deploy command (src/src/commands/deploy.rs) after its local checks: *)
(* the faucet loop for the authority, the assignment of a program account  *)
(* that was funded before it was deployed, the upload by the SDK and the   *)
(* publication of the IDL.  Other runs, transactions of runs that ended,   *)
(* other users of the authority and whoever sends ARCH to the program's    *)
(* address act in between.                                                 *)
(*                                                                         *)
(* Abstracted data: lamports are counted in transaction fees; an ELF and   *)
(* an IDL are the run that deploys them, each run having its own; what     *)
(* idl::publish does between its calls is in IdlPublish.  The SDK, the     *)
(* runtime and the faucet are not in the repository and modelled as        *)
(* deploy.rs uses them.                                                    *)
(***************************************************************************)
EXTENDS Integers

CONSTANTS
    Runs,         \* executions of the deploy command
    Jobs,         \* what a run may be asked to do
    Target,       \* the funding target, in fees
    Grant,        \* what one faucet call adds
    MaxBalance,   \* bound: what the authority holds at most
    Faults        \* which of "run_fails", "spent" and "sent" can happen

\* Fees of a deployment, rent left aside: two signatures to create or to assign, one to upload.
Cost == 3
Rejections == {"mismatch", "no_elf", "bad_key", "bad_idl"}
\* Refused only after the authority has been funded.
LateRejections == {"same_key", "elf_path"}

\* What else may be at the IDL's address: nothing, an account of ours that was
\* created and not written to its end, another authority's, or a whole IDL.
NoRun == {"missing", "partial", "foreign", "earlier"}

ASSUME RunsAssumption == Runs \cap (NoRun \cup {"nobody"}) = {}
ASSUME JobsAssumption ==
    Jobs \subseteq [reject : {"none"} \cup Rejections, fund : BOOLEAN,
                    idl : BOOLEAN, resize : BOOLEAN,
                    late : {"none"} \cup LateRejections]
ASSUME FundsAssumption ==
    /\ Target \in Nat /\ Grant \in Nat \ {0} /\ MaxBalance \in Nat
    /\ Target >= Cost /\ Target <= MaxBalance

VARIABLES
    prog,      \* the account at the program's address
    elf,       \* the run whose ELF is deployed there
    idl,       \* the run whose IDL is published, or one of NoRun
    balance,   \* of the authority
    pc,        \* the call each run has reached
    status,    \* how each run stands: "idle", "running", "ok" or its error
    job,       \* the arguments of each run
    inflight,  \* the runs that ended with a transaction on its way
    seen,      \* the local `balance` of the funding loop
    grants,    \* history: faucet calls of each run, counted up to Target + 1
    calm,      \* history: no other run was active when it began, and nothing but
               \* the run itself has acted while it was in progress
    met        \* history: the runs that were active while it was in progress

vars == <<prog, elf, idl, balance, pc, status, job, inflight, seen, grants, calm, met>>
chain == <<prog, elf, idl, balance>>
\* What only the beginning and the end of a run change.
fixed == <<job, inflight, met>>

\* "system" is an empty account of the System program, "loader" one the loader
\* owns without a program in it, "foreign" any other account without one.
Owners == {"missing", "system", "loader", "program", "foreign"}
Exists == prog # "missing"
IdlSteps == {"publish", "init", "write", "set", "verify"}
Steps == {"start", "balance", "fund", "faucet", "account", "assign", "assigned",
          "deploy", "create", "upload"} \cup IdlSteps
Errors == Rejections \cup LateRejections \cup
    {"not_funded", "wrong_account", "not_assigned", "deploy_failed", "idl_failed", "failed"}

Init ==
    /\ prog \in {"missing", "system", "program", "foreign"}
    /\ balance \in 0..MaxBalance
    /\ elf = "nobody"
    /\ idl \in IF prog = "program" THEN NoRun ELSE {"missing"}
    /\ job \in [Runs -> Jobs]
    /\ pc = [r \in Runs |-> "start"]
    /\ status = [r \in Runs |-> "idle"]
    /\ seen = [r \in Runs |-> 0]
    /\ grants = [r \in Runs |-> 0]
    /\ inflight = {}
    /\ calm = [r \in Runs |-> TRUE]
    /\ met = [r \in Runs |-> {}]

\* A run in progress, or one whose last transaction may still execute.
Active(r) == status[r] = "running" \/ r \in inflight
At(r, step) == status[r] = "running" /\ pc[r] = step
\* Whoever acts disturbs every other run in progress.
Disturbs(r) == calm' = [q \in Runs |-> calm[q] /\ (q = r \/ status[q] # "running")]
Goto(r, step) == pc' = [pc EXCEPT ![r] = step] /\ UNCHANGED status /\ Disturbs(r)
End(r, how) == status' = [status EXCEPT ![r] = how] /\ UNCHANGED pc /\ Disturbs(r)

\* Transactions, whether or not their sender still waits for them.
Pays(n) == balance >= n /\ balance' = balance - n
Granted ==
    /\ balance' = IF balance + Grant <= MaxBalance THEN balance + Grant ELSE MaxBalance
    /\ UNCHANGED <<prog, elf, idl>>
Assigned == prog = "system" /\ Pays(2) /\ prog' = "loader" /\ UNCHANGED <<elf, idl>>
Created == ~Exists /\ Pays(2) /\ prog' = "loader" /\ UNCHANGED <<elf, idl>>
Uploadable == prog \in {"loader", "program"}
Uploaded(r) ==
    /\ Uploadable /\ Pays(1)
    /\ prog' = "program" /\ elf' = r /\ UNCHANGED idl
\* The loader's account is left without a program.
CutShort ==
    /\ Uploadable
    /\ prog' = "loader" /\ elf' = "nobody" /\ UNCHANGED <<idl, balance>>

\* An account that publish can update, and the accounts each of its calls needs.
IdlWhole == idl \in Runs \cup {"earlier"}
IdlAccepts(step) ==
    /\ prog = "program"
    /\ CASE step = "init"  -> idl = "missing"
         [] step = "write" -> idl = "partial"
         [] step = "set"   -> IdlWhole
IdlLands(r) ==
    /\ IdlAccepts(pc[r])
    /\ idl' = IF pc[r] = "init" THEN "partial" ELSE r
    /\ UNCHANGED <<prog, elf, balance>>

Begin(r) ==
    /\ status[r] = "idle"
    /\ pc' = [pc EXCEPT ![r] = IF job[r].fund THEN "balance" ELSE "account"]
    /\ status' = [status EXCEPT ![r] =
                    IF job[r].reject = "none" THEN "running" ELSE job[r].reject]
    /\ calm' = [q \in Runs |-> IF q = r THEN \A p \in Runs : ~Active(p)
                              ELSE calm[q] /\ status[q] # "running"]
    /\ met' = [q \in Runs |-> IF q = r THEN {p \in Runs : Active(p)}
                             ELSE IF status[q] = "running" THEN met[q] \cup {r}
                             ELSE met[q]]
    /\ UNCHANGED <<chain, job, inflight, seen, grants>>

-----------------------------------------------------------------------------
(* --fund-authority                                                        *)

ReadBalance(r) ==
    /\ At(r, "balance")
    /\ seen' = [seen EXCEPT ![r] = balance]
    /\ Goto(r, "fund")
    /\ UNCHANGED <<chain, fixed, grants>>

Reached(r) == seen[r] >= Target

Funded(r) ==
    /\ At(r, "fund") /\ Reached(r)
    /\ Goto(r, "account")
    /\ UNCHANGED <<chain, fixed, seen, grants>>

Faucet(r) ==
    /\ At(r, "fund") /\ ~Reached(r)
    /\ Granted
    /\ grants' = [grants EXCEPT ![r] = IF @ <= Target THEN @ + 1 ELSE @]
    /\ Goto(r, "faucet")
    /\ UNCHANGED <<fixed, seen>>

\* Mutant: only a lower balance ends the loop.
FellSince(r) == balance < seen[r]
\* funded <= balance: somebody spends as fast as the faucet gives.
DidNotIncrease(r) == balance <= seen[r]

Remembered(r) == balance

CheckFunded(r) ==
    /\ At(r, "faucet")
    /\ IF DidNotIncrease(r)
       THEN End(r, "not_funded") /\ UNCHANGED seen
       ELSE seen' = [seen EXCEPT ![r] = Remembered(r)] /\ Goto(r, "fund")
    /\ UNCHANGED <<chain, fixed, grants>>

-----------------------------------------------------------------------------
(* prepare_program_account                                                 *)

\* Mutant: the account is left to the SDK.
NeverAssigns == FALSE
NeedsAssignment == prog = "system"

ReadProgram(r) ==
    /\ At(r, "account")
    /\ IF job[r].late # "none" THEN End(r, job[r].late)
       ELSE IF NeedsAssignment THEN Goto(r, "assign")
       ELSE IF prog = "foreign" THEN End(r, "wrong_account")
       ELSE Goto(r, "deploy")
    /\ UNCHANGED <<chain, fixed, seen, grants>>

\* The assignment is signed by the program key and paid by the authority.
Assign(r) ==
    /\ At(r, "assign")
    /\ Assigned
    /\ Goto(r, "assigned")
    /\ UNCHANGED <<fixed, seen, grants>>

AssignFails(r) ==
    /\ At(r, "assign")
    /\ prog # "system" \/ balance < 2
    /\ End(r, "failed")
    /\ UNCHANGED <<chain, fixed, seen, grants>>

Reread(r) ==
    /\ At(r, "assigned")
    /\ IF Uploadable THEN Goto(r, "deploy") ELSE End(r, "not_assigned")
    /\ UNCHANGED <<chain, fixed, seen, grants>>

-----------------------------------------------------------------------------
(* ProgramDeployer::try_deploy_program: "SDK 0.12.0 skips account creation  *)
(* whenever the program account exists, even when it is an empty System    *)
(* account".                                                               *)

SdkRead(r) ==
    /\ At(r, "deploy")
    /\ Goto(r, IF Exists THEN "upload" ELSE "create")
    /\ UNCHANGED <<chain, fixed, seen, grants>>

SdkCreate(r) ==
    /\ At(r, "create")
    /\ Created
    /\ Goto(r, "upload")
    /\ UNCHANGED <<fixed, seen, grants>>

\* Mutant: the IDL is only published when there is none.
PublishesFirst(r) == job[r].idl /\ idl = "missing"
Publishes(r) == job[r].idl

SdkUpload(r) ==
    /\ At(r, "upload")
    /\ Uploaded(r)
    /\ IF Publishes(r) THEN Goto(r, "publish") ELSE End(r, "ok")
    /\ UNCHANGED <<fixed, seen, grants>>

SdkFails(r) ==
    /\ \/ At(r, "create") /\ (Exists \/ balance < 2)
       \/ At(r, "upload") /\ (~Uploadable \/ balance < 1)
    /\ End(r, "deploy_failed")
    /\ UNCHANGED <<chain, fixed, seen, grants>>

-----------------------------------------------------------------------------
(* idl::publish: its first read, its transactions as far as other runs can *)
(* tell them apart, and its last read.  An error is IdlAfterDeployment: the *)
(* program stays deployed.                                                 *)

\* The account of another authority and one that was not written to its end are
\* refused, and so is a whole one that is too small, unless --allow-idl-resize.
ReadIdl(r) ==
    /\ At(r, "publish")
    /\ \/ idl = "missing" /\ Goto(r, "init")
       \/ IdlWhole /\ Goto(r, "set")
       \/ ~IdlWhole /\ idl # "missing" /\ End(r, "idl_failed")
       \/ IdlWhole /\ ~job[r].resize /\ End(r, "idl_failed")
    /\ UNCHANGED <<chain, fixed, seen, grants>>

\* Creation, the last Write after it, or the final SetBuffer.
SendIdl(r) ==
    /\ pc[r] \in {"init", "write", "set"} /\ At(r, pc[r])
    /\ IdlLands(r)
    /\ Goto(r, IF pc[r] = "init" THEN "write" ELSE "verify")
    /\ UNCHANGED <<fixed, seen, grants>>

IdlFails(r) ==
    /\ pc[r] \in {"init", "write", "set"} /\ At(r, pc[r])
    /\ ~IdlAccepts(pc[r])
    /\ End(r, "idl_failed")
    /\ UNCHANGED <<chain, fixed, seen, grants>>

VerifyIdl(r) ==
    /\ At(r, "verify")
    /\ End(r, IF idl = r THEN "ok" ELSE "idl_failed")
    /\ UNCHANGED <<chain, fixed, seen, grants>>

Client(r) ==
    \/ Begin(r) \/ ReadBalance(r) \/ Funded(r) \/ Faucet(r) \/ CheckFunded(r)
    \/ ReadProgram(r) \/ Assign(r) \/ AssignFails(r) \/ Reread(r)
    \/ SdkRead(r) \/ SdkCreate(r) \/ SdkUpload(r) \/ SdkFails(r)
    \/ ReadIdl(r) \/ SendIdl(r) \/ IdlFails(r) \/ VerifyIdl(r)

-----------------------------------------------------------------------------
(* What disturbs a run.                                                    *)

DisturbsAll == calm' = [q \in Runs |-> calm[q] /\ status[q] # "running"]

\* The call at pc[r] is a transaction.
Sends(r) ==
    \/ pc[r] = "fund" /\ ~Reached(r)
    \/ pc[r] \in {"assign", "create", "upload", "init", "write", "set"}

\* An RPC fails, a transaction is rejected, the SDK's patience ends or the client
\* is killed: a transaction it has sent is not called back.
Interrupted(r) ==
    /\ "run_fails" \in Faults
    /\ status[r] = "running"
    /\ status' = [status EXCEPT ![r] = IF pc[r] \in IdlSteps THEN "idl_failed" ELSE "failed"]
    /\ \/ UNCHANGED inflight
       \/ Sends(r) /\ inflight' = inflight \cup {r}
    /\ DisturbsAll
    /\ UNCHANGED <<chain, pc, job, seen, grants, met>>

LateEffect(r) ==
    \/ pc[r] = "fund" /\ Granted
    \/ pc[r] = "assign" /\ Assigned
    \/ pc[r] = "create" /\ Created
    \/ pc[r] = "upload" /\ (Uploaded(r) \/ CutShort)
    \/ pc[r] \in {"init", "write", "set"} /\ IdlLands(r)

\* The transaction of a run that has ended is settled: it executes, or it never will.
LateLands(r) ==
    /\ r \in inflight /\ inflight' = inflight \ {r}
    /\ LateEffect(r) \/ UNCHANGED chain
    /\ DisturbsAll
    /\ UNCHANGED <<pc, status, job, seen, grants, met>>

\* Another user of the authority pays with it.
Spend ==
    /\ "spent" \in Faults
    /\ balance > 0 /\ balance' \in 0..(balance - 1)
    /\ DisturbsAll
    /\ UNCHANGED <<prog, elf, idl, pc, status, fixed, seen, grants>>

\* Somebody transfers ARCH to the program's address.
SendToProgram ==
    /\ "sent" \in Faults
    /\ prog = "missing" /\ prog' = "system"
    /\ DisturbsAll
    /\ UNCHANGED <<elf, idl, balance, pc, status, fixed, seen, grants>>

Next ==
    \/ Spend \/ SendToProgram
    \/ \E r \in Runs : Client(r) \/ Interrupted(r) \/ LateLands(r)

\* A client process keeps executing; its RPCs are answered.
Fairness == \A r \in Runs : WF_vars(Client(r))

Spec == Init /\ [][Next]_vars
FairSpec == Spec /\ Fairness

-----------------------------------------------------------------------------
(* Every variable keeps its type.                                          *)
TypeOK ==
    /\ prog \in Owners
    /\ elf \in Runs \cup {"nobody"} /\ idl \in Runs \cup NoRun
    /\ balance \in 0..MaxBalance
    /\ pc \in [Runs -> Steps]
    /\ status \in [Runs -> {"idle", "running", "ok"} \cup Errors]
    /\ job \in [Runs -> Jobs]
    /\ seen \in [Runs -> 0..MaxBalance]
    /\ grants \in [Runs -> 0..(Target + 1)]
    /\ inflight \subseteq Runs
    /\ calm \in [Runs -> BOOLEAN]
    /\ met \in [Runs -> SUBSET Runs]

(* However fast others spend from the authority, a run calls the faucet at *)
(* most Target times: the balance it saw grows with every call.            *)
GrantsBounded == \A r \in Runs : grants[r] <= Target

\* What stands in the way of the IDL of a run that ended with IdlAfterDeployment:
\* another authority's account, one that was never written to its end, or the
\* size of an account the run was not allowed to resize.
IdlBlocked(r) ==
    job[r].idl /\ (idl \in {"foreign", "partial"} \/ (IdlWhole /\ ~job[r].resize))

(* A funded run that nothing else disturbs deploys, whatever rivals and    *)
(* transfers to the program's address left before it, unless the address   *)
(* belongs to another program; and it publishes its IDL unless the IDL's    *)
(* account is out of its reach, and stays so.                              *)
UndisturbedDeploySucceeds ==
    \A r \in Runs : calm[r] /\ job[r].fund =>
        \/ status[r] \in {"idle", "running", "ok", "wrong_account"}
                            \cup Rejections \cup LateRejections
        \/ status[r] = "idl_failed" /\ IdlBlocked(r)

(* While the ELF of a successful run is deployed, the published IDL is its  *)
(* own or that of a run it has met: a run in progress at the same time, or *)
(* one that had ended with a transaction on its way.                       *)
MismatchIsOverlap ==
    \A r \in Runs : status[r] = "ok" /\ job[r].idl /\ elf = r => idl \in {r} \cup met[r]

(* Every deployment ends: the funding loop does not wait for an authority  *)
(* that others keep empty.                                                 *)
EveryRunEnds == \A r \in Runs : status[r] = "running" ~> status[r] # "running"

-----------------------------------------------------------------------------
\* Why the faucet is called so seldom: the balance seen counts the calls.
FundingInv ==
    \A r \in Runs :
        /\ status[r] = "idle" => pc[r] = "start"
        /\ pc[r] \in {"start", "balance"} => grants[r] = 0
        /\ pc[r] = "fund" => grants[r] <= seen[r]
        /\ pc[r] = "faucet" => grants[r] <= seen[r] + 1 /\ seen[r] < Target
        /\ grants[r] <= Target
=============================================================================
