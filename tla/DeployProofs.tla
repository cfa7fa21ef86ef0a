---------------------------- MODULE DeployProofs ----------------------------
(***************************************************************************)
(* Deploy, proved for every set of runs and jobs, every funding target and *)
(* every faucet: the types, the bound on the calls of the faucet, when an  *)
(* ELF and an IDL of different runs can stand side by side, and what a run *)
(* that nothing disturbs achieves.                                         *)
(***************************************************************************)
EXTENDS Deploy, TLAPS

\* Control moves within its types.
LEMMA ControlType ==
    ASSUME TypeOK, NEW r \in Runs,
           \/ \E step \in Steps : Goto(r, step)
           \/ \E how \in {"ok"} \cup Errors : End(r, how)
    PROVE  /\ pc' \in [Runs -> Steps]
           /\ status' \in [Runs -> {"idle", "running", "ok"} \cup Errors]
           /\ calm' \in [Runs -> BOOLEAN]
<1>1. CASE \E step \in Steps : Goto(r, step)
  <2>1. PICK step \in Steps : Goto(r, step)
    BY <1>1
  <2>2. pc' = [pc EXCEPT ![r] = step] /\ status' = status
    BY <2>1 DEF Goto
  <2>3. calm' = [q \in Runs |-> calm[q] /\ (q = r \/ status[q] # "running")]
    BY <2>1 DEF Goto, Disturbs
  <2>4. calm' \in [Runs -> BOOLEAN]
    BY <2>3, Zenon
  <2> QED
    BY <2>2, <2>4 DEF TypeOK
<1>2. CASE \E how \in {"ok"} \cup Errors : End(r, how)
  <2>1. PICK how \in {"ok"} \cup Errors : End(r, how)
    BY <1>2
  <2>2. status' = [status EXCEPT ![r] = how] /\ pc' = pc
    BY <2>1 DEF End
  <2>3. calm' = [q \in Runs |-> calm[q] /\ (q = r \/ status[q] # "running")]
    BY <2>1 DEF End, Disturbs
  <2>4. calm' \in [Runs -> BOOLEAN]
    BY <2>3, Zenon
  <2> QED
    BY <2>2, <2>4 DEF TypeOK
<1> QED
  BY <1>1, <1>2

LEMMA InitType == Init => TypeOK
  BY JobsAssumption, FundsAssumption
  DEF Init, TypeOK, Owners, Steps, IdlSteps, NoRun

\* What a transaction makes of the chain, whoever still waits for it.
LEMMA ChainType ==
    ASSUME TypeOK, NEW r \in Runs,
           \/ Granted \/ Assigned \/ Created \/ Uploaded(r) \/ CutShort \/ IdlLands(r)
           \/ UNCHANGED chain
    PROVE  /\ prog' \in Owners
           /\ elf' \in Runs \cup {"nobody"} /\ idl' \in Runs \cup NoRun
           /\ balance' \in 0..MaxBalance
<1> USE FundsAssumption DEF TypeOK, Owners, NoRun
<1>1. CASE Granted
  BY <1>1 DEF Granted
<1>2. CASE Assigned \/ Created
  BY <1>2 DEF Assigned, Created, Pays
<1>3. CASE Uploaded(r)
  BY <1>3 DEF Uploaded, Pays
<1>4. CASE CutShort \/ IdlLands(r)
  BY <1>4 DEF CutShort, IdlLands
<1>5. CASE UNCHANGED chain
  BY <1>5 DEF chain
<1> QED
  BY <1>1, <1>2, <1>3, <1>4, <1>5

LEMMA ClientType ==
    ASSUME TypeOK, NEW r \in Runs, Client(r)
    PROVE  TypeOK'
<1> DEFINE ControlOK ==
        /\ pc' \in [Runs -> Steps]
        /\ status' \in [Runs -> {"idle", "running", "ok"} \cup Errors]
        /\ calm' \in [Runs -> BOOLEAN]
<1> DEFINE ChainOK ==
        /\ prog' \in Owners
        /\ elf' \in Runs \cup {"nobody"} /\ idl' \in Runs \cup NoRun
        /\ balance' \in 0..MaxBalance
<1> DEFINE LocalOK ==
        /\ job' \in [Runs -> Jobs]
        /\ inflight' \subseteq Runs
        /\ seen' \in [Runs -> 0..MaxBalance]
        /\ grants' \in [Runs -> 0..(Target + 1)]
        /\ met' \in [Runs -> SUBSET Runs]
<1>0. SUFFICES ControlOK /\ ChainOK /\ LocalOK
  BY DEF TypeOK
<1> USE FundsAssumption DEF fixed
<1>1. CASE Begin(r)
  <2>1. pc' \in [Runs -> Steps] /\ ChainOK
    BY <1>1 DEF Begin, TypeOK, Steps, chain
  <2>2. status' \in [Runs -> {"idle", "running", "ok"} \cup Errors]
    <3>1. job[r].reject \in {"none"} \cup Rejections
      BY JobsAssumption DEF TypeOK
    <3> QED
      BY <1>1, <3>1 DEF Begin, TypeOK, Errors
  <2>3. calm' = [q \in Runs |-> IF q = r THEN \A p \in Runs : ~Active(p)
                               ELSE calm[q] /\ status[q] # "running"]
    BY <1>1 DEF Begin
  <2>4. calm' \in [Runs -> BOOLEAN]
    BY <2>3, Zenon
  <2>5. LocalOK
    BY <1>1 DEF Begin, TypeOK
  <2> QED
    BY <2>1, <2>2, <2>4, <2>5
<1>2. CASE ReadBalance(r) \/ Funded(r)
  <2>1. ChainOK /\ LocalOK
    BY <1>2 DEF ReadBalance, Funded, TypeOK, chain
  <2>2. ControlOK
    BY <1>2, ControlType DEF ReadBalance, Funded, Steps
  <2> QED
    BY <2>1, <2>2
<1>3. CASE Faucet(r)
  <2>1. ChainOK
    BY <1>3, ChainType DEF Faucet
  <2>2. LocalOK
    BY <1>3 DEF Faucet, TypeOK
  <2>3. ControlOK
    BY <1>3, ControlType DEF Faucet, Steps
  <2> QED
    BY <2>1, <2>2, <2>3
<1>4. CASE CheckFunded(r)
  <2>1. ChainOK /\ LocalOK
    BY <1>4 DEF CheckFunded, Remembered, TypeOK, chain
  <2>2. ControlOK
    BY <1>4, ControlType DEF CheckFunded, Steps, Errors
  <2> QED
    BY <2>1, <2>2
<1>5. CASE \/ ReadProgram(r) \/ AssignFails(r) \/ Reread(r) \/ SdkRead(r) \/ SdkFails(r)
           \/ ReadIdl(r) \/ IdlFails(r) \/ VerifyIdl(r)
  <2>1. UNCHANGED <<chain, fixed, seen, grants>>
    BY <1>5 DEF ReadProgram, AssignFails, Reread, SdkRead, SdkFails, ReadIdl, IdlFails, VerifyIdl
  <2>2. ChainOK /\ LocalOK
    BY <2>1 DEF TypeOK, chain
  <2>3. job[r].late \in {"none"} \cup LateRejections
    BY JobsAssumption DEF TypeOK
  <2>4. \/ \E step \in Steps : Goto(r, step)
        \/ \E how \in {"ok"} \cup Errors : End(r, how)
    BY <1>5, <2>3 DEF ReadProgram, AssignFails, Reread, SdkRead, SdkFails, ReadIdl, IdlFails,
       VerifyIdl, Steps, IdlSteps, Errors
  <2>5. ControlOK
    BY <2>4, ControlType
  <2> QED
    BY <2>2, <2>5
<1>6. CASE Assign(r) \/ SdkCreate(r) \/ SdkUpload(r) \/ SendIdl(r)
  <2>1. Assigned \/ Created \/ Uploaded(r) \/ IdlLands(r)
    BY <1>6 DEF Assign, SdkCreate, SdkUpload, SendIdl
  <2>2. ChainOK
    BY <2>1, ChainType
  <2>3. UNCHANGED <<fixed, seen, grants>>
    BY <1>6 DEF Assign, SdkCreate, SdkUpload, SendIdl
  <2>4. \/ \E step \in Steps : Goto(r, step)
        \/ \E how \in {"ok"} \cup Errors : End(r, how)
    BY <1>6 DEF Assign, SdkCreate, SdkUpload, SendIdl, Steps, IdlSteps
  <2>5. LocalOK
    BY <2>3 DEF TypeOK
  <2>6. ControlOK
    BY <2>4, ControlType
  <2> QED
    BY <2>2, <2>5, <2>6
<1> QED
  BY <1>1, <1>2, <1>3, <1>4, <1>5, <1>6 DEF Client

LEMMA DisturbanceType ==
    ASSUME TypeOK,
           Spend \/ SendToProgram \/ \E r \in Runs : Interrupted(r) \/ LateLands(r)
    PROVE  TypeOK'
<1> USE DEF fixed
<1>1. calm' = [q \in Runs |-> calm[q] /\ status[q] # "running"]
  BY DEF Spend, SendToProgram, Interrupted, LateLands, DisturbsAll
<1>2. calm' \in [Runs -> BOOLEAN]
  BY <1>1, Zenon
<1>3. CASE Spend
  <2>1. balance' \in 0..MaxBalance
    BY <1>3, FundsAssumption DEF Spend, TypeOK
  <2> QED
    BY <1>2, <1>3, <2>1 DEF Spend, TypeOK
<1>4. CASE SendToProgram
  BY <1>2, <1>4 DEF SendToProgram, TypeOK, Owners
<1>5. ASSUME NEW r \in Runs, Interrupted(r) PROVE TypeOK'
  <2>1. status' \in [Runs -> {"idle", "running", "ok"} \cup Errors]
    BY <1>5 DEF Interrupted, TypeOK, Errors
  <2> QED
    BY <1>2, <1>5, <2>1 DEF Interrupted, TypeOK, chain
<1>6. ASSUME NEW r \in Runs, LateLands(r) PROVE TypeOK'
  <2>1. /\ prog' \in Owners
        /\ elf' \in Runs \cup {"nobody"} /\ idl' \in Runs \cup NoRun
        /\ balance' \in 0..MaxBalance
    BY <1>6, ChainType DEF LateLands, LateEffect
  <2> QED
    BY <1>2, <1>6, <2>1 DEF LateLands, TypeOK
<1> QED
  BY <1>3, <1>4, <1>5, <1>6

LEMMA NextType ==
    ASSUME TypeOK, [Next]_vars
    PROVE  TypeOK'
<1>1. CASE \E r \in Runs : Client(r)
  BY <1>1, ClientType
<1>2. CASE Spend \/ SendToProgram \/ \E r \in Runs : Interrupted(r) \/ LateLands(r)
  BY <1>2, DisturbanceType
<1>3. CASE UNCHANGED vars
  BY <1>3 DEF vars, TypeOK
<1> QED
  BY <1>1, <1>2, <1>3 DEF Next

\* Every state of every execution of `deploy` has the declared types.
THEOREM TypeCorrect == Spec => []TypeOK
  BY InitType, NextType, PTL DEF Spec

-----------------------------------------------------------------------------
(* The calls of the faucet.                                                *)

LEMMA InitFunding == Init => FundingInv
<1> SUFFICES ASSUME Init, NEW r \in Runs
             PROVE  /\ pc[r] = "start" /\ grants[r] = 0 /\ 0 <= Target
  BY DEF FundingInv
<1>1. pc[r] = "start" /\ grants[r] = 0
  BY DEF Init
<1> QED
  BY <1>1, FundsAssumption

\* What FundingInv says of one run, and when a step cannot disturb it.
LEMMA FundingFrame ==
    ASSUME TypeOK, FundingInv, NEW r \in Runs,
           \A q \in Runs \ {r} : /\ pc'[q] = pc[q] /\ seen'[q] = seen[q]
                                 /\ grants'[q] = grants[q] /\ status'[q] = status[q],
           /\ status'[r] = "idle" => pc'[r] = "start"
           /\ pc'[r] \in {"start", "balance"} => grants'[r] = 0
           /\ pc'[r] = "fund" => grants'[r] <= seen'[r]
           /\ pc'[r] = "faucet" => grants'[r] <= seen'[r] + 1 /\ seen'[r] < Target
           /\ grants'[r] <= Target
    PROVE  FundingInv'
  BY DEF FundingInv

LEMMA ClientFunding ==
    ASSUME TypeOK, FundingInv, NEW r \in Runs, Client(r)
    PROVE  FundingInv'
<1> USE FundsAssumption
<1>0. /\ grants[r] \in Nat /\ seen[r] \in Nat /\ balance \in Nat /\ Target \in Nat
      /\ grants[r] <= Target
  BY DEF TypeOK, FundingInv
<1>1. CASE Begin(r)
  <2>1. /\ pc[r] = "start" /\ grants[r] = 0
    BY <1>1 DEF Begin, FundingInv
  <2>2. pc'[r] \in {"balance", "account"} /\ status'[r] # "idle"
    <3>1. job[r].reject # "idle"
      BY JobsAssumption DEF TypeOK, Rejections
    <3> QED
      BY <1>1, <3>1 DEF Begin, TypeOK
  <2>3. \A q \in Runs \ {r} : pc'[q] = pc[q] /\ status'[q] = status[q]
    BY <1>1 DEF Begin, TypeOK
  <2>4. UNCHANGED <<seen, grants>>
    BY <1>1 DEF Begin
  <2> QED
    BY <1>0, <2>1, <2>2, <2>3, <2>4, FundingFrame
<1>2. CASE ReadBalance(r)
  <2>1. pc[r] = "balance" /\ grants[r] = 0 /\ status[r] = "running"
    BY <1>2 DEF ReadBalance, At, FundingInv
  <2>2. /\ pc' = [pc EXCEPT ![r] = "fund"] /\ seen' = [seen EXCEPT ![r] = balance]
        /\ UNCHANGED <<status, grants>>
    BY <1>2 DEF ReadBalance, Goto
  <2> QED
    BY <1>0, <2>1, <2>2, FundingFrame DEF TypeOK
<1>3. CASE Faucet(r)
  <2>1. /\ status[r] = "running" /\ grants[r] <= seen[r] /\ seen[r] < Target
    BY <1>0, <1>3 DEF Faucet, At, FundingInv, Reached, TypeOK
  <2>2. /\ pc' = [pc EXCEPT ![r] = "faucet"] /\ UNCHANGED <<seen, status>>
        /\ grants' = [grants EXCEPT ![r] = IF @ <= Target THEN @ + 1 ELSE @]
    BY <1>3 DEF Faucet, Goto
  <2>3. grants'[r] = grants[r] + 1
    BY <1>0, <2>2 DEF TypeOK
  <2> QED
    BY <1>0, <2>1, <2>2, <2>3, FundingFrame DEF TypeOK
<1>4. CASE CheckFunded(r)
  <2>1. /\ status[r] = "running" /\ pc[r] = "faucet"
        /\ grants[r] <= seen[r] + 1 /\ seen[r] < Target
    BY <1>4 DEF CheckFunded, At, FundingInv
  <2>2. CASE DidNotIncrease(r)
    <3>1. /\ status' = [status EXCEPT ![r] = "not_funded"]
          /\ UNCHANGED <<pc, seen, grants>>
      BY <1>4, <2>2 DEF CheckFunded, End
    <3> QED
      BY <1>0, <2>1, <3>1, FundingFrame DEF TypeOK
  <2>3. CASE ~DidNotIncrease(r)
    <3>1. /\ pc' = [pc EXCEPT ![r] = "fund"] /\ seen' = [seen EXCEPT ![r] = balance]
          /\ UNCHANGED <<status, grants>>
      BY <1>4, <2>3 DEF CheckFunded, Remembered, Goto
    <3>2. grants[r] <= balance
      BY <1>0, <2>1, <2>3 DEF DidNotIncrease
    <3> QED
      BY <1>0, <2>1, <3>1, <3>2, FundingFrame DEF TypeOK
  <2> QED
    BY <2>2, <2>3
<1>5. CASE \/ Funded(r) \/ ReadProgram(r) \/ Assign(r) \/ AssignFails(r) \/ Reread(r)
           \/ SdkRead(r) \/ SdkCreate(r) \/ SdkUpload(r) \/ SdkFails(r)
           \/ ReadIdl(r) \/ SendIdl(r) \/ IdlFails(r) \/ VerifyIdl(r)
  <2>1. status[r] = "running" /\ UNCHANGED <<seen, grants>>
    BY <1>5 DEF Funded, ReadProgram, Assign, AssignFails, Reread, SdkRead, SdkCreate,
                SdkUpload, SdkFails, ReadIdl, SendIdl, IdlFails, VerifyIdl, At
  <2>0. job[r].late \in {"none"} \cup LateRejections
    BY JobsAssumption DEF TypeOK
  <2>2. \/ \E step \in Steps \ {"start", "balance", "fund", "faucet"} : Goto(r, step)
        \/ \E how \in {"ok"} \cup Errors : End(r, how)
    BY <1>5, <2>0 DEF Funded, ReadProgram, Assign, AssignFails, Reread, SdkRead, SdkCreate,
                SdkUpload, SdkFails, ReadIdl, SendIdl, IdlFails, VerifyIdl, Steps, IdlSteps,
                Errors
  <2>3. CASE \E step \in Steps \ {"start", "balance", "fund", "faucet"} : Goto(r, step)
    <3>1. PICK step \in Steps \ {"start", "balance", "fund", "faucet"} :
                /\ pc' = [pc EXCEPT ![r] = step] /\ status' = status
      BY <2>3 DEF Goto
    <3> QED
      BY <1>0, <2>1, <3>1, FundingFrame DEF TypeOK
  <2>4. CASE \E how \in {"ok"} \cup Errors : End(r, how)
    <3>1. PICK how \in {"ok"} \cup Errors :
                /\ status' = [status EXCEPT ![r] = how] /\ pc' = pc
      BY <2>4 DEF End
    <3>2. how # "idle"
      BY DEF Errors, Rejections, LateRejections
    <3>3. /\ pc[r] \in {"start", "balance"} => grants[r] = 0
          /\ pc[r] = "fund" => grants[r] <= seen[r]
          /\ pc[r] = "faucet" => grants[r] <= seen[r] + 1 /\ seen[r] < Target
      BY DEF FundingInv
    <3> QED
      BY <1>0, <2>1, <3>1, <3>2, <3>3, FundingFrame DEF TypeOK
  <2> QED
    BY <2>2, <2>3, <2>4
<1> QED
  BY <1>1, <1>2, <1>3, <1>4, <1>5 DEF Client

LEMMA NextFunding ==
    ASSUME TypeOK, FundingInv, [Next]_vars
    PROVE  FundingInv'
<1>1. CASE \E r \in Runs : Client(r)
  BY <1>1, ClientFunding
<1>2. CASE \E r \in Runs : Interrupted(r)
  <2>1. PICK r \in Runs : Interrupted(r)
    BY <1>2
  <2>2. /\ UNCHANGED <<pc, seen, grants>>
        /\ status' \in {[status EXCEPT ![r] = "idl_failed"], [status EXCEPT ![r] = "failed"]}
    BY <2>1 DEF Interrupted
  <2> QED
    BY <2>2 DEF FundingInv, TypeOK
<1>3. CASE Spend \/ SendToProgram \/ (\E r \in Runs : LateLands(r)) \/ UNCHANGED vars
  BY <1>3 DEF Spend, SendToProgram, LateLands, vars, FundingInv
<1> QED
  BY <1>1, <1>2, <1>3 DEF Next

\* The balance a run has seen counts its calls of the faucet, whatever others do
\* to the authority between a call and the read that follows it.
THEOREM FundingCounted == Spec => []FundingInv
<1>1. Init /\ TypeOK => FundingInv
  BY InitFunding
<1>2. TypeOK /\ FundingInv /\ [Next]_vars => FundingInv'
  BY NextFunding
<1> QED
  BY <1>1, <1>2, TypeCorrect, PTL DEF Spec

\* No deployment calls the faucet more than Target times, however large the
\* grant, whoever else spends or funds: the loop of deploy.rs:147-158 is bounded.
THEOREM FaucetCallsBounded == Spec => []GrantsBounded
<1>1. FundingInv => GrantsBounded
  BY DEF FundingInv, GrantsBounded
<1> QED
  BY <1>1, FundingCounted, PTL

-----------------------------------------------------------------------------
(* Runs and late transactions that meet.                                   *)

\* Only a run that ended in an error leaves a transaction behind.
EndedInv == \A r \in inflight : status[r] \in {"failed", "idl_failed"}

MetInv ==
    \A r, q \in Runs : status[r] = "running" /\ Active(q) /\ q # r => q \in met[r]

\* Whoever may still replace the IDL has replaced the ELF first: a successful run
\* whose ELF is deployed ended after that, and has met it.
PublishingInv ==
    \A r, q \in Runs :
        status[r] = "ok" /\ job[r].idl /\ elf = r /\ Active(q) /\ pc[q] \in IdlSteps /\ q # r =>
            q \in met[r]

OverlapInv == EndedInv /\ MetInv /\ PublishingInv /\ MismatchIsOverlap

LEMMA OverlapInit == Init => OverlapInv
<1> SUFFICES ASSUME Init PROVE OverlapInv
  OBVIOUS
<1>1. inflight = {} /\ \A r \in Runs : status[r] = "idle"
  BY DEF Init
<1> QED
  BY <1>1 DEF OverlapInv, EndedInv, MetInv, PublishingInv, MismatchIsOverlap

\* A step of a run in progress, and what it owes for itself.
LEMMA OverlapStep ==
    ASSUME TypeOK, OverlapInv, NEW r \in Runs, status[r] = "running",
           job' = job, inflight' = inflight, met' = met,
           \A q \in Runs \ {r} : status'[q] = status[q] /\ pc'[q] = pc[q],
           elf' \in {elf, r},
           idl' = idl \/ (IdlLands(r) /\ pc[r] \in IdlSteps),
           status'[r] = "running" /\ pc'[r] \in IdlSteps => pc[r] \in IdlSteps \/ elf' = r,
           status'[r] = "ok" => ~job[r].idl \/ idl' = r
    PROVE  OverlapInv'
<1>1. r \notin inflight
  BY DEF OverlapInv, EndedInv
<1>2. \A q \in Runs : Active(q)' => Active(q)
  BY DEF Active
<1>3. EndedInv'
  <2> SUFFICES ASSUME NEW q \in inflight PROVE status'[q] \in {"failed", "idl_failed"}
    BY DEF EndedInv
  <2>1. q \in Runs \ {r}
    BY <1>1 DEF TypeOK
  <2> QED
    BY <2>1 DEF OverlapInv, EndedInv
<1>4. MetInv'
  BY <1>2 DEF OverlapInv, MetInv
<1>5. ASSUME NEW p \in Runs, NEW q \in Runs, status'[p] = "ok", job'[p].idl, elf' = p,
             Active(q)', pc'[q] \in IdlSteps, q # p
      PROVE  q \in met'[p]
  <2>1. CASE p = r
    BY <1>2, <1>5, <2>1 DEF OverlapInv, MetInv
  <2>2. CASE p # r
    <3>1. status[p] = "ok" /\ elf = p
      BY <1>5, <2>2
    <3>2. pc[q] \in IdlSteps
      BY <1>1, <1>5, <2>2 DEF Active
    <3> QED
      BY <1>2, <1>5, <3>1, <3>2 DEF OverlapInv, PublishingInv
  <2> QED
    BY <2>1, <2>2
<1>6. ASSUME NEW p \in Runs, status'[p] = "ok", job'[p].idl, elf' = p
      PROVE  idl' \in {p} \cup met'[p]
  <2>1. CASE p = r
    BY <1>6, <2>1
  <2>2. CASE p # r
    <3>1. status[p] = "ok" /\ elf = p /\ idl \in {p} \cup met[p]
      BY <1>6, <2>2 DEF OverlapInv, MismatchIsOverlap
    <3>2. CASE idl' = idl
      BY <3>1, <3>2
    <3>3. CASE IdlLands(r) /\ pc[r] \in IdlSteps
      <4>1. r \in met[p]
        BY <1>6, <2>2, <3>1, <3>3 DEF OverlapInv, PublishingInv, Active
      <4>2. idl \in Runs
        BY <3>1 DEF TypeOK
      <4>3. idl # "missing"
        BY <4>2, RunsAssumption DEF NoRun
      <4>4. idl' = r
        BY <3>3, <4>3 DEF IdlLands, IdlAccepts
      <4> QED
        BY <4>1, <4>4
    <3> QED
      BY <3>2, <3>3
  <2> QED
    BY <2>1, <2>2
<1> QED
  BY <1>3, <1>4, <1>5, <1>6 DEF OverlapInv, PublishingInv, MismatchIsOverlap

LEMMA OverlapBegin ==
    ASSUME TypeOK, OverlapInv, NEW r \in Runs, Begin(r)
    PROVE  OverlapInv'
<1>1. /\ status[r] = "idle" /\ UNCHANGED <<elf, idl, job, inflight>>
      /\ \A q \in Runs \ {r} : status'[q] = status[q] /\ pc'[q] = pc[q]
      /\ status'[r] # "ok"
      /\ pc'[r] \in {"balance", "account"}
  <2>1. job[r].reject \in {"none"} \cup Rejections
    BY JobsAssumption DEF TypeOK
  <2> QED
    BY <2>1 DEF Begin, TypeOK, chain, Rejections
<1>2. \A q \in Runs : met'[q] = IF q = r THEN {p \in Runs : Active(p)}
                               ELSE IF status[q] = "running" THEN met[q] \cup {r} ELSE met[q]
  BY DEF Begin, TypeOK
<1>3. \A q \in Runs \ {r} : (Active(q)' <=> Active(q)) /\ met[q] \subseteq met'[q]
  BY <1>1, <1>2 DEF Active
<1>4. EndedInv'
  BY <1>1 DEF OverlapInv, EndedInv, TypeOK
<1>5. MetInv'
  <2> SUFFICES ASSUME NEW p \in Runs, NEW q \in Runs, status'[p] = "running", Active(q)', q # p
               PROVE  q \in met'[p]
    BY DEF MetInv
  <2>1. CASE p = r
    BY <1>2, <1>3, <2>1
  <2>2. CASE p # r /\ q = r
    BY <1>1, <1>2, <2>2
  <2>3. CASE p # r /\ q # r
    BY <1>1, <1>3, <2>3 DEF OverlapInv, MetInv
  <2> QED
    BY <2>1, <2>2, <2>3
<1>6. PublishingInv'
  <2> SUFFICES ASSUME NEW p \in Runs, NEW q \in Runs, status'[p] = "ok", job'[p].idl, elf' = p,
                      Active(q)', pc'[q] \in IdlSteps, q # p
               PROVE  q \in met'[p]
    BY DEF PublishingInv
  <2>1. p # r /\ q # r
    BY <1>1 DEF IdlSteps
  <2> QED
    BY <1>1, <1>3, <2>1 DEF OverlapInv, PublishingInv
<1>7. MismatchIsOverlap'
  BY <1>1, <1>3 DEF OverlapInv, MismatchIsOverlap
<1> QED
  BY <1>4, <1>5, <1>6, <1>7 DEF OverlapInv

LEMMA OverlapClient ==
    ASSUME TypeOK, OverlapInv, NEW r \in Runs, Client(r)
    PROVE  OverlapInv'
<1> USE DEF fixed
<1>1. CASE Begin(r)
  BY <1>1, OverlapBegin
<1>2. CASE ReadBalance(r) \/ Funded(r) \/ Faucet(r) \/ CheckFunded(r)
  <2>1. /\ status[r] = "running" /\ UNCHANGED <<elf, idl, job, inflight, met>>
        /\ \A q \in Runs \ {r} : status'[q] = status[q] /\ pc'[q] = pc[q]
        /\ status'[r] # "ok" /\ (status'[r] = "running" => pc'[r] \notin IdlSteps)
    BY <1>2 DEF ReadBalance, Funded, Faucet, CheckFunded, Granted, At, Goto, End, chain,
       IdlSteps, TypeOK
  <2> QED
    BY <2>1, OverlapStep
<1>3. CASE ReadProgram(r) \/ Reread(r) \/ AssignFails(r) \/ SdkRead(r) \/ SdkFails(r)
           \/ Assign(r) \/ SdkCreate(r)
  <2>0. job[r].late \in {"none"} \cup LateRejections
    BY JobsAssumption DEF TypeOK
  <2>1. /\ status[r] = "running" /\ UNCHANGED <<elf, idl, job, inflight, met>>
        /\ \A q \in Runs \ {r} : status'[q] = status[q] /\ pc'[q] = pc[q]
        /\ status'[r] # "ok" /\ (status'[r] = "running" => pc'[r] \notin IdlSteps)
    BY <1>3, <2>0 DEF ReadProgram, Reread, AssignFails, SdkRead, SdkFails, Assign, SdkCreate,
       Assigned, Created, At, Goto, End, chain, IdlSteps, LateRejections, TypeOK
  <2> QED
    BY <2>1, OverlapStep
<1>4. CASE SdkUpload(r)
  <2>1. /\ status[r] = "running" /\ UNCHANGED <<idl, job, inflight, met>> /\ elf' = r
        /\ \A q \in Runs \ {r} : status'[q] = status[q] /\ pc'[q] = pc[q]
        /\ status'[r] = "ok" => ~job[r].idl
    BY <1>4 DEF SdkUpload, Uploaded, Publishes, At, Goto, End, TypeOK
  <2> QED
    BY <2>1, OverlapStep
<1>5. CASE ReadIdl(r) \/ IdlFails(r) \/ VerifyIdl(r)
  <2>1. /\ status[r] = "running" /\ UNCHANGED <<elf, idl, job, inflight, met>>
        /\ \A q \in Runs \ {r} : status'[q] = status[q] /\ pc'[q] = pc[q]
        /\ pc[r] \in IdlSteps
        /\ status'[r] = "ok" => idl = r
    BY <1>5 DEF ReadIdl, IdlFails, VerifyIdl, At, Goto, End, chain, IdlSteps, TypeOK
  <2> QED
    BY <2>1, OverlapStep
<1>6. CASE SendIdl(r)
  <2>1. /\ status[r] = "running" /\ UNCHANGED <<elf, job, inflight, met>> /\ IdlLands(r)
        /\ \A q \in Runs \ {r} : status'[q] = status[q] /\ pc'[q] = pc[q]
        /\ pc[r] \in IdlSteps /\ status'[r] = "running"
    BY <1>6 DEF SendIdl, IdlLands, At, Goto, IdlSteps, TypeOK
  <2> QED
    BY <2>1, OverlapStep
<1> QED
  BY <1>1, <1>2, <1>3, <1>4, <1>5, <1>6 DEF Client

\* The end of a run leaves its transaction to MetInv and PublishingInv.
LEMMA OverlapInterrupted ==
    ASSUME TypeOK, OverlapInv, NEW r \in Runs, Interrupted(r)
    PROVE  OverlapInv'
<1>1. /\ status[r] = "running" /\ UNCHANGED <<elf, idl, pc, job, met>>
      /\ \A q \in Runs \ {r} : status'[q] = status[q]
      /\ status'[r] \in {"failed", "idl_failed"}
      /\ inflight' \subseteq inflight \cup {r}
  BY DEF Interrupted, chain, TypeOK
<1>2. \A q \in Runs : Active(q)' => Active(q)
  BY <1>1 DEF Active
<1>3. EndedInv'
  BY <1>1 DEF OverlapInv, EndedInv, TypeOK
<1> QED
  BY <1>1, <1>2, <1>3 DEF OverlapInv, MetInv, PublishingInv, MismatchIsOverlap

LEMMA OverlapLate ==
    ASSUME TypeOK, OverlapInv, NEW r \in Runs, LateLands(r)
    PROVE  OverlapInv'
<1>1. /\ r \in inflight /\ inflight' = inflight \ {r} /\ UNCHANGED <<pc, status, job, met>>
      /\ status[r] \in {"failed", "idl_failed"}
  BY DEF LateLands, OverlapInv, EndedInv
<1>2. \A q \in Runs : Active(q)' => Active(q)
  BY <1>1 DEF Active
<1>3. EndedInv'
  BY <1>1 DEF OverlapInv, EndedInv
<1>4. MetInv'
  BY <1>1, <1>2 DEF OverlapInv, MetInv
<1>5. /\ elf' \in {elf, "nobody", r}
      /\ idl' = idl \/ (IdlLands(r) /\ pc[r] \in IdlSteps)
  BY DEF LateLands, LateEffect, Granted, Assigned, Created, Uploaded, CutShort, IdlLands, chain,
     IdlSteps
<1>6. ASSUME NEW p \in Runs, status'[p] = "ok", job'[p].idl, elf' = p
      PROVE  status[p] = "ok" /\ job[p].idl /\ elf = p
  BY <1>1, <1>5, <1>6, RunsAssumption
<1>7. PublishingInv'
  BY <1>1, <1>2, <1>6 DEF OverlapInv, PublishingInv
<1>8. ASSUME NEW p \in Runs, status'[p] = "ok", job'[p].idl, elf' = p
      PROVE  idl' \in {p} \cup met'[p]
  <2>1. status[p] = "ok" /\ job[p].idl /\ elf = p /\ idl \in {p} \cup met[p]
    BY <1>6, <1>8 DEF OverlapInv, MismatchIsOverlap
  <2>2. CASE idl' = idl
    BY <1>1, <2>1, <2>2
  <2>3. CASE IdlLands(r) /\ pc[r] \in IdlSteps
    <3>1. r \in met[p]
      BY <1>1, <2>1, <2>3 DEF OverlapInv, PublishingInv, Active
    <3>2. idl \in Runs
      BY <2>1 DEF TypeOK
    <3>3. idl # "missing"
      BY <3>2, RunsAssumption DEF NoRun
    <3>4. idl' = r
      BY <2>3, <3>3 DEF IdlLands, IdlAccepts
    <3> QED
      BY <1>1, <3>1, <3>4
  <2> QED
    BY <1>5, <2>2, <2>3
<1> QED
  BY <1>3, <1>4, <1>7, <1>8 DEF OverlapInv, MismatchIsOverlap

LEMMA OverlapNext ==
    ASSUME TypeOK, OverlapInv, [Next]_vars
    PROVE  OverlapInv'
<1>1. CASE \E r \in Runs : Client(r) \/ Interrupted(r) \/ LateLands(r)
  BY <1>1, OverlapClient, OverlapInterrupted, OverlapLate
<1>2. CASE Spend \/ SendToProgram \/ UNCHANGED vars
  BY <1>2 DEF Spend, SendToProgram, fixed, vars, OverlapInv, EndedInv, MetInv, PublishingInv,
     MismatchIsOverlap, Active
<1> QED
  BY <1>1, <1>2 DEF Next

\* Which runs and late transactions can still replace a successful run's IDL.
THEOREM OverlapInductive == Spec => []OverlapInv
<1>1. TypeOK /\ OverlapInv /\ [Next]_vars => OverlapInv'
  BY OverlapNext
<1> QED
  BY <1>1, OverlapInit, TypeCorrect, PTL DEF Spec

\* An ELF stands beside another run's IDL only when the two runs have overlapped,
\* the transactions that execute after their run has ended included: every run that
\* replaces the IDL has replaced the ELF first (deploy.rs:160-205).
THEOREM MismatchAlwaysOverlap == Spec => []MismatchIsOverlap
<1>1. OverlapInv => MismatchIsOverlap
  BY DEF OverlapInv
<1> QED
  BY <1>1, OverlapInductive, PTL

-----------------------------------------------------------------------------
(* Runs that nothing disturbs.                                             *)

\* A calm run in progress is the only one that is active.
AloneInv ==
    \A r, q \in Runs : calm[r] /\ status[r] = "running" /\ Active(q) => q = r

\* What it has seen of the authority, of the program's account and of the IDL's is
\* still so, and the authority can pay for the steps that are left.
ReadyInv(r) ==
    /\ pc[r] = "fund" => seen[r] = balance
    /\ pc[r] = "faucet" => seen[r] < Target /\ seen[r] < balance
    /\ pc[r] = "account" => balance >= Target
    /\ pc[r] = "assign" => prog = "system" /\ balance >= Cost
    /\ pc[r] = "assigned" => prog = "loader" /\ balance >= 1
    /\ pc[r] = "deploy" => /\ prog \in {"missing", "loader", "program"} /\ balance >= 1
                           /\ prog = "missing" => balance >= Cost
    /\ pc[r] = "create" => prog = "missing" /\ balance >= Cost
    /\ pc[r] = "upload" => prog \in {"loader", "program"} /\ balance >= 1
    /\ pc[r] \in IdlSteps => prog = "program" /\ job[r].idl
    /\ pc[r] \in {"init", "write", "set"} => IdlAccepts(pc[r])
    /\ pc[r] = "verify" => idl = r

Outcomes == {"idle", "running", "ok", "wrong_account"} \cup Rejections \cup LateRejections

\* Nobody is left who could write the account that blocked a calm run to its end.
StuckInv ==
    \A r, q \in Runs :
        calm[r] /\ job[r].fund /\ status[r] = "idl_failed" /\ idl = "partial" /\ Active(q) =>
            pc[q] # "write"

CalmInv ==
    /\ AloneInv
    /\ \A r \in Runs : calm[r] /\ job[r].fund /\ status[r] = "running" => ReadyInv(r)
    /\ StuckInv
    /\ UndisturbedDeploySucceeds

LEMMA CalmInit == Init => CalmInv
<1> SUFFICES ASSUME Init PROVE CalmInv
  OBVIOUS
<1>1. \A r \in Runs : status[r] = "idle"
  BY DEF Init
<1> QED
  BY <1>1 DEF CalmInv, AloneInv, StuckInv, UndisturbedDeploySucceeds

\* The calls of idl::publish that change the account.
Landing == {"init", "write", "set"}

\* What blocked a calm run blocks those after it: nobody creates, completes or
\* removes the account.
LEMMA BlockedStays ==
    ASSUME TypeOK, CalmInv, NEW p \in Runs, calm[p], job[p].fund, status[p] = "idl_failed",
           job' = job, NEW r \in Runs, Active(r), pc[r] \in Landing, IdlLands(r)
    PROVE  IdlBlocked(p)' /\ idl' # "partial"
<1>1. IdlBlocked(p)
  BY DEF CalmInv, UndisturbedDeploySucceeds, Rejections, LateRejections
<1>2. idl # "missing"
  BY <1>1, RunsAssumption DEF IdlBlocked, IdlWhole, NoRun
<1>3. idl = "partial" => pc[r] # "write"
  BY DEF CalmInv, StuckInv
<1>4. IdlWhole /\ idl' = r
  <2>1. CASE pc[r] = "init"
    BY <1>2, <2>1 DEF IdlLands, IdlAccepts
  <2>2. CASE pc[r] = "write"
    BY <1>3, <2>2 DEF IdlLands, IdlAccepts
  <2>3. CASE pc[r] = "set"
    BY <2>3 DEF IdlLands, IdlAccepts
  <2> QED
    BY <2>1, <2>2, <2>3 DEF Landing
<1> QED
  BY <1>1, <1>4, RunsAssumption DEF IdlBlocked, IdlWhole, NoRun

\* A step of a run in progress: what it owes for itself.  It leaves the runs
\* that ended alone, and disturbs those in progress.
LEMMA CalmStep ==
    ASSUME TypeOK, EndedInv, CalmInv, NEW r \in Runs, status[r] = "running", job' = job,
           inflight' = inflight,
           \A q \in Runs \ {r} : status'[q] = status[q] /\ pc'[q] = pc[q],
           Disturbs(r),
           idl' = idl \/ (IdlLands(r) /\ pc[r] \in Landing),
           status'[r] = "running" /\ pc'[r] = "write" => IdlLands(r) /\ pc[r] \in Landing,
           calm[r] /\ job[r].fund =>
               \/ status'[r] = "running" /\ ReadyInv(r)'
               \/ status'[r] \in Outcomes \ {"running"}
               \/ status'[r] = "idl_failed" /\ IdlBlocked(r)'
    PROVE  CalmInv'
<1>1. \A q \in Runs : calm'[q] <=> calm[q] /\ (q = r \/ status[q] # "running")
  BY DEF Disturbs, TypeOK
<1>2. r \notin inflight
  BY DEF EndedInv
<1>3. \A q \in Runs : Active(q)' => Active(q)
  BY DEF Active
<1>4. AloneInv'
  BY <1>1, <1>3 DEF CalmInv, AloneInv
<1>5. ASSUME NEW q \in Runs, calm'[q], job'[q].fund, status'[q] = "running"
      PROVE  ReadyInv(q)'
  BY <1>1, <1>5
\* A calm run that had ended before: it is still blocked if it was.
<1>6. ASSUME NEW p \in Runs, p # r, calm'[p], job'[p].fund, status'[p] = "idl_failed"
      PROVE  /\ IdlBlocked(p)'
             /\ idl' = "partial" => idl' = idl /\ ~(IdlLands(r) /\ pc[r] \in Landing)
  <2>1. calm[p] /\ job[p].fund /\ status[p] = "idl_failed" /\ IdlBlocked(p)
    BY <1>1, <1>6 DEF CalmInv, UndisturbedDeploySucceeds, Rejections, LateRejections
  <2>2. CASE IdlLands(r) /\ pc[r] \in Landing
    BY <2>1, <2>2, BlockedStays DEF Active
  <2>3. CASE idl' = idl /\ ~(IdlLands(r) /\ pc[r] \in Landing)
    BY <2>1, <2>3 DEF IdlBlocked, IdlWhole
  <2> QED
    BY <2>2, <2>3
<1>7. StuckInv'
  <2> SUFFICES ASSUME NEW p \in Runs, NEW q \in Runs, calm'[p], job'[p].fund,
                      status'[p] = "idl_failed", idl' = "partial", Active(q)'
               PROVE  pc'[q] # "write"
    BY DEF StuckInv
  <2>1. CASE p = r
    <3>1. q = r
      BY <1>1, <1>3, <2>1 DEF CalmInv, AloneInv
    <3> QED
      BY <1>2, <2>1, <3>1 DEF Active
  <2>2. CASE p # r /\ q # r
    BY <1>1, <1>3, <1>6, <2>2 DEF CalmInv, StuckInv
  <2>3. CASE p # r /\ q = r
    <3>1. status'[r] = "running"
      BY <1>2, <2>3 DEF Active
    <3> QED
      BY <1>6, <2>3, <3>1
  <2> QED
    BY <2>1, <2>2, <2>3
<1>8. ASSUME NEW q \in Runs, calm'[q], job'[q].fund
      PROVE  status'[q] \in Outcomes \/ (status'[q] = "idl_failed" /\ IdlBlocked(q)')
  <2>1. CASE q = r
    BY <1>1, <1>8, <2>1 DEF Outcomes
  <2>2. CASE q # r
    <3>1. status'[q] \in Outcomes \/ status'[q] = "idl_failed"
      BY <1>1, <1>8, <2>2 DEF CalmInv, UndisturbedDeploySucceeds, Outcomes
    <3> QED
      BY <1>6, <1>8, <2>2, <3>1
  <2> QED
    BY <2>1, <2>2
<1> QED
  BY <1>4, <1>5, <1>7, <1>8 DEF CalmInv, UndisturbedDeploySucceeds, Outcomes

\* Who disturbs everybody leaves no calm run in progress.
LEMMA CalmDisturbed ==
    ASSUME TypeOK, CalmInv, DisturbsAll, job' = job, pc' = pc,
           idl' = idl \/ \E r \in Runs : Active(r) /\ IdlLands(r) /\ pc[r] \in Landing,
           \A q \in Runs : /\ status[q] # "running" => status'[q] = status[q]
                           /\ status'[q] = "running" => status[q] = "running"
                           /\ Active(q)' => Active(q)
    PROVE  CalmInv'
<1>1. \A q \in Runs : calm'[q] <=> calm[q] /\ status[q] # "running"
  BY DEF DisturbsAll, TypeOK
<1>2. \A q \in Runs : calm'[q] => calm[q] /\ status'[q] = status[q] /\ status[q] # "running"
  BY <1>1
<1>3. AloneInv'
  BY <1>2 DEF AloneInv
<1>4. ASSUME NEW p \in Runs, calm'[p], job'[p].fund, status'[p] = "idl_failed"
      PROVE  IdlBlocked(p)' /\ (idl' = "partial" => idl' = idl)
  <2>1. calm[p] /\ job[p].fund /\ status[p] = "idl_failed" /\ IdlBlocked(p)
    BY <1>2, <1>4 DEF CalmInv, UndisturbedDeploySucceeds, Rejections, LateRejections
  <2>2. CASE idl' = idl
    BY <2>1, <2>2 DEF IdlBlocked, IdlWhole
  <2>3. CASE \E r \in Runs : Active(r) /\ IdlLands(r) /\ pc[r] \in Landing
    BY <2>1, <2>3, BlockedStays
  <2> QED
    BY <2>2, <2>3
<1>5. StuckInv'
  BY <1>2, <1>4 DEF CalmInv, StuckInv
<1>6. UndisturbedDeploySucceeds'
  <2> SUFFICES ASSUME NEW q \in Runs, calm'[q], job'[q].fund
               PROVE  status'[q] \in Outcomes \/ (status'[q] = "idl_failed" /\ IdlBlocked(q)')
    BY DEF UndisturbedDeploySucceeds, Outcomes
  <2>1. status'[q] \in Outcomes \/ status'[q] = "idl_failed"
    BY <1>2 DEF CalmInv, UndisturbedDeploySucceeds, Outcomes
  <2> QED
    BY <1>4, <2>1
<1> QED
  BY <1>2, <1>3, <1>5, <1>6 DEF CalmInv

LEMMA CalmBegin ==
    ASSUME TypeOK, CalmInv, NEW r \in Runs, Begin(r)
    PROVE  CalmInv'
<1>1. /\ job[r].reject \in {"none"} \cup Rejections
      /\ status' = [status EXCEPT ![r] =
                        IF job[r].reject = "none" THEN "running" ELSE job[r].reject]
      /\ pc' = [pc EXCEPT ![r] = IF job[r].fund THEN "balance" ELSE "account"]
      /\ status[r] = "idle" /\ UNCHANGED <<idl, job, inflight>>
  BY JobsAssumption DEF Begin, TypeOK, chain
<1>2. \A q \in Runs : calm'[q] <=> IF q = r THEN \A p \in Runs : ~Active(p)
                                  ELSE calm[q] /\ status[q] # "running"
  BY DEF Begin, TypeOK
<1>3. /\ \A q \in Runs \ {r} : status'[q] = status[q] /\ pc'[q] = pc[q]
      /\ status'[r] \in {"running"} \cup Rejections
      /\ pc'[r] \in {"balance", "account"} /\ (job[r].fund => pc'[r] = "balance")
  BY <1>1 DEF TypeOK
<1>4. \A q \in Runs \ {r} : Active(q)' => Active(q)
  BY <1>1, <1>3 DEF Active
<1>5. AloneInv'
  BY <1>2, <1>3, <1>4 DEF AloneInv
<1>6. ASSUME NEW q \in Runs, calm'[q], job'[q].fund, status'[q] = "running"
      PROVE  ReadyInv(q)'
  BY <1>1, <1>2, <1>3, <1>6 DEF ReadyInv, IdlSteps
<1>7. StuckInv'
  BY <1>1, <1>2, <1>3, <1>4 DEF CalmInv, StuckInv, Rejections
<1>8. \A q \in Runs : IdlBlocked(q) => IdlBlocked(q)'
  BY <1>1 DEF IdlBlocked, IdlWhole
<1>9. UndisturbedDeploySucceeds'
  BY <1>1, <1>2, <1>3, <1>8 DEF CalmInv, UndisturbedDeploySucceeds
<1> QED
  BY <1>5, <1>6, <1>7, <1>9 DEF CalmInv

LEMMA CalmClient ==
    ASSUME TypeOK, EndedInv, CalmInv, NEW r \in Runs, Client(r)
    PROVE  CalmInv'
<1> USE FundsAssumption DEF Cost, fixed
<1>0. /\ balance \in Nat /\ seen[r] \in Nat
      /\ calm[r] /\ job[r].fund /\ status[r] = "running" => ReadyInv(r)
      /\ job[r].late \in {"none"} \cup LateRejections
  BY JobsAssumption DEF TypeOK, CalmInv
<1>1. CASE Begin(r)
  BY <1>1, CalmBegin
<1>2. CASE ReadBalance(r) \/ Funded(r) \/ Faucet(r)
  <2>1. /\ pc[r] \in {"balance", "fund"} /\ status[r] = "running"
        /\ \E step \in {"fund", "account", "faucet"} : pc' = [pc EXCEPT ![r] = step]
        /\ Disturbs(r) /\ UNCHANGED <<idl, job, inflight, status>>
    BY <1>2 DEF ReadBalance, Funded, Faucet, Granted, At, Goto, chain
  <2>2. calm[r] /\ job[r].fund => ReadyInv(r)'
    <3>1. CASE ReadBalance(r)
      BY <3>1, <2>1 DEF ReadBalance, Goto, ReadyInv, IdlSteps, TypeOK, chain
    <3>2. CASE Funded(r)
      BY <1>0, <3>2, <2>1 DEF Funded, Reached, At, Goto, ReadyInv, IdlSteps, TypeOK, chain
    <3>3. CASE Faucet(r)
      <4>1. seen[r] < Target /\ pc'[r] = "faucet" /\ seen' = seen
        BY <1>0, <3>3, <2>1 DEF Faucet, Reached, Goto, TypeOK
      <4>2. balance \in 0..MaxBalance /\ balance = seen[r] => balance' > balance
        BY <3>3, <4>1 DEF Faucet, Granted
      <4>3. calm[r] /\ job[r].fund => balance = seen[r]
        BY <1>0, <2>1, <3>3 DEF Faucet, At, ReadyInv
      <4> QED
        BY <1>0, <4>1, <4>2, <4>3 DEF ReadyInv, IdlSteps, TypeOK
    <3> QED
      BY <1>2, <3>1, <3>2, <3>3
  <2> QED
    BY <2>1, <2>2, CalmStep DEF TypeOK
<1>3. CASE CheckFunded(r)
  <2>1. /\ pc[r] = "faucet" /\ status[r] = "running" /\ Disturbs(r)
        /\ UNCHANGED <<idl, job, inflight, balance, prog>>
    BY <1>3 DEF CheckFunded, At, Goto, End, chain
  <2>2. CASE DidNotIncrease(r)
    <3>1. status' = [status EXCEPT ![r] = "not_funded"] /\ pc' = pc
      BY <1>3, <2>2 DEF CheckFunded, End
    <3>2. ~(calm[r] /\ job[r].fund)
      BY <1>0, <2>1, <2>2 DEF ReadyInv, DidNotIncrease
    <3> QED
      BY <2>1, <3>1, <3>2, CalmStep DEF TypeOK
  <2>3. CASE ~DidNotIncrease(r)
    <3>1. /\ pc' = [pc EXCEPT ![r] = "fund"] /\ status' = status
          /\ seen' = [seen EXCEPT ![r] = balance]
      BY <1>3, <2>3 DEF CheckFunded, Goto, Remembered
    <3>2. ReadyInv(r)'
      BY <2>1, <3>1 DEF ReadyInv, IdlSteps, TypeOK
    <3> QED
      BY <2>1, <3>1, <3>2, CalmStep DEF TypeOK
  <2> QED
    BY <2>2, <2>3
<1>4. CASE ReadProgram(r) \/ Reread(r) \/ AssignFails(r) \/ SdkRead(r) \/ SdkFails(r)
  <2>1. /\ pc[r] \in {"account", "assigned", "assign", "deploy", "create", "upload"}
        /\ status[r] = "running" /\ Disturbs(r)
        /\ UNCHANGED <<idl, job, inflight, balance, prog>>
        /\ \A q \in Runs \ {r} : status'[q] = status[q] /\ pc'[q] = pc[q]
        /\ pc'[r] \notin IdlSteps
    BY <1>0, <1>4 DEF ReadProgram, Reread, AssignFails, SdkRead, SdkFails, At, Goto, End,
       chain, TypeOK, IdlSteps
  <2>2. calm[r] /\ job[r].fund => \/ status'[r] = "running" /\ ReadyInv(r)'
                                  \/ status'[r] \in Outcomes \ {"running"}
    <3> SUFFICES ASSUME calm[r], job[r].fund
                 PROVE  \/ status'[r] = "running" /\ ReadyInv(r)'
                        \/ status'[r] \in Outcomes \ {"running"}
      OBVIOUS
    <3>0. ReadyInv(r) /\ prog \in Owners
      BY <1>0, <2>1 DEF TypeOK
    <3>1. CASE ReadProgram(r)
      BY <1>0, <2>1, <3>0, <3>1
      DEF ReadProgram, NeedsAssignment, At, Goto, End, ReadyInv, IdlSteps, TypeOK, Owners,
          Outcomes, LateRejections
    <3>2. CASE Reread(r)
      BY <1>0, <2>1, <3>0, <3>2 DEF Reread, Uploadable, At, Goto, End, ReadyInv, IdlSteps, TypeOK
    <3>3. CASE SdkRead(r)
      BY <1>0, <2>1, <3>0, <3>3 DEF SdkRead, Exists, At, Goto, ReadyInv, IdlSteps, TypeOK
    <3>4. CASE AssignFails(r) \/ SdkFails(r)
      BY <1>0, <2>1, <3>0, <3>4 DEF AssignFails, SdkFails, Exists, Uploadable, At, ReadyInv
    <3> QED
      BY <1>4, <3>1, <3>2, <3>3, <3>4
  <2> QED
    BY <2>1, <2>2, CalmStep DEF IdlSteps
<1>5. CASE Assign(r) \/ SdkCreate(r)
  <2>1. /\ pc[r] \in {"assign", "create"} /\ status[r] = "running"
        /\ \E step \in {"assigned", "upload"} : pc' = [pc EXCEPT ![r] = step]
        /\ Disturbs(r) /\ UNCHANGED <<idl, job, inflight, status>>
        /\ prog' = "loader" /\ balance' = balance - 2
    BY <1>5 DEF Assign, SdkCreate, Assigned, Created, At, Goto, Pays
  <2>2. calm[r] /\ job[r].fund => balance >= Cost
    BY <1>0, <2>1 DEF ReadyInv
  <2>3. calm[r] /\ job[r].fund => ReadyInv(r)'
    BY <1>0, <2>1, <2>2 DEF ReadyInv, IdlSteps, TypeOK
  <2> QED
    BY <2>1, <2>3, CalmStep DEF TypeOK
<1>6. CASE SdkUpload(r)
  <2>1. /\ pc[r] = "upload" /\ status[r] = "running" /\ Disturbs(r)
        /\ UNCHANGED <<idl, job, inflight>> /\ prog' = "program"
    BY <1>6 DEF SdkUpload, Uploaded, At, Goto, End
  <2>2. \/ job[r].idl /\ pc' = [pc EXCEPT ![r] = "publish"] /\ status' = status
        \/ ~job[r].idl /\ status' = [status EXCEPT ![r] = "ok"] /\ pc' = pc
    BY <1>6 DEF SdkUpload, Publishes, Goto, End
  <2>3. status'[r] = "running" => ReadyInv(r)'
    BY <2>1, <2>2 DEF ReadyInv, TypeOK
  <2> QED
    BY <2>1, <2>2, <2>3, CalmStep DEF TypeOK, Outcomes
<1>7. CASE ReadIdl(r)
  <2>1. /\ pc[r] = "publish" /\ status[r] = "running" /\ Disturbs(r)
        /\ UNCHANGED <<idl, job, inflight, balance, prog>>
        /\ calm[r] /\ job[r].fund => ReadyInv(r)
    BY <1>0, <1>7 DEF ReadIdl, At, Goto, End, chain
  <2>2. \/ /\ pc' = [pc EXCEPT ![r] = "init"] /\ status' = status /\ idl = "missing"
        \/ /\ pc' = [pc EXCEPT ![r] = "set"] /\ status' = status /\ IdlWhole
        \/ /\ status' = [status EXCEPT ![r] = "idl_failed"] /\ pc' = pc
           /\ (~IdlWhole /\ idl # "missing") \/ (IdlWhole /\ ~job[r].resize)
    BY <1>7 DEF ReadIdl, Goto, End
  <2>3. CASE status' = status
    <3>1. calm[r] /\ job[r].fund => ReadyInv(r)'
      BY <2>1, <2>2, <2>3 DEF ReadyInv, IdlSteps, IdlAccepts, IdlWhole, TypeOK
    <3> QED
      BY <2>1, <2>2, <2>3, <3>1, CalmStep DEF TypeOK
  <2>4. CASE status' = [status EXCEPT ![r] = "idl_failed"]
    <3>1. calm[r] /\ job[r].fund => IdlBlocked(r)'
      BY <2>1, <2>2, <2>4 DEF ReadyInv, IdlBlocked, IdlSteps, IdlWhole, NoRun, TypeOK
    <3> QED
      BY <2>1, <2>2, <2>4, <3>1, CalmStep DEF TypeOK
  <2> QED
    BY <2>2, <2>3, <2>4
<1>8. CASE SendIdl(r)
  <2>1. /\ pc[r] \in {"init", "write", "set"} /\ status[r] = "running" /\ Disturbs(r)
        /\ UNCHANGED <<job, inflight, balance, prog, status>> /\ IdlLands(r)
        /\ pc' = [pc EXCEPT ![r] = IF pc[r] = "init" THEN "write" ELSE "verify"]
        /\ idl' = IF pc[r] = "init" THEN "partial" ELSE r
        /\ calm[r] /\ job[r].fund => ReadyInv(r)
    BY <1>0, <1>8 DEF SendIdl, IdlLands, At, Goto
  <2>2. calm[r] /\ job[r].fund => ReadyInv(r)'
    BY <2>1 DEF ReadyInv, IdlSteps, IdlAccepts, TypeOK
  <2> QED
    BY <2>1, <2>2, CalmStep DEF Landing, TypeOK
<1>9. CASE IdlFails(r)
  <2>1. /\ pc[r] \in {"init", "write", "set"} /\ status[r] = "running" /\ Disturbs(r)
        /\ UNCHANGED <<idl, job, inflight, pc>>
        /\ status' = [status EXCEPT ![r] = "idl_failed"]
        /\ ~(calm[r] /\ job[r].fund)
    BY <1>0, <1>9 DEF IdlFails, At, End, chain, ReadyInv
  <2> QED
    BY <2>1, CalmStep DEF TypeOK
<1>10. CASE VerifyIdl(r)
  <2>1. /\ pc[r] = "verify" /\ status[r] = "running" /\ Disturbs(r)
        /\ UNCHANGED <<idl, job, inflight, pc>>
        /\ status' = [status EXCEPT ![r] = IF idl = r THEN "ok" ELSE "idl_failed"]
        /\ calm[r] /\ job[r].fund => idl = r
    BY <1>0, <1>10 DEF VerifyIdl, At, End, chain, ReadyInv
  <2> QED
    BY <2>1, CalmStep DEF TypeOK, Outcomes
<1> QED
  BY <1>1, <1>2, <1>3, <1>4, <1>5, <1>6, <1>7, <1>8, <1>9, <1>10 DEF Client

LEMMA CalmNext ==
    ASSUME TypeOK, OverlapInv, CalmInv, [Next]_vars
    PROVE  CalmInv'
<1>0. EndedInv
  BY DEF OverlapInv
<1>1. CASE \E r \in Runs : Client(r)
  BY <1>0, <1>1, CalmClient
<1>2. ASSUME NEW r \in Runs, Interrupted(r) PROVE CalmInv'
  <2>1. /\ DisturbsAll /\ UNCHANGED <<idl, pc, job>> /\ status[r] = "running"
        /\ inflight' \subseteq inflight \cup {r}
        /\ status' \in {[status EXCEPT ![r] = "idl_failed"], [status EXCEPT ![r] = "failed"]}
    BY <1>2 DEF Interrupted, chain
  <2>2. \A q \in Runs : /\ status[q] # "running" => status'[q] = status[q]
                        /\ status'[q] = "running" => status[q] = "running"
    BY <2>1 DEF TypeOK
  <2>3. \A q \in Runs : Active(q)' => Active(q)
    BY <2>1, <2>2 DEF Active
  <2> QED
    BY <2>1, <2>2, <2>3, CalmDisturbed
<1>3. ASSUME NEW r \in Runs, LateLands(r) PROVE CalmInv'
  <2>1. /\ DisturbsAll /\ UNCHANGED <<pc, job, status>> /\ Active(r)
        /\ \A q \in Runs : Active(q)' => Active(q)
    BY <1>3 DEF LateLands, Active
  <2>2. idl' = idl \/ (IdlLands(r) /\ pc[r] \in Landing)
    BY <1>3 DEF LateLands, LateEffect, Granted, Assigned, Created, Uploaded, CutShort, chain,
       Landing
  <2> QED
    BY <2>1, <2>2, CalmDisturbed
<1>4. CASE Spend \/ SendToProgram
  BY <1>4, CalmDisturbed DEF Spend, SendToProgram, fixed, Active
<1>5. CASE UNCHANGED vars
  BY <1>5 DEF vars, CalmInv, AloneInv, Active, ReadyInv, IdlAccepts, IdlWhole, StuckInv,
     UndisturbedDeploySucceeds, IdlBlocked
<1> QED
  BY <1>1, <1>2, <1>3, <1>4, <1>5 DEF Next

\* What a run may rely on while nothing disturbs it, and that what blocked its IDL
\* stays in the way.
THEOREM CalmInductive == Spec => []CalmInv
<1>1. TypeOK /\ OverlapInv /\ CalmInv /\ [Next]_vars => CalmInv'
  BY CalmNext
<1> QED
  BY <1>1, CalmInit, TypeCorrect, OverlapInductive, PTL DEF Spec

\* A run that funds its authority and is not disturbed deploys, whatever earlier runs
\* and transfers left at the program's address, unless it is another program's; and
\* it publishes its IDL, unless the account is another authority's, was never written
\* to its end, or may not be resized (IdlAfterDeployment).
THEOREM UndisturbedAlwaysDeploys == Spec => []UndisturbedDeploySucceeds
<1>1. CalmInv => UndisturbedDeploySucceeds
  BY DEF CalmInv
<1> QED
  BY <1>1, CalmInductive, PTL
=============================================================================
