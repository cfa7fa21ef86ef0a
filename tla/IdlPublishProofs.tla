-------------------------- MODULE IdlPublishProofs --------------------------
(***************************************************************************)
(* Theorems about IdlPublish for every number of runs, every set of        *)
(* documents and every size: the proof of each property rests on TypeOK    *)
(* and on the inductive invariant IInv of IdlPublish.                      *)
(***************************************************************************)
EXTENDS IdlPublish, SequenceTheorems, TLAPS

(* A function on 1..n is a sequence of length n: the chunks and prefixes of *)
(* a document are built this way.                                          *)
LEMMA FunctionIsSeq ==
    ASSUME NEW S, NEW n \in Nat, NEW f \in [1..n -> S]
    PROVE  f \in Seq(S) /\ Len(f) = n
OBVIOUS

(* The first n bytes of a document are a sequence of n bytes of it. *)
LEMMA PartType ==
    ASSUME NEW d \in Docs, NEW n \in 0..Size[d]
    PROVE  /\ Part(d, n) \in Seq(Bytes)
           /\ Len(Part(d, n)) = n
<1>1. \A i \in 1..n : <<d, i>> \in Bytes
  BY SizeAssumption DEF Bytes
<1>2. n \in Nat
  BY SizeAssumption
<1>3. Part(d, n) \in [1..n -> Bytes]
  BY <1>1 DEF Part
<1> QED
  BY <1>2, <1>3, FunctionIsSeq

(* A chunk is a sequence of bytes of the document, as long as what is left *)
(* of it or as MAX_WRITE_SIZE, whichever is less.                          *)
LEMMA ChunkType ==
    ASSUME NEW d \in Docs, NEW off \in Nat, off <= Size[d]
    PROVE  /\ Chunk(d, off) \in Seq(Bytes)
           /\ Len(Chunk(d, off)) = Least(MaxWrite, Size[d] - off)
           /\ Len(Chunk(d, off)) \in Nat
           /\ off + Len(Chunk(d, off)) <= Size[d]
           /\ off < Size[d] => Len(Chunk(d, off)) > 0
<1> DEFINE k == Least(MaxWrite, Size[d] - off)
<1>1. /\ k \in Nat /\ k <= Size[d] - off
      /\ off < Size[d] => k > 0
      /\ Size[d] \in Nat
  BY SizeAssumption, ConstantsAssumption DEF Least
<1>2. \A i \in 1..k : <<d, off + i>> \in Bytes
  BY <1>1 DEF Bytes
<1>3. /\ Chunk(d, off) = [i \in 1..k |-> <<d, off + i>>]
      /\ Chunk(d, off) \in [1..k -> Bytes]
  BY <1>2 DEF Chunk
<1> HIDE DEF k
<1>4. Chunk(d, off) \in Seq(Bytes) /\ Len(Chunk(d, off)) = k
  BY <1>1, <1>3, FunctionIsSeq
<1> QED
  BY <1>1, <1>4 DEF k

(* Writing the next chunk after the first m bytes yields the first bytes   *)
(* up to the end of the chunk: what makes an append-only Write enough.     *)
LEMMA PartAppend ==
    ASSUME NEW d \in Docs, NEW m \in Nat, m <= Size[d]
    PROVE  Part(d, m) \o Chunk(d, m) = Part(d, m + Len(Chunk(d, m)))
<1> DEFINE k == Least(MaxWrite, Size[d] - m)
<1>1. /\ k \in Nat /\ k = Len(Chunk(d, m)) /\ m + k <= Size[d]
      /\ m \in 0..Size[d] /\ m + k \in 0..Size[d]
  BY ChunkType, SizeAssumption, ConstantsAssumption DEF Least
<1>2. /\ Part(d, m) \in Seq(Bytes) /\ Len(Part(d, m)) = m
      /\ Part(d, m + k) \in Seq(Bytes) /\ Len(Part(d, m + k)) = m + k
      /\ Chunk(d, m) \in Seq(Bytes)
  BY <1>1, PartType, ChunkType
<1>3. /\ Chunk(d, m) = [i \in 1..k |-> <<d, m + i>>]
      /\ Part(d, m) = [i \in 1..m |-> <<d, i>>]
      /\ Part(d, m + k) = [i \in 1..(m + k) |-> <<d, i>>]
  BY DEF Chunk, Part
<1> HIDE DEF k
<1> DEFINE s == Part(d, m) \o Chunk(d, m)
<1>4. s \in Seq(Bytes) /\ Len(s) = m + k
  BY <1>1, <1>2
<1>5. ASSUME NEW i \in 1..(m + k) PROVE s[i] = Part(d, m + k)[i]
  <2>1. CASE i <= m
    BY <2>1, <1>1, <1>2, <1>3
  <2>2. CASE i > m
    <3>1. i - m \in 1..k /\ s[i] = Chunk(d, m)[i - m]
      BY <2>2, <1>1, <1>2
    <3>2. m + (i - m) = i
      BY <1>1
    <3>3. Chunk(d, m)[i - m] = <<d, i>>
      BY <3>1, <3>2, <1>3
    <3>4. Part(d, m + k)[i] = <<d, i>>
      BY <1>3
    <3> QED
      BY <3>1, <3>3, <3>4, Zenon
  <2>3. i <= m \/ i > m
    BY <1>1
  <2> QED
    BY <2>1, <2>2, <2>3, Zenon
<1>6. s = Part(d, m + k)
  <2> HIDE DEF s
  <2> QED
    BY <1>2, <1>4, <1>5, SeqEqual
<1> QED
  BY <1>1, <1>6

(* A prefix of a document inflates exactly when it is the whole of it: an  *)
(* account that holds one is decodable when its writer has finished.       *)
LEMMA PrefixInflates ==
    ASSUME NEW d \in Docs, NEW n \in 0..Size[d], NEW e \in Docs
    PROVE  Inflates(Part(d, n), e) <=> e = d /\ n = Size[d]
<1>1. /\ Size[e] \in Nat \ {0} /\ Size[d] \in Nat \ {0} /\ n \in Nat
      /\ Len(Part(d, n)) = n
  BY SizeAssumption, PartType
<1>2. \A i \in 1..n : Part(d, n)[i] = <<d, i>>
  BY DEF Part
<1>3. ASSUME Inflates(Part(d, n), e) PROVE e = d /\ n = Size[d]
  <2>1. 1 \in 1..Size[e] /\ 1 \in 1..n
    BY <1>1, <1>3 DEF Inflates
  <2>2. <<d, 1>> = <<e, 1>>
    BY <2>1, <1>2, <1>3 DEF Inflates
  <2> QED
    BY <2>2, <1>1, <1>3 DEF Inflates
<1>4. ASSUME e = d, n = Size[d] PROVE Inflates(Part(d, n), e)
  BY <1>1, <1>2, <1>4 DEF Inflates
<1> QED
  BY <1>3, <1>4

(* An account that holds a prefix is published when it holds a document.   *)
LEMMA PublishedIsWhole ==
    ASSUME PrefixInv
    PROVE  Published(idl) <=> WholeAccount(idl)
<1>1. PICK d \in Docs : \E n \in 0..Size[d] : idl.payload = Part(d, n)
  BY DEF PrefixInv
<1>2. PICK n \in 0..Size[d] : idl.payload = Part(d, n)
  BY <1>1
<1>3. \A e \in Docs : Inflates(idl.payload, e) <=> e = d /\ n = Size[d]
  BY <1>2, PrefixInflates
<1>4. \A e \in Docs : Whole(e) = Part(e, Size[e]) /\ Inflates(Whole(e), e)
  BY PrefixInflates, SizeAssumption DEF Whole
<1> QED
  BY <1>2, <1>3, <1>4 DEF Published, WholeAccount, Whole
-----------------------------------------------------------------------------
(* Type correctness.                                                       *)

(* A chunk is a sequence of bytes at any offset, the empty one at the end. *)
LEMMA ChunkIsSeq ==
    ASSUME NEW d \in Docs, NEW off \in Nat
    PROVE  Chunk(d, off) \in Seq(Bytes) /\ Len(Chunk(d, off)) \in Nat
<1>1. CASE off <= Size[d]
  BY <1>1, ChunkType
<1>2. CASE ~(off <= Size[d])
  <2>1. 1..Least(MaxWrite, Size[d] - off) = 1..0
    BY <1>2, SizeAssumption, ConstantsAssumption DEF Least
  <2>2. Chunk(d, off) \in [1..0 -> Bytes]
    BY <2>1 DEF Chunk
  <2> QED
    BY <2>2, FunctionIsSeq
<1> QED
  BY <1>1, <1>2

(* What the actions compute from typed values is typed. *)
LEMMA OperatorTypes ==
    ASSUME TypeOK, NEW p \in Publishers
    PROVE  /\ job[p] \in [doc : Docs, requested : Nat, allow : BOOLEAN, auth : Authorities]
           /\ Size[job[p].doc] \in Nat \ {0}
           /\ Required(job[p].doc) \in Nat
           /\ InitialCapacity(job[p]) \in Nat
           /\ TargetCapacity(idl, job[p]) \in Nat
           /\ ChunkOf(p) \in Seq(Bytes) /\ Len(ChunkOf(p)) \in Nat
           /\ NextOffset(p) \in Nat
           /\ HeaderLen + Len(loc[p].snap) \in Nat
<1>1. job[p] \in [doc : Docs, requested : Nat, allow : BOOLEAN, auth : Authorities]
  BY JobsAssumption DEF TypeOK
<1>2. Size[job[p].doc] \in Nat \ {0} /\ Required(job[p].doc) \in Nat
  BY <1>1, SizeAssumption, ConstantsAssumption DEF Required
<1>3. InitialCapacity(job[p]) \in Nat /\ TargetCapacity(idl, job[p]) \in Nat
  BY <1>1, <1>2, ConstantsAssumption
  DEF InitialCapacity, TargetCapacity, Most, TypeOK, Account
<1>4. ChunkOf(p) \in Seq(Bytes) /\ Len(ChunkOf(p)) \in Nat
  BY <1>1, ChunkIsSeq DEF ChunkOf, TypeOK, Locals
<1>5. NextOffset(p) \in Nat
  BY <1>4 DEF NextOffset, TypeOK, Locals
<1>6. HeaderLen + Len(loc[p].snap) \in Nat
  BY ConstantsAssumption DEF TypeOK, Locals
<1> QED
  BY <1>1, <1>2, <1>3, <1>4, <1>5, <1>6

(* The handlers return accounts. *)
LEMMA AccountTypes ==
    /\ NoAccount \in Account
    /\ \A cap \in Nat, auth \in Authorities : Fresh(cap, auth) \in Account
    /\ \A a, b \in Account : Copied(a, b) \in Account
    /\ \A a \in Account, s \in Seq(Bytes) : Appended(a, s) \in Account
    /\ \A a \in Account, n \in Nat : CanResize(a, n) => Resized(a, n) \in Account
<1>1. <<>> \in Seq(Bytes)
  OBVIOUS
<1>2. NoAccount \in Account
  BY <1>1 DEF NoAccount, Account
<1>3. \A cap \in Nat, auth \in Authorities : Fresh(cap, auth) \in Account
  BY <1>1 DEF Fresh, Account
<1>4. \A a, b \in Account : Copied(a, b) \in Account
  BY DEF Copied, Account
<1>5. ASSUME NEW a \in Account, NEW s \in Seq(Bytes) PROVE Appended(a, s) \in Account
  <2>1. a.payload \o s \in Seq(Bytes)
    BY DEF Account
  <2> QED
    BY <2>1 DEF Appended, Account
<1>6. ASSUME NEW a \in Account, NEW n \in Nat, CanResize(a, n)
      PROVE  Resized(a, n) \in Account
  <2>1. a.cap + Least(n - a.cap, Increment) \in Nat
    BY <1>6, ConstantsAssumption DEF Least, CanResize, Account
  <2> QED
    BY <2>1 DEF Resized, Account
<1> QED
  BY <1>2, <1>3, <1>4, <1>5, <1>6
LEMMA TypeInit == Init => TypeOK
<1> SUFFICES ASSUME Init PROVE TypeOK
  OBVIOUS
<1>1. \A d \in Docs : Whole(d) \in Seq(Bytes)
  BY PartType, SizeAssumption DEF Whole
<1>2. EarlierAccounts \subseteq Account
  <2>1. ASSUME NEW c \in InitialCaps, NEW d \in Docs,
               NEW au \in Authorities \cup {"nobody"}
        PROVE  [Fresh(c, au) EXCEPT !.payload = Whole(d)] \in Account
    BY <1>1, ConstantsAssumption DEF Account, Fresh
  <2> QED
    BY <2>1 DEF EarlierAccounts
<1>3. idl \in Account
  BY <1>2, AccountTypes DEF Init
<1>4. buf \in [Publishers -> [Kinds -> Account]]
  BY AccountTypes DEF Init
<1>5. loc \in [Publishers -> Locals]
  <2>1. <<>> \in Seq(Bytes)
    OBVIOUS
  <2> QED
    BY <2>1 DEF Init, Locals
<1> QED
  BY <1>3, <1>4, <1>5 DEF Init, TypeOK, Steps, TxStates

LEMMA TypeNext == TypeOK /\ [Next]_vars => TypeOK'
<1> SUFFICES ASSUME TypeOK, [Next]_vars PROVE TypeOK'
  OBVIOUS
<1> USE DEF TypeOK
<1>1. CASE UNCHANGED vars
  BY <1>1 DEF vars
<1>2. ASSUME NEW p \in Publishers, Client(p) PROVE TypeOK'
  <2> USE DEF Steps, TxSteps, LoopSteps, Errors, TxStates, Locals, Return, Goto, Consume, chain
  <2>1. CASE Begin(p)
    BY <2>1 DEF Begin
  <2>2. CASE ReadMissing(p)
    BY <2>2 DEF ReadMissing
  <2>3. CASE RefuseExisting(p)
    BY <2>3 DEF RefuseExisting, Refusal
  <2>4. CASE PlanUpgrade(p)
    BY <2>4, OperatorTypes DEF PlanUpgrade, AfterResize, Account
  <2>5. CASE Submit(p)
    BY <2>5 DEF Submit
  <2>6. CASE LeaveLoop(p)
    BY <2>6 DEF LeaveLoop
  <2>7. CASE ConfirmCall(p)
    <3>1. Least(InitialCapacity(job[p]), Increment) \in Nat
      BY OperatorTypes, ConstantsAssumption DEF Least
    <3>2. loc' \in [Publishers -> Locals]
      <4>1. CASE pc[p] = "create"
        <5>1. loc' = [loc EXCEPT ![p] =
                        [loc[p] EXCEPT !.cur = Least(InitialCapacity(job[p]), Increment),
                                       !.target = InitialCapacity(job[p])]]
          BY <2>7, <4>1 DEF ConfirmCall
        <5> QED
          BY <3>1, <5>1, OperatorTypes
      <4>2. CASE pc[p] # "create"
        <5>1. loc' = [loc EXCEPT ![p] = loc[p]]
          BY <2>7, <4>2 DEF ConfirmCall
        <5> QED
          BY <5>1
      <4> QED
        BY <4>1, <4>2
    <3> QED
      BY <2>7, <3>2 DEF ConfirmCall
  <2>8. CASE ConfirmResize(p)
    <3>1. NextSpace(loc[p].cur, loc[p].target) \in Nat
      BY ConstantsAssumption DEF NextSpace, Least
    <3>2. loc' = [loc EXCEPT ![p] =
                    [loc[p] EXCEPT !.cur = NextSpace(loc[p].cur, loc[p].target)]]
      BY <2>8 DEF ConfirmResize
    <3>3. loc' \in [Publishers -> Locals]
      BY <3>1, <3>2
    <3> QED
      BY <2>8, <3>3 DEF ConfirmResize
  <2>9. CASE ConfirmWrite(p)
    BY <2>9, OperatorTypes DEF ConfirmWrite
  <2>10. CASE ConfirmFailure(p)
    BY <2>10 DEF ConfirmFailure
  <2>11. CASE CheckBackup(p)
    BY <2>11 DEF CheckBackup
  <2>12. CASE Reread(p)
    BY <2>12 DEF Reread, ResizeDefect, AfterResize
  <2>13. CASE Verify(p)
    BY <2>13 DEF Verify, PublicationDefect
  <2> QED
    BY <1>2, <2>1, <2>2, <2>3, <2>4, <2>5, <2>6, <2>7, <2>8, <2>9, <2>10, <2>11, <2>12, <2>13
    DEF Client
<1>3. ASSUME NEW p \in Publishers, Land(p) PROVE TypeOK'
  <2> USE DEF TxStates, Lands, PutBuffer, Kinds, chain
  <2>0. /\ job[p].auth \in Authorities
        /\ idl \in Account
        /\ \A k \in Kinds : buf[p][k] \in Account
    BY OperatorTypes
  <2>1. CASE LandCreate(p)
    <3>1. Least(InitialCapacity(job[p]), Increment) \in Nat
      BY OperatorTypes, ConstantsAssumption DEF Least
    <3> QED
      BY <2>0, <2>1, <3>1, AccountTypes DEF LandCreate
  <2>2. CASE LandGrow(p)
    <3>1. idl' \in Account
      BY <2>2, AccountTypes DEF LandGrow, Accepts, Locals
    <3> QED
      BY <2>2, <3>1 DEF LandGrow
  <2>3. CASE LandWrite(p)
    <3>1. idl' \in Account
      BY <2>3, AccountTypes, OperatorTypes DEF LandWrite
    <3> QED
      BY <2>3, <3>1 DEF LandWrite
  <2>4. CASE LandBackup(p)
    <3>1. Copied(idl, Fresh(HeaderLen + Len(loc[p].snap), job[p].auth)) \in Account
      BY <2>0, AccountTypes, OperatorTypes
    <3> QED
      BY <2>4, <3>1 DEF LandBackup
  <2>5. CASE LandEmpty(p)
    <3>1. Fresh(HeaderLen, job[p].auth) \in Account
      BY <2>0, AccountTypes, ConstantsAssumption
    <3> QED
      BY <2>5, <3>1 DEF LandEmpty
  <2>6. CASE LandSwap(p)
    <3>1. CanResize(Copied(buf[p]["empty"], idl), loc[p].target)
      BY <2>6 DEF LandSwap, Accepts
    <3>2. loc[p].target \in Nat
      BY DEF Locals
    <3>3. Copied(buf[p]["empty"], idl) \in Account
      BY <2>0, AccountTypes
    <3>4. Resized(Copied(buf[p]["empty"], idl), loc[p].target) \in Account
      BY <3>1, <3>2, <3>3, AccountTypes
    <3>5. Swapped(p) \in Account
      BY <2>0, <3>4, AccountTypes DEF Swapped
    <3>6. buf' \in [Publishers -> [Kinds -> Account]]
      BY <2>6, AccountTypes DEF LandSwap
    <3> QED
      BY <2>6, <3>5, <3>6 DEF LandSwap
  <2>7. CASE LandBuffer(p)
    <3>1. Fresh(Required(job[p].doc), job[p].auth) \in Account
      BY <2>0, AccountTypes, OperatorTypes
    <3> QED
      BY <2>7, <3>1 DEF LandBuffer
  <2>8. CASE LandUpload(p)
    <3>1. Appended(buf[p]["upgrade"], ChunkOf(p)) \in Account
      BY <2>0, AccountTypes, OperatorTypes
    <3> QED
      BY <2>8, <3>1 DEF LandUpload
  <2>9. CASE LandSet(p)
    <3>1. idl' \in Account
      BY <2>0, <2>9, AccountTypes DEF LandSet
    <3> QED
      BY <2>9, <3>1 DEF LandSet
  <2>10. CASE RejectTx(p)
    BY <2>10 DEF RejectTx
  <2> QED
    BY <1>3, <2>1, <2>2, <2>3, <2>4, <2>5, <2>6, <2>7, <2>8, <2>9, <2>10 DEF Land
<1>4. ASSUME NEW p \in Publishers, Stop(p) PROVE TypeOK'
  BY <1>4 DEF Stop, Return, chain, Errors
<1> QED
  BY <1>1, <1>2, <1>3, <1>4 DEF Next

(* Every variable keeps its type in every behaviour. *)
THEOREM TypeCorrect == Spec => []TypeOK
BY TypeInit, TypeNext, PTL DEF Spec
-----------------------------------------------------------------------------
(* The inductive invariant.                                                *)

LEMMA InvInit == Init => IInv
<1> SUFFICES ASSUME Init PROVE IInv
  OBVIOUS
<1>1. PICK d0 \in Docs : TRUE
  BY SizeAssumption
<1>2. Part(d0, 0) = <<>> /\ 0 \in 0..Size[d0]
  BY SizeAssumption DEF Part
<1>3. ASSUME NEW a \in EarlierAccounts
      PROVE  a.live /\ \E d \in Docs : \E n \in 0..Size[d] : a.payload = Part(d, n)
  <2>1. PICK c \in InitialCaps, d \in Docs, au \in Authorities \cup {"nobody"} :
            a = [Fresh(c, au) EXCEPT !.payload = Whole(d)]
    BY DEF EarlierAccounts
  <2>2. a.live /\ a.payload = Whole(d)
    BY <2>1 DEF Fresh
  <2> QED
    BY <2>2, SizeAssumption DEF Whole
<1>4. PrefixInv
  <2>1. CASE idl = NoAccount
    BY <2>1, <1>2 DEF PrefixInv, NoAccount
  <2>2. CASE idl \in EarlierAccounts
    BY <2>2, <1>3 DEF PrefixInv
  <2> QED
    BY <2>1, <2>2 DEF Init
<1>5. OneFiller
  BY DEF Init, OneFiller, Filling
<1>6. ASSUME NEW p \in Publishers PROVE RunInv(p)
  <2>1. Size[job[p].doc] \in Nat
    BY JobsAssumption, SizeAssumption DEF Init
  <2> QED
    BY <2>1 DEF Init, RunInv, FillingInv, UpdatingInv, BufferInv, OffsetInv, Filling,
                Updating, NoAccount, Kinds
<1> QED
  BY <1>4, <1>5, <1>6 DEF IInv

(* What the invariant says of a run depends on nothing of other runs but   *)
(* the canonical account.                                                  *)
LEMMA RunFrame ==
    ASSUME NEW q \in Publishers, job' = job,
           pc'[q] = pc[q], tx'[q] = tx[q], loc'[q] = loc[q], buf'[q] = buf[q]
    PROVE  /\ Filling(q)' <=> Filling(q)
           /\ Updating(q)' <=> Updating(q)
           /\ LandedOffset(q)' = LandedOffset(q)
           /\ BufferInv(q) => BufferInv(q)'
           /\ OffsetInv(q) => OffsetInv(q)'
           /\ idl' = idl /\ RunInv(q) => RunInv(q)'
<1>1. ChunkOf(q)' = ChunkOf(q) /\ NextOffset(q)' = NextOffset(q)
  BY DEF ChunkOf, NextOffset
<1>2. LandedOffset(q)' = LandedOffset(q)
  BY <1>1 DEF LandedOffset
<1>3. /\ Filling(q)' <=> Filling(q)
      /\ Updating(q)' <=> Updating(q)
  BY <1>2 DEF Filling, Updating
<1>4. /\ BufferInv(q) => BufferInv(q)'
      /\ OffsetInv(q) => OffsetInv(q)'
  BY <1>2 DEF BufferInv, OffsetInv
<1>5. ASSUME idl' = idl, RunInv(q) PROVE RunInv(q)'
  BY <1>2, <1>3, <1>4, <1>5 DEF RunInv, FillingInv, UpdatingInv
<1> QED
  BY <1>2, <1>3, <1>4, <1>5

(* Bytes landed stay within the document. *)
LEMMA LandedBound ==
    ASSUME TypeOK, NEW p \in Publishers, OffsetInv(p)
    PROVE  /\ LandedOffset(p) \in 0..Size[job[p].doc]
           /\ NextOffset(p) \in 0..Size[job[p].doc]
           /\ Size[job[p].doc] \in Nat \ {0}
           /\ job[p].doc \in Docs
<1>1. job[p].doc \in Docs /\ loc[p].off \in Nat /\ loc[p].off <= Size[job[p].doc]
  BY OperatorTypes DEF OffsetInv, TypeOK, Locals
<1>2. Size[job[p].doc] \in Nat \ {0}
  BY <1>1, SizeAssumption
<1>3. NextOffset(p) \in 0..Size[job[p].doc]
  BY <1>1, <1>2, ChunkType DEF NextOffset, ChunkOf
<1> QED
  BY <1>1, <1>2, <1>3 DEF LandedOffset
(* A step of the client process changes no account: it only has to find    *)
(* what the invariant promises at the call it moves to.                    *)
LEMMA InvClient ==
    ASSUME TypeOK, TypeOK', IInv, NEW p \in Publishers, Client(p) \/ Stop(p)
    PROVE  IInv'
<1> USE DEF Return, Goto, Consume, chain
<1>1. /\ idl' = idl /\ buf' = buf /\ job' = job
      /\ \A q \in Publishers \ {p} : /\ pc'[q] = pc[q] /\ tx'[q] = tx[q]
                                     /\ loc'[q] = loc[q]
  BY DEF Client, Stop, Begin, ReadMissing, RefuseExisting, PlanUpgrade, Submit, LeaveLoop,
         ConfirmCall, ConfirmResize, ConfirmWrite, ConfirmFailure, CheckBackup, Reread,
         Verify, TypeOK
<1>2. PrefixInv'
  BY <1>1 DEF IInv, PrefixInv
<1>3. ASSUME NEW q \in Publishers, q # p
      PROVE  RunInv(q)' /\ (Filling(q)' <=> Filling(q))
  BY <1>1, <1>3, RunFrame DEF IInv
<1>4. /\ job[p].doc \in Docs /\ Size[job[p].doc] \in Nat \ {0}
      /\ loc[p].off \in Nat /\ LandedOffset(p) \in 0..Size[job[p].doc]
      /\ NextOffset(p) \in 0..Size[job[p].doc]
      /\ RunInv(p)
  BY LandedBound DEF IInv, RunInv, TypeOK, Locals
<1>5. /\ Published(idl) => WholeAccount(idl)
      /\ Part(job[p].doc, 0) = <<>>
      /\ Whole(job[p].doc) = Part(job[p].doc, Size[job[p].doc])
  BY PublishedIsWhole DEF IInv, Part, Whole
<1>6. RunInv(p)' /\ (Filling(p)' => Filling(p))
  <2> USE <1>1, <1>4 DEF RunInv, At, Running
  <2>1. CASE UNCHANGED <<pc, tx, loc>>
    <3>1. pc'[p] = pc[p] /\ tx'[p] = tx[p] /\ loc'[p] = loc[p] /\ buf'[p] = buf[p]
      BY <2>1
    <3> QED
      BY <3>1, RunFrame
  <2> USE DEF FillingInv, UpdatingInv, BufferInv, OffsetInv, Filling, Updating
  <2>2. CASE Begin(p) /\ pc' # pc
    BY <2>2 DEF Begin, TypeOK
  <2>3. CASE ReadMissing(p)
    BY <2>3 DEF ReadMissing, TypeOK
  <2>4. CASE PlanUpgrade(p)
    <3>1. WholeAccount(idl)
      BY <2>4, <1>5 DEF PlanUpgrade, Refusal
    <3>2. pc'[p] \in {"backup", "verify", "buffer"} /\ pc[p] = "read"
      BY <2>4 DEF PlanUpgrade, AfterResize, TypeOK
    <3>3. loc'[p].off = loc[p].off /\ tx'[p] = "none"
      BY <2>4 DEF PlanUpgrade, TypeOK, Locals
    <3> QED
      BY <3>1, <3>2, <3>3 DEF WholeAccount
  <2>5. CASE Submit(p)
    <3>1. /\ pc'[p] = pc[p] /\ loc'[p] = loc[p] /\ tx[p] = "none" /\ tx'[p] = "pending"
          /\ pc[p] \in {"write", "upload"} => loc[p].off < Size[job[p].doc]
      BY <2>5 DEF Submit, Due, TypeOK, TxSteps, LoopSteps
    <3>2. LandedOffset(p)' = LandedOffset(p)
      BY <3>1 DEF LandedOffset
    <3> QED
      BY <3>1, <3>2 DEF WholeAccount
  <2>6. CASE LeaveLoop(p)
    <3>1. /\ tx[p] = "none" /\ tx'[p] = "none" /\ loc'[p] = loc[p]
          /\ \/ pc[p] = "grow" /\ pc'[p] = "write"
             \/ pc[p] = "write" /\ pc'[p] = "verify"
             \/ pc[p] = "swap" /\ pc'[p] = "reread"
             \/ pc[p] = "upload" /\ pc'[p] = "set" /\ loc[p].off = Size[job[p].doc]
      BY <2>6 DEF LeaveLoop, Due, LoopSteps, TypeOK
    <3>2. LandedOffset(p) = loc[p].off /\ LandedOffset(p)' = loc[p].off
      BY <3>1 DEF LandedOffset
    <3> QED
      BY <3>1, <3>2, <1>5 DEF WholeAccount
  <2>7. CASE ConfirmCall(p)
    <3>1. /\ tx[p] = "processed" /\ tx'[p] = "none" /\ loc'[p].off = loc[p].off
          /\ \/ pc[p] = "create" /\ pc'[p] = "grow"
             \/ pc[p] = "backup" /\ pc'[p] = "check"
             \/ pc[p] = "empty" /\ pc'[p] = "swap"
             \/ pc[p] = "buffer" /\ pc'[p] = "upload"
             \/ pc[p] = "set" /\ pc'[p] = "verify"
      BY <2>7 DEF ConfirmCall, Settled, LoopSteps, TxSteps, TypeOK, Locals
    <3>2. LandedOffset(p)' = loc[p].off
      BY <3>1 DEF LandedOffset
    <3> QED
      BY <3>1, <3>2, <1>5 DEF WholeAccount
  <2>8. CASE ConfirmResize(p)
    <3>1. /\ pc[p] \in {"grow", "swap"} /\ pc'[p] = pc[p] /\ tx'[p] = "none"
          /\ loc'[p].off = loc[p].off
      BY <2>8 DEF ConfirmResize, Settled, TypeOK, Locals
    <3> QED
      BY <3>1 DEF WholeAccount
  <2>9. CASE ConfirmWrite(p)
    <3>1. /\ pc[p] \in {"write", "upload"} /\ pc'[p] = pc[p]
          /\ tx[p] = "processed" /\ tx'[p] = "none" /\ loc'[p].off = NextOffset(p)
      BY <2>9 DEF ConfirmWrite, Settled, TypeOK, Locals
    <3>2. LandedOffset(p)' = LandedOffset(p) /\ LandedOffset(p) = NextOffset(p)
      BY <3>1 DEF LandedOffset
    <3> QED
      BY <3>1, <3>2 DEF WholeAccount
  <2>10. CASE CheckBackup(p) /\ pc' # pc
    <3>1. /\ pc[p] = "check" /\ pc'[p] = "empty" /\ tx'[p] = tx[p] /\ loc'[p] = loc[p]
      BY <2>10 DEF CheckBackup, TypeOK
    <3> QED
      BY <3>1 DEF WholeAccount
  <2>11. CASE Reread(p) /\ pc' # pc
    <3>1. /\ pc[p] = "reread" /\ pc'[p] \in {"verify", "buffer"}
          /\ tx'[p] = "none" /\ loc'[p] = loc[p]
      BY <2>11 DEF Reread, AfterResize, TypeOK
    <3> QED
      BY <3>1 DEF WholeAccount
  <2>12. CASE Verify(p) /\ pc' # pc
    <3>1. pc[p] = "verify" /\ pc'[p] = "end" /\ tx'[p] = tx[p] /\ loc'[p] = loc[p]
      BY <2>12 DEF Verify, TypeOK
    <3> QED
      BY <3>1 DEF WholeAccount
  <2> QED
    BY <2>1, <2>2, <2>3, <2>4, <2>5, <2>6, <2>7, <2>8, <2>9, <2>10, <2>11, <2>12
    DEF Client, Begin, RefuseExisting, ConfirmFailure, CheckBackup, Reread, Verify, Stop
<1>7. OneFiller'
  BY <1>3, <1>6 DEF IInv, OneFiller
<1> QED
  BY <1>2, <1>3, <1>6, <1>7 DEF IInv
(* While its creator is still writing, the account holds no whole document. *)
LEMMA FillingExcludesWhole ==
    ASSUME TypeOK, IInv, NEW p \in Publishers, Filling(p)
    PROVE  ~WholeAccount(idl)
<1>1. /\ job[p].doc \in Docs /\ Size[job[p].doc] \in Nat \ {0}
      /\ LandedOffset(p) \in 0..Size[job[p].doc]
  BY LandedBound DEF IInv, RunInv
<1>2. \A d \in Docs : Inflates(Whole(d), d)
  BY PrefixInflates, SizeAssumption DEF Whole
<1>3. \A d \in Docs : ~Inflates(<<>>, d)
  BY SizeAssumption DEF Inflates
<1>4. CASE idl.payload = <<>>
  BY <1>2, <1>3, <1>4 DEF WholeAccount
<1>5. CASE idl.payload = Part(job[p].doc, LandedOffset(p)) /\ LandedOffset(p) < Size[job[p].doc]
  <2>1. \A d \in Docs : ~Inflates(idl.payload, d)
    BY <1>1, <1>5, PrefixInflates
  <2> QED
    BY <1>2, <2>1 DEF WholeAccount
<1> QED
  BY <1>4, <1>5 DEF IInv, RunInv, FillingInv, Filling

(* An executed transaction preserves the invariant: it writes into the     *)
(* canonical account only what its run's place in the protocol allows.     *)
LEMMA InvLand ==
    ASSUME TypeOK, TypeOK', IInv, NEW p \in Publishers, Land(p)
    PROVE  IInv'
<1> USE DEF Lands, PutBuffer, chain
<1>1. /\ pc' = pc /\ loc' = loc /\ job' = job
      /\ tx[p] = "pending" /\ tx'[p] \in {"processed", "failed"}
      /\ \A q \in Publishers \ {p} : tx'[q] = tx[q] /\ buf'[q] = buf[q]
  BY DEF Land, LandCreate, LandGrow, LandWrite, LandBackup, LandEmpty, LandSwap, LandBuffer,
         LandUpload, LandSet, RejectTx, TypeOK
<1>2. /\ job[p].doc \in Docs /\ Size[job[p].doc] \in Nat \ {0}
      /\ loc[p].off \in Nat /\ LandedOffset(p) = loc[p].off
      /\ NextOffset(p) \in 0..Size[job[p].doc] /\ NextOffset(p)' = NextOffset(p)
      /\ LandedOffset(p)' = IF tx'[p] = "processed" THEN NextOffset(p) ELSE loc[p].off
      /\ RunInv(p)
  BY <1>1, LandedBound DEF IInv, RunInv, TypeOK, Locals, LandedOffset, NextOffset, ChunkOf
<1>3. \A q \in Publishers \ {p} :
          /\ Filling(q)' <=> Filling(q)
          /\ Updating(q)' <=> Updating(q)
          /\ LandedOffset(q)' = LandedOffset(q)
          /\ BufferInv(q)' /\ OffsetInv(q)'
          /\ idl' = idl => RunInv(q)'
          /\ RunInv(q)
  BY <1>1, RunFrame DEF IInv, RunInv
<1>4. OffsetInv(p)'
  BY <1>1, <1>2 DEF RunInv, OffsetInv
<1>5. Published(idl) <=> WholeAccount(idl)
  BY PublishedIsWhole DEF IInv
<1>6. /\ pc[p] \in {"write", "upload"} =>
             Part(job[p].doc, loc[p].off) \o ChunkOf(p) = Part(job[p].doc, NextOffset(p))
      /\ Part(job[p].doc, 0) = <<>>
  <2>1. Part(job[p].doc, 0) = <<>>
    BY DEF Part
  <2>2. loc[p].off <= Size[job[p].doc]
    BY <1>2 DEF RunInv, OffsetInv
  <2> QED
    BY <1>2, <2>1, <2>2, PartAppend DEF ChunkOf, NextOffset
<1>7. CASE LandCreate(p)
  <2>1. /\ pc[p] = "create" /\ ~idl.live /\ tx'[p] = "processed" /\ buf' = buf
        /\ idl'.live /\ idl'.payload = <<>>
    BY <1>7, <1>1 DEF LandCreate, Accepts, Fresh, TypeOK
  <2>2. \A q \in Publishers \ {p} : ~Filling(q) /\ RunInv(q)'
    BY <2>1, <1>1, <1>3 DEF RunInv, FillingInv, UpdatingInv, WholeAccount
  <2>3. RunInv(p)'
    BY <2>1, <1>1, <1>2, <1>4
    DEF RunInv, FillingInv, UpdatingInv, BufferInv, Updating, Filling
  <2>4. PrefixInv'
    BY <2>1, <1>2, <1>6 DEF PrefixInv
  <2> QED
    BY <2>2, <2>3, <2>4, <1>3 DEF IInv, OneFiller
<1>8. CASE LandGrow(p)
  <2>1. /\ pc[p] = "grow" /\ tx'[p] = "processed" /\ buf' = buf
        /\ idl'.live = idl.live /\ idl'.payload = idl.payload
    BY <1>8, <1>1 DEF LandGrow, Resized, TypeOK, Account
  <2>2. /\ WholeAccount(idl') <=> WholeAccount(idl)
        /\ PrefixInv'
    BY <2>1 DEF WholeAccount, PrefixInv, IInv
  <2>3. \A q \in Publishers \ {p} : RunInv(q)'
    BY <2>1, <2>2, <1>1, <1>3 DEF RunInv, FillingInv, UpdatingInv
  <2>4. RunInv(p)' /\ Filling(p)
    BY <2>1, <1>1, <1>2, <1>4
    DEF RunInv, FillingInv, UpdatingInv, BufferInv, Updating, Filling
  <2> QED
    BY <2>2, <2>3, <2>4, <1>3 DEF IInv, OneFiller
<1>9. CASE LandWrite(p)
  <2>1. /\ pc[p] = "write" /\ tx'[p] = "processed" /\ buf' = buf
        /\ idl'.live = idl.live /\ idl'.payload = idl.payload \o ChunkOf(p)
    BY <1>9, <1>1 DEF LandWrite, Appended, TypeOK, Account
  <2>2. Filling(p) /\ idl.live /\ idl.payload = Part(job[p].doc, loc[p].off)
    BY <2>1, <1>1, <1>2 DEF RunInv, FillingInv, OffsetInv, Filling
  <2>3. idl'.payload = Part(job[p].doc, NextOffset(p))
    BY <2>1, <2>2, <1>6
  <2>4. \A q \in Publishers \ {p} : ~Filling(q) /\ RunInv(q)'
    <3>1. ~WholeAccount(idl)
      BY <2>2, FillingExcludesWhole
    <3>2. \A q \in Publishers \ {p} : ~Filling(q)
      BY <2>2 DEF IInv, OneFiller
    <3> QED
      BY <3>1, <3>2, <1>1, <1>3 DEF RunInv, FillingInv, UpdatingInv
  <2>5. NextOffset(p) = Size[job[p].doc] => WholeAccount(idl)'
    BY <2>1, <2>2, <2>3, <1>1, <1>2 DEF WholeAccount, Whole
  <2>6. RunInv(p)'
    BY <2>1, <2>2, <2>3, <2>5, <1>1, <1>2, <1>4
    DEF RunInv, FillingInv, UpdatingInv, BufferInv, Updating, Filling
  <2>7. PrefixInv'
    BY <2>1, <2>2, <2>3, <1>2 DEF PrefixInv
  <2> QED
    BY <2>4, <2>6, <2>7, <1>3 DEF IInv, OneFiller
<1>10. ASSUME LandSwap(p) \/ LandSet(p) PROVE IInv'
  <2>1. /\ pc[p] \in {"swap", "set"} /\ WholeAccount(idl) /\ tx'[p] = "processed"
    BY <1>10, <1>1, <1>2 DEF LandSwap, LandSet, RunInv, UpdatingInv, Updating, TypeOK
  <2>2. WholeAccount(idl)'
    <3>1. CASE LandSwap(p)
      <4>1. buf[p]["backup"].live
        BY <3>1 DEF LandSwap, Accepts, Owned
      <4>2. PICK d \in Docs : buf[p]["backup"].payload = Whole(d)
        BY <4>1, <1>2 DEF RunInv, BufferInv, WholeAccount
      <4>3. idl'.live = idl.live /\ idl'.payload = buf[p]["backup"].payload
        BY <3>1 DEF LandSwap, Swapped, Copied, Resized, TypeOK, Account
      <4> QED
        BY <4>2, <4>3, <2>1 DEF WholeAccount, Whole, Part
    <3>2. CASE LandSet(p)
      <4>1. idl'.live = idl.live /\ idl'.payload = buf[p]["upgrade"].payload
        BY <3>2 DEF LandSet, Copied, TypeOK, Account
      <4>2. buf[p]["upgrade"].payload = Whole(job[p].doc)
        BY <3>2, <1>2 DEF LandSet, RunInv, BufferInv
      <4> QED
        BY <4>1, <4>2, <2>1, <1>2 DEF WholeAccount, Whole, Part
    <3> QED
      BY <3>1, <3>2, <1>10
  <2>3. \A q \in Publishers : ~Filling(q)
    BY <2>1, FillingExcludesWhole
  <2>4. ~Filling(p)'
    BY <2>1, <1>1 DEF Filling
  <2>5. \A q \in Publishers \ {p} : RunInv(q)'
    BY <2>2, <2>3, <1>3 DEF RunInv, FillingInv, UpdatingInv
  <2>6. BufferInv(p)'
    <3>1. CASE LandSwap(p)
      <4>1. /\ pc[p] = "swap"
            /\ \/ buf'[p] = buf[p]
               \/ /\ ~buf'[p]["backup"].live
                  /\ buf'[p]["empty"].payload = <<>>
        BY <3>1 DEF LandSwap, NoAccount, TypeOK, Kinds
      <4> QED
        BY <4>1, <1>1, <1>2 DEF RunInv, BufferInv
    <3>2. CASE LandSet(p)
      BY <3>2, <1>1, <1>2 DEF LandSet, RunInv, BufferInv
    <3> QED
      BY <3>1, <3>2, <1>10
  <2>7. RunInv(p)'
    BY <2>2, <2>4, <2>6, <1>4 DEF RunInv, FillingInv, UpdatingInv
  <2>8. PrefixInv'
    BY <2>2, SizeAssumption DEF PrefixInv, WholeAccount, Whole
  <2> QED
    BY <2>3, <2>4, <2>5, <2>7, <2>8, <1>3 DEF IInv, OneFiller
<1>11. ASSUME LandBackup(p) \/ LandEmpty(p) \/ LandBuffer(p) \/ LandUpload(p) \/ RejectTx(p)
       PROVE  IInv'
  <2>1. idl' = idl
    BY <1>11 DEF LandBackup, LandEmpty, LandBuffer, LandUpload, RejectTx
  <2>2. PrefixInv'
    BY <2>1 DEF IInv, PrefixInv
  <2>3. Filling(p)' => Filling(p) /\ LandedOffset(p)' = LandedOffset(p)
    BY <1>11, <1>1, <1>2
    DEF LandBackup, LandEmpty, LandBuffer, LandUpload, RejectTx, Filling, TypeOK
  <2>4. FillingInv(p)' /\ UpdatingInv(p)'
    <3>1. CASE RejectTx(p)
      BY <3>1, <2>1, <2>3, <1>1, <1>2
      DEF RejectTx, RunInv, FillingInv, UpdatingInv, Updating, Filling, TypeOK, WholeAccount
    <3>2. CASE ~RejectTx(p)
      <4>1. pc[p] \in {"backup", "empty", "buffer", "upload"}
        BY <3>2, <1>11 DEF LandBackup, LandEmpty, LandBuffer, LandUpload
      <4> QED
        BY <4>1, <2>1, <1>1, <1>2
        DEF RunInv, FillingInv, UpdatingInv, Updating, Filling, WholeAccount
    <3> QED
      BY <3>1, <3>2
  <2>5. BufferInv(p)'
    <3>1. CASE LandBackup(p)
      <4>1. WholeAccount(idl) /\ pc[p] = "backup"
        BY <3>1, <1>2 DEF LandBackup, RunInv, UpdatingInv, Updating
      <4>2. /\ buf'[p]["backup"].payload = idl.payload
            /\ buf'[p]["empty"] = buf[p]["empty"]
        BY <3>1 DEF LandBackup, Copied, Fresh, TypeOK, Kinds
      <4>3. WholeAccount(buf[p]["backup"])' \/ ~buf'[p]["backup"].live
        BY <4>1, <4>2 DEF WholeAccount, Whole, Part
      <4> QED
        BY <4>1, <4>2, <4>3, <1>1, <1>2 DEF RunInv, BufferInv
    <3>2. CASE LandEmpty(p)
      <4>1. /\ pc[p] = "empty" /\ buf'[p]["empty"].payload = <<>>
            /\ buf'[p]["backup"] = buf[p]["backup"]
        BY <3>2 DEF LandEmpty, Fresh, TypeOK, Kinds
      <4> QED
        BY <4>1, <1>1, <1>2 DEF RunInv, BufferInv, WholeAccount
    <3>3. CASE LandBuffer(p)
      <4>1. /\ pc[p] = "buffer" /\ buf'[p]["upgrade"].payload = <<>>
            /\ buf'[p]["backup"] = buf[p]["backup"] /\ buf'[p]["empty"] = buf[p]["empty"]
        BY <3>3 DEF LandBuffer, Fresh, TypeOK, Kinds
      <4> QED
        BY <4>1, <1>1, <1>2 DEF RunInv, BufferInv, WholeAccount
    <3>4. CASE LandUpload(p)
      <4>1. /\ pc[p] = "upload" /\ tx'[p] = "processed"
            /\ buf'[p]["backup"] = buf[p]["backup"] /\ buf'[p]["empty"] = buf[p]["empty"]
            /\ buf'[p]["upgrade"].payload = buf[p]["upgrade"].payload \o ChunkOf(p)
        BY <3>4, <1>1 DEF LandUpload, Appended, TypeOK, Kinds, Account
      <4>2. buf'[p]["upgrade"].payload = Part(job[p].doc, NextOffset(p))
        BY <4>1, <1>2, <1>6 DEF RunInv, BufferInv
      <4> QED
        BY <4>1, <4>2, <1>1, <1>2 DEF RunInv, BufferInv, WholeAccount
    <3>5. CASE RejectTx(p)
      <4>1. buf' = buf /\ tx'[p] = "failed"
        BY <3>5, <1>1 DEF RejectTx, TypeOK
      <4> QED
        BY <4>1, <1>1, <1>2 DEF RunInv, BufferInv, WholeAccount
    <3> QED
      BY <3>1, <3>2, <3>3, <3>4, <3>5, <1>11
  <2>6. \A q \in Publishers : RunInv(q)'
    BY <2>1, <2>4, <2>5, <1>3, <1>4 DEF RunInv
  <2>7. OneFiller'
    BY <2>3, <1>3 DEF IInv, OneFiller
  <2> QED
    BY <2>2, <2>6, <2>7 DEF IInv
<1> QED
  BY <1>7, <1>8, <1>9, <1>10, <1>11 DEF Land
LEMMA InvNext == TypeOK /\ TypeOK' /\ IInv /\ [Next]_vars => IInv'
<1> SUFFICES ASSUME TypeOK, TypeOK', IInv, [Next]_vars PROVE IInv'
  OBVIOUS
<1>1. CASE UNCHANGED vars
  <2>1. \A q \in Publishers : RunInv(q)' /\ (Filling(q)' <=> Filling(q))
    BY <1>1, RunFrame DEF vars, IInv
  <2> QED
    BY <1>1, <2>1 DEF vars, IInv, OneFiller, PrefixInv
<1>2. CASE Next
  BY <1>2, InvClient, InvLand DEF Next
<1> QED
  BY <1>1, <1>2

(* IInv holds in every reachable state. *)
THEOREM Inductive == Spec => []IInv
BY TypeInit, TypeNext, InvInit, InvNext, PTL DEF Spec

(* The account always holds the beginning of one document: chunks of two   *)
(* runs, or of two documents, are never mixed.                             *)
THEOREM PayloadNeverMixed == Spec => []NeverMixed
<1>1. IInv => NeverMixed
  BY DEF IInv, PrefixInv, NeverMixed
<1> QED
  BY <1>1, Inductive, PTL

(* A step that executes a transaction keeps a whole account whole. *)
LEMMA WholeNext ==
    TypeOK /\ TypeOK' /\ IInv /\ IInv' /\ [Next]_vars =>
        (WholeAccount(idl) => WholeAccount(idl)')
<1> SUFFICES ASSUME TypeOK, TypeOK', IInv, IInv', [Next]_vars, WholeAccount(idl)
             PROVE  WholeAccount(idl)'
  OBVIOUS
<1>1. CASE idl' = idl
  BY <1>1 DEF WholeAccount, Whole, Part
<1>2. ASSUME NEW p \in Publishers, Land(p), idl' # idl PROVE WholeAccount(idl)'
  <2>1. ~Filling(p) /\ idl.live /\ RunInv(p)
    BY FillingExcludesWhole DEF WholeAccount, IInv
  <2>2. tx[p] = "pending" /\ LandedOffset(p) = loc[p].off /\ pc' = pc
    BY <1>2 DEF Land, Lands, LandCreate, LandGrow, LandWrite, LandBackup, LandEmpty, LandSwap,
                LandBuffer, LandUpload, LandSet, RejectTx, LandedOffset, chain
  <2>3. ~LandCreate(p)
    BY <2>1 DEF LandCreate, Lands, Accepts
  <2>4. ~LandGrow(p) /\ ~LandWrite(p)
    BY <2>1, <2>2 DEF LandGrow, LandWrite, Lands, Filling, RunInv, OffsetInv
  <2>5. CASE LandSwap(p) \/ LandSet(p)
    <3>1. pc'[p] \in {"swap", "set"}
      BY <2>5, <2>2 DEF LandSwap, LandSet, Lands
    <3>2. UpdatingInv(p)'
      BY DEF IInv, RunInv
    <3> QED
      BY <3>1, <3>2 DEF UpdatingInv, Updating
  <2> QED
    BY <1>2, <2>3, <2>4, <2>5
    DEF Land, LandBackup, LandEmpty, LandBuffer, LandUpload, RejectTx, chain
<1>3. ASSUME NEW p \in Publishers, Client(p) \/ Stop(p) PROVE idl' = idl
  BY <1>3 DEF Client, Stop, Begin, ReadMissing, RefuseExisting, PlanUpgrade, Submit, LeaveLoop,
              ConfirmCall, ConfirmResize, ConfirmWrite, ConfirmFailure, CheckBackup, Reread,
              Verify, chain
<1> QED
  BY <1>1, <1>2, <1>3 DEF Next, vars

(* No step of anybody makes a published document undecodable. *)
LEMMA PublishedNext ==
    TypeOK /\ TypeOK' /\ IInv /\ IInv' /\ [Next]_vars => (Published(idl) => Published(idl'))
<1> SUFFICES ASSUME TypeOK, TypeOK', IInv, IInv', [Next]_vars, Published(idl)
             PROVE  Published(idl')
  OBVIOUS
<1>1. WholeAccount(idl)
  BY PublishedIsWhole DEF IInv
<1>2. WholeAccount(idl)'
  BY <1>1, WholeNext
<1>3. \A d \in Docs : Inflates(Whole(d), d)
  BY PrefixInflates, SizeAssumption DEF Whole
<1> QED
  BY <1>2, <1>3 DEF Published, WholeAccount, Whole, Part, Inflates

(* Once published, a program's IDL stays decodable in every committed      *)
(* state, whatever runs, failures and late transactions do.                *)
THEOREM PublishedForGood == Spec => PublishedStaysWhole
<1>1. TypeOK /\ TypeOK' /\ IInv /\ IInv' /\ [Next]_vars
        => [Published(idl) => Published(idl')]_vars
  BY PublishedNext
<1>2. Spec => []TypeOK /\ []IInv
  BY TypeCorrect, Inductive
<1> QED
  BY <1>1, <1>2, PTL DEF Spec, PublishedStaysWhole
(* No step shrinks, removes or gives away the canonical account. *)
LEMMA AccountNext ==
    ASSUME TypeOK, [Next]_vars, idl.live
    PROVE  idl'.live /\ idl'.auth = idl.auth /\ idl'.cap >= idl.cap
<1> USE DEF TypeOK, Account
<1>1. CASE idl' = idl
  BY <1>1
<1>2. ASSUME NEW p \in Publishers, Land(p), idl' # idl
      PROVE  idl'.live /\ idl'.auth = idl.auth /\ idl'.cap >= idl.cap
  <2>1. ASSUME NEW a \in Account, NEW n \in Nat, CanResize(a, n)
        PROVE  /\ Resized(a, n).live = a.live /\ Resized(a, n).auth = a.auth
               /\ Resized(a, n).cap >= a.cap
    BY <2>1, ConstantsAssumption DEF CanResize, Resized, Least
  <2>2. loc[p].target \in Nat
    BY DEF Locals
  <2>3. CASE LandGrow(p)
    BY <2>1, <2>2, <2>3 DEF LandGrow, Lands, Accepts
  <2>4. CASE LandWrite(p)
    BY <2>4 DEF LandWrite, Appended
  <2>5. CASE LandSwap(p)
    <3> DEFINE cleared == Copied(buf[p]["empty"], idl)
    <3>1. /\ CanResize(cleared, loc[p].target)
          /\ idl' = Copied(buf[p]["backup"], Resized(cleared, loc[p].target))
      BY <2>5 DEF LandSwap, Lands, Accepts, Swapped
    <3>2. /\ cleared \in Account /\ cleared.live = idl.live
          /\ cleared.auth = idl.auth /\ cleared.cap = idl.cap
      <4>1. buf[p]["empty"] \in Account /\ idl \in Account
        BY DEF Kinds
      <4>2. cleared \in Account
        BY <4>1, AccountTypes
      <4> QED
        BY <4>1, <4>2 DEF Copied
    <3> HIDE DEF cleared
    <3>3. Resized(cleared, loc[p].target) \in Account
      BY <2>2, <3>1, <3>2, AccountTypes
    <3>4. /\ idl'.live = Resized(cleared, loc[p].target).live
          /\ idl'.auth = Resized(cleared, loc[p].target).auth
          /\ idl'.cap = Resized(cleared, loc[p].target).cap
      BY <3>1, <3>3 DEF Copied
    <3> QED
      BY <2>1, <2>2, <3>1, <3>2, <3>4
  <2>6. CASE LandSet(p)
    BY <2>6 DEF LandSet, Copied
  <2>7. CASE LandCreate(p)
    BY <2>7 DEF LandCreate, Lands, Accepts
  <2> QED
    BY <1>2, <2>3, <2>4, <2>5, <2>6, <2>7
    DEF Land, LandBackup, LandEmpty, LandBuffer, LandUpload, RejectTx, chain
<1>3. ASSUME NEW p \in Publishers, Client(p) \/ Stop(p) PROVE idl' = idl
  BY <1>3 DEF Client, Stop, Begin, ReadMissing, RefuseExisting, PlanUpgrade, Submit,
              LeaveLoop, ConfirmCall, ConfirmResize, ConfirmWrite, ConfirmFailure,
              CheckBackup, Reread, Verify, chain
<1> QED
  BY <1>1, <1>2, <1>3 DEF Next, vars

-----------------------------------------------------------------------------
(* What a run of publish leaves behind, with or without overlap and        *)
(* faults: the capacity it was asked for, no resize buffer, and no growth  *)
(* nobody consented to; and what runs that take turns achieve.             *)
(***************************************************************************)
(* The inductive invariant, beside TypeOK and IInv.                        *)

\* The capacity a run needs that found `payload`.
Goal(payload, j) ==
    Most(j.requested, IF Unchanged(payload, j) THEN 0 ELSE Required(j.doc))

AccountInv ==
    /\ ~idl.live => idl.cap = 0
    /\ idl.live => Room(idl, Len(idl.payload))

\* A run knows a lower bound of the capacity, whoever else resizes.
CapacityInv(p) ==
    /\ pc[p] # "start" => ~TooSmall(job[p])
    /\ pc[p] \in {"start", "read", "create", "grow", "write"} => loc[p].snap = <<>>
    /\ pc[p] \in {"buffer", "upload", "set"} => ~Unchanged(loc[p].snap, job[p])
    /\ pc[p] = "create" /\ tx[p] = "processed" =>
           idl.cap >= Least(InitialCapacity(job[p]), Increment)
    /\ pc[p] = "grow" =>
           /\ loc[p].target = InitialCapacity(job[p])
           /\ loc[p].cur <= loc[p].target
           /\ idl.cap >= loc[p].cur
           /\ tx[p] = "processed" => idl.cap >= NextSpace(loc[p].cur, loc[p].target)
    /\ pc[p] \in {"backup", "check", "empty", "swap", "reread"} =>
           loc[p].target >= Goal(loc[p].snap, job[p])
    /\ pc[p] \in {"write", "buffer", "upload", "set", "verify", "end"} =>
           idl.cap >= Goal(loc[p].snap, job[p])

Closed(p) == ~buf[p]["backup"].live /\ ~buf[p]["empty"].live

\* The resize buffers are open from the first of the resize calls until the
\* last turn of the loop has landed.
ResizeInv(p) ==
    /\ pc[p] \in {"backup", "check", "empty", "swap"} => job[p].allow
    /\ pc[p] \in {"backup", "check", "empty"} => loc[p].cur < loc[p].target
    /\ pc[p] = "swap" =>
           /\ loc[p].cur < loc[p].target \/ (loc[p].cur = loc[p].target /\ Closed(p))
           /\ tx[p] = "processed" /\ ClosesBuffers(loc[p]) => Closed(p)
    /\ pc[p] \notin {"backup", "check", "empty", "swap"} => Closed(p)

DoneInv(p) ==
    status[p] = "ok" => pc[p] = "end" /\ Valid(idl, job[p].auth) /\ Published(idl)

LeavesInv == AccountInv /\ \A p \in Publishers : CapacityInv(p) /\ ResizeInv(p) /\ DoneInv(p)

-----------------------------------------------------------------------------
LEMMA GoalFacts ==
    ASSUME TypeOK, NEW p \in Publishers
    PROVE  /\ Goal(loc[p].snap, job[p]) \in Nat
           /\ ~Unchanged(loc[p].snap, job[p]) =>
                  Goal(loc[p].snap, job[p]) >= Required(job[p].doc)
           /\ Goal(loc[p].snap, job[p]) >= job[p].requested
           /\ ~Unchanged(<<>>, job[p])
           /\ Required(job[p].doc) \in Nat /\ Required(job[p].doc) > HeaderLen
           /\ InitialCapacity(job[p]) \in Nat
           /\ ~TooSmall(job[p]) =>
                  /\ InitialCapacity(job[p]) >= Goal(loc[p].snap, job[p])
                  /\ InitialCapacity(job[p]) >= Required(job[p].doc)
           /\ loc[p].cur \in Nat /\ loc[p].target \in Nat
           /\ idl.cap \in Nat /\ Increment \in Nat \ {0} /\ Increment >= HeaderLen
           /\ HeaderLen \in Nat
<1>1. /\ job[p].requested \in Nat /\ Size[job[p].doc] \in Nat \ {0}
      /\ InitialCapacity(job[p]) \in Nat
  BY OperatorTypes
<1>2. HeaderLen \in Nat \ {0} /\ Increment \in Nat /\ Increment >= HeaderLen /\ DefaultSize \in Nat
  BY ConstantsAssumption
<1>3. Required(job[p].doc) \in Nat /\ Required(job[p].doc) > HeaderLen
  BY <1>1, <1>2 DEF Required
<1>4. /\ Goal(loc[p].snap, job[p]) \in Nat
      /\ ~Unchanged(loc[p].snap, job[p]) =>
             Goal(loc[p].snap, job[p]) >= Required(job[p].doc)
      /\ Goal(loc[p].snap, job[p]) >= job[p].requested
  BY <1>1, <1>3 DEF Goal, Most
<1>7. ~Unchanged(<<>>, job[p])
  BY SizeAssumption DEF Unchanged, Holds, Inflates
<1>5. ~TooSmall(job[p]) =>
          /\ InitialCapacity(job[p]) >= Goal(loc[p].snap, job[p])
          /\ InitialCapacity(job[p]) >= Required(job[p].doc)
  BY <1>1, <1>2, <1>3 DEF Goal, Most, InitialCapacity, TooSmall
<1>6. loc[p].cur \in Nat /\ loc[p].target \in Nat /\ idl.cap \in Nat
  BY DEF TypeOK, Locals, Account
<1> QED
  BY <1>1, <1>2, <1>3, <1>4, <1>5, <1>6, <1>7

LEMMA LeavesInit == Init => LeavesInv
<1> SUFFICES ASSUME Init PROVE LeavesInv
  OBVIOUS
<1>1. AccountInv
  <2>1. CASE idl = NoAccount
    BY <2>1 DEF NoAccount, AccountInv
  <2>2. CASE idl \in EarlierAccounts
    <3>1. PICK c \in InitialCaps, d \in Docs, au \in Authorities \cup {"nobody"} :
              idl = [Fresh(c, au) EXCEPT !.payload = Whole(d)]
      BY <2>2 DEF EarlierAccounts
    <3>2. idl.live
      BY <3>1 DEF Fresh
    <3>3. Room(idl, Len(idl.payload))
      BY <2>2 DEF EarlierAccounts
    <3> QED
      BY <3>2, <3>3 DEF AccountInv
  <2> QED
    BY <2>1, <2>2 DEF Init
<1>2. ASSUME NEW p \in Publishers PROVE CapacityInv(p) /\ ResizeInv(p) /\ DoneInv(p)
  BY DEF Init, CapacityInv, ResizeInv, DoneInv, Closed, NoAccount, Kinds
<1> QED
  BY <1>1, <1>2 DEF LeavesInv

-----------------------------------------------------------------------------
(* The account.                                                            *)

LEMMA AccountKept ==
    ASSUME TypeOK, TypeOK', LeavesInv, [Next]_vars
    PROVE  AccountInv' /\ idl'.cap >= idl.cap
<1>1. CASE idl' = idl
  BY <1>1 DEF LeavesInv, AccountInv, Room, TypeOK, Account
<1>2. CASE idl' # idl
  <2>1. PICK p \in Publishers : Land(p)
    BY <1>2 DEF Next, vars, Client, Stop, Begin, ReadMissing, RefuseExisting, PlanUpgrade,
       Submit, LeaveLoop, ConfirmCall, ConfirmResize, ConfirmWrite, ConfirmFailure,
       CheckBackup, Reread, Verify, chain
  <2>2. idl.live => idl'.live /\ idl'.cap >= idl.cap
    BY AccountNext
  <2>3. idl.cap \in Nat /\ idl'.cap \in Nat /\ (~idl.live => idl.cap = 0)
        /\ (idl.live => Room(idl, Len(idl.payload)))
    BY DEF TypeOK, Account, LeavesInv, AccountInv
  <2>4. idl'.live /\ Room(idl', Len(idl'.payload))
    <3> USE DEF Lands, Accepts, Owned, Room
    <3>0. idl \in Account /\ idl.payload \in Seq(Bytes) /\ HeaderLen \in Nat
      BY GoalFacts DEF TypeOK, Account
    <3>1. CASE LandCreate(p)
      <4>1. ~TooSmall(job[p])
        BY <3>1 DEF LandCreate, LeavesInv, CapacityInv
      <4>2. HeaderLen <= Least(InitialCapacity(job[p]), Increment)
        BY <4>1, GoalFacts DEF Least
      <4>3. idl' = [live |-> TRUE, cap |-> Least(InitialCapacity(job[p]), Increment),
                    auth |-> job[p].auth, payload |-> <<>>]
        BY <3>1 DEF LandCreate, Fresh
      <4>4. idl'.live /\ idl'.cap = Least(InitialCapacity(job[p]), Increment)
            /\ Len(idl'.payload) = 0
        BY <4>3
      <4> QED
        BY <3>0, <4>2, <4>4
    <3>2. CASE LandGrow(p)
      <4>1. idl.live /\ idl'.payload = idl.payload
        BY <3>0, <3>2 DEF LandGrow, Resized, Account
      <4> QED
        BY <2>2, <2>3, <3>0, <4>1
    <3>3. CASE LandWrite(p)
      <4>1. idl.live /\ idl'.cap = idl.cap /\ idl'.payload = idl.payload \o ChunkOf(p)
            /\ HeaderLen + (Len(idl.payload) + Len(ChunkOf(p))) <= idl.cap
        BY <3>0, <3>3 DEF LandWrite, Appended, Account
      <4>2. Len(idl'.payload) = Len(idl.payload) + Len(ChunkOf(p))
        BY <3>0, <4>1, OperatorTypes
      <4> QED
        BY <2>2, <4>1, <4>2
    <3>4. CASE LandSwap(p)
      <4>1. idl.live /\ idl' = Swapped(p)
            /\ HeaderLen + Len(Swapped(p).payload) <= Swapped(p).cap
        BY <3>4 DEF LandSwap
      <4> QED
        BY <2>2, <4>1
    <3>5. CASE LandSet(p)
      <4>1. idl.live /\ idl'.cap = idl.cap /\ idl'.payload = buf[p]["upgrade"].payload
            /\ HeaderLen + Len(buf[p]["upgrade"].payload) <= idl.cap
        BY <3>0, <3>5 DEF LandSet, Copied, Account
      <4> QED
        BY <2>2, <4>1
    <3> QED
      BY <1>2, <2>1, <3>1, <3>2, <3>3, <3>4, <3>5
      DEF Land, LandBackup, LandEmpty, LandBuffer, LandUpload, RejectTx, chain
  <2> QED
    BY <2>2, <2>3, <2>4 DEF AccountInv
<1> QED
  BY <1>1, <1>2

\* What a run knows of the account outlasts the steps of others.
LEMMA LeavesOthers ==
    ASSUME TypeOK, TypeOK', NEW q \in Publishers, job'[q] = job[q],
           pc'[q] = pc[q], tx'[q] = tx[q], loc'[q] = loc[q], buf'[q] = buf[q],
           idl'.cap >= idl.cap, CapacityInv(q), ResizeInv(q)
    PROVE  CapacityInv(q)' /\ ResizeInv(q)'
<1>1. idl'.cap \in Nat
  BY DEF TypeOK, Account
<1>2. /\ Least(InitialCapacity(job[q]), Increment) \in Nat
      /\ NextSpace(loc[q].cur, loc[q].target) \in Int
  BY GoalFacts DEF Least, NextSpace
<1>3. CapacityInv(q)'
  BY <1>1, <1>2, GoalFacts DEF CapacityInv
<1>4. ResizeInv(q)'
  BY DEF ResizeInv, Closed
<1> QED
  BY <1>3, <1>4

\* Success stays true: the document may be replaced, not lost.
LEMMA DoneStays ==
    ASSUME TypeOK, TypeOK', IInv, IInv', LeavesInv, [Next]_vars,
           NEW q \in Publishers, status[q] = "ok"
    PROVE  Valid(idl', job[q].auth) /\ Published(idl')
<1>1. idl.live /\ idl.auth = job[q].auth /\ Published(idl)
  BY DEF LeavesInv, DoneInv, Valid, Owned
<1>2. idl'.live /\ idl'.auth = idl.auth
  BY <1>1, AccountNext
<1>3. Published(idl')
  BY <1>1, PublishedNext
<1>4. Room(idl', Len(idl'.payload))
  BY <1>2, AccountKept DEF AccountInv
<1> QED
  BY <1>1, <1>2, <1>3, <1>4 DEF Valid, Owned

-----------------------------------------------------------------------------
(* Steps of the client change no account.                                  *)

LEMMA LeavesPlan ==
    ASSUME TypeOK, IInv, LeavesInv, NEW p \in Publishers, PlanUpgrade(p)
    PROVE  /\ TargetCapacity(idl, job[p]) >= Goal(idl.payload, job[p])
           /\ Goal(idl.payload, job[p]) \in Nat
           /\ TargetCapacity(idl, job[p]) >= idl.cap
           /\ TargetCapacity(idl, job[p]) > idl.cap => job[p].allow
<1>1. /\ job[p].requested \in Nat /\ idl.cap \in Nat /\ HeaderLen \in Nat
      /\ Required(job[p].doc) \in Nat /\ Size[job[p].doc] \in Nat /\ idl.payload \in Seq(Bytes)
  BY OperatorTypes, ConstantsAssumption DEF TypeOK, Account
<1>2. Refusal(idl, job[p]) = "none"
  BY DEF PlanUpgrade
<1>3. Valid(idl, job[p].auth) /\ (NeedsConsent(idl, job[p]) => job[p].allow)
  BY <1>2 DEF Refusal
<1>5. /\ TargetCapacity(idl, job[p]) >= Goal(idl.payload, job[p])
      /\ Goal(idl.payload, job[p]) \in Nat /\ TargetCapacity(idl, job[p]) >= idl.cap
  BY <1>1 DEF TargetCapacity, Goal, Most
<1>6. TargetCapacity(idl, job[p]) > idl.cap => NeedsConsent(idl, job[p])
  BY <1>1 DEF TargetCapacity, NeedsConsent, Most
<1> QED
  BY <1>3, <1>5, <1>6

LEMMA LeavesClient ==
    ASSUME TypeOK, TypeOK', IInv, LeavesInv, NEW p \in Publishers, Client(p) \/ Stop(p)
    PROVE  CapacityInv(p)' /\ ResizeInv(p)' /\ DoneInv(p)'
<1> USE DEF Return, Goto, Consume, chain, At, Running
<1>1. idl' = idl /\ buf' = buf /\ job' = job /\ CapacityInv(p) /\ ResizeInv(p) /\ DoneInv(p)
  BY DEF Client, Stop, Begin, ReadMissing, RefuseExisting, PlanUpgrade, Submit, LeaveLoop,
         ConfirmCall, ConfirmResize, ConfirmWrite, ConfirmFailure, CheckBackup, Reread,
         Verify, LeavesInv
<1>2. /\ Goal(loc[p].snap, job[p]) \in Nat /\ InitialCapacity(job[p]) \in Nat
      /\ ~TooSmall(job[p]) => InitialCapacity(job[p]) >= Goal(loc[p].snap, job[p])
      /\ loc[p].cur \in Nat /\ loc[p].target \in Nat /\ idl.cap \in Nat
      /\ Increment \in Nat \ {0}
  BY GoalFacts
\* Steps that leave the locals alone and move on between calls, or end the run.
<1>3. ASSUME pc'[p] = pc[p], loc'[p] = loc[p], tx'[p] # "processed" \/ tx'[p] = tx[p],
             status'[p] # "ok"
      PROVE  CapacityInv(p)' /\ ResizeInv(p)' /\ DoneInv(p)'
  BY <1>1, <1>3 DEF CapacityInv, ResizeInv, DoneInv, Closed
<1>4. CASE Begin(p)
  <2>1. \/ status'[p] = "too_small" /\ pc' = pc
        \/ status'[p] = "running" /\ pc'[p] = "read" /\ ~TooSmall(job[p])
    BY <1>4 DEF Begin, TypeOK
  <2>2. loc' = loc /\ tx' = tx /\ pc[p] = "start"
    BY <1>4 DEF Begin
  <2> QED
    BY <1>1, <2>1, <2>2 DEF CapacityInv, ResizeInv, DoneInv, Closed
<1>5. CASE ReadMissing(p)
  <2>1. pc[p] = "read" /\ pc'[p] = "create" /\ tx'[p] = "none" /\ status'[p] = "running"
        /\ loc' = loc
    BY <1>5 DEF ReadMissing, TypeOK
  <2> QED
    BY <1>1, <2>1 DEF CapacityInv, ResizeInv, DoneInv, Closed
<1>6. CASE RefuseExisting(p) \/ Submit(p) \/ ConfirmFailure(p) \/ Stop(p)
  <2>1. /\ pc'[p] = pc[p] /\ loc'[p] = loc[p] /\ (tx'[p] # "processed" \/ tx'[p] = tx[p])
        /\ status'[p] # "ok"
    BY <1>6 DEF RefuseExisting, Refusal, Submit, ConfirmFailure, Stop, Settled, TypeOK
  <2> QED
    BY <1>3, <2>1
<1>7. CASE PlanUpgrade(p)
  <2>1. /\ pc[p] = "read" /\ status'[p] = "running" /\ tx'[p] = "none"
        /\ loc'[p].cur = idl.cap /\ loc'[p].target = TargetCapacity(idl, job[p])
        /\ loc'[p].snap = idl.payload
        /\ IF TargetCapacity(idl, job[p]) > idl.cap THEN pc'[p] = "backup"
           ELSE /\ pc'[p] \in {"verify", "buffer"}
                /\ pc'[p] = "buffer" => ~Unchanged(idl.payload, job[p])
    BY <1>7 DEF PlanUpgrade, AfterResize, TypeOK, Locals
  <2>2. ~TooSmall(job[p])
    BY <1>1, <2>1 DEF CapacityInv
  <2>3. /\ TargetCapacity(idl, job[p]) >= Goal(idl.payload, job[p])
        /\ Goal(idl.payload, job[p]) \in Nat
        /\ TargetCapacity(idl, job[p]) >= idl.cap
        /\ TargetCapacity(idl, job[p]) > idl.cap => job[p].allow
        /\ TargetCapacity(idl, job[p]) \in Nat
    BY <1>7, LeavesPlan, OperatorTypes
  <2>4. Closed(p)
    BY <1>1, <2>1 DEF ResizeInv
  <2> QED
    BY <1>1, <1>2, <2>1, <2>2, <2>3, <2>4 DEF CapacityInv, ResizeInv, DoneInv, Closed
<1>8. CASE LeaveLoop(p)
  <2>1. /\ tx[p] = "none" /\ tx'[p] = "none" /\ loc'[p] = loc[p] /\ status'[p] = "running"
        /\ \/ pc[p] = "grow" /\ pc'[p] = "write" /\ ~(loc[p].cur < loc[p].target)
           \/ pc[p] = "write" /\ pc'[p] = "verify"
           \/ pc[p] = "swap" /\ pc'[p] = "reread" /\ ~(loc[p].cur < loc[p].target)
           \/ pc[p] = "upload" /\ pc'[p] = "set"
    BY <1>8 DEF LeaveLoop, Due, LoopSteps, TypeOK
  <2> QED
    BY <1>1, <1>2, <2>1 DEF CapacityInv, ResizeInv, DoneInv, Closed
<1>9. CASE ConfirmCall(p) /\ pc[p] = "create"
  <2>1. /\ tx[p] = "processed" /\ tx'[p] = "none" /\ pc'[p] = "grow" /\ status'[p] = "running"
        /\ loc'[p].cur = Least(InitialCapacity(job[p]), Increment)
        /\ loc'[p].target = InitialCapacity(job[p]) /\ loc'[p].snap = loc[p].snap
    BY <1>9 DEF ConfirmCall, Settled, TypeOK, Locals, TxSteps, LoopSteps
  <2> QED
    BY <1>1, <1>2, <1>9, <2>1 DEF CapacityInv, ResizeInv, DoneInv, Closed, Least
<1>10. CASE ConfirmCall(p) /\ pc[p] # "create"
  <2>1. /\ tx'[p] = "none" /\ loc'[p] = loc[p] /\ status'[p] = "running"
        /\ \/ pc[p] = "backup" /\ pc'[p] = "check"
           \/ pc[p] = "empty" /\ pc'[p] = "swap"
           \/ pc[p] = "buffer" /\ pc'[p] = "upload"
           \/ pc[p] = "set" /\ pc'[p] = "verify"
    BY <1>10 DEF ConfirmCall, Settled, TypeOK, TxSteps, LoopSteps
  <2> QED
    BY <1>1, <1>2, <2>1 DEF CapacityInv, ResizeInv, DoneInv, Closed
<1>11. CASE ConfirmResize(p)
  <2>1. /\ tx[p] = "processed" /\ tx'[p] = "none" /\ pc'[p] = pc[p] /\ status'[p] = "running"
        /\ pc[p] \in {"grow", "swap"}
        /\ loc'[p].cur = NextSpace(loc[p].cur, loc[p].target) /\ loc'[p].target = loc[p].target
        /\ loc'[p].snap = loc[p].snap
    BY <1>11 DEF ConfirmResize, Settled, TypeOK, Locals
  <2>2. loc[p].cur <= loc[p].target
    BY <1>1, <1>2, <2>1 DEF CapacityInv, ResizeInv
  <2>3. NextSpace(loc[p].cur, loc[p].target) \in Nat
        /\ NextSpace(loc[p].cur, loc[p].target) <= loc[p].target
    BY <1>2, <2>2 DEF NextSpace, Least
  <2>4. CapacityInv(p)'
    BY <1>1, <2>1, <2>3 DEF CapacityInv
  <2>5. ResizeInv(p)'
    BY <1>1, <1>2, <2>1, <2>3 DEF ResizeInv, Closed, ClosesBuffers
  <2> QED
    BY <2>1, <2>4, <2>5 DEF DoneInv
<1>12. CASE ConfirmWrite(p)
  <2>1. /\ tx'[p] = "none" /\ pc'[p] = pc[p] /\ status'[p] = "running"
        /\ pc[p] \in {"write", "upload"} /\ loc'[p].snap = loc[p].snap
    BY <1>12 DEF ConfirmWrite, Settled, TypeOK, Locals
  <2> QED
    BY <1>1, <2>1 DEF CapacityInv, ResizeInv, DoneInv, Closed
<1>13. CASE CheckBackup(p)
  <2>1. /\ loc' = loc /\ tx' = tx /\ pc[p] = "check" /\ tx[p] = "none"
        /\ status'[p] # "ok" /\ pc'[p] \in {"check", "empty"}
    BY <1>13 DEF CheckBackup, TypeOK
  <2> QED
    BY <1>1, <2>1 DEF CapacityInv, ResizeInv, DoneInv, Closed
<1>14. CASE Reread(p)
  <2>1. /\ loc' = loc /\ tx' = tx /\ pc[p] = "reread" /\ tx[p] = "none" /\ status'[p] # "ok"
        /\ \/ pc'[p] = "reread"
           \/ /\ pc'[p] \in {"verify", "buffer"} /\ ResizeDefect(idl, job[p], loc[p]) = "none"
              /\ pc'[p] = "buffer" => ~Unchanged(loc[p].snap, job[p])
    BY <1>14 DEF Reread, AfterResize, ResizeDefect, TypeOK
  <2>2. ResizeDefect(idl, job[p], loc[p]) = "none" => idl.cap >= loc[p].target
    BY <1>2 DEF ResizeDefect
  <2> QED
    BY <1>1, <1>2, <2>1, <2>2 DEF CapacityInv, ResizeInv, DoneInv, Closed
<1>15. CASE Verify(p)
  <2>1. /\ loc' = loc /\ tx' = tx /\ pc[p] = "verify" /\ tx[p] = "none"
        /\ \/ pc'[p] = "verify" /\ status'[p] # "ok"
           \/ pc'[p] = "end" /\ PublicationDefect(idl, job[p]) = "none"
    BY <1>15 DEF Verify, PublicationDefect, TypeOK
  <2>2. PublicationDefect(idl, job[p]) = "none" => Valid(idl, job[p].auth) /\ Published(idl)
    BY DEF PublicationDefect
  <2>3. CapacityInv(p)' /\ ResizeInv(p)'
    BY <1>1, <2>1 DEF CapacityInv, ResizeInv, Closed
  <2>4. DoneInv(p)'
    <3>1. CASE pc'[p] = "verify" /\ status'[p] # "ok"
      BY <3>1 DEF DoneInv
    <3>2. CASE pc'[p] = "end" /\ PublicationDefect(idl, job[p]) = "none"
      BY <1>1, <2>2, <3>2 DEF DoneInv, Valid, Owned, Room, Published, Inflates
    <3> QED
      BY <2>1, <3>1, <3>2
  <2> QED
    BY <2>3, <2>4
<1> QED
  BY <1>4, <1>5, <1>6, <1>7, <1>8, <1>9, <1>10, <1>11, <1>12, <1>13, <1>14, <1>15 DEF Client

-----------------------------------------------------------------------------
(* Execution of a transaction changes no client.                           *)

LEMMA LeavesLand ==
    ASSUME TypeOK, TypeOK', LeavesInv, NEW p \in Publishers, Land(p)
    PROVE  CapacityInv(p)' /\ ResizeInv(p)'
<1>1. /\ pc' = pc /\ loc' = loc /\ job' = job /\ CapacityInv(p) /\ ResizeInv(p)
      /\ tx[p] = "pending" /\ tx'[p] \in {"processed", "failed"}
  BY DEF Land, Lands, LandCreate, LandGrow, LandWrite, LandBackup, LandEmpty, LandSwap,
         LandBuffer, LandUpload, LandSet, RejectTx, LeavesInv, chain, TypeOK
<1>2. idl'.cap \in Nat /\ idl'.cap >= idl.cap
  BY AccountKept DEF TypeOK, Account, Next
<1>3. /\ Goal(loc[p].snap, job[p]) \in Nat /\ InitialCapacity(job[p]) \in Nat
      /\ loc[p].cur \in Nat /\ loc[p].target \in Nat /\ idl.cap \in Nat
      /\ Increment \in Nat \ {0}
  BY GoalFacts
<1>4. CapacityInv(p)'
  <2>1. CASE pc[p] \notin {"create", "grow"}
    BY <1>1, <1>2, <1>3, <2>1 DEF CapacityInv
  <2>2. CASE pc[p] = "create"
    <3>1. tx'[p] = "processed" => idl'.cap = Least(InitialCapacity(job[p]), Increment)
      BY <1>1, <2>2 DEF Land, Lands, LandCreate, LandGrow, LandWrite, LandBackup, LandEmpty,
         LandSwap, LandBuffer, LandUpload, LandSet, RejectTx, Fresh, TypeOK
    <3>2. Least(InitialCapacity(job[p]), Increment) \in Nat
      BY <1>3 DEF Least
    <3> QED
      BY <1>1, <2>2, <3>1, <3>2 DEF CapacityInv
  <2>3. CASE pc[p] = "grow"
    <3>1. tx'[p] = "processed" =>
              /\ loc[p].target >= idl.cap
              /\ idl'.cap = idl.cap + Least(loc[p].target - idl.cap, Increment)
      BY <1>1, <2>3 DEF Land, Lands, LandCreate, LandGrow, LandWrite, LandBackup, LandEmpty,
         LandSwap, LandBuffer, LandUpload, LandSet, RejectTx, Accepts, CanResize, Resized,
         TypeOK, Account
    <3>2. tx'[p] = "processed" => idl'.cap >= NextSpace(loc[p].cur, loc[p].target)
      BY <1>1, <1>2, <1>3, <2>3, <3>1 DEF CapacityInv, NextSpace, Least
    <3> QED
      BY <1>1, <1>2, <1>3, <2>3, <3>2 DEF CapacityInv
  <2> QED
    BY <2>1, <2>2, <2>3
<1>5. ResizeInv(p)'
  <2>1. CASE pc[p] \in {"backup", "check", "empty"}
    BY <1>1, <2>1 DEF ResizeInv
  <2>2. CASE pc[p] = "swap"
    <3>1. \/ /\ ClosesBuffers(loc[p]) /\ tx'[p] = "processed"
             /\ buf' = [buf EXCEPT ![p] = [@ EXCEPT !["backup"] = NoAccount,
                                                    !["empty"] = NoAccount]]
          \/ ~ClosesBuffers(loc[p]) /\ buf' = buf
          \/ tx'[p] = "failed" /\ buf' = buf
      BY <2>2 DEF Land, Lands, LandCreate, LandGrow, LandWrite, LandBackup, LandEmpty,
         LandSwap, LandBuffer, LandUpload, LandSet, RejectTx, chain, TypeOK
    <3>2. CASE ClosesBuffers(loc[p]) /\ tx'[p] = "processed" /\ buf' # buf
      <4>1. Closed(p)'
        BY <3>1, <3>2 DEF Closed, NoAccount, TypeOK, Kinds
      <4> QED
        BY <1>1, <2>2, <4>1 DEF ResizeInv
    <3>3. CASE buf' = buf
      <4>1. CASE ClosesBuffers(loc[p]) /\ tx'[p] = "processed"
        <5>1. buf'[p]["backup"] = NoAccount /\ buf'[p]["empty"] = NoAccount
          BY <3>1, <4>1 DEF TypeOK, Kinds
        <5>2. Closed(p)'
          BY <5>1 DEF Closed, NoAccount
        <5> QED
          BY <1>1, <2>2, <5>2 DEF ResizeInv
      <4>2. CASE ~(ClosesBuffers(loc[p]) /\ tx'[p] = "processed")
        BY <1>1, <2>2, <3>3, <4>2 DEF ResizeInv, Closed, ClosesBuffers
      <4> QED
        BY <4>1, <4>2
    <3> QED
      BY <3>1, <3>2, <3>3
  <2>3. CASE pc[p] \notin {"backup", "check", "empty", "swap"}
    <3>1. buf'[p]["backup"] = buf[p]["backup"] /\ buf'[p]["empty"] = buf[p]["empty"]
      BY <2>3 DEF Land, Lands, LandCreate, LandGrow, LandWrite, LandBackup, LandEmpty,
         LandSwap, LandBuffer, LandUpload, LandSet, RejectTx, PutBuffer, chain, TypeOK, Kinds
    <3> QED
      BY <1>1, <2>3, <3>1 DEF ResizeInv, Closed
  <2> QED
    BY <2>1, <2>2, <2>3
<1> QED
  BY <1>4, <1>5

LEMMA LeavesNext ==
    TypeOK /\ TypeOK' /\ IInv /\ IInv' /\ LeavesInv /\ [Next]_vars => LeavesInv'
<1> SUFFICES ASSUME TypeOK, TypeOK', IInv, IInv', LeavesInv, [Next]_vars
             PROVE  LeavesInv'
  OBVIOUS
<1>1. AccountInv' /\ idl'.cap >= idl.cap
  BY AccountKept
<1>2. ASSUME NEW q \in Publishers, job'[q] = job[q], status'[q] = status[q],
             pc'[q] = pc[q]
      PROVE  DoneInv(q)'
  <2> SUFFICES ASSUME status[q] = "ok"
               PROVE  pc[q] = "end" /\ Valid(idl', job[q].auth) /\ Published(idl')
    BY <1>2 DEF DoneInv, Valid, Owned, Room, Published, Inflates
  <2> QED
    BY DoneStays DEF LeavesInv, DoneInv
<1>3. CASE UNCHANGED vars
  <2>1. ASSUME NEW q \in Publishers PROVE CapacityInv(q)' /\ ResizeInv(q)' /\ DoneInv(q)'
    BY <1>1, <1>2, <1>3, LeavesOthers DEF vars, LeavesInv
  <2> QED
    BY <1>1, <2>1 DEF LeavesInv
<1>4. ASSUME NEW p \in Publishers, Client(p) \/ Stop(p), NEW q \in Publishers
      PROVE  CapacityInv(q)' /\ ResizeInv(q)' /\ DoneInv(q)'
  <2>1. CASE q = p
    BY <1>4, <2>1, LeavesClient
  <2>2. CASE q # p
    <3>1. /\ job' = job /\ buf' = buf /\ pc'[q] = pc[q] /\ tx'[q] = tx[q]
          /\ loc'[q] = loc[q] /\ status'[q] = status[q]
      BY <1>4, <2>2 DEF Client, Stop, Begin, ReadMissing, RefuseExisting, PlanUpgrade, Submit,
         LeaveLoop, ConfirmCall, ConfirmResize, ConfirmWrite, ConfirmFailure, CheckBackup,
         Reread, Verify, TypeOK, Return, Goto, Consume, chain
    <3> QED
      BY <1>1, <1>2, <3>1, LeavesOthers DEF LeavesInv
  <2> QED
    BY <2>1, <2>2
<1>5. ASSUME NEW p \in Publishers, Land(p), NEW q \in Publishers
      PROVE  CapacityInv(q)' /\ ResizeInv(q)' /\ DoneInv(q)'
  <2>1. job' = job /\ pc' = pc /\ loc' = loc /\ status' = status
    BY <1>5 DEF Land, Lands, LandCreate, LandGrow, LandWrite, LandBackup, LandEmpty, LandSwap,
       LandBuffer, LandUpload, LandSet, RejectTx, chain
  <2>2. DoneInv(q)'
    BY <1>2, <2>1
  <2>3. CASE q = p
    BY <1>5, <2>2, <2>3, LeavesLand
  <2>4. CASE q # p
    <3>1. tx'[q] = tx[q] /\ buf'[q] = buf[q]
      BY <1>5, <2>4 DEF Land, Lands, LandCreate, LandGrow, LandWrite, LandBackup, LandEmpty,
         LandSwap, LandBuffer, LandUpload, LandSet, RejectTx, PutBuffer, chain, TypeOK
    <3> QED
      BY <1>1, <2>1, <2>2, <3>1, LeavesOthers DEF LeavesInv
  <2> QED
    BY <2>3, <2>4
<1> QED
  BY <1>1, <1>3, <1>4, <1>5 DEF LeavesInv, Next

(* What every run knows of the account and its buffers while it is under   *)
(* way, and leaves behind when it succeeds.                                *)
THEOREM LeavesInductive == Spec => []LeavesInv
BY TypeCorrect, Inductive, LeavesInit, LeavesNext, PTL DEF Spec

-----------------------------------------------------------------------------
(* From the moment a run reports success, the account has the capacity it  *)
(* was asked for, and room for its document unless it found the same IDL   *)
(* published, perhaps in a shorter form; and the account is decodable      *)
(* under its authority, whatever other runs and their late transactions do. *)
THEOREM SuccessForGood == Spec => []SuccessEndures
<1>1. TypeOK /\ LeavesInv => SuccessEndures
  <2> SUFFICES ASSUME TypeOK, LeavesInv, NEW p \in Publishers, status[p] = "ok"
               PROVE  /\ Valid(idl, job[p].auth) /\ Published(idl)
                      /\ idl.cap >= job[p].requested
                      /\ ~Unchanged(loc[p].snap, job[p]) => idl.cap >= Required(job[p].doc)
    BY DEF SuccessEndures
  <2>1. /\ Valid(idl, job[p].auth) /\ Published(idl)
        /\ idl.cap >= Goal(loc[p].snap, job[p])
    BY DEF LeavesInv, CapacityInv, DoneInv
  <2>2. job[p].requested \in Nat /\ idl.cap \in Nat
    BY OperatorTypes, GoalFacts
  <2> QED
    BY <2>1, <2>2, GoalFacts
<1> QED
  BY <1>1, LeavesInductive, TypeCorrect, PTL

(* A run that reports success has closed the buffers of its resize: the    *)
(* last turn of the loop lands before the loop can end.                    *)
THEOREM SuccessCloses == Spec => []SuccessClosesResizeBuffers
<1>1. LeavesInv => SuccessClosesResizeBuffers
  BY DEF LeavesInv, ResizeInv, DoneInv, SuccessClosesResizeBuffers, Closed
<1> QED
  BY <1>1, LeavesInductive, PTL

(* A published account grows only in a transaction of a run that was given *)
(* --allow-idl-resize, even if it lands long after that run has ended.     *)
THEOREM GrowthNeedsConsent == Spec => GrowthIsOptIn
<1> DEFINE Consented ==
        Published(idl) /\ idl'.cap # idl.cap =>
            \E p \in Publishers : tx[p] = "pending" /\ tx'[p] = "processed" /\ job[p].allow
<1>1. TypeOK /\ LeavesInv /\ [Next]_vars => [Consented]_vars
  <2> SUFFICES ASSUME TypeOK, LeavesInv, [Next]_vars, Published(idl), idl'.cap # idl.cap
               PROVE  \E p \in Publishers :
                          tx[p] = "pending" /\ tx'[p] = "processed" /\ job[p].allow
    OBVIOUS
  <2>1. PICK p \in Publishers : Land(p)
    BY DEF Next, vars, Client, Stop, Begin, ReadMissing, RefuseExisting, PlanUpgrade, Submit,
       LeaveLoop, ConfirmCall, ConfirmResize, ConfirmWrite, ConfirmFailure, CheckBackup,
       Reread, Verify, chain
  <2>2. idl.live /\ idl.payload # <<>>
    <3>1. PICK d \in Docs : Inflates(idl.payload, d)
      BY DEF Published
    <3>2. Size[d] \in Nat \ {0} /\ Len(idl.payload) >= Size[d]
      BY <3>1, SizeAssumption DEF Inflates
    <3>3. Len(idl.payload) # 0
      BY <3>2 DEF TypeOK, Account
    <3> QED
      BY <3>3 DEF Published
  <2>3. ~LandCreate(p) /\ ~LandGrow(p)
    BY <2>2 DEF LandCreate, LandGrow, Lands, Accepts, CanResize
  <2>4. ~LandWrite(p) /\ ~LandSet(p)
    BY DEF LandWrite, LandSet, Appended, Copied, TypeOK, Account
  <2>5. LandSwap(p)
    BY <2>1, <2>3, <2>4 DEF Land, LandBackup, LandEmpty, LandBuffer, LandUpload, RejectTx, chain
  <2> QED
    BY <2>5 DEF LandSwap, Lands, LeavesInv, ResizeInv, TypeOK
<1> QED
  BY <1>1, TypeCorrect, LeavesInductive, PTL DEF Spec, GrowthIsOptIn
-----------------------------------------------------------------------------
(* Runs that take turns: the inductive invariant, beside LeavesInv.        *)

\* A transaction in flight belongs to a run that waits for it.
TakeTurns ==
    /\ \A p, q \in Publishers : Running(p) /\ Running(q) => p = q
    /\ \A p \in Publishers : tx[p] \in {"pending", "processed"} => Running(p)

\* The size of the account as the resize loop of p has left it.
LandedSpace(p) ==
    IF tx[p] = "processed" THEN NextSpace(loc[p].cur, loc[p].target) ELSE loc[p].cur

\* The backup is the run's own and holds what the run read.
BackupReady(p) ==
    /\ Owned(buf[p]["backup"], job[p].auth)
    /\ buf[p]["backup"].payload = loc[p].snap
    /\ Room(buf[p]["backup"], Len(loc[p].snap))

\* The run that creates the account knows it to the byte.
CreatorKnows(p) ==
    /\ pc[p] = "create" =>
           IF tx[p] = "processed"
           THEN /\ Owned(idl, job[p].auth)
                /\ idl.cap = Least(InitialCapacity(job[p]), Increment)
           ELSE ~idl.live
    /\ pc[p] = "grow" => Owned(idl, job[p].auth) /\ idl.cap = LandedSpace(p)
    /\ pc[p] = "write" =>
           /\ Owned(idl, job[p].auth)
           /\ idl.payload = Part(job[p].doc, LandedOffset(p))

\* The account is as the run that resizes it read it, but for its size.
ResizerKnows(p) ==
    /\ pc[p] \in {"backup", "check", "empty", "swap", "reread"} =>
           Owned(idl, job[p].auth) /\ idl.payload = loc[p].snap
    /\ pc[p] \in {"backup", "check", "empty"} => idl.cap = loc[p].cur
    /\ pc[p] = "swap" => idl.cap = LandedSpace(p)
    /\ pc[p] = "swap" /\ tx[p] # "none" => loc[p].cur < loc[p].target
    /\ pc[p] = "backup" /\ tx[p] = "processed" => BackupReady(p)
    /\ pc[p] \in {"check", "empty"} => BackupReady(p)
    /\ pc[p] = "empty" /\ tx[p] = "processed" => Owned(buf[p]["empty"], job[p].auth)
    /\ pc[p] = "swap" /\ LandedSpace(p) < loc[p].target =>
           BackupReady(p) /\ Owned(buf[p]["empty"], job[p].auth)
    /\ pc[p] = "reread" => idl.cap >= loc[p].target

UploaderKnows(p) ==
    /\ pc[p] \in {"buffer", "upload", "set", "verify"} => Owned(idl, job[p].auth)
    /\ (pc[p] = "buffer" /\ tx[p] = "processed") \/ pc[p] \in {"upload", "set"} =>
           /\ Owned(buf[p]["upgrade"], job[p].auth)
           /\ buf[p]["upgrade"].cap = Required(job[p].doc)
    /\ (pc[p] = "set" /\ tx[p] = "processed") \/ pc[p] = "verify" =>
           Holds(idl.payload, job[p].doc)

\* Unless a transaction of its own has failed.
TurnInv(p) ==
    Running(p) /\ tx[p] # "failed" => CreatorKnows(p) /\ ResizerKnows(p) /\ UploaderKnows(p)

\* No transaction has failed in an earlier turn.
Calm == \A p \in Publishers : status[p] # "tx_failed"
CalmInv ==
    Calm =>
        /\ \A p \in Publishers : status[p] \in {"idle", "running", "ok"} \/ Owed(p)
        /\ (\A p \in Publishers : Running(p) => pc[p] = "read") /\ idl.live => WholeAccount(idl)

SerialInv == TakeTurns /\ (\A p \in Publishers : TurnInv(p)) /\ CalmInv

-----------------------------------------------------------------------------
LEMMA SerialInit == Init => SerialInv
<1> SUFFICES ASSUME Init PROVE SerialInv
  OBVIOUS
<1>1. TakeTurns /\ \A p \in Publishers : TurnInv(p)
  BY DEF Init, TakeTurns, TurnInv, Running
<1>2. idl.live => WholeAccount(idl)
  <2>1. CASE idl = NoAccount
    BY <2>1 DEF NoAccount
  <2>2. CASE idl \in EarlierAccounts
    <3>1. PICK c \in InitialCaps, d \in Docs, au \in Authorities \cup {"nobody"} :
              idl = [Fresh(c, au) EXCEPT !.payload = Whole(d)]
      BY <2>2 DEF EarlierAccounts
    <3>2. idl.payload = Whole(d)
      BY <3>1 DEF Fresh
    <3> QED
      BY <3>2 DEF WholeAccount
  <2> QED
    BY <2>1, <2>2 DEF Init
<1>3. CalmInv
  BY <1>2 DEF Init, CalmInv
<1> QED
  BY <1>1, <1>3 DEF SerialInv

\* Whoever takes a step is the only one that runs.
LEMMA OnlyOneRuns ==
    ASSUME ~Overlap, TypeOK, SerialInv, NEW p \in Publishers, Client(p) \/ Land(p)
    PROVE  /\ Begin(p) \/ Running(p)
           /\ \A q \in Publishers \ {p} :
                  /\ ~Running(q)
                  /\ status'[q] = status[q] /\ pc'[q] = pc[q] /\ tx'[q] = tx[q]
<1> USE DEF Return, Goto, Consume, chain, At, Settled
<1>1. Begin(p) \/ Running(p)
  BY DEF SerialInv, TakeTurns, Client, ReadMissing, RefuseExisting, PlanUpgrade, Submit,
     LeaveLoop, ConfirmCall, ConfirmResize, ConfirmWrite, ConfirmFailure, CheckBackup, Reread,
     Verify, Land, Lands, LandCreate, LandGrow, LandWrite, LandBackup, LandEmpty, LandSwap,
     LandBuffer, LandUpload, LandSet, RejectTx
<1>2. \A q \in Publishers \ {p} : ~Running(q)
  BY <1>1 DEF SerialInv, TakeTurns, Begin
<1>3. CASE Client(p)
  <2>1. \A q \in Publishers \ {p} :
            status'[q] = status[q] /\ pc'[q] = pc[q] /\ tx'[q] = tx[q]
    BY <1>3 DEF Client, Begin, ReadMissing, RefuseExisting, PlanUpgrade, Submit, LeaveLoop,
       ConfirmCall, ConfirmResize, ConfirmWrite, ConfirmFailure, CheckBackup, Reread, Verify,
       TypeOK
  <2> QED
    BY <1>1, <1>2, <2>1
<1>4. CASE Land(p)
  <2>1. status' = status /\ pc' = pc
        /\ \A q \in Publishers \ {p} : tx'[q] = tx[q]
    BY <1>4 DEF Land, Lands, LandCreate, LandGrow, LandWrite, LandBackup, LandEmpty, LandSwap,
       LandBuffer, LandUpload, LandSet, RejectTx, TypeOK
  <2> QED
    BY <1>1, <1>2, <2>1
<1> QED
  BY <1>3, <1>4

LEMMA TurnSuffices ==
    ASSUME ~Overlap, TypeOK, SerialInv, NEW p \in Publishers, Client(p) \/ Land(p),
           TurnInv(p)', tx'[p] \in {"pending", "processed"} => Running(p)', CalmInv'
    PROVE  SerialInv'
<1>1. \A q \in Publishers \ {p} : ~Running(q)' /\ ~Running(q) /\ tx'[q] = tx[q]
  BY OnlyOneRuns DEF Running
<1>2. TakeTurns'
  <2>1. \A a, b \in Publishers : Running(a)' /\ Running(b)' => a = b
    BY <1>1
  <2>2. \A q \in Publishers : tx'[q] \in {"pending", "processed"} => Running(q)'
    BY <1>1 DEF SerialInv, TakeTurns
  <2> QED
    BY <2>1, <2>2 DEF TakeTurns, Running
<1>3. \A q \in Publishers : TurnInv(q)'
  BY <1>1 DEF TurnInv
<1> QED
  BY <1>2, <1>3 DEF SerialInv

\* The node accepts what a run that is not disturbed sends.
LEMMA SerialAccepts ==
    ASSUME TypeOK, IInv, LeavesInv, SerialInv, NEW p \in Publishers, tx[p] = "pending"
    PROVE  Accepts(p)
<1>1. Running(p) /\ CreatorKnows(p) /\ ResizerKnows(p) /\ UploaderKnows(p)
  BY DEF SerialInv, TakeTurns, TurnInv
<1>2. /\ LandedOffset(p) = loc[p].off /\ LandedSpace(p) = loc[p].cur
      /\ FillingInv(p) /\ BufferInv(p) /\ OffsetInv(p) /\ CapacityInv(p) /\ ResizeInv(p)
      /\ AccountInv
  BY DEF LandedOffset, LandedSpace, IInv, RunInv, LeavesInv
<1>3. /\ Goal(loc[p].snap, job[p]) \in Nat /\ idl.cap \in Nat
      /\ pc[p] \in {"write", "set"} => Goal(loc[p].snap, job[p]) >= Required(job[p].doc)
      /\ Required(job[p].doc) = HeaderLen + Size[job[p].doc] /\ Size[job[p].doc] \in Nat
      /\ loc[p].cur \in Nat /\ loc[p].target \in Nat /\ HeaderLen \in Nat
      /\ Increment \in Nat \ {0} /\ loc[p].off \in Nat
      /\ job[p].doc \in Docs
  BY <1>2, GoalFacts, OperatorTypes DEF Required, TypeOK, Locals, CapacityInv
\* A chunk at the run's offset leaves it within the document.
<1>4. ASSUME pc[p] \in {"write", "upload"}
      PROVE  /\ Len(Part(job[p].doc, loc[p].off)) = loc[p].off
             /\ loc[p].off + Len(ChunkOf(p)) <= Size[job[p].doc]
             /\ Len(ChunkOf(p)) \in Nat
  BY <1>2, <1>3, <1>4, PartType, ChunkType DEF OffsetInv, ChunkOf
<1>5. CASE pc[p] = "create"
  BY <1>1, <1>5 DEF CreatorKnows, Accepts
<1>6. CASE pc[p] = "grow"
  BY <1>1, <1>2, <1>3, <1>6
  DEF CreatorKnows, FillingInv, Filling, CapacityInv, CanResize, Accepts
<1>7. CASE pc[p] = "write"
  <2>1. Owned(idl, job[p].auth) /\ idl.payload = Part(job[p].doc, loc[p].off)
    BY <1>1, <1>2, <1>7 DEF CreatorKnows
  <2>2. idl.cap >= Goal(loc[p].snap, job[p])
    BY <1>2, <1>7 DEF CapacityInv
  <2>3. Len(idl.payload) + Len(ChunkOf(p)) <= Size[job[p].doc]
    BY <1>4, <1>7, <2>1
  <2>4. Len(idl.payload) \in Nat
    BY <1>3, <1>4, <1>7, <2>1
  <2>5. Room(idl, Len(idl.payload) + Len(ChunkOf(p)))
    <3> DEFINE n == Len(idl.payload) + Len(ChunkOf(p))
    <3>1. n \in Nat
      BY <1>4, <1>7, <2>4
    <3> HIDE DEF n
    <3> QED
      BY <1>3, <1>7, <2>2, <2>3, <3>1 DEF Room, n
  <2> QED
    BY <1>7, <2>1, <2>5, Zenon DEF Accepts
<1>8. CASE pc[p] = "backup"
  <2>1. Owned(idl, job[p].auth) /\ idl.payload = loc[p].snap /\ Len(idl.payload) \in Nat
    BY <1>1, <1>8 DEF ResizerKnows, TypeOK, Account
  <2> QED
    BY <1>8, <2>1 DEF Accepts
<1>9. CASE pc[p] = "swap"
  <2>1. /\ Owned(idl, job[p].auth) /\ idl.payload = loc[p].snap /\ idl.cap = loc[p].cur
        /\ loc[p].cur < loc[p].target
        /\ BackupReady(p) /\ Owned(buf[p]["empty"], job[p].auth)
    BY <1>1, <1>2, <1>9 DEF ResizerKnows
  <2>2. buf[p]["empty"].payload = <<>>
    BY <1>2 DEF BufferInv
  <2> DEFINE cleared == Copied(buf[p]["empty"], idl)
  <2>3. cleared \in Account /\ cleared.payload = <<>> /\ cleared.cap = idl.cap
    BY <2>2 DEF Copied, TypeOK, Account, Kinds
  <2> HIDE DEF cleared
  <2>4. CanResize(cleared, loc[p].target)
    BY <1>3, <2>1, <2>3 DEF CanResize
  <2>5. /\ Resized(cleared, loc[p].target) \in Account
        /\ Resized(cleared, loc[p].target).cap >= idl.cap
    <3>1. Resized(cleared, loc[p].target) \in Account
      BY <1>3, <2>3, <2>4, AccountTypes
    <3>2. cleared.cap + Least(loc[p].target - cleared.cap, Increment) >= idl.cap
      BY <1>3, <2>1, <2>3 DEF Least
    <3>3. Resized(cleared, loc[p].target).cap =
              cleared.cap + Least(loc[p].target - cleared.cap, Increment)
      BY <2>3 DEF Resized, Account
    <3> QED
      BY <3>1, <3>2, <3>3
  <2>6. Swapped(p) = Copied(buf[p]["backup"], Resized(cleared, loc[p].target))
    BY DEF Swapped, cleared
  <2>7. Swapped(p).payload = loc[p].snap /\ Swapped(p).cap >= idl.cap /\ Swapped(p).cap \in Nat
    BY <1>3, <2>1, <2>5, <2>6 DEF BackupReady, Copied, Account
  <2>8. Room(idl, Len(loc[p].snap)) /\ Len(loc[p].snap) \in Nat
    BY <1>2, <2>1 DEF AccountInv, Owned, TypeOK, Locals
  <2>9. Room(Swapped(p), Len(Swapped(p).payload))
    BY <1>3, <2>7, <2>8 DEF Room
  <2>10. \A k \in {"empty", "backup"} : Owned(buf[p][k], job[p].auth)
    BY <2>1 DEF BackupReady
  <2> QED
    BY <1>9, <2>1, <2>4, <2>9, <2>10 DEF Accepts, cleared
<1>10. CASE pc[p] = "upload"
  <2>1. /\ Owned(buf[p]["upgrade"], job[p].auth) /\ buf[p]["upgrade"].cap = Required(job[p].doc)
        /\ buf[p]["upgrade"].payload = Part(job[p].doc, loc[p].off)
    BY <1>1, <1>2, <1>10 DEF UploaderKnows, BufferInv
  <2> QED
    BY <1>3, <1>4, <1>10, <2>1 DEF Room, Accepts
<1>11. CASE pc[p] = "set"
  <2>1. /\ Owned(idl, job[p].auth) /\ Owned(buf[p]["upgrade"], job[p].auth)
        /\ buf[p]["upgrade"].payload = Whole(job[p].doc) /\ idl.cap >= Goal(loc[p].snap, job[p])
    BY <1>1, <1>2, <1>11 DEF UploaderKnows, BufferInv, CapacityInv
  <2>2. Len(Whole(job[p].doc)) = Size[job[p].doc]
    BY <1>3, PartType DEF Whole
  <2> QED
    BY <1>3, <1>11, <2>1, <2>2 DEF Room, Accepts
<1>12. CASE pc[p] \notin {"create", "grow", "write", "backup", "swap", "upload", "set"}
  BY <1>12 DEF Accepts
<1> QED
  BY <1>5, <1>6, <1>7, <1>8, <1>9, <1>10, <1>11, <1>12

\* A refusal stays owed: the account keeps its authority.
LEMMA OwedStays ==
    ASSUME TypeOK, NEW p \in Publishers, Client(p) \/ Land(p), NEW q \in Publishers,
           status'[q] = status[q], Owed(q)
    PROVE  Owed(q)'
<1>1. job' = job
  BY DEF Client, Begin, ReadMissing, RefuseExisting, PlanUpgrade, Submit, LeaveLoop,
     ConfirmCall, ConfirmResize, ConfirmWrite, ConfirmFailure, CheckBackup, Reread, Verify,
     Land, Lands, LandCreate, LandGrow, LandWrite, LandBackup, LandEmpty, LandSwap,
     LandBuffer, LandUpload, LandSet, RejectTx
<1>2. idl.live => idl'.live /\ idl'.auth = idl.auth
  BY AccountNext DEF Next
<1> QED
  BY <1>1, <1>2 DEF Owed

LEMMA CalmStays ==
    ASSUME ~Overlap, TypeOK, SerialInv, NEW p \in Publishers, Client(p) \/ Land(p),
           status'[p] \in {"idle", "running", "ok", "tx_failed"} \/ Owed(p)',
           \/ status'[p] = "tx_failed"
           \/ status'[p] = "running" /\ pc'[p] # "read"
           \/ Calm => (idl'.live => WholeAccount(idl)')
    PROVE  CalmInv'
<1> SUFFICES ASSUME Calm' PROVE
        /\ \A q \in Publishers : status'[q] \in {"idle", "running", "ok"} \/ Owed(q)'
        /\ (\A q \in Publishers : Running(q)' => pc'[q] = "read") /\ idl'.live
               => WholeAccount(idl)'
  BY DEF CalmInv
<1>1. status[p] # "tx_failed"
  BY OnlyOneRuns DEF Begin, Running
<1>2. Calm
  BY <1>1, OnlyOneRuns DEF Calm
<1>3. ASSUME NEW q \in Publishers
      PROVE  status'[q] \in {"idle", "running", "ok"} \/ Owed(q)'
  <2>1. CASE q = p
    BY <2>1 DEF Calm
  <2>2. CASE q # p
    BY <1>2, <2>2, OnlyOneRuns, OwedStays DEF SerialInv, CalmInv
  <2> QED
    BY <2>1, <2>2
<1>4. (\A q \in Publishers : Running(q)' => pc'[q] = "read") /\ idl'.live => WholeAccount(idl)'
  BY <1>2 DEF Calm, Running
<1> QED
  BY <1>3, <1>4

\* The steps of the client: what it knows follows it from call to call.
LEMMA SerialClient ==
    ASSUME ~Overlap, TypeOK, TypeOK', IInv, LeavesInv, SerialInv, NEW p \in Publishers, Client(p)
    PROVE  TurnInv(p)' /\ (tx'[p] \in {"pending", "processed"} => Running(p)') /\ CalmInv'
<1> USE DEF Return, Goto, Consume, chain, At, Running
<1>1. /\ idl' = idl /\ buf' = buf /\ job' = job /\ TurnInv(p)
      /\ FillingInv(p) /\ UpdatingInv(p) /\ BufferInv(p) /\ OffsetInv(p)
      /\ CapacityInv(p) /\ ResizeInv(p) /\ AccountInv
      /\ tx[p] \in {"pending", "processed"} => status[p] = "running"
      /\ (Published(idl) <=> WholeAccount(idl))
      /\ (WholeAccount(idl)' <=> WholeAccount(idl))
  <2>1. idl' = idl /\ buf' = buf /\ job' = job
    BY DEF Client, Begin, ReadMissing, RefuseExisting, PlanUpgrade, Submit, LeaveLoop,
       ConfirmCall, ConfirmResize, ConfirmWrite, ConfirmFailure, CheckBackup, Reread, Verify
  <2>2. WholeAccount(idl)' <=> WholeAccount(idl)
    BY <2>1 DEF WholeAccount, Whole, Part
  <2> QED
    BY <2>1, <2>2, PublishedIsWhole DEF IInv, RunInv, LeavesInv, SerialInv, TakeTurns
<1>2. /\ idl.cap \in Nat
      /\ Required(job[p].doc) = HeaderLen + Size[job[p].doc] /\ Size[job[p].doc] \in Nat \ {0}
      /\ loc[p].cur \in Nat /\ loc[p].target \in Nat /\ HeaderLen \in Nat
      /\ Increment \in Nat \ {0} /\ loc[p].off \in Nat /\ job[p].doc \in Docs
  BY GoalFacts, OperatorTypes DEF Required, TypeOK, Locals
<1>3. CASE Begin(p)
  <2>1. /\ \/ status'[p] = "too_small" /\ pc' = pc /\ TooSmall(job[p])
           \/ status'[p] = "running" /\ pc'[p] = "read"
        /\ tx' = tx /\ loc' = loc
        /\ \A q \in Publishers : status[q] # "running"
    BY <1>3 DEF Begin, TypeOK
  <2>2. tx'[p] \notin {"pending", "processed"}
    BY <1>1, <2>1
  <2>3. Calm /\ idl.live => WholeAccount(idl)
    BY <2>1 DEF SerialInv, CalmInv
  <2>4. CalmInv'
    BY <1>1, <2>1, <2>3, CalmStays DEF Owed
  <2>5. TurnInv(p)'
    BY <2>1, <2>2 DEF TurnInv, CreatorKnows, ResizerKnows, UploaderKnows
  <2> QED
    BY <2>2, <2>4, <2>5
\* In every other step the run was under way, and the only one.
<1>4. ASSUME ~Begin(p), Calm, pc[p] = "read", idl.live
      PROVE  WholeAccount(idl)
  <2>1. \A q \in Publishers : Running(q) => pc[q] = "read"
    BY <1>4, OnlyOneRuns
  <2> QED
    BY <1>4, <2>1 DEF SerialInv, CalmInv
<1>5. CASE ReadMissing(p)
  <2>1. /\ pc'[p] = "create" /\ tx'[p] = "none" /\ status'[p] = "running" /\ loc' = loc
        /\ ~idl.live
    BY <1>5 DEF ReadMissing, TypeOK
  <2>2. TurnInv(p)'
    BY <1>1, <2>1 DEF TurnInv, CreatorKnows, ResizerKnows, UploaderKnows
  <2> QED
    BY <2>1, <2>2, CalmStays
<1>6. CASE RefuseExisting(p)
  <2>1. /\ pc[p] = "read" /\ idl.live /\ tx'[p] = "none"
        /\ status'[p] = Refusal(idl, job[p]) /\ Refusal(idl, job[p]) # "none"
    BY <1>6 DEF RefuseExisting, TypeOK
  <2>2. ~Begin(p)
    BY <1>6 DEF RefuseExisting, Begin
  <2>3. Calm => WholeAccount(idl) /\ Published(idl)
    BY <1>1, <1>4, <2>1, <2>2
  <2>4. CalmInv'
    <3>1. CASE Calm
      <4>1. \/ status'[p] = "invalid" /\ ~Valid(idl, job[p].auth)
            \/ status'[p] = "fixed_capacity" /\ ~job[p].allow
        BY <2>1, <2>3, <3>1 DEF Refusal
      <4>2. Owed(p)'
        BY <1>1, <2>1, <4>1 DEF Owed, Valid, Owned, AccountInv
      <4> QED
        BY <1>1, <2>3, <3>1, <4>2, CalmStays
    <3>2. CASE ~Calm
      <4>1. status[p] = "running" /\ status'[p] # "tx_failed"
        BY <1>6, <2>1 DEF RefuseExisting, Refusal
      <4>2. ~Calm'
        BY <3>2, <4>1, OnlyOneRuns DEF Calm
      <4> QED
        BY <4>2 DEF CalmInv
    <3> QED
      BY <3>1, <3>2
  <2>5. status'[p] # "running"
    BY <2>1 DEF Refusal
  <2> QED
    BY <2>1, <2>4, <2>5 DEF TurnInv
<1>7. CASE PlanUpgrade(p)
  <2>1. /\ pc[p] = "read" /\ status'[p] = "running" /\ tx'[p] = "none" /\ idl.live
        /\ loc'[p].snap = idl.payload
        /\ loc'[p].cur = idl.cap /\ loc'[p].target = TargetCapacity(idl, job[p])
        /\ IF TargetCapacity(idl, job[p]) > idl.cap THEN pc'[p] = "backup"
           ELSE pc'[p] = AfterResize(idl.payload, job[p])
    BY <1>7 DEF PlanUpgrade, TypeOK, Locals
  <2>2. Owned(idl, job[p].auth)
    BY <1>7 DEF PlanUpgrade, Refusal, Valid
  <2>3. CASE pc'[p] = "backup"
    <3>1. TurnInv(p)'
      BY <1>1, <2>1, <2>2, <2>3 DEF TurnInv, CreatorKnows, ResizerKnows, UploaderKnows, Owned
    <3> QED
      BY <2>1, <2>3, <3>1, CalmStays
  <2>4. CASE pc'[p] = AfterResize(idl.payload, job[p])
    <3>1. \/ pc'[p] = "buffer"
          \/ pc'[p] = "verify" /\ Holds(idl.payload, job[p].doc)
      BY <2>4 DEF AfterResize, Unchanged
    <3>2. TurnInv(p)'
      BY <1>1, <2>1, <2>2, <3>1
      DEF TurnInv, CreatorKnows, ResizerKnows, UploaderKnows, Owned, Inflates
    <3> QED
      BY <2>1, <3>1, <3>2, CalmStays
  <2> QED
    BY <2>1, <2>3, <2>4
<1>8. CASE Submit(p)
  <2>1. /\ tx[p] = "none" /\ tx'[p] = "pending" /\ pc' = pc /\ loc' = loc
        /\ status[p] = "running" /\ status'[p] = "running" /\ pc[p] \in TxSteps /\ Due(p)
    BY <1>8 DEF Submit, TypeOK
  <2>2. LandedOffset(p)' = LandedOffset(p) /\ LandedSpace(p)' = LandedSpace(p)
    BY <2>1 DEF LandedOffset, LandedSpace
  <2>3. pc[p] = "swap" => loc[p].cur < loc[p].target
    BY <2>1 DEF Due, TxSteps, LoopSteps
  <2>4. TurnInv(p)'
    BY <1>1, <2>1, <2>2, <2>3
    DEF TurnInv, CreatorKnows, ResizerKnows, UploaderKnows, Owned, Inflates, BackupReady, Room,
        Part
  <2>5. pc'[p] # "read"
    BY <2>1 DEF TxSteps, LoopSteps
  <2> QED
    BY <2>1, <2>4, <2>5, CalmStays
<1>9. CASE LeaveLoop(p)
  <2>1. /\ tx[p] = "none" /\ tx'[p] = "none" /\ loc' = loc
        /\ status[p] = "running" /\ status'[p] = "running"
        /\ \/ pc[p] = "grow" /\ pc'[p] = "write"
           \/ pc[p] = "write" /\ pc'[p] = "verify" /\ ~(loc[p].off < Size[job[p].doc])
           \/ pc[p] = "swap" /\ pc'[p] = "reread" /\ ~(loc[p].cur < loc[p].target)
           \/ pc[p] = "upload" /\ pc'[p] = "set"
    BY <1>9 DEF LeaveLoop, Due, LoopSteps, TypeOK
  <2>2. LandedOffset(p) = loc[p].off /\ LandedOffset(p)' = loc[p].off
        /\ LandedSpace(p) = loc[p].cur
    BY <2>1 DEF LandedOffset, LandedSpace
  <2>3. CASE pc[p] = "grow"
    <3>1. idl.payload = <<>> /\ loc[p].off = 0 /\ Owned(idl, job[p].auth)
      BY <1>1, <2>1, <2>3 DEF FillingInv, Filling, OffsetInv, TurnInv, CreatorKnows
    <3>2. idl.payload = Part(job[p].doc, loc[p].off)
      BY <3>1 DEF Part
    <3>3. TurnInv(p)'
      BY <1>1, <2>1, <2>2, <2>3, <3>1, <3>2
      DEF TurnInv, CreatorKnows, ResizerKnows, UploaderKnows, Owned, Part
    <3> QED
      BY <2>1, <2>3, <3>3, CalmStays
  <2>4. CASE pc[p] = "write"
    <3>1. loc[p].off = Size[job[p].doc] /\ Owned(idl, job[p].auth)
          /\ idl.payload = Part(job[p].doc, loc[p].off)
      BY <1>1, <1>2, <2>1, <2>2, <2>4 DEF OffsetInv, TurnInv, CreatorKnows
    <3>2. Holds(idl.payload, job[p].doc)
      BY <1>2, <3>1, PrefixInflates DEF Holds
    <3>3. TurnInv(p)'
      BY <1>1, <2>1, <2>4, <3>1, <3>2
      DEF TurnInv, CreatorKnows, ResizerKnows, UploaderKnows, Owned, Inflates
    <3> QED
      BY <2>1, <2>4, <3>3, CalmStays
  <2>5. CASE pc[p] = "swap"
    <3>1. TurnInv(p)'
      BY <1>1, <1>2, <2>1, <2>2, <2>5
      DEF TurnInv, CreatorKnows, ResizerKnows, UploaderKnows, Owned, CapacityInv, ResizeInv
    <3> QED
      BY <2>1, <2>5, <3>1, CalmStays
  <2>6. CASE pc[p] = "upload"
    <3>1. TurnInv(p)'
      BY <1>1, <2>1, <2>6
      DEF TurnInv, CreatorKnows, ResizerKnows, UploaderKnows, Owned, Required
    <3> QED
      BY <2>1, <2>6, <3>1, CalmStays
  <2> QED
    BY <2>1, <2>3, <2>4, <2>5, <2>6
<1>10. CASE ConfirmCall(p)
  <2>1. /\ tx[p] = "processed" /\ tx'[p] = "none" /\ status[p] = "running"
        /\ status'[p] = "running"
        /\ \/ /\ pc[p] = "create" /\ pc'[p] = "grow"
              /\ loc'[p].cur = Least(InitialCapacity(job[p]), Increment)
              /\ loc'[p].target = InitialCapacity(job[p])
           \/ pc[p] = "backup" /\ pc'[p] = "check" /\ loc'[p] = loc[p]
           \/ pc[p] = "empty" /\ pc'[p] = "swap" /\ loc'[p] = loc[p]
           \/ pc[p] = "buffer" /\ pc'[p] = "upload" /\ loc'[p] = loc[p]
           \/ pc[p] = "set" /\ pc'[p] = "verify" /\ loc'[p] = loc[p]
    BY <1>10 DEF ConfirmCall, Settled, TxSteps, LoopSteps, TypeOK, Locals
  <2>2. LandedSpace(p)' = loc'[p].cur
    BY <2>1 DEF LandedSpace
  <2>3. CreatorKnows(p) /\ ResizerKnows(p) /\ UploaderKnows(p)
    BY <1>1, <2>1 DEF TurnInv
  <2>4. TurnInv(p)'
    <3>1. CASE pc[p] = "create"
      BY <1>1, <2>1, <2>2, <2>3, <3>1
      DEF TurnInv, CreatorKnows, ResizerKnows, UploaderKnows, Owned
    <3>2. CASE pc[p] \in {"backup", "empty"}
      BY <1>1, <2>1, <2>2, <2>3, <3>2
      DEF TurnInv, CreatorKnows, ResizerKnows, UploaderKnows, Owned, BackupReady, Room
    <3>3. CASE pc[p] \in {"buffer", "set"}
      BY <1>1, <2>1, <2>3, <3>3
      DEF TurnInv, CreatorKnows, ResizerKnows, UploaderKnows, Owned, Inflates, Required
    <3> QED
      BY <2>1, <3>1, <3>2, <3>3
  <2> QED
    BY <2>1, <2>4, CalmStays
<1>11. CASE ConfirmResize(p)
  <2>1. /\ tx[p] = "processed" /\ tx'[p] = "none" /\ status[p] = "running"
        /\ status'[p] = "running" /\ pc' = pc /\ pc[p] \in {"grow", "swap"}
        /\ loc'[p].cur = NextSpace(loc[p].cur, loc[p].target)
        /\ loc'[p].target = loc[p].target /\ loc'[p].snap = loc[p].snap
    BY <1>11 DEF ConfirmResize, Settled, TypeOK, Locals
  <2>2. LandedSpace(p)' = LandedSpace(p)
    BY <2>1 DEF LandedSpace
  <2>3. TurnInv(p)'
    BY <1>1, <2>1, <2>2
    DEF TurnInv, CreatorKnows, ResizerKnows, UploaderKnows, Owned, BackupReady, Room
  <2> QED
    BY <2>1, <2>3, CalmStays
<1>12. CASE ConfirmWrite(p)
  <2>1. /\ tx[p] = "processed" /\ tx'[p] = "none" /\ status[p] = "running"
        /\ status'[p] = "running" /\ pc' = pc /\ pc[p] \in {"write", "upload"}
        /\ loc'[p].off = NextOffset(p)
    BY <1>12 DEF ConfirmWrite, Settled, TypeOK, Locals
  <2>2. LandedOffset(p)' = LandedOffset(p)
    BY <2>1 DEF LandedOffset
  <2>3. TurnInv(p)'
    BY <1>1, <2>1, <2>2
    DEF TurnInv, CreatorKnows, ResizerKnows, UploaderKnows, Owned, Part, Required
  <2> QED
    BY <2>1, <2>3, CalmStays
<1>13. CASE ConfirmFailure(p)
  <2>1. tx'[p] = "failed" /\ status'[p] = "tx_failed"
    BY <1>13 DEF ConfirmFailure, Settled, TypeOK
  <2> QED
    BY <2>1, CalmStays DEF TurnInv
<1>14. CASE CheckBackup(p)
  <2>1. pc[p] = "check" /\ status[p] = "running" /\ tx[p] = "none"
    BY <1>14 DEF CheckBackup
  <2>2. BackupReady(p)
    BY <1>1, <2>1 DEF TurnInv, ResizerKnows
  <2>3. pc'[p] = "empty" /\ status'[p] = "running" /\ tx' = tx /\ loc' = loc
    BY <1>14, <2>1, <2>2 DEF CheckBackup, BackupReady, Valid, TypeOK
  <2>4. TurnInv(p)'
    BY <1>1, <2>1, <2>2, <2>3
    DEF TurnInv, CreatorKnows, ResizerKnows, UploaderKnows, Owned, BackupReady, Room
  <2> QED
    BY <2>1, <2>3, <2>4, CalmStays
<1>15. CASE Reread(p)
  <2>1. pc[p] = "reread" /\ status[p] = "running" /\ tx[p] = "none"
    BY <1>15 DEF Reread
  <2>2. Owned(idl, job[p].auth) /\ idl.payload = loc[p].snap /\ idl.cap >= loc[p].target
    BY <1>1, <2>1 DEF TurnInv, ResizerKnows
  <2>3. Valid(idl, job[p].auth) /\ Published(idl)
    BY <1>1, <2>1, <2>2 DEF Valid, AccountInv, Owned, UpdatingInv, Updating
  <2>4. ResizeDefect(idl, job[p], loc[p]) = "none"
    BY <1>2, <2>2, <2>3 DEF ResizeDefect, Holds
  <2>5. pc'[p] = AfterResize(loc[p].snap, job[p]) /\ status'[p] = "running" /\ tx' = tx
    BY <1>15, <2>1, <2>4 DEF Reread, TypeOK
  <2>6. \/ pc'[p] = "buffer"
        \/ pc'[p] = "verify" /\ Holds(idl.payload, job[p].doc)
    BY <2>2, <2>5 DEF AfterResize, Unchanged
  <2>7. TurnInv(p)'
    BY <1>1, <2>1, <2>2, <2>5, <2>6
    DEF TurnInv, CreatorKnows, ResizerKnows, UploaderKnows, Owned, Inflates
  <2> QED
    BY <2>1, <2>5, <2>6, <2>7, CalmStays
<1>16. CASE Verify(p)
  <2>1. pc[p] = "verify" /\ status[p] = "running" /\ tx[p] = "none"
    BY <1>16 DEF Verify
  <2>2. Owned(idl, job[p].auth) /\ Holds(idl.payload, job[p].doc)
    BY <1>1, <2>1 DEF TurnInv, UploaderKnows
  <2>3. Valid(idl, job[p].auth) /\ Published(idl)
    BY <1>1, <1>2, <2>2 DEF Valid, AccountInv, Owned, Published, Holds
  <2>4. PublicationDefect(idl, job[p]) = "none"
    BY <2>2, <2>3 DEF PublicationDefect
  <2>5. status'[p] = "ok" /\ tx' = tx
    BY <1>16, <2>4 DEF Verify, TypeOK
  <2>6. CalmInv'
    BY <1>1, <2>3, <2>5, CalmStays
  <2> QED
    BY <2>1, <2>5, <2>6 DEF TurnInv
<1> QED
  BY <1>3, <1>5, <1>6, <1>7, <1>8, <1>9, <1>10, <1>11, <1>12, <1>13, <1>14, <1>15, <1>16
  DEF Client

\* What SetBuffer(empty), Resize and SetBuffer(backup) make of the account.
LEMMA SwapRestores ==
    ASSUME TypeOK, IInv, LeavesInv, SerialInv, NEW p \in Publishers, tx[p] = "pending",
           pc[p] = "swap"
    PROVE  /\ Swapped(p).live = idl.live /\ Swapped(p).auth = idl.auth
           /\ Swapped(p).payload = idl.payload
           /\ Swapped(p).cap = NextSpace(loc[p].cur, loc[p].target)
<1>1. /\ idl.payload = loc[p].snap /\ idl.cap = loc[p].cur /\ BackupReady(p)
      /\ buf[p]["empty"].payload = <<>>
  BY DEF SerialInv, TakeTurns, TurnInv, ResizerKnows, LandedSpace, IInv, RunInv, BufferInv
<1> DEFINE cleared == Copied(buf[p]["empty"], idl)
<1>2. /\ cleared \in Account /\ cleared.live = idl.live /\ cleared.auth = idl.auth
      /\ cleared.cap = idl.cap
  BY DEF Copied, TypeOK, Account, Kinds
<1> HIDE DEF cleared
<1> DEFINE grown == Resized(cleared, loc[p].target)
<1>3. /\ grown.live = idl.live /\ grown.auth = idl.auth /\ "payload" \in DOMAIN grown
      /\ grown.cap = NextSpace(loc[p].cur, loc[p].target)
      /\ DOMAIN grown = {"live", "cap", "auth", "payload"}
  BY <1>1, <1>2 DEF Resized, NextSpace, Account
<1>4. Swapped(p) = [grown EXCEPT !.payload = buf[p]["backup"].payload]
  BY DEF Swapped, cleared, Copied
<1> HIDE DEF grown
<1> QED
  BY <1>1, <1>3, <1>4 DEF BackupReady

\* The steps of the node.
LEMMA SerialLand ==
    ASSUME ~Overlap, TypeOK, TypeOK', IInv, LeavesInv, SerialInv, NEW p \in Publishers, Land(p)
    PROVE  TurnInv(p)' /\ Running(p)' /\ CalmInv'
<1>1. /\ tx[p] = "pending" /\ pc' = pc /\ loc' = loc /\ job' = job /\ status' = status
      /\ tx'[p] \in {"processed", "failed"}
  BY DEF Land, Lands, LandCreate, LandGrow, LandWrite, LandBackup, LandEmpty, LandSwap,
     LandBuffer, LandUpload, LandSet, RejectTx, chain, TypeOK
<1>2. /\ Running(p) /\ CreatorKnows(p) /\ ResizerKnows(p) /\ UploaderKnows(p)
      /\ FillingInv(p) /\ BufferInv(p) /\ OffsetInv(p) /\ CapacityInv(p)
  BY <1>1 DEF SerialInv, TakeTurns, TurnInv, IInv, RunInv, LeavesInv
<1>3. Running(p)' /\ status'[p] = "running"
  BY <1>1, <1>2 DEF Running
<1>4. /\ LandedOffset(p) = loc[p].off /\ LandedSpace(p) = loc[p].cur
      /\ tx'[p] = "processed" =>
             /\ LandedSpace(p)' = NextSpace(loc[p].cur, loc[p].target)
             /\ LandedOffset(p)' = NextOffset(p)
  <2>1. NextOffset(p)' = NextOffset(p)
    BY <1>1 DEF NextOffset, ChunkOf
  <2> QED
    BY <1>1, <2>1 DEF LandedOffset, LandedSpace
<1>5. /\ idl.cap \in Nat /\ loc[p].cur \in Nat /\ loc[p].target \in Nat
      /\ Increment \in Nat \ {0} /\ HeaderLen \in Nat
      /\ job[p].doc \in Docs /\ job[p].auth \in Authorities /\ idl \in Account
      /\ \A k \in Kinds : buf[p][k] \in Account
  BY GoalFacts, OperatorTypes DEF TypeOK
<1>6. CASE RejectTx(p)
  <2>1. idl' = idl /\ tx'[p] = "failed"
    BY <1>6 DEF RejectTx, chain, TypeOK
  <2>2. pc[p] = "read" /\ Calm /\ idl'.live => WholeAccount(idl)'
    <3>1. pc[p] = "read" /\ Calm /\ idl.live => WholeAccount(idl)
      BY OnlyOneRuns DEF SerialInv, CalmInv
    <3> QED
      BY <2>1, <3>1 DEF WholeAccount, Whole, Part
  <2>3. CalmInv'
    BY <1>1, <1>3, <2>2, CalmStays
  <2> QED
    BY <1>3, <2>1, <2>3 DEF TurnInv
\* All others are accepted; the run is not reading.
<1>7. ASSUME pc[p] # "read"
      PROVE  CalmInv'
  BY <1>1, <1>3, <1>7, CalmStays
<1>8. CASE LandCreate(p)
  <2>1. pc[p] = "create" /\ tx'[p] = "processed"
        /\ idl'.live /\ idl'.auth = job[p].auth
        /\ idl'.cap = Least(InitialCapacity(job[p]), Increment)
    BY <1>8 DEF LandCreate, Lands, Fresh, TypeOK
  <2>2. TurnInv(p)'
    BY <1>1, <2>1 DEF TurnInv, CreatorKnows, ResizerKnows, UploaderKnows, Owned
  <2> QED
    BY <1>3, <1>7, <2>1, <2>2
<1>9. CASE LandGrow(p)
  <2>1. /\ pc[p] = "grow" /\ tx'[p] = "processed"
        /\ idl'.live = idl.live /\ idl'.auth = idl.auth
        /\ idl'.cap = idl.cap + Least(loc[p].target - idl.cap, Increment)
    BY <1>5, <1>9 DEF LandGrow, Lands, Resized, TypeOK, Account
  <2>2. Owned(idl, job[p].auth) /\ idl.cap = loc[p].cur
    BY <1>2, <1>4, <2>1 DEF CreatorKnows
  <2>3. idl'.cap = LandedSpace(p)'
    BY <1>4, <2>1, <2>2 DEF NextSpace
  <2>4. TurnInv(p)'
    BY <1>1, <2>1, <2>2, <2>3 DEF TurnInv, CreatorKnows, ResizerKnows, UploaderKnows, Owned
  <2> QED
    BY <1>3, <1>7, <2>1, <2>4
<1>10. CASE LandWrite(p)
  <2>1. /\ pc[p] = "write" /\ tx'[p] = "processed"
        /\ idl'.live = idl.live /\ idl'.auth = idl.auth
        /\ idl'.payload = idl.payload \o ChunkOf(p)
    BY <1>5, <1>10 DEF LandWrite, Lands, Appended, TypeOK, Account
  <2>2. Owned(idl, job[p].auth) /\ idl.payload = Part(job[p].doc, loc[p].off)
    BY <1>2, <1>4, <2>1 DEF CreatorKnows
  <2>3. loc[p].off \in Nat /\ loc[p].off <= Size[job[p].doc]
    BY <1>2 DEF OffsetInv, TypeOK, Locals
  <2>4. idl'.payload = Part(job[p].doc, NextOffset(p))
    BY <1>5, <2>1, <2>2, <2>3, PartAppend DEF ChunkOf, NextOffset
  <2>5. TurnInv(p)'
    BY <1>1, <1>4, <2>1, <2>2, <2>4
    DEF TurnInv, CreatorKnows, ResizerKnows, UploaderKnows, Owned, Part
  <2> QED
    BY <1>3, <1>7, <2>1, <2>5
<1>11. CASE LandBackup(p)
  <2>1. /\ pc[p] = "backup" /\ tx'[p] = "processed" /\ idl' = idl
        /\ buf'[p]["backup"] =
               Copied(idl, Fresh(HeaderLen + Len(loc[p].snap), job[p].auth))
    BY <1>11 DEF LandBackup, Lands, PutBuffer, TypeOK, Kinds
  <2>2. Owned(idl, job[p].auth) /\ idl.payload = loc[p].snap /\ idl.cap = loc[p].cur
    BY <1>2, <2>1 DEF ResizerKnows
  <2>3. Len(loc[p].snap) \in Nat
    BY DEF TypeOK, Locals
  <2>4. BackupReady(p)'
    BY <1>1, <1>5, <2>1, <2>2, <2>3 DEF BackupReady, Owned, Room, Copied, Fresh
  <2>5. TurnInv(p)'
    BY <1>1, <2>1, <2>2, <2>4 DEF TurnInv, CreatorKnows, ResizerKnows, UploaderKnows, Owned
  <2> QED
    BY <1>3, <1>7, <2>1, <2>5
<1>12. CASE LandEmpty(p)
  <2>1. /\ pc[p] = "empty" /\ tx'[p] = "processed" /\ idl' = idl
        /\ buf'[p]["empty"] = Fresh(HeaderLen, job[p].auth)
        /\ buf'[p]["backup"] = buf[p]["backup"]
    BY <1>12 DEF LandEmpty, Lands, PutBuffer, TypeOK, Kinds
  <2>2. /\ Owned(idl, job[p].auth) /\ idl.payload = loc[p].snap /\ idl.cap = loc[p].cur
        /\ BackupReady(p)
    BY <1>2, <2>1 DEF ResizerKnows
  <2>3. BackupReady(p)' /\ Owned(buf[p]["empty"], job[p].auth)'
    BY <1>1, <2>1, <2>2 DEF BackupReady, Owned, Room, Fresh
  <2>4. TurnInv(p)'
    BY <1>1, <2>1, <2>2, <2>3 DEF TurnInv, CreatorKnows, ResizerKnows, UploaderKnows, Owned
  <2> QED
    BY <1>3, <1>7, <2>1, <2>4
<1>13. CASE LandSwap(p)
  <2>1. pc[p] = "swap" /\ tx'[p] = "processed" /\ idl' = Swapped(p)
        /\ (~ClosesBuffers(loc[p]) => buf' = buf)
    BY <1>13 DEF LandSwap, Lands, TypeOK
  <2>2. /\ Owned(idl, job[p].auth) /\ idl.payload = loc[p].snap
        /\ loc[p].cur < loc[p].target
        /\ BackupReady(p) /\ Owned(buf[p]["empty"], job[p].auth)
    BY <1>1, <1>2, <1>4, <2>1 DEF ResizerKnows
  <2>3. /\ Owned(idl, job[p].auth)' /\ idl'.payload = loc'[p].snap
        /\ idl'.cap = LandedSpace(p)'
    BY <1>1, <1>4, <2>1, <2>2, SwapRestores DEF Owned
  <2>4. LandedSpace(p)' < loc'[p].target => ~ClosesBuffers(loc[p])
    BY <1>1, <1>4, <1>5, <2>1 DEF ClosesBuffers
  <2>5. LandedSpace(p)' < loc'[p].target =>
            BackupReady(p)' /\ Owned(buf[p]["empty"], job[p].auth)'
    BY <1>1, <2>1, <2>2, <2>4 DEF BackupReady, Owned, Room
  <2>6. TurnInv(p)'
    BY <1>1, <2>1, <2>2, <2>3, <2>5 DEF TurnInv, CreatorKnows, ResizerKnows, UploaderKnows
  <2> QED
    BY <1>3, <1>7, <2>1, <2>6
<1>14. CASE LandBuffer(p)
  <2>1. /\ pc[p] = "buffer" /\ tx'[p] = "processed" /\ idl' = idl
        /\ buf'[p]["upgrade"] = Fresh(Required(job[p].doc), job[p].auth)
    BY <1>14 DEF LandBuffer, Lands, PutBuffer, TypeOK, Kinds
  <2>2. TurnInv(p)'
    BY <1>1, <1>2, <2>1
    DEF TurnInv, CreatorKnows, ResizerKnows, UploaderKnows, Owned, Fresh, Required
  <2> QED
    BY <1>3, <1>7, <2>1, <2>2
<1>15. CASE LandUpload(p)
  <2>1. /\ pc[p] = "upload" /\ tx'[p] = "processed" /\ idl' = idl
        /\ buf'[p]["upgrade"].live = buf[p]["upgrade"].live
        /\ buf'[p]["upgrade"].auth = buf[p]["upgrade"].auth
        /\ buf'[p]["upgrade"].cap = buf[p]["upgrade"].cap
    BY <1>5, <1>15 DEF LandUpload, Lands, PutBuffer, Appended, TypeOK, Kinds, Account
  <2>2. TurnInv(p)'
    BY <1>1, <1>2, <2>1
    DEF TurnInv, CreatorKnows, ResizerKnows, UploaderKnows, Owned, Required
  <2> QED
    BY <1>3, <1>7, <2>1, <2>2
<1>16. CASE LandSet(p)
  <2>1. /\ pc[p] = "set" /\ tx'[p] = "processed" /\ buf' = buf
        /\ idl'.live = idl.live /\ idl'.auth = idl.auth
        /\ idl'.payload = buf[p]["upgrade"].payload
    BY <1>5, <1>16 DEF LandSet, Lands, Copied, TypeOK, Account
  <2>2. idl'.payload = Part(job[p].doc, Size[job[p].doc])
    BY <1>2, <2>1 DEF BufferInv, Whole
  <2>3. Holds(idl'.payload, job[p].doc)
    BY <1>5, <2>2, PrefixInflates, SizeAssumption DEF Holds
  <2>4. TurnInv(p)'
    BY <1>1, <1>2, <2>1, <2>3
    DEF TurnInv, CreatorKnows, ResizerKnows, UploaderKnows, Owned, Inflates, Required
  <2> QED
    BY <1>3, <1>7, <2>1, <2>4
<1> QED
  BY <1>6, <1>8, <1>9, <1>10, <1>11, <1>12, <1>13, <1>14, <1>15, <1>16 DEF Land

LEMMA SerialNext ==
    ASSUME ~Overlap, "client_stops" \notin Faults
    PROVE  TypeOK /\ TypeOK' /\ IInv /\ LeavesInv /\ SerialInv /\ [Next]_vars => SerialInv'
<1> SUFFICES ASSUME TypeOK, TypeOK', IInv, LeavesInv, SerialInv, [Next]_vars
             PROVE  SerialInv'
  OBVIOUS
<1>1. CASE UNCHANGED vars
  BY <1>1 DEF vars, SerialInv, TakeTurns, TurnInv, CalmInv, Calm, Owed, Running, CreatorKnows,
     ResizerKnows, UploaderKnows, LandedSpace, LandedOffset, NextOffset, ChunkOf, BackupReady,
     Owned, Room, WholeAccount, Whole, Part, Holds, Inflates, Required
<1>2. ASSUME NEW p \in Publishers, Client(p) \/ Land(p)
      PROVE  SerialInv'
  BY <1>2, SerialClient, SerialLand, TurnSuffices
<1>3. ASSUME NEW p \in Publishers
      PROVE  ~Stop(p)
  BY DEF Stop
<1> QED
  BY <1>1, <1>2, <1>3 DEF Next

(* Runs that take turns, with transactions that may fail but no client     *)
(* that stops: each knows the account as well as if it were alone.         *)
THEOREM SerialInductive ==
    ASSUME ~Overlap, "client_stops" \notin Faults
    PROVE  Spec => []SerialInv
<1>1. TypeOK /\ TypeOK' /\ IInv /\ LeavesInv /\ SerialInv /\ [Next]_vars => SerialInv'
  BY SerialNext
<1> QED
  BY <1>1, SerialInit, TypeCorrect, Inductive, LeavesInductive, PTL DEF Spec

(* Runs that take turns end in success or in a refusal they owe to their   *)
(* arguments, and the node accepts all they send, until a transaction      *)
(* fails for another reason.                                               *)
THEOREM SerialRunsSucceed ==
    ASSUME ~Overlap, "client_stops" \notin Faults
    PROVE  Spec => []UndisturbedRunSucceeds
<1>1. TypeOK /\ IInv /\ LeavesInv /\ SerialInv => UndisturbedRunSucceeds
  BY SerialAccepts DEF UndisturbedRunSucceeds, SerialInv, CalmInv, Calm
<1> QED
  BY <1>1, SerialInductive, TypeCorrect, Inductive, LeavesInductive, PTL

(* Runs that take turns: a resize transaction leaves the payload it found, *)
(* whichever turn of the loop it is.                                       *)
THEOREM SerialResizeRestores ==
    ASSUME ~Overlap, "client_stops" \notin Faults
    PROVE  Spec => ResizeRestoresOriginal
<1> DEFINE Restores ==
        \A p \in Publishers :
            pc[p] = "swap" /\ tx[p] = "pending" /\ tx'[p] = "processed" =>
                idl'.payload = idl.payload
<1>1. TypeOK /\ IInv /\ LeavesInv /\ SerialInv /\ [Next]_vars => [Restores]_vars
  <2> SUFFICES ASSUME TypeOK, IInv, LeavesInv, SerialInv, [Next]_vars, NEW p \in Publishers,
                      pc[p] = "swap", tx[p] = "pending", tx'[p] = "processed"
               PROVE  idl'.payload = idl.payload
    OBVIOUS
  <2>1. PICK q \in Publishers : Client(q) \/ Land(q) \/ Stop(q)
    BY DEF Next, vars
  <2>2. ~Client(q) /\ ~Stop(q)
    BY DEF Client, Stop, Begin, ReadMissing, RefuseExisting, PlanUpgrade, Submit, LeaveLoop,
       ConfirmCall, ConfirmResize, ConfirmWrite, ConfirmFailure, CheckBackup, Reread, Verify,
       Consume, Settled, TypeOK
  <2>3. q = p
    BY <2>1, <2>2 DEF Land, Lands, LandCreate, LandGrow, LandWrite, LandBackup, LandEmpty,
       LandSwap, LandBuffer, LandUpload, LandSet, RejectTx, TypeOK
  <2>4. LandSwap(p)
    BY <2>1, <2>2, <2>3 DEF Land, Lands, LandCreate, LandGrow, LandWrite, LandBackup,
       LandEmpty, LandBuffer, LandUpload, LandSet, RejectTx, TypeOK
  <2> QED
    BY <2>4, SwapRestores DEF LandSwap
<1> QED
  BY <1>1, SerialInductive, TypeCorrect, Inductive, LeavesInductive, PTL
  DEF Spec, ResizeRestoresOriginal

(* Runs that take turns: a published document gives way only to the final  *)
(* SetBuffer of a run that was asked for the new one and still waits.      *)
THEOREM SerialSetReplaces ==
    ASSUME ~Overlap, "client_stops" \notin Faults
    PROVE  Spec => OnlySetReplaces
<1> DEFINE Replaces ==
        \A d \in Docs : Inflates(idl.payload, d) /\ ~Inflates(idl'.payload, d) =>
            \E p \in Publishers : /\ Running(p) /\ pc[p] = "set"
                                  /\ tx[p] = "pending" /\ tx'[p] = "processed"
                                  /\ Inflates(idl'.payload, job[p].doc)
<1>1. TypeOK /\ IInv /\ LeavesInv /\ SerialInv /\ [Next]_vars => [Replaces]_vars
  <2> SUFFICES ASSUME TypeOK, IInv, LeavesInv, SerialInv, [Next]_vars, NEW d \in Docs,
                      Inflates(idl.payload, d), ~Inflates(idl'.payload, d)
               PROVE  \E p \in Publishers : /\ Running(p) /\ pc[p] = "set"
                                            /\ tx[p] = "pending" /\ tx'[p] = "processed"
                                            /\ Inflates(idl'.payload, job[p].doc)
    OBVIOUS
  <2>1. PICK p \in Publishers : Land(p)
    BY DEF Next, vars, Client, Stop, Begin, ReadMissing, RefuseExisting, PlanUpgrade, Submit,
       LeaveLoop, ConfirmCall, ConfirmResize, ConfirmWrite, ConfirmFailure, CheckBackup,
       Reread, Verify, chain
  <2>2. idl.live /\ idl \in Account
    <3>1. Size[d] \in Nat \ {0} /\ Len(idl.payload) >= Size[d]
      BY SizeAssumption DEF Inflates
    <3>2. idl.payload # <<>>
      BY <3>1
    <3> QED
      BY <3>2 DEF IInv, PrefixInv, TypeOK
  <2>3. ~LandCreate(p)
    BY <2>2 DEF LandCreate, Lands, Accepts
  <2>4. ~LandGrow(p)
    BY <2>2 DEF LandGrow, Resized, Account
  <2>5. ~LandSwap(p)
    BY SwapRestores DEF LandSwap, Lands
  <2>6. ~LandWrite(p)
    <3> SUFFICES ASSUME LandWrite(p) PROVE FALSE
      OBVIOUS
    <3>1. /\ idl'.payload = idl.payload \o ChunkOf(p)
          /\ idl.payload \in Seq(Bytes) /\ ChunkOf(p) \in Seq(Bytes) /\ Size[d] \in Nat
      BY <2>2, OperatorTypes, SizeAssumption DEF LandWrite, Appended, Account
    <3>2. /\ Len(idl'.payload) >= Size[d]
          /\ \A i \in 1..Size[d] : idl'.payload[i] = idl.payload[i]
      BY <3>1 DEF Inflates
    <3> QED
      BY <3>2 DEF Inflates
  <2>7. LandSet(p)
    BY <2>1, <2>3, <2>4, <2>5, <2>6
    DEF Land, LandBackup, LandEmpty, LandBuffer, LandUpload, RejectTx, chain
  <2>8. /\ pc[p] = "set" /\ tx[p] = "pending" /\ tx'[p] = "processed"
        /\ idl'.payload = buf[p]["upgrade"].payload
    BY <2>2, <2>7 DEF LandSet, Lands, Copied, TypeOK, Account
  <2>9. Running(p) /\ idl'.payload = Part(job[p].doc, Size[job[p].doc]) /\ job[p].doc \in Docs
    BY <2>8, OperatorTypes DEF SerialInv, TakeTurns, IInv, RunInv, BufferInv, Whole
  <2>10. Inflates(idl'.payload, job[p].doc)
    BY <2>9, PrefixInflates, SizeAssumption
  <2> QED
    BY <2>8, <2>9, <2>10
<1> QED
  BY <1>1, SerialInductive, TypeCorrect, Inductive, LeavesInductive, PTL
  DEF Spec, OnlySetReplaces
=============================================================================
