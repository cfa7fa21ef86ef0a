----------------------------- MODULE IdlPublish -----------------------------
(***************************************************************************)
(* Publication of a program's canonical IDL account (src/src/idl.rs).      *)
(*                                                                         *)
(* A publisher is one execution of `publish`.  It drives the on-chain IDL  *)
(* account through a sequence of transactions, each of which it submits,   *)
(* waits for and confirms; between two of them anybody else may run.  The  *)
(* Satellite IDL handlers that execute the transactions are not in the     *)
(* repository: they are modelled as idl.rs and the replay in idl_tests.rs  *)
(* use them, and are marked external in the map.                           *)
(*                                                                         *)
(* Abstracted data: a document is the compressed form of an IDL, byte i of *)
(* document d is <<d, i>>, and two documents may decode to the same IDL.   *)
(***************************************************************************)
EXTENDS Integers, Sequences

CONSTANTS
    Publishers,    \* executions of `publish`; a re-run is another publisher
    Docs,          \* compressed IDLs
    Size,          \* length of each document
    Decoded,       \* the normalised IDL each document decompresses to
    Authorities,   \* IDL authorities a run or the account may have
    Jobs,          \* what a run may be asked to publish
    InitialCaps,   \* capacities an account published earlier may have
    HeaderLen,     \* IDL_HEADER_LEN
    DefaultSize,   \* DEFAULT_IDL_ACCOUNT_SIZE
    Increment,     \* IDL_RESIZE_INCREMENT
    MaxWrite,      \* MAX_WRITE_SIZE
    Overlap,       \* TRUE when two runs may be in progress at once
    Faults         \* which of "tx_fails" and "client_stops" can happen

ASSUME SizeAssumption ==
    Docs # {} /\ Size \in [Docs -> Nat \ {0}] /\ DOMAIN Decoded = Docs
ASSUME ConstantsAssumption ==
    /\ HeaderLen \in Nat \ {0}
    /\ Increment \in Nat /\ Increment >= HeaderLen
    /\ MaxWrite \in Nat \ {0}
    /\ DefaultSize \in Nat
    /\ InitialCaps \subseteq Nat
    /\ Overlap \in BOOLEAN
    /\ Faults \subseteq {"tx_fails", "client_stops"}
ASSUME JobsAssumption ==
    Jobs \subseteq [doc : Docs, requested : Nat, allow : BOOLEAN,
                    auth : Authorities]

VARIABLES
    idl,      \* the canonical IDL account
    buf,      \* the buffer accounts each run creates under fresh keys
    pc,       \* the call each run has reached
    status,   \* how each run stands: "idle", "running", "ok" or its error
    tx,       \* the transaction of the call at pc[p]
    job,      \* the arguments of each run
    loc       \* locals: snapshot of the payload read, sizes and offset

vars == <<idl, buf, pc, status, tx, job, loc>>

Least(a, b) == IF a <= b THEN a ELSE b
Most(a, b) == IF a >= b THEN a ELSE b

-----------------------------------------------------------------------------
(* Documents, payloads and the instruction handlers of the IDL account.    *)

Bytes == {b \in Docs \X Nat : 1 <= b[2] /\ b[2] <= Size[b[1]]}

\* The first n compressed bytes of document d.
Part(d, n) == [i \in 1..n |-> <<d, i>>]
Whole(d) == Part(d, Size[d])

\* write_chunks: at most MaxWrite bytes from offset off.
Chunk(d, off) == [i \in 1..Least(MaxWrite, Size[d] - off) |-> <<d, off + i>>]

\* Zlib stops at the end of its stream: trailing bytes are ignored.
Inflates(payload, d) ==
    /\ Len(payload) >= Size[d]
    /\ \A i \in 1..Size[d] : payload[i] = <<d, i>>

\* What a payload decompresses to is the IDL of document d, in whatever form.
Holds(payload, d) ==
    \E e \in Docs : Inflates(payload, e) /\ Decoded[e] = Decoded[d]

Required(d) == HeaderLen + Size[d]

\* "nobody" is the authority of an address that holds no IDL of this program.
Account == [live : BOOLEAN, cap : Nat, auth : Authorities \cup {"nobody"},
            payload : Seq(Bytes)]

NoAccount == [live |-> FALSE, cap |-> 0, auth |-> "nobody", payload |-> <<>>]

Room(a, n) == HeaderLen + n <= a.cap
Fresh(cap, auth) == [live |-> TRUE, cap |-> cap, auth |-> auth, payload |-> <<>>]
Owned(a, auth) == a.live /\ a.auth = auth
Copied(source, target) == [target EXCEPT !.payload = source.payload]
Appended(a, bytes) == [a EXCEPT !.payload = @ \o bytes]
CanResize(a, space) == a.payload = <<>> /\ space >= a.cap
Resized(a, space) == [a EXCEPT !.cap = @ + Least(space - @, Increment)]

\* validate_idl_account with the run's authority.
Valid(a, auth) == Owned(a, auth) /\ Room(a, Len(a.payload))

\* A canonical account a reader can fetch and decode.
Published(a) == a.live /\ \E d \in Docs : Inflates(a.payload, d)

-----------------------------------------------------------------------------
(* The arithmetic and the decisions of publish.                            *)

TooSmall(j) == j.requested > 0 /\ j.requested < Required(j.doc)

\* Mutant: the default is not raised to what the document needs.
UnraisedCapacity(j) == IF j.requested > 0 THEN j.requested ELSE DefaultSize

InitialCapacity(j) ==
    IF j.requested > 0 THEN j.requested
                       ELSE Most(DefaultSize, Required(j.doc))

\* Mutant: the resize loop forgets to advance.
StuckSpace(cur, target) == cur
NextSpace(cur, target) == cur + Least(target - cur, Increment)

Unchanged(payload, j) == Holds(payload, j.doc)

\* Mutant: --idl-size is ignored for an account that exists.
UnrequestedCapacity(a, j) == Most(a.cap, Required(j.doc))

TargetCapacity(a, j) ==
    Most(Most(a.cap, j.requested),
         IF Unchanged(a.payload, j) THEN 0 ELSE Required(j.doc))

\* Mutant: only an explicit --idl-size needs consent.
NeedsConsentForRequest(a, j) == j.requested > a.cap

NeedsConsent(a, j) ==
    \/ j.requested > a.cap
    \/ ~Unchanged(a.payload, j) /\ Required(j.doc) > a.cap

\* The error upgrade_or_skip ends in after its first read, "none" to go on.
Refusal(a, j) ==
    IF ~Valid(a, j.auth) THEN "invalid"
    ELSE IF j.requested > a.cap /\ ~j.allow THEN "fixed_capacity"
    ELSE IF ~Published(a) THEN "undecodable"
    ELSE IF NeedsConsent(a, j) /\ ~j.allow THEN "fixed_capacity"
    ELSE "none"

\* What the read after the last resize finds wrong.
ResizeDefect(a, j, l) ==
    IF ~Valid(a, j.auth) THEN "invalid"
    ELSE IF a.cap < l.target THEN "short"
    ELSE IF ~Published(a) THEN "undecodable"
    ELSE IF \E d \in Docs : Inflates(l.snap, d) /\ ~Holds(a.payload, d)
         THEN "changed"
    ELSE "none"

\* What verify_published finds wrong.
PublicationDefect(a, j) ==
    IF ~Valid(a, j.auth) THEN "invalid"
    ELSE IF ~Published(a) THEN "undecodable"
    ELSE IF ~Holds(a.payload, j.doc) THEN "differs"
    ELSE "none"

-----------------------------------------------------------------------------
Kinds == {"backup", "empty", "upgrade"}
LoopSteps == {"grow", "write", "swap", "upload"}
TxSteps == LoopSteps \cup {"create", "backup", "empty", "buffer", "set"}
Steps == TxSteps \cup {"start", "read", "check", "reread", "verify", "end"}
Errors == {"too_small", "invalid", "fixed_capacity", "undecodable", "short",
           "changed", "backup_differs", "differs", "tx_failed", "stopped"}

\* Accounts an earlier publication left, or another program's account.
EarlierAccounts ==
    {a \in {[Fresh(c, au) EXCEPT !.payload = Whole(d)] :
            c \in InitialCaps, d \in Docs, au \in Authorities \cup {"nobody"}} :
        Room(a, Len(a.payload))}

Init ==
    /\ idl \in {NoAccount} \cup EarlierAccounts
    /\ buf = [p \in Publishers |-> [k \in Kinds |-> NoAccount]]
    /\ pc = [p \in Publishers |-> "start"]
    /\ status = [p \in Publishers |-> "idle"]
    /\ tx = [p \in Publishers |-> "none"]
    /\ job \in [Publishers -> Jobs]
    /\ loc = [p \in Publishers |-> [snap |-> <<>>, cur |-> 0, target |-> 0, off |-> 0]]

Running(p) == status[p] = "running"
At(p, step) == Running(p) /\ pc[p] = step /\ tx[p] = "none"
Goto(p, step) == pc' = [pc EXCEPT ![p] = step]
\* The run returns an error or success.  Its call at pc[p] and a transaction
\* in flight stay as they were.
Return(p, how) == status' = [status EXCEPT ![p] = how]
chain == <<idl, buf>>

\* prepare: local checks, before the first RPC.
Begin(p) ==
    /\ status[p] = "idle" /\ pc[p] = "start"
    /\ Overlap \/ \A q \in Publishers : ~Running(q)
    /\ IF TooSmall(job[p])
       THEN Return(p, "too_small") /\ UNCHANGED pc
       ELSE Return(p, "running") /\ Goto(p, "read")
    /\ UNCHANGED <<chain, tx, job, loc>>

\* publish reads the account: NotFound leads to initialize.
ReadMissing(p) ==
    /\ At(p, "read") /\ ~idl.live
    /\ Goto(p, "create")
    /\ UNCHANGED <<chain, status, tx, job, loc>>

RefuseExisting(p) ==
    /\ At(p, "read") /\ idl.live
    /\ Refusal(idl, job[p]) # "none"
    /\ Return(p, Refusal(idl, job[p]))
    /\ UNCHANGED <<chain, pc, tx, job, loc>>

AfterResize(payload, j) == IF Unchanged(payload, j) THEN "verify" ELSE "buffer"

PlanUpgrade(p) ==
    /\ At(p, "read") /\ idl.live
    /\ Refusal(idl, job[p]) = "none"
    /\ loc' = [loc EXCEPT ![p] =
                 [@ EXCEPT !.snap = idl.payload, !.cur = idl.cap,
                           !.target = TargetCapacity(idl, job[p])]]
    /\ Goto(p, IF TargetCapacity(idl, job[p]) > idl.cap
               THEN "backup" ELSE AfterResize(idl.payload, job[p]))
    /\ UNCHANGED <<chain, status, tx, job>>

\* The loops of grow_account and write_chunks: whether another turn is due.
Due(p) ==
    \/ pc[p] \in {"grow", "swap"} /\ loc[p].cur < loc[p].target
    \/ pc[p] \in {"write", "upload"} /\ loc[p].off < Size[job[p].doc]
    \/ pc[p] \in TxSteps \ LoopSteps

\* send: a transaction is signed and handed to the node.
Submit(p) ==
    /\ At(p, pc[p]) /\ pc[p] \in TxSteps /\ Due(p)
    /\ tx' = [tx EXCEPT ![p] = "pending"]
    /\ UNCHANGED <<chain, pc, status, job, loc>>

\* A loop's condition fails: on to the call after it.
LeaveLoop(p) ==
    /\ At(p, pc[p]) /\ pc[p] \in LoopSteps /\ ~Due(p)
    /\ Goto(p, CASE pc[p] = "grow"   -> "write"
                 [] pc[p] = "write"  -> "verify"
                 [] pc[p] = "swap"   -> "reread"
                 [] pc[p] = "upload" -> "set")
    /\ UNCHANGED <<chain, status, tx, job, loc>>

-----------------------------------------------------------------------------
(* Execution of the transaction in flight.  Its instructions take effect   *)
(* together or not at all, and whether or not the client still waits.      *)

ChunkOf(p) == Chunk(job[p].doc, loc[p].off)

\* The last resize closes both buffers.  Mutant: one turn too late.
ClosesBuffersLate(l) == l.cur = l.target
ClosesBuffers(l) == NextSpace(l.cur, l.target) = l.target

\* Mutant: the snapshot is left for a later transaction to restore.
SwappedEmpty(p) == Resized(Copied(buf[p]["empty"], idl), loc[p].target)

\* Canonical account after SetBuffer(empty), Resize, SetBuffer(backup).
Swapped(p) ==
    Copied(buf[p]["backup"],
           Resized(Copied(buf[p]["empty"], idl), loc[p].target))

Accepts(p) ==
    CASE pc[p] = "create" -> ~idl.live
      [] pc[p] = "grow"   -> /\ Owned(idl, job[p].auth)
                             /\ CanResize(idl, loc[p].target)
      [] pc[p] = "write"  -> /\ Owned(idl, job[p].auth)
                             /\ Room(idl, Len(idl.payload) + Len(ChunkOf(p)))
      [] pc[p] = "backup" -> /\ Owned(idl, job[p].auth)
                             /\ Len(idl.payload) <= Len(loc[p].snap)
      [] pc[p] = "swap"   -> /\ Owned(idl, job[p].auth)
                             /\ \A k \in {"empty", "backup"} :
                                    Owned(buf[p][k], job[p].auth)
                             /\ CanResize(Copied(buf[p]["empty"], idl), loc[p].target)
                             /\ Room(Swapped(p), Len(Swapped(p).payload))
      [] pc[p] = "upload" -> /\ Owned(buf[p]["upgrade"], job[p].auth)
                             /\ Room(buf[p]["upgrade"],
                                     Len(buf[p]["upgrade"].payload) + Len(ChunkOf(p)))
      [] pc[p] = "set"    -> /\ Owned(idl, job[p].auth)
                             /\ Owned(buf[p]["upgrade"], job[p].auth)
                             /\ Room(idl, Len(buf[p]["upgrade"].payload))
      [] OTHER -> TRUE

Lands(p, step) ==
    /\ pc[p] = step /\ tx[p] = "pending" /\ Accepts(p)
    /\ tx' = [tx EXCEPT ![p] = "processed"]
    /\ UNCHANGED <<pc, status, job, loc>>

\* Mutant: one byte is skipped between chunks.
SkippingOffset(p) == loc[p].off + Len(ChunkOf(p)) + 1
\* Where the chunk after this one starts.
NextOffset(p) == loc[p].off + Len(ChunkOf(p))

PutBuffer(p, k, a) == buf' = [buf EXCEPT ![p] = [@ EXCEPT ![k] = a]]

LandCreate(p) ==
    /\ Lands(p, "create")
    /\ idl' = Fresh(Least(InitialCapacity(job[p]), Increment), job[p].auth)
    /\ UNCHANGED buf

LandGrow(p) ==
    /\ Lands(p, "grow")
    /\ idl' = Resized(idl, loc[p].target)
    /\ UNCHANGED buf

LandWrite(p) ==
    /\ Lands(p, "write")
    /\ idl' = Appended(idl, ChunkOf(p))
    /\ UNCHANGED buf

\* create_account, CreateBuffer and SetBuffer from the canonical account.
LandBackup(p) ==
    /\ Lands(p, "backup")
    /\ PutBuffer(p, "backup",
                 Copied(idl, Fresh(HeaderLen + Len(loc[p].snap), job[p].auth)))
    /\ UNCHANGED idl

LandEmpty(p) ==
    /\ Lands(p, "empty")
    /\ PutBuffer(p, "empty", Fresh(HeaderLen, job[p].auth))
    /\ UNCHANGED idl

LandSwap(p) ==
    /\ Lands(p, "swap")
    /\ idl' = Swapped(p)
    /\ IF ClosesBuffers(loc[p])
       THEN buf' = [buf EXCEPT ![p] = [@ EXCEPT !["backup"] = NoAccount,
                                                !["empty"] = NoAccount]]
       ELSE UNCHANGED buf

LandBuffer(p) ==
    /\ Lands(p, "buffer")
    /\ PutBuffer(p, "upgrade", Fresh(Required(job[p].doc), job[p].auth))
    /\ UNCHANGED idl

LandUpload(p) ==
    /\ Lands(p, "upload")
    /\ PutBuffer(p, "upgrade", Appended(buf[p]["upgrade"], ChunkOf(p)))
    /\ UNCHANGED idl

LandSet(p) ==
    /\ Lands(p, "set")
    /\ idl' = Copied(buf[p]["upgrade"], idl)
    /\ UNCHANGED buf

\* The node fails the transaction: nothing it contains takes effect.
RejectTx(p) ==
    /\ tx[p] = "pending"
    /\ ~Accepts(p) \/ "tx_fails" \in Faults
    /\ tx' = [tx EXCEPT ![p] = "failed"]
    /\ UNCHANGED <<chain, pc, status, job, loc>>

Land(p) ==
    \/ LandCreate(p) \/ LandGrow(p) \/ LandWrite(p)
    \/ LandBackup(p) \/ LandEmpty(p) \/ LandSwap(p)
    \/ LandBuffer(p) \/ LandUpload(p) \/ LandSet(p)
    \/ RejectTx(p)

-----------------------------------------------------------------------------
(* The client after wait_for_processed_transaction.                        *)

Settled(p, outcome) == Running(p) /\ tx[p] = outcome
Consume(p) == tx' = [tx EXCEPT ![p] = "none"]

\* One transaction per call: create, create_buffer and the final SetBuffer.
ConfirmCall(p) ==
    /\ Settled(p, "processed") /\ pc[p] \in TxSteps \ LoopSteps
    /\ Goto(p, CASE pc[p] = "create" -> "grow"
                 [] pc[p] = "backup" -> "check"
                 [] pc[p] = "empty"  -> "swap"
                 [] pc[p] = "buffer" -> "upload"
                 [] pc[p] = "set"    -> "verify")
    /\ loc' = [loc EXCEPT ![p] =
                 IF pc[p] = "create"
                 THEN [@ EXCEPT !.cur = Least(InitialCapacity(job[p]), Increment),
                                !.target = InitialCapacity(job[p])]
                 ELSE @]
    /\ Consume(p)
    /\ UNCHANGED <<chain, status, job>>

ConfirmResize(p) ==
    /\ Settled(p, "processed") /\ pc[p] \in {"grow", "swap"}
    /\ loc' = [loc EXCEPT ![p] =
                 [@ EXCEPT !.cur = NextSpace(loc[p].cur, loc[p].target)]]
    /\ Consume(p)
    /\ UNCHANGED <<chain, pc, status, job>>

ConfirmWrite(p) ==
    /\ Settled(p, "processed") /\ pc[p] \in {"write", "upload"}
    /\ loc' = [loc EXCEPT ![p] = [@ EXCEPT !.off = NextOffset(p)]]
    /\ Consume(p)
    /\ UNCHANGED <<chain, pc, status, job>>

ConfirmFailure(p) ==
    /\ Settled(p, "failed")
    /\ Return(p, "tx_failed")
    /\ UNCHANGED <<chain, pc, tx, job, loc>>

-----------------------------------------------------------------------------
(* The reads that follow a transaction.                                    *)

CheckBackup(p) ==
    /\ At(p, "check")
    /\ IF ~Valid(buf[p]["backup"], job[p].auth)
       THEN Return(p, "invalid") /\ UNCHANGED pc
       ELSE IF buf[p]["backup"].payload # loc[p].snap
       THEN Return(p, "backup_differs") /\ UNCHANGED pc
       ELSE Goto(p, "empty") /\ UNCHANGED status
    /\ UNCHANGED <<chain, tx, job, loc>>

Reread(p) ==
    /\ At(p, "reread")
    /\ IF ResizeDefect(idl, job[p], loc[p]) = "none"
       THEN Goto(p, AfterResize(loc[p].snap, job[p])) /\ UNCHANGED status
       ELSE Return(p, ResizeDefect(idl, job[p], loc[p])) /\ UNCHANGED pc
    /\ UNCHANGED <<chain, tx, job, loc>>

Verify(p) ==
    /\ At(p, "verify")
    /\ IF PublicationDefect(idl, job[p]) = "none"
       THEN Return(p, "ok") /\ Goto(p, "end")
       ELSE Return(p, PublicationDefect(idl, job[p])) /\ UNCHANGED pc
    /\ UNCHANGED <<chain, tx, job, loc>>

\* A failed RPC, a lost answer, the end of the SDK's patience or a kill.
Stop(p) ==
    /\ "client_stops" \in Faults
    /\ Running(p)
    /\ Return(p, "stopped")
    /\ UNCHANGED <<chain, pc, tx, job, loc>>

Client(p) ==
    \/ Begin(p) \/ ReadMissing(p) \/ RefuseExisting(p) \/ PlanUpgrade(p)
    \/ Submit(p) \/ LeaveLoop(p)
    \/ ConfirmCall(p) \/ ConfirmResize(p) \/ ConfirmWrite(p) \/ ConfirmFailure(p)
    \/ CheckBackup(p) \/ Reread(p) \/ Verify(p)

Next == \E p \in Publishers : Client(p) \/ Land(p) \/ Stop(p)

\* A client process keeps executing and the node settles what it was sent.
Fairness == \A p \in Publishers : WF_vars(Client(p)) /\ WF_vars(Land(p))

Spec == Init /\ [][Next]_vars
FairSpec == Spec /\ Fairness
-----------------------------------------------------------------------------
TxStates == {"none", "pending", "processed", "failed"}
Locals == [snap : Seq(Bytes), cur : Nat, target : Nat, off : Nat]

(* Every variable keeps its type. *)
TypeOK ==
    /\ idl \in Account
    /\ buf \in [Publishers -> [Kinds -> Account]]
    /\ pc \in [Publishers -> Steps]
    /\ status \in [Publishers -> {"idle", "running", "ok"} \cup Errors]
    /\ tx \in [Publishers -> TxStates]
    /\ job \in [Publishers -> Jobs]
    /\ loc \in [Publishers -> Locals]

(* The canonical account never holds a mixture: its payload is always the  *)
(* beginning of one document, whoever wrote the pieces, although Write has *)
(* no offset and appends (write_chunks, write_ix_data).                    *)
NeverMixed == \E d \in Docs : \E n \in 0..Size[d] : idl.payload = Part(d, n)

(* Once a program's IDL can be decoded it stays so in every committed      *)
(* state: resizes, uploads, failures, abandoned runs and rival runs may    *)
(* replace the document, never destroy it (grow_account, upgrade_or_skip). *)
PublishedStaysWhole == [][Published(idl) => Published(idl')]_vars

(* A populated account only grows in a transaction of a run that was given *)
(* --allow-idl-resize.                                                     *)
GrowthIsOptIn ==
    [][Published(idl) /\ idl'.cap # idl.cap =>
         \E p \in Publishers : tx[p] = "pending" /\ tx'[p] = "processed"
                               /\ job[p].allow]_vars

(* A run that reports success has left no resize buffer behind: both were  *)
(* closed in its last resize transaction.                                  *)
SuccessClosesResizeBuffers ==
    \A p \in Publishers : status[p] = "ok" =>
        ~buf[p]["backup"].live /\ ~buf[p]["empty"].live

(* From the moment a run reports success, the account has the capacity the *)
(* run was asked for, room for the run's document unless the run found its *)
(* IDL published already, and is still decodable under the run's authority, *)
(* whatever other runs do later (upgrade_or_skip).                         *)
SuccessEndures ==
    \A p \in Publishers : status[p] = "ok" =>
        /\ Valid(idl, job[p].auth) /\ Published(idl)
        /\ idl.cap >= job[p].requested
        /\ ~Unchanged(loc[p].snap, job[p]) => idl.cap >= Required(job[p].doc)

(* A resize transaction leaves the published payload it found ("every      *)
(* committed state has the original IDL", grow_account).                   *)
ResizeRestoresOriginal ==
    [][\A p \in Publishers :
         pc[p] = "swap" /\ tx[p] = "pending" /\ tx'[p] = "processed" =>
             idl'.payload = idl.payload]_vars

(* A published document is only ever replaced by the final SetBuffer of a  *)
(* run that was asked to publish the new one and is still waiting for it.  *)
OnlySetReplaces ==
    [][\A d \in Docs : Inflates(idl.payload, d) /\ ~Inflates(idl'.payload, d) =>
         \E p \in Publishers : /\ Running(p) /\ pc[p] = "set"
                               /\ tx[p] = "pending" /\ tx'[p] = "processed"
                               /\ Inflates(idl'.payload, job[p].doc)]_vars

\* The refusals a run owes to its arguments.
Owed(p) ==
    \/ status[p] = "too_small" /\ TooSmall(job[p])
    \/ status[p] = "invalid" /\ idl.live /\ idl.auth # job[p].auth
    \/ status[p] = "fixed_capacity" /\ ~job[p].allow

(* Runs that are not disturbed by each other end in success or in a         *)
(* refusal they owe to their arguments, and the node accepts all they      *)
(* send, as long as no transaction has failed for another reason.          *)
UndisturbedRunSucceeds ==
    (\A p \in Publishers : status[p] # "tx_failed") =>
        \A p \in Publishers :
            /\ status[p] \in {"idle", "running", "ok"} \/ Owed(p)
            /\ Running(p) /\ tx[p] = "pending" => Accepts(p)

(* Every execution of publish ends: neither the resize loop nor the upload *)
(* loop goes on for ever, whatever the chain answers.                      *)
EveryRunEnds == \A p \in Publishers : Running(p) ~> ~Running(p)

(* "Reusing the same two key secrets updates the existing deployment"      *)
(* (README.md:102): a run whose authority owns the account is not turned   *)
(* away because of what an earlier run left there.                         *)
RerunIsNotBlocked == \A p \in Publishers : status[p] # "undecodable"
-----------------------------------------------------------------------------
(* Why a published account stays whole: the parts of an inductive          *)
(* invariant.                                                              *)

\* Bytes of its document that run p has put on chain in its upload loop.
LandedOffset(p) ==
    IF tx[p] = "processed" THEN NextOffset(p) ELSE loc[p].off

\* p created the account and has not written all of its document.
Filling(p) ==
    \/ pc[p] = "create" /\ tx[p] = "processed"
    \/ pc[p] = "grow"
    \/ pc[p] = "write" /\ LandedOffset(p) < Size[job[p].doc]

\* p has read a decodable account and may still change it.
Updating(p) ==
    pc[p] \in {"backup", "check", "empty", "swap", "reread", "buffer", "upload", "set"}

WholeAccount(a) == a.live /\ \E d \in Docs : a.payload = Whole(d)

\* The account is missing and empty, or holds the beginning of a document.
PrefixInv ==
    /\ ~idl.live => idl.payload = <<>>
    /\ \E d \in Docs : \E n \in 0..Size[d] : idl.payload = Part(d, n)

OneFiller == \A p, q \in Publishers : Filling(p) /\ Filling(q) => p = q

\* What the run that created the account has written is all there is.
FillingInv(p) ==
    Filling(p) =>
        /\ idl.live
        /\ pc[p] \in {"create", "grow"} => idl.payload = <<>>
        /\ pc[p] = "write" => idl.payload = Part(job[p].doc, LandedOffset(p))

\* Everyone else who may still change the account found it whole.
UpdatingInv(p) ==
    Updating(p) \/ (pc[p] = "write" /\ ~Filling(p)) => WholeAccount(idl)

\* What the buffers hold that a transaction may copy from.
BufferInv(p) ==
    /\ buf[p]["backup"].live => WholeAccount(buf[p]["backup"])
    /\ buf[p]["empty"].payload = <<>>
    /\ pc[p] = "buffer" /\ tx[p] = "processed" => buf[p]["upgrade"].payload = <<>>
    /\ pc[p] = "upload" =>
           buf[p]["upgrade"].payload = Part(job[p].doc, LandedOffset(p))
    /\ pc[p] = "set" => buf[p]["upgrade"].payload = Whole(job[p].doc)

OffsetInv(p) ==
    /\ loc[p].off <= Size[job[p].doc]
    /\ pc[p] \notin {"write", "upload", "set", "verify", "end"} => loc[p].off = 0
    /\ pc[p] \in {"write", "upload"} /\ tx[p] # "none" =>
           loc[p].off < Size[job[p].doc]

RunInv(p) == FillingInv(p) /\ UpdatingInv(p) /\ BufferInv(p) /\ OffsetInv(p)

IInv == PrefixInv /\ OneFiller /\ \A p \in Publishers : RunInv(p)
=============================================================================
