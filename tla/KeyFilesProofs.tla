--------------------------- MODULE KeyFilesProofs ---------------------------
(***************************************************************************)
(* Key files are never replaced and every process uses the key that is     *)
(* stored, for any number of processes, paths and faults; a torn file has  *)
(* a known writer, and keygen delivers all it was asked for.               *)
(***************************************************************************)
EXTENDS KeyFiles, SequenceTheorems, TLAPS

USE DEF vars, At, Goto, End

LEMMA JobType ==
    ASSUME TypeOK, NEW p \in Processes
    PROVE  /\ job[p].paths \in Seq(Paths) /\ job[p].paths # <<>>
           /\ job[p].cmd \in {"keygen", "load"}
           /\ Len(job[p].paths) \in Nat \ {0}
<1>1. job[p] \in Jobs
  BY DEF TypeOK
<1>2. job[p] \in [cmd : {"keygen", "load"}, paths : Seq(Paths) \ {<<>>}, generate : BOOLEAN]
  BY <1>1, JobsAssumption
<1>3. job[p].paths \in Seq(Paths) /\ job[p].paths # <<>>
  BY <1>2
<1> QED
  BY <1>2, <1>3, EmptySeq, LenProperties

LEMMA PathType ==
    ASSUME TypeOK, NEW p \in Processes, status[p] \in {"idle", "running"}
    PROVE  PathOf(p) \in Paths /\ idx[p] \in Positions(p)
<1>1. idx[p] \in Positions(p)
  BY DEF TypeOK
<1> QED
  BY <1>1, JobType, ElementOfSeq DEF PathOf, Positions

LEMMA TypeInit == Init => TypeOK
<1> SUFFICES ASSUME Init PROVE TypeOK
  OBVIOUS
<1>1. files \in [Paths -> File]
  BY DEF Init, File, Makers
<1>2. job \in [Processes -> Jobs] /\ pc \in [Processes -> Calls]
      /\ status \in [Processes -> {"idle", "running", "ok"} \cup Errors]
  BY DEF Init, Calls
<1>3. idx \in [Processes -> Nat \ {0}] /\ held \in [Processes -> Seq(Makers)]
  BY EmptySeq DEF Init
<1>4. ASSUME NEW p \in Processes PROVE idx[p] \in Positions(p)
  <2>1. job[p] \in [cmd : {"keygen", "load"}, paths : Seq(Paths) \ {<<>>}, generate : BOOLEAN]
    BY JobsAssumption DEF Init
  <2>2. job[p].paths \in Seq(Paths) /\ job[p].paths # <<>>
    BY <2>1
  <2>3. Len(job[p].paths) \in Nat \ {0}
    BY <2>2, EmptySeq, LenProperties
  <2> QED
    BY <2>3 DEF Init, Positions
<1> QED
  BY <1>1, <1>2, <1>3, <1>4 DEF TypeOK

LEMMA AdvanceType ==
    ASSUME TypeOK, NEW p \in Processes, NEW maker \in Makers,
           status[p] = "running", Advance(p, maker), UNCHANGED job
    PROVE  /\ held' \in [Processes -> Seq(Makers)]
           /\ idx' \in [Processes -> Nat \ {0}]
           /\ pc' \in [Processes -> Calls]
           /\ status' \in [Processes -> {"idle", "running", "ok"} \cup Errors]
           /\ \A q \in Processes : status'[q] \in {"idle", "running"} => idx'[q] \in Positions(q)'
<1>1. held[p] \in Seq(Makers) /\ Append(held[p], maker) \in Seq(Makers)
  BY AppendProperties DEF TypeOK
<1>2. idx[p] \in Nat \ {0} /\ idx[p] <= Len(job[p].paths) /\ Len(job[p].paths) \in Nat
  BY PathType, JobType DEF TypeOK, Positions
<1>3. held' \in [Processes -> Seq(Makers)] /\ idx' \in [Processes -> Nat \ {0}]
  BY <1>1, <1>2 DEF Advance, Last, TypeOK
<1>4. pc' \in [Processes -> Calls]
      /\ status' \in [Processes -> {"idle", "running", "ok"} \cup Errors]
  BY DEF Advance, Last, TypeOK, Calls
<1>5. ASSUME NEW q \in Processes, status'[q] \in {"idle", "running"}
      PROVE  idx'[q] \in Positions(q)'
  <2>1. CASE q # p
    BY <1>5, <2>1 DEF Advance, Last, TypeOK, Positions
  <2>2. CASE q = p
    <3>1. idx[p] # Len(job[p].paths)
      BY <1>5, <2>2 DEF Advance, Last, TypeOK
    <3> QED
      BY <1>2, <2>2, <3>1 DEF Advance, Last, TypeOK, Positions
  <2> QED
    BY <2>1, <2>2
<1> QED
  BY <1>3, <1>4, <1>5

LEMMA TypeNext == TypeOK /\ [Next]_vars => TypeOK'
<1> SUFFICES ASSUME TypeOK, [Next]_vars PROVE TypeOK'
  OBVIOUS
<1>1. CASE UNCHANGED vars
  BY <1>1 DEF TypeOK, Positions
<1>2. ASSUME NEW p \in Processes, Step(p) PROVE TypeOK'
  <2>1. CASE Begin(p)
    BY <2>1 DEF Begin, TypeOK, Positions, Calls
  <2>2. CASE Preflight(p)
    <3>1. idx[p] \in Nat \ {0} /\ Len(job[p].paths) \in Nat \ {0}
          /\ idx[p] \in Positions(p)
      BY <2>2, JobType, PathType DEF Preflight, TypeOK
    <3>2. CASE Taken(p)
      BY <2>2, <3>2 DEF Preflight, TypeOK, Positions, Errors
    <3>3. CASE ~Taken(p) /\ idx[p] < Len(job[p].paths)
      <4>1. idx' = [idx EXCEPT ![p] = @ + 1] /\ UNCHANGED <<files, status, pc, job, held>>
        BY <2>2, <3>3 DEF Preflight
      <4> QED
        BY <3>1, <3>3, <4>1 DEF TypeOK, Positions
    <3>4. CASE ~Taken(p) /\ ~(idx[p] < Len(job[p].paths))
      <4>1. idx' = [idx EXCEPT ![p] = 1] /\ pc' = [pc EXCEPT ![p] = "create"]
            /\ UNCHANGED <<files, status, job, held>>
        BY <2>2, <3>4 DEF Preflight
      <4> QED
        BY <3>1, <4>1 DEF TypeOK, Positions, Calls
    <3> QED
      BY <3>2, <3>3, <3>4
  <2>3. CASE SearchFails(p) \/ CreateFails(p) \/ WriteFails(p) \/ Killed(p)
    BY <2>3 DEF SearchFails, CreateFails, WriteFails, Killed, TypeOK, Positions, Errors
  <2>4. CASE Probe(p)
    BY <2>4 DEF Probe, TypeOK, Positions, Calls
  <2>5. CASE Load(p)
    <3>1. CASE Readable(PathOf(p))
      <4>1. files[PathOf(p)].by \in Makers
        BY <2>5, PathType DEF Load, TypeOK, File
      <4> QED
        BY <2>5, <3>1, <4>1, AdvanceType DEF Load, TypeOK
    <3>2. CASE ~Readable(PathOf(p))
      BY <2>5, <3>2 DEF Load, TypeOK, Positions, Errors
    <3> QED
      BY <3>1, <3>2
  <2>6. CASE Create(p)
    <3>1. [state |-> "torn", by |-> p] \in File
      BY DEF File, Makers
    <3> QED
      BY <2>6, <3>1 DEF Create, TypeOK, Positions, Calls, Errors
  <2>7. CASE Write(p)
    <3>1. [state |-> "key", by |-> p] \in File
      BY DEF File, Makers
    <3> QED
      BY <2>7, <3>1 DEF Write, TypeOK, Positions, Calls
  <2>8. CASE Sync(p)
    <3>1. p \in Makers
      BY DEF Makers
    <3> QED
      BY <2>8, <3>1, AdvanceType DEF Sync, TypeOK
  <2> QED
    BY <1>2, <2>1, <2>2, <2>3, <2>4, <2>5, <2>6, <2>7, <2>8 DEF Step
<1> QED
  BY <1>1, <1>2 DEF Next

(* Every variable keeps its type, and no process works on a path it was    *)
(* not given.                                                              *)
THEOREM TypeCorrect == Spec => []TypeOK
BY TypeInit, TypeNext, PTL DEF Spec

-----------------------------------------------------------------------------
(* What a step does to the files.                                          *)
Safe(f) ==
    \/ files'[f] = files[f]
    \/ files[f].state = "torn" /\ files'[f] = [files[f] EXCEPT !.state = "key"]

LEMMA InvInit == Init => FilesInv
BY DEF Init, FilesInv, HeldIsStored, WriterInv, ProgressInv

\* Only the process that writes to a file, or the one that creates it, changes it.
LEMMA FilesStep ==
    ASSUME TypeOK, FilesInv, NEW p \in Processes, Step(p)
    PROVE  /\ \A f \in Paths : Exists(f) => Safe(f)
           /\ \A q \in Processes \ {p} :
                  /\ status'[q] = status[q] /\ pc'[q] = pc[q]
                  /\ idx'[q] = idx[q] /\ held'[q] = held[q] /\ job'[q] = job[q]
           /\ job'[p] = job[p]
           /\ \A f \in Paths : files'[f] # files[f] => ~Exists(f) \/ files[f].by = p
<1> USE DEF TypeOK
<1>1. CASE Create(p)
  <2>1. PathOf(p) \in Paths
    BY <1>1, PathType DEF Create
  <2> QED
    BY <1>1, <2>1 DEF Create, Opens, Safe
<1>2. CASE Write(p)
  <2>1. PathOf(p) \in Paths
    BY <1>2, PathType DEF Write
  <2>2. files[PathOf(p)] = [state |-> "torn", by |-> p]
    BY <1>2 DEF Write, FilesInv, WriterInv
  <2> QED
    BY <1>2, <2>1, <2>2 DEF Write, Safe
<1>3. CASE Begin(p) \/ Preflight(p) \/ SearchFails(p) \/ Probe(p) \/ CreateFails(p)
           \/ WriteFails(p) \/ Killed(p)
  BY <1>3 DEF Begin, Preflight, SearchFails, Probe, CreateFails, WriteFails, Killed, Safe
<1>4. CASE Load(p) \/ Sync(p)
  BY <1>4 DEF Load, Sync, Advance, Last, Safe
<1> QED
  BY <1>1, <1>2, <1>3, <1>4 DEF Step

\* A key stays, and a file another process made stays.
LEMMA MadeStays ==
    ASSUME TypeOK, FilesInv, NEW p \in Processes, Step(p), NEW f \in Paths,
           NEW q \in Makers, NEW s \in {"torn", "key"},
           files[f] = [state |-> s, by |-> q], q # p \/ s = "key"
    PROVE  files'[f] = files[f]
<1>1. files[f].state = s /\ files[f].by = q
  OBVIOUS
<1>2. Exists(f)
  BY <1>1 DEF Exists
<1>3. CASE q # p
  BY <1>1, <1>2, <1>3, FilesStep
<1>4. CASE s = "key"
  BY <1>1, <1>2, <1>4, FilesStep DEF Safe
<1> QED
  BY <1>3, <1>4

\* The processes that do not move keep their part of the invariant.
LEMMA OthersKeep ==
    ASSUME TypeOK, FilesInv, NEW p \in Processes, Step(p),
           NEW q \in Processes, q # p
    PROVE  /\ WriterInv(q)' /\ ProgressInv(q)'
           /\ \A i \in 1..Len(held'[q]) :
                 files'[job'[q].paths[i]] = [state |-> "key", by |-> held'[q][i]]
<1>1. /\ \A f \in Paths : Exists(f) => Safe(f)
      /\ status'[q] = status[q] /\ pc'[q] = pc[q] /\ idx'[q] = idx[q]
      /\ held'[q] = held[q] /\ job'[q] = job[q]
      /\ \A f \in Paths : files'[f] # files[f] => ~Exists(f) \/ files[f].by = p
  BY FilesStep
<1>2. ProgressInv(q)'
  BY <1>1 DEF FilesInv, ProgressInv
<1>3. status[q] = "running" => PathOf(q) \in Paths /\ PathOf(q)' = PathOf(q)
  BY <1>1, PathType DEF PathOf
<1>4. WriterInv(q)'
  <2>1. ASSUME At(q, "write") PROVE files'[PathOf(q)] = [state |-> "torn", by |-> q]
    <3>1. files[PathOf(q)] = [state |-> "torn", by |-> q] /\ q \in Makers
      BY <2>1 DEF FilesInv, WriterInv, Makers
    <3> QED
      BY <2>1, <1>3, <3>1, MadeStays
  <2>2. ASSUME At(q, "sync") PROVE files'[PathOf(q)] = [state |-> "key", by |-> q]
    <3>1. files[PathOf(q)] = [state |-> "key", by |-> q] /\ q \in Makers
      BY <2>2 DEF FilesInv, WriterInv, Makers
    <3> QED
      BY <2>2, <1>3, <3>1, MadeStays
  <2> QED
    BY <2>1, <2>2, <1>1, <1>3 DEF FilesInv, WriterInv
<1>5. ASSUME NEW i \in 1..Len(held[q])
      PROVE  files'[job[q].paths[i]] = [state |-> "key", by |-> held[q][i]]
  <2>1. files[job[q].paths[i]] = [state |-> "key", by |-> held[q][i]]
    BY <1>5 DEF FilesInv, HeldIsStored
  <2>2. held[q] \in Seq(Makers) /\ Len(held[q]) <= Len(job[q].paths)
    BY DEF TypeOK, FilesInv, ProgressInv
  <2>3. i \in 1..Len(job[q].paths)
    BY <1>5, <2>2, JobType, LenProperties
  <2>4. job[q].paths[i] \in Paths
    BY <2>3, JobType, ElementOfSeq
  <2> QED
    BY <2>1, <2>2, <2>4, <1>5, MadeStays, ElementOfSeq
<1> QED
  BY <1>1, <1>2, <1>4, <1>5

\* What is held stays stored, and so does a key that is added.
LEMMA AdvanceKeeps ==
    ASSUME TypeOK, FilesInv, NEW p \in Processes, NEW maker \in Makers,
           status[p] = "running", pc[p] # "preflight", Advance(p, maker),
           UNCHANGED <<files, job>>,
           files[PathOf(p)] = [state |-> "key", by |-> maker]
    PROVE  /\ WriterInv(p)' /\ ProgressInv(p)'
           /\ \A i \in 1..Len(held'[p]) :
                 files'[job'[p].paths[i]] = [state |-> "key", by |-> held'[p][i]]
<1>1. /\ held[p] \in Seq(Makers) /\ Len(held[p]) \in Nat
      /\ idx[p] \in Nat /\ idx[p] <= Len(job[p].paths) /\ Len(job[p].paths) \in Nat
      /\ Len(held[p]) = idx[p] - 1
  BY PathType, JobType, LenProperties DEF TypeOK, Positions, FilesInv, ProgressInv
<1>2. /\ held'[p] = Append(held[p], maker) /\ idx'[p] = idx[p] + 1
      /\ job'[p] = job[p] /\ files' = files
      /\ IF idx[p] = Len(job[p].paths) THEN status'[p] = "ok" /\ pc'[p] = pc[p]
         ELSE status'[p] = status[p] /\ pc'[p] \in {"create", "probe"}
  BY DEF Advance, Last, TypeOK
<1>3. /\ Len(held'[p]) = idx[p]
      /\ \A i \in 1..Len(held[p]) : held'[p][i] = held[p][i]
      /\ held'[p][idx[p]] = maker
  BY <1>1, <1>2, AppendProperties
<1>4. ASSUME NEW i \in 1..Len(held'[p])
      PROVE  files[job[p].paths[i]] = [state |-> "key", by |-> held'[p][i]]
  <2>1. CASE i \in 1..Len(held[p])
    BY <2>1, <1>3 DEF FilesInv, HeldIsStored
  <2>2. CASE i = idx[p]
    BY <2>2, <1>3 DEF PathOf
  <2> QED
    BY <1>1, <1>3, <2>1, <2>2
<1>5. ProgressInv(p)'
  BY <1>1, <1>2, <1>3 DEF ProgressInv
<1>6. WriterInv(p)'
  BY <1>2 DEF WriterInv
<1> QED
  BY <1>2, <1>4, <1>5, <1>6

LEMMA SelfKeeps ==
    ASSUME TypeOK, FilesInv, NEW p \in Processes, Step(p)
    PROVE  /\ WriterInv(p)' /\ ProgressInv(p)'
           /\ \A i \in 1..Len(held'[p]) :
                 files'[job'[p].paths[i]] = [state |-> "key", by |-> held'[p][i]]
<1>0. ASSUME held'[p] = held[p]
      PROVE  \A i \in 1..Len(held'[p]) :
                 files'[job'[p].paths[i]] = [state |-> "key", by |-> held'[p][i]]
  <2> SUFFICES ASSUME NEW i \in 1..Len(held[p])
               PROVE  files'[job[p].paths[i]] = [state |-> "key", by |-> held[p][i]]
    BY <1>0, FilesStep
  <2>1. files[job[p].paths[i]] = [state |-> "key", by |-> held[p][i]]
    BY DEF FilesInv, HeldIsStored
  <2>2. held[p] \in Seq(Makers) /\ Len(held[p]) <= Len(job[p].paths)
    BY DEF TypeOK, FilesInv, ProgressInv
  <2>3. i \in 1..Len(job[p].paths)
    BY <2>2, JobType, LenProperties
  <2>4. job[p].paths[i] \in Paths
    BY <2>3, JobType, ElementOfSeq
  <2> QED
    BY <2>1, <2>2, <2>4, MadeStays, ElementOfSeq
<1> USE DEF TypeOK
<1>1. CASE Begin(p)
  <2>1. Len(held[p]) = 0 /\ idx[p] = 1 /\ held[p] = <<>>
    BY <1>1, EmptySeq DEF Begin, FilesInv, WriterInv
  <2>2. held'[p] = held[p] /\ idx'[p] = idx[p] /\ pc'[p] \in {"preflight", "probe"}
        /\ status'[p] = "running" /\ job'[p] = job[p]
    BY <1>1 DEF Begin
  <2>3. Len(job[p].paths) \in Nat \ {0}
    BY JobType
  <2> QED
    BY <1>0, <2>1, <2>2, <2>3 DEF WriterInv, ProgressInv
<1>2. CASE Preflight(p)
  <2>1. held[p] = <<>> /\ held'[p] = held[p] /\ job'[p] = job[p] /\ pc[p] = "preflight"
        /\ status[p] = "running" /\ Len(held[p]) = 0
    BY <1>2, EmptySeq DEF Preflight, FilesInv, ProgressInv
  <2>2. \/ status'[p] = "refused" /\ pc'[p] = "preflight"
        \/ status'[p] = "running" /\ pc'[p] = "preflight"
        \/ status'[p] = "running" /\ pc'[p] = "create" /\ idx'[p] = 1
    BY <1>2 DEF Preflight
  <2>3. Len(job[p].paths) \in Nat \ {0}
    BY JobType
  <2> QED
    BY <1>0, <2>1, <2>2, <2>3 DEF WriterInv, ProgressInv
<1>3. CASE SearchFails(p) \/ CreateFails(p) \/ WriteFails(p) \/ Killed(p)
  <2>1. status'[p] \in {"failed", "killed"} /\ pc'[p] = pc[p] /\ held'[p] = held[p]
        /\ job'[p] = job[p]
    BY <1>3 DEF SearchFails, CreateFails, WriteFails, Killed
  <2> QED
    BY <1>0, <2>1 DEF WriterInv, ProgressInv, FilesInv
<1>4. CASE Probe(p)
  <2>1. status'[p] = "running" /\ pc'[p] \in {"create", "load"} /\ held'[p] = held[p]
        /\ job'[p] = job[p] /\ idx'[p] = idx[p] /\ status[p] = "running" /\ pc[p] = "probe"
    BY <1>4 DEF Probe
  <2> QED
    BY <1>0, <2>1 DEF WriterInv, ProgressInv, FilesInv
<1>5. CASE Load(p) /\ Readable(PathOf(p))
  <2>1. PathOf(p) \in Paths
    BY <1>5, PathType DEF Load
  <2>2. files[PathOf(p)].by \in Makers
        /\ files[PathOf(p)] = [state |-> "key", by |-> files[PathOf(p)].by]
    BY <1>5, <2>1 DEF Readable, File
  <2> QED
    BY <1>5, <2>2, AdvanceKeeps DEF Load
<1>6. CASE Load(p) /\ ~Readable(PathOf(p))
  <2>1. status'[p] = "unreadable" /\ pc'[p] = pc[p] /\ held'[p] = held[p]
        /\ job'[p] = job[p] /\ pc[p] = "load"
    BY <1>6 DEF Load
  <2> QED
    BY <1>0, <2>1 DEF WriterInv, ProgressInv, FilesInv
<1>7. CASE Create(p)
  <2>1. PathOf(p) \in Paths
    BY <1>7, PathType DEF Create
  <2>2. held'[p] = held[p] /\ job'[p] = job[p] /\ idx'[p] = idx[p] /\ pc[p] = "create"
        /\ status[p] = "running"
    BY <1>7 DEF Create
  <2>3. \/ /\ status'[p] = "running" /\ pc'[p] = "write"
           /\ files'[PathOf(p)] = [state |-> "torn", by |-> p]
        \/ status'[p] = "exists" /\ pc'[p] = "create"
    BY <1>7, <2>1 DEF Create
  <2> QED
    BY <1>0, <2>2, <2>3 DEF WriterInv, ProgressInv, FilesInv, PathOf
<1>8. CASE Write(p)
  <2>1. PathOf(p) \in Paths
    BY <1>8, PathType DEF Write
  <2>2. held'[p] = held[p] /\ job'[p] = job[p] /\ idx'[p] = idx[p] /\ pc[p] = "write"
        /\ status[p] = "running" /\ status'[p] = "running" /\ pc'[p] = "sync"
        /\ files'[PathOf(p)] = [state |-> "key", by |-> p]
    BY <1>8, <2>1 DEF Write
  <2> QED
    BY <1>0, <2>2 DEF WriterInv, ProgressInv, FilesInv, PathOf
<1>9. CASE Sync(p)
  <2>1. files[PathOf(p)] = [state |-> "key", by |-> p] /\ p \in Makers
    BY <1>9 DEF Sync, FilesInv, WriterInv, Makers
  <2> QED
    BY <1>9, <2>1, AdvanceKeeps DEF Sync
<1> QED
  BY <1>1, <1>2, <1>3, <1>4, <1>5, <1>6, <1>7, <1>8, <1>9 DEF Step

LEMMA InvNext == TypeOK /\ FilesInv /\ [Next]_vars => FilesInv'
<1> SUFFICES ASSUME TypeOK, FilesInv, [Next]_vars PROVE FilesInv'
  OBVIOUS
<1>1. CASE UNCHANGED vars
  BY <1>1 DEF FilesInv, HeldIsStored, WriterInv, ProgressInv, PathOf
<1>2. ASSUME NEW p \in Processes, Step(p) PROVE FilesInv'
  <2>1. ASSUME NEW q \in Processes
        PROVE  /\ WriterInv(q)' /\ ProgressInv(q)'
               /\ \A i \in 1..Len(held'[q]) :
                     files'[job'[q].paths[i]] = [state |-> "key", by |-> held'[q][i]]
    BY <1>2, OthersKeep, SelfKeeps
  <2> QED
    BY <2>1 DEF FilesInv, HeldIsStored
<1> QED
  BY <1>1, <1>2 DEF Next

(* The inductive invariant: who writes has created the file, and who has a *)
(* key has it from the file.                                               *)
THEOREM Inductive == Spec => []FilesInv
BY TypeInit, TypeNext, InvInit, InvNext, PTL DEF Spec

(* The key a process uses for a path is the key in the file, for ever.     *)
THEOREM HeldStaysStored == Spec => []HeldIsStored
<1>1. FilesInv => HeldIsStored
  BY DEF FilesInv
<1> QED
  BY <1>1, Inductive, PTL

(* "Existing paths are never replaced": create_new and a single writer.    *)
THEOREM ExistingEndures == Spec => NeverReplaced
<1>1. TypeOK /\ FilesInv /\ [Next]_vars =>
          [\A f \in Paths : Exists(f) => Safe(f)]_vars
  <2> SUFFICES ASSUME TypeOK, FilesInv, Next
               PROVE  \A f \in Paths : Exists(f) => Safe(f)
    OBVIOUS
  <2> QED
    BY FilesStep DEF Next
<1> QED
  BY <1>1, TypeCorrect, Inductive, PTL DEF Spec, NeverReplaced, Safe

-----------------------------------------------------------------------------
(* An unfinished file knows its writer.                                    *)

LEMMA TornInit == Init => TornIsAccounted
BY DEF Init, TornIsAccounted

LEMMA TornNext == TypeOK /\ FilesInv /\ TornIsAccounted /\ [Next]_vars => TornIsAccounted'
<1> SUFFICES ASSUME TypeOK, FilesInv, TornIsAccounted, [Next]_vars,
                    NEW f \in Paths, files'[f].state = "torn"
             PROVE  LET q == files'[f].by IN
                    /\ q \in Processes
                    /\ pc'[q] = "write" /\ status'[q] \in {"running", "failed", "killed"}
                    /\ job'[q].paths[idx'[q]] = f
  BY DEF TornIsAccounted, PathOf
<1>1. CASE UNCHANGED vars
  BY <1>1 DEF TornIsAccounted, PathOf
<1>2. ASSUME NEW p \in Processes, Step(p), files'[f] # files[f]
      PROVE  /\ files'[f].by = p
             /\ pc'[p] = "write" /\ status'[p] = "running" /\ job'[p].paths[idx'[p]] = f
  <2>1. CASE Create(p)
    <3>1. PathOf(p) \in Paths
      BY <2>1, PathType DEF Create
    <3> QED
      BY <1>2, <2>1, <3>1 DEF Create, TypeOK, PathOf
  <2>2. CASE Write(p)
    BY <1>2, <2>2, PathType DEF Write, TypeOK
  <2>3. CASE ~Create(p) /\ ~Write(p)
    BY <1>2, <2>3 DEF Step, Begin, Preflight, SearchFails, Probe, Load, CreateFails, Sync,
                      WriteFails, Killed, Advance
  <2> QED
    BY <2>1, <2>2, <2>3
<1>3. ASSUME NEW p \in Processes, Step(p), files'[f] = files[f]
      PROVE  LET q == files'[f].by IN
             /\ q \in Processes
             /\ pc'[q] = "write" /\ status'[q] \in {"running", "failed", "killed"}
             /\ job'[q].paths[idx'[q]] = f
  <2> DEFINE q == files[f].by
  <2>1. /\ q \in Processes
        /\ pc[q] = "write" /\ status[q] \in {"running", "failed", "killed"} /\ PathOf(q) = f
    BY <1>3 DEF TornIsAccounted
  <2>2. CASE q # p
    BY <1>3, <2>1, <2>2, FilesStep DEF PathOf
  <2>3. CASE q = p /\ Write(p)
    BY <1>3, <2>1, <2>3 DEF Write, TypeOK
  <2>4. CASE q = p /\ ~Write(p)
    <3>1. WriteFails(p) \/ Killed(p)
      BY <1>3, <2>1, <2>4 DEF Step, Begin, Preflight, SearchFails, Probe, Load, Create,
                              CreateFails, Sync
    <3> QED
      BY <1>3, <2>1, <2>4, <3>1 DEF WriteFails, Killed, TypeOK, PathOf
  <2> QED
    BY <1>3, <2>2, <2>3, <2>4
<1> QED
  BY <1>1, <1>2, <1>3 DEF Next

(* Whoever finds an unfinished key file can tell that its writer is still  *)
(* at it, has reported an error or was killed.                             *)
THEOREM TornStaysAccounted == Spec => []TornIsAccounted
BY TypeCorrect, Inductive, TornInit, TornNext, PTL DEF Spec

-----------------------------------------------------------------------------
(* What a keygen knows after its preflight.                                *)

Checked(p, n) ==
    \A i \in 1..n : files[job[p].paths[i]].by # Earlier \/ ~Exists(job[p].paths[i])
Different(p, n) ==
    \A i, k \in 1..n : job[p].paths[i] = job[p].paths[k] => i = k

\* The files it made are those it holds, and the one it is working on.
OwnFiles(p) ==
    \A f \in Paths : Exists(f) /\ files[f].by = p =>
        \/ \E i \in 1..Len(held[p]) : f = job[p].paths[i]
        \/ pc[p] \in {"write", "sync"} /\ f = PathOf(p)

KeygenInv(p) ==
    /\ pc[p] \in {"start", "preflight", "create", "write", "sync"}
    /\ \A i \in 1..Len(held[p]) : held[p][i] = p
    /\ pc[p] = "preflight" /\ status[p] = "running" =>
           Checked(p, idx[p] - 1) /\ Different(p, idx[p] - 1)
    /\ pc[p] \in {"create", "write", "sync"} =>
           Checked(p, Len(job[p].paths)) /\ Different(p, Len(job[p].paths))
    /\ status[p] \in {"idle", "running"} => OwnFiles(p)
    /\ status[p] = "ok" => pc[p] = "sync" /\ Len(held[p]) = Len(job[p].paths)
    /\ status[p] = "exists" => /\ pc[p] = "create" /\ idx[p] \in Positions(p)
                               /\ Exists(PathOf(p)) /\ files[PathOf(p)].by \notin {p, Earlier}

KeygensInv == \A p \in Processes : job[p].cmd = "keygen" => KeygenInv(p)

LEMMA PathsOf ==
    ASSUME TypeOK, NEW q \in Processes, NEW i \in 1..Len(job[q].paths)
    PROVE  job[q].paths[i] \in Paths
BY JobType, ElementOfSeq

LEMMA HeldLength ==
    ASSUME TypeOK, FilesInv, NEW q \in Processes
    PROVE  Len(held[q]) \in Nat /\ Len(held[q]) <= Len(job[q].paths)
BY LenProperties DEF TypeOK, FilesInv, ProgressInv

\* A process changes no file but the one it works on, which it makes its own.
LEMMA OwnStep ==
    ASSUME TypeOK, FilesInv, NEW p \in Processes, Step(p), NEW f \in Paths,
           files'[f] # files[f]
    PROVE  /\ files'[f].by = p /\ files'[f].state # "absent"
           /\ f = PathOf(p)
           /\ \/ pc[p] = "create" /\ pc'[p] = "write"
              \/ pc[p] = "write" /\ pc'[p] = "sync"
           /\ idx'[p] = idx[p] /\ held'[p] = held[p]
           /\ status[p] = "running" /\ status'[p] = "running"
<1>1. CASE Create(p)
  BY <1>1, PathType DEF Create, TypeOK
<1>2. CASE Write(p)
  BY <1>2, PathType DEF Write, TypeOK
<1>3. CASE ~Create(p) /\ ~Write(p)
  BY <1>3 DEF Step, Begin, Preflight, SearchFails, Probe, Load, CreateFails, Sync,
              WriteFails, Killed, Advance
<1> QED
  BY <1>1, <1>2, <1>3

\* A file that is there keeps its maker, and no file becomes an earlier one.
LEMMA MakerStays ==
    ASSUME TypeOK, FilesInv, NEW p \in Processes, Step(p), NEW f \in Paths
    PROVE  /\ Exists(f) => files'[f].state # "absent" /\ files'[f].by = files[f].by
           /\ files[f].by # Earlier \/ ~Exists(f) =>
                  files'[f].by # Earlier \/ files'[f].state = "absent"
<1>1. CASE files'[f] = files[f]
  BY <1>1 DEF Exists
<1>2. CASE files'[f] # files[f]
  <2>1. files'[f].by = p /\ files'[f].state # "absent"
    BY <1>2, OwnStep
  <2>2. ~Exists(f) \/ files[f].by = p
    BY <1>2, FilesStep
  <2> QED
    BY <2>1, <2>2, EarlierAssumption
<1> QED
  BY <1>1, <1>2

LEMMA KeygenInit == Init => KeygensInv
<1> SUFFICES ASSUME Init, NEW p \in Processes PROVE KeygenInv(p)
  BY DEF KeygensInv
<1>1. TypeOK
  BY TypeInit
<1>2. OwnFiles(p)
  BY EarlierAssumption DEF Init, OwnFiles
<1> QED
  BY <1>2, EmptySeq DEF Init, KeygenInv

\* The processes that do not move keep what they know.
LEMMA KeygenOthers ==
    ASSUME TypeOK, FilesInv, NEW p \in Processes, Step(p),
           NEW q \in Processes, q # p, KeygenInv(q)
    PROVE  KeygenInv(q)'
<1>1. /\ status'[q] = status[q] /\ pc'[q] = pc[q] /\ idx'[q] = idx[q]
      /\ held'[q] = held[q] /\ job'[q] = job[q]
  BY FilesStep
<1>2. ASSUME NEW n \in Nat, n <= Len(job[q].paths), Checked(q, n)
      PROVE  \A i \in 1..n : \/ files'[job[q].paths[i]].by # Earlier
                             \/ files'[job[q].paths[i]].state = "absent"
  <2> SUFFICES ASSUME NEW i \in 1..n
               PROVE  \/ files'[job[q].paths[i]].by # Earlier
                      \/ files'[job[q].paths[i]].state = "absent"
    OBVIOUS
  <2>1. job[q].paths[i] \in Paths
    BY <1>2, JobType, PathsOf
  <2> QED
    BY <1>2, <2>1, MakerStays DEF Checked
<1>3. Len(job[q].paths) \in Nat \ {0}
  BY JobType
<1>4. status[q] = "running" => idx[q] \in 1..Len(job[q].paths)
  BY PathType DEF Positions
<1>5. OwnFiles(q) => OwnFiles(q)'
  <2> SUFFICES ASSUME OwnFiles(q), NEW f \in Paths, files'[f].state # "absent", files'[f].by = q
               PROVE  \/ \E i \in 1..Len(held[q]) : f = job[q].paths[i]
                      \/ pc[q] \in {"write", "sync"} /\ f = PathOf(q)
    BY <1>1 DEF OwnFiles, Exists, PathOf
  <2>1. files'[f] = files[f]
    BY OwnStep
  <2> QED
    BY <2>1 DEF OwnFiles, Exists
<1>6. pc[q] = "preflight" /\ status[q] = "running" =>
          Checked(q, idx[q] - 1)' /\ Different(q, idx[q] - 1)'
  <2> SUFFICES ASSUME pc[q] = "preflight", status[q] = "running"
               PROVE  Checked(q, idx[q] - 1)' /\ Different(q, idx[q] - 1)'
    OBVIOUS
  <2>1. idx[q] - 1 \in Nat /\ idx[q] - 1 <= Len(job[q].paths)
    BY <1>3, <1>4
  <2>2. Checked(q, idx[q] - 1) /\ Different(q, idx[q] - 1)
    BY DEF KeygenInv
  <2>3. \A i \in 1..(idx[q] - 1) : \/ files'[job[q].paths[i]].by # Earlier
                                   \/ files'[job[q].paths[i]].state = "absent"
    BY <1>2, <2>1, <2>2
  <2> QED
    BY <1>1, <2>2, <2>3 DEF Checked, Different, Exists
<1>7. pc[q] \in {"create", "write", "sync"} =>
          Checked(q, Len(job[q].paths))' /\ Different(q, Len(job[q].paths))'
  <2> SUFFICES ASSUME pc[q] \in {"create", "write", "sync"}
               PROVE  Checked(q, Len(job[q].paths))' /\ Different(q, Len(job[q].paths))'
    OBVIOUS
  <2>1. Checked(q, Len(job[q].paths)) /\ Different(q, Len(job[q].paths))
    BY DEF KeygenInv
  <2>2. \A i \in 1..Len(job[q].paths) : \/ files'[job[q].paths[i]].by # Earlier
                                        \/ files'[job[q].paths[i]].state = "absent"
    BY <1>2, <1>3, <2>1
  <2> QED
    BY <1>1, <2>1, <2>2 DEF Checked, Different, Exists
<1>8. status[q] = "exists" =>
          /\ idx'[q] \in Positions(q)'
          /\ files'[job'[q].paths[idx'[q]]].state # "absent"
          /\ files'[job'[q].paths[idx'[q]]].by \notin {q, Earlier}
  <2> SUFFICES ASSUME status[q] = "exists"
               PROVE  /\ idx'[q] \in Positions(q)'
                      /\ files'[job'[q].paths[idx'[q]]].state # "absent"
                      /\ files'[job'[q].paths[idx'[q]]].by \notin {q, Earlier}
    OBVIOUS
  <2>1. idx[q] \in 1..Len(job[q].paths) /\ Exists(PathOf(q))
        /\ files[PathOf(q)].by \notin {q, Earlier}
    BY DEF KeygenInv, Positions
  <2>2. PathOf(q) \in Paths
    BY <2>1, PathsOf DEF PathOf
  <2> QED
    BY <1>1, <2>1, <2>2, MakerStays DEF PathOf, Positions
<1> QED
  BY <1>1, <1>5, <1>6, <1>7, <1>8 DEF KeygenInv, Exists, PathOf

\* What a process has of its own when a step leaves the files alone.
LEMMA OwnKept ==
    ASSUME TypeOK, NEW p \in Processes, OwnFiles(p),
           files' = files, held'[p] = held[p], job'[p] = job[p],
           pc[p] \notin {"write", "sync"} \/ (pc'[p] = pc[p] /\ idx'[p] = idx[p])
    PROVE  OwnFiles(p)'
BY DEF OwnFiles, Exists, PathOf

LEMMA KeygenPreflight ==
    ASSUME TypeOK, FilesInv, NEW p \in Processes, job[p].cmd = "keygen", KeygenInv(p),
           Preflight(p)
    PROVE  KeygenInv(p)'
<1>1. /\ pc[p] = "preflight" /\ status[p] = "running"
      /\ files' = files /\ held'[p] = held[p] /\ job'[p] = job[p]
  BY DEF Preflight, TypeOK
<1>2. idx[p] \in 1..Len(job[p].paths) /\ Len(job[p].paths) \in Nat \ {0}
  BY <1>1, PathType, JobType DEF Positions
<1>3. Checked(p, idx[p] - 1) /\ Different(p, idx[p] - 1) /\ OwnFiles(p)
  BY <1>1 DEF KeygenInv
<1>4. OwnFiles(p)'
  BY <1>1, <1>3, OwnKept
<1>5. \A i \in 1..Len(held'[p]) : held'[p][i] = p
  BY <1>1 DEF KeygenInv
<1>6. ASSUME ~Taken(p) PROVE Checked(p, idx[p]) /\ Different(p, idx[p])
  <2>1. ~Exists(job[p].paths[idx[p]])
        /\ \A i \in 1..(idx[p] - 1) : job[p].paths[i] # job[p].paths[idx[p]]
    BY <1>6 DEF Taken, PathOf
  <2>2. \A i \in 1..idx[p] : i = idx[p] \/ i \in 1..(idx[p] - 1)
    BY <1>2
  <2> QED
    BY <1>3, <2>1, <2>2 DEF Checked, Different
<1>7. CASE Taken(p)
  <2>1. status'[p] = "refused" /\ pc'[p] = pc[p]
    BY <1>7 DEF Preflight, TypeOK
  <2> QED
    BY <1>1, <1>5, <2>1 DEF KeygenInv
<1>8. CASE ~Taken(p) /\ idx[p] < Len(job[p].paths)
  <2>1. status'[p] = "running" /\ pc'[p] = "preflight" /\ idx'[p] - 1 = idx[p]
    BY <1>1, <1>2, <1>8 DEF Preflight, TypeOK
  <2>2. Checked(p, idx[p] - 1)' /\ Different(p, idx[p] - 1)'
    BY <1>1, <1>6, <1>8, <2>1 DEF Checked, Different, Exists
  <2> QED
    BY <1>4, <1>5, <2>1, <2>2 DEF KeygenInv
<1>9. CASE ~Taken(p) /\ ~(idx[p] < Len(job[p].paths))
  <2>1. status'[p] = "running" /\ pc'[p] = "create" /\ idx[p] = Len(job[p].paths)
    BY <1>1, <1>2, <1>9 DEF Preflight, TypeOK
  <2>2. Checked(p, Len(job[p].paths))' /\ Different(p, Len(job[p].paths))'
    BY <1>1, <1>6, <1>9, <2>1 DEF Checked, Different, Exists
  <2> QED
    BY <1>1, <1>4, <1>5, <2>1, <2>2 DEF KeygenInv
<1> QED
  BY <1>7, <1>8, <1>9

\* A step that leaves the files, the keys and the place in the list alone.
LEMMA KeygenStill ==
    ASSUME TypeOK, FilesInv, NEW p \in Processes, job[p].cmd = "keygen", KeygenInv(p),
           Begin(p) \/ SearchFails(p) \/ CreateFails(p) \/ WriteFails(p) \/ Killed(p)
    PROVE  KeygenInv(p)'
<1>1. /\ files' = files /\ held'[p] = held[p] /\ job'[p] = job[p] /\ idx'[p] = idx[p]
  BY DEF Begin, SearchFails, CreateFails, WriteFails, Killed
<1>2. CASE Begin(p)
  <2>1. /\ status[p] = "idle" /\ pc[p] = "start" /\ idx[p] = 1
        /\ status'[p] = "running" /\ pc'[p] = "preflight"
    BY <1>2 DEF Begin, FilesInv, WriterInv, TypeOK
  <2>2. OwnFiles(p)'
    BY <1>1, <2>1, OwnKept DEF KeygenInv
  <2> QED
    BY <1>1, <2>1, <2>2 DEF KeygenInv, Checked, Different
<1>3. CASE ~Begin(p)
  <2>1. /\ status'[p] \in {"failed", "killed"} /\ pc'[p] = pc[p] /\ status[p] = "running"
    BY <1>3 DEF SearchFails, CreateFails, WriteFails, Killed, TypeOK
  <2>2. pc[p] \in {"create", "write", "sync"} =>
            Checked(p, Len(job[p].paths))' /\ Different(p, Len(job[p].paths))'
    BY <1>1 DEF KeygenInv, Checked, Different, Exists
  <2> QED
    BY <1>1, <2>1, <2>2 DEF KeygenInv
<1> QED
  BY <1>2, <1>3

LEMMA KeygenCreate ==
    ASSUME TypeOK, FilesInv, NEW p \in Processes, job[p].cmd = "keygen", KeygenInv(p),
           Create(p)
    PROVE  KeygenInv(p)'
<1>1. /\ pc[p] = "create" /\ status[p] = "running"
      /\ held'[p] = held[p] /\ job'[p] = job[p] /\ idx'[p] = idx[p]
  BY DEF Create
<1>2. /\ Checked(p, Len(job[p].paths)) /\ Different(p, Len(job[p].paths)) /\ OwnFiles(p)
      /\ \A i \in 1..Len(held[p]) : held[p][i] = p
  BY <1>1 DEF KeygenInv
<1>3. /\ idx[p] \in 1..Len(job[p].paths) /\ PathOf(p) \in Paths
      /\ Len(held[p]) = idx[p] - 1 /\ Len(job[p].paths) \in Nat \ {0}
  BY <1>1, PathType, JobType DEF Positions, FilesInv, ProgressInv
<1>4. \A i \in 1..Len(job[p].paths) : \/ files'[job[p].paths[i]].by # Earlier
                                      \/ files'[job[p].paths[i]].state = "absent"
  <2> SUFFICES ASSUME NEW i \in 1..Len(job[p].paths)
               PROVE  \/ files'[job[p].paths[i]].by # Earlier
                      \/ files'[job[p].paths[i]].state = "absent"
    OBVIOUS
  <2>1. Step(p)
    BY DEF Step
  <2> QED
    BY <1>2, <2>1, PathsOf, MakerStays DEF Checked
<1>5. Checked(p, Len(job[p].paths))' /\ Different(p, Len(job[p].paths))'
  BY <1>1, <1>2, <1>4 DEF Checked, Different, Exists
<1>6. CASE Opens(PathOf(p))
  <2>1. status'[p] = "running" /\ pc'[p] = "write"
        /\ files' = [files EXCEPT ![PathOf(p)] = [state |-> "torn", by |-> p]]
    BY <1>6 DEF Create, TypeOK
  <2>2. OwnFiles(p)'
    BY <1>1, <1>2, <1>3, <2>1 DEF OwnFiles, Exists, PathOf, TypeOK
  <2> QED
    BY <1>1, <1>2, <1>5, <2>1, <2>2 DEF KeygenInv
<1>7. CASE ~Opens(PathOf(p))
  <2>1. status'[p] = "exists" /\ pc'[p] = "create" /\ files' = files
    BY <1>1, <1>7 DEF Create, TypeOK
  <2>2. Exists(PathOf(p)) /\ files[PathOf(p)].by # Earlier
    BY <1>2, <1>3, <1>7 DEF Opens, Checked, PathOf
  <2>3. files[PathOf(p)].by # p
    <3> SUFFICES ASSUME files[PathOf(p)].by = p PROVE FALSE
      OBVIOUS
    <3>1. PICK i \in 1..Len(held[p]) : PathOf(p) = job[p].paths[i]
      BY <1>1, <1>2, <1>3, <2>2 DEF OwnFiles
    <3> QED
      BY <1>2, <1>3, <3>1 DEF Different, PathOf
  <2>4. OwnFiles(p)'
    BY <1>1, <1>2, <2>1, OwnKept
  <2> QED
    BY <1>1, <1>2, <1>3, <1>5, <2>1, <2>2, <2>3, <2>4 DEF KeygenInv, Exists, PathOf, Positions
<1> QED
  BY <1>6, <1>7

LEMMA KeygenWrite ==
    ASSUME TypeOK, FilesInv, NEW p \in Processes, job[p].cmd = "keygen", KeygenInv(p),
           Write(p)
    PROVE  KeygenInv(p)'
<1>1. /\ pc[p] = "write" /\ status[p] = "running" /\ pc'[p] = "sync" /\ status'[p] = "running"
      /\ held'[p] = held[p] /\ job'[p] = job[p] /\ idx'[p] = idx[p]
      /\ files' = [files EXCEPT ![PathOf(p)] = [state |-> "key", by |-> p]]
  BY DEF Write, TypeOK
<1>2. /\ Checked(p, Len(job[p].paths)) /\ Different(p, Len(job[p].paths)) /\ OwnFiles(p)
      /\ \A i \in 1..Len(held[p]) : held[p][i] = p
  BY <1>1 DEF KeygenInv
<1>3. \A i \in 1..Len(job[p].paths) : \/ files'[job[p].paths[i]].by # Earlier
                                      \/ files'[job[p].paths[i]].state = "absent"
  <2>1. Step(p)
    BY DEF Step
  <2> QED
    BY <1>2, <2>1, PathsOf, MakerStays DEF Checked
<1>4. Checked(p, Len(job[p].paths))' /\ Different(p, Len(job[p].paths))'
  BY <1>1, <1>2, <1>3 DEF Checked, Different, Exists
<1>5. OwnFiles(p)'
  BY <1>1, <1>2 DEF OwnFiles, Exists, PathOf, TypeOK
<1> QED
  BY <1>1, <1>2, <1>4, <1>5 DEF KeygenInv

LEMMA KeygenSync ==
    ASSUME TypeOK, FilesInv, NEW p \in Processes, job[p].cmd = "keygen", KeygenInv(p),
           Sync(p)
    PROVE  KeygenInv(p)'
<1>1. /\ pc[p] = "sync" /\ status[p] = "running" /\ files' = files /\ job'[p] = job[p]
      /\ held'[p] = Append(held[p], p) /\ idx'[p] = idx[p] + 1
      /\ IF idx[p] = Len(job[p].paths) THEN status'[p] = "ok" /\ pc'[p] = "sync"
         ELSE status'[p] = "running" /\ pc'[p] = "create"
  BY DEF Sync, Advance, Last, TypeOK
<1>2. /\ Checked(p, Len(job[p].paths)) /\ Different(p, Len(job[p].paths)) /\ OwnFiles(p)
      /\ \A i \in 1..Len(held[p]) : held[p][i] = p
  BY <1>1 DEF KeygenInv
<1>3. /\ idx[p] \in 1..Len(job[p].paths) /\ held[p] \in Seq(Makers)
      /\ Len(held[p]) = idx[p] - 1 /\ Len(job[p].paths) \in Nat \ {0} /\ p \in Makers
  BY <1>1, PathType, JobType DEF Positions, FilesInv, ProgressInv, TypeOK, Makers
<1>4. /\ Len(held'[p]) = idx[p]
      /\ \A i \in 1..Len(held[p]) : held'[p][i] = held[p][i]
      /\ held'[p][idx[p]] = p
  BY <1>1, <1>3, AppendProperties
<1>5. \A i \in 1..Len(held'[p]) : held'[p][i] = p
  <2>1. \A i \in 1..Len(held'[p]) : i = idx[p] \/ i \in 1..Len(held[p])
    BY <1>3, <1>4
  <2> QED
    BY <1>2, <1>4, <2>1
<1>6. Checked(p, Len(job[p].paths))' /\ Different(p, Len(job[p].paths))'
  BY <1>1, <1>2 DEF Checked, Different, Exists
<1>7. OwnFiles(p)'
  <2> SUFFICES ASSUME NEW f \in Paths, Exists(f), files[f].by = p
               PROVE  \E i \in 1..Len(held'[p]) : f = job[p].paths[i]
    BY <1>1 DEF OwnFiles, Exists
  <2>1. CASE f = PathOf(p)
    BY <1>3, <1>4, <2>1 DEF PathOf
  <2>2. CASE f # PathOf(p)
    <3>1. PICK i \in 1..Len(held[p]) : f = job[p].paths[i]
      BY <1>2, <2>2 DEF OwnFiles
    <3>2. i \in 1..Len(held'[p])
      BY <1>3, <1>4
    <3> QED
      BY <3>1, <3>2
  <2> QED
    BY <2>1, <2>2
<1> QED
  BY <1>1, <1>4, <1>5, <1>6, <1>7 DEF KeygenInv

LEMMA KeygenNext == TypeOK /\ FilesInv /\ KeygensInv /\ [Next]_vars => KeygensInv'
<1> SUFFICES ASSUME TypeOK, FilesInv, KeygensInv, [Next]_vars,
                    NEW q \in Processes, job'[q].cmd = "keygen"
             PROVE  KeygenInv(q)'
  BY DEF KeygensInv
<1>1. CASE UNCHANGED vars
  BY <1>1 DEF KeygensInv, KeygenInv, OwnFiles, Checked, Different, Exists, PathOf, Positions
<1>2. ASSUME NEW p \in Processes, Step(p) PROVE KeygenInv(q)'
  <2>1. job[q].cmd = "keygen" /\ KeygenInv(q)
    BY <1>2, FilesStep DEF KeygensInv
  <2>2. CASE q # p
    BY <1>2, <2>1, <2>2, KeygenOthers
  <2>3. CASE q = p
    <3>1. ~Probe(p) /\ ~Load(p)
      BY <2>1, <2>3 DEF KeygenInv, Probe, Load
    <3> QED
      BY <1>2, <2>1, <2>3, <3>1, KeygenPreflight, KeygenStill, KeygenCreate, KeygenWrite,
         KeygenSync DEF Step
  <2> QED
    BY <2>2, <2>3
<1> QED
  BY <1>1, <1>2 DEF Next

(* The inductive invariant of keygen: after the preflight no destination   *)
(* holds an earlier file and none is named twice, and the files it has     *)
(* made are the ones it holds the keys of.                                 *)
THEOREM KeygenInductive == Spec => []KeygensInv
BY TypeCorrect, Inductive, KeygenInit, KeygenNext, PTL DEF Spec

(* A keygen that reports success has made every key it was asked for, each *)
(* in a file of its own.                                                   *)
THEOREM KeygenAlwaysDelivers == Spec => []KeygenDelivers
<1>1. TypeOK /\ FilesInv /\ KeygensInv => KeygenDelivers
  <2> SUFFICES ASSUME TypeOK, FilesInv, KeygensInv, NEW p \in Processes,
                      status[p] = "ok", job[p].cmd = "keygen"
               PROVE  /\ \A i \in Positions(p) :
                             files[job[p].paths[i]] = [state |-> "key", by |-> p]
                      /\ Different(p, Len(job[p].paths))
    BY DEF KeygenDelivers, Different, Positions
  <2>1. /\ Len(held[p]) = Len(job[p].paths) /\ Different(p, Len(job[p].paths))
        /\ \A i \in 1..Len(held[p]) : held[p][i] = p
    BY DEF KeygensInv, KeygenInv
  <2> QED
    BY <2>1 DEF FilesInv, HeldIsStored, Positions
<1> QED
  BY <1>1, TypeCorrect, Inductive, KeygenInductive, PTL

(* A keygen is refused a destination after its preflight only because      *)
(* another process has created it in between.                              *)
THEOREM ClashIsAlwaysRival == Spec => []ClashIsRival
<1>1. KeygensInv => ClashIsRival
  BY DEF KeygensInv, KeygenInv, ClashIsRival
<1> QED
  BY <1>1, KeygenInductive, PTL
=============================================================================
