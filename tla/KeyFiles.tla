------------------------------ MODULE KeyFiles ------------------------------
(***************************************************************************)
(* Secret key files (src/src/keys.rs) shared by the processes that write    *)
(* them, `keygen` (src/src/commands/keygen.rs) and `deploy` with            *)
(* --generate-if-missing, and by those that load them.                     *)
(*                                                                         *)
(* Abstracted data: the key a process generates for a path is known by the *)
(* process that made it, since every generated key is fresh.               *)
(***************************************************************************)
EXTENDS Integers, Sequences

CONSTANTS
    Processes,   \* executions of a command
    Earlier,     \* whoever wrote the files that existed before
    Paths,
    Jobs,        \* what a process may be asked to do
    Faults       \* which of "search_fails", "write_fails" and "killed" can happen

ASSUME EarlierAssumption == Earlier \notin Processes
ASSUME JobsAssumption ==
    Jobs \subseteq [cmd : {"keygen", "load"}, paths : Seq(Paths) \ {<<>>},
                    generate : BOOLEAN]

VARIABLES
    files,    \* each path: what it holds and who made it
    status,   \* how each process stands: "idle", "running", "ok" or its error
    pc,       \* the call each running process has reached
    job,      \* its arguments
    idx,      \* the position of the path it works on
    held      \* the key it has for each position: who made it

vars == <<files, status, pc, job, idx, held>>

Makers == Processes \cup {Earlier}
\* "torn" is a file its writer has not filled, "other" not a key file at all.
File == [state : {"absent", "torn", "key", "other"}, by : Makers]
Nothing == [state |-> "absent", by |-> Earlier]
Exists(f) == files[f].state # "absent"
Positions(p) == 1..Len(job[p].paths)
PathOf(p) == job[p].paths[idx[p]]

Init ==
    /\ files \in [Paths -> {[state |-> s, by |-> Earlier] : s \in {"absent", "key", "other"}}]
    /\ job \in [Processes -> Jobs]
    /\ status = [p \in Processes |-> "idle"]
    /\ pc = [p \in Processes |-> "start"]
    /\ idx = [p \in Processes |-> 1]
    /\ held = [p \in Processes |-> <<>>]

At(p, step) == status[p] = "running" /\ pc[p] = step
Goto(p, step) == pc' = [pc EXCEPT ![p] = step] /\ UNCHANGED status
End(p, how) == status' = [status EXCEPT ![p] = how] /\ UNCHANGED pc

Begin(p) ==
    /\ status[p] = "idle"
    /\ status' = [status EXCEPT ![p] = "running"]
    /\ pc' = [pc EXCEPT ![p] = IF job[p].cmd = "keygen" THEN "preflight" ELSE "probe"]
    /\ UNCHANGED <<files, job, idx, held>>

-----------------------------------------------------------------------------
(* keygen: every destination is checked before the first is created.       *)

\* Mutant: a destination named twice is not noticed.
TakenByFile(p) == Exists(PathOf(p))
Taken(p) == Exists(PathOf(p)) \/ \E i \in 1..(idx[p] - 1) : job[p].paths[i] = PathOf(p)

Preflight(p) ==
    /\ At(p, "preflight")
    /\ IF Taken(p) THEN End(p, "refused") /\ UNCHANGED idx
       ELSE IF idx[p] < Len(job[p].paths)
       THEN idx' = [idx EXCEPT ![p] = @ + 1] /\ UNCHANGED <<pc, status>>
       ELSE idx' = [idx EXCEPT ![p] = 1] /\ Goto(p, "create")
    /\ UNCHANGED <<files, job, held>>

\* VanitySearch::new or run fails.
SearchFails(p) ==
    /\ "search_fails" \in Faults
    /\ At(p, "create") /\ job[p].cmd = "keygen"
    /\ End(p, "failed")
    /\ UNCHANGED <<files, job, idx, held>>

-----------------------------------------------------------------------------
(* load_or_generate_key: a path is generated only if it is absent.         *)

Probe(p) ==
    /\ At(p, "probe")
    /\ Goto(p, IF job[p].generate /\ ~Exists(PathOf(p)) THEN "create" ELSE "load")
    /\ UNCHANGED <<files, job, idx, held>>

Last(p) == idx[p] = Len(job[p].paths)

\* The process has the key of its path: on to the next one.
Advance(p, maker) ==
    /\ held' = [held EXCEPT ![p] = Append(@, maker)]
    /\ idx' = [idx EXCEPT ![p] = @ + 1]
    /\ IF Last(p) THEN End(p, "ok")
       ELSE Goto(p, IF job[p].cmd = "keygen" THEN "create" ELSE "probe")

\* Mutant: any file is taken for a key.
Parses(f) == Exists(f)
Readable(f) == files[f].state = "key"

Load(p) ==
    /\ At(p, "load")
    /\ IF Readable(PathOf(p))
       THEN Advance(p, files[PathOf(p)].by)
       ELSE End(p, "unreadable") /\ UNCHANGED <<idx, held>>
    /\ UNCHANGED <<files, job>>

-----------------------------------------------------------------------------
(* persist_key_file                                                        *)

\* Mutant: create(true) and truncate(true) in place of create_new(true).
AlwaysOpens(f) == TRUE
Opens(f) == ~Exists(f)

Create(p) ==
    /\ At(p, "create")
    /\ IF Opens(PathOf(p))
       THEN /\ files' = [files EXCEPT ![PathOf(p)] = [state |-> "torn", by |-> p]]
            /\ Goto(p, "write")
       ELSE End(p, "exists") /\ UNCHANGED files
    /\ UNCHANGED <<job, idx, held>>

\* The parent directory is missing or not writable: nothing is created.
CreateFails(p) ==
    /\ "write_fails" \in Faults
    /\ At(p, "create")
    /\ End(p, "failed")
    /\ UNCHANGED <<files, job, idx, held>>

Write(p) ==
    /\ At(p, "write")
    /\ files' = [files EXCEPT ![PathOf(p)] = [state |-> "key", by |-> p]]
    /\ Goto(p, "sync")
    /\ UNCHANGED <<job, idx, held>>

Sync(p) ==
    /\ At(p, "sync")
    /\ Advance(p, p)
    /\ UNCHANGED <<files, job>>

\* Mutant: the error of write_all is dropped.
WriteFailsUnseen(p) ==
    /\ "write_fails" \in Faults
    /\ At(p, "write")
    /\ Advance(p, p)
    /\ UNCHANGED <<files, job>>
\* write_all or sync_all fails; what was written stays.
WriteFails(p) ==
    /\ "write_fails" \in Faults
    /\ At(p, "write") \/ At(p, "sync")
    /\ End(p, "failed")
    /\ UNCHANGED <<files, job, idx, held>>

\* The process dies, or a stat or a read fails.
Killed(p) ==
    /\ "killed" \in Faults
    /\ status[p] = "running"
    /\ End(p, "killed")
    /\ UNCHANGED <<files, job, idx, held>>

Step(p) ==
    \/ Begin(p) \/ Preflight(p) \/ SearchFails(p) \/ Probe(p) \/ Load(p)
    \/ Create(p) \/ CreateFails(p) \/ Write(p) \/ Sync(p) \/ WriteFails(p)
    \/ Killed(p)

Next == \E p \in Processes : Step(p)

Spec == Init /\ [][Next]_vars

-----------------------------------------------------------------------------
Errors == {"refused", "failed", "exists", "unreadable", "killed"}
Calls == {"start", "preflight", "probe", "load", "create", "write", "sync"}

(* Every variable keeps its type, and no process works on a path it was    *)
(* not given.                                                              *)
TypeOK ==
    /\ files \in [Paths -> File]
    /\ status \in [Processes -> {"idle", "running", "ok"} \cup Errors]
    /\ pc \in [Processes -> Calls]
    /\ job \in [Processes -> Jobs]
    /\ idx \in [Processes -> Nat \ {0}]
    /\ \A p \in Processes : status[p] \in {"idle", "running"} => idx[p] \in Positions(p)
    /\ held \in [Processes -> Seq(Makers)]

(* "Existing paths are never replaced" (README.md:257-258): a key, or       *)
(* anything else that lies at a path, stays, and an unfinished file is only *)
(* finished by its own writer.                                             *)
NeverReplaced ==
    [][\A f \in Paths : Exists(f) =>
          \/ files'[f] = files[f]
          \/ files[f].state = "torn" /\ files'[f] = [files[f] EXCEPT !.state = "key"]]_vars

(* The key a process uses for a path is the key in the file, for ever: two *)
(* processes that generate and load the same path agree, and a process     *)
(* that crashes afterwards finds its key again (load_or_generate_key).     *)
HeldIsStored ==
    \A p \in Processes : \A i \in 1..Len(held[p]) :
        files[job[p].paths[i]] = [state |-> "key", by |-> held[p][i]]

(* A keygen that reports success has made every key it was asked for, each *)
(* in a file of its own.                                                   *)
KeygenDelivers ==
    \A p \in Processes : status[p] = "ok" /\ job[p].cmd = "keygen" =>
        /\ \A i \in Positions(p) : files[job[p].paths[i]] = [state |-> "key", by |-> p]
        /\ \A i, j \in Positions(p) : job[p].paths[i] = job[p].paths[j] => i = j

(* A keygen that meets a file after its preflight has lost a race: the file *)
(* is neither its own nor one that was there before it began.              *)
ClashIsRival ==
    \A p \in Processes : job[p].cmd = "keygen" /\ status[p] = "exists" =>
        files[PathOf(p)].by \notin {p, Earlier}

(* An unfinished key file is being written, or its writer has failed or    *)
(* was killed; no process leaves two.                                      *)
TornIsAccounted ==
    \A f \in Paths : files[f].state = "torn" =>
        LET p == files[f].by IN
        /\ p \in Processes
        /\ pc[p] = "write" /\ status[p] \in {"running", "failed", "killed"}
        /\ PathOf(p) = f

-----------------------------------------------------------------------------
(* Why the files are safe: the parts of an inductive invariant.            *)

\* A process that writes has created the file it is writing to.
WriterInv(p) ==
    /\ At(p, "write") => files[PathOf(p)] = [state |-> "torn", by |-> p]
    /\ At(p, "sync") => files[PathOf(p)] = [state |-> "key", by |-> p]
    /\ status[p] = "idle" => pc[p] = "start" /\ held[p] = <<>> /\ idx[p] = 1

\* As many keys are held as paths are done.
ProgressInv(p) ==
    /\ Len(held[p]) <= Len(job[p].paths)
    /\ pc[p] = "preflight" => held[p] = <<>>
    /\ status[p] = "running" /\ pc[p] # "preflight" => Len(held[p]) = idx[p] - 1

FilesInv == HeldIsStored /\ \A p \in Processes : WriterInv(p) /\ ProgressInv(p)
=============================================================================
