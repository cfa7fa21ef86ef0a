----------------------------- MODULE ProjectInit -----------------------------
(***************************************************************************)
(* arch-kit init: the destination is looked up, created, and filled from   *)
(* the template one directory and one file at a time.  Several runs may    *)
(* aim at the same destination, other programs create files next to them,  *)
(* a run may fail or be killed anywhere, and a user may remove what failed *)
(* runs left and start again.                                              *)
(*                                                                         *)
(* Abstracted data: what a file contains is the run that writes it, since  *)
(* the names and the program id come from that run's arguments.            *)
(***************************************************************************)
EXTENDS Integers, Sequences, FiniteSets, SequencesExt

CONSTANTS
    Makers,    \* runs of init for one destination
    Root,      \* the destination
    SubDirs,   \* the directories of the template, in its order
    Files,     \* the files of Root and of each of SubDirs, in its order
    Faults     \* "refuses", "write_fails", "killed", "others", "cleared"

Dirs == {Root} \cup ToSet(SubDirs)
Paths == Dirs \cup UNION {ToSet(Files[d]) : d \in Dirs}

ASSUME TemplateAssumption ==
    /\ Root \notin ToSet(SubDirs)
    /\ \A d \in Dirs : ToSet(Files[d]) \cap Dirs = {}
    /\ \A d, e \in Dirs : ToSet(Files[d]) \cap ToSet(Files[e]) # {} => d = e
    /\ "others" \notin Makers
    /\ Paths \ Dirs # {}

\* A directory has an entry once.
ASSUME EntriesAssumption ==
    /\ SubDirs \in Seq(Dirs) /\ IsInjective(SubDirs)
    /\ \A d \in Dirs : Files[d] \in Seq(Paths) /\ IsInjective(Files[d])

VARIABLES
    tree,      \* what is at each path
    pc,        \* the step each run has reached
    next,      \* the entry of the template it renders
    status,    \* "idle", "running", "ok", "failed" or "killed"
    calm       \* history: no fault has occurred and nobody else has interfered

vars == <<tree, pc, next, status, calm>>

Nothing == [kind |-> "absent", by |-> "others", whole |-> FALSE]
Directory(who) == [kind |-> "dir", by |-> who, whole |-> TRUE]
File(who, whole) == [kind |-> "file", by |-> who, whole |-> whole]
Nodes == [kind : {"absent", "dir", "file"}, by : Makers \cup {"others"}, whole : BOOLEAN]

Parent(p) == IF p \in Dirs THEN Root ELSE CHOOSE d \in Dirs : p \in ToSet(Files[d])

-----------------------------------------------------------------------------
(* render_directory: a directory's subdirectories, then its files.         *)

\* Mutant: a directory is filled before it is created.
EarlyFiles(d) == Files[d] \o <<d>>
SubDirectory(d) == <<d>> \o Files[d]

Template == FlattenSeq([i \in DOMAIN SubDirs |-> SubDirectory(SubDirs[i])]) \o Files[Root]

\* create_dir_all accepts a directory that is there.
Enterable(p) == tree[p].kind # "file"
WithDirectory(p, m) ==
    IF tree[p].kind = "absent" THEN [tree EXCEPT ![p] = Directory(m)] ELSE tree

\* Mutant: create(true).truncate(true), an existing file is opened.
Truncatable(p) == tree[Parent(p)].kind = "dir" /\ tree[p].kind # "dir"
\* OpenOptions::create_new.
Creatable(p) == tree[Parent(p)].kind = "dir" /\ tree[p].kind = "absent"

-----------------------------------------------------------------------------
Init ==
    /\ tree = [p \in Paths |-> Nothing]
    /\ pc = [m \in Makers |-> "check"]
    /\ next = [m \in Makers |-> 1]
    /\ status = [m \in Makers |-> "idle"]
    /\ calm = TRUE

At(m, step) == status[m] = "running" /\ pc[m] = step
Goto(m, step) == pc' = [pc EXCEPT ![m] = step] /\ UNCHANGED status
Return(m, how) == status' = [status EXCEPT ![m] = how] /\ UNCHANGED pc

Begin(m) ==
    /\ status[m] = "idle"
    /\ status' = [status EXCEPT ![m] = "running"]
    /\ UNCHANGED <<tree, pc, next, calm>>

\* The program key cannot be loaded, the destination has no name or cannot be
\* created, a template cannot be rendered: the run ends where it is.
Refuse(m) ==
    /\ "refuses" \in Faults
    /\ status[m] = "running" /\ pc[m] # "write"
    /\ Return(m, "failed")
    /\ calm' = FALSE
    /\ UNCHANGED <<tree, next>>

\* ensure_destination_is_available.
Check(m) ==
    /\ At(m, "check")
    /\ IF tree[Root].kind = "absent" THEN Goto(m, "root") ELSE Return(m, "failed")
    /\ UNCHANGED <<tree, next, calm>>

MakeRoot(m) ==
    /\ At(m, "root")
    /\ IF Enterable(Root) THEN Goto(m, "render") /\ tree' = WithDirectory(Root, m)
       ELSE Return(m, "failed") /\ UNCHANGED tree
    /\ UNCHANGED <<next, calm>>

Advance(m) ==
    /\ next' = [next EXCEPT ![m] = @ + 1]
    /\ IF next[m] = Len(Template) THEN Return(m, "ok") ELSE Goto(m, "render")

Entry(m) == Template[next[m]]

MakeDirectory(m) ==
    /\ At(m, "render") /\ Entry(m) \in Dirs
    /\ IF Enterable(Entry(m)) THEN Advance(m) /\ tree' = WithDirectory(Entry(m), m)
       ELSE Return(m, "failed") /\ UNCHANGED <<tree, next>>
    /\ UNCHANGED calm

\* write_new_file opens ...
OpenFile(m) ==
    /\ At(m, "render") /\ Entry(m) \notin Dirs
    /\ IF Creatable(Entry(m))
       THEN Goto(m, "write") /\ tree' = [tree EXCEPT ![Entry(m)] = File(m, FALSE)]
       ELSE Return(m, "failed") /\ UNCHANGED tree
    /\ UNCHANGED <<next, calm>>

\* ... and writes and syncs.
WriteFile(m) ==
    /\ At(m, "write")
    /\ tree' = [tree EXCEPT ![Entry(m)] = File(m, TRUE)]
    /\ Advance(m)
    /\ UNCHANGED calm

\* Mutant: the error of write_all is dropped.
ShruggedOff(m) == Advance(m)
WriteError(m) == Return(m, "failed") /\ UNCHANGED next

WriteFails(m) ==
    /\ "write_fails" \in Faults /\ At(m, "write")
    /\ WriteError(m)
    /\ calm' = FALSE
    /\ UNCHANGED tree

Killed(m) ==
    /\ "killed" \in Faults /\ status[m] = "running"
    /\ Return(m, "killed")
    /\ calm' = FALSE
    /\ UNCHANGED <<tree, next>>

\* Another program creates a file or a directory where there is none.
OthersCreate ==
    /\ "others" \in Faults
    /\ \E p \in {q \in Paths : tree[q].kind = "absent" /\ (q = Root \/ tree[Parent(q)].kind = "dir")} :
         \E node \in {Directory("others"), File("others", TRUE)} :
            tree' = [tree EXCEPT ![p] = node]
    /\ calm' = FALSE
    /\ UNCHANGED <<pc, next, status>>

\* The user removes what failed runs left, while none is running.
Clear ==
    /\ "cleared" \in Faults
    /\ \A m \in Makers : status[m] \notin {"running", "ok"}
    /\ \E m \in Makers : status[m] \in {"failed", "killed"}
    /\ tree' = [p \in Paths |-> Nothing]
    /\ calm' = FALSE
    /\ UNCHANGED <<pc, next, status>>

Maker(m) ==
    \/ Begin(m) \/ Refuse(m) \/ Check(m) \/ MakeRoot(m) \/ MakeDirectory(m)
    \/ OpenFile(m) \/ WriteFile(m) \/ WriteFails(m) \/ Killed(m)

Next == OthersCreate \/ Clear \/ \E m \in Makers : Maker(m)
Spec == Init /\ [][Next]_vars

-----------------------------------------------------------------------------
(* Every variable keeps its type.                                          *)
TypeOK ==
    /\ tree \in [Paths -> Nodes]
    /\ pc \in [Makers -> {"check", "root", "render", "write"}]
    /\ next \in [Makers -> 1..Len(Template) + 1]
    /\ status \in [Makers -> {"idle", "running", "ok", "failed", "killed"}]
    /\ calm \in BOOLEAN

(* A run that reports success has written every file of the template, each *)
(* of them whole and with its own names and program id.                    *)
SuccessIsWhole ==
    \A m \in Makers : status[m] = "ok" =>
        \A p \in Paths \ Dirs : tree[p] = File(m, TRUE)

(* However runs for one destination interleave, and wherever they stop, no *)
(* project holds files of two of them.                                     *)
OneMaker ==
    \A p, q \in Paths :
        tree[p].kind = "file" /\ tree[q].kind = "file"
        /\ {tree[p].by, tree[q].by} \subseteq Makers => tree[p].by = tree[q].by

(* Racing runs cannot all lose: unless something else interferes, one of   *)
(* those that ran has succeeded once none is left running.                 *)
SomebodyWins ==
    calm /\ (\A m \in Makers : status[m] # "running") /\ (\E m \in Makers : status[m] # "idle")
        => \E m \in Makers : status[m] = "ok"

(* No run changes what it finds: a file or directory that is there stays   *)
(* as it is until its own run completes it or the user clears it away.     *)
NeverReplaced ==
    [][tree' = [p \in Paths |-> Nothing] \/
       \A p \in Paths : tree[p].kind # "absent" /\ tree'[p] # tree[p] =>
           \E m \in Makers : tree[p] = File(m, FALSE) /\ tree'[p] = File(m, TRUE)]_vars
=============================================================================
