---------------------------- MODULE ReleaseAssets ----------------------------
(***************************************************************************)
(* The release job of .github/workflows/release-binary.yml: it attaches    *)
(* the package of one build, then its checksum, to the GitHub release of a  *)
(* version.  The job may be re-run with the same package, the workflow may  *)
(* be dispatched again and build other bytes, and such jobs may overlap:    *)
(* no concurrency group keeps them apart.  Any request may fail, before or  *)
(* after it has taken effect, and a job may be cancelled between requests.  *)
(*                                                                         *)
(* Abstracted data: a package, its checksum file and the checksum in the   *)
(* notes are the build they come from.  GitHub creates a release or an     *)
(* asset of a name at most once.                                           *)
(***************************************************************************)
EXTENDS Integers, Sequences, FiniteSets

CONSTANTS
    Jobs,      \* executions of the release job for one version
    Builds,    \* packages that builds of the version have produced
    Files,     \* the names of the package and of its checksum, in order
    Faults     \* "request_fails", "answer_lost", "cancelled"

ASSUME ReleaseAssumption == Files \in Seq(STRING) /\ Files # <<>> /\ "none" \notin Builds

Names == {Files[i] : i \in DOMAIN Files}

VARIABLES
    tag,       \* "none", or the commit v<version> points at: "published" or "other"
    exists,    \* whether the release exists
    assets,    \* the build each attached file comes from
    notes,     \* the builds whose checksum the notes give, in order
    build,     \* the package of each job
    pc,        \* the request each job has reached
    file,      \* the file it attaches
    body,      \* the notes it has read
    status,    \* "idle", "running", "ok" or "failed"
    calm       \* history: it ran alone and no request of it has failed

release == <<tag, exists, assets, notes>>
vars == <<release, build, pc, file, body, status, calm>>

Steps == {"tag", "view", "create", "download", "upload", "body", "edit"}

\* Mutant: the name is enough, the bytes are not compared.
SameName(b, attached) == TRUE
\* cmp -s.
SameBytes(b, attached) == b = attached

\* Mutant: gh release upload --clobber.
Clobbers(f) == TRUE
Uploads(f) == assets[f] = "none"

\* Mutant: the checksum is added without looking for it.
AlwaysAdds(b, text) == TRUE
NeedsChecksum(b, text) == \A i \in DOMAIN text : text[i] # b

Init ==
    /\ build \in [Jobs -> Builds]
    /\ tag \in {"none", "published", "other"}
    \* A release made by hand, before the first job, has a tag and other notes.
    /\ exists \in {FALSE, tag # "none"}
    /\ assets = [f \in Names |-> "none"]
    /\ notes = <<>>
    /\ pc = [j \in Jobs |-> "tag"]
    /\ file = [j \in Jobs |-> 1]
    /\ body = [j \in Jobs |-> <<>>]
    /\ status = [j \in Jobs |-> "idle"]
    /\ calm = [j \in Jobs |-> TRUE]

At(j, step) == status[j] = "running" /\ pc[j] = step
Goto(j, step) == pc' = [pc EXCEPT ![j] = step] /\ UNCHANGED status
Return(j, how) == status' = [status EXCEPT ![j] = how] /\ UNCHANGED pc

\* Jobs that overlap are not alone.
Begin(j) ==
    /\ status[j] = "idle"
    /\ status' = [status EXCEPT ![j] = "running"]
    /\ LET active == {k \in Jobs : status'[k] = "running"}
       IN  calm' = [k \in Jobs |-> calm[k] /\ (k \in active => active = {k})]
    /\ UNCHANGED <<release, build, pc, file, body>>

CheckTag(j) ==
    /\ At(j, "tag")
    /\ IF tag = "other" THEN Return(j, "failed") ELSE Goto(j, "view")
    /\ UNCHANGED <<release, build, file, body, calm>>

\* Mutant: a release is expected to be missing.
NeverThere == FALSE
IsThere == exists
View(j) ==
    /\ At(j, "view")
    /\ Goto(j, IF IsThere THEN "download" ELSE "create")
    /\ UNCHANGED <<release, build, file, body, calm>>

\* What gh release create does on GitHub.
Created(j) ==
    /\ ~exists /\ exists' = TRUE
    /\ tag' = IF tag = "none" THEN "published" ELSE tag
    /\ notes' = <<build[j]>>
    /\ UNCHANGED assets

CreateRelease(j) ==
    /\ At(j, "create")
    /\ IF exists THEN Return(j, "failed") /\ UNCHANGED release
       ELSE Goto(j, "download") /\ Created(j)
    /\ UNCHANGED <<build, file, body, calm>>

NextFile(j) ==
    IF file[j] = Len(Files) THEN Goto(j, "body") /\ UNCHANGED file
    ELSE Goto(j, "download") /\ file' = [file EXCEPT ![j] = @ + 1]

\* An attached file is compared, a missing one is uploaded.
Download(j) ==
    /\ At(j, "download")
    /\ LET attached == assets[Files[file[j]]]
       IN  CASE attached = "none" -> Goto(j, "upload") /\ UNCHANGED file
             [] attached # "none" /\ SameBytes(build[j], attached) -> NextFile(j)
             [] OTHER -> Return(j, "failed") /\ UNCHANGED file
    /\ UNCHANGED <<release, build, body, calm>>

\* What gh release upload does on GitHub.
Uploaded(j) ==
    /\ assets' = [assets EXCEPT ![Files[file[j]]] = build[j]]
    /\ UNCHANGED <<tag, exists, notes>>

Upload(j) ==
    /\ At(j, "upload")
    /\ IF Uploads(Files[file[j]]) THEN NextFile(j) /\ Uploaded(j)
       ELSE Return(j, "failed") /\ UNCHANGED <<release, file>>
    /\ UNCHANGED <<build, body, calm>>

ReadBody(j) ==
    /\ At(j, "body")
    /\ body' = [body EXCEPT ![j] = notes]
    /\ IF NeedsChecksum(build[j], notes) THEN Goto(j, "edit") ELSE Return(j, "ok")
    /\ UNCHANGED <<release, build, file, calm>>

Edited(j) == notes' = Append(body[j], build[j]) /\ UNCHANGED <<tag, exists, assets>>

EditNotes(j) ==
    /\ At(j, "edit")
    /\ Edited(j)
    /\ Return(j, "ok")
    /\ UNCHANGED <<build, file, body, calm>>

\* A request fails or its answer is lost.  A failed look at the release reads
\* as "no release", a failed download as "not attached"; any other failure
\* ends the job (set -e).
RequestFails(j) ==
    /\ "request_fails" \in Faults /\ status[j] = "running"
    /\ CASE pc[j] = "view" -> Goto(j, "create")
         [] pc[j] = "download" -> Goto(j, "upload")
         [] OTHER -> Return(j, "failed")
    /\ calm' = [calm EXCEPT ![j] = FALSE]
    /\ UNCHANGED <<release, build, file, body>>

AnswerLost(j) ==
    /\ "answer_lost" \in Faults
    /\ \/ At(j, "create") /\ Created(j)
       \/ At(j, "upload") /\ Uploads(Files[file[j]]) /\ Uploaded(j)
       \/ At(j, "edit") /\ Edited(j)
    /\ Return(j, "failed")
    /\ calm' = [calm EXCEPT ![j] = FALSE]
    /\ UNCHANGED <<build, file, body>>

Cancel(j) ==
    /\ "cancelled" \in Faults /\ status[j] = "running"
    /\ Return(j, "failed")
    /\ calm' = [calm EXCEPT ![j] = FALSE]
    /\ UNCHANGED <<release, build, file, body>>

Job(j) ==
    \/ Begin(j) \/ CheckTag(j) \/ View(j) \/ CreateRelease(j) \/ Download(j)
    \/ Upload(j) \/ ReadBody(j) \/ EditNotes(j)
    \/ RequestFails(j) \/ AnswerLost(j) \/ Cancel(j)

Next == \E j \in Jobs : Job(j)
Spec == Init /\ [][Next]_vars

-----------------------------------------------------------------------------
(* Every variable keeps its type.                                          *)
TypeOK ==
    /\ tag \in {"none", "published", "other"} /\ exists \in BOOLEAN
    /\ assets \in [Names -> Builds \cup {"none"}]
    /\ notes \in Seq(Builds)
    /\ build \in [Jobs -> Builds]
    /\ pc \in [Jobs -> Steps]
    /\ file \in [Jobs -> 1..Len(Files)]
    /\ body \in [Jobs -> Seq(Builds)]
    /\ status \in [Jobs -> {"idle", "running", "ok", "failed"}]
    /\ calm \in [Jobs -> BOOLEAN]

(* Whatever is attached comes from one build, so the checksum file always  *)
(* describes the package next to it, and the release is at the commit      *)
(* crates.io packaged (the loop over the two files).                       *)
AssetsMatch ==
    \A f, g \in Names : assets[f] # "none" =>
        tag = "published" /\ assets[g] \in {"none", assets[f]}

(* A job that succeeds has left both files of its own build attached and   *)
(* the checksum in the notes exactly once, even if others worked on the    *)
(* release at the same time.                                               *)
SuccessIsComplete ==
    \A j \in Jobs : status[j] = "ok" =>
        /\ \A f \in Names : assets[f] = build[j]
        /\ Cardinality({i \in DOMAIN notes : notes[i] = build[j]}) = 1

(* "If only the release job failed, re-run that job" (README.md): whatever  *)
(* earlier jobs left undone, a job that runs alone and without faults       *)
(* fails only if the tag is at another commit or another build's bytes are  *)
(* attached.                                                               *)
RerunSucceeds ==
    \A j \in Jobs : status[j] = "failed" /\ calm[j] =>
        tag = "other" \/ \E f \in Names : assets[f] \notin {"none", build[j]}

(* Published assets are never replaced.                                    *)
AssetsNeverReplaced ==
    [][\A f \in Names : assets[f] # "none" => assets'[f] = assets[f]]_vars
=============================================================================
