---------------------------- MODULE ReleaseProofs ----------------------------
(***************************************************************************)
(* Proofs about ReleaseAssets, for any number of jobs, builds and files and *)
(* any faults: what is attached matches and stays, a job that succeeds has *)
(* completed the release, and a job that runs alone completes what earlier *)
(* ones left undone.                                                       *)
(***************************************************************************)
EXTENDS ReleaseAssets, FiniteSetTheorems, TLAPS

-----------------------------------------------------------------------------
(* The inductive invariant.                                                *)

Complete(j) == \A f \in Names : assets[f] = build[j]
Distinct(text) == \A i, k \in DOMAIN text : text[i] = text[k] => i = k

\* The first file decides which build the release belongs to.
AttachedInv ==
    /\ exists => tag # "none"
    /\ \A f \in Names : assets[f] # "none" =>
           assets[Files[1]] = assets[f] /\ exists /\ tag = "published"

RunningInv(j) ==
    /\ pc[j] # "tag" => tag # "other"
    /\ pc[j] \in {"download", "upload", "body", "edit"} => exists
    /\ pc[j] \in {"body", "edit"} => Complete(j)
    /\ pc[j] = "edit" => NeedsChecksum(build[j], body[j]) /\ Distinct(body[j])

JobInv(j) ==
    /\ \A i \in 1..file[j] - 1 : assets[Files[i]] = build[j]
    /\ status[j] = "idle" => pc[j] = "tag"
    /\ status[j] = "running" => RunningInv(j)
    /\ status[j] = "ok" => Complete(j) /\ \E i \in DOMAIN notes : notes[i] = build[j]

\* What a job that runs alone has seen is still so.
AloneInv(j) ==
    calm[j] =>
        /\ status[j] = "running" =>
               /\ \A k \in Jobs : status[k] = "running" => k = j
               /\ pc[j] = "create" => ~exists
               /\ pc[j] = "upload" => assets[Files[file[j]]] = "none"
        /\ status[j] = "failed" =>
               tag = "other" \/ \E f \in Names : assets[f] \notin {"none", build[j]}

ReleaseInv ==
    /\ TypeOK
    /\ AttachedInv
    /\ Distinct(notes)
    /\ \A j \in Jobs : JobInv(j)
    /\ \A j \in Jobs : AloneInv(j)

-----------------------------------------------------------------------------
LEMMA FilesFacts ==
    /\ Len(Files) \in Nat \ {0}
    /\ Files[1] \in Names
    /\ \A i \in 1..Len(Files) : Files[i] \in Names
    /\ \A f \in Names : \E i \in 1..Len(Files) : Files[i] = f
BY ReleaseAssumption DEF Names

LEMMA TypeInit == Init => TypeOK
<1> SUFFICES ASSUME Init PROVE TypeOK
  OBVIOUS
<1>1. notes \in Seq(Builds) /\ \A j \in Jobs : body[j] \in Seq(Builds)
  BY DEF Init
<1>2. body \in [Jobs -> Seq(Builds)]
  BY <1>1 DEF Init
<1>3. assets \in [Names -> Builds \cup {"none"}]
  BY DEF Init
<1>4. file \in [Jobs -> 1..Len(Files)]
  BY FilesFacts DEF Init
<1>5. QED
  BY <1>1, <1>2, <1>3, <1>4 DEF Init, TypeOK, Steps

LEMMA TypeStep ==
    ASSUME TypeOK, Next
    PROVE  TypeOK'
<1>1. PICK j \in Jobs : Job(j)
  BY DEF Next
<1>2. build[j] \in Builds /\ file[j] \in 1..Len(Files) /\ body[j] \in Seq(Builds)
  BY DEF TypeOK
<1>3. Files[file[j]] \in Names
  BY <1>2, FilesFacts
<1> USE DEF TypeOK, Steps
<1>4. CASE Begin(j)
  BY <1>4 DEF Begin, release
<1>5. CASE CheckTag(j)
  BY <1>5 DEF CheckTag, At, Goto, Return, release
<1>6. CASE View(j)
  BY <1>6 DEF View, At, Goto, release
<1>7. ASSUME Created(j)
      PROVE  tag' \in {"none", "published", "other"} /\ exists' \in BOOLEAN
             /\ assets' = assets /\ notes' \in Seq(Builds)
  BY <1>2, <1>7 DEF Created
<1>8. CASE CreateRelease(j)
  <2>1. CASE exists
    BY <1>8, <2>1 DEF CreateRelease, At, Return, release
  <2>2. CASE ~exists
    BY <1>7, <1>8, <2>2 DEF CreateRelease, At, Goto
  <2>3. QED
    BY <2>1, <2>2
<1>9. ASSUME NextFile(j)
      PROVE  file' \in [Jobs -> 1..Len(Files)] /\ pc' \in [Jobs -> Steps] /\ status' = status
  <2>1. CASE file[j] = Len(Files)
    BY <1>9, <2>1 DEF NextFile, Goto
  <2>2. CASE file[j] # Len(Files)
    <3>1. file[j] + 1 \in 1..Len(Files)
      BY <1>2, <2>2, FilesFacts
    <3>2. QED
      BY <1>9, <2>2, <3>1 DEF NextFile, Goto
  <2>3. QED
    BY <2>1, <2>2
<1>10. ASSUME Uploaded(j)
       PROVE  assets' \in [Names -> Builds \cup {"none"}] /\ UNCHANGED <<tag, exists, notes>>
  BY <1>2, <1>3, <1>10 DEF Uploaded
<1>11. CASE Download(j)
  <2>1. CASE assets[Files[file[j]]] = "none"
    BY <1>11, <2>1 DEF Download, Goto, release
  <2>2. CASE assets[Files[file[j]]] # "none" /\ SameBytes(build[j], assets[Files[file[j]]])
    BY <1>9, <1>11, <2>2 DEF Download, release
  <2>3. CASE assets[Files[file[j]]] # "none" /\ ~SameBytes(build[j], assets[Files[file[j]]])
    BY <1>11, <2>3 DEF Download, Return, release
  <2>4. QED
    BY <2>1, <2>2, <2>3
<1>12. CASE Upload(j)
  <2>1. CASE Uploads(Files[file[j]])
    BY <1>9, <1>10, <1>12, <2>1 DEF Upload
  <2>2. CASE ~Uploads(Files[file[j]])
    BY <1>12, <2>2 DEF Upload, Return, release
  <2>3. QED
    BY <2>1, <2>2
<1>13. CASE ReadBody(j)
  BY <1>13 DEF ReadBody, At, Goto, Return, release
<1>14. ASSUME Edited(j)
       PROVE  notes' \in Seq(Builds) /\ UNCHANGED <<tag, exists, assets>>
  BY <1>2, <1>14 DEF Edited
<1>15. CASE EditNotes(j)
  BY <1>14, <1>15 DEF EditNotes, Return
<1>16. CASE RequestFails(j)
  BY <1>16 DEF RequestFails, Goto, Return, release
<1>17. CASE AnswerLost(j)
  <2>1. CASE Created(j)
    BY <1>7, <1>17, <2>1 DEF AnswerLost, Return
  <2>2. CASE Uploaded(j)
    BY <1>10, <1>17, <2>2 DEF AnswerLost, Return
  <2>3. CASE Edited(j)
    BY <1>14, <1>17, <2>3 DEF AnswerLost, Return
  <2>4. QED
    BY <1>17, <2>1, <2>2, <2>3 DEF AnswerLost
<1>18. CASE Cancel(j)
  BY <1>18 DEF Cancel, Return, release
<1>19. QED
  BY <1>1, <1>4, <1>5, <1>6, <1>8, <1>11, <1>12, <1>13, <1>15, <1>16, <1>17, <1>18 DEF Job

(* Every variable keeps its type.                                          *)
THEOREM TypeCorrect == Spec => []TypeOK
<1>1. TypeOK /\ UNCHANGED vars => TypeOK'
  BY DEF TypeOK, vars, release
<1>2. QED
  BY <1>1, TypeInit, TypeStep, PTL DEF Spec

-----------------------------------------------------------------------------
(* A step of one job and the others.                                       *)

\* The others stand where they stood, and whoever runs beside j is not alone.
Frame(j) ==
    \A k \in Jobs : k # j =>
        /\ pc'[k] = pc[k] /\ file'[k] = file[k] /\ body'[k] = body[k] /\ status'[k] = status[k]
        /\ calm'[k] => calm[k] /\ status[k] # "running"

\* What is on GitHub only grows.
Grows ==
    /\ build' = build
    /\ exists => exists'
    /\ tag = "other" <=> tag' = "other"
    /\ \A f \in Names : assets[f] # "none" => assets'[f] = assets[f]

\* The notes keep the checksum of every job that has succeeded.
NotesKept ==
    \A k \in Jobs : status[k] = "ok" => \E i \in DOMAIN notes' : notes'[i] = build[k]

Progress(j) ==
    /\ Frame(j) /\ Grows /\ NotesKept
    /\ AttachedInv' /\ Distinct(notes)'
    /\ JobInv(j)' /\ AloneInv(j)'

LEMMA TypeFacts ==
    ASSUME TypeOK, NEW j \in Jobs
    PROVE  /\ build[j] \in Builds /\ build[j] # "none"
           /\ file[j] \in 1..Len(Files) /\ Files[file[j]] \in Names
           /\ body[j] \in Seq(Builds)
BY FilesFacts, ReleaseAssumption DEF TypeOK

\* The other jobs are no worse off.
LEMMA Bystander ==
    ASSUME ReleaseInv, NEW j \in Jobs, NEW k \in Jobs, k # j,
           Frame(j), Grows, NotesKept
    PROVE  JobInv(k)' /\ AloneInv(k)'
<1>1. pc'[k] = pc[k] /\ file'[k] = file[k] /\ body'[k] = body[k] /\ status'[k] = status[k]
      /\ build'[k] = build[k]
  BY DEF Frame, Grows
<1>2. build[k] # "none" /\ file[k] \in 1..Len(Files) /\ JobInv(k) /\ AloneInv(k)
  BY TypeFacts DEF ReleaseInv
<1>3. \A i \in 1..file'[k] - 1 : assets'[Files[i]] = build'[k]
  <2> SUFFICES ASSUME NEW i \in 1..file[k] - 1
               PROVE  assets'[Files[i]] = build[k]
    BY <1>1
  <2>1. Files[i] \in Names
    BY <1>2, FilesFacts
  <2>2. assets[Files[i]] = build[k]
    BY <1>2 DEF JobInv
  <2>3. QED
    BY <1>2, <2>1, <2>2 DEF Grows
<1>4. Complete(k) => Complete(k)'
  BY <1>1, <1>2 DEF Complete, Grows
<1>5. status[k] = "running" => RunningInv(k)'
  BY <1>1, <1>2, <1>4 DEF JobInv, RunningInv, Grows, NeedsChecksum, Distinct
<1>6. JobInv(k)'
  BY <1>1, <1>2, <1>3, <1>4, <1>5 DEF JobInv, NotesKept
<1>7. AloneInv(k)'
  <2> SUFFICES ASSUME calm'[k]
               PROVE  AloneInv(k)'
    BY DEF AloneInv
  <2>1. calm[k] /\ status'[k] # "running"
    BY <1>1 DEF Frame
  <2>2. status[k] = "failed" =>
            tag = "other" \/ \E f \in Names : assets[f] \notin {"none", build[k]}
    BY <1>2, <2>1 DEF AloneInv
  <2>3. status[k] = "failed" =>
            tag' = "other" \/ \E f \in Names : assets'[f] \notin {"none", build[k]}
    BY <2>2 DEF Grows
  <2>4. QED
    BY <1>1, <2>1, <2>3 DEF AloneInv
<1>8. QED
  BY <1>6, <1>7

LEMMA ProgressSuffices ==
    ASSUME ReleaseInv, TypeOK', NEW j \in Jobs, Progress(j)
    PROVE  ReleaseInv'
<1>1. \A k \in Jobs : JobInv(k)' /\ AloneInv(k)'
  <2> TAKE k \in Jobs
  <2>1. CASE k = j
    BY <2>1 DEF Progress
  <2>2. CASE k # j
    BY <2>2, Bystander DEF Progress
  <2>3. QED
    BY <2>1, <2>2
<1>2. QED
  BY <1>1 DEF ReleaseInv, Progress

\* Steps that leave GitHub alone.
LEMMA Quiet ==
    ASSUME ReleaseInv, UNCHANGED <<release, build>>
    PROVE  Grows /\ NotesKept /\ AttachedInv' /\ Distinct(notes)'
BY DEF ReleaseInv, JobInv, release, Grows, NotesKept, AttachedInv, Distinct

\* A step of a job that is running moves only that job.
LEMMA OwnStep ==
    ASSUME ReleaseInv, NEW j \in Jobs, status[j] = "running",
           \E step \in Steps, how \in {"ok", "failed"} : Goto(j, step) \/ Return(j, how),
           file' = file \/ file' = [file EXCEPT ![j] = @ + 1],
           body' = body \/ body' = [body EXCEPT ![j] = notes],
           calm' = calm \/ calm' = [calm EXCEPT ![j] = FALSE]
    PROVE  Frame(j)
<1> SUFFICES ASSUME NEW k \in Jobs, k # j
             PROVE  /\ pc'[k] = pc[k] /\ file'[k] = file[k] /\ body'[k] = body[k]
                    /\ status'[k] = status[k]
                    /\ calm'[k] => calm[k] /\ status[k] # "running"
  BY DEF Frame
<1>1. pc'[k] = pc[k] /\ file'[k] = file[k] /\ body'[k] = body[k] /\ status'[k] = status[k]
  BY DEF ReleaseInv, TypeOK, Goto, Return
<1>2. calm'[k] => calm[k]
  BY DEF ReleaseInv, TypeOK
<1>3. calm[k] => status[k] # "running"
  BY DEF ReleaseInv, AloneInv
<1>4. QED
  BY <1>1, <1>2, <1>3

-----------------------------------------------------------------------------
(* Each step of a job.                                                     *)

LEMMA BeginStep ==
    ASSUME ReleaseInv, NEW j \in Jobs, Begin(j)
    PROVE  Progress(j)
<1> DEFINE active == {k \in Jobs : status'[k] = "running"}
<1>1. Grows /\ NotesKept /\ AttachedInv' /\ Distinct(notes)'
  BY Quiet DEF Begin
<1>2. /\ status'[j] = "running" /\ pc[j] = "tag"
      /\ \A k \in Jobs : k # j => status'[k] = status[k]
  BY DEF Begin, ReleaseInv, TypeOK, JobInv
<1>3. \A k \in Jobs : calm'[k] = (calm[k] /\ (k \in active => active = {k}))
  BY DEF Begin
<1>4. Frame(j)
  <2> SUFFICES ASSUME NEW k \in Jobs, k # j
               PROVE  calm'[k] => calm[k] /\ status[k] # "running"
    BY <1>2 DEF Frame, Begin
  <2>1. j \in active
    BY <1>2
  <2>2. QED
    BY <1>2, <1>3, <2>1
<1>5. JobInv(j)'
  BY <1>2 DEF Begin, ReleaseInv, JobInv, RunningInv, Complete, release
<1>6. AloneInv(j)'
  <2>1. pc'[j] = "tag"
    BY <1>2 DEF Begin
  <2>2. calm'[j] => \A k \in Jobs : status'[k] = "running" => k = j
    BY <1>2, <1>3
  <2>3. QED
    BY <1>2, <2>1, <2>2 DEF AloneInv
<1>7. QED
  BY <1>1, <1>4, <1>5, <1>6 DEF Progress

LEMMA CheckTagStep ==
    ASSUME ReleaseInv, NEW j \in Jobs, CheckTag(j)
    PROVE  Progress(j)
<1>1. Grows /\ NotesKept /\ AttachedInv' /\ Distinct(notes)'
  BY Quiet DEF CheckTag
<1>2. Frame(j)
  BY OwnStep DEF CheckTag, At, Steps
<1>3. JobInv(j)' /\ AloneInv(j)'
  <2> USE DEF CheckTag, At, Goto, Return, release, ReleaseInv, TypeOK
  <2>1. CASE tag = "other"
    BY <2>1 DEF JobInv, AloneInv
  <2>2. CASE tag # "other"
    BY <2>2 DEF JobInv, RunningInv, AloneInv
  <2>3. QED
    BY <2>1, <2>2
<1>4. QED
  BY <1>1, <1>2, <1>3 DEF Progress

LEMMA ViewStep ==
    ASSUME ReleaseInv, NEW j \in Jobs, View(j)
    PROVE  Progress(j)
<1>1. Grows /\ NotesKept /\ AttachedInv' /\ Distinct(notes)'
  BY Quiet DEF View
<1>2. Frame(j)
  BY OwnStep DEF View, At, Steps
<1>3. JobInv(j)' /\ AloneInv(j)'
  BY DEF View, IsThere, At, Goto, release, ReleaseInv, TypeOK, JobInv, RunningInv, AloneInv
<1>4. QED
  BY <1>1, <1>2, <1>3 DEF Progress

\* A job that ends with an error while others or faults disturb it.
LEMMA FailedStep ==
    ASSUME ReleaseInv, NEW j \in Jobs, TypeOK', Grows,
           status'[j] = "failed", file'[j] = file[j],
           ~calm'[j] \/ tag = "other" \/ \E f \in Names : assets[f] \notin {"none", build[j]}
    PROVE  JobInv(j)' /\ AloneInv(j)'
<1>1. build'[j] = build[j] /\ build[j] # "none" /\ file[j] \in 1..Len(Files) /\ JobInv(j)
  BY TypeFacts DEF Grows, ReleaseInv
<1>2. \A i \in 1..file[j] - 1 : Files[i] \in Names /\ assets[Files[i]] = build[j]
  BY <1>1, FilesFacts DEF JobInv
<1>3. JobInv(j)'
  BY <1>1, <1>2 DEF JobInv, Grows
<1>4. AloneInv(j)'
  BY <1>1 DEF AloneInv, Grows
<1>5. QED
  BY <1>3, <1>4

\* A release that is created belongs to no build yet.
LEMMA CreatedFacts ==
    ASSUME ReleaseInv, TypeOK', NEW j \in Jobs, Created(j), UNCHANGED build
    PROVE  Grows /\ NotesKept /\ AttachedInv' /\ Distinct(notes)' /\ exists'
<1>1. \A f \in Names : assets[f] = "none"
  BY DEF Created, ReleaseInv, AttachedInv
<1>2. \A k \in Jobs : status[k] # "ok"
  <2> SUFFICES ASSUME NEW k \in Jobs, status[k] = "ok"
               PROVE  FALSE
    OBVIOUS
  <2>1. assets[Files[1]] = build[k]
    BY FilesFacts DEF ReleaseInv, JobInv, Complete
  <2>2. QED
    BY <1>1, <2>1, FilesFacts, TypeFacts DEF ReleaseInv
<1>3. Distinct(notes)'
  BY DEF Created, Distinct
<1>4. AttachedInv'
  BY <1>1 DEF Created, AttachedInv, ReleaseInv
<1>5. QED
  BY <1>1, <1>2, <1>3, <1>4 DEF Created, Grows, NotesKept

LEMMA CreateStep ==
    ASSUME ReleaseInv, TypeOK', NEW j \in Jobs, CreateRelease(j)
    PROVE  Progress(j)
<1>1. Frame(j)
  BY OwnStep DEF CreateRelease, At, Steps
<1>2. CASE exists
  <2>1. Grows /\ NotesKept /\ AttachedInv' /\ Distinct(notes)'
    BY <1>2, Quiet DEF CreateRelease
  <2>2. ~calm'[j]
    BY <1>2 DEF CreateRelease, At, ReleaseInv, AloneInv
  <2>3. status'[j] = "failed" /\ file'[j] = file[j]
    BY <1>2 DEF CreateRelease, Return, ReleaseInv, TypeOK
  <2>4. QED
    BY <1>1, <2>1, <2>2, <2>3, FailedStep DEF Progress
<1>3. CASE ~exists
  <2>1. Grows /\ NotesKept /\ AttachedInv' /\ Distinct(notes)' /\ exists'
    BY <1>3, CreatedFacts DEF CreateRelease
  <2>2. JobInv(j)'
    BY <1>3, <2>1 DEF CreateRelease, Created, At, Goto, ReleaseInv, TypeOK, JobInv, RunningInv
  <2>3. AloneInv(j)'
    BY <1>3 DEF CreateRelease, Created, At, Goto, ReleaseInv, TypeOK, AloneInv
  <2>4. QED
    BY <1>1, <2>1, <2>2, <2>3 DEF Progress
<1>4. QED
  BY <1>2, <1>3

\* The next file, or the notes: everything up to the file at hand is attached.
LEMMA NextFileFacts ==
    ASSUME ReleaseInv, NEW j \in Jobs, status[j] = "running", NextFile(j),
           UNCHANGED <<build, calm>>, exists', tag' # "other",
           \A i \in 1..file[j] : assets'[Files[i]] = build[j]
    PROVE  JobInv(j)' /\ (AloneInv(j) => AloneInv(j)')
<1>1. file[j] \in 1..Len(Files) /\ Len(Files) \in Nat
  BY TypeFacts, FilesFacts DEF ReleaseInv
<1>2. status' = status
  BY DEF NextFile, Goto
<1>3. CASE file[j] = Len(Files)
  <2>1. pc'[j] = "body" /\ file'[j] = file[j]
    BY <1>3 DEF NextFile, Goto, ReleaseInv, TypeOK
  <2>2. Complete(j)'
    <3> SUFFICES ASSUME NEW f \in Names PROVE assets'[f] = build[j]
      BY DEF Complete
    <3>1. PICK i \in 1..Len(Files) : Files[i] = f
      BY FilesFacts
    <3>2. QED
      BY <1>1, <1>3, <3>1
  <2>3. \A i \in 1..file'[j] - 1 : assets'[Files[i]] = build'[j]
    BY <1>1, <2>1
  <2>4. QED
    BY <1>2, <2>1, <2>2, <2>3 DEF JobInv, RunningInv, AloneInv
<1>4. CASE file[j] # Len(Files)
  <2>1. pc'[j] = "download" /\ file'[j] = file[j] + 1
    BY <1>4 DEF NextFile, Goto, ReleaseInv, TypeOK
  <2>2. \A i \in 1..file'[j] - 1 : assets'[Files[i]] = build'[j]
    BY <1>1, <2>1
  <2>3. QED
    BY <1>2, <2>1, <2>2 DEF JobInv, RunningInv, AloneInv
<1>5. QED
  BY <1>3, <1>4

LEMMA NextFileFrame ==
    ASSUME ReleaseInv, NEW j \in Jobs, status[j] = "running", NextFile(j),
           UNCHANGED <<body, calm>>
    PROVE  Frame(j)
BY OwnStep DEF NextFile, Goto, Steps

LEMMA DownloadStep ==
    ASSUME ReleaseInv, TypeOK', NEW j \in Jobs, Download(j)
    PROVE  Progress(j)
<1> DEFINE attached == assets[Files[file[j]]]
<1>1. Grows /\ NotesKept /\ AttachedInv' /\ Distinct(notes)'
  BY Quiet DEF Download
<1>2. status[j] = "running" /\ pc[j] = "download" /\ JobInv(j) /\ AloneInv(j)
      /\ exists /\ tag # "other"
  BY DEF Download, At, ReleaseInv, JobInv, RunningInv
<1>3. /\ build[j] # "none" /\ file[j] \in 1..Len(Files) /\ Files[file[j]] \in Names
      /\ \A i \in 1..file[j] - 1 : assets[Files[i]] = build[j]
  BY <1>2, TypeFacts DEF ReleaseInv, JobInv
<1>4. CASE attached = "none"
  <2>1. pc'[j] = "upload" /\ UNCHANGED <<release, build, file, body, calm, status>>
        /\ Goto(j, "upload")
    BY <1>4 DEF Download, Goto, ReleaseInv, TypeOK
  <2>2. Frame(j)
    BY <1>2, <2>1, OwnStep DEF Steps
  <2>3. JobInv(j)' /\ AloneInv(j)'
    <3>1. \A k \in Jobs : calm[j] /\ status[k] = "running" => k = j
      BY <1>2 DEF AloneInv
    <3>2. QED
      BY <1>2, <1>3, <1>4, <2>1, <3>1 DEF JobInv, RunningInv, AloneInv, release
  <2>4. QED
    BY <1>1, <2>2, <2>3 DEF Progress
<1>5. CASE attached # "none" /\ SameBytes(build[j], attached)
  <2>1. NextFile(j) /\ UNCHANGED <<release, build, body, calm>>
    BY <1>5 DEF Download
  <2>2. \A i \in 1..file[j] : assets'[Files[i]] = build[j]
    <3>1. attached = build[j]
      BY <1>5 DEF SameBytes
    <3>2. QED
      BY <1>3, <2>1, <3>1 DEF release
  <2>3. JobInv(j)' /\ AloneInv(j)'
    BY <1>2, <2>1, <2>2, NextFileFacts DEF release
  <2>4. QED
    BY <1>1, <1>2, <2>1, <2>3, NextFileFrame DEF Progress
<1>6. CASE attached # "none" /\ ~SameBytes(build[j], attached)
  <2>1. Return(j, "failed") /\ UNCHANGED <<file, body, calm>>
    BY <1>6 DEF Download
  <2>2. Frame(j)
    BY <1>2, <2>1, OwnStep DEF Steps
  <2>3. attached \notin {"none", build[j]}
    BY <1>6 DEF SameBytes
  <2>4. status'[j] = "failed" /\ file'[j] = file[j]
    BY <2>1 DEF Return, ReleaseInv, TypeOK
  <2>5. QED
    BY <1>1, <1>3, <2>2, <2>3, <2>4, FailedStep DEF Progress
<1>7. QED
  BY <1>4, <1>5, <1>6

\* An upload puts the build of the release in the place of a missing file.
LEMMA UploadedFacts ==
    ASSUME ReleaseInv, NEW j \in Jobs, At(j, "upload"),
           Uploads(Files[file[j]]), Uploaded(j), UNCHANGED build
    PROVE  /\ Grows /\ NotesKept /\ AttachedInv' /\ Distinct(notes)'
           /\ exists' /\ tag' # "other"
           /\ \A i \in 1..file[j] : assets'[Files[i]] = build[j]
<1> DEFINE here == Files[file[j]]
<1>1. /\ build[j] # "none" /\ file[j] \in 1..Len(Files) /\ here \in Names
      /\ Files[1] \in Names /\ Len(Files) \in Nat /\ JobInv(j) /\ RunningInv(j)
  BY TypeFacts, FilesFacts DEF ReleaseInv, JobInv, At
<1>2. assets[here] = "none" /\ exists /\ tag = "published"
  BY <1>1 DEF Uploads, RunningInv, At, ReleaseInv, AttachedInv, TypeOK
<1>3. assets'[here] = build[j] /\ \A f \in Names : f # here => assets'[f] = assets[f]
  BY <1>1 DEF Uploaded, ReleaseInv, TypeOK
<1>4. UNCHANGED <<tag, exists, notes>>
  BY DEF Uploaded
<1>5. \A i \in 1..file[j] : assets'[Files[i]] = build[j]
  <2> SUFFICES ASSUME NEW i \in 1..file[j], i # file[j]
               PROVE  assets'[Files[i]] = build[j]
    BY <1>3
  <2>1. i \in 1..file[j] - 1 /\ Files[i] \in Names
    BY <1>1, FilesFacts
  <2>2. assets[Files[i]] = build[j]
    BY <1>1, <2>1 DEF JobInv
  <2>3. QED
    BY <1>1, <1>2, <1>3, <2>1, <2>2
<1>6. assets'[Files[1]] = build[j]
  BY <1>1, <1>5
<1>7. AttachedInv'
  <2> SUFFICES ASSUME NEW f \in Names, assets'[f] # "none"
               PROVE  assets'[Files[1]] = assets'[f]
    BY <1>2, <1>4 DEF AttachedInv
  <2>1. CASE f = here
    BY <1>3, <1>6, <2>1
  <2>2. CASE f # here
    <3>1. assets[Files[1]] = assets[f] /\ assets[f] # "none"
      BY <1>3, <2>2 DEF ReleaseInv, AttachedInv
    <3>2. Files[1] # here
      BY <1>2, <3>1
    <3>3. QED
      BY <1>1, <1>3, <2>2, <3>1, <3>2
  <2>3. QED
    BY <2>1, <2>2
<1>8. Grows
  BY <1>2, <1>3, <1>4 DEF Grows
<1>9. NotesKept /\ Distinct(notes)'
  BY <1>4 DEF ReleaseInv, JobInv, NotesKept, Distinct
<1>10. QED
  BY <1>2, <1>4, <1>5, <1>7, <1>8, <1>9

LEMMA UploadStep ==
    ASSUME ReleaseInv, TypeOK', NEW j \in Jobs, Upload(j)
    PROVE  Progress(j)
<1>1. status[j] = "running" /\ AloneInv(j)
  BY DEF Upload, At, ReleaseInv
<1>2. CASE Uploads(Files[file[j]])
  <2>1. NextFile(j) /\ Uploaded(j) /\ UNCHANGED <<build, body, calm>>
    BY <1>2 DEF Upload
  <2>2. /\ Grows /\ NotesKept /\ AttachedInv' /\ Distinct(notes)'
        /\ exists' /\ tag' # "other"
        /\ \A i \in 1..file[j] : assets'[Files[i]] = build[j]
    BY <1>2, <2>1, UploadedFacts DEF Upload
  <2>3. JobInv(j)' /\ AloneInv(j)'
    BY <1>1, <2>1, <2>2, NextFileFacts
  <2>4. QED
    BY <1>1, <2>1, <2>2, <2>3, NextFileFrame DEF Progress
<1>3. CASE ~Uploads(Files[file[j]])
  <2>1. Return(j, "failed") /\ UNCHANGED <<release, build, file, body, calm>>
    BY <1>3 DEF Upload
  <2>2. Frame(j)
    BY <1>1, <2>1, OwnStep DEF Steps
  <2>3. ~calm'[j]
    BY <1>1, <1>3, <2>1 DEF Upload, At, Uploads, AloneInv
  <2>4. status'[j] = "failed" /\ file'[j] = file[j]
    BY <2>1 DEF Return, ReleaseInv, TypeOK
  <2>5. QED
    BY <2>1, <2>2, <2>3, <2>4, Quiet, FailedStep DEF Progress
<1>4. QED
  BY <1>2, <1>3

LEMMA ReadBodyStep ==
    ASSUME ReleaseInv, TypeOK', NEW j \in Jobs, ReadBody(j)
    PROVE  Progress(j)
<1>1. Grows /\ NotesKept /\ AttachedInv' /\ Distinct(notes)'
  BY Quiet DEF ReadBody
<1>2. status[j] = "running" /\ pc[j] = "body" /\ JobInv(j) /\ RunningInv(j) /\ AloneInv(j)
  BY DEF ReadBody, At, ReleaseInv, JobInv
<1>3. Complete(j)' /\ file'[j] = file[j] /\ body'[j] = notes
      /\ \A i \in 1..file'[j] - 1 : assets'[Files[i]] = build'[j]
  BY <1>2 DEF ReadBody, release, ReleaseInv, TypeOK, RunningInv, Complete, JobInv
<1>4. CASE NeedsChecksum(build[j], notes)
  <2>1. Goto(j, "edit") /\ pc'[j] = "edit" /\ status'[j] = "running"
    BY <1>2, <1>4 DEF ReadBody, Goto, ReleaseInv, TypeOK
  <2>2. Frame(j)
    BY <1>2, <2>1, OwnStep DEF ReadBody, Steps
  <2>3. RunningInv(j)'
    BY <1>2, <1>3, <1>4, <2>1 DEF ReadBody, release, RunningInv, ReleaseInv, Distinct
  <2>4. JobInv(j)' /\ AloneInv(j)'
    BY <1>2, <1>3, <2>1, <2>3 DEF ReadBody, Goto, release, JobInv, AloneInv
  <2>5. QED
    BY <1>1, <2>2, <2>4 DEF Progress
<1>5. CASE ~NeedsChecksum(build[j], notes)
  <2>1. Return(j, "ok") /\ status'[j] = "ok"
    BY <1>5 DEF ReadBody, Return, ReleaseInv, TypeOK
  <2>2. Frame(j)
    BY <1>2, <2>1, OwnStep DEF ReadBody, Steps
  <2>3. \E i \in DOMAIN notes' : notes'[i] = build'[j]
    BY <1>5 DEF ReadBody, release, NeedsChecksum
  <2>4. JobInv(j)' /\ AloneInv(j)'
    BY <1>3, <2>1, <2>3 DEF JobInv, AloneInv
  <2>5. QED
    BY <1>1, <2>2, <2>4 DEF Progress
<1>6. QED
  BY <1>4, <1>5

\* The notes a job writes back give every checksum the release needs: all that
\* have succeeded share its build.
LEMMA EditedFacts ==
    ASSUME ReleaseInv, TypeOK', NEW j \in Jobs, At(j, "edit"), Edited(j), UNCHANGED build
    PROVE  /\ Grows /\ NotesKept /\ AttachedInv' /\ Distinct(notes)'
           /\ Complete(j)' /\ \E i \in DOMAIN notes' : notes'[i] = build[j]
<1>1. /\ build[j] \in Builds /\ build[j] # "none" /\ body[j] \in Seq(Builds)
      /\ Files[1] \in Names /\ RunningInv(j)
  BY TypeFacts, FilesFacts DEF ReleaseInv, JobInv, At
<1>2. Complete(j) /\ NeedsChecksum(build[j], body[j]) /\ Distinct(body[j])
  BY <1>1 DEF RunningInv, At
<1>3. /\ notes' = Append(body[j], build[j])
      /\ Len(notes') = Len(body[j]) + 1 /\ notes'[Len(notes')] = build[j]
      /\ DOMAIN notes' = 1..Len(notes') /\ Len(notes') \in Nat
      /\ \A i \in 1..Len(body[j]) : notes'[i] = body[j][i]
  BY <1>1 DEF Edited
<1>4. UNCHANGED <<tag, exists, assets>>
  BY DEF Edited
<1>5. \E i \in DOMAIN notes' : notes'[i] = build[j]
  BY <1>1, <1>3
<1>6. Distinct(notes)'
  <2> SUFFICES ASSUME NEW i \in DOMAIN notes', NEW k \in DOMAIN notes', notes'[i] = notes'[k]
               PROVE  i = k
    BY DEF Distinct
  <2>1. DOMAIN body[j] = 1..Len(body[j]) /\ Len(body[j]) \in Nat
    BY <1>1
  <2>2. \A l \in 1..Len(body[j]) : notes'[l] # build[j]
    BY <1>2, <1>3, <2>1 DEF NeedsChecksum
  <2>3. CASE i = Len(notes') \/ k = Len(notes')
    BY <1>3, <2>1, <2>2, <2>3
  <2>4. CASE i # Len(notes') /\ k # Len(notes')
    <3>1. i \in 1..Len(body[j]) /\ k \in 1..Len(body[j])
      BY <1>3, <2>1, <2>4
    <3>2. QED
      BY <1>2, <1>3, <2>1, <3>1 DEF Distinct
  <2>5. QED
    BY <2>3, <2>4
<1>7. NotesKept
  <2> SUFFICES ASSUME NEW k \in Jobs, status[k] = "ok"
               PROVE  \E i \in DOMAIN notes' : notes'[i] = build[k]
    BY DEF NotesKept
  <2>1. assets[Files[1]] = build[k]
    BY <1>1 DEF ReleaseInv, JobInv, Complete
  <2>2. QED
    BY <1>1, <1>2, <1>5, <2>1 DEF Complete
<1>8. Grows /\ AttachedInv' /\ Complete(j)'
  BY <1>2, <1>4 DEF Grows, ReleaseInv, AttachedInv, Complete
<1>9. QED
  BY <1>5, <1>6, <1>7, <1>8

LEMMA EditStep ==
    ASSUME ReleaseInv, TypeOK', NEW j \in Jobs, EditNotes(j)
    PROVE  Progress(j)
<1>1. /\ Grows /\ NotesKept /\ AttachedInv' /\ Distinct(notes)'
      /\ Complete(j)' /\ \E i \in DOMAIN notes' : notes'[i] = build[j]
  BY EditedFacts DEF EditNotes
<1>2. Frame(j)
  BY OwnStep DEF EditNotes, At, Steps
<1>3. status'[j] = "ok" /\ build' = build
  BY DEF EditNotes, Return, ReleaseInv, TypeOK
<1>4. JobInv(j)'
  BY <1>1, <1>3 DEF EditNotes, Edited, ReleaseInv, JobInv
<1>5. AloneInv(j)'
  BY <1>3 DEF AloneInv
<1>6. QED
  BY <1>1, <1>2, <1>4, <1>5 DEF Progress

LEMMA RequestFailsStep ==
    ASSUME ReleaseInv, TypeOK', NEW j \in Jobs, RequestFails(j)
    PROVE  Progress(j)
<1>1. Grows /\ NotesKept /\ AttachedInv' /\ Distinct(notes)'
  BY Quiet DEF RequestFails
<1>2. Frame(j)
  BY OwnStep DEF RequestFails, Steps
<1>3. ~calm'[j] /\ file'[j] = file[j] /\ status[j] = "running" /\ RunningInv(j) /\ JobInv(j)
  BY DEF RequestFails, ReleaseInv, TypeOK, JobInv
<1>4. CASE pc[j] \in {"view", "download"}
  <2>1. status'[j] = "running" /\ pc'[j] = IF pc[j] = "view" THEN "create" ELSE "upload"
    BY <1>3, <1>4 DEF RequestFails, Goto, ReleaseInv, TypeOK
  <2>2. QED
    BY <1>1, <1>2, <1>3, <1>4, <2>1 DEF RequestFails, release, Progress, JobInv, RunningInv, AloneInv
<1>5. CASE pc[j] \notin {"view", "download"}
  <2>1. status'[j] = "failed"
    BY <1>5 DEF RequestFails, Return, ReleaseInv, TypeOK
  <2>2. QED
    BY <1>1, <1>2, <1>3, <2>1, FailedStep DEF Progress
<1>6. QED
  BY <1>4, <1>5

LEMMA AnswerLostStep ==
    ASSUME ReleaseInv, TypeOK', NEW j \in Jobs, AnswerLost(j)
    PROVE  Progress(j)
<1>1. Grows /\ NotesKept /\ AttachedInv' /\ Distinct(notes)'
  <2>1. CASE At(j, "create") /\ Created(j)
    BY <2>1, CreatedFacts DEF AnswerLost
  <2>2. CASE At(j, "upload") /\ Uploads(Files[file[j]]) /\ Uploaded(j)
    BY <2>2, UploadedFacts DEF AnswerLost
  <2>3. CASE At(j, "edit") /\ Edited(j)
    BY <2>3, EditedFacts DEF AnswerLost
  <2>4. QED
    BY <2>1, <2>2, <2>3 DEF AnswerLost
<1>2. status[j] = "running" /\ Return(j, "failed") /\ UNCHANGED <<file, body>>
      /\ calm' = [calm EXCEPT ![j] = FALSE]
  BY DEF AnswerLost, At
<1>3. Frame(j)
  BY <1>2, OwnStep DEF Steps
<1>4. ~calm'[j] /\ file'[j] = file[j] /\ status'[j] = "failed"
  BY <1>2 DEF Return, ReleaseInv, TypeOK
<1>5. QED
  BY <1>1, <1>3, <1>4, FailedStep DEF Progress

LEMMA CancelStep ==
    ASSUME ReleaseInv, TypeOK', NEW j \in Jobs, Cancel(j)
    PROVE  Progress(j)
<1>1. Grows /\ NotesKept /\ AttachedInv' /\ Distinct(notes)'
  BY Quiet DEF Cancel
<1>2. Frame(j)
  BY OwnStep DEF Cancel, Steps
<1>3. ~calm'[j] /\ file'[j] = file[j] /\ status'[j] = "failed"
  BY DEF Cancel, Return, ReleaseInv, TypeOK
<1>4. QED
  BY <1>1, <1>2, <1>3, FailedStep DEF Progress

-----------------------------------------------------------------------------
(* The invariant, and what follows from it.                                *)

LEMMA Initially == Init => ReleaseInv
<1> SUFFICES ASSUME Init PROVE ReleaseInv
  OBVIOUS
<1>1. TypeOK
  BY TypeInit
<1>2. AttachedInv /\ Distinct(notes)
  <2>1. exists => tag # "none"
    BY DEF Init
  <2>2. \A f \in Names : assets[f] = "none"
    BY DEF Init
  <2>3. Distinct(notes)
    BY DEF Init, Distinct
  <2>4. QED
    BY <2>1, <2>2, <2>3 DEF AttachedInv
<1>3. \A j \in Jobs : JobInv(j) /\ AloneInv(j)
  BY DEF Init, JobInv, AloneInv
<1>4. QED
  BY <1>1, <1>2, <1>3 DEF ReleaseInv

LEMMA Inductive ==
    ASSUME ReleaseInv, Next
    PROVE  ReleaseInv' /\ Grows
<1>1. TypeOK'
  BY TypeStep DEF ReleaseInv
<1>2. PICK j \in Jobs : Job(j)
  BY DEF Next
<1>3. Progress(j)
  BY <1>1, <1>2, BeginStep, CheckTagStep, ViewStep, CreateStep, DownloadStep, UploadStep,
     ReadBodyStep, EditStep, RequestFailsStep, AnswerLostStep, CancelStep DEF Job
<1>4. QED
  BY <1>1, <1>3, ProgressSuffices DEF Progress

LEMMA Stuttering == ReleaseInv /\ UNCHANGED vars => ReleaseInv' /\ Grows
<1> SUFFICES ASSUME ReleaseInv, UNCHANGED vars PROVE ReleaseInv' /\ Grows
  OBVIOUS
<1>1. Grows
  BY DEF vars, release, Grows
<1>2. \A j \in Jobs : JobInv(j)' /\ AloneInv(j)'
  BY DEF ReleaseInv, vars, release, JobInv, RunningInv, AloneInv, Complete, Distinct, NeedsChecksum
<1>3. TypeOK' /\ AttachedInv' /\ Distinct(notes)'
  BY DEF ReleaseInv, vars, release, TypeOK, AttachedInv, Distinct
<1>4. QED
  BY <1>1, <1>2, <1>3 DEF ReleaseInv

THEOREM Invariant == Spec => []ReleaseInv
BY Initially, Inductive, Stuttering, PTL DEF Spec

(* Whatever jobs do and wherever they fail, what is attached comes from    *)
(* one build and belongs to the published commit.                          *)
THEOREM AssetsAlwaysMatch == Spec => []AssetsMatch
<1>1. ReleaseInv => AssetsMatch
  BY FilesFacts DEF ReleaseInv, AttachedInv, AssetsMatch
<1>2. QED
  BY <1>1, Invariant, PTL

(* Every job that succeeds has completed the release, the checksum of its  *)
(* package standing in the notes exactly once.                             *)
THEOREM SuccessAlwaysComplete == Spec => []SuccessIsComplete
<1>1. ASSUME ReleaseInv
      PROVE  SuccessIsComplete
  <2> SUFFICES ASSUME NEW j \in Jobs, status[j] = "ok"
               PROVE  /\ \A f \in Names : assets[f] = build[j]
                      /\ Cardinality({i \in DOMAIN notes : notes[i] = build[j]}) = 1
    BY DEF SuccessIsComplete
  <2>1. Complete(j) /\ \E i \in DOMAIN notes : notes[i] = build[j]
    BY <1>1 DEF ReleaseInv, JobInv
  <2>2. PICK i \in DOMAIN notes : notes[i] = build[j]
    BY <2>1
  <2>3. {k \in DOMAIN notes : notes[k] = build[j]} = {i}
    BY <1>1, <2>2 DEF ReleaseInv, Distinct
  <2>4. QED
    BY <2>1, <2>3, FS_Singleton DEF Complete
<1>2. QED
  BY <1>1, Invariant, PTL

(* A job that ran alone and without faults has failed only for a reason    *)
(* no re-run can mend.                                                     *)
THEOREM RerunAlwaysSucceeds == Spec => []RerunSucceeds
<1>1. ReleaseInv => RerunSucceeds
  BY DEF ReleaseInv, AloneInv, RerunSucceeds
<1>2. QED
  BY <1>1, Invariant, PTL

(* No step of any job replaces or removes what is attached.                *)
THEOREM AssetsStay == Spec => AssetsNeverReplaced
<1>1. ReleaseInv /\ [Next]_vars =>
          [\A f \in Names : assets[f] # "none" => assets'[f] = assets[f]]_vars
  BY Inductive DEF Grows
<1>2. QED
  BY <1>1, Invariant, PTL DEF Spec, AssetsNeverReplaced
=============================================================================
