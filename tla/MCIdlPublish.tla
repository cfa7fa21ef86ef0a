---------------------------- MODULE MCIdlPublish ----------------------------
(* Small instances of IdlPublish for TLC. *)
EXTENDS IdlPublish, FiniteSets, TLC

MCDocs == {"a", "b", "c"}
\* "a" fits the smallest account; "b" needs two uploads and several resizes;
\* "c" is what another tool made of the IDL in "b", and fits where "b" does not.
MCSize == [a |-> 1, b |-> 4, c |-> 1]
MCDecoded == [a |-> "small", b |-> "large", c |-> "large"]
\* What this tool makes of the two IDLs.
OwnDocs == {"a", "b"}

JobsOf(docs, requests, allows, authorities) ==
    [doc : docs, requested : requests, allow : allows, auth : authorities]

\* Every argument: too small for "b", exact, and three resizes from 2.
AllJobs == JobsOf(OwnDocs, {0, 3, 7}, BOOLEAN, {"alice"})
\* Two authorities, resizing allowed or not.
RivalJobs == JobsOf(OwnDocs, {0, 7}, BOOLEAN, {"alice"})
                \cup JobsOf({"b"}, {7}, BOOLEAN, {"bob"})
\* Runs that may resize.
ResizingJobs == JobsOf(OwnDocs, {0, 7}, {TRUE}, {"alice"})

Runs == Permutations(Publishers)
=============================================================================
