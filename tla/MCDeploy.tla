------------------------------ MODULE MCDeploy ------------------------------
(* Small instances of Deploy for TLC. *)
EXTENDS Deploy, TLC

Job(reject, fund, idlToo, resize, late) ==
    [reject |-> reject, fund |-> fund, idl |-> idlToo, resize |-> resize, late |-> late]

\* Without an IDL there is nothing to resize.
IdlOptions == {<<FALSE, FALSE>>, <<TRUE, FALSE>>, <<TRUE, TRUE>>}
ValidJobs == {Job("none", f, i[1], i[2], "none") : f \in BOOLEAN, i \in IdlOptions}
\* Every valid combination of options, and arguments refused before and after
\* the authority is funded; which of them it is makes no difference.
AllJobs ==
    ValidJobs \cup {Job("none", TRUE, TRUE, TRUE, "same_key"),
                   Job("bad_idl", TRUE, TRUE, TRUE, "none")}
\* Runs that fund the authority first; what --allow-idl-resize allows can happen
\* without it.
FundedJobs == {j \in ValidJobs : j.fund /\ ~j.resize}

Executions == Permutations(Runs)
=============================================================================
