----------------------------- MODULE MCKeyFiles -----------------------------
(* Small instances of KeyFiles for TLC. *)
EXTENDS KeyFiles, TLC

CONSTANTS x, y

\* keygen of one, two or twice the same destination.
KeygenJobs ==
    [cmd : {"keygen"}, paths : {<<x>>, <<x, y>>, <<y, x>>, <<x, x>>}, generate : {FALSE}]
\* deploy loads the program key and the authority key.
LoadJobs == [cmd : {"load"}, paths : {<<x, y>>, <<x, x>>, <<y>>}, generate : BOOLEAN]
AllJobs == KeygenJobs \cup LoadJobs

Executions == Permutations(Processes)
=============================================================================
