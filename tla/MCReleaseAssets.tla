--------------------------- MODULE MCReleaseAssets ---------------------------
(* A small instance of ReleaseAssets for TLC: three jobs, with the packages *)
(* of two builds.                                                          *)
EXTENDS ReleaseAssets, TLC

CONSTANTS j1, j2, j3

MCFiles == <<"tar.gz", "tar.gz.sha256">>
Executions == Permutations(Jobs)
=============================================================================
