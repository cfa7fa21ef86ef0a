--------------------------- MODULE MCVanitySearch ---------------------------
(* A small instance of VanitySearch for TLC: a worker that wins, one that   *)
(* matches too late and one that is still drawing.                         *)
EXTENDS VanitySearch

CONSTANTS w1, w2, w3

ThreeWorkers == {w1, w2, w3}
=============================================================================
