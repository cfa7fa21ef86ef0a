--------------------------- MODULE MCProjectInit ---------------------------
(* A small instance of ProjectInit for TLC: three runs and a template of   *)
(* one directory with two files beside a file of its own, the shape of     *)
(* templates/simple_program.  Directories are called anything of up to     *)
(* five characters.                                                        *)
EXTENDS ProjectInit, ProjectNames, TLC

CONSTANTS m1, m2, m3

MCSubDirs == <<"src">>
MCFiles == [src |-> <<"error.rs", "lib.rs">>, root |-> <<"Cargo.toml">>]

MCCapitals == [F |-> "f"]
MCFallback == <<<<"a", "r", "c", "h">>, <<"p", "r", "o", "g", "r", "a", "m">>>>
MCPrefix == <<"a", "r", "c", "h", "_">>
MCKeywords == {<<"i", "f">>, <<"f", "n">>}
MCDestinations == BoundedSeq({"f", "i", "F", "1", "-", " "}, 5) \ {<<>>}

\* The names come first; what runs do to the tree does not depend on them.
CommandInit == Init /\ NamesInit
Naming == FromPath /\ UNCHANGED vars
Rendering ==
    /\ destination # <<>> => names # Unnamed
    /\ Next
    /\ Named
CommandNext == Naming \/ Rendering
CommandSpec == CommandInit /\ [][CommandNext]_<<vars, destination, names>>

Executions == Permutations(Makers)
=============================================================================
