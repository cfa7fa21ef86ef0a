----------------------------- MODULE ProjectNames -----------------------------
(***************************************************************************)
(* The names arch-kit init gives a project: the package is named after the *)
(* destination, the crate and its module after the package.                *)
(*                                                                         *)
(* A name is a sequence of characters.  Cargo and rustc are not in the     *)
(* repository; Identifier is what they ask of a crate's name.              *)
(***************************************************************************)
EXTENDS Integers, Sequences, SequencesExt

CONSTANTS
    Letters,     \* lower-case ASCII letters
    Numerals,    \* ASCII digits
    Capitals,    \* the lower-case letter of each upper-case one
    Marks,       \* other characters, "-" and "_" among them
    Fallback,    \* <<"arch", "program">>, each a sequence of letters
    Prefix,      \* "arch_"
    Keywords,    \* the words of is_rust_keyword
    Destinations \* what directories may be called

ASSUME NamesAssumption ==
    /\ {"-", "_"} \subseteq Marks
    /\ Marks \cap (Letters \cup Numerals \cup DOMAIN Capitals) = {}
    /\ Letters \cap Numerals = {} /\ DOMAIN Capitals \cap (Letters \cup Numerals) = {}
    /\ \A c \in DOMAIN Capitals : Capitals[c] \in Letters
    /\ \A i \in 1..2 : Fallback[i] \in Seq(Letters) \ {<<>>}
    /\ Prefix \in Seq(Letters \cup {"_"}) \ {<<>>} /\ Head(Prefix) \in Letters
    /\ \A word \in Keywords : ~IsPrefix(Prefix, word)
    /\ Destinations \subseteq Seq(Letters \cup Numerals \cup DOMAIN Capitals \cup Marks)

Alphanumerics == Letters \cup Numerals \cup DOMAIN Capitals
Lowered(c) == IF c \in DOMAIN Capitals THEN Capitals[c] ELSE c

-----------------------------------------------------------------------------
(* normalized_package_name: what has been written, and whether something   *)
(* else than a letter or digit has been read since.                        *)

\* Mutant: a separator may open the name.
SeparatorAnywhere(acc) == acc.gap
NeedsSeparator(acc) == acc.gap /\ acc.name # <<>>

Normalize(acc, c) ==
    IF c \in Alphanumerics
    THEN [name |-> acc.name \o (IF NeedsSeparator(acc) THEN <<"-">> ELSE <<>>) \o <<Lowered(c)>>,
          gap  |-> FALSE]
    ELSE [acc EXCEPT !.gap = TRUE]

Unread == [name |-> <<>>, gap |-> FALSE]
Normalized(text) ==
    LET read[n \in 0..Len(text)] == IF n = 0 THEN Unread ELSE Normalize(read[n - 1], text[n])
    IN  read[Len(text)].name

PackageName(text) ==
    IF Normalized(text) = <<>> THEN Fallback[1] \o <<"-">> \o Fallback[2] ELSE Normalized(text)

-----------------------------------------------------------------------------
(* ProjectNames::from_path.                                                *)

Underscored(name) == [i \in DOMAIN name |-> IF name[i] = "-" THEN "_" ELSE name[i]]
WithLetterFirst(name) == IF Head(name) \in Numerals THEN Prefix \o name ELSE name
IsRustKeyword(name) == name \in Keywords
CrateName(package) ==
    LET name == WithLetterFirst(Underscored(package))
    IN  IF IsRustKeyword(name) THEN Prefix \o name ELSE name

VARIABLES
    destination,   \* the last component of the path
    names          \* of the package, and of the crate and its module

Unnamed == [package |-> <<>>, crate |-> <<>>]
NamesInit == destination \in Destinations /\ names = Unnamed

FromPath ==
    /\ destination # <<>> /\ names = Unnamed
    /\ names' = [package |-> PackageName(destination),
                 crate   |-> CrateName(PackageName(destination))]
    /\ UNCHANGED destination

\* The command goes on; nothing below depends on the names.
Named == destination' = <<>> /\ names' = Unnamed

NamesSpec == NamesInit /\ [][FromPath \/ Named]_<<destination, names>>

-----------------------------------------------------------------------------
Identifier(name) ==
    /\ \A i \in DOMAIN name : name[i] \in Letters \cup Numerals \cup {"_"}
    /\ name[1] \notin Numerals
    /\ name \notin Keywords

\* The places in a text of what the package keeps of it; where its words
\* begin, the first one excepted.
Kept(text) == {i \in DOMAIN text : text[i] \in Alphanumerics}
LaterWords(text) ==
    {i \in Kept(text) : i - 1 \notin Kept(text) /\ \E k \in Kept(text) : k < i}

\* The place in the package of what stands at place n of the text: behind what
\* is kept up to there, and one hyphen for each later word.
UpTo(S, n) == {i \in S : i <= n}
Place(text, n) ==
    Cardinality(UpTo(Kept(text), n)) + Cardinality(UpTo(LaterWords(text), n))

SingleHyphens(name) ==
    \A i \in DOMAIN name : name[i] = "-" => i > 1 /\ i < Len(name) /\ name[i + 1] # "-"

(* Whatever the destination is called, the crate gets a name that is an    *)
(* identifier and no keyword, and the package gets one that consists of    *)
(* the letters and digits of the destination in their order, with single   *)
(* hyphens exactly between its words, and does not change when the project *)
(* moves to a directory of that name (normalized_package_name, from_path). *)
NamesAreUsable ==
    names # Unnamed =>
        LET name == names.package
        IN  /\ Identifier(names.crate)
            /\ Kept(destination) # {} =>
                   /\ Len(name) = Place(destination, Len(destination))
                   /\ \A i \in Kept(destination) :
                          name[Place(destination, i)] = Lowered(destination[i])
                   /\ \A i \in LaterWords(destination) : name[Place(destination, i) - 1] = "-"
            /\ SingleHyphens(name)
            /\ PackageName(name) = name
=============================================================================
