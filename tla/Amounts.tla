------------------------------- MODULE Amounts -------------------------------
(***************************************************************************)
(* Token and ARCH amounts: the text a user types, the u64 the program      *)
(* computes with and the text it prints back.  parse_amount and            *)
(* format_amount are modelled symbol by symbol, because what they do to    *)
(* the digits is their whole purpose.                                      *)
(*                                                                         *)
(* A text is a sequence of digits 0..Base-1 and of the symbols below; the  *)
(* radix and the largest amount are small, the code's are 10 and 2^64 - 1. *)
(***************************************************************************)
EXTENDS Integers, Sequences, FiniteSetsExt, SequencesExt

CONSTANTS
    Base,        \* radix of the texts
    MaxAmount,   \* the largest u64
    Scales,      \* numbers of decimals a mint may have
    Texts        \* what users type

ASSUME AmountsAssumption ==
    Base \in Nat \ {0, 1} /\ MaxAmount \in Nat /\ Scales \subseteq Nat

Digit == 0..Base - 1
Dot == Base
Space == Base + 1
Other == Base + 2    \* a sign, an exponent, a letter
Symbols == Digit \cup {Dot, Space, Other}

ASSUME TextsAssumption == Texts \subseteq Seq(Symbols)

VARIABLES
    text,       \* what was typed last
    decimals,   \* of the mint
    amount,     \* the raw amount the text was read as
    shown,      \* how the amount is printed
    at          \* "typed", "parsed", "refused" or "shown"

vars == <<text, decimals, amount, shown, at>>

Zeros(n) == [i \in 1..n |-> 0]
\* What a digit sequence is worth: str::parse, without its bound.
Value(digits) ==
    LET read[k \in 0..Len(digits)] == IF k = 0 THEN 0 ELSE read[k - 1] * Base + digits[k]
    IN  read[Len(digits)]
\* u64::to_string.
Digits(n) ==
    LET written[m \in 0..n] ==
            IF m < Base THEN <<m>> ELSE Append(written[m \div Base], m % Base)
    IN  written[n]

Trimmed(s) ==
    LET solid == {i \in DOMAIN s : s[i] # Space}
    IN  IF solid = {} THEN <<>> ELSE SubSeq(s, Min(solid), Max(solid))
Dots(s) == {i \in DOMAIN s : s[i] = Dot}
AllDigits(s) == \A i \in DOMAIN s : s[i] \in Digit

-----------------------------------------------------------------------------
(* parse_amount.  0 stands for every refusal: no amount it accepts is 0.   *)

Whole(s) == IF Dots(s) = {} THEN s ELSE SubSeq(s, 1, Min(Dots(s)) - 1)
Fraction(s) == IF Dots(s) = {} THEN <<>> ELSE SubSeq(s, Min(Dots(s)) + 1, Len(s))

Raw(s, d) == Whole(s) \o Fraction(s) \o Zeros(d - Len(Fraction(s)))

\* Mutant: the digits wrap around at the end of u64.
WrappedAmount(raw) == Value(raw) % (MaxAmount + 1)
ParsedAmount(raw) == IF Value(raw) <= MaxAmount THEN Value(raw) ELSE 0

ParseAmount(value, d) ==
    LET s == Trimmed(value)
    IN  IF \/ Cardinality(Dots(s)) > 1
           \/ Whole(s) = <<>> \/ ~AllDigits(Whole(s)) \/ ~AllDigits(Fraction(s))
           \/ Len(Fraction(s)) > d
        THEN 0 ELSE ParsedAmount(Raw(s, d))

-----------------------------------------------------------------------------
(* format_amount.                                                          *)

PoppedZeros(s) == SubSeq(s, 1, Max({i \in DOMAIN s : s[i] # 0}))
PoppedDot(s) == IF Last(s) = Dot THEN Front(s) ELSE s

SplitAt(digits, n) == SubSeq(digits, 1, n) \o <<Dot>> \o SubSeq(digits, n + 1, Len(digits))
\* Mutant: an amount of exactly as many digits as decimals has a whole part.
LateSplit(digits, d) ==
    IF Len(digits) < d THEN <<0, Dot>> \o Zeros(d - Len(digits)) \o digits
    ELSE SplitAt(digits, Len(digits) - d)
Split(digits, d) ==
    IF Len(digits) <= d THEN <<0, Dot>> \o Zeros(d - Len(digits)) \o digits
    ELSE SplitAt(digits, Len(digits) - d)

FormatAmount(n, d) ==
    IF n = 0 \/ d = 0 THEN Digits(n) ELSE PoppedDot(PoppedZeros(Split(Digits(n), d)))

-----------------------------------------------------------------------------
Init ==
    /\ decimals \in Scales
    /\ shown = <<>>
    /\ \/ text \in Texts /\ amount = 0 /\ at = "typed"
       \* A balance that was read from the chain.
       \/ text = <<>> /\ amount \in 0..MaxAmount /\ at = "parsed"

Parse ==
    /\ at = "typed"
    /\ amount' = ParseAmount(text, decimals)
    /\ at' = IF amount' = 0 THEN "refused" ELSE "parsed"
    /\ UNCHANGED <<text, decimals, shown>>

Show ==
    /\ at = "parsed"
    /\ shown' = FormatAmount(amount, decimals)
    /\ at' = "shown"
    /\ UNCHANGED <<text, decimals, amount>>

\* A printed amount is handed to the next command.
Retype ==
    /\ at = "shown"
    /\ text' = shown /\ at' = "typed"
    /\ UNCHANGED <<decimals, amount, shown>>

Next == Parse \/ Show \/ Retype
Spec == Init /\ [][Next]_vars

-----------------------------------------------------------------------------
(* What a text denotes, without following the code: the sum of its digits, *)
(* each times the power of its place, in units of Base^-d.                 *)

Point(s) == Min(Dots(s) \cup {Len(s) + 1})
Power[n \in Nat] == IF n = 0 THEN 1 ELSE Base * Power[n - 1]
Worth(s, d, i) ==
    IF i = Point(s) THEN 0
    ELSE s[i] * Power[d + Point(s) - i - (IF i < Point(s) THEN 1 ELSE 0)]
Denotes(s, d) ==
    LET sum[k \in 0..Len(s)] == IF k = 0 THEN 0 ELSE sum[k - 1] + Worth(s, d, k)
    IN  sum[Len(s)]
\* Digits, then perhaps a dot and at most d digits.
IsAmount(s, d) ==
    /\ \A i \in DOMAIN s : s[i] \in Digit \/ i = Point(s)
    /\ Point(s) > 1
    /\ Len(s) <= Point(s) + d

(* A typed amount is read as exactly the value it denotes: one that is     *)
(* malformed, zero, too precise for the mint or beyond u64 is refused, and *)
(* every other one is accepted (parse_amount).                             *)
ParsedIsDenoted ==
    LET s == Trimmed(text)
        valid == IsAmount(s, decimals) /\ Denotes(s, decimals) \in 1..MaxAmount
    IN  /\ at = "refused" => ~valid
        /\ at = "parsed" /\ text # <<>> => valid /\ amount = Denotes(s, decimals)

(* Every amount the program prints is read back as the same amount, so a   *)
(* balance can be handed to the next command, and no amount is printed     *)
(* longer than the user wrote it (format_amount).                          *)
ShownIsRead ==
    at = "shown" =>
        /\ amount # 0 => ParseAmount(shown, decimals) = amount
        /\ text # <<>> => Len(shown) <= Len(Trimmed(text))
=============================================================================
