-------------------------------- MODULE Itoa --------------------------------
(***************************************************************************)
(* itoa (libc/stdlib/itoa.c): the digits by repeated division, a sign, and    *)
(* reverse, which swaps the characters from both ends.                      *)
(*                                                                         *)
(* A character is the number it stands for: '0' + d is d, 'a' + d is 10 + d.  *)
(***************************************************************************)
EXTENDS Integers, Sequences

CONSTANTS
    MAX_VALUE,      \* INT64_MAX
    Numbers         \* [value, base]: the calls

ASSUME NumbersAssumption ==
    /\ MAX_VALUE \in Nat
    /\ \A n \in Numbers : n.value \in -MAX_VALUE - 1 .. MAX_VALUE /\ n.base \in 2 .. 36

MINUS == 100        \* '-'

VARIABLES
    number,         \* The call
    value,
    negative,       \* isNegative
    str,
    start, end,     \* of reverse
    phase           \* "divide", "reverse", "returned"

itoaVars == <<number, value, negative, str, start, end, phase>>

\* C's division truncates towards zero.
Rem(n, base) == IF n < 0 THEN -((-n) % base) ELSE n % base
Div(n, base) == IF n < 0 THEN -((-n) \div base) ELSE n \div base

\* Only base 10 has a sign.  The smallest number's negation is undefined: it
\* wraps around to itself.
ItoaInit ==
    /\ number \in Numbers
    /\ negative = (number.value < 0 /\ number.base = 10)
    /\ value = IF negative /\ number.value # -MAX_VALUE - 1 THEN -number.value ELSE number.value
    /\ str = IF number.value = 0 THEN <<0>> ELSE << >>
    /\ start = 0 /\ end = 0
    /\ phase = "divide"

\* (rem > 9) ? (rem - 10) + 'a' : rem + '0'
Divide ==
    /\ phase = "divide" /\ value # 0
    /\ str' = Append(str, Rem(value, number.base))
    /\ value' = Div(value, number.base)
    /\ UNCHANGED <<number, negative, start, end, phase>>

\* Mutant: the last character stays where it is.
LastKept(length) == length - 2
LastOf(length) == length - 1

\* The sign, the zero and the call of reverse.
SignAndReverse ==
    /\ phase = "divide" /\ value = 0
    /\ str' = IF negative THEN Append(str, MINUS) ELSE str
    /\ start' = 0 /\ end' = LastOf(Len(str'))
    /\ phase' = "reverse"
    /\ UNCHANGED <<number, value, negative>>

Swap ==
    /\ phase = "reverse" /\ start < end
    /\ str' = [str EXCEPT ![start + 1] = str[end + 1], ![end + 1] = str[start + 1]]
    /\ start' = start + 1 /\ end' = end - 1
    /\ UNCHANGED <<number, value, negative, phase>>

Return ==
    /\ phase = "reverse" /\ start >= end
    /\ phase' = "returned"
    /\ UNCHANGED <<number, value, negative, str, start, end>>

ItoaNext == Divide \/ SignAndReverse \/ Swap \/ Return

ItoaSpec == ItoaInit /\ [][ItoaNext]_itoaVars

-----------------------------------------------------------------------------
(***************************************************************************)
(* Properties.                                                             *)
(***************************************************************************)
ItoaMagnitude == IF number.value < 0 THEN -number.value ELSE number.value
ReadDigits(digits, base) ==
    LET read[k \in 0 .. Len(digits)] ==
            IF k = 0 THEN 0 ELSE base * read[k - 1] + digits[k]
    IN  read[Len(digits)]

\* The text reads as the number it was made from, in its base, without zeros
\* in front: for every number that is not negative, and in base 10 for every
\* negative one but the smallest (itoa's division and reverse).  Other negative
\* numbers do not become unsigned, as the comment has it, but garbage.
ItoaReadsBack ==
    /\ phase = "returned"
    /\ number.value >= 0 \/ (number.base = 10 /\ number.value # -MAX_VALUE - 1)
    => LET digits == IF number.value < 0 THEN Tail(str) ELSE str
       IN  /\ number.value < 0 => Head(str) = MINUS
           /\ \A k \in DOMAIN digits : digits[k] \in 0 .. number.base - 1
           /\ ReadDigits(digits, number.base) = ItoaMagnitude
           /\ Len(digits) > 1 => digits[1] # 0
=============================================================================
