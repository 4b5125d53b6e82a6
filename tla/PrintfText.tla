----------------------------- MODULE PrintfText -----------------------------
(***************************************************************************)
(* The text of printf's integer, character and string conversions           *)
(* (libc/stdio/printf.c): a conversion buffer that is filled from the       *)
(* number's end, and padding.                                              *)
(*                                                                         *)
(* A conversion c has the fields its parser found: a set of flags, width,   *)
(* precision (or NONE), length and spec, and its argument.                  *)
(***************************************************************************)
EXTENDS Integers, Sequences, SequencesExt

CONSTANTS
    NTOA_BUFFER,    \* PRINTF_NTOA_BUFFER_SIZE, 32 in printf.c
    CHAR_BITS, SHORT_BITS, INT_BITS, LONG_BITS,
    POINTER_CHARS   \* sizeof(void*) * 2

ASSUME BufferAssumption == NTOA_BUFFER \in Nat \ {0}
ASSUME PointerAssumption == POINTER_CHARS \in Nat
ASSUME TypesAssumption ==
    {CHAR_BITS, SHORT_BITS, INT_BITS, LONG_BITS} \subseteq Nat \ {0}

NONE == -1

\* b to the power of n.
Power(b, n) ==
    LET power[k \in 0 .. n] == IF k = 0 THEN 1 ELSE b * power[k - 1]
    IN  power[n]

Least(m, n) == IF m < n THEN m ELSE n
Times(c, n) == [k \in 1 .. n |-> c]
\* What a buffer of some size takes of the characters appended to it.
Fit(buf, size) == SubSeq(buf, 1, Least(Len(buf), size))

DigitChars == <<"0","1","2","3","4","5","6","7","8","9","a","b","c","d","e","f">>
UpperChars == <<"0","1","2","3","4","5","6","7","8","9","A","B","C","D","E","F">>

\* The digits of a number, the lowest first: at least one, at most max.
DigitsOf(value, base, max, chars) ==
    LET n == CHOOSE k \in 1 .. max :
                /\ k = max \/ value < Power(base, k)
                /\ \A j \in 1 .. k - 1 : ~ (value < Power(base, j))
    IN  [k \in 1 .. n |-> chars[((value \div Power(base, k - 1)) % base) + 1]]

-----------------------------------------------------------------------------
(***************************************************************************)
(* The integer conversions: d i u x X o b, and p.                          *)
(***************************************************************************)
Signed(c) == c.spec \in {"d", "i"}

Base(c) == CASE c.spec \in {"x", "X", "p"} -> 16
             [] c.spec = "o" -> 8
             [] c.spec = "b" -> 2
             [] c.spec \in {"d", "i", "u"} -> 10

Bits(c) == CASE c.spec = "p" -> LONG_BITS
             [] c.length = "hh" -> CHAR_BITS
             [] c.length = "h" -> SHORT_BITS
             [] c.length = "" -> INT_BITS
             [] OTHER -> LONG_BITS          \* l ll j z t

\* The argument as the type that is asked for.
Value(c) ==
    LET range == Power(2, Bits(c))
        u == c.arg % range
    IN  IF Signed(c) /\ u >= range \div 2 THEN u - range ELSE u

\* The smallest int or long has its magnitude by wrapping around.
Magnitude(c) == IF Value(c) < 0 THEN -Value(c) ELSE Value(c)

\* What is left of the flags: no prefix for decimal numbers or 0, no sign for
\* unsigned ones, no zeros for padding if a precision is given.
Flags(c) ==
    IF c.spec = "p"
    THEN {f \in c.flags \cup {"0"} : f = "#" => Value(c) # 0}
    ELSE {f \in c.flags :
            /\ f = "#" => Base(c) # 10 /\ Value(c) # 0
            /\ f \in {"+", " "} => Signed(c)
            /\ f = "0" => c.precision = NONE}

Width(c) == IF c.spec = "p" THEN POINTER_CHARS ELSE c.width
Precision(c) == IF c.precision = NONE THEN 0 ELSE c.precision

Digits(c) ==
    IF Value(c) = 0 /\ c.precision # NONE THEN << >>
    ELSE DigitsOf(Magnitude(c), Base(c), NTOA_BUFFER,
                  IF c.spec \in {"X", "p"} THEN UpperChars ELSE DigitChars)

\* Zeros up to a length of n.
Fill(buf, n, size) ==
    LET len == Least(n, size)
    IN  IF Len(buf) < len THEN buf \o Times("0", len - Len(buf)) ELSE buf

Zeroed(flags) == "0" \in flags /\ "-" \notin flags

\* Mutant: the sign does not count for the width.
WidthUnsigned(flags, width, negative) == width
\* The width after it has made room for the sign, which zeros must not take.
WidthLeft(flags, width, negative) ==
    IF width > 0 /\ Zeroed(flags) /\ (negative \/ flags \cap {"+", " "} # {})
    THEN width - 1 ELSE width

WithSign(flags, negative, buf, size) ==
    LET sign == IF negative THEN <<"-">>
                ELSE IF "+" \in flags THEN <<"+">>
                ELSE IF " " \in flags THEN <<" ">> ELSE << >>
    IN  Fit(buf \o sign, size)

\* _out_rev: the buffer from its end, and spaces up to the width.
_out_rev(flags, width, buf) ==
    LET spaces == Times(" ", IF Len(buf) < width THEN width - Len(buf) ELSE 0)
    IN  IF "-" \in flags THEN Reverse(buf) \o spaces
        ELSE IF "0" \in flags THEN Reverse(buf)
        ELSE spaces \o Reverse(buf)

\* "handle hash": the prefix takes the place of the last digits if they reach
\* the width, on the assumption that they are zeros.
WithPrefix(c, width, buf) ==
    LET full_up == c.precision = NONE /\ buf # << >> /\ Len(buf) = width
        less == IF ~ full_up THEN Len(buf)
                ELSE IF Base(c) = 16 /\ Len(buf) > 1 THEN Len(buf) - 2
                ELSE Len(buf) - 1
        letter == CASE c.spec = "o" -> << >>
                    [] c.spec \in {"X", "p"} -> <<"X">>
                    [] c.spec \in {"x", "b"} -> <<c.spec>>
                    [] OTHER -> << >>
    IN  Fit(SubSeq(buf, 1, less) \o letter \o <<"0">>, NTOA_BUFFER)

\* _ntoa_format: zeros for the precision, for the width, the prefix, the sign.
_ntoa_format(c, flags, width, negative, buf) ==
    LET precise == Fill(buf, IF "-" \in flags THEN 0 ELSE Precision(c), NTOA_BUFFER)
        zeroed == Fill(precise, IF Zeroed(flags) THEN width ELSE 0, NTOA_BUFFER)
        Prefixed(text) == IF "#" \in flags THEN WithPrefix(c, width, text) ELSE text
    IN  _out_rev(flags, width, WithSign(flags, negative, Prefixed(zeroed), NTOA_BUFFER))

\* _ntoa_long and _ntoa_long_long.
_ntoa(c) ==
    _ntoa_format(c, Flags(c), WidthLeft(Flags(c), Width(c), Value(c) < 0), Value(c) < 0, Digits(c))

-----------------------------------------------------------------------------
(***************************************************************************)
(* Characters and strings.                                                 *)
(***************************************************************************)
\* Pre or post padding with spaces up to the width; the flag 0 is ignored.
Padded(c, shown) ==
    LET spaces == Times(" ", IF Len(shown) < c.width THEN c.width - Len(shown) ELSE 0)
    IN  IF "-" \in c.flags THEN shown \o spaces ELSE spaces \o shown

\* %s: at most precision characters.
StringText(c) ==
    Padded(c, IF c.precision = NONE THEN c.arg ELSE Fit(c.arg, c.precision))

-----------------------------------------------------------------------------
(***************************************************************************)
(* The reference: C's integer conversions (7.21.6.1; b as in C23), from the   *)
(* flags, width and precision as they are written.  It shares with the code   *)
(* what number is printed in which base (Value, Base), and neither its flags,  *)
(* nor its digits, nor its buffer.                                         *)
(***************************************************************************)
\* The digits of v, the highest first; none for 0.
Numeral(v, base, chars) ==
    LET n == CHOOSE n \in 0 .. v :
                v < Power(base, n) /\ \A m \in 0 .. n - 1 : Power(base, m) <= v
    IN  [k \in 1 .. n |-> chars[((v \div Power(base, n - k)) % base) + 1]]
NumeralOf(c) == Numeral(IF Value(c) < 0 THEN -Value(c) ELSE Value(c), Base(c),
                        IF c.spec = "X" THEN UpperChars ELSE DigitChars)

ZerosBefore(n, text) == Times("0", IF Len(text) < n THEN n - Len(text) ELSE 0) \o text

\* As many digits as the precision asks for, by default one; # "increases the
\* precision, if and only if necessary, to force the first digit of the result
\* to be a zero" for o.
StandardDigits(c) ==
    LET digits == ZerosBefore(IF c.precision = NONE THEN 1 ELSE c.precision, NumeralOf(c))
        octal == "#" \in c.flags /\ c.spec = "o"
    IN  IF octal /\ (Len(digits) = 0 \/ digits[1] # "0") THEN <<"0">> \o digits ELSE digits

StandardSign(c) ==
    IF ~ Signed(c) THEN << >>
    ELSE IF Value(c) < 0 THEN <<"-">>
    ELSE IF "+" \in c.flags THEN <<"+">>
    ELSE IF " " \in c.flags THEN <<" ">> ELSE << >>
StandardPrefix(c) ==
    IF "#" \in c.flags /\ c.spec \in {"x", "X", "b"} /\ Value(c) # 0
    THEN <<"0", c.spec>> ELSE << >>

\* Zeros for the width go between the prefix and the digits, unless there is a
\* precision or the flag -.
StandardZeroed(c) == "0" \in c.flags /\ "-" \notin c.flags /\ c.precision = NONE
StandardBody(c) ==
    LET before == StandardSign(c) \o StandardPrefix(c)
        room == IF StandardZeroed(c) THEN c.width - Len(before) ELSE 0
    IN  before \o ZerosBefore(room, StandardDigits(c))
StandardText(c) ==
    LET body == StandardBody(c)
        spaces == Times(" ", IF Len(body) < c.width THEN c.width - Len(body) ELSE 0)
    IN  IF "-" \in c.flags THEN body \o spaces ELSE spaces \o body

\* Where the code is known to print something else:
\* - the conversion needs more than the conversion buffer;
\* - left-justified numbers do not get the zeros of their precision;
\* - "handle hash" takes digits for zeros, or makes room for one character of
\*   the two of 0b;
\* - an octal number with # gets a zero more than its precision asks for, and a
\*   0 without a digit does not get its zero.
Departs(c) ==
    LET n == Len(NumeralOf(c))
        hash == "#" \in c.flags /\ c.spec \in {"x", "X", "o", "b"} /\ Value(c) # 0
        padded == StandardZeroed(c) /\ n <= c.width
    IN  \/ Len(StandardBody(c)) > NTOA_BUFFER
        \/ "-" \in c.flags /\ c.precision > n
        \/ /\ hash /\ c.precision = NONE
           /\ \/ n = c.width
              \/ padded /\ c.spec \in {"x", "X"} /\ c.width - n < 2
              \/ padded /\ c.spec = "b"
        \/ "#" \in c.flags /\ c.spec = "o" /\ c.precision # NONE
              /\ IF Value(c) = 0 THEN c.precision = 0 ELSE c.precision > n
=============================================================================
