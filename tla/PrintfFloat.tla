---------------------------- MODULE PrintfFloat ----------------------------
(***************************************************************************)
(* printf's floating-point conversions (_ftoa and _etoa), in a binary       *)
(* floating-point arithmetic whose significand has SIGNIFICAND bits (53 in   *)
(* a double) and whose products and quotients are rounded to the nearest,    *)
(* ties to even.                                                           *)
(*                                                                         *)
(* A number is [class, negative, n, k]: "nan", "inf", or n / 2^k.           *)
(***************************************************************************)
EXTENDS PrintfText

CONSTANTS
    FTOA_BUFFER,        \* PRINTF_FTOA_BUFFER_SIZE, 32
    SIGNIFICAND,
    EXP_BIAS,           \* 1023
    MAX_FLOAT,          \* PRINTF_MAX_FLOAT, 1e9
    MAX_PRECISION,      \* 9, the last power in pow10
    DEFAULT_PRECISION,  \* PRINTF_DEFAULT_FLOAT_PRECISION, 6
    ADAPT_LOW,          \* 4: %g falls back to %f from 1e-4 on ...
    ADAPT_HIGH,         \* 6: ... and below 1e6
    HIGH_POWERS         \* The e for which the computed 10^e is too large

ASSUME FloatAssumption ==
    /\ FTOA_BUFFER \in Nat \ {0} /\ SIGNIFICAND \in Nat \ {0} /\ EXP_BIAS \in Nat
    /\ MAX_FLOAT \in Nat /\ MAX_FLOAT >= Power(10, ADAPT_HIGH)
    /\ MAX_PRECISION \in Nat \ {0} /\ DEFAULT_PRECISION \in Nat
    /\ HIGH_POWERS \subseteq Nat \ {0}

RoundToEven(a, b) ==
    LET q == a \div b
        r == a % b
    IN  IF 2 * r > b \/ (2 * r = b /\ q % 2 = 1) THEN q + 1 ELSE q

Log2(n) == CHOOSE b \in 0 .. n : Power(2, b) <= n /\ n < Power(2, b + 1)

\* An integer rounded to the significand.
Rounded(n) ==
    IF n < Power(2, SIGNIFICAND) THEN n
    ELSE LET ulp == Power(2, Log2(n) + 1 - SIGNIFICAND)
         IN  RoundToEven(n, ulp) * ulp

\* num / den, a number of at least 1/16, rounded to the significand.
Quotient(num, den) ==
    LET k == CHOOSE k \in 0 .. SIGNIFICAND + 4 :
                \/ k = SIGNIFICAND + 4
                \/ num * Power(2, k) >= den * Power(2, SIGNIFICAND - 1)
    IN  [n |-> RoundToEven(num * Power(2, k), den), k |-> k]

-----------------------------------------------------------------------------
\* The special values, as the buffer has them, and their padding.
Special(v, width, flags) ==
    _out_rev(flags, width,
             IF v.class = "nan" THEN <<"n", "a", "n">>
             ELSE <<"f", "n", "i">> \o IF v.negative THEN <<"-">>
                                       ELSE IF "+" \in flags THEN <<"+">> ELSE << >>)

\* (value - whole) * pow10[prec]
Product(v, prec) == Rounded((v.n % Power(2, v.k)) * Power(10, prec))

\* Mutant: the carry into the whole number is forgotten.
NeverRollsOver(frac, prec) == FALSE
\* "handle rollover, e.g. case 0.99 with prec 1 is 1.0"
RollsOver(frac, prec) == frac + 1 >= Power(10, prec)

\* The digits before and after the point.  "if halfway" has no rollover: an
\* odd frac of nines gets a digit more than prec.
Halves(v, prec) ==
    LET unit == Power(2, v.k)
        tmp == Product(v, prec)
        whole == v.n \div unit
        frac == tmp \div unit
        diff == tmp % unit
        over == 2 * diff > unit /\ RollsOver(frac, prec)
        up == 2 * diff > unit \/ (2 * diff = unit /\ (frac = 0 \/ frac % 2 = 1))
        carried == IF over THEN whole + 1 ELSE whole
        rest == v.n - carried * unit        \* value - whole, when prec is 0
    IN  [whole |-> IF prec = 0 /\ 2 * rest >= unit /\ carried % 2 = 1
                   THEN carried + 1 ELSE carried,
         frac |-> IF over THEN 0 ELSE IF up THEN frac + 1 ELSE frac]

\* The buffer, filled from the number's end.  count, which has become negative
\* after a digit too many, is unsigned: zeros are added until it is full.
FixedBuffer(halves, prec, asked) ==
    LET Point(digits) ==
            LET count == IF Len(digits) <= prec THEN prec - Len(digits) ELSE FTOA_BUFFER
            IN  digits \o Times("0", count) \o <<".">>
        after == IF prec = 0 THEN << >>
                 ELSE Point(DigitsOf(halves.frac, 10, FTOA_BUFFER, DigitChars))
    IN  Fit(Times("0", asked - prec) \o after
               \o DigitsOf(halves.whole, 10, FTOA_BUFFER, DigitChars), FTOA_BUFFER)

\* Zeros for the width, and the sign.
FixedText(buf, negative, width, flags) ==
    LET padded == Fill(buf, IF Zeroed(flags) THEN width ELSE 0, FTOA_BUFFER)
    IN  _out_rev(flags, width, WithSign(flags, negative, padded, FTOA_BUFFER))

\* _ftoa for a number of at most MAX_FLOAT.
Fixed(v, asked, width, flags) ==
    LET prec == Least(asked, MAX_PRECISION)
        negative == v.negative /\ v.n # 0
    IN  FixedText(FixedBuffer(Halves(v, prec), prec, asked), negative,
                  WidthLeft(flags, width, negative), flags)

-----------------------------------------------------------------------------
(***************************************************************************)
(* _etoa.  Its power of ten is exact but for HIGH_POWERS; the exponent is    *)
(* estimated as in the code, with constants of four digits.                *)
(***************************************************************************)
\* The estimate, truncated towards zero: log10 of the power of two, and the
\* tangent of log10 at 1.5 for the significand.
Estimate(v) ==
    LET b == IF v.n = 0 THEN 0 ELSE Log2(v.n)
        exp2 == IF v.n = 0 THEN -EXP_BIAS ELSE b - v.k
        f == IF v.n = 0 THEN 1 ELSE v.n         \* conv.F is f / 2^b
        num == (1761 + exp2 * 3010) * Power(2, b + 1) + 2895 * (2 * f - 3 * Power(2, b))
        den == 10000 * Power(2, b + 1)
    IN  IF num < 0 THEN -((-num) \div den) ELSE num \div den

\* value < 10^e
Below(v, e) == IF e < 0 THEN v.n = 0 \/ v.n * Power(10, -e) < Power(2, v.k)
               ELSE v.n < Power(10, e) * Power(2, v.k)

\* value < conv.F: as the computed 10^e may be a little too large, a power of
\* ten itself can be taken for less than it is (100 is printed as 10.0e+01).
Corrected(v, e) ==
    LET high == e \in HIGH_POWERS /\ v.n = Power(10, e) * Power(2, v.k)
    IN  IF Below(v, e) \/ high THEN e - 1 ELSE e
Exponent(v) == Corrected(v, Estimate(v))

\* value / 10^e
Scaled(v, e) ==
    IF v.n = 0 \/ e = 0 THEN v
    ELSE (IF e < 0 THEN Quotient(v.n * Power(10, -e), Power(2, v.k))
          ELSE Quotient(v.n, Power(10, e) * Power(2, v.k))) @@ v

\* %g falls back to %f for these.
FallsBack(c) ==
    /\ c.spec \in {"g", "G"}
    /\ ~ Below(c.arg, -ADAPT_LOW) /\ Below(c.arg, ADAPT_HIGH)

FloatPrecision(c) == IF c.precision = NONE THEN DEFAULT_PRECISION ELSE c.precision

\* "prec" is the number of significant figures.
FallbackPrecision(c, e) ==
    IF FloatPrecision(c) > e THEN FloatPrecision(c) - e - 1 ELSE 0

\* What the exponent takes up, what the width leaves for the number in front of
\* it, and how many places behind the point that has.
MinWidth(e) == IF e \in -99 .. 99 THEN 4 ELSE 5
FloatWidth(c, e) ==
    IF c.width <= MinWidth(e) \/ "-" \in c.flags THEN 0 ELSE c.width - MinWidth(e)
ScaledPrecision(c) ==
    IF c.spec \in {"g", "G"} /\ c.precision > 0 THEN c.precision - 1 ELSE FloatPrecision(c)

\* The number, scaled to one digit in front of the point, and its exponent.
Exponential(c, e) ==
    LET exponent == [flags |-> {"0", "+"}, width |-> MinWidth(e) - 1, precision |-> NONE,
                     length |-> "l", spec |-> "d", arg |-> e]
    IN  Fixed(Scaled(c.arg, e), ScaledPrecision(c), FloatWidth(c, e), c.flags)
           \o <<IF c.spec \in {"E", "F", "G"} THEN "E" ELSE "e">> \o _ntoa(exponent)

\* Only on the right is the whole text padded.
Justified(c, text) == IF "-" \in c.flags THEN Padded(c, text) ELSE text

EtoaWith(c, e) ==
    IF FallsBack(c) THEN Fixed(c.arg, FallbackPrecision(c, e), c.width, c.flags)
    ELSE Justified(c, Exponential(c, e))
_etoa(c) == EtoaWith(c, Exponent(c.arg))

\* %f switches to the exponent notation for large numbers.
PrintsFixed(c) == c.spec \in {"f", "F"} /\ c.arg.n <= MAX_FLOAT * Power(2, c.arg.k)

FloatText(c) ==
    IF c.arg.class # "finite" THEN Special(c.arg, c.width, c.flags)
    ELSE IF PrintsFixed(c) THEN Fixed(c.arg, FloatPrecision(c), c.width, c.flags)
    ELSE _etoa(c)

-----------------------------------------------------------------------------
(***************************************************************************)
(* The reference: reading the text back.                                   *)
(***************************************************************************)
DigitSet == {DigitChars[d] : d \in 1 .. 10}
DigitValue(char) == CHOOSE d \in 0 .. 9 : DigitChars[d + 1] = char

\* What has been read: the number the digits are, and, once there has been a
\* point, how many follow it.
Nothing == [number |-> 0, decimals |-> NONE]
After(found, char) ==
    IF char = "." THEN [found EXCEPT !.decimals = 0]
    ELSE IF char \in DigitSet
    THEN [number |-> 10 * found.number + DigitValue(char),
          decimals |-> IF found.decimals = NONE THEN NONE ELSE found.decimals + 1]
    ELSE found
Scan(found, text) ==
    LET seen[k \in 0 .. Len(text)] == IF k = 0 THEN found ELSE After(seen[k - 1], text[k])
    IN  seen[Len(text)]

\* A text, with its sign, and the exponent behind a letter e if it has one.
ReadNumber(text) ==
    LET e == SelectInSeq(text, LAMBDA x : x \in {"e", "E"})
        last == IF e = 0 THEN Len(text) ELSE e - 1
        digits == Scan(Nothing, SubSeq(text, 1, last))
        power == Scan(Nothing, SubSeq(text, last + 1, Len(text))).number
    IN  [negative |-> \E k \in 1 .. last : text[k] = "-",
         number |-> digits.number,
         decimals |-> IF digits.decimals = NONE THEN 0 ELSE digits.decimals,
         exponent |-> IF e # 0 /\ text[e + 1] = "-" THEN -power ELSE power]

Distance(a, b) == IF a < b THEN b - a ELSE a - b
Pow10(e) == IF e < 0 THEN 1 ELSE Power(10, e)

\* A unit of the last place of a number read back, on a scale on which v is an
\* integer, and whether it is within half of slack of v.
Unit(r, v) == Pow10(r.exponent - r.decimals) * Power(2, v.k)
Near(r, v, slack) ==
    2 * Distance(r.number * Unit(r, v), v.n * Pow10(r.decimals - r.exponent)) <= slack

\* Half a unit of the last place that is computed, and the rounding of the
\* product.
HalfUnit(v, asked) ==
    LET prec == Least(asked, MAX_PRECISION)
    IN  Power(10, asked - prec)
           * (Power(2, v.k) + 2 * Distance(Product(v, prec), (v.n % Power(2, v.k)) * Power(10, prec)))

\* Where _ftoa's number is known to be wrong: frac is all nines and exactly
\* halfway, or the number itself does not fit into the buffer.
Spills(v, asked) ==
    LET prec == Least(asked, MAX_PRECISION)
        tmp == Product(v, prec)
    IN  \/ 2 * (tmp % Power(2, v.k)) = Power(2, v.k) /\ (tmp \div Power(2, v.k)) % 2 = 1
              /\ (tmp \div Power(2, v.k)) + 1 = Power(10, prec) /\ prec > 0
        \/ asked + 3 > FTOA_BUFFER
        \/ v.n \div Power(2, v.k) >= Power(10, FTOA_BUFFER - asked - 3)

\* Where its sign is known to be lost: C has one for -0.0; and the zeros of a width
\* beyond the buffer leave no room for one.
SignLost(v, width, flags) ==
    v.negative /\ (v.n = 0 \/ (Zeroed(flags) /\ width > FTOA_BUFFER))

ReadsBackFixed(v, asked, width, flags, r) ==
    ~ Spills(v, asked) =>
       /\ r.decimals = asked /\ Near(r, v, HalfUnit(v, asked))
       /\ SignLost(v, width, flags) \/ (r.negative <=> v.negative)

\* Where _etoa's exponent is known to be another than the number's: a power of ten
\* that is taken for less than it is, and 0.
ExponentOff(v) == v.n = 0 \/ \E e \in HIGH_POWERS : v.n = Power(10, e) * Power(2, v.k)
\* How many places behind the point are asked for, and in _etoa by %g, which
\* counts the digit in front of it only if it is given a precision.
PlacesAsked(c) ==
    IF c.precision = NONE THEN DEFAULT_PRECISION
    ELSE IF c.spec \in {"g", "G"} /\ c.precision # 0 THEN c.precision - 1 ELSE c.precision

\* To a unit of the last place that is computed.
ReadsBackScaled(c, r) ==
    LET v == c.arg
        asked == PlacesAsked(c)
    IN  ~ Spills(Scaled(v, Exponent(v)), asked) =>
           /\ r.decimals = asked
           /\ Near(r, v, 2 * Unit(r, v) * Power(10, asked - Least(asked, MAX_PRECISION)))
           /\ SignLost(v, FloatWidth(c, r.exponent), c.flags) \/ (r.negative <=> v.negative)
           /\ ExponentOff(v) \/ (~ Below(v, r.exponent) /\ Below(v, r.exponent + 1))

\* Whether c has no exponent, and how many places behind the point it asks for.
InFixed(c) == FallsBack(c) \/ PrintsFixed(c)
Places(c) ==
    IF FallsBack(c) THEN FallbackPrecision(c, Exponent(c.arg)) ELSE FloatPrecision(c)
=============================================================================
