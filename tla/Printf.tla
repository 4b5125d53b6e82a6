------------------------------- MODULE Printf -------------------------------
(***************************************************************************)
(* The printf family (libc/stdio/printf.c): _vsnprintf parses the format,   *)
(* converts one argument after the other and hands the text to an output    *)
(* function, for a bounded buffer (vsnprintf) or for putchar (printf).      *)
(*                                                                         *)
(* A format is a sequence of characters whose conversions are complete:      *)
(* C leaves one that ends within a conversion undefined, and the code reads  *)
(* on behind it.                                                           *)
(***************************************************************************)
EXTENDS PrintfFloat

CONSTANTS
    SIZE_MAX,       \* (size_t)-1: more than any text has characters
    Calls           \* Families of calls of _vsnprintf

ASSUME CallsAssumption ==
    \A family \in DOMAIN Calls : \A c \in Calls[family] :
       c.count \in Nat /\ c.format \in Seq(STRING)

VARIABLES
    call,
    format,         \* what is left of the call's format
    args,           \* and of its arguments
    memory,         \* the buffer, and what lies behind it
    stream,         \* what putchar has been given
    idx,
    ret,            \* what _vsnprintf returns, or NONE
    full            \* History: everything given to the output function

vars == <<call, format, args, memory, stream, idx, ret, full>>

NUL == "NUL"
Untouched == "untouched"
BEHIND == 2         \* how much of the memory behind the buffer is looked at

-----------------------------------------------------------------------------
(***************************************************************************)
(* %[flags][width][.precision][length]specifier                            *)
(***************************************************************************)
\* How many characters at the beginning of s are in chars.
Leading(s, chars) ==
    CHOOSE n \in 0 .. Len(s) :
       /\ \A k \in 1 .. n : s[k] \in chars
       /\ n = Len(s) \/ s[n + 1] \notin chars
Drop(s, n) == SubSeq(s, n + 1, Len(s))

\* _atoi: an unsigned int, which may wrap around.
_atoi(digits) ==
    LET read[k \in 0 .. Len(digits)] ==
            IF k = 0 THEN 0
            ELSE (10 * read[k - 1] + DigitValue(digits[k])) % Power(2, INT_BITS)
    IN  read[Len(digits)]

\* A number at the beginning of s, or the next argument for a *.
Field(s, arguments) ==
    LET n == Leading(s, DigitSet)
    IN  IF n > 0
        THEN [value |-> _atoi(SubSeq(s, 1, n)), rest |-> Drop(s, n), args |-> arguments]
        ELSE IF s[1] = "*"
        THEN [value |-> Head(arguments), rest |-> Drop(s, 1), args |-> Tail(arguments)]
        ELSE [value |-> 0, rest |-> s, args |-> arguments]

Lengths == {<<"h", "h">>, <<"l", "l">>, <<"h">>, <<"l">>, <<"t">>, <<"j">>, <<"z">>, << >>}
\* The longest length that s begins with.
LengthField(s) ==
    CHOOSE l \in Lengths :
       /\ IsPrefix(l, s)
       /\ \A other \in Lengths : IsPrefix(other, s) => Len(other) <= Len(l)
LengthNames == [l \in Lengths |-> CASE l = <<"h", "h">> -> "hh"
                                    [] l = <<"l", "l">> -> "ll"
                                    [] l = << >> -> ""
                                    [] OTHER -> l[1]]

IntegerSpecs == {"d", "i", "u", "x", "X", "o", "b", "p"}
FloatSpecs == {"f", "F", "e", "E", "g", "G"}
TakesArgument(spec) == spec \in IntegerSpecs \cup FloatSpecs \cup {"c", "s"}

\* Mutant: a negative width given by * is only made positive.
NegativeWidthKept(flags, w) == flags
\* A negative width given by * means the flag -.
FlagsWithWidth(flags, w) == IF w < 0 THEN flags \cup {"-"} ELSE flags

\* What is left behind the flags, the width and the precision: the length, the
\* specifier, and its argument.
WithSpecifier(f, flags, width, precision, length) ==
    LET spec == f.rest[Len(length) + 1]
    IN  [flags |-> FlagsWithWidth(flags, width),
         width |-> IF width < 0 THEN -width ELSE width,
         precision |-> precision,
         length |-> LengthNames[length],
         spec |-> spec,
         arg |-> IF TakesArgument(spec) THEN Head(f.args) ELSE NONE,
         rest |-> Drop(f.rest, Len(length) + 1),
         args |-> IF TakesArgument(spec) THEN Tail(f.args) ELSE f.args]
WithPrecision(flags, width, f) ==
    WithSpecifier(f, flags, width, IF f.value < 0 THEN 0 ELSE f.value, LengthField(f.rest))
WithWidth(flags, f) ==
    IF f.rest[1] = "." THEN WithPrecision(flags, f.value, Field(Drop(f.rest, 1), f.args))
    ELSE WithSpecifier(f, flags, f.value, NONE, LengthField(f.rest))

FlagChars == {"0", "-", "+", " ", "#"}
\* The conversion that s, the format behind a %, begins with.
Conversion(s, arguments) ==
    LET n == Leading(s, FlagChars)
    IN  WithWidth({s[k] : k \in 1 .. n}, Field(Drop(s, n), arguments))

\* %c ignores a precision; an unknown specifier is printed itself, as % is.
Text(c) == CASE c.spec \in IntegerSpecs -> _ntoa(c)
             [] c.spec \in FloatSpecs -> FloatText(c)
             [] c.spec = "c" -> Padded(c, <<c.arg>>)
             [] c.spec = "s" -> StringText(c)
             [] OTHER -> <<c.spec>>

-----------------------------------------------------------------------------
(***************************************************************************)
(* The functions of the family (vprintf_ and vsnprintf_ are the same), and   *)
(* fctprintf, whose function takes the place of putchar.  Without a buffer   *)
(* characters are only counted (_out_null).                                *)
(***************************************************************************)
\* A call of _vsnprintf.
_vsnprintf(out, count, f, arguments) ==
    [out |-> out, count |-> count, format |-> f, args |-> arguments]
printf_(f, arguments) == _vsnprintf("char", SIZE_MAX, f, arguments)
fctprintf(f, arguments) == _vsnprintf("char", SIZE_MAX, f, arguments)
sprintf_(f, arguments) == _vsnprintf("buffer", SIZE_MAX, f, arguments)
snprintf_(count, f, arguments) == _vsnprintf("buffer", count, f, arguments)
snprintf_null(count, f, arguments) == _vsnprintf("null", count, f, arguments)

Init ==
    /\ \E family \in DOMAIN Calls : call \in Calls[family]
    /\ format = call.format
    /\ args = call.args
    /\ memory = [at \in 0 .. (IF call.out = "buffer" THEN call.count ELSE 0) + BEHIND - 1 |->
                   Untouched]
    /\ stream = << >>
    /\ idx = 0
    /\ ret = NONE
    /\ full = << >>

\* Mutant: one character too many is stored.
InBufferOffByOne(at) == call.out = "buffer" /\ at <= call.count
\* _out_buffer's test.
InBuffer(at) == call.out = "buffer" /\ at < call.count

\* _out_char sends every character but 0.
WithoutZeros(text) ==
    LET sent[k \in 0 .. Len(text)] ==
            IF k = 0 THEN << >>
            ELSE IF text[k] = NUL THEN sent[k - 1] ELSE sent[k - 1] \o <<text[k]>>
    IN  sent[Len(text)]
Streamed(text) == IF call.out = "char" THEN WithoutZeros(text) ELSE << >>

\* The characters of a text go through the output function one by one.
Output(text) ==
    /\ memory' = [at \in DOMAIN memory |->
                     IF InBuffer(at) /\ at \in idx .. idx + Len(text) - 1
                     THEN text[at - idx + 1] ELSE memory[at]]
    /\ stream' = stream \o Streamed(text)
    /\ idx' = idx + Len(text)
    /\ full' = full \o text
    /\ UNCHANGED <<call, ret>>

Copy ==
    /\ format # << >> /\ Head(format) # "%"
    /\ Output(<<Head(format)>>)
    /\ format' = Tail(format)
    /\ args' = args

Convert ==
    /\ format # << >> /\ Head(format) = "%"
    /\ \E c \in {Conversion(Tail(format), args)} :
          /\ Output(Text(c))
          /\ format' = c.rest
          /\ args' = c.args

\* Where the terminating zero goes: maxlen - 1 is the largest size_t if maxlen
\* is 0, and nothing is stored there.
LastIndex == IF idx < call.count THEN idx ELSE call.count - 1

Terminate ==
    /\ format = << >> /\ ret = NONE
    /\ memory' = [at \in DOMAIN memory |->
                     IF InBuffer(at) /\ at = LastIndex THEN NUL ELSE memory[at]]
    /\ stream' = stream \o Streamed(<<NUL>>)
    /\ ret' = idx
    /\ UNCHANGED <<call, format, args, idx, full>>

Next == Copy \/ Convert \/ Terminate

Spec == Init /\ [][Next]_vars

-----------------------------------------------------------------------------
(***************************************************************************)
(* The reference: C's grammar of a conversion (7.21.6.1), and what one means: *)
(* numbers are decimal, modulo the range of an int, and a negative precision  *)
(* given by * counts as none.                                              *)
(***************************************************************************)
Decimal(digits) ==
    LET value[k \in 0 .. Len(digits)] ==
            IF k = 0 THEN 0 ELSE 10 * value[k - 1] + DigitValue(digits[k])
    IN  value[Len(digits)]

\* A number as it is written, what it stands for, and the arguments behind it.
IsNumber(t) == t = <<"*">> \/ \A k \in 1 .. Len(t) : t[k] \in DigitSet
NumberOf(t, arguments) ==
    IF t = <<"*">> THEN Head(arguments) ELSE Decimal(t) % Power(2, INT_BITS)
Behind(t, arguments) == IF t = <<"*">> THEN Tail(arguments) ELSE arguments

\* Where flags, a width and a precision at the beginning of s may end; a leading
\* 0 is a flag.
Before(s, n) == SubSeq(s, 1, n)
FlagEnds(s) == {n \in 0 .. Len(s) : \A k \in 1 .. n : s[k] \in FlagChars}
WidthEnds(s) == {n \in 0 .. Len(s) : IsNumber(Before(s, n)) /\ (n > 0 => s[1] # "0")}
PrecisionEnds(s) ==
    {n \in 0 .. Len(s) : n > 0 => s[1] = "." /\ IsNumber(Before(Drop(s, 1), n - 1))}
\* The length, with a specifier behind it.
LengthsOf(s) ==
    {l \in Lengths : Len(l) < Len(s) /\ IsPrefix(l, s)
                       /\ s[Len(l) + 1] \in IntegerSpecs \cup FloatSpecs \cup {"c", "s", "%"}}

\* The meaning of flags, width, precision (<< >> without a point), and of s, a
\* length l and what follows it.
Meaning(flags, width, precision, l, s, arguments) ==
    LET w == NumberOf(width, arguments)
        digits == Drop(precision, 1)
        p == NumberOf(digits, Behind(width, arguments))
        left == IF precision = << >> THEN Behind(width, arguments)
                ELSE Behind(digits, Behind(width, arguments))
        spec == s[Len(l) + 1]
    IN  [flags |-> {flags[k] : k \in 1 .. Len(flags)} \cup (IF w < 0 THEN {"-"} ELSE {}),
         width |-> IF w < 0 THEN -w ELSE w,
         precision |-> IF precision = << >> \/ p < 0 THEN NONE ELSE p,
         length |-> LengthNames[l],
         spec |-> spec,
         arg |-> IF TakesArgument(spec) THEN Head(left) ELSE NONE,
         rest |-> Drop(s, Len(l) + 1),
         args |-> IF TakesArgument(spec) THEN Tail(left) ELSE left]

\* Where the code is known to read something else: a negative precision given by *
\* counts as 0 (_vsnprintf's "prec > 0").
TakenForZero(precision, arguments) == precision = <<".", "*">> /\ Head(arguments) < 0

ReadAsWritten(s, arguments) ==
    \A a \in FlagEnds(s) : \A b \in WidthEnds(Drop(s, a)) :
       LET width == Before(Drop(s, a), b)
           point == Drop(Drop(s, a), b)
       IN  \A d \in PrecisionEnds(point) : \A l \in LengthsOf(Drop(point, d)) :
              LET precision == Before(point, d)
                  meant == Meaning(Before(s, a), width, precision, l, Drop(point, d), arguments)
              IN  Conversion(s, arguments) =
                     IF TakenForZero(precision, Behind(width, arguments))
                     THEN [meant EXCEPT !.precision = 0] ELSE meant

-----------------------------------------------------------------------------
(***************************************************************************)
(* Properties.                                                             *)
(***************************************************************************)
\* What the buffer has after the call: the text, cut off so that a terminating
\* zero fits, and nothing behind that was there before; nothing is ever stored
\* at or behind count; and the length of the whole text is returned
\* (vsnprintf_; ulog_message and serial_log depend on all three).  printf sends
\* the terminal all of it but zeros, for which it would draw a glyph (printf_).
Bounded ==
    /\ \A at \in DOMAIN memory : at >= call.count => memory[at] = Untouched
    /\ ret # NONE =>
          /\ ret = Len(full)
          /\ call.out = "buffer" =>
                \A at \in 0 .. call.count - 1 :
                   memory[at] = IF at = Len(full) \/ (at = call.count - 1 /\ at < Len(full)) THEN NUL
                                ELSE IF at < Len(full) THEN full[at + 1]
                                ELSE Untouched
          /\ call.out = "char" => stream = WithoutZeros(full)

\* A conversion that C's grammar allows is read as C means it: the flags, the
\* width and the precision, numbers or taken from the arguments in their order,
\* the length, the specifier and its argument; and no character and no argument
\* more than they take is used up.  The one exception is a negative precision that
\* is taken from the arguments (_vsnprintf's evaluation of a conversion).
ParsesAsWritten ==
    format # << >> /\ Head(format) = "%" => ReadAsWritten(Tail(format), args)

\* The conversion that comes next, if one does.
Current == IF format # << >> /\ Head(format) = "%"
           THEN {Conversion(Tail(format), args)} ELSE {}

\* Every integer conversion gives the text the C standard asks for, for every
\* argument, length, flag, width and precision that is not one of those cases
\* of Departs (_ntoa_long, _ntoa_format, _out_rev).
ConvertsAsStandard ==
    \A c \in Current :
       c.spec \in IntegerSpecs \ {"p"} /\ ~ Departs(c) => Text(c) = StandardText(c)

\* Every finite floating-point number reads back as itself, sign included, unless
\* its digits spill or its sign is lost.  Without an exponent it has the decimals
\* asked for and is right to half a unit of the last that is computed, and what
\* the product may be off by (_ftoa).
FixedReadsBack ==
    \A c \in Current :
       c.spec \in FloatSpecs /\ c.arg.class = "finite" /\ InFixed(c) =>
          ReadsBackFixed(c.arg, Places(c), c.width, c.flags, ReadNumber(FloatText(c)))
=============================================================================
