----------------------------- MODULE MCPrintf ------------------------------
(***************************************************************************)
(* Formats and arguments for printf, written from the conversions they mean. *)
(***************************************************************************)
EXTENDS Library

MCFlags == <<"0", "-", "+", " ", "#">>
LengthChars == [l \in {"", "hh", "h", "l", "ll", "j", "z", "t"} |->
                   CASE l = "" -> << >> [] l = "hh" -> <<"h", "h">>
                     [] l = "ll" -> <<"l", "l">> [] OTHER -> <<l>>]
DigitChar(n) == DigitChars[n + 1]

\* A conversion as it is written, with a width of at most one digit.
Write(c) ==
    <<"%">> \o SelectSeq(MCFlags, LAMBDA f : f \in c.flags)
       \o (IF c.width = 0 THEN << >> ELSE <<DigitChar(c.width)>>)
       \o (IF c.precision = NONE THEN << >>
           ELSE IF c.precision = 0 THEN <<".">> ELSE <<".", DigitChar(c.precision)>>)
       \o LengthChars[c.length] \o <<c.spec>>

Conversions(specs, flags, widths, precisions, lengths) ==
    [spec : specs, flags : flags, width : widths, precision : precisions, length : lengths]

\* A printf of a single conversion.
Single(c, a) == printf_(Write(c), <<a>>)
Singles(conversions, arguments) == {Single(c, a) : c \in conversions, a \in arguments}

FlagSets == SUBSET {"0", "-", "#"} \cup {{"+"}, {" "}, {"+", "0"}, {" ", "-"}, {"+", " ", "0"}, {"+", "#", "0"}}
Ints == {"d", "u", "x", "X", "o", "b"}
\* With five bits: from a digit to as many as the conversion buffer holds,
\* signed and unsigned, with and without the high bits that hh drops.
IntFamily ==
    Singles(Conversions(Ints, FlagSets, {0, 2, 4, 5}, {NONE, 0, 1, 4}, {""}), {-16, -1, 0, 1, 8, 13})
LengthFamily ==
    Singles(Conversions(Ints \cup {"i"}, {{}, {"#"}}, {0, 3}, {NONE}, DOMAIN LengthChars),
            {-33, -16, -4, -1, 0, 3, 4, 15, 17, 40})
PointerFamily ==
    Singles(Conversions({"p"}, {{}, {"-"}, {"#"}}, {0, 3}, {NONE}, {""}), {0, 5, 17, 40})

\* The same fields given by the arguments: a width, a precision, or both.
StarFamily ==
    {printf_(<<"%">> \o (IF left THEN <<"-">> ELSE << >>) \o <<"*", ".", "*", "d">>, <<w, p, n>>) :
        left \in BOOLEAN, w \in {-4, 0, 3}, p \in {-1, 0, 2}, n \in {-3, 0, 12}}
       \cup {printf_(<<"%", "0", "*", "h", "u">>, <<w, n>>) : w \in {-4, 0, 3}, n \in {0, 12}}
       \cup {printf_(<<"%", "4", ".", "*", "l", "x">>, <<p, n>>) : p \in {-1, 0, 2}, n \in {0, 12}}
\* A width and a precision of two digits; they wrap around with the type.
WideFamily ==
    {printf_(<<"%", DigitChar(a), DigitChar(b), ".", DigitChar(d), "s">>, <<<<"p", "m", "m">>>>) :
        a \in 1 .. 4, b \in 0 .. 3, d \in 0 .. 4}
       \cup {printf_(<<"%", "7", ".", DigitChar(a), DigitChar(b), "s">>, <<<<"p", "m", "m">>>>) :
                a \in {0, 1, 3}, b \in 0 .. 3}

Finite(n, k, minus) == [class |-> "finite", negative |-> minus, n |-> n, k |-> k]
NotFinite == {[class |-> x, negative |-> s, n |-> 0, k |-> 0] : x \in {"nan", "inf"}, s \in BOOLEAN}
\* Up to three binary places: halves, quarters and eighths are exactly halfway.
Floats ==
    {Finite(n, k, FALSE) : n \in 0 .. 24, k \in 0 .. 3}
       \cup {Finite(n, k, s) : n \in {39, 76, 79, 95, 100, 120, 799, 1500}, k \in {0, 3}, s \in BOOLEAN}
FloatFamily ==
    Singles(Conversions({"f", "e", "G"}, {{}, {"0", "+"}}, {0, 6}, {NONE, 0, 1, 2, 3}, {""}), Floats)
       \cup Singles(Conversions({"F", "E", "g"}, {{"-"}, {"+"}}, {7}, {NONE, 2}, {""}),
                    NotFinite \cup {Finite(7, 2, TRUE)})

\* Negative numbers in widths of as many characters as the buffer has, and one more;
\* in front of an exponent it is the width less four.
Negatives == {Finite(n, k, TRUE) : n \in {0, 3, 12}, k \in {0, 1}}
SignFamily ==
    Singles(Conversions({"f", "F"}, {{}, {"0"}, {"-"}, {" ", "0"}}, {0, 8, 9}, {NONE, 1}, {""}), Negatives)
       \cup {printf_(<<"%", "0", "1", DigitChar(d), ".", "1", x>>, <<a>>) :
                d \in {2, 3}, x \in {"e", "E"}, a \in Negatives}

\* Short formats into buffers of every small size: what is copied, characters
\* and strings, also one that is a zero, percent signs and unknown specifiers.
Pieces == [none |-> {<<<<".">>, << >>>>, <<<<"%", "%">>, << >>>>, <<<<"%", "2", "y">>, << >>>>},
           char |-> {<<Write(c), <<x>>>> : x \in {"c", NUL},
                        c \in Conversions({"c"}, {{}, {"-"}}, {0, 3}, {NONE}, {""})},
           string |-> {<<Write(c), <<x>>>> : x \in {<< >>, <<"p", "m", "m">>},
                          c \in Conversions({"s"}, {{}, {"-"}}, {0, 4}, {NONE, 2}, {""})},
           int |-> {<<Write(c), <<x>>>> : x \in {-1, 13},
                       c \in Conversions({"d", "x"}, {{}, {"0"}}, {4}, {NONE}, {""})}]
PieceCalls(p, q) ==
    LET f == p[1] \o q[1]
        a == p[2] \o q[2]
    IN  {snprintf_(n, f, a) : n \in 0 .. 5} \cup {sprintf_(f, a), snprintf_null(3, f, a), printf_(f, a)}
Pairs == <<<<"none", "char">>, <<"char", "string">>, <<"string", "none">>, <<"string", "string">>,
           <<"none", "int">>, <<"int", "char">>, <<"int", "string">>>>
PairFamilies ==
    [k \in DOMAIN Pairs |->
        UNION {PieceCalls(p, q) : p \in Pieces[Pairs[k][1]], q \in Pieces[Pairs[k][2]]}]

MCCalls == <<IntFamily, LengthFamily, PointerFamily, StarFamily, WideFamily, FloatFamily, SignFamily>> \o PairFamilies

-----------------------------------------------------------------------------
\* Five bytes; every overlap of at most four, and every content of a memory
\* with at most three different bytes for the functions that look at it.
Job(fn, d, s, n) == [fn |-> fn, dst |-> d, src |-> s, size |-> n, value |-> 3]
MCMemories == {<<0, 1, 2, 1, 3>>, <<2, 2, 0, 2, 0>>, <<1, 3, 1, 3, 1>>, <<1, 1, 1, 1, 0>>, <<0, 2, 0, 2, 1>>}
MCMemory == {[a \in 0 .. 4 |-> m[a + 1]] : m \in MCMemories}
MCJobs == {j \in {Job(fn, d, s, n) : fn \in MemoryFunctions, d \in 0 .. 4, s \in 0 .. 4, n \in 0 .. 4} :
              Within(j)}

MCNumbers == [value : -32 .. 31, base : {2, 10, 16}] \cup [value : {-32, -31, -10, 0, 20, 31}, base : {3, 36}]

\* Every family and model that is told apart, every brand around the tables'
\* ends, processors with and without extended leaves, short and full names.
Name(length) == [r \in 1 .. 12 |-> [b \in 1 .. 4 |->
                    IF (r - 1) * 4 + b <= length THEN UpperChars[((r * 4 + b) % 16) + 1] ELSE END]]
Processor(v, eax, brand, ext, length) ==
    [vendor |-> v, eax |-> eax, brand |-> brand, basic |-> 2, extended |-> ext,
     name |-> Name(length), diode |-> TRUE]
Signature(f, m) == f * 256 + m * 16 + 3
MCProcessors ==
    {Processor(v, Signature(f, m), 1, ext, 40) :
        v \in {"intel", "amd"}, f \in 3 .. 7, m \in 0 .. 9, ext \in {ZERO_ANSWERED, 4}}
       \cup {Processor(v, eax, brand, ext, length) :
                v \in {"intel", "amd", "other"}, eax \in {1713, 3859, Signature(15, 0) + 2 ^ 20 + 2 ^ 12},
                brand \in {0, 3, 23, 24, 255}, ext \in {ZERO_ANSWERED, -1, 0, 1, 4, 7, 8}, length \in {15, 16, 17, 47, 48}}
=============================================================================
