------------------------------- MODULE Format -------------------------------
(***************************************************************************)
(* Formatted output (src/src/io/io.c): what io_printf() and the functions  *)
(* it calls give to output_char(), as sequences of characters.             *)
(***************************************************************************)
EXTENDS Integers, Sequences, SequencesExt

CONSTANTS Bits,       \* width of int and unsigned int
          DIGITS,     \* size of the buffer for decimal digits
          HEXDIGITS   \* size of the buffer for hexadecimal digits

ASSUME FormatAssumption ==
    /\ {Bits, DIGITS, HEXDIGITS} \subseteq Nat \ {0}
    /\ 10^DIGITS >= 2^Bits
    /\ 16^HEXDIGITS >= 2^Bits

\* The words that are passed, and what they are as an int.
Words     == 0..(2^Bits - 1)
Signed(w) == IF w < 2^(Bits - 1) THEN w ELSE w - 2^Bits

lower == <<"0", "1", "2", "3", "4", "5", "6", "7", "8", "9", "a", "b", "c", "d", "e", "f">>
upper == <<"0", "1", "2", "3", "4", "5", "6", "7", "8", "9", "A", "B", "C", "D", "E", "F">>

\* Remainder and quotient as C has them: the quotient is rounded towards zero.
Rem(d, n) == IF d >= 0 THEN d % n ELSE -((-d) % n)
Quo(d, n) == IF d >= 0 THEN d \div n ELSE -((-d) \div n)

\* What is left of d when i digits have been taken off.
Left(d, base, size) ==
    LET left[i \in 0..size] == IF i = 0 THEN d ELSE Quo(left[i - 1], base)
    IN  left

\* msnz: the loop ends when nothing is left, or when the buffer is full.
Count(left, size) == CHOOSE n \in 0..size :
    /\ n = size \/ left[n] = 0
    /\ \A i \in 0..(n - 1) : left[i] # 0

Absolute(n) == IF n < 0 THEN -n ELSE n

\* The buffer is filled from its first digit and written out from its last.
Buffer(left, base, n, names) ==
    [i \in 1..n |-> names[Absolute(Rem(left[n - i], base)) + 1]]

\* Mutant: room for one digit less.
Numeral_short(d, base, size, names) ==
    Buffer(Left(d, base, size - 1), base, Count(Left(d, base, size - 1), size - 1), names)

Numeral(d, base, size, names) ==
    Buffer(Left(d, base, size), base, Count(Left(d, base, size), size), names)

io_writeuint(d) == IF d = 0 THEN <<"0">> ELSE Numeral(d, 10, DIGITS, lower)

io_writeint(d) ==
    IF d = 0 THEN <<"0">>
    ELSE (IF d > 0 THEN <<>> ELSE <<"-">>) \o Numeral(d, 10, DIGITS, lower)

internal_io_writeinthex(d, x, names) ==
    <<"0", x>> \o (IF d = 0 THEN <<"0">> ELSE Numeral(d, 16, HEXDIGITS, names))

io_writeptr(p) == internal_io_writeinthex(p, "x", lower)

io_writebool(b) == IF b THEN <<"t", "r", "u", "e">> ELSE <<"f", "a", "l", "s", "e">>

\* The conversion c of an argument: a word, or the string it points to.
Convert(c, word, str) ==
    CASE c = "s" -> str
      [] c = "c" -> SubSeq(str, 1, 1)
      [] c = "u" -> io_writeuint(word)
      [] c \in {"i", "d"} -> io_writeint(Signed(word))
      [] c = "b" -> io_writebool(word # 0)
      [] c = "p" -> io_writeptr(word)
      [] c = "x" -> internal_io_writeinthex(word, "x", lower)
      [] c = "X" -> internal_io_writeinthex(word, "X", upper)
      [] c = "%" -> <<"%">>
      [] OTHER   -> <<"%", c>>

\* The conversions that take an argument.
Takes(c) == c \in {"s", "c", "u", "i", "d", "b", "p", "x", "X"}

\* io_printf(): from[i, k] is what is printed from character i on, with argument k next.
io_printf(format, params) ==
    LET n == Len(format)
        from[i \in 1..(n + 2), k \in 1..(Len(params) + 1)] ==
            IF i > n THEN <<>>
            ELSE IF format[i] # "%" \/ i = n THEN <<format[i]>> \o from[i + 1, k]
            ELSE IF Takes(format[i + 1])
            THEN Convert(format[i + 1], params[k].word, params[k].str) \o from[i + 2, k + 1]
            ELSE Convert(format[i + 1], 0, <<>>) \o from[i + 2, k]
    IN  from[1, 1]
=============================================================================
