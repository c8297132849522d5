----------------------------- MODULE MCTerminal -----------------------------
(* An instance of Terminal for TLC: a screen of two rows of two characters. *)
EXTENDS Terminal, TLC

Conversion(c, w) == [spell |-> <<"%", c>>, conv |-> c, word |-> w, str |-> <<"s", "t">>]
Plain(spell, str) == [spell |-> spell, conv |-> "", word |-> 0, str |-> str]

\* The words at which the number of digits or the sign changes.
Edges == {0, 9, 16, 31}

MCItems ==
    {Conversion(c, w) : c \in {"u", "d", "x"}, w \in Edges}
    \cup {Conversion("X", 31), Conversion("p", 16), Conversion("b", 0), Conversion("b", 2), Conversion("s", 0), Conversion("c", 0)}
    \cup {Plain(<<"q">>, <<"q">>), Plain(<<"\n">>, <<"\n">>), Plain(<<"%", "%">>, <<"%">>),
          Plain(<<"%", "z">>, <<"%", "z">>), Plain(<<"%">>, <<"%">>)}

\* The threads are interchangeable.
MCSymmetry == Permutations(Threads)

\* Nothing is claimed of the screen once two threads were in terminal_putchar() at once.
OneByOne == ~raced
=============================================================================
