------------------------------ MODULE Terminal ------------------------------
(***************************************************************************)
(* The VGA text terminal (src/src/io/terminal.c) and the threads that      *)
(* write to it. Nothing protects the cursor: terminal_putchar() is one     *)
(* step per load and store here. The texts come from module Format.        *)
(***************************************************************************)
EXTENDS Format, FiniteSets, FiniteSetsExt

CONSTANTS Threads,
          VGA_WIDTH,
          VGA_HEIGHT,
          Colors,
          Items,      \* what clients print: see Formats
          MaxItems    \* bound: items printed and colours set, in all calls together

\* vga_entry_color (VGA_COLOR_LIGHT_GREY, VGA_COLOR_BLACK)
LightGrey == 7 + 0 * 2^4

ASSUME TerminalAssumption ==
    /\ IsFiniteSet(Threads)
    /\ {VGA_WIDTH, VGA_HEIGHT, MaxItems} \subseteq Nat \ {0}
    /\ LightGrey \in Colors
    /\ \A m \in Items : m.word \in Words

VARIABLES terminal_row, terminal_column, terminal_color, terminal_buffer,
          call,       \* where each thread is: the characters left to write, and a register
          printed,    \* the number of items printed and colours set
          shown,      \* history: the characters that terminal_putchar() was given, with their colour
          items,      \* history: what the last call was to print, and what it is printing
          raced,      \* history: two threads were in terminal_putchar() at once
          spilled     \* history: something was written outside of the screen

vars == <<terminal_row, terminal_column, terminal_color, terminal_buffer, call, printed, shown, items, raced, spilled>>

Cells == 0..(VGA_WIDTH * VGA_HEIGHT - 1)

Entry(c, color) == [c |-> c, color |-> color]

-----------------------------------------------------------------------------
(* terminal_putchar() *)

Step(t, from, to) ==
    /\ call[t].at = from
    /\ call' = [call EXCEPT ![t].at = to]

Busy(t) == call[t].at \notin {"client", "next"}

\* terminal_write(), io_writestr() and their like: the next character, or the end.
NextChar(t) ==
    /\ call[t].at = "next"
    /\ call[t].text # <<>>
    /\ call' = [call EXCEPT ![t].at = IF Head(call[t].text) = "\n" THEN "newline" ELSE "put"]
    /\ raced' = (raced \/ \E u \in Threads : Busy(u))
    /\ UNCHANGED <<terminal_row, terminal_column, terminal_color, terminal_buffer, printed, shown, items, spilled>>

Return(t) ==
    /\ call[t].text = <<>>
    /\ Step(t, "next", "client")
    /\ UNCHANGED <<terminal_row, terminal_column, terminal_color, terminal_buffer, printed, shown, items, raced, spilled>>

Show(t, color) == shown' = Append(shown, Entry(Head(call[t].text), color))

\* terminal_putentryat()
PutEntry(t) ==
    /\ Step(t, "put", "loadcol")
    /\ Show(t, terminal_color)
    /\ terminal_buffer' = [x \in Cells |->
          IF x = terminal_row * VGA_WIDTH + terminal_column THEN Entry(Head(call[t].text), terminal_color)
          ELSE terminal_buffer[x]]
    /\ spilled' = (spilled \/ terminal_row * VGA_WIDTH + terminal_column \notin Cells)
    /\ UNCHANGED <<terminal_row, terminal_column, terminal_color, printed, items, raced>>

LoadColumn(t) ==
    /\ call[t].at = "loadcol"
    /\ call' = [call EXCEPT ![t].at = "storecol", ![t].reg = terminal_column + 1]
    /\ UNCHANGED <<terminal_row, terminal_column, terminal_color, terminal_buffer, printed, shown, items, raced, spilled>>

Done(c) == [at |-> "next", text |-> Tail(c.text), reg |-> 0]

StoreColumn(t) ==
    /\ call[t].at = "storecol"
    /\ terminal_column' = call[t].reg
    /\ call' = [call EXCEPT ![t] = IF call[t].reg = VGA_WIDTH THEN [@ EXCEPT !.at = "newline"] ELSE Done(@)]
    /\ UNCHANGED <<terminal_row, terminal_color, terminal_buffer, printed, shown, items, raced, spilled>>

\* The column goes back, for a new line and at the end of a row alike.
ColumnBack(t) ==
    /\ Step(t, "newline", "loadrow")
    /\ terminal_column' = 0
    /\ IF Head(call[t].text) = "\n" THEN Show(t, terminal_color) ELSE UNCHANGED shown
    /\ UNCHANGED <<terminal_row, terminal_color, terminal_buffer, printed, items, raced, spilled>>

LoadRow(t) ==
    /\ call[t].at = "loadrow"
    /\ call' = [call EXCEPT ![t].at = "storerow", ![t].reg = terminal_row + 1]
    /\ UNCHANGED <<terminal_row, terminal_column, terminal_color, terminal_buffer, printed, shown, items, raced, spilled>>

StoreRow(t) ==
    /\ call[t].at = "storerow"
    /\ terminal_row' = call[t].reg
    /\ call' = [call EXCEPT ![t] = IF call[t].reg = VGA_HEIGHT THEN [@ EXCEPT !.at = "top"] ELSE Done(@)]
    /\ UNCHANGED <<terminal_column, terminal_color, terminal_buffer, printed, shown, items, raced, spilled>>

\* Mutant: the row below the last one is the last one.
RowBack_stay(t) ==
    /\ call[t].at = "top"
    /\ terminal_row' = VGA_HEIGHT - 1
    /\ call' = [call EXCEPT ![t] = Done(@)]
    /\ UNCHANGED <<terminal_column, terminal_color, terminal_buffer, printed, shown, items, raced, spilled>>

\* After the last row comes the first.
RowBack(t) ==
    /\ call[t].at = "top"
    /\ terminal_row' = 0
    /\ call' = [call EXCEPT ![t] = Done(@)]
    /\ UNCHANGED <<terminal_column, terminal_color, terminal_buffer, printed, shown, items, raced, spilled>>

-----------------------------------------------------------------------------
(* The calls *)

Call(t, text, of) ==
    /\ call[t].at = "client"
    /\ printed + Len(of) <= MaxItems
    /\ printed' = printed + Len(of)
    /\ call' = [call EXCEPT ![t] = [at |-> "next", text |-> text, reg |-> 0]]
    /\ items' = [of |-> of, text |-> text]
    /\ UNCHANGED <<terminal_row, terminal_column, terminal_color, terminal_buffer, shown, raced, spilled>>

\* A format is made of items: [spell, conv, word, str], where conv is the conversion, or
\* "" for an item without argument, which is to appear as str.
Spelled(f) == FlattenSeq([i \in DOMAIN f |-> f[i].spell])
Params(f)  == SelectSeq(f, LAMBDA m : m.conv # "")

\* A lone % can only be at the end of a format.
Formats == {f \in SeqOf(Items, MaxItems) :
               f # <<>> /\ \A i \in 1..(Len(f) - 1) : f[i].spell # <<"%">>}

terminal_printf(t) == \E f \in Formats : Call(t, io_printf(Spelled(f), Params(f)), f)

\* terminal_writestr(), which is terminal_write() of the whole string.
terminal_writestr(t) == \E m \in {n \in Items : n.conv = ""} : Call(t, m.str, <<m>>)

\* The argument is unsigned, and printed as an int.
terminal_writeint(t) == \E m \in {n \in Items : n.conv = "d"} : Call(t, io_writeint(Signed(m.word)), <<m>>)

terminal_writebool(t) == \E m \in {n \in Items : n.conv = "b"} : Call(t, io_writebool(m.word # 0), <<m>>)

SetColor(t) ==
    /\ call[t].at = "client"
    /\ printed < MaxItems
    /\ printed' = printed + 1
    /\ terminal_color' \in Colors
    /\ UNCHANGED <<terminal_row, terminal_column, terminal_buffer, call, shown, items, raced, spilled>>

-----------------------------------------------------------------------------
\* terminal_init()
Init ==
    /\ terminal_row = 0 /\ terminal_column = 0
    /\ terminal_color = LightGrey
    /\ terminal_buffer = [x \in Cells |-> Entry(" ", terminal_color)]
    /\ call = [t \in Threads |-> [at |-> "client", text |-> <<>>, reg |-> 0]]
    /\ printed = 0
    /\ shown = <<>>
    /\ items = [of |-> <<>>, text |-> <<>>]
    /\ raced = FALSE /\ spilled = FALSE

putchar(t) ==
    \/ PutEntry(t)
    \/ LoadColumn(t)
    \/ StoreColumn(t)
    \/ ColumnBack(t)
    \/ LoadRow(t)
    \/ StoreRow(t)
    \/ RowBack(t)

Next == \E t \in Threads :
    \/ terminal_printf(t)
    \/ terminal_writestr(t)
    \/ terminal_writeint(t)
    \/ terminal_writebool(t)
    \/ SetColor(t)
    \/ NextChar(t)
    \/ putchar(t)
    \/ Return(t)

Spec == Init /\ [][Next]_vars

-----------------------------------------------------------------------------
(* Properties *)

\* Where character i of what was written belongs, found without a cursor: a line of n
\* characters takes n \div VGA_WIDTH + 1 rows, and rows are used in turn.
Newlines(i) == {j \in 1..(i - 1) : shown[j].c = "\n"}
LineStart(i) == IF Newlines(i) = {} THEN 1 ELSE Max(Newlines(i)) + 1
RowsAbove(i) == MapThenSumSet(LAMBDA j : (j - LineStart(j)) \div VGA_WIDTH + 1, Newlines(i))
Place(i) ==
    LET k == i - LineStart(i)
    IN  ((RowsAbove(i) + k \div VGA_WIDTH) % VGA_HEIGHT) * VGA_WIDTH + (k % VGA_WIDTH)

\* The characters that belong into cell x; the last one is seen.
Into(x) == {i \in DOMAIN shown : shown[i].c # "\n" /\ Place(i) = x}

\* Between characters, as long as no two threads were in terminal_putchar() at once, the
\* screen shows what was written, wrapped at both of its ends, nothing was written beside
\* it, and the cursor is where the next character belongs.
ScreenShowsText ==
    ~raced /\ (\A t \in Threads : ~Busy(t)) =>
        /\ ~spilled
        /\ \A x \in Cells : Into(x) # {} => terminal_buffer[x] = shown[Max(Into(x))]
        /\ \A x \in Cells : Into(x) = {} => terminal_buffer[x].c = " "
        /\ terminal_row * VGA_WIDTH + terminal_column = Place(Len(shown) + 1)

\* The numeral of n in a base: as many digits as it needs, and no leading zero.
Digits(n, base, names) ==
    LET k == CHOOSE k \in 1..(DIGITS + Bits) : base^k > n /\ (k = 1 \/ base^(k - 1) <= n)
    IN  [i \in 1..k |-> names[((n \div base^(k - i)) % base) + 1]]

Meant(m) ==
    CASE m.conv = ""  -> m.str
      [] m.conv = "s" -> m.str
      [] m.conv = "c" -> <<Head(m.str)>>
      [] m.conv = "u" -> Digits(m.word, 10, lower)
      [] m.conv = "d" -> (IF 2 * m.word >= 2^Bits THEN <<"-">> ELSE <<>>) \o
                         Digits(Absolute(Signed(m.word)), 10, lower)
      [] m.conv = "X" -> <<"0", "X">> \o Digits(m.word, 16, upper)
      [] m.conv = "b" -> IF m.word = 0 THEN <<"f", "a", "l", "s", "e">> ELSE <<"t", "r", "u", "e">>
      [] OTHER        -> <<"0", "x">> \o Digits(m.word, 16, lower)

\* Whatever items a format is made of, io_printf() prints each as it is meant, with the
\* argument that belongs to it: every number up to the smallest int, in full, whatever
\* the neighbouring items are.
PrintedAsMeant == items.text = FlattenSeq([i \in DOMAIN items.of |-> Meant(items.of[i])])
=============================================================================
