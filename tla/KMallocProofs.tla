--------------------------- MODULE KMallocProofs ---------------------------
(***************************************************************************)
(* Theorems about the kernel heap: for every alignment, page size, memory  *)
(* map and number of blocks, and for all sizes whose sums fit into a word. *)
(*                                                                         *)
(* The free list is a chain of intervals. Inserting, removing and merging  *)
(* intervals is treated first without the memory they are in (ChainInsert, *)
(* ChainRemove, ChainMerge), then for the list (Insert, Unlink), then for  *)
(* the blocks that tile the heap (PutBack, TakeOut, Extend, Join). Each    *)
(* operation is a sequence of these, and says which blocks it leaves       *)
(* alone, to the last word (Keeps, Becomes).                               *)
(*                                                                         *)
(* The invariant (Sound) says of every step of a call which block is       *)
(* pending, neither free nor in use, and what the call has found out that  *)
(* its later steps rely on (CallOK). A kfree() of the timer interrupt      *)
(* keeps that (ReapsWell), except between a walk and its stores, where     *)
(* torn becomes TRUE and nothing is claimed from then on.                  *)
(***************************************************************************)
EXTENDS KMalloc, SequenceTheorems, WellFoundedInduction, TLAPS

-----------------------------------------------------------------------------
(* Chains: n intervals, with their places F and lengths Z *)

Intervals(n, F, Z) ==
    /\ F \in [1..n -> Nat] /\ Z \in [1..n -> Nat]
    /\ \A i \in 1..n : Z[i] > 0

\* They are in order, and only those in T may touch the next one.
Chain(n, F, Z, T) ==
    /\ Intervals(n, F, Z)
    /\ \A i, j \in 1..n : i < j => F[i] + Z[i] <= F[j] /\ (i \notin T => F[i] + Z[i] < F[j])

\* What they cover.
Cover(n, F, Z) == {a \in Nat : \E i \in 1..n : F[i] <= a /\ a < F[i] + Z[i]}

\* Interval i of one chain is interval j of another.
Same(F, Z, i, G, Y, j) == F[i] = G[j] /\ Z[i] = Y[j]

\* An interval at b of length s covers nothing of them, and goes to place i.
Clear(n, F, Z, b, s) == \A a \in b..(b + s - 1) : a \notin Cover(n, F, Z)
GoesTo(n, F, b, i) == (\A j \in 1..n : j < i => F[j] <= b) /\ (i <= n => b < F[i])

\* G and Y are the chain F and Z with b and s put in at i, or without i, or with i
\* and its successor made one.
Inserted(n, F, Z, i, b, s, G, Y) ==
    /\ G[i] = b /\ Y[i] = s
    /\ \A j \in 1..n : j < i => Same(F, Z, j, G, Y, j)
    /\ \A j \in 1..n : j >= i => Same(F, Z, j, G, Y, j + 1)
Removed(n, F, Z, i, G, Y) ==
    /\ \A j \in 1..n : j < i => Same(F, Z, j, G, Y, j)
    /\ \A j \in 1..n : j > i => Same(F, Z, j, G, Y, j - 1)
Merged(n, F, Z, i, G, Y) ==
    /\ \A j \in 1..n : j < i => Same(F, Z, j, G, Y, j)
    /\ G[i] = F[i] /\ Y[i] = Z[i] + Z[i + 1]
    /\ \A j \in 1..n : j > i + 1 => Same(F, Z, j, G, Y, j - 1)

-----------------------------------------------------------------------------
(* The inductive invariant *)

Heaps == [mem : [Addresses -> Values \cup {Junk} \cup Headers], free : Seq(Addresses),
          end : Nat, max : Nat, halt : {"none", "oom", "assert"}]

\* There is a block at b, in use or not.
Block(h, b, taken) ==
    /\ b \in Addresses
    /\ h.mem[b] \in Headers /\ h.mem[b].alloc = taken
    /\ SizeOf(h, b) > 0 /\ SizeOf(h, b) % Alignment = 0
    /\ b + SizeOf(h, b) <= h.end

\* The bytes of some blocks, and those that are free.
Bytes(h, S) == UNION {Extent(h, b) : b \in S}
Held(h) == Bytes(h, Range(h.free))

\* The free list is sorted, and only the blocks at the places T may touch their
\* successors.
Places(h) == [i \in 1..Len(h.free) |-> h.free[i]]
Lengths(h) == [i \in 1..Len(h.free) |-> SizeOf(h, h.free[i])]

Sorted(h, T) ==
    /\ \A i \in DOMAIN h.free : Block(h, h.free[i], FALSE)
    /\ Chain(Len(h.free), Places(h), Lengths(h), T)

FreeList(h) == Sorted(h, {})

\* The end of the heap is where it may be.
Inside(h) ==
    /\ kheap_begin <= h.end /\ h.end <= h.max /\ h.max <= MemoryEnd
    /\ h.end % Alignment = 0

\* The blocks in S and the free ones tile the heap.
Whole(h, b) == Block(h, b, h.mem[b].alloc)
Apart(h, S) == \A u, v \in S : u # v => Extent(h, u) \cap Extent(h, v) = {}

Tiles(h, S) ==
    /\ FreeList(h) /\ Inside(h)
    /\ (\A u \in S : Whole(h, u)) /\ Apart(h, S)
    /\ Held(h) \cap Bytes(h, S) = {}
    /\ Held(h) \cup Bytes(h, S) = kheap_begin..(h.end - 1)

\* The blocks of the heap are the free ones, those in U, which are in use, and those in X.
HeapOK(h, U, X) ==
    /\ Tiles(h, U \cup X)
    /\ \A u \in U : Block(h, u, TRUE)
    /\ \A u \in X : Block(h, u, FALSE)

\* What the clients were promised of their blocks.
Entries == [asked : Nat, written : Nat, value : Values \cup {Junk}]
Entry(h, p, e) ==
    /\ e \in Entries
    /\ e.written <= e.asked /\ e.asked <= SizeOf(h, p - Header) - Header
    /\ \A w \in WordsOf(p, e.written) : h.mem[w] = e.value

\* The blocks that some pointers are to; a ledger that agrees with a heap in which the
\* blocks X are pending.
Heads(D) == {p - Header : p \in D}
Agrees(h, l, X) ==
    /\ DOMAIN l \subseteq Nat /\ Heads(DOMAIN l) \cup X \subseteq Addresses
    /\ h.halt = "none" => /\ HeapOK(h, Heads(DOMAIN l), X)
                          /\ \A p \in DOMAIN l : Entry(h, p, l[p])

\* Calls, with the block that is pending, the one to be put into the free list, and the
\* pointers that are worked on.
Steps == {"none", "find", "take", "grow", "place", "link", "mark", "zero", "copy", "free"}
Works == {"none", "malloc", "calloc", "move", "resize", "free"}
Calls == [at : Steps, op : Works, ptr : Nat \cup {NULL}, asked : Nat, block : Nat \cup {NULL},
          size : Nat, prev : Nat \cup {NULL}, next : Nat \cup {NULL}]

Pends(c) == IF c.at \in {"place", "link", "mark"} /\ c.op # "resize" THEN {c.block} ELSE {}
Inserts(c) == IF c.op = "free" THEN c.block ELSE Remainder(c)
Uses(c) == {c.ptr} \cup {Pointer(b) : b \in {c.block} \ {NULL}}

\* Nothing that is computed for a request of m bytes overflows.
FitsWord(m) == MemoryEnd + m + 2 * Alignment + PageSize <= Word

\* A call that is to give out a block, and one that resizes its client's.
Wants(h, l, c) ==
    /\ c.op \in {"malloc", "calloc", "move"}
    /\ FitsWord(c.asked) /\ c.size = TargetSize(c.asked)
    /\ c.op = "move" => c.ptr \in DOMAIN l /\ SizeOf(h, c.ptr - Header) < c.size
Fitting(l, c) ==
    /\ c.op = "resize" /\ c.ptr \in DOMAIN l /\ c.block = c.ptr - Header
    /\ FitsWord(c.asked) /\ c.size = TargetSize(c.asked)

\* Block b is in the free list, behind prev; block b belongs between prev and next.
Found(h, b, prev) == \E i \in 1..Len(h.free) : h.free[i] = b /\ prev = Before(h.free, i)
Between(h, b, prev, next) ==
    LET i == Place(h.free, b)
    IN  prev = Before(h.free, i) /\ next = IF i <= Len(h.free) THEN h.free[i] ELSE NULL

\* Block b is to be cut down to t bytes, and has the header of its rest already.
Cutting(h, b, t) ==
    /\ t + Alignment <= SizeOf(h, b)
    /\ h.mem[b + t] = [size |-> SizeOf(h, b) - t, alloc |-> FALSE]

\* What a call relies on at each of its steps.
Takes(h, l, c) ==
    /\ Wants(h, l, c)
    /\ c.block = NULL \/ (Found(h, c.block, c.prev) /\ c.size <= SizeOf(h, c.block))
Grows(h, l, c) ==
    /\ Fitting(l, c) /\ Found(h, c.next, c.prev) /\ c.next = c.block + SizeOf(h, c.block)
    /\ c.size <= SizeOf(h, c.block) + SizeOf(h, c.next)
Puts(h, l, c) ==
    c.op # "free" =>
        /\ Wants(h, l, c) \/ (Fitting(l, c) /\ l[c.ptr].asked = c.asked)
        /\ Cutting(h, c.block, c.size)
Zeroes(l, c) ==
    /\ c.block # NULL /\ Pointer(c.block) \in DOMAIN l
    /\ l[Pointer(c.block)].asked = c.asked /\ FitsWord(c.asked)
Copies(h, l, c) ==
    /\ c.block # NULL /\ c.ptr \in DOMAIN l /\ Pointer(c.block) \in DOMAIN l \ {c.ptr}
    /\ l[Pointer(c.block)].asked = c.asked
    /\ SizeOf(h, c.ptr - Header) <= SizeOf(h, c.block)

CallOK(h, l, c) ==
    /\ c.at = "find" => Wants(h, l, c)
    /\ c.at = "take" => Takes(h, l, c)
    /\ c.at = "grow" => Grows(h, l, c)
    /\ c.at \in {"place", "link"} => Puts(h, l, c)
    /\ c.at = "link" => Between(h, Inserts(c), c.prev, c.next)
    /\ c.at = "mark" => Wants(h, l, c) /\ c.size <= SizeOf(h, c.block)
    /\ c.at = "zero" => Zeroes(l, c)
    /\ c.at = "copy" => Copies(h, l, c)
    /\ c.at = "free" => c.ptr \in DOMAIN l /\ c.block # NULL

\* The heap, the ledger and the call fit together.
Sound(h, l, c) ==
    /\ h \in Heaps /\ h.halt # "assert" /\ c \in Calls /\ Agrees(h, l, Pends(c))
    /\ h.halt = "none" => CallOK(h, l, c)

IInv ==
    /\ torn \in BOOLEAN
    /\ ~torn => Sound(heap, live, call) /\ stats \in [cnt : Int, bytes : Int]

-----------------------------------------------------------------------------
(* Arithmetic *)

\* A number without remainder is a multiple, and a multiple has none.
LEMMA Multiples ==
    ASSUME NEW a \in Nat \ {0}, NEW x \in Nat
    PROVE  x % a = 0 <=> \E q \in Nat : x = a * q
  <1>1. ASSUME x % a = 0 PROVE \E q \in Nat : x = a * q
    <2>1. x \div a \in Nat /\ x = a * (x \div a)
      BY <1>1
    <2> QED
      BY <2>1
  <1>2. ASSUME NEW q \in Nat, x = a * q PROVE x % a = 0
    BY <1>2
  <1> QED
    BY <1>1, <1>2

\* Multiples add up to multiples.
LEMMA MultipleSum ==
    ASSUME NEW a \in Nat \ {0}, NEW x \in Nat, NEW y \in Nat, x % a = 0, y % a = 0
    PROVE  (x + y) % a = 0
  <1>1. PICK p \in Nat : x = a * p
    BY Multiples
  <1>2. PICK q \in Nat : y = a * q
    BY Multiples
  <1>3. x + y = a * (p + q) /\ p + q \in Nat /\ x + y \in Nat
    BY <1>1, <1>2
  <1> QED
    BY <1>3, Multiples

\* The difference of two multiples is one.
LEMMA MultipleDifference ==
    ASSUME NEW a \in Nat \ {0}, NEW x \in Nat, NEW y \in Nat, x % a = 0, y % a = 0, y <= x
    PROVE  (x - y) % a = 0 /\ x - y \in Nat
  <1>1. PICK p \in Nat : x = a * p
    BY Multiples
  <1>2. PICK q \in Nat : y = a * q
    BY Multiples
  <1>3. x - y = a * (p - q) /\ p - q \in Nat /\ x - y \in Nat
    BY <1>1, <1>2
  <1> QED
    BY <1>3, Multiples

\* Between two neighbouring multiples there is none.
LEMMA MultipleGap ==
    ASSUME NEW a \in Nat \ {0}, NEW x \in Nat, NEW y \in Nat, x % a = 0, y % a = 0, y < x
    PROVE  y + a <= x
  <1>1. PICK p \in Nat : x = a * p
    BY Multiples
  <1>2. PICK q \in Nat : y = a * q
    BY Multiples
  <1>3. q + 1 <= p
    BY <1>1, <1>2
  <1>4. a * (q + 1) <= a * p
    BY <1>3
  <1> QED
    BY <1>1, <1>2, <1>4

\* A multiple of a multiple is a multiple.
LEMMA MultipleOfMultiple ==
    ASSUME NEW a \in Nat \ {0}, NEW p \in Nat \ {0}, NEW y \in Nat, p % a = 0, y % p = 0
    PROVE  y % a = 0
  <1>1. PICK i \in Nat : p = a * i
    BY Multiples
  <1>2. PICK j \in Nat : y = p * j
    BY Multiples
  <1>3. y = a * (i * j) /\ i * j \in Nat
    BY <1>1, <1>2
  <1> QED
    BY <1>3, Multiples

\* KMALLOC_ALIGN rounds up to the next multiple, if the sum does not overflow.
LEMMA AlignRoundsUp ==
    ASSUME NEW a \in Nat \ {0}, NEW x \in Nat, x + a <= Word
    PROVE  /\ Align(x, a) \in Nat /\ Align(x, a) % a = 0
           /\ x <= Align(x, a) /\ Align(x, a) < x + a
  <1>1. Word \in Nat \ {0}
    BY HeapAssumption
  <1>2. x + a - 1 \in 0..(Word - 1)
    BY <1>1
  <1>3. (x + a - 1) % Word = x + a - 1
    BY <1>1, <1>2
  <1>4. Align(x, a) = ((x + a - 1) \div a) * a
    BY <1>3 DEF Align
  <1> QED
    BY <1>4

\* Sets of numbers have a least one.
LEMMA LeastNumber ==
    ASSUME NEW T, T \subseteq Nat, T # {}
    PROVE  Min(T) \in T /\ \A y \in T : Min(T) <= y
  <1> DEFINE R == OpToRel(<, Nat)
  <1>1. IsWellFoundedOn(R, Nat)
    BY NatLessThanWellFounded
  <1>2. \A x, y \in Nat : x < y => <<x, y>> \in R
    BY DEF OpToRel
  <1> HIDE DEF R
  <1>3. PICK x \in T : \A y \in T : ~ (<<y, x>> \in R)
    BY <1>1, WFMin
  <1>4. ASSUME NEW y \in T PROVE x <= y
    <2>1. x \in Nat /\ y \in Nat /\ ~(y < x)
      BY <1>2, <1>3
    <2> QED
      BY <2>1
  <1> QED
    BY <1>3, <1>4 DEF Min

-----------------------------------------------------------------------------
(* Lists *)

\* What RemoveAt leaves.
LEMMA RemoveList ==
    ASSUME NEW S, NEW s \in Seq(S), NEW i \in DOMAIN s
    PROVE  /\ RemoveAt(s, i) \in Seq(S)
           /\ Len(RemoveAt(s, i)) = Len(s) - 1
           /\ \A j \in 1..(Len(s) - 1) : RemoveAt(s, i)[j] = IF j < i THEN s[j] ELSE s[j + 1]
  <1> DEFINE l == SubSeq(s, 1, i - 1)
             r == SubSeq(s, i + 1, Len(s))
  <1>1. i \in 1..Len(s) /\ Len(s) \in Nat
    OBVIOUS
  <1>2. l \in Seq(S) /\ Len(l) = i - 1 /\ \A j \in 1..(i - 1) : l[j] = s[j]
    BY <1>1
  <1>3. r \in Seq(S) /\ Len(r) = Len(s) - i /\ \A j \in 1..(Len(s) - i) : r[j] = s[i + j]
    BY <1>1
  <1> HIDE DEF l, r
  <1>4. l \o r \in Seq(S) /\ Len(l \o r) = Len(s) - 1
    BY <1>1, <1>2, <1>3
  <1>5. ASSUME NEW j \in 1..(Len(s) - 1) PROVE (l \o r)[j] = IF j < i THEN s[j] ELSE s[j + 1]
    <2>1. CASE j < i
      BY <1>1, <1>2, <1>3, <2>1
    <2>2. CASE ~(j < i)
      <3>1. j - (i - 1) \in 1..(Len(s) - i) /\ i + (j - (i - 1)) = j + 1
        BY <1>1, <2>2
      <3>2. (l \o r)[j] = r[j - (i - 1)]
        <4>1. PICK L \in Seq(S) : L = l
          BY <1>2
        <4>2. PICK R \in Seq(S) : R = r
          BY <1>3
        <4>3. Len(L) = i - 1 /\ Len(R) = Len(s) - i /\ j \in Nat /\ i \in Nat /\ Len(s) \in Nat
          BY <1>1, <1>2, <1>3, <4>1, <4>2
        <4>4. j \in 1..(Len(L) + Len(R)) /\ j > Len(L)
          BY <2>2, <4>3
        <4>5. (L \o R)[j] = R[j - Len(L)]
          BY ONLY L \in Seq(S), R \in Seq(S), <4>4
        <4> QED
          BY <4>1, <4>2, <4>3, <4>5
      <3> QED
        BY <1>3, <2>2, <3>1, <3>2
    <2> QED
      BY <2>1, <2>2
  <1> QED
    BY <1>4, <1>5 DEF RemoveAt, l, r

\* List f is list s with b put in at place i.
PutIn(s, b, i, f) ==
    /\ Len(f) = Len(s) + 1
    /\ \A j \in 1..(Len(s) + 1) : f[j] = IF j < i THEN s[j] ELSE IF j = i THEN b ELSE s[j - 1]

\* What InsertAt makes.
LEMMA InsertList ==
    ASSUME NEW S, NEW s \in Seq(S), NEW i \in 1..(Len(s) + 1), NEW e \in S
    PROVE  InsertAt(s, i, e) \in Seq(S) /\ PutIn(s, e, i, InsertAt(s, i, e))
  <1> DEFINE l == SubSeq(s, 1, i - 1)
             r == SubSeq(s, i, Len(s))
  <1>1. Len(s) \in Nat
    OBVIOUS
  <1>2. l \in Seq(S) /\ Len(l) = i - 1 /\ \A j \in 1..(i - 1) : l[j] = s[j]
    BY <1>1
  <1>3. r \in Seq(S) /\ Len(r) = Len(s) - i + 1 /\ \A j \in 1..(Len(s) - i + 1) : r[j] = s[i + j - 1]
    BY <1>1
  <1> HIDE DEF l, r
  <1>4. PICK m \in Seq(S) : m = l \o <<e>>
    <2>1. <<e>> \in Seq(S)
      OBVIOUS
    <2>2. l \o <<e>> \in Seq(S)
      BY <1>2, <2>1
    <2> QED
      BY <2>2
  <1>5. Len(m) = i /\ (\A j \in 1..(i - 1) : m[j] = s[j]) /\ m[i] = e
    BY <1>1, <1>2, <1>4
  <1>6. m \o r \in Seq(S) /\ Len(m \o r) = Len(s) + 1
    BY <1>1, <1>3, <1>5
  <1>7. ASSUME NEW j \in 1..(Len(s) + 1)
        PROVE  (m \o r)[j] = IF j < i THEN s[j] ELSE IF j = i THEN e ELSE s[j - 1]
    <2>1. CASE j <= i
      BY <1>1, <1>3, <1>5, <2>1
    <2>2. CASE ~(j <= i)
      <3>1. j - i \in 1..(Len(s) - i + 1) /\ i + (j - i) - 1 = j - 1
        BY <1>1, <2>2
      <3>2. (m \o r)[j] = r[j - i]
        BY <1>1, <1>3, <1>5, <2>2
      <3> QED
        BY <1>3, <2>2, <3>1, <3>2
    <2> QED
      BY <2>1, <2>2
  <1> QED
    BY <1>4, <1>6, <1>7 DEF InsertAt, PutIn, l, r

-----------------------------------------------------------------------------
(* Chains *)

\* No place behind i is in T.
NoneBehind(T, i, n) == \A k \in (i + 1)..n : k \notin T

\* One interval.
LEMMA IntervalFacts ==
    ASSUME NEW n \in Nat, NEW F, NEW Z, Intervals(n, F, Z), NEW i \in 1..n
    PROVE  F[i] \in Nat /\ Z[i] \in Nat /\ Z[i] > 0
  BY DEF Intervals

\* Two intervals of a chain.
LEMMA ChainFacts ==
    ASSUME NEW n \in Nat, NEW F, NEW Z, NEW T, Chain(n, F, Z, T),
           NEW i \in 1..n, NEW j \in 1..n, i < j
    PROVE  /\ F[i] \in Nat /\ Z[i] \in Nat /\ Z[i] > 0
           /\ F[j] \in Nat /\ Z[j] \in Nat /\ Z[j] > 0
           /\ F[i] + Z[i] <= F[j] /\ F[i] < F[j]
           /\ i \notin T => F[i] + Z[i] < F[j]
  <1>1. /\ F[i] \in Nat /\ Z[i] \in Nat /\ Z[i] > 0
        /\ F[j] \in Nat /\ Z[j] \in Nat /\ Z[j] > 0
    BY IntervalFacts DEF Chain
  <1>2. F[i] + Z[i] <= F[j] /\ (i \notin T => F[i] + Z[i] < F[j])
    BY DEF Chain
  <1> QED
    BY <1>1, <1>2

\* What an interval covers.
LEMMA CoverFacts ==
    ASSUME NEW n \in Nat, NEW F, NEW Z, Intervals(n, F, Z)
    PROVE  /\ \A i \in 1..n : \A a \in F[i]..(F[i] + Z[i] - 1) : a \in Cover(n, F, Z)
           /\ \A i \in 1..n : F[i] \in Cover(n, F, Z)
           /\ \A a \in Cover(n, F, Z) : a \in Nat /\ \E i \in 1..n : a \in F[i]..(F[i] + Z[i] - 1)
  <1>1. ASSUME NEW i \in 1..n, NEW a \in F[i]..(F[i] + Z[i] - 1) PROVE a \in Cover(n, F, Z)
    <2>1. F[i] \in Nat /\ Z[i] \in Nat
      BY IntervalFacts
    <2>2. a \in Nat /\ F[i] <= a /\ a < F[i] + Z[i]
      BY <1>1, <2>1
    <2> QED
      BY <2>2 DEF Cover
  <1>2. ASSUME NEW i \in 1..n PROVE F[i] \in F[i]..(F[i] + Z[i] - 1)
    BY IntervalFacts
  <1>3. ASSUME NEW a \in Cover(n, F, Z)
        PROVE  a \in Nat /\ \E i \in 1..n : a \in F[i]..(F[i] + Z[i] - 1)
    <2>1. a \in Nat
      BY DEF Cover
    <2>2. PICK i \in 1..n : F[i] <= a /\ a < F[i] + Z[i]
      BY DEF Cover
    <2>3. F[i] \in Nat /\ Z[i] \in Nat
      BY IntervalFacts
    <2>4. a \in F[i]..(F[i] + Z[i] - 1)
      BY <2>1, <2>2, <2>3
    <2> QED
      BY <2>1, <2>4
  <1> QED
    BY <1>1, <1>2, <1>3

\* If interval i does not touch the next one, it touches none.
LEMMA ChainApart ==
    ASSUME NEW n \in Nat, NEW F, NEW Z, NEW T, Chain(n, F, Z, T), NEW i \in 1..n,
           i < n => F[i] + Z[i] # F[i + 1]
    PROVE  Chain(n, F, Z, T \ {i})
  <1>1. ASSUME NEW j \in 1..n, NEW k \in 1..n, j < k
        PROVE  F[j] + Z[j] <= F[k] /\ (j \notin T \ {i} => F[j] + Z[j] < F[k])
    <2>1. /\ F[j] \in Nat /\ Z[j] \in Nat /\ F[k] \in Nat
          /\ F[j] + Z[j] <= F[k] /\ (j \notin T => F[j] + Z[j] < F[k])
      BY <1>1, ChainFacts
    <2>2. CASE j # i
      BY <2>1, <2>2
    <2>3. CASE j = i /\ k = i + 1
      <3>1. F[j] + Z[j] # F[k]
        BY <1>1, <2>3
      <3> QED
        BY <2>1, <3>1
    <2>4. CASE j = i /\ k # i + 1
      <3>1. i + 1 \in 1..n /\ i + 1 < k /\ i < i + 1
        BY <1>1, <2>4
      <3>2. F[i] + Z[i] <= F[i + 1] /\ F[i + 1] \in Nat
        BY <3>1, ChainFacts
      <3>3. F[i + 1] < F[k]
        BY <3>1, ChainFacts
      <3> QED
        BY <2>1, <2>4, <3>2, <3>3
    <2> QED
      BY <2>2, <2>3, <2>4
  <1> QED
    BY <1>1 DEF Chain

\* If interval i, the last that may do so, touches the next one, they can become one.
LEMMA ChainMerge ==
    ASSUME NEW n \in Nat, NEW F, NEW Z, NEW T, Chain(n, F, Z, T), NEW i \in 1..(n - 1),
           F[i] + Z[i] = F[i + 1], NoneBehind(T, i, n),
           NEW G, NEW Y, Intervals(n - 1, G, Y), Merged(n, F, Z, i, G, Y)
    PROVE  /\ Chain(n - 1, G, Y, T \ {i})
           /\ Cover(n - 1, G, Y) = Cover(n, F, Z)
  <1>1. /\ i \in 1..n /\ i + 1 \in 1..n /\ i < i + 1 /\ n - 1 \in Nat
        /\ Intervals(n, F, Z)
    BY DEF Chain
  <1>2. /\ F[i] \in Nat /\ Z[i] \in Nat /\ Z[i + 1] \in Nat /\ F[i + 1] \in Nat
        /\ G[i] = F[i] /\ Y[i] = Z[i] + Z[i + 1]
    BY <1>1, IntervalFacts DEF Merged
  <1>3. ASSUME NEW j \in 1..n, j < i PROVE G[j] = F[j] /\ Y[j] = Z[j]
    BY <1>3 DEF Merged, Same
  <1>4. ASSUME NEW j \in 1..n, j > i + 1 PROVE G[j - 1] = F[j] /\ Y[j - 1] = Z[j]
    BY <1>4 DEF Merged, Same
  <1>5. ASSUME NEW j \in 1..(n - 1), j > i PROVE G[j] = F[j + 1] /\ Y[j] = Z[j + 1]
    <2>1. j + 1 \in 1..n /\ j + 1 > i + 1 /\ (j + 1) - 1 = j
      BY <1>5
    <2> QED
      BY <1>4, <2>1
  <1>6. ASSUME NEW j \in 1..(n - 1), NEW k \in 1..(n - 1), j < k
        PROVE  G[j] + Y[j] <= G[k] /\ (j \notin T \ {i} => G[j] + Y[j] < G[k])
    <2>1. CASE k <= i
      <3>1. j \in 1..n /\ k \in 1..n /\ j < i
        BY <1>6, <2>1
      <3>2. F[j] + Z[j] <= F[k] /\ (j \notin T => F[j] + Z[j] < F[k])
        BY <1>6, <3>1, ChainFacts
      <3>3. G[k] = F[k]
        BY <1>2, <1>3, <2>1, <3>1
      <3>4. G[j] = F[j] /\ Y[j] = Z[j]
        BY <1>3, <3>1
      <3> QED
        BY <3>1, <3>2, <3>3, <3>4
    <2>2. CASE j < i /\ k > i
      <3>1. j \in 1..n /\ k + 1 \in 1..n /\ j < k + 1
        BY <1>6, <2>2
      <3>2. F[j] + Z[j] <= F[k + 1] /\ (j \notin T => F[j] + Z[j] < F[k + 1])
        BY <3>1, ChainFacts
      <3>3. G[k] = F[k + 1] /\ G[j] = F[j] /\ Y[j] = Z[j]
        BY <1>3, <1>5, <2>2, <3>1
      <3> QED
        BY <2>2, <3>2, <3>3
    <2>3. CASE j = i
      <3>1. k + 1 \in 1..n /\ i + 1 < k + 1 /\ k > i /\ i + 1 \notin T
        BY <1>1, <1>6, <2>3 DEF NoneBehind
      <3>2. F[i + 1] + Z[i + 1] < F[k + 1] /\ F[k + 1] \in Nat
        BY <1>1, <3>1, ChainFacts
      <3>3. G[k] = F[k + 1]
        BY <1>5, <3>1
      <3>4. F[i] + (Z[i] + Z[i + 1]) = F[i + 1] + Z[i + 1]
        BY <1>2
      <3>5. G[j] + Y[j] = F[i + 1] + Z[i + 1]
        BY <1>2, <2>3, <3>4
      <3> QED
        BY <1>2, <3>2, <3>3, <3>5
    <2>4. CASE j > i
      <3>1. j + 1 \in 1..n /\ k + 1 \in 1..n /\ j + 1 < k + 1 /\ j + 1 \notin T /\ k > i
        BY <1>6, <2>4 DEF NoneBehind
      <3>2. F[j + 1] + Z[j + 1] < F[k + 1] /\ F[j + 1] + Z[j + 1] <= F[k + 1]
        BY <3>1, ChainFacts
      <3>3. G[k] = F[k + 1] /\ G[j] = F[j + 1] /\ Y[j] = Z[j + 1]
        BY <1>5, <2>4, <3>1
      <3> QED
        BY <3>2, <3>3
    <2> QED
      BY <1>1, <1>6, <2>1, <2>2, <2>3, <2>4
  <1>7. ASSUME NEW j \in 1..n, NEW a \in F[j]..(F[j] + Z[j] - 1)
        PROVE  a \in Cover(n - 1, G, Y)
    <2>1. CASE j < i
      <3>1. j \in 1..(n - 1) /\ G[j] = F[j] /\ Y[j] = Z[j]
        BY <1>3, <2>1
      <3> QED
        BY <1>1, <3>1, CoverFacts
    <2>2. CASE j = i \/ j = i + 1
      <3>1. a \in G[i]..(G[i] + Y[i] - 1)
        BY <1>2, <2>2
      <3> QED
        BY <1>1, <3>1, CoverFacts
    <2>3. CASE j > i + 1
      <3>1. j - 1 \in 1..(n - 1) /\ G[j - 1] = F[j] /\ Y[j - 1] = Z[j]
        BY <1>4, <2>3
      <3> QED
        BY <1>1, <3>1, CoverFacts
    <2> QED
      BY <1>1, <2>1, <2>2, <2>3
  <1>8. ASSUME NEW k \in 1..(n - 1), NEW a \in G[k]..(G[k] + Y[k] - 1)
        PROVE  a \in Cover(n, F, Z)
    <2>1. CASE k < i
      <3>1. k \in 1..n /\ G[k] = F[k] /\ Y[k] = Z[k]
        BY <1>3, <2>1
      <3> QED
        BY <1>1, <3>1, CoverFacts
    <2>2. CASE k = i
      <3>1. a \in F[i]..(F[i] + Z[i] - 1) \/ a \in F[i + 1]..(F[i + 1] + Z[i + 1] - 1)
        BY <1>2, <2>2
      <3> QED
        BY <1>1, <3>1, CoverFacts
    <2>3. CASE k > i
      <3>1. k + 1 \in 1..n /\ G[k] = F[k + 1] /\ Y[k] = Z[k + 1]
        BY <1>5, <2>3
      <3> QED
        BY <1>1, <3>1, CoverFacts
    <2> QED
      BY <1>1, <2>1, <2>2, <2>3
  <1>9. Chain(n - 1, G, Y, T \ {i})
    BY <1>6 DEF Chain
  <1>10. Cover(n - 1, G, Y) = Cover(n, F, Z)
    <2>1. \A a \in Cover(n - 1, G, Y) : a \in Cover(n, F, Z)
      BY <1>1, <1>8, CoverFacts
    <2>2. \A a \in Cover(n, F, Z) : a \in Cover(n - 1, G, Y)
      BY <1>1, <1>7, CoverFacts
    <2> QED
      BY <2>1, <2>2
  <1> QED
    BY <1>9, <1>10

\* An interval that covers nothing twice, put in its place, overlaps none and may
\* touch its neighbours.
LEMMA ChainInsert ==
    ASSUME NEW n \in Nat, NEW F, NEW Z, Chain(n, F, Z, {}), NEW i \in 1..(n + 1),
           NEW b \in Nat, NEW s \in Nat, s > 0, Clear(n, F, Z, b, s), GoesTo(n, F, b, i),
           NEW G, NEW Y, Intervals(n + 1, G, Y), Inserted(n, F, Z, i, b, s, G, Y)
    PROVE  /\ Chain(n + 1, G, Y, {i - 1, i})
           /\ Cover(n + 1, G, Y) = Cover(n, F, Z) \cup b..(b + s - 1)
           /\ \A j \in 1..n : j < i => F[j] + Z[j] <= b
           /\ \A j \in 1..n : j >= i => b + s <= F[j]
  <1>1. Intervals(n, F, Z) /\ n + 1 \in Nat /\ b \in b..(b + s - 1)
    BY DEF Chain
  <1> USE DEF Clear, GoesTo
  <1>2. ASSUME NEW j \in 1..n, j < i PROVE F[j] + Z[j] <= b
    <2>1. F[j] \in Nat /\ Z[j] \in Nat /\ F[j] <= b
      BY <1>1, <1>2, IntervalFacts
    <2>2. ~(b \in F[j]..(F[j] + Z[j] - 1))
      BY <1>1, CoverFacts
    <2> QED
      BY <2>1, <2>2
  <1>3. ASSUME NEW j \in 1..n, j >= i PROVE b + s <= F[j]
    <2>1. F[j] \in Nat /\ F[j] \in Cover(n, F, Z)
      BY <1>1, IntervalFacts, CoverFacts
    <2>2. F[j] \notin b..(b + s - 1)
      BY <2>1
    <2>3. b < F[j]
      <3>1. CASE j = i
        BY <3>1
      <3>2. CASE j > i
        <4>1. i \in 1..n
          BY <3>2
        <4>2. F[i] < F[j] /\ F[i] \in Nat
          BY <3>2, <4>1, ChainFacts
        <4>3. b < F[i]
          BY <4>1
        <4> QED
          BY <2>1, <4>2, <4>3
      <3> QED
        BY <1>3, <3>1, <3>2
    <2> QED
      BY <2>1, <2>2, <2>3
  <1>4. G[i] = b /\ Y[i] = s
    BY DEF Inserted
  <1>5. ASSUME NEW j \in 1..n, j < i PROVE G[j] = F[j] /\ Y[j] = Z[j]
    BY <1>5 DEF Inserted, Same
  <1>6. ASSUME NEW j \in 1..n, j >= i PROVE G[j + 1] = F[j] /\ Y[j + 1] = Z[j]
    BY <1>6 DEF Inserted, Same
  <1>7. ASSUME NEW j \in 1..(n + 1), j > i PROVE G[j] = F[j - 1] /\ Y[j] = Z[j - 1]
    <2>1. j - 1 \in 1..n /\ j - 1 >= i /\ (j - 1) + 1 = j
      BY <1>7
    <2> QED
      BY <1>6, <2>1
  <1>8. ASSUME NEW j \in 1..(n + 1), NEW k \in 1..(n + 1), j < k
        PROVE  G[j] + Y[j] <= G[k] /\ (j \notin {i - 1, i} => G[j] + Y[j] < G[k])
    <2>1. CASE k < i
      <3>1. j \in 1..n /\ k \in 1..n /\ j < i
        BY <1>8, <2>1
      <3>2. F[j] + Z[j] <= F[k] /\ F[j] + Z[j] < F[k]
        BY <1>8, <3>1, ChainFacts
      <3>3. G[k] = F[k] /\ G[j] = F[j] /\ Y[j] = Z[j]
        BY <1>5, <2>1, <3>1
      <3> QED
        BY <3>2, <3>3
    <2>2. CASE k = i
      <3>1. j \in 1..n /\ j < i
        BY <1>8, <2>2
      <3>2. F[j] + Z[j] <= b /\ G[j] = F[j] /\ Y[j] = Z[j]
        BY <1>2, <1>5, <3>1
      <3>3. ASSUME j # i - 1 PROVE F[j] + Z[j] < b
        <4>1. i - 1 \in 1..n /\ j < i - 1 /\ i - 1 < i
          BY <3>1, <3>3
        <4>2. F[j] + Z[j] < F[i - 1] /\ F[i - 1] \in Nat /\ F[j] \in Nat /\ Z[j] \in Nat
          BY <3>1, <4>1, ChainFacts
        <4>3. F[i - 1] <= b
          BY <4>1
        <4> QED
          BY <4>2, <4>3
      <3> QED
        BY <1>4, <2>2, <3>2, <3>3
    <2>3. CASE j = i
      <3>1. k - 1 \in 1..n /\ k - 1 >= i /\ k > i
        BY <1>8, <2>3
      <3>2. b + s <= F[k - 1] /\ G[k] = F[k - 1]
        BY <1>3, <1>7, <3>1
      <3> QED
        BY <1>4, <2>3, <3>2
    <2>4. CASE j < i /\ k > i
      <3>1. j \in 1..n /\ k - 1 \in 1..n /\ j < k - 1
        BY <1>8, <2>4
      <3>2. G[k] = F[k - 1] /\ G[j] = F[j] /\ Y[j] = Z[j]
        BY <1>5, <1>7, <2>4, <3>1
      <3>3. F[j] + Z[j] < F[k - 1] /\ F[j] + Z[j] <= F[k - 1]
        BY <3>1, ChainFacts
      <3> QED
        BY <3>2, <3>3
    <2>5. CASE j > i
      <3>1. j - 1 \in 1..n /\ k - 1 \in 1..n /\ j - 1 < k - 1 /\ k > i
        BY <1>8, <2>5
      <3>2. G[k] = F[k - 1] /\ G[j] = F[j - 1] /\ Y[j] = Z[j - 1]
        BY <1>7, <2>5, <3>1
      <3>3. F[j - 1] + Z[j - 1] < F[k - 1] /\ F[j - 1] + Z[j - 1] <= F[k - 1]
        BY <3>1, ChainFacts
      <3> QED
        BY <3>2, <3>3
    <2> QED
      BY <1>8, <2>1, <2>2, <2>3, <2>4, <2>5
  <1>9. ASSUME NEW j \in 1..n, NEW a \in F[j]..(F[j] + Z[j] - 1) PROVE a \in Cover(n + 1, G, Y)
    <2>1. CASE j < i
      <3>1. j \in 1..(n + 1) /\ G[j] = F[j] /\ Y[j] = Z[j]
        BY <1>5, <2>1
      <3> QED
        BY <1>1, <3>1, CoverFacts
    <2>2. CASE j >= i
      <3>1. j + 1 \in 1..(n + 1) /\ G[j + 1] = F[j] /\ Y[j + 1] = Z[j]
        BY <1>6, <2>2
      <3> QED
        BY <1>1, <3>1, CoverFacts
    <2> QED
      BY <2>1, <2>2
  <1>10. ASSUME NEW k \in 1..(n + 1), NEW a \in G[k]..(G[k] + Y[k] - 1)
         PROVE  a \in Cover(n, F, Z) \cup b..(b + s - 1)
    <2>1. CASE k < i
      <3>1. k \in 1..n /\ G[k] = F[k] /\ Y[k] = Z[k]
        BY <1>5, <2>1
      <3> QED
        BY <1>1, <3>1, CoverFacts
    <2>2. CASE k = i
      BY <1>4, <2>2
    <2>3. CASE k > i
      <3>1. k - 1 \in 1..n /\ G[k] = F[k - 1] /\ Y[k] = Z[k - 1]
        BY <1>7, <2>3
      <3> QED
        BY <1>1, <3>1, CoverFacts
    <2> QED
      BY <2>1, <2>2, <2>3
  <1>11. \A a \in b..(b + s - 1) : a \in Cover(n + 1, G, Y)
    BY <1>1, <1>4, CoverFacts
  <1>12. Cover(n + 1, G, Y) = Cover(n, F, Z) \cup b..(b + s - 1)
    <2>1. \A a \in Cover(n + 1, G, Y) : a \in Cover(n, F, Z) \cup b..(b + s - 1)
      BY <1>1, <1>10, CoverFacts
    <2>2. \A a \in Cover(n, F, Z) : a \in Cover(n + 1, G, Y)
      BY <1>1, <1>9, CoverFacts
    <2> QED
      BY <1>11, <2>1, <2>2
  <1>13. Chain(n + 1, G, Y, {i - 1, i})
    BY <1>8 DEF Chain
  <1> QED
    BY <1>2, <1>3, <1>12, <1>13

\* Taking interval i out of a chain without contacts leaves the rest.
LEMMA ChainRemove ==
    ASSUME NEW n \in Nat, NEW F, NEW Z, Chain(n, F, Z, {}), NEW i \in 1..n,
           NEW G, NEW Y, Intervals(n - 1, G, Y), Removed(n, F, Z, i, G, Y)
    PROVE  /\ Chain(n - 1, G, Y, {})
           /\ Cover(n, F, Z) = Cover(n - 1, G, Y) \cup F[i]..(F[i] + Z[i] - 1)
           /\ Cover(n - 1, G, Y) \cap F[i]..(F[i] + Z[i] - 1) = {}
  <1>1. Intervals(n, F, Z) /\ n - 1 \in Nat
    BY DEF Chain
  <1>2. ASSUME NEW j \in 1..(n - 1)
        PROVE  \E k \in 1..n : k # i /\ k = (IF j < i THEN j ELSE j + 1) /\ G[j] = F[k] /\ Y[j] = Z[k]
    <2>1. CASE j < i
      <3>1. j \in 1..n /\ j # i /\ G[j] = F[j] /\ Y[j] = Z[j]
        BY <2>1 DEF Removed, Same
      <3> QED
        BY <2>1, <3>1
    <2>2. CASE ~(j < i)
      <3>1. j + 1 \in 1..n /\ j + 1 > i /\ (j + 1) - 1 = j
        BY <2>2
      <3>2. G[j] = F[j + 1] /\ Y[j] = Z[j + 1]
        BY <3>1 DEF Removed, Same
      <3> QED
        BY <2>2, <3>1, <3>2
    <2> QED
      BY <2>1, <2>2
  <1>3. ASSUME NEW j \in 1..(n - 1), NEW k \in 1..(n - 1), j < k
        PROVE  G[j] + Y[j] < G[k] /\ G[j] + Y[j] <= G[k]
    <2>1. PICK x \in 1..n : x = (IF j < i THEN j ELSE j + 1) /\ G[j] = F[x] /\ Y[j] = Z[x]
      BY <1>2
    <2>2. PICK y \in 1..n : y = (IF k < i THEN k ELSE k + 1) /\ G[k] = F[y]
      BY <1>2
    <2>3. x < y
      BY <1>3, <2>1, <2>2
    <2>4. F[x] + Z[x] < F[y] /\ F[x] + Z[x] <= F[y]
      BY <2>3, ChainFacts
    <2> QED
      BY <2>1, <2>2, <2>4
  <1>4. ASSUME NEW j \in 1..(n - 1), NEW a \in G[j]..(G[j] + Y[j] - 1)
        PROVE  a \in Cover(n, F, Z) /\ a \notin F[i]..(F[i] + Z[i] - 1)
    <2>1. PICK x \in 1..n : x # i /\ G[j] = F[x] /\ Y[j] = Z[x]
      BY <1>2
    <2>2. a \in F[x]..(F[x] + Z[x] - 1) /\ a \in Cover(n, F, Z)
      BY <1>1, <1>4, <2>1, CoverFacts
    <2>3. F[x] \in Nat /\ Z[x] \in Nat /\ F[i] \in Nat /\ Z[i] \in Nat
      BY <1>1, IntervalFacts
    <2>4. F[x] + Z[x] <= F[i] \/ F[i] + Z[i] <= F[x]
      <3>1. CASE x < i
        BY <3>1, ChainFacts
      <3>2. CASE i < x
        BY <3>2, ChainFacts
      <3> QED
        BY <2>1, <3>1, <3>2
    <2> QED
      BY <2>2, <2>3, <2>4
  <1>5. ASSUME NEW k \in 1..n, NEW a \in F[k]..(F[k] + Z[k] - 1)
        PROVE  a \in Cover(n - 1, G, Y) \cup F[i]..(F[i] + Z[i] - 1)
    <2>1. CASE k < i
      <3>1. k \in 1..(n - 1) /\ G[k] = F[k] /\ Y[k] = Z[k]
        BY <2>1 DEF Removed, Same
      <3> QED
        BY <1>1, <3>1, CoverFacts
    <2>2. CASE k = i
      BY <2>2
    <2>3. CASE k > i
      <3>1. k - 1 \in 1..(n - 1) /\ G[k - 1] = F[k] /\ Y[k - 1] = Z[k]
        BY <2>3 DEF Removed, Same
      <3> QED
        BY <1>1, <3>1, CoverFacts
    <2> QED
      BY <2>1, <2>2, <2>3
  <1>6. Chain(n - 1, G, Y, {})
    BY <1>3 DEF Chain
  <1>7. \A a \in Cover(n - 1, G, Y) : a \in Cover(n, F, Z) /\ a \notin F[i]..(F[i] + Z[i] - 1)
    BY <1>1, <1>4, CoverFacts
  <1>8. \A a \in Cover(n, F, Z) : a \in Cover(n - 1, G, Y) \cup F[i]..(F[i] + Z[i] - 1)
    BY <1>1, <1>5, CoverFacts
  <1>9. \A a \in F[i]..(F[i] + Z[i] - 1) : a \in Cover(n, F, Z)
    BY <1>1, CoverFacts
  <1> QED
    BY <1>6, <1>7, <1>8, <1>9

-----------------------------------------------------------------------------
(* Memory *)

\* The heap begins at an address, which is a multiple of the alignment.
LEMMA Begins ==
    /\ Alignment \in Nat \ {0} /\ Word \in Nat \ {0} /\ PageSize \in Nat \ {0}
    /\ kheap_begin \in Nat /\ kheap_begin % Alignment = 0
    /\ kernel_end <= kheap_begin /\ kheap_begin < MemoryEnd
    /\ MemoryEnd \in Nat /\ MemoryEnd < Word
  <1>1. /\ Alignment \in Nat \ {0} /\ Word \in Nat \ {0} /\ PageSize \in Nat \ {0}
        /\ kernel_end \in Nat /\ MemoryEnd \in Nat /\ HeapInit \in Nat \ {0}
        /\ kernel_end + PageSize <= MemoryEnd /\ MemoryEnd + HeapInit + PageSize <= Word
        /\ PageSize % Alignment = 0
    BY HeapAssumption
  <1>2. kernel_end + PageSize <= Word /\ MemoryEnd < Word
    BY <1>1
  <1>3. /\ kheap_begin \in Nat /\ kheap_begin % PageSize = 0
        /\ kernel_end <= kheap_begin /\ kheap_begin < kernel_end + PageSize
    BY <1>1, <1>2, AlignRoundsUp DEF kheap_begin
  <1>4. kheap_begin % Alignment = 0
    BY <1>1, <1>3, MultipleOfMultiple
  <1>5. kheap_begin < MemoryEnd
    BY <1>1, <1>3
  <1> QED
    BY <1>1, <1>2, <1>3, <1>4, <1>5

\* What is an address.
LEMMA AddressFacts ==
    /\ Addresses \subseteq Nat
    /\ \A a : a \in Addresses <=> /\ a \in Nat /\ kheap_begin <= a /\ a < MemoryEnd
                                  /\ a % Alignment = 0
    /\ kheap_begin \in Addresses
  BY Begins DEF Addresses

\* What a heap is made of.
LEMMA HeapFacts ==
    ASSUME NEW h \in Heaps
    PROVE  /\ h.mem \in [Addresses -> Values \cup {Junk} \cup Headers]
           /\ h.free \in Seq(Addresses) /\ h.end \in Nat /\ h.max \in Nat
           /\ h.halt \in {"none", "oom", "assert"}
           /\ DOMAIN h.free = 1..Len(h.free) /\ Len(h.free) \in Nat
           /\ \A i \in 1..Len(h.free) : h.free[i] \in Addresses /\ h.free[i] \in Nat
  <1>1. /\ h.mem \in [Addresses -> Values \cup {Junk} \cup Headers]
        /\ h.free \in Seq(Addresses) /\ h.end \in Nat /\ h.max \in Nat
        /\ h.halt \in {"none", "oom", "assert"}
    BY DEF Heaps
  <1>2. DOMAIN h.free = 1..Len(h.free) /\ Len(h.free) \in Nat
    BY <1>1
  <1>3. \A i \in 1..Len(h.free) : h.free[i] \in Addresses
    BY <1>1
  <1> QED
    BY <1>1, <1>2, <1>3, AddressFacts

\* The size in a header.
LEMMA BlockSize ==
    ASSUME NEW h \in Heaps, NEW b, NEW taken, Block(h, b, taken)
    PROVE  /\ b \in Addresses /\ b \in Nat /\ SizeOf(h, b) \in Nat /\ SizeOf(h, b) > 0
           /\ SizeOf(h, b) % Alignment = 0 /\ b + SizeOf(h, b) <= h.end
           /\ b \in Extent(h, b)
           /\ \A a : a \in Extent(h, b) <=> a \in Nat /\ b <= a /\ a < b + SizeOf(h, b)
  <1>1. b \in Addresses /\ b \in Nat
    BY AddressFacts DEF Block
  <1>2. SizeOf(h, b) \in Nat /\ SizeOf(h, b) > 0
    BY DEF Block, SizeOf, Headers
  <1>3. \A a : a \in Extent(h, b) <=> a \in Nat /\ b <= a /\ a < b + SizeOf(h, b)
    BY <1>1, <1>2 DEF Extent
  <1> QED
    BY <1>1, <1>2, <1>3 DEF Block

\* A block whose header has not changed.
LEMMA BlockKept ==
    ASSUME NEW h \in Heaps, NEW g \in Heaps, NEW b, NEW taken, Block(h, b, taken),
           g.mem[b] = h.mem[b], h.end <= g.end
    PROVE  Block(g, b, taken) /\ SizeOf(g, b) = SizeOf(h, b) /\ Extent(g, b) = Extent(h, b)
  <1>1. SizeOf(g, b) = SizeOf(h, b)
    BY DEF SizeOf
  <1>2. Extent(g, b) = Extent(h, b)
    BY <1>1 DEF Extent
  <1>3. b + SizeOf(g, b) <= g.end
    <2>1. b \in Nat /\ SizeOf(h, b) \in Nat /\ b + SizeOf(h, b) <= h.end /\ h.end \in Nat /\ g.end \in Nat
      BY BlockSize, HeapFacts
    <2> QED
      BY <1>1, <2>1
  <1> QED
    BY <1>1, <1>2, <1>3 DEF Block

\* The free blocks as a chain.
LEMMA SortedFacts ==
    ASSUME NEW h \in Heaps, NEW T, Sorted(h, T)
    PROVE  /\ Chain(Len(h.free), Places(h), Lengths(h), T)
           /\ Intervals(Len(h.free), Places(h), Lengths(h))
           /\ \A i \in 1..Len(h.free) :
                 /\ Places(h)[i] = h.free[i] /\ Lengths(h)[i] = SizeOf(h, h.free[i])
                 /\ Block(h, h.free[i], FALSE)
           /\ \A i, j \in 1..Len(h.free) : h.free[i] = h.free[j] => i = j
  <1>1. DOMAIN h.free = 1..Len(h.free) /\ Len(h.free) \in Nat
    BY HeapFacts
  <1>2. Chain(Len(h.free), Places(h), Lengths(h), T)
    BY DEF Sorted
  <1>3. Intervals(Len(h.free), Places(h), Lengths(h))
    BY <1>2 DEF Chain
  <1>4. \A i \in 1..Len(h.free) :
           /\ Places(h)[i] = h.free[i] /\ Lengths(h)[i] = SizeOf(h, h.free[i])
           /\ Block(h, h.free[i], FALSE)
    BY <1>1 DEF Sorted, Places, Lengths
  <1>5. ASSUME NEW i \in 1..Len(h.free), NEW j \in 1..Len(h.free), h.free[i] = h.free[j]
        PROVE  i = j
    <2>1. Places(h)[i] = Places(h)[j] /\ Places(h)[i] \in Nat
      BY <1>1, <1>3, <1>4, <1>5, IntervalFacts
    <2>2. ~(i < j)
      <3> SUFFICES ASSUME i < j PROVE FALSE
        OBVIOUS
      <3>1. Places(h)[i] < Places(h)[j]
        BY <1>1, <1>2, ChainFacts
      <3> QED
        BY <2>1, <3>1
    <2>3. ~(j < i)
      <3> SUFFICES ASSUME j < i PROVE FALSE
        OBVIOUS
      <3>1. Places(h)[j] < Places(h)[i]
        BY <1>1, <1>2, ChainFacts
      <3> QED
        BY <2>1, <3>1
    <2> QED
      BY <1>1, <2>2, <2>3
  <1> QED
    BY <1>2, <1>3, <1>4, <1>5

\* A list of free blocks is a sequence of intervals.
LEMMA ListIntervals ==
    ASSUME NEW g \in Heaps, NEW f \in Seq(Addresses), g.free = f, NEW n \in Nat, Len(f) = n,
           \A j \in 1..n : Block(g, f[j], FALSE)
    PROVE  /\ Len(g.free) = n /\ DOMAIN g.free = 1..n
           /\ \A j \in 1..n : Places(g)[j] = f[j] /\ Lengths(g)[j] = SizeOf(g, f[j])
           /\ Intervals(n, Places(g), Lengths(g))
  <1>1. Len(g.free) = n /\ DOMAIN g.free = 1..n
    BY HeapFacts
  <1>2. \A j \in 1..n : Places(g)[j] = f[j] /\ Lengths(g)[j] = SizeOf(g, f[j])
    BY <1>1 DEF Places, Lengths
  <1>3. ASSUME NEW j \in 1..n PROVE f[j] \in Nat /\ SizeOf(g, f[j]) \in Nat /\ SizeOf(g, f[j]) > 0
    <2>1. Block(g, f[j], FALSE)
      OBVIOUS
    <2> QED
      BY <2>1, BlockSize
  <1>4. Places(g) \in [1..n -> Nat]
    BY <1>1, <1>3 DEF Places
  <1>5. Lengths(g) \in [1..n -> Nat]
    BY <1>1, <1>3 DEF Lengths
  <1>6. \A j \in 1..n : Lengths(g)[j] > 0
    BY <1>2, <1>3
  <1> QED
    BY <1>1, <1>2, <1>4, <1>5, <1>6 DEF Intervals

\* The free bytes are what the chain covers.
LEMMA HeldFacts ==
    ASSUME NEW h \in Heaps, NEW T, Sorted(h, T)
    PROVE  /\ Held(h) = Cover(Len(h.free), Places(h), Lengths(h))
           /\ Held(h) \subseteq Nat
           /\ \A i \in 1..Len(h.free) : h.free[i] \in Held(h) /\ Extent(h, h.free[i]) \subseteq Held(h)
  <1>1. PICK n \in Nat : n = Len(h.free)
    BY HeapFacts
  <1>2. PICK F : F = Places(h)
    OBVIOUS
  <1>3. PICK Z : Z = Lengths(h)
    OBVIOUS
  <1>4. DOMAIN h.free = 1..n /\ Intervals(n, F, Z)
    BY <1>1, <1>2, <1>3, HeapFacts, SortedFacts
  <1>5. ASSUME NEW i \in 1..n
        PROVE  h.free[i] = F[i] /\ Extent(h, h.free[i]) = F[i]..(F[i] + Z[i] - 1) /\ Block(h, F[i], FALSE)
    <2>1. h.free[i] = F[i] /\ Z[i] = SizeOf(h, F[i]) /\ Block(h, F[i], FALSE)
      BY <1>1, <1>2, <1>3, SortedFacts
    <2> QED
      BY <2>1 DEF Extent
  <1>6. ASSUME NEW a PROVE a \in Held(h) <=> \E i \in 1..n : a \in Extent(h, h.free[i])
    BY <1>4 DEF Held, Bytes, Range
  <1>7. ASSUME NEW a PROVE a \in Held(h) <=> \E i \in 1..n : a \in F[i]..(F[i] + Z[i] - 1)
    BY <1>5, <1>6
  <1>8. \A a \in Held(h) : a \in Cover(n, F, Z)
    BY <1>4, <1>7, CoverFacts
  <1>9. \A a \in Cover(n, F, Z) : a \in Nat /\ a \in Held(h)
    BY <1>4, <1>7, CoverFacts
  <1>10. ASSUME NEW i \in 1..n PROVE h.free[i] \in Extent(h, h.free[i])
    BY <1>5, BlockSize
  <1>11. ASSUME NEW i \in 1..n PROVE h.free[i] \in Held(h) /\ Extent(h, h.free[i]) \subseteq Held(h)
    BY <1>6, <1>10
  <1> QED
    BY <1>1, <1>2, <1>3, <1>8, <1>9, <1>11

\* Heap g is heap h but for the free list and the words in X.
Changes(h, g, X) ==
    /\ g \in Heaps
    /\ g.end = h.end /\ g.max = h.max /\ g.halt = h.halt
    /\ \A w \in Addresses \ X : g.mem[w] = h.mem[w]

\* Heap g is heap h with x stored at b, and with the free list f.
Stores(h, b, x, f, g) == g = [h EXCEPT !.mem[b] = x, !.free = f]

\* What storing a header and changing the list does.
LEMMA HeapUpdate ==
    ASSUME NEW h \in Heaps, NEW b \in Addresses, NEW x \in Headers, NEW f \in Seq(Addresses),
           NEW g, Stores(h, b, x, f, g)
    PROVE  /\ g \in Heaps /\ g.free = f
           /\ g.end = h.end /\ g.max = h.max /\ g.halt = h.halt
           /\ g.mem[b] = x /\ \A w \in Addresses : w # b => g.mem[w] = h.mem[w]
  <1>1. h.mem \in [Addresses -> Values \cup {Junk} \cup Headers]
    BY HeapFacts
  <1>2. PICK m \in [Addresses -> Values \cup {Junk} \cup Headers] : m = [h.mem EXCEPT ![b] = x]
    <2>1. [h.mem EXCEPT ![b] = x] \in [Addresses -> Values \cup {Junk} \cup Headers]
      BY <1>1
    <2> QED
      BY <2>1
  <1>3. g = [h EXCEPT !.mem = m, !.free = f]
    BY <1>2 DEF Stores
  <1>4. /\ g \in Heaps /\ g.free = f /\ g.mem = m
        /\ g.end = h.end /\ g.max = h.max /\ g.halt = h.halt
    BY <1>3 DEF Heaps
  <1>5. m[b] = x /\ \A w \in Addresses : w # b => m[w] = h.mem[w]
    BY <1>1, <1>2
  <1> QED
    BY <1>4, <1>5

\* The header of a block that grows.
LEMMA HeaderGrows ==
    ASSUME NEW r \in Headers, NEW z \in Nat
    PROVE  /\ [r EXCEPT !.size = @ + z] \in Headers
           /\ [r EXCEPT !.size = @ + z].size = r.size + z
           /\ [r EXCEPT !.size = @ + z].alloc = r.alloc
  BY DEF Headers

\* Merging block i, the last that may touch its successor, with that successor
\* leaves the free bytes what they are and writes only among them.
LEMMA Coalesce ==
    ASSUME NEW h \in Heaps, NEW T, Sorted(h, T), NEW i \in 1..Len(h.free),
           NoneBehind(T, i, Len(h.free))
    PROVE  /\ Sorted(km_coalesce(h, i), T \ {i})
           /\ Held(km_coalesce(h, i)) = Held(h)
           /\ Changes(h, km_coalesce(h, i), Held(h))
           /\ i <= Len(km_coalesce(h, i).free)
  <1>1. PICK n \in Nat : n = Len(h.free)
    BY HeapFacts
  <1>2. PICK F : F = Places(h)
    OBVIOUS
  <1>3. PICK Z : Z = Lengths(h)
    OBVIOUS
  <1>4. PICK g : g = km_coalesce(h, i)
    OBVIOUS
  <1>5. PICK s \in Seq(Addresses) : s = h.free /\ Len(s) = n /\ DOMAIN s = 1..n
    BY <1>1, HeapFacts
  <1>6. Chain(n, F, Z, T) /\ Intervals(n, F, Z)
    BY <1>1, <1>2, <1>3, SortedFacts
  <1>7. \A j \in 1..n : s[j] = F[j] /\ Z[j] = SizeOf(h, s[j]) /\ Block(h, s[j], FALSE)
    BY <1>1, <1>2, <1>3, <1>5, SortedFacts
  <1>8. \A j, k \in 1..n : s[j] = s[k] => j = k
    BY <1>1, <1>5, SortedFacts
  <1>9. i \in 1..n /\ NoneBehind(T, i, n)
    BY <1>1
  <1>10. g = IF i < n /\ s[i] + Z[i] = s[i + 1]
             THEN [h EXCEPT !.mem[s[i]].size = @ + SizeOf(h, s[i + 1]), !.free = RemoveAt(@, i + 1)]
             ELSE h
    <2>1. Z[i] = SizeOf(h, s[i])
      BY <1>7, <1>9
    <2> QED
      BY <1>1, <1>4, <1>5, <2>1 DEF km_coalesce
  <1>11. CASE ~(i < n /\ s[i] + Z[i] = s[i + 1])
    <2>1. g = h
      BY <1>10, <1>11
    <2>2. i < n => F[i] + Z[i] # F[i + 1]
      <3> SUFFICES ASSUME i < n PROVE F[i] + Z[i] # F[i + 1]
        OBVIOUS
      <3>1. i + 1 \in 1..n
        BY <1>9
      <3>2. s[i] = F[i] /\ s[i + 1] = F[i + 1]
        BY <1>7, <1>9, <3>1
      <3> QED
        BY <1>11, <3>2
    <2>3. Chain(n, F, Z, T \ {i})
      BY <1>6, <1>9, <2>2, ChainApart
    <2>4. Sorted(h, T \ {i})
      BY <1>1, <1>2, <1>3, <2>3 DEF Sorted
    <2>5. Changes(h, h, Held(h))
      BY DEF Changes
    <2> QED
      BY <1>1, <1>4, <1>9, <2>1, <2>4, <2>5
  <1>12. CASE i < n /\ s[i] + Z[i] = s[i + 1]
    <2>1. i \in 1..(n - 1) /\ i + 1 \in 1..n /\ n - 1 \in Nat
      BY <1>9, <1>12
    <2>2. PICK b : b = s[i]
      OBVIOUS
    <2>3. PICK c : c = s[i + 1]
      OBVIOUS
    <2>4. Block(h, b, FALSE) /\ Block(h, c, FALSE) /\ Z[i] = SizeOf(h, b) /\ Z[i + 1] = SizeOf(h, c)
      BY <1>7, <2>1, <1>9, <2>2, <2>3
    <2>5. PICK y \in Nat : y = Z[i] /\ y > 0 /\ y % Alignment = 0
      <3>1. SizeOf(h, b) \in Nat /\ SizeOf(h, b) > 0 /\ SizeOf(h, b) % Alignment = 0
        BY <2>4, BlockSize
      <3> QED
        BY <2>4, <3>1
    <2>6. PICK z \in Nat : z = Z[i + 1] /\ z > 0 /\ z % Alignment = 0 /\ c + z <= h.end
      <3>1. /\ SizeOf(h, c) \in Nat /\ SizeOf(h, c) > 0 /\ SizeOf(h, c) % Alignment = 0
            /\ c + SizeOf(h, c) <= h.end
        BY <2>4, BlockSize
      <3> QED
        BY <2>4, <3>1
    <2>7. b \in Addresses /\ b \in Nat /\ c \in Nat /\ b + y = c /\ h.end \in Nat
      BY <1>12, <2>2, <2>3, <2>4, <2>5, BlockSize, HeapFacts
    <2>8. PICK r \in Headers : r = h.mem[b] /\ r.size = y /\ r.alloc = FALSE
      BY <2>4, <2>5 DEF Block, SizeOf
    <2>9. PICK hd \in Headers : hd = [r EXCEPT !.size = @ + z]
      BY HeaderGrows
    <2>10. hd.size = y + z /\ hd.alloc = FALSE
      BY <2>8, <2>9, HeaderGrows
    <2>11. PICK f \in Seq(Addresses) :
             /\ f = RemoveAt(s, i + 1) /\ Len(f) = n - 1
             /\ \A j \in 1..(n - 1) : f[j] = IF j < i + 1 THEN s[j] ELSE s[j + 1]
      <3>1. i + 1 \in DOMAIN s
        BY <1>5, <2>1
      <3>2. /\ RemoveAt(s, i + 1) \in Seq(Addresses) /\ Len(RemoveAt(s, i + 1)) = Len(s) - 1
            /\ \A j \in 1..(Len(s) - 1) :
                  RemoveAt(s, i + 1)[j] = IF j < i + 1 THEN s[j] ELSE s[j + 1]
        BY <3>1, RemoveList
      <3> QED
        BY <1>5, <3>2
    <2>12. Stores(h, b, hd, f, g)
      <3>1. g = [h EXCEPT !.mem[b].size = @ + SizeOf(h, c), !.free = RemoveAt(@, i + 1)]
        BY <1>10, <1>12, <2>2, <2>3
      <3>2. g = [h EXCEPT !.mem[b] = [h.mem[b] EXCEPT !.size = @ + SizeOf(h, c)],
                          !.free = RemoveAt(h.free, i + 1)]
        BY <3>1
      <3>3. SizeOf(h, c) = z
        BY <2>4, <2>6
      <3> QED
        BY <1>5, <2>8, <2>9, <2>11, <3>2, <3>3 DEF Stores
    <2>13. /\ g \in Heaps /\ g.free = f /\ g.end = h.end /\ g.max = h.max /\ g.halt = h.halt
           /\ g.mem[b] = hd /\ \A w \in Addresses : w # b => g.mem[w] = h.mem[w]
      BY <2>7, <2>12, HeapUpdate
    <2>14. SizeOf(g, b) = y + z /\ Block(g, b, FALSE)
      <3>1. (y + z) % Alignment = 0 /\ y + z \in Nat /\ y + z > 0
        <4>1. Alignment \in Nat \ {0}
          BY Begins
        <4>2. (y + z) % Alignment = 0
          BY <2>5, <2>6, <4>1, MultipleSum
        <4> QED
          BY <2>5, <2>6, <4>2
      <3>2. b + (y + z) <= g.end
        BY <2>6, <2>7, <2>13, SMTT(30)
      <3>3. SizeOf(g, b) = y + z /\ g.mem[b].alloc = FALSE /\ g.mem[b] \in Headers
        BY <2>10, <2>13 DEF SizeOf
      <3> QED
        BY <2>7, <3>1, <3>2, <3>3 DEF Block
    <2>15. ASSUME NEW j \in 1..n, j # i
           PROVE  Block(g, s[j], FALSE) /\ SizeOf(g, s[j]) = Z[j] /\ s[j] = F[j]
      <3>1. s[j] # b /\ Block(h, s[j], FALSE) /\ SizeOf(h, s[j]) = Z[j] /\ s[j] = F[j]
        BY <1>7, <1>8, <1>9, <2>2, <2>15
      <3>2. g.mem[s[j]] = h.mem[s[j]]
        BY <2>13, <3>1, BlockSize
      <3>3. h.end <= g.end
        BY <2>7, <2>13
      <3> QED
        BY <2>13, <3>1, <3>2, <3>3, BlockKept
    <2>16. ASSUME NEW j \in 1..n, j < i
           PROVE  f[j] = F[j] /\ SizeOf(g, f[j]) = Z[j] /\ Block(g, f[j], FALSE) /\ j \in 1..(n - 1)
      <3>1. j \in 1..(n - 1) /\ j < i + 1 /\ j # i
        BY <1>9, <2>1, <2>16
      <3>2. f[j] = s[j]
        BY <2>11, <3>1
      <3> QED
        BY <2>15, <3>1, <3>2
    <2>17. ASSUME NEW j \in 1..n, j > i + 1
           PROVE  /\ f[j - 1] = F[j] /\ SizeOf(g, f[j - 1]) = Z[j] /\ Block(g, f[j - 1], FALSE)
                  /\ j - 1 \in 1..(n - 1)
      <3>1. j - 1 \in 1..(n - 1) /\ ~(j - 1 < i + 1) /\ (j - 1) + 1 = j /\ j # i
        BY <1>9, <2>1, <2>17
      <3>2. f[j - 1] = s[j]
        BY <2>11, <3>1
      <3> QED
        BY <2>15, <3>1, <3>2
    <2>18. f[i] = F[i] /\ SizeOf(g, f[i]) = Z[i] + Z[i + 1] /\ Block(g, f[i], FALSE)
      <3>1. f[i] = b
        BY <2>1, <2>2, <2>11
      <3>2. b = F[i]
        BY <1>7, <1>9, <2>2
      <3> QED
        BY <2>5, <2>6, <2>14, <3>1, <3>2
    <2>19. ASSUME NEW j \in 1..(n - 1) PROVE Block(g, f[j], FALSE)
      <3>1. CASE j < i
        <4>1. j \in 1..n
          BY <2>1
        <4> QED
          BY <2>16, <3>1, <4>1
      <3>2. CASE j = i
        BY <2>18, <3>2
      <3>3. CASE j > i
        <4>1. j + 1 \in 1..n /\ j + 1 > i + 1 /\ (j + 1) - 1 = j
          BY <1>9, <2>1, <3>3
        <4> QED
          BY <2>17, <4>1
      <3>4. j < i \/ j = i \/ j > i
        BY <2>1
      <3> QED
        BY <3>1, <3>2, <3>3, <3>4
    <2>20. PICK G : G = Places(g)
      OBVIOUS
    <2>21. PICK Y : Y = Lengths(g)
      OBVIOUS
    <2>22. /\ Len(g.free) = n - 1 /\ DOMAIN g.free = 1..(n - 1)
           /\ \A j \in 1..(n - 1) : G[j] = f[j] /\ Y[j] = SizeOf(g, f[j])
           /\ Intervals(n - 1, G, Y)
      BY <2>1, <2>11, <2>13, <2>19, <2>20, <2>21, ListIntervals
    <2>23. Merged(n, F, Z, i, G, Y)
      <3>1. ASSUME NEW j \in 1..n, j < i PROVE Same(F, Z, j, G, Y, j)
        BY <2>16, <2>22, <3>1 DEF Same
      <3>2. ASSUME NEW j \in 1..n, j > i + 1 PROVE Same(F, Z, j, G, Y, j - 1)
        BY <2>17, <2>22, <3>2 DEF Same
      <3>3. G[i] = F[i] /\ Y[i] = Z[i] + Z[i + 1]
        BY <2>1, <2>18, <2>22
      <3> QED
        BY <3>1, <3>2, <3>3 DEF Merged
    <2>24. F[i] + Z[i] = F[i + 1]
      BY <1>7, <1>9, <1>12, <2>1
    <2>25. Chain(n - 1, G, Y, T \ {i}) /\ Cover(n - 1, G, Y) = Cover(n, F, Z)
      <3>1. Intervals(n - 1, G, Y) /\ NoneBehind(T, i, n) /\ i \in 1..(n - 1)
        BY <1>9, <2>1, <2>22
      <3>2. Chain(n, F, Z, T)
        BY <1>6
      <3> QED
        BY <2>23, <2>24, <3>1, <3>2, ChainMerge
    <2>26. Sorted(g, T \ {i})
      BY <2>13, <2>19, <2>20, <2>21, <2>22, <2>25 DEF Sorted
    <2>27. Held(g) = Held(h)
      <3>1. Held(g) = Cover(n - 1, G, Y)
        BY <2>13, <2>20, <2>21, <2>22, <2>26, HeldFacts
      <3>2. Held(h) = Cover(n, F, Z)
        BY <1>1, <1>2, <1>3, HeldFacts
      <3> QED
        BY <2>25, <3>1, <3>2
    <2>28. Changes(h, g, Held(h))
      <3>1. b \in Held(h)
        BY <1>1, <1>5, <1>9, <2>2, HeldFacts
      <3> QED
        BY <2>13, <3>1 DEF Changes
    <2>29. i <= Len(g.free)
      BY <2>1, <2>22
    <2> QED
      BY <1>4, <2>26, <2>27, <2>28, <2>29
  <1> QED
    BY <1>11, <1>12

\* Block b belongs at place i of the list s.
Belongs(s, b, i) ==
    /\ i \in 1..(Len(s) + 1)
    /\ \A j \in 1..Len(s) : j < i => s[j] <= b
    /\ i <= Len(s) => b < s[i]

\* The search finds where a block belongs.
LEMMA PlaceFound ==
    ASSUME NEW s \in Seq(Addresses), NEW b \in Addresses
    PROVE  Belongs(s, b, Place(s, b))
  <1> DEFINE I == {i \in 1..Len(s) : s[i] > b}
  <1>1. PICK n \in Nat : n = Len(s)
    OBVIOUS
  <1>2. Place(s, b) = IF SelectInSeq(s, LAMBDA f : f > b) = 0 THEN n + 1
                      ELSE SelectInSeq(s, LAMBDA f : f > b)
    BY <1>1 DEF Place
  <1>3. SelectInSeq(s, LAMBDA f : f > b) = IF I # {} THEN Min(I) ELSE 0
    BY DEF SelectInSeq
  <1>4. \A i \in 1..n : s[i] \in Nat /\ b \in Nat
    BY <1>1, AddressFacts
  <1>5. I \subseteq Nat
    BY <1>1
  <1>6. CASE I = {}
    <2>1. Place(s, b) = n + 1
      BY <1>2, <1>3, <1>6
    <2>2. \A j \in 1..n : s[j] <= b
      BY <1>1, <1>4, <1>6
    <2> QED
      BY <1>1, <2>1, <2>2 DEF Belongs
  <1>7. CASE I # {}
    <2>1. Min(I) \in I /\ \A y \in I : Min(I) <= y
      BY <1>5, <1>7, LeastNumber
    <2>2. PICK i \in 1..n : i = Min(I) /\ s[i] > b
      BY <1>1, <2>1
    <2>3. Place(s, b) = i
      BY <1>2, <1>3, <1>7, <2>2
    <2>4. ASSUME NEW j \in 1..n, j < i PROVE s[j] <= b
      <3>1. j \notin I
        BY <2>1, <2>2, <2>4
      <3>2. ~(s[j] > b)
        BY <1>1, <3>1
      <3> QED
        BY <1>4, <3>2
    <2>5. b < s[i]
      BY <1>4, <2>2
    <2> QED
      BY <1>1, <2>2, <2>3, <2>4, <2>5 DEF Belongs
  <1> QED
    BY <1>6, <1>7

\* A list whose contacts are not at any of its places has none.
LEMMA SortedNone ==
    ASSUME NEW h \in Heaps, NEW T, Sorted(h, T), \A k \in 1..Len(h.free) : k \notin T
    PROVE  FreeList(h)
  BY DEF FreeList, Sorted, Chain

\* Changes one after the other.
LEMMA ChangesTwice ==
    ASSUME NEW h, NEW g, NEW e, NEW X, Changes(h, g, X), Changes(g, e, X)
    PROVE  Changes(h, e, X)
  BY DEF Changes

\* The lists that differ only by a list.
LEMMA ListUpdate ==
    ASSUME NEW h \in Heaps, NEW f \in Seq(Addresses), NEW g, g = [h EXCEPT !.free = f]
    PROVE  /\ Changes(h, g, {}) /\ g \in Heaps /\ g.free = f /\ g.mem = h.mem /\ g.end = h.end
           /\ g.max = h.max /\ g.halt = h.halt
  <1>1. /\ g \in Heaps /\ g.free = f /\ g.mem = h.mem /\ g.end = h.end
        /\ g.max = h.max /\ g.halt = h.halt
    BY DEF Heaps
  <1> QED
    BY <1>1 DEF Changes

\* Blocks are what they are in the same memory.
LEMMA SameMemory ==
    ASSUME NEW h, NEW g, g.mem = h.mem, g.end = h.end, NEW b
    PROVE  /\ SizeOf(g, b) = SizeOf(h, b) /\ Extent(g, b) = Extent(h, b)
           /\ \A taken : Block(h, b, taken) <=> Block(g, b, taken)
  BY DEF SizeOf, Extent, Block

\* A free block that is in the list nowhere, put where it belongs, may touch its
\* neighbours and overlaps none.
LEMMA Link ==
    ASSUME NEW h \in Heaps, FreeList(h), NEW b, Block(h, b, FALSE), Extent(h, b) \cap Held(h) = {},
           NEW i, Belongs(h.free, b, i),
           NEW f \in Seq(Addresses), PutIn(h.free, b, i, f), NEW g, g = [h EXCEPT !.free = f]
    PROVE  /\ Sorted(g, {i - 1, i})
           /\ Held(g) = Held(h) \cup Extent(h, b)
           /\ \A j \in 1..Len(h.free) : j < i => h.free[j] + SizeOf(h, h.free[j]) <= b
           /\ \A j \in 1..Len(h.free) : j >= i => b + SizeOf(h, b) <= h.free[j]
  <1>1. PICK n \in Nat : n = Len(h.free)
    BY HeapFacts
  <1>2. PICK F : F = Places(h)
    OBVIOUS
  <1>3. PICK Z : Z = Lengths(h)
    OBVIOUS
  <1>4. PICK s \in Seq(Addresses) : s = h.free /\ Len(s) = n
    BY <1>1, HeapFacts
  <1>5. Sorted(h, {})
    BY DEF FreeList
  <1>0. Chain(n, F, Z, {}) /\ Intervals(n, F, Z)
    BY <1>1, <1>2, <1>3, <1>5, SortedFacts
  <1>6. \A j \in 1..n : s[j] = F[j] /\ Z[j] = SizeOf(h, s[j]) /\ Block(h, s[j], FALSE)
    BY <1>1, <1>2, <1>3, <1>4, <1>5, SortedFacts
  <1>7. PICK z \in Nat : z = SizeOf(h, b) /\ z > 0
    BY BlockSize
  <1>8. b \in Nat /\ b \in Addresses /\ Extent(h, b) = b..(b + z - 1)
    BY <1>7, BlockSize DEF Extent
  <1>9. i \in 1..(n + 1) /\ GoesTo(n, F, b, i)
    <2>1. /\ i \in 1..(n + 1) /\ (\A j \in 1..n : j < i => s[j] <= b)
          /\ (i <= n => b < s[i])
      BY <1>4 DEF Belongs
    <2>2. i <= n => i \in 1..n
      BY <2>1
    <2> QED
      BY <1>6, <2>1, <2>2 DEF GoesTo
  <1>10. Held(h) = Cover(n, F, Z)
    BY <1>1, <1>2, <1>3, <1>5, HeldFacts
  <1>11. Clear(n, F, Z, b, z)
    BY <1>8, <1>10 DEF Clear
  <1>12. g \in Heaps /\ g.free = f /\ g.mem = h.mem /\ g.end = h.end
    BY ListUpdate
  <1>13. \A x : SizeOf(g, x) = SizeOf(h, x) /\ (Block(h, x, FALSE) => Block(g, x, FALSE))
    BY <1>12, SameMemory
  <1>14. Len(f) = n + 1 /\ f[i] = b
    BY <1>4, <1>9 DEF PutIn
  <1>15. ASSUME NEW j \in 1..n, j < i PROVE f[j] = s[j] /\ j \in 1..(n + 1)
    BY <1>4, <1>15 DEF PutIn
  <1>16. ASSUME NEW j \in 1..n, j >= i PROVE f[j + 1] = s[j] /\ j + 1 \in 1..(n + 1)
    <2>1. j + 1 \in 1..(n + 1) /\ ~(j + 1 < i) /\ j + 1 # i /\ (j + 1) - 1 = j
      BY <1>9, <1>16
    <2> QED
      BY <1>4, <2>1 DEF PutIn
  <1>17. ASSUME NEW j \in 1..(n + 1) PROVE Block(g, f[j], FALSE)
    <2>1. CASE j < i
      <3>1. j \in 1..n
        BY <1>9, <2>1
      <3> QED
        BY <1>6, <1>13, <1>15, <2>1, <3>1
    <2>2. CASE j = i
      BY <1>13, <1>14, <2>2
    <2>3. CASE j > i
      <3>1. j - 1 \in 1..n /\ j - 1 >= i /\ (j - 1) + 1 = j
        BY <1>9, <2>3
      <3> QED
        BY <1>6, <1>13, <1>16, <3>1
    <2>4. j < i \/ j = i \/ j > i
      BY <1>9
    <2> QED
      BY <2>1, <2>2, <2>3, <2>4
  <1>18. PICK G : G = Places(g)
    OBVIOUS
  <1>19. PICK Y : Y = Lengths(g)
    OBVIOUS
  <1>20. /\ Len(g.free) = n + 1 /\ DOMAIN g.free = 1..(n + 1) /\ Intervals(n + 1, G, Y)
         /\ \A j \in 1..(n + 1) : G[j] = f[j] /\ Y[j] = SizeOf(g, f[j])
    <2>1. PICK m \in Nat : m = n + 1
      OBVIOUS
    <2>2. \A j \in 1..m : Block(g, f[j], FALSE)
      BY <1>17, <2>1
    <2>3. g \in Heaps /\ f \in Seq(Addresses) /\ g.free = f /\ Len(f) = m
      BY <1>12, <1>14, <2>1
    <2>4. /\ Len(g.free) = m /\ DOMAIN g.free = 1..m /\ Intervals(m, Places(g), Lengths(g))
          /\ \A j \in 1..m : Places(g)[j] = f[j] /\ Lengths(g)[j] = SizeOf(g, f[j])
      BY ONLY <2>1, <2>2, <2>3, ListIntervals, ZenonT(30)
    <2> QED
      BY <1>18, <1>19, <2>1, <2>4
  <1>21. Inserted(n, F, Z, i, b, z, G, Y)
    <2>1. ASSUME NEW j \in 1..n, j < i PROVE Same(F, Z, j, G, Y, j)
      BY <1>6, <1>13, <1>15, <1>20, <2>1 DEF Same
    <2>2. ASSUME NEW j \in 1..n, j >= i PROVE Same(F, Z, j, G, Y, j + 1)
      BY <1>6, <1>13, <1>16, <1>20, <2>2 DEF Same
    <2>3. G[i] = b /\ Y[i] = z
      BY <1>7, <1>9, <1>13, <1>14, <1>20
    <2> QED
      BY <2>1, <2>2, <2>3 DEF Inserted
  <1>22. Intervals(n + 1, G, Y)
    BY <1>20
  <1>23. /\ Chain(n + 1, G, Y, {i - 1, i})
         /\ Cover(n + 1, G, Y) = Cover(n, F, Z) \cup b..(b + z - 1)
         /\ \A j \in 1..n : j < i => F[j] + Z[j] <= b
         /\ \A j \in 1..n : j >= i => b + z <= F[j]
    <2>1. n \in Nat /\ Chain(n, F, Z, {}) /\ b \in Nat /\ z \in Nat /\ z > 0
      BY <1>0, <1>7, <1>8
    <2>2. i \in 1..(n + 1) /\ Clear(n, F, Z, b, z) /\ GoesTo(n, F, b, i)
      BY <1>9, <1>11
    <2> QED
      BY ONLY <1>21, <1>22, <2>1, <2>2, ChainInsert
  <1>24. Sorted(g, {i - 1, i})
    BY <1>12, <1>17, <1>18, <1>19, <1>20, <1>23 DEF Sorted
  <1>25. Held(g) = Cover(n + 1, G, Y)
    BY <1>12, <1>18, <1>19, <1>20, <1>24, HeldFacts
  <1>26. Held(g) = Held(h) \cup Extent(h, b)
    BY <1>8, <1>10, <1>23, <1>25
  <1>27. \A j \in 1..n : j < i => h.free[j] + SizeOf(h, h.free[j]) <= b
    BY <1>4, <1>6, <1>23
  <1>28. \A j \in 1..n : j >= i => b + SizeOf(h, b) <= h.free[j]
    BY <1>4, <1>6, <1>7, <1>23
  <1> QED
    BY <1>1, <1>24, <1>26, <1>27, <1>28

\* km_insert() puts a block into the list, merged with its neighbours; its
\* assertions hold, and it writes only to what is then free.
LEMMA Insert ==
    ASSUME NEW h \in Heaps, FreeList(h), NEW b, Block(h, b, FALSE), Extent(h, b) \cap Held(h) = {}
    PROVE  /\ FreeList(km_insert(h, b))
           /\ Held(km_insert(h, b)) = Held(h) \cup Extent(h, b)
           /\ Changes(h, km_insert(h, b), Held(h) \cup Extent(h, b))
  <1>1. h.free \in Seq(Addresses) /\ b \in Addresses
    BY HeapFacts, BlockSize
  <1>2. PICK i : i = Place(h.free, b)
    OBVIOUS
  <1>3. Belongs(h.free, b, i)
    BY <1>1, <1>2, PlaceFound
  <1>4. PICK n \in Nat : n = Len(h.free)
    BY HeapFacts
  <1>5. i \in 1..(n + 1)
    BY <1>3, <1>4 DEF Belongs
  <1>6. PICK X : X = Held(h) \cup Extent(h, b)
    OBVIOUS
  <1>7. CASE i = 1
    <2>1. PICK f \in Seq(Addresses) : f = <<b>> \o h.free
      <3>1. PICK s \in Seq(Addresses) : s = h.free
        BY <1>1
      <3>2. <<b>> \in Seq(Addresses)
        BY <1>1
      <3>3. <<b>> \o s \in Seq(Addresses)
        BY <3>2
      <3> QED
        BY <3>1, <3>3
    <2>2. PutIn(h.free, b, i, f)
      <3>1. PICK s \in Seq(Addresses) : s = h.free
        BY <1>1
      <3>2. Len(f) = Len(s) + 1 /\ f[1] = b /\ \A j \in 2..(Len(s) + 1) : f[j] = s[j - 1]
        BY <1>1, <2>1, <3>1
      <3> QED
        BY <1>7, <3>1, <3>2 DEF PutIn
    <2>3. PICK g : g = [h EXCEPT !.free = f]
      OBVIOUS
    <2>4. g \in Heaps /\ g.free = f /\ Changes(h, g, {})
      BY <2>3, ListUpdate
    <2>5. Sorted(g, {i - 1, i}) /\ Held(g) = X
      BY <1>3, <1>6, <2>2, <2>3, Link
    <2>6. PICK e : e = km_coalesce(g, 1)
      OBVIOUS
    <2>7. km_insert(h, b) = e
      BY <1>2, <1>7, <2>1, <2>3, <2>6 DEF km_insert, InsertAtPlace
    <2>8. Len(g.free) = n + 1
      BY <1>4, <2>2, <2>4 DEF PutIn
    <2>9. 1 \in 1..Len(g.free) /\ NoneBehind({i - 1, i}, 1, Len(g.free))
      BY <1>7, <2>8 DEF NoneBehind
    <2>10. Sorted(e, {i - 1, i} \ {1}) /\ Held(e) = Held(g) /\ Changes(g, e, Held(g))
      BY <2>4, <2>5, <2>6, <2>9, Coalesce
    <2>11. Changes(h, e, X)
      BY <2>4, <2>5, <2>10 DEF Changes
    <2>12. FreeList(e)
      <3>1. e \in Heaps /\ \A k \in 1..Len(e.free) : k \notin {i - 1, i} \ {1}
        BY <1>7, <2>11 DEF Changes
      <3> QED
        BY <2>10, <3>1, SortedNone
    <2> QED
      BY <1>6, <2>5, <2>7, <2>10, <2>11, <2>12
  <1>8. CASE i # 1
    <2>1. /\ InsertAt(h.free, i, b) \in Seq(Addresses)
          /\ PutIn(h.free, b, i, InsertAt(h.free, i, b))
      <3>1. PICK s \in Seq(Addresses) : s = h.free
        BY <1>1
      <3>2. i \in 1..(Len(s) + 1)
        BY <1>4, <1>5, <3>1
      <3>3. InsertAt(s, i, b) \in Seq(Addresses) /\ PutIn(s, b, i, InsertAt(s, i, b))
        BY <1>1, <3>2, InsertList
      <3> QED
        BY <3>1, <3>3
    <2>2. PICK f \in Seq(Addresses) : f = InsertAt(h.free, i, b) /\ PutIn(h.free, b, i, f)
      BY <2>1
    <2>3. PICK g : g = [h EXCEPT !.free = f]
      OBVIOUS
    <2>4. g \in Heaps /\ g.free = f /\ Changes(h, g, {})
      BY <2>3, ListUpdate
    <2>5. /\ Sorted(g, {i - 1, i}) /\ Held(g) = X
          /\ \A j \in 1..n : j < i => h.free[j] + SizeOf(h, h.free[j]) <= b
          /\ \A j \in 1..n : j >= i => b + SizeOf(h, b) <= h.free[j]
      BY <1>3, <1>4, <1>6, <2>2, <2>3, Link
    <2>6. PICK d : d = km_coalesce(g, i)
      OBVIOUS
    <2>7. PICK e : e = km_coalesce(d, i - 1)
      OBVIOUS
    <2>8. ~(h.free[i - 1] + SizeOf(h, h.free[i - 1]) > b)
      <3>1. i - 1 \in 1..n /\ i - 1 < i
        BY <1>5, <1>8
      <3>2. h.free[i - 1] + SizeOf(h, h.free[i - 1]) <= b
        BY <2>5, <3>1
      <3>3. h.free[i - 1] \in Nat /\ SizeOf(h, h.free[i - 1]) \in Nat /\ b \in Nat
        BY <1>4, <3>1, SortedFacts, BlockSize DEF FreeList
      <3> QED
        BY <3>2, <3>3
    <2>9. ~(i <= n /\ b + SizeOf(h, b) > h.free[i])
      <3> SUFFICES ASSUME i <= n PROVE ~(b + SizeOf(h, b) > h.free[i])
        OBVIOUS
      <3>1. i \in 1..n
        BY <1>5
      <3>2. b + SizeOf(h, b) <= h.free[i]
        BY <2>5, <3>1
      <3>3. h.free[i] \in Nat /\ SizeOf(h, b) \in Nat /\ b \in Nat
        BY <1>4, <3>1, HeapFacts, BlockSize
      <3> QED
        BY <3>2, <3>3
    <2>10. km_insert(h, b) = e
      BY <1>2, <1>4, <1>8, <2>2, <2>3, <2>6, <2>7, <2>8, <2>9 DEF km_insert, InsertAtPlace
    <2>11. Len(g.free) = n + 1
      BY <1>4, <2>2, <2>4 DEF PutIn
    <2>12. i \in 1..Len(g.free) /\ NoneBehind({i - 1, i}, i, Len(g.free))
      BY <1>5, <2>11 DEF NoneBehind
    <2>13. /\ Sorted(d, {i - 1, i} \ {i}) /\ Held(d) = Held(g) /\ Changes(g, d, Held(g))
           /\ i <= Len(d.free)
      BY <2>4, <2>5, <2>6, <2>12, Coalesce
    <2>14. d \in Heaps
      BY <2>13 DEF Changes
    <2>15. i - 1 \in 1..Len(d.free) /\ NoneBehind({i - 1, i} \ {i}, i - 1, Len(d.free))
      BY <1>5, <1>8, <2>13, <2>14, HeapFacts DEF NoneBehind
    <2>16. Sorted(e, ({i - 1, i} \ {i}) \ {i - 1}) /\ Held(e) = Held(d) /\ Changes(d, e, Held(d))
      BY <2>7, <2>13, <2>14, <2>15, Coalesce
    <2>17. Changes(h, e, X)
      <3>1. Changes(h, d, X)
        BY <2>4, <2>5, <2>13 DEF Changes
      <3>2. Changes(d, e, X)
        BY <2>5, <2>13, <2>16
      <3> QED
        BY <3>1, <3>2, ChangesTwice
    <2>18. FreeList(e)
      <3>1. ({i - 1, i} \ {i}) \ {i - 1} = {}
        OBVIOUS
      <3> QED
        BY <2>16, <3>1 DEF FreeList
    <2> QED
      BY <1>6, <2>5, <2>10, <2>13, <2>16, <2>17, <2>18
  <1> QED
    BY <1>7, <1>8

-----------------------------------------------------------------------------
(* Tilings *)

\* The bytes of a block, in use or not.
LEMMA WholeFacts ==
    ASSUME NEW h \in Heaps, NEW b, Whole(h, b)
    PROVE  /\ b \in Addresses /\ b \in Nat /\ SizeOf(h, b) \in Nat /\ SizeOf(h, b) > 0
           /\ SizeOf(h, b) % Alignment = 0 /\ b + SizeOf(h, b) <= h.end
           /\ b \in Extent(h, b) /\ h.mem[b] \in Headers
           /\ \A a : a \in Extent(h, b) <=> a \in Nat /\ b <= a /\ a < b + SizeOf(h, b)
  <1>1. h.mem[b] \in Headers
    BY DEF Whole, Block
  <1> QED
    BY <1>1, BlockSize DEF Whole

\* The bytes of one block more or less.
LEMMA BytesFacts ==
    ASSUME NEW h, NEW S
    PROVE  /\ \A a : a \in Bytes(h, S) <=> \E b \in S : a \in Extent(h, b)
           /\ \A b : Bytes(h, S \cup {b}) = Bytes(h, S) \cup Extent(h, b)
           /\ \A b \in S : Extent(h, b) \subseteq Bytes(h, S)
           /\ \A K \in SUBSET S : Bytes(h, K) \subseteq Bytes(h, S)
  BY DEF Bytes

\* Blocks that are apart share nothing.
LEMMA BytesWithout ==
    ASSUME NEW h, NEW S, Apart(h, S), NEW b \in S
    PROVE  /\ Bytes(h, S) = Bytes(h, S \ {b}) \cup Extent(h, b)
           /\ Bytes(h, S \ {b}) \cap Extent(h, b) = {}
  <1>1. (S \ {b}) \cup {b} = S
    OBVIOUS
  <1>2. Bytes(h, S) = Bytes(h, S \ {b}) \cup Extent(h, b)
    BY <1>1, BytesFacts
  <1>3. ASSUME NEW a \in Bytes(h, S \ {b}), a \in Extent(h, b) PROVE FALSE
    <2>1. PICK u \in S \ {b} : a \in Extent(h, u)
      BY BytesFacts
    <2>2. u # b /\ u \in S
      OBVIOUS
    <2> QED
      BY <1>3, <2>1, <2>2 DEF Apart
  <1> QED
    BY <1>2, <1>3

\* The blocks in K have the headers they had.
SameHeaders(h, g, K) == \A u \in K : g.mem[u] = h.mem[u]

\* Blocks whose headers have not changed are where they were.
LEMMA HeadersKept ==
    ASSUME NEW h \in Heaps, NEW g \in Heaps, NEW K, SameHeaders(h, g, K), h.end <= g.end,
           \A u \in K : Whole(h, u)
    PROVE  /\ \A u \in K : Whole(g, u) /\ Extent(g, u) = Extent(h, u) /\ SizeOf(g, u) = SizeOf(h, u)
           /\ \A u \in K, taken \in BOOLEAN : Block(h, u, taken) => Block(g, u, taken)
           /\ Bytes(g, K) = Bytes(h, K)
           /\ Apart(h, K) => Apart(g, K)
  <1>1. ASSUME NEW u \in K
        PROVE  Whole(g, u) /\ Extent(g, u) = Extent(h, u) /\ SizeOf(g, u) = SizeOf(h, u)
    <2>1. g.mem[u] = h.mem[u] /\ Block(h, u, h.mem[u].alloc)
      BY DEF SameHeaders, Whole
    <2>2. /\ Block(g, u, h.mem[u].alloc) /\ SizeOf(g, u) = SizeOf(h, u)
          /\ Extent(g, u) = Extent(h, u)
      BY <2>1, BlockKept
    <2> QED
      BY <2>1, <2>2 DEF Whole
  <1>2. ASSUME NEW u \in K, NEW taken \in BOOLEAN, Block(h, u, taken) PROVE Block(g, u, taken)
    <2>1. g.mem[u] = h.mem[u]
      BY DEF SameHeaders
    <2> QED
      BY <1>2, <2>1, BlockKept
  <1>3. Bytes(g, K) = Bytes(h, K)
    <2>1. ASSUME NEW a PROVE a \in Bytes(g, K) <=> a \in Bytes(h, K)
      <3>1. a \in Bytes(g, K) <=> \E u \in K : a \in Extent(g, u)
        BY BytesFacts
      <3>2. a \in Bytes(h, K) <=> \E u \in K : a \in Extent(h, u)
        BY BytesFacts
      <3> QED
        BY <1>1, <3>1, <3>2
    <2> QED
      BY <2>1
  <1>4. Apart(h, K) => Apart(g, K)
    BY <1>1 DEF Apart
  <1> QED
    BY <1>1, <1>2, <1>3, <1>4

\* A tiling without some of the blocks.
Rest(g, X) == Held(g) \cap X = {} /\ Held(g) \cup X = kheap_begin..(g.end - 1)

\* Kept blocks and those that are now free.
LEMMA Retile ==
    ASSUME NEW h \in Heaps, NEW g \in Heaps, NEW S, NEW K, Tiles(h, S), K \subseteq S,
           FreeList(g), Inside(g), h.end <= g.end, SameHeaders(h, g, K), Rest(g, Bytes(h, K))
    PROVE  Tiles(g, K)
  <1>1. (\A u \in K : Whole(h, u)) /\ Apart(h, K)
    BY DEF Tiles, Apart
  <1>2. (\A u \in K : Whole(g, u)) /\ Apart(g, K) /\ Bytes(g, K) = Bytes(h, K)
    BY <1>1, HeadersKept
  <1> QED
    BY <1>2 DEF Tiles, Rest

\* Kept blocks, a new one, and those that are now free.
LEMMA RetileWith ==
    ASSUME NEW h \in Heaps, NEW g \in Heaps, NEW S, NEW K, Tiles(h, S), K \subseteq S,
           FreeList(g), Inside(g), h.end <= g.end, SameHeaders(h, g, K),
           NEW b, Whole(g, b), Extent(g, b) \cap Bytes(h, K) = {},
           Rest(g, Bytes(h, K) \cup Extent(g, b))
    PROVE  Tiles(g, K \cup {b})
  <1>1. (\A u \in K : Whole(h, u)) /\ Apart(h, K)
    BY DEF Tiles, Apart
  <1>2. (\A u \in K : Whole(g, u)) /\ Apart(g, K) /\ Bytes(g, K) = Bytes(h, K)
    BY <1>1, HeadersKept
  <1>3. Bytes(g, K \cup {b}) = Bytes(h, K) \cup Extent(g, b)
    BY <1>2, BytesFacts
  <1>4. \A u \in K : Extent(g, u) \cap Extent(g, b) = {}
    <2>1. \A u \in K : Extent(g, u) \subseteq Bytes(g, K)
      BY BytesFacts
    <2> QED
      BY <1>2, <2>1
  <1>5. Apart(g, K \cup {b})
    BY <1>2, <1>4 DEF Apart
  <1>6. \A u \in K \cup {b} : Whole(g, u)
    BY <1>2
  <1> QED
    BY <1>3, <1>5, <1>6 DEF Tiles, Rest

\* The free list of a heap in which only words outside of it were changed.
LEMMA ListKept ==
    ASSUME NEW h \in Heaps, NEW g \in Heaps, FreeList(h), g.free = h.free, h.end <= g.end,
           \A w \in Addresses : w \in Held(h) => g.mem[w] = h.mem[w]
    PROVE  FreeList(g) /\ Held(g) = Held(h)
  <1>1. Sorted(h, {})
    BY DEF FreeList
  <1>2. PICK s \in Seq(Addresses) : s = h.free
    BY HeapFacts
  <1>3. PICK n \in Nat : n = Len(s) /\ DOMAIN s = 1..n
    OBVIOUS
  <1>4. ASSUME NEW i \in 1..n
        PROVE  Block(g, s[i], FALSE) /\ SizeOf(g, s[i]) = SizeOf(h, s[i]) /\ Extent(g, s[i]) = Extent(h, s[i])
    <2>1. Block(h, s[i], FALSE) /\ s[i] \in Held(h) /\ s[i] \in Addresses
      <3>1. i \in 1..Len(h.free)
        BY <1>2, <1>3
      <3>2. Block(h, h.free[i], FALSE)
        BY <1>1, <3>1, SortedFacts
      <3>3. h.free[i] \in Held(h)
        BY <1>1, <3>1, HeldFacts
      <3> QED
        BY <1>2, <3>2, <3>3, BlockSize
    <2>2. g.mem[s[i]] = h.mem[s[i]]
      BY <2>1
    <2> QED
      BY <2>1, <2>2, BlockKept
  <1>5. Places(g) = Places(h) /\ Lengths(g) = Lengths(h)
    BY <1>2, <1>3, <1>4 DEF Places, Lengths
  <1>6. Chain(Len(g.free), Places(g), Lengths(g), {})
    BY <1>1, <1>5 DEF Sorted
  <1>7. Sorted(g, {})
    BY <1>2, <1>3, <1>4, <1>6 DEF Sorted
  <1>8. Held(g) = Held(h)
    BY <1>1, <1>5, <1>7, HeldFacts
  <1> QED
    BY <1>7, <1>8 DEF FreeList

\* The words of the blocks in K are what they were.
Keeps(h, g, K) == \A u \in K : \A w \in Addresses : w \in Extent(h, u) => g.mem[w] = h.mem[w]

\* Kept blocks have kept headers.
LEMMA KeptHeaders ==
    ASSUME NEW h \in Heaps, NEW g, NEW K, \A u \in K : Whole(h, u), Keeps(h, g, K)
    PROVE  SameHeaders(h, g, K)
  <1>1. ASSUME NEW u \in K PROVE g.mem[u] = h.mem[u]
    <2>1. Whole(h, u)
      OBVIOUS
    <2>2. u \in Addresses /\ u \in Extent(h, u)
      BY <2>1, WholeFacts
    <2> QED
      BY <2>2 DEF Keeps
  <1> QED
    BY <1>1 DEF SameHeaders

\* Blocks that share nothing with the words that were written are kept.
LEMMA KeepsOutside ==
    ASSUME NEW h, NEW g, NEW K, NEW X, Bytes(h, K) \cap X = {},
           \A w \in Addresses \ X : g.mem[w] = h.mem[w]
    PROVE  Keeps(h, g, K)
  <1>1. ASSUME NEW u \in K, NEW w \in Addresses, w \in Extent(h, u) PROVE g.mem[w] = h.mem[w]
    <2>1. w \in Bytes(h, K)
      BY <1>1, BytesFacts
    <2> QED
      BY <2>1
  <1> QED
    BY <1>1 DEF Keeps

\* Blocks kept by one step after another.
LEMMA KeepsTwice ==
    ASSUME NEW h \in Heaps, NEW g \in Heaps, NEW e, NEW K, \A u \in K : Whole(h, u),
           h.end <= g.end, Keeps(h, g, K), Keeps(g, e, K)
    PROVE  Keeps(h, e, K)
  <1>1. SameHeaders(h, g, K)
    BY KeptHeaders
  <1>2. \A u \in K : Extent(g, u) = Extent(h, u)
    BY <1>1, HeadersKept
  <1> QED
    BY <1>2 DEF Keeps

\* Fewer blocks are kept, too.
LEMMA KeepsFewer ==
    ASSUME NEW h, NEW g, NEW K, NEW L, L \subseteq K, Keeps(h, g, K)
    PROVE  Keeps(h, g, L)
  BY DEF Keeps

\* Heap g is heap h without block b, which is at place i of the list.
Unlinked(h, i, b, g) ==
    /\ i \in 1..Len(h.free) /\ b = h.free[i]
    /\ g = [h EXCEPT !.free = RemoveAt(@, i)]

\* Taking a block off the free list.
LEMMA Unlink ==
    ASSUME NEW h \in Heaps, FreeList(h), NEW i, NEW b, NEW g, Unlinked(h, i, b, g)
    PROVE  /\ g \in Heaps /\ g.mem = h.mem /\ g.end = h.end /\ g.max = h.max /\ g.halt = h.halt
           /\ FreeList(g) /\ Block(g, b, FALSE)
           /\ Held(h) = Held(g) \cup Extent(h, b) /\ Held(g) \cap Extent(h, b) = {}
  <1>1. PICK n \in Nat : n = Len(h.free)
    BY HeapFacts
  <1>2. PICK F : F = Places(h)
    OBVIOUS
  <1>3. PICK Z : Z = Lengths(h)
    OBVIOUS
  <1>4. PICK s \in Seq(Addresses) : s = h.free /\ Len(s) = n /\ DOMAIN s = 1..n
    BY <1>1, HeapFacts
  <1>5. Sorted(h, {})
    BY DEF FreeList
  <1>6. Chain(n, F, Z, {}) /\ Intervals(n, F, Z)
    BY <1>1, <1>2, <1>3, <1>5, SortedFacts
  <1>7. \A j \in 1..n : s[j] = F[j] /\ Z[j] = SizeOf(h, s[j]) /\ Block(h, s[j], FALSE)
    BY <1>1, <1>2, <1>3, <1>4, <1>5, SortedFacts
  <1>8. i \in 1..n /\ i \in DOMAIN s /\ n - 1 \in Nat /\ b = s[i]
    BY <1>1, <1>4 DEF Unlinked
  <1>9. PICK f \in Seq(Addresses) :
           /\ f = RemoveAt(s, i) /\ Len(f) = n - 1
           /\ \A j \in 1..(n - 1) : f[j] = IF j < i THEN s[j] ELSE s[j + 1]
    <2>1. /\ RemoveAt(s, i) \in Seq(Addresses) /\ Len(RemoveAt(s, i)) = Len(s) - 1
          /\ \A j \in 1..(Len(s) - 1) : RemoveAt(s, i)[j] = IF j < i THEN s[j] ELSE s[j + 1]
      BY <1>8, RemoveList
    <2> QED
      BY <1>4, <2>1
  <1>10. g = [h EXCEPT !.free = f]
    BY <1>4, <1>9 DEF Unlinked
  <1>11. /\ g \in Heaps /\ g.free = f /\ g.mem = h.mem /\ g.end = h.end
         /\ g.max = h.max /\ g.halt = h.halt
    BY <1>10, ListUpdate
  <1>12. \A x : SizeOf(g, x) = SizeOf(h, x) /\ (Block(h, x, FALSE) => Block(g, x, FALSE))
    BY <1>11, SameMemory
  <1>13. ASSUME NEW j \in 1..n, j < i PROVE f[j] = s[j] /\ j \in 1..(n - 1)
    <2>1. j \in 1..(n - 1)
      BY <1>8, <1>13
    <2> QED
      BY <1>9, <1>13, <2>1
  <1>14. ASSUME NEW j \in 1..n, j > i PROVE f[j - 1] = s[j] /\ j - 1 \in 1..(n - 1)
    <2>1. j - 1 \in 1..(n - 1) /\ ~(j - 1 < i) /\ (j - 1) + 1 = j
      BY <1>8, <1>14
    <2> QED
      BY <1>9, <2>1
  <1>15. ASSUME NEW j \in 1..(n - 1) PROVE Block(g, f[j], FALSE)
    <2>1. PICK k \in 1..n : f[j] = s[k]
      <3>1. j \in 1..n /\ j + 1 \in 1..n
        BY <1>8
      <3> QED
        BY <1>9, <3>1
    <2> QED
      BY <1>7, <1>12, <2>1
  <1>16. PICK G : G = Places(g)
    OBVIOUS
  <1>17. PICK Y : Y = Lengths(g)
    OBVIOUS
  <1>18. /\ Len(g.free) = n - 1 /\ DOMAIN g.free = 1..(n - 1) /\ Intervals(n - 1, G, Y)
         /\ \A j \in 1..(n - 1) : G[j] = f[j] /\ Y[j] = SizeOf(g, f[j])
    <2>1. PICK m \in Nat : m = n - 1
      BY <1>8
    <2>2. \A j \in 1..m : Block(g, f[j], FALSE)
      BY <1>15, <2>1
    <2>3. /\ Len(g.free) = m /\ DOMAIN g.free = 1..m /\ Intervals(m, Places(g), Lengths(g))
          /\ \A j \in 1..m : Places(g)[j] = f[j] /\ Lengths(g)[j] = SizeOf(g, f[j])
      BY <1>9, <1>11, <2>1, <2>2, ListIntervals
    <2> QED
      BY <1>16, <1>17, <2>1, <2>3
  <1>19. Removed(n, F, Z, i, G, Y)
    <2>1. ASSUME NEW j \in 1..n, j < i PROVE Same(F, Z, j, G, Y, j)
      BY <1>7, <1>12, <1>13, <1>18, <2>1 DEF Same
    <2>2. ASSUME NEW j \in 1..n, j > i PROVE Same(F, Z, j, G, Y, j - 1)
      BY <1>7, <1>12, <1>14, <1>18, <2>2 DEF Same
    <2> QED
      BY <2>1, <2>2 DEF Removed
  <1>20. /\ Chain(n - 1, G, Y, {})
         /\ Cover(n, F, Z) = Cover(n - 1, G, Y) \cup F[i]..(F[i] + Z[i] - 1)
         /\ Cover(n - 1, G, Y) \cap F[i]..(F[i] + Z[i] - 1) = {}
    <2>1. Intervals(n - 1, G, Y) /\ i \in 1..n /\ Chain(n, F, Z, {})
      BY <1>6, <1>8, <1>18
    <2> QED
      BY ONLY <1>19, <2>1, n \in Nat, ChainRemove
  <1>21. Sorted(g, {})
    BY <1>11, <1>15, <1>16, <1>17, <1>18, <1>20 DEF Sorted
  <1>22. Held(g) = Cover(n - 1, G, Y)
    BY <1>11, <1>16, <1>17, <1>18, <1>21, HeldFacts
  <1>23. Held(h) = Cover(n, F, Z)
    BY <1>1, <1>2, <1>3, <1>5, HeldFacts
  <1>24. F[i] = b /\ Z[i] = SizeOf(h, b) /\ Block(h, b, FALSE)
    BY <1>4, <1>7, <1>8
  <1>25. Extent(h, b) = F[i]..(F[i] + Z[i] - 1)
    BY <1>24 DEF Extent
  <1>26. FreeList(g) /\ Block(g, b, FALSE)
    BY <1>12, <1>21, <1>24 DEF FreeList
  <1> QED
    BY <1>11, <1>20, <1>22, <1>23, <1>25, <1>26

\* The block taken off the list is one more of those that are not in it.
LEMMA TakeOut ==
    ASSUME NEW h \in Heaps, NEW S, Tiles(h, S), NEW i, NEW b, NEW g, Unlinked(h, i, b, g)
    PROVE  /\ g \in Heaps /\ g.mem = h.mem /\ g.end = h.end /\ g.max = h.max /\ g.halt = h.halt
           /\ Tiles(g, S \cup {b}) /\ b \notin S /\ Block(g, b, FALSE)
  <1>1. /\ FreeList(h) /\ Inside(h) /\ Held(h) \cap Bytes(h, S) = {}
        /\ Held(h) \cup Bytes(h, S) = kheap_begin..(h.end - 1)
    BY DEF Tiles
  <1>2. /\ g \in Heaps /\ g.mem = h.mem /\ g.end = h.end /\ g.max = h.max /\ g.halt = h.halt
        /\ FreeList(g) /\ Block(g, b, FALSE)
        /\ Held(h) = Held(g) \cup Extent(h, b) /\ Held(g) \cap Extent(h, b) = {}
    BY <1>1, Unlink
  <1>3. Whole(g, b) /\ Extent(g, b) = Extent(h, b) /\ b \in Extent(h, b)
    <2>1. Whole(g, b)
      BY <1>2 DEF Whole, Block
    <2>2. Extent(g, b) = Extent(h, b)
      BY <1>2, SameMemory
    <2> QED
      BY <1>2, <2>1, <2>2, WholeFacts
  <1>4. b \notin S
    BY <1>1, <1>2, <1>3, BytesFacts
  <1>5. Inside(g) /\ SameHeaders(h, g, S) /\ h.end <= g.end
    BY <1>1, <1>2, HeapFacts DEF Inside, SameHeaders
  <1>6. Extent(g, b) \cap Bytes(h, S) = {} /\ Rest(g, Bytes(h, S) \cup Extent(g, b))
    BY <1>1, <1>2, <1>3 DEF Rest
  <1>7. Tiles(g, S \cup {b})
    BY <1>2, <1>3, <1>5, <1>6, RetileWith
  <1> QED
    BY <1>2, <1>4, <1>7

\* Heap g is heap h but for the word at b.
Wrote(h, b, g) ==
    /\ g \in Heaps
    /\ g.free = h.free /\ g.end = h.end /\ g.max = h.max /\ g.halt = h.halt
    /\ \A w \in Addresses : w # b => g.mem[w] = h.mem[w]

\* Heap g is heap h with the header x at b.
HeaderAt(h, b, x, g) == g = [h EXCEPT !.mem[b] = x]

\* A header is stored.
LEMMA WriteHeader ==
    ASSUME NEW h \in Heaps, NEW b \in Addresses, NEW x \in Headers,
           NEW g, HeaderAt(h, b, x, g)
    PROVE  Wrote(h, b, g) /\ g.mem[b] = x
  <1>1. PICK f \in Seq(Addresses) : f = h.free
    BY HeapFacts
  <1>2. [h EXCEPT !.mem[b] = x] = [h EXCEPT !.mem[b] = x, !.free = h.free]
    BY DEF Heaps
  <1>3. Stores(h, b, x, f, g)
    BY <1>1, <1>2 DEF Stores, HeaderAt
  <1>4. /\ g \in Heaps /\ g.free = f
        /\ g.end = h.end /\ g.max = h.max /\ g.halt = h.halt
        /\ g.mem[b] = x /\ \A w \in Addresses : w # b => g.mem[w] = h.mem[w]
    BY <1>3, HeapUpdate
  <1> QED
    BY <1>1, <1>4 DEF Wrote

\* The headers that kmalloc.c stores.
LEMMA NewHeader ==
    ASSUME NEW z \in Nat
    PROVE  /\ [size |-> z, alloc |-> FALSE] \in Headers
           /\ [size |-> z, alloc |-> FALSE].size = z
           /\ [size |-> z, alloc |-> FALSE].alloc = FALSE
  BY DEF Headers

\* Headers with another size or another mark.
LEMMA HeaderResized ==
    ASSUME NEW r \in Headers, NEW z \in Nat
    PROVE  /\ [r EXCEPT !.size = z] \in Headers
           /\ [r EXCEPT !.size = z].size = z
           /\ [r EXCEPT !.size = z].alloc = r.alloc
  BY DEF Headers

\* A header is marked.
LEMMA HeaderMarked ==
    ASSUME NEW r \in Headers, NEW taken \in BOOLEAN
    PROVE  /\ [r EXCEPT !.alloc = taken] \in Headers
           /\ [r EXCEPT !.alloc = taken].size = r.size
           /\ [r EXCEPT !.alloc = taken].alloc = taken
  BY DEF Headers

\* Heap g is heap h with a new header.
InitBlockIs(h, b, z, g) == g = km_initblock(h, b, z)

\* A new header.
LEMMA InitBlock ==
    ASSUME NEW h \in Heaps, NEW b \in Addresses, NEW z \in Nat, NEW g, InitBlockIs(h, b, z, g)
    PROVE  /\ Wrote(h, b, g) /\ g \in Heaps /\ g.end = h.end
           /\ g.mem[b] \in Headers /\ g.mem[b].alloc = FALSE /\ SizeOf(g, b) = z
  <1>1. PICK x \in Headers : x = [size |-> z, alloc |-> FALSE] /\ x.size = z /\ x.alloc = FALSE
    BY NewHeader
  <1>2. HeaderAt(h, b, x, g)
    BY <1>1 DEF km_initblock, InitBlockIs, HeaderAt
  <1>3. Wrote(h, b, g) /\ g.mem[b] = x
    BY <1>2, WriteHeader
  <1> QED
    BY <1>1, <1>3 DEF Wrote, SizeOf

\* A heap with another end.
LEMMA EndMoved ==
    ASSUME NEW h \in Heaps, NEW e \in Nat, NEW g, g = [h EXCEPT !.end = e]
    PROVE  /\ g \in Heaps /\ g.end = e /\ g.mem = h.mem /\ g.free = h.free
           /\ g.max = h.max /\ g.halt = h.halt
  BY DEF Heaps

\* A halted heap.
LEMMA Halted ==
    ASSUME NEW h \in Heaps, NEW e \in Nat, NEW g, g = [h EXCEPT !.end = e, !.halt = "oom"]
    PROVE  g \in Heaps /\ g.max = h.max /\ g.halt = "oom"
  BY DEF Heaps

\* The header of block b was changed, but not its mark and not its bounds, or words in it.
Altered(h, b, g) ==
    /\ g \in Heaps
    /\ g.free = h.free /\ g.end = h.end /\ g.max = h.max /\ g.halt = h.halt
    /\ \A w \in Addresses \ Extent(h, b) : g.mem[w] = h.mem[w]
    /\ g.mem[b] \in Headers /\ SizeOf(g, b) = SizeOf(h, b)

\* Writing within a block changes no other.
LEMMA Alter ==
    ASSUME NEW h \in Heaps, NEW S, Tiles(h, S), NEW b \in S, NEW g, Altered(h, b, g)
    PROVE  Tiles(g, S) /\ Keeps(h, g, S \ {b}) /\ Extent(g, b) = Extent(h, b) /\ Whole(g, b)
  <1>1. PICK K : K = S \ {b}
    OBVIOUS
  <1>2. /\ FreeList(h) /\ Inside(h) /\ Whole(h, b) /\ Apart(h, S)
        /\ Held(h) \cap Bytes(h, S) = {}
        /\ Held(h) \cup Bytes(h, S) = kheap_begin..(h.end - 1)
    BY DEF Tiles
  <1>3. Bytes(h, S) = Bytes(h, K) \cup Extent(h, b) /\ Bytes(h, K) \cap Extent(h, b) = {}
    BY <1>1, <1>2, BytesWithout
  <1>4. /\ g \in Heaps /\ g.free = h.free /\ g.end = h.end /\ g.max = h.max
        /\ \A w \in Addresses \ Extent(h, b) : g.mem[w] = h.mem[w]
        /\ g.mem[b] \in Headers /\ SizeOf(g, b) = SizeOf(h, b) /\ h.end <= g.end
    BY HeapFacts DEF Altered
  <1>5. Keeps(h, g, K)
    BY <1>3, <1>4, KeepsOutside
  <1>6. SameHeaders(h, g, K)
    <2>1. \A u \in K : Whole(h, u)
      BY <1>1 DEF Tiles
    <2> QED
      BY <1>5, <2>1, KeptHeaders
  <1>7. FreeList(g) /\ Held(g) = Held(h)
    <2>1. \A w \in Addresses : w \in Held(h) => g.mem[w] = h.mem[w]
      BY <1>2, <1>3, <1>4
    <2> QED
      BY <1>2, <1>4, <2>1, ListKept
  <1>8. Whole(g, b) /\ Extent(g, b) = Extent(h, b)
    BY <1>2, <1>4 DEF Whole, Block, Extent
  <1>9. Inside(g)
    BY <1>2, <1>4 DEF Inside
  <1>10. Extent(g, b) \cap Bytes(h, K) = {} /\ Rest(g, Bytes(h, K) \cup Extent(g, b))
    BY <1>2, <1>3, <1>4, <1>7, <1>8 DEF Rest
  <1>11. Tiles(g, K \cup {b})
    <2>1. K \subseteq S
      BY <1>1
    <2> QED
      BY <1>4, <1>6, <1>7, <1>8, <1>9, <1>10, <2>1, RetileWith
  <1>12. K \cup {b} = S
    BY <1>1
  <1> QED
    BY <1>1, <1>5, <1>8, <1>11, <1>12

\* From heap h to heap g, which has the blocks R outside its list, and the blocks K were
\* left alone.
Left(h, g, R, K) ==
    /\ g \in Heaps /\ g.end = h.end /\ g.max = h.max /\ g.halt = h.halt
    /\ Tiles(g, R) /\ Keeps(h, g, K)

\* A block that goes to the free list leaves the others as they are.
LEMMA PutBack ==
    ASSUME NEW h \in Heaps, NEW S, Tiles(h, S), NEW b \in S, Block(h, b, FALSE),
           NEW g, g = km_insert(h, b)
    PROVE  Left(h, g, S \ {b}, S \ {b})
  <1>1. PICK K : K = S \ {b}
    OBVIOUS
  <1>2. /\ FreeList(h) /\ Inside(h) /\ Whole(h, b) /\ Apart(h, S)
        /\ Held(h) \cap Bytes(h, S) = {}
        /\ Held(h) \cup Bytes(h, S) = kheap_begin..(h.end - 1)
    BY DEF Tiles
  <1>3. Bytes(h, S) = Bytes(h, K) \cup Extent(h, b) /\ Bytes(h, K) \cap Extent(h, b) = {}
    BY <1>1, <1>2, BytesWithout
  <1>4. Extent(h, b) \cap Held(h) = {}
    BY <1>2, <1>3
  <1>5. /\ FreeList(g) /\ Held(g) = Held(h) \cup Extent(h, b)
        /\ Changes(h, g, Held(h) \cup Extent(h, b))
    BY <1>2, <1>4, Insert
  <1>6. /\ g \in Heaps /\ g.end = h.end /\ g.max = h.max /\ g.halt = h.halt
        /\ \A w \in Addresses \ (Held(h) \cup Extent(h, b)) : g.mem[w] = h.mem[w]
    BY <1>5 DEF Changes
  <1>7. Keeps(h, g, K)
    <2>1. Bytes(h, K) \cap (Held(h) \cup Extent(h, b)) = {}
      BY <1>2, <1>3
    <2> QED
      BY <1>6, <2>1, KeepsOutside
  <1>8. SameHeaders(h, g, K)
    <2>1. \A u \in K : Whole(h, u)
      BY <1>1 DEF Tiles
    <2> QED
      BY <1>7, <2>1, KeptHeaders
  <1>9. Inside(g) /\ h.end <= g.end /\ K \subseteq S
    BY <1>1, <1>2, <1>6, HeapFacts DEF Inside
  <1>10. Rest(g, Bytes(h, K))
    BY <1>2, <1>3, <1>5, <1>6 DEF Rest
  <1>11. Tiles(g, K)
    BY <1>5, <1>6, <1>8, <1>9, <1>10, Retile
  <1> QED
    BY <1>1, <1>6, <1>7, <1>11 DEF Left

\* Where the blocks and the free bytes of a heap are.
LEMMA TilesWithin ==
    ASSUME NEW h \in Heaps, NEW S, Tiles(h, S)
    PROVE  /\ h.end \in Nat /\ h.max \in Nat /\ kheap_begin <= h.end /\ h.end <= h.max
           /\ h.max <= MemoryEnd /\ h.end % Alignment = 0
           /\ \A a \in Held(h) \cup Bytes(h, S) : a \in Nat /\ kheap_begin <= a /\ a < h.end
  <1>1. h.end \in Nat /\ h.max \in Nat /\ kheap_begin \in Nat
    BY HeapFacts, Begins
  <1>2. /\ kheap_begin <= h.end /\ h.end <= h.max /\ h.max <= MemoryEnd /\ h.end % Alignment = 0
        /\ Held(h) \cup Bytes(h, S) = kheap_begin..(h.end - 1)
    BY DEF Tiles, Inside
  <1> QED
    BY <1>1, <1>2

\* Heap g is heap h with a new block of z bytes at its end.
Extended(h, z, g) == g = km_initblock([h EXCEPT !.end = h.end + z], h.end, z)

\* A block at the end of the heap is one more of those that are not in the list.
LEMMA Extend ==
    ASSUME NEW h \in Heaps, NEW S, Tiles(h, S), NEW z \in Nat, z > 0, z % Alignment = 0,
           h.end + z <= h.max, NEW g, Extended(h, z, g)
    PROVE  /\ g \in Heaps /\ g.end = h.end + z /\ g.max = h.max /\ g.halt = h.halt
           /\ Tiles(g, S \cup {h.end}) /\ h.end \notin S /\ Keeps(h, g, S)
           /\ Block(g, h.end, FALSE) /\ SizeOf(g, h.end) = z
  <1>1. PICK b \in Nat : b = h.end
    BY HeapFacts
  <1>2. /\ Alignment \in Nat \ {0} /\ kheap_begin \in Nat /\ MemoryEnd \in Nat /\ h.max \in Nat
        /\ kheap_begin <= b /\ b + z <= h.max /\ h.max <= MemoryEnd /\ b % Alignment = 0
    BY <1>1, TilesWithin, Begins
  <1>3. \A a \in Held(h) \cup Bytes(h, S) : a \in Nat /\ kheap_begin <= a /\ a < b
    BY <1>1, TilesWithin
  <1>4. PICK e : e = [h EXCEPT !.end = h.end + z]
    OBVIOUS
  <1>5. e \in Heaps /\ e.end = b + z /\ e.mem = h.mem /\ e.free = h.free /\ e.max = h.max /\ e.halt = h.halt
    <2>1. h.end + z \in Nat
      BY <1>1
    <2>2. /\ e \in Heaps /\ e.end = h.end + z /\ e.mem = h.mem /\ e.free = h.free
          /\ e.max = h.max /\ e.halt = h.halt
      BY ONLY h \in Heaps, <1>4, <2>1, EndMoved
    <2> QED
      BY <1>1, <2>2
  <1>6. b \in Addresses
    <2>1. b < MemoryEnd
      BY <1>2
    <2> QED
      BY <1>2, <2>1, AddressFacts
  <1>7. InitBlockIs(e, b, z, g)
    BY <1>1, <1>4 DEF Extended, InitBlockIs
  <1>8. /\ Wrote(e, b, g) /\ g \in Heaps /\ g.end = e.end
        /\ g.mem[b] \in Headers /\ g.mem[b].alloc = FALSE /\ SizeOf(g, b) = z
    BY <1>5, <1>6, <1>7, InitBlock
  <1>9. /\ g.free = h.free /\ g.end = b + z /\ g.max = h.max /\ g.halt = h.halt
        /\ \A w \in Addresses \ {b} : g.mem[w] = h.mem[w]
    BY <1>5, <1>8 DEF Wrote
  <1>10. Block(g, b, FALSE) /\ Whole(g, b)
    <2>1. b + z <= g.end
      BY <1>9
    <2> QED
      BY <1>6, <1>8, <2>1 DEF Block, Whole
  <1>11. Bytes(h, S) \cap {b} = {} /\ b \notin Held(h)
    BY <1>3
  <1>12. Keeps(h, g, S)
    BY <1>9, <1>11, KeepsOutside
  <1>13. \A u \in S : Whole(h, u)
    BY DEF Tiles
  <1>14. SameHeaders(h, g, S)
    BY <1>12, <1>13, KeptHeaders
  <1>15. h.end <= g.end
    BY <1>1, <1>9
  <1>16. FreeList(g) /\ Held(g) = Held(h)
    <2>1. \A w \in Addresses : w \in Held(h) => g.mem[w] = h.mem[w]
      BY <1>9, <1>11
    <2>2. FreeList(h)
      BY DEF Tiles
    <2> QED
      BY <1>8, <1>9, <1>15, <2>1, <2>2, ListKept
  <1>17. Inside(g)
    <2>1. (b + z) % Alignment = 0
      BY <1>2, MultipleSum
    <2> QED
      BY <1>2, <1>9, <2>1 DEF Inside
  <1>18. \A a : a \in Extent(g, b) <=> a \in Nat /\ b <= a /\ a < b + z
    BY <1>8, <1>10, WholeFacts
  <1>19. Extent(g, b) \cap Bytes(h, S) = {} /\ Extent(g, b) \cap Held(h) = {}
    BY <1>3, <1>18
  <1>20. Held(h) \cap Bytes(h, S) = {} /\ Held(h) \cup Bytes(h, S) = kheap_begin..(b - 1)
    BY <1>1 DEF Tiles
  <1>21. kheap_begin..(g.end - 1) = kheap_begin..(b - 1) \cup Extent(g, b)
    BY <1>2, <1>9, <1>18
  <1>22. Rest(g, Bytes(h, S) \cup Extent(g, b))
    BY <1>16, <1>19, <1>20, <1>21 DEF Rest
  <1>23. Tiles(g, S \cup {b})
    BY <1>8, <1>10, <1>14, <1>15, <1>16, <1>17, <1>19, <1>22, RetileWith
  <1>24. b \notin S
    <2> SUFFICES ASSUME b \in S PROVE FALSE
      OBVIOUS
    <2>1. b \in Extent(h, b)
      BY <1>13, WholeFacts
    <2> QED
      BY <1>11, <2>1, BytesFacts
  <1> QED
    BY <1>1, <1>8, <1>9, <1>10, <1>12, <1>23, <1>24

\* Heap g is heap h with the size z in the header at b.
Resized(h, b, z, g) == g = [h EXCEPT !.mem[b].size = z]

\* A size is stored.
LEMMA SetSize ==
    ASSUME NEW h \in Heaps, NEW b \in Addresses, h.mem[b] \in Headers, NEW z \in Nat,
           NEW g, Resized(h, b, z, g)
    PROVE  /\ Wrote(h, b, g) /\ g \in Heaps
           /\ g.mem[b] \in Headers /\ SizeOf(g, b) = z /\ g.mem[b].alloc = h.mem[b].alloc
  <1>1. PICK r \in Headers : r = h.mem[b]
    OBVIOUS
  <1>2. PICK x \in Headers : x = [r EXCEPT !.size = z] /\ x.size = z /\ x.alloc = r.alloc
    BY HeaderResized
  <1>3. HeaderAt(h, b, x, g)
    <2>1. g = [h EXCEPT !.mem[b] = [h.mem[b] EXCEPT !.size = z]]
      BY DEF Resized
    <2> QED
      BY <1>1, <1>2, <2>1 DEF HeaderAt
  <1>4. Wrote(h, b, g) /\ g.mem[b] = x
    BY <1>3, WriteHeader
  <1> QED
    BY <1>1, <1>2, <1>4 DEF Wrote, SizeOf

\* A block swallows its neighbour.
LEMMA Join ==
    ASSUME NEW h \in Heaps, NEW S, Tiles(h, S), NEW b \in S, NEW c \in S, c = b + SizeOf(h, b),
           NEW g, Resized(h, b, SizeOf(h, b) + SizeOf(h, c), g)
    PROVE  /\ Left(h, g, S \ {c}, (S \ {c}) \ {b}) /\ Wrote(h, b, g)
           /\ SizeOf(g, b) = SizeOf(h, b) + SizeOf(h, c)
           /\ g.mem[b] \in Headers /\ g.mem[b].alloc = h.mem[b].alloc
  <1>1. PICK y \in Nat : y = SizeOf(h, b) /\ y > 0 /\ y % Alignment = 0
    BY WholeFacts DEF Tiles
  <1>2. PICK z \in Nat : z = SizeOf(h, c) /\ z > 0 /\ z % Alignment = 0 /\ c + z <= h.end
    BY WholeFacts DEF Tiles
  <1>3. /\ b \in Addresses /\ b \in Nat /\ c \in Nat /\ h.end \in Nat /\ c = b + y /\ c # b
        /\ h.mem[b] \in Headers
        /\ (\A a : a \in Extent(h, b) <=> a \in Nat /\ b <= a /\ a < b + y)
        /\ (\A a : a \in Extent(h, c) <=> a \in Nat /\ c <= a /\ a < c + z)
    <2>1. Whole(h, b) /\ Whole(h, c)
      BY DEF Tiles
    <2>2. /\ b \in Addresses /\ b \in Nat /\ h.mem[b] \in Headers
          /\ (\A a : a \in Extent(h, b) <=> a \in Nat /\ b <= a /\ a < b + y)
      BY <1>1, <2>1, WholeFacts
    <2>3. c \in Nat /\ (\A a : a \in Extent(h, c) <=> a \in Nat /\ c <= a /\ a < c + z)
      BY <1>2, <2>1, WholeFacts
    <2>4. c = b + y /\ c # b /\ h.end \in Nat
      BY <1>1, <2>2, HeapFacts
    <2> QED
      BY <2>2, <2>3, <2>4
  <1>4. /\ Wrote(h, b, g) /\ g \in Heaps
        /\ g.mem[b] \in Headers /\ SizeOf(g, b) = y + z /\ g.mem[b].alloc = h.mem[b].alloc
    <2>1. Resized(h, b, y + z, g) /\ y + z \in Nat
      BY <1>1, <1>2
    <2> QED
      BY <1>3, <2>1, SetSize
  <1>5. /\ g.free = h.free /\ g.end = h.end /\ g.max = h.max /\ g.halt = h.halt
        /\ (\A w \in Addresses \ {b} : g.mem[w] = h.mem[w]) /\ h.end <= g.end
    BY <1>3, <1>4 DEF Wrote
  <1>6. PICK R : R = S \ {c}
    OBVIOUS
  <1>7. PICK K : K = R \ {b}
    OBVIOUS
  <1>8. /\ FreeList(h) /\ Inside(h) /\ Apart(h, S) /\ Apart(h, R) /\ b \in R
        /\ Held(h) \cap Bytes(h, S) = {}
        /\ Held(h) \cup Bytes(h, S) = kheap_begin..(h.end - 1)
    BY <1>3, <1>6 DEF Tiles, Apart
  <1>9. Bytes(h, S) = Bytes(h, R) \cup Extent(h, c) /\ Bytes(h, R) \cap Extent(h, c) = {}
    BY <1>6, <1>8, BytesWithout
  <1>10. Bytes(h, R) = Bytes(h, K) \cup Extent(h, b) /\ Bytes(h, K) \cap Extent(h, b) = {}
    BY <1>7, <1>8, BytesWithout
  <1>11. b \in Extent(h, b)
    BY <1>1, <1>3
  <1>12. Keeps(h, g, K)
    <2>1. Bytes(h, K) \cap {b} = {}
      BY <1>10, <1>11
    <2> QED
      BY <1>5, <2>1, KeepsOutside
  <1>13. SameHeaders(h, g, K)
    <2>1. \A u \in K : Whole(h, u)
      BY <1>6, <1>7 DEF Tiles
    <2> QED
      BY <1>12, <2>1, KeptHeaders
  <1>14. FreeList(g) /\ Held(g) = Held(h)
    <2>1. \A w \in Addresses : w \in Held(h) => g.mem[w] = h.mem[w]
      BY <1>5, <1>8, <1>9, <1>10, <1>11
    <2> QED
      BY <1>4, <1>5, <1>8, <2>1, ListKept
  <1>15. Whole(g, b)
    <2>1. (y + z) % Alignment = 0 /\ y + z > 0
      <3>1. Alignment \in Nat \ {0}
        BY Begins
      <3>2. (y + z) % Alignment = 0
        BY <1>1, <1>2, <3>1, MultipleSum
      <3> QED
        BY <1>1, <1>2, <3>2
    <2>2. b + (y + z) <= g.end
      BY <1>2, <1>3, <1>5
    <2> QED
      BY <1>3, <1>4, <2>1, <2>2 DEF Whole, Block
  <1>16. Extent(g, b) = Extent(h, b) \cup Extent(h, c)
    <2>1. \A a : a \in Extent(g, b) <=> a \in Nat /\ b <= a /\ a < b + (y + z)
      BY <1>4, <1>15, WholeFacts
    <2>2. ASSUME NEW a PROVE a \in Extent(g, b) <=> a \in Extent(h, b) \/ a \in Extent(h, c)
      BY <1>3, <2>1
    <2> QED
      BY <2>2
  <1>17. Extent(g, b) \cap Bytes(h, K) = {} /\ Rest(g, Bytes(h, K) \cup Extent(g, b))
    BY <1>5, <1>8, <1>9, <1>10, <1>14, <1>16 DEF Rest
  <1>18. Inside(g)
    BY <1>5, <1>8 DEF Inside
  <1>19. Tiles(g, K \cup {b})
    <2>1. K \subseteq S
      BY <1>6, <1>7
    <2> QED
      BY <1>4, <1>5, <1>13, <1>14, <1>15, <1>17, <1>18, <2>1, RetileWith
  <1>20. K \cup {b} = R
    BY <1>7, <1>8
  <1> QED
    BY <1>1, <1>2, <1>4, <1>5, <1>6, <1>7, <1>12, <1>19, <1>20 DEF Left

\* Heap g is heap h with block b cut down to t bytes.
\* km_split() without interruption.
km_split(h, b, n) ==
    LET rest == (b + n) % Word
    IN  IF SizeOf(h, b) < (n + Alignment) % Word THEN h
        ELSE km_setsize(km_insert(km_initblock(h, rest, (SizeOf(h, b) - n) % Word), rest), b, n)
SplitAt(h, b, t, g) ==
    /\ t \in Nat /\ t > 0 /\ t % Alignment = 0 /\ t <= SizeOf(h, b) /\ t + Alignment < Word
    /\ g = km_split(h, b, t)

\* Block b has t bytes or more in heap g, with the words and the mark it has in heap h.
CutTo(h, b, t, g) ==
    /\ SizeOf(g, b) >= t /\ g.mem[b] \in Headers /\ g.mem[b].alloc = h.mem[b].alloc
    /\ \A w \in Addresses : b < w /\ w < b + t => g.mem[w] = h.mem[w]

\* What is split off block b goes to the free list; what is left of it keeps its words
\* and its mark, and the other blocks keep everything.
LEMMA Split ==
    ASSUME NEW h \in Heaps, NEW S, Tiles(h, S), h.halt = "none", NEW b \in S,
           NEW t, NEW g, SplitAt(h, b, t, g)
    PROVE  Left(h, g, S, S \ {b}) /\ CutTo(h, b, t, g)
  <1>0. /\ t \in Nat /\ t > 0 /\ t % Alignment = 0 /\ t <= SizeOf(h, b) /\ t + Alignment < Word
        /\ g = km_split(h, b, t)
    BY DEF SplitAt
  <1> USE <1>0
  <1>1. PICK z \in Nat : z = SizeOf(h, b) /\ z > 0 /\ z % Alignment = 0
    BY WholeFacts DEF Tiles
  <1>2. Whole(h, b)
    BY DEF Tiles
  <1>3. /\ b \in Addresses /\ b \in Nat /\ b + z <= h.end /\ h.mem[b] \in Headers
        /\ (\A a : a \in Extent(h, b) <=> a \in Nat /\ b <= a /\ a < b + z)
    BY <1>1, <1>2, WholeFacts
  <1>4. /\ Alignment \in Nat \ {0} /\ Word \in Nat \ {0} /\ MemoryEnd \in Nat /\ MemoryEnd < Word
        /\ h.end \in Nat /\ h.end <= MemoryEnd /\ kheap_begin \in Nat
    <2>1. h.end \in Nat /\ h.max \in Nat /\ h.end <= h.max /\ h.max <= MemoryEnd
      BY TilesWithin
    <2> QED
      BY <2>1, Begins
  <1>5. (t + Alignment) % Word = t + Alignment
    BY <1>4
  <1>6. CASE z < t + Alignment
    <2>1. g = h
      BY <1>1, <1>5, <1>6 DEF km_split
    <2>2. Keeps(h, h, S \ {b})
      BY DEF Keeps
    <2>3. SizeOf(h, b) >= t
      BY <1>1
    <2> QED
      BY <1>3, <2>1, <2>2, <2>3 DEF Left, CutTo
  <1>7. CASE ~(z < t + Alignment)
    <2>1. PICK y \in Nat : y = z - t /\ y > 0 /\ y % Alignment = 0 /\ y % Word = y
      <3>1. z - t \in Nat /\ (z - t) % Alignment = 0
        BY <1>1, <1>4, MultipleDifference
      <3>2. z - t > 0
        BY <1>1, <1>4, <1>7
      <3>3. z - t < Word
        BY <1>1, <1>3, <1>4
      <3> QED
        BY <1>4, <3>1, <3>2, <3>3
    <2>2. PICK c \in Addresses : c = b + t /\ c \in Nat /\ c + y = b + z /\ c % Word = c
      <3>1. b + t \in Nat /\ (b + t) + y = b + z
        BY <1>1, <1>3, <2>1
      <3>2. (b + t) % Alignment = 0
        BY <1>3, <1>4, AddressFacts, MultipleSum
      <3>3. b + t < MemoryEnd /\ kheap_begin <= b + t
        BY <1>1, <1>3, <1>4, <2>1, AddressFacts
      <3>4. b + t \in Addresses
        BY <3>1, <3>2, <3>3, AddressFacts
      <3>5. (b + t) % Word = b + t
        BY <1>4, <3>1, <3>3
      <3> QED
        BY <3>1, <3>4, <3>5
    <2>3. PICK d : d = km_initblock(h, c, y)
      OBVIOUS
    <2>4. PICK e : e = km_insert(d, c)
      OBVIOUS
    <2>5. g = km_setsize(e, b, t)
      BY <1>1, <1>5, <1>7, <2>1, <2>2, <2>3, <2>4 DEF km_split
    <2>6. /\ Wrote(h, c, d) /\ d \in Heaps /\ d.end = h.end
          /\ d.mem[c] \in Headers /\ d.mem[c].alloc = FALSE /\ SizeOf(d, c) = y
      <3>1. InitBlockIs(h, c, y, d)
        BY <2>3 DEF InitBlockIs
      <3> QED
        BY ONLY h \in Heaps, c \in Addresses, y \in Nat, <3>1, InitBlock, ZenonT(30)
    <2>7. /\ d.free = h.free /\ d.max = h.max /\ d.halt = "none"
          /\ \A w \in Addresses \ {c} : d.mem[w] = h.mem[w]
      BY <2>6 DEF Wrote
    <2>8. PICK K : K = S \ {b}
      OBVIOUS
    <2>9. /\ FreeList(h) /\ Inside(h) /\ Apart(h, S)
          /\ Held(h) \cap Bytes(h, S) = {}
          /\ Held(h) \cup Bytes(h, S) = kheap_begin..(h.end - 1)
      BY DEF Tiles
    <2>10. Bytes(h, S) = Bytes(h, K) \cup Extent(h, b) /\ Bytes(h, K) \cap Extent(h, b) = {}
      BY <2>8, <2>9, BytesWithout
    <2>11. c \in Extent(h, b) /\ b \in Extent(h, b) /\ c \notin Held(h) /\ b \notin Held(h) /\ b # c
      <3>1. c \in Extent(h, b) /\ b \in Extent(h, b) /\ b # c
        BY <1>1, <1>3, <2>1, <2>2
      <3> QED
        BY <2>9, <2>10, <3>1
    <2>12. FreeList(d) /\ Held(d) = Held(h)
      <3>1. \A w \in Addresses : w \in Held(h) => d.mem[w] = h.mem[w]
        BY <2>7, <2>11
      <3>2. h.end <= d.end
        BY <1>4, <2>6
      <3> QED
        BY <2>6, <2>7, <2>9, <3>1, <3>2, ListKept
    <2>13. Block(d, c, FALSE)
      <3>1. c + y <= d.end
        BY <1>3, <2>2, <2>6
      <3> QED
        BY <2>1, <2>2, <2>6, <3>1 DEF Block
    <2>14. \A a : a \in Extent(d, c) <=> a \in Nat /\ c <= a /\ a < c + y
      BY <2>6, <2>13, BlockSize
    <2>15. /\ Extent(d, c) \subseteq Extent(h, b) /\ b \notin Extent(d, c)
      BY <1>1, <1>3, <2>1, <2>2, <2>14
    <2>16. Extent(d, c) \cap Held(d) = {}
      BY <2>9, <2>10, <2>12, <2>15
    <2>17. /\ FreeList(e) /\ Held(e) = Held(h) \cup Extent(d, c)
           /\ Changes(d, e, Held(h) \cup Extent(d, c))
      BY <2>6, <2>12, <2>13, <2>16, <2>4, Insert
    <2>18. /\ e \in Heaps /\ e.end = h.end /\ e.max = h.max /\ e.halt = "none"
           /\ \A w \in Addresses \ (Held(h) \cup Extent(d, c)) : e.mem[w] = d.mem[w]
      BY <2>6, <2>7, <2>17 DEF Changes
    <2>19. c \in Extent(d, c)
      BY <2>1, <2>2, <2>14
    <2>20. \A w \in Addresses \ (Held(h) \cup Extent(d, c)) : e.mem[w] = h.mem[w]
      BY <2>7, <2>18, <2>19
    <2>21. e.mem[b] = h.mem[b]
      BY <1>3, <2>11, <2>15, <2>20
    <2>22. Resized(e, b, t, g)
      BY <2>5, <2>18 DEF km_setsize, Resized
    <2>23. /\ Wrote(e, b, g) /\ g \in Heaps
           /\ g.mem[b] \in Headers /\ SizeOf(g, b) = t /\ g.mem[b].alloc = h.mem[b].alloc
      <3>1. e.mem[b] \in Headers
        BY <1>3, <2>21
      <3> QED
        BY <1>3, <2>18, <2>21, <2>22, <3>1, SetSize
    <2>24. /\ g.free = e.free /\ g.end = h.end /\ g.max = h.max /\ g.halt = "none"
           /\ \A w \in Addresses \ {b} : g.mem[w] = e.mem[w]
      BY <2>18, <2>23 DEF Wrote
    <2>25. FreeList(g) /\ Held(g) = Held(h) \cup Extent(d, c)
      <3>1. \A w \in Addresses : w \in Held(e) => g.mem[w] = e.mem[w]
        BY <2>11, <2>15, <2>17, <2>24
      <3>2. e.end <= g.end
        BY <1>4, <2>18, <2>24
      <3>3. FreeList(g) /\ Held(g) = Held(e)
        BY <2>17, <2>18, <2>23, <2>24, <3>1, <3>2, ListKept
      <3> QED
        BY <2>17, <3>3
    <2>26. Whole(g, b)
      <3>1. b + t <= g.end
        BY <1>1, <1>3, <1>4, <2>1, <2>24
      <3> QED
        BY <1>3, <2>23, <3>1 DEF Whole, Block
    <2>27. \A a : a \in Extent(g, b) <=> a \in Nat /\ b <= a /\ a < b + t
      BY <2>23, <2>26, WholeFacts
    <2>28. Extent(h, b) = Extent(g, b) \cup Extent(d, c) /\ Extent(g, b) \cap Extent(d, c) = {}
      <3>1. ASSUME NEW a PROVE a \in Extent(h, b) <=> a \in Extent(g, b) \/ a \in Extent(d, c)
        BY <1>3, <2>1, <2>2, <2>14, <2>27
      <3>2. ASSUME NEW a PROVE ~(a \in Extent(g, b) /\ a \in Extent(d, c))
        BY <2>2, <2>14, <2>27
      <3> QED
        BY <3>1, <3>2
    <2>29. \A w \in Addresses \ (Held(h) \cup Extent(h, b)) : g.mem[w] = h.mem[w]
      BY <2>11, <2>15, <2>20, <2>24
    <2>30. Keeps(h, g, K)
      <3>1. Bytes(h, K) \cap (Held(h) \cup Extent(h, b)) = {}
        BY <2>9, <2>10
      <3> QED
        BY <2>29, <3>1, KeepsOutside
    <2>31. SameHeaders(h, g, K)
      <3>1. \A u \in K : Whole(h, u)
        BY <2>8 DEF Tiles
      <3> QED
        BY <2>30, <3>1, KeptHeaders
    <2>32. Extent(g, b) \cap Bytes(h, K) = {} /\ Rest(g, Bytes(h, K) \cup Extent(g, b))
      BY <2>9, <2>10, <2>24, <2>25, <2>28 DEF Rest
    <2>33. Inside(g) /\ h.end <= g.end /\ K \subseteq S
      BY <1>4, <2>8, <2>9, <2>24 DEF Inside
    <2>34. Tiles(g, K \cup {b})
      BY <2>23, <2>25, <2>26, <2>31, <2>32, <2>33, RetileWith
    <2>35. K \cup {b} = S
      BY <2>8
    <2>36. ASSUME NEW w \in Addresses, b < w, w < b + t PROVE g.mem[w] = h.mem[w]
      <3>1. w \in Nat /\ w # b
        BY <1>3, <2>36, AddressFacts
      <3>2. w \in Extent(h, b) /\ w \notin Extent(d, c)
        <4>1. w \in Extent(g, b)
          BY <1>3, <2>27, <2>36, <3>1
        <4> QED
          BY <2>28, <4>1
      <3>3. w \notin Held(h)
        BY <2>9, <2>10, <3>2
      <3> QED
        BY <2>20, <2>24, <3>1, <3>2, <3>3
    <2>37. SizeOf(g, b) >= t
      BY <2>23
    <2>38. Tiles(g, S) /\ Keeps(h, g, S \ {b})
      BY <2>8, <2>30, <2>34, <2>35
    <2>39. \A w \in Addresses : b < w /\ w < b + t => g.mem[w] = h.mem[w]
      BY <2>36
    <2> QED
      BY ONLY h.halt = "none", <2>23, <2>24, <2>37, <2>38, <2>39 DEF Left, CutTo
  <1> QED
    BY <1>6, <1>7

-----------------------------------------------------------------------------
(* Sizes and marks *)

\* The size of the block for a request.
LEMMA TargetFacts ==
    ASSUME NEW m \in Nat, FitsWord(m)
    PROVE  /\ TargetSize(m) \in Nat /\ TargetSize(m) > 0 /\ TargetSize(m) % Alignment = 0
           /\ m + Alignment <= TargetSize(m) /\ TargetSize(m) + Alignment < Word
           /\ MemoryEnd + TargetSize(m) + PageSize <= Word
  <1>1. /\ Alignment \in Nat \ {0} /\ PageSize \in Nat \ {0} /\ Word \in Nat \ {0} /\ MemoryEnd \in Nat
        /\ PageSize % Alignment = 0
    BY Begins, HeapAssumption
  <1>2. Alignment <= PageSize
    <2>1. 0 % Alignment = 0 /\ 0 < PageSize /\ 0 \in Nat /\ PageSize \in Nat
      BY <1>1
    <2>2. 0 + Alignment <= PageSize
      BY <1>1, <2>1, MultipleGap
    <2> QED
      BY <1>1, <2>2
  <1>3. PICK x \in Nat : x = m + Alignment
    BY <1>1
  <1>4. x + Alignment <= Word /\ x < Word /\ x > 0
    BY <1>1, <1>3 DEF FitsWord
  <1>5. (m + Alignment) % Word = x
    BY <1>1, <1>3, <1>4
  <1>6. TargetSize(m) = Align(x, Alignment)
    BY <1>5 DEF TargetSize, Header
  <1>7. /\ Align(x, Alignment) \in Nat /\ Align(x, Alignment) % Alignment = 0
        /\ x <= Align(x, Alignment) /\ Align(x, Alignment) < x + Alignment
    BY <1>1, <1>4, AlignRoundsUp
  <1>8. PICK t \in Nat : t = Align(x, Alignment) /\ t % Alignment = 0 /\ x <= t /\ t < x + Alignment
    BY <1>7
  <1>9. t > 0 /\ m + Alignment <= t /\ t + Alignment < Word /\ MemoryEnd + t + PageSize <= Word
    BY <1>1, <1>2, <1>3, <1>4, <1>8 DEF FitsWord
  <1> QED
    BY <1>6, <1>8, <1>9

\* Heap g is heap h with the block at b marked.
Marked(h, b, taken, g) == taken \in BOOLEAN /\ g = [h EXCEPT !.mem[b].alloc = taken]

\* Marking a block.
LEMMA Mark ==
    ASSUME NEW h \in Heaps, NEW S, Tiles(h, S), NEW b \in S, NEW taken, NEW g,
           Marked(h, b, taken, g)
    PROVE  /\ Left(h, g, S, S \ {b})
           /\ Block(g, b, taken) /\ SizeOf(g, b) = SizeOf(h, b)
  <1>0. taken \in BOOLEAN
    BY DEF Marked
  <1>1. Whole(h, b)
    BY DEF Tiles
  <1>2. b \in Addresses /\ h.mem[b] \in Headers /\ b \in Extent(h, b)
    BY <1>1, WholeFacts
  <1>3. PICK r \in Headers : r = h.mem[b]
    BY <1>2
  <1>4. PICK x \in Headers : x = [r EXCEPT !.alloc = taken] /\ x.size = r.size /\ x.alloc = taken
    BY <1>0, HeaderMarked
  <1>5. HeaderAt(h, b, x, g)
    <2>1. g = [h EXCEPT !.mem[b] = [h.mem[b] EXCEPT !.alloc = taken]]
      BY DEF Marked
    <2> QED
      BY <1>3, <1>4, <2>1 DEF HeaderAt
  <1>6. Wrote(h, b, g) /\ g.mem[b] = x
    BY <1>2, <1>5, WriteHeader
  <1>7. SizeOf(g, b) = SizeOf(h, b) /\ g.mem[b] \in Headers /\ g.mem[b].alloc = taken
    BY <1>3, <1>4, <1>6 DEF SizeOf
  <1>8. Altered(h, b, g)
    BY <1>2, <1>6, <1>7 DEF Altered, Wrote
  <1>9. Tiles(g, S) /\ Keeps(h, g, S \ {b}) /\ Whole(g, b)
    BY <1>8, Alter
  <1>10. Block(g, b, taken)
    BY <1>7, <1>9 DEF Whole
  <1> QED
    BY <1>6, <1>7, <1>9, <1>10 DEF Wrote, Left

\* Headers are not values of the clients'.
LEMMA HeadersKnown ==
    ASSUME NEW x \in Headers
    PROVE  IsHeader(x)
  <1>1. \A v \in Values \cup {Junk} : v \notin Headers
    BY HeapAssumption DEF Headers
  <1> QED
    BY <1>1 DEF IsHeader

\* The word behind a block in use, below the end of the heap, is the header of a block.
LEMMA Neighbour ==
    ASSUME NEW h \in Heaps, NEW U, Tiles(h, U), NEW b \in U, Block(h, b, TRUE),
           NEW c, c = b + SizeOf(h, b), c < h.end
    PROVE  c \in U \/ \E i \in 1..Len(h.free) : h.free[i] = c
  <1>1. Tiles(h, U) /\ Block(h, b, TRUE)
    OBVIOUS
  <1>2. PICK y \in Nat : y = SizeOf(h, b) /\ y > 0
    BY <1>1, BlockSize
  <1>3. b \in Nat /\ (\A a : a \in Extent(h, b) <=> a \in Nat /\ b <= a /\ a < b + y) /\ b \in Extent(h, b)
    BY <1>1, <1>2, BlockSize
  <1>4. c \in Nat /\ c = b + y /\ kheap_begin \in Nat /\ kheap_begin <= b /\ h.end \in Nat
    <2>1. b \in Addresses
      BY <1>1, BlockSize
    <2>2. kheap_begin <= b /\ kheap_begin \in Nat
      BY <2>1, AddressFacts, Begins
    <2>3. h.end \in Nat
      BY HeapFacts
    <2> QED
      BY <1>2, <1>3, <2>2, <2>3
  <1>5. /\ Held(h) \cap Bytes(h, U) = {} /\ Apart(h, U) /\ FreeList(h)
        /\ Held(h) \cup Bytes(h, U) = kheap_begin..(h.end - 1)
    BY <1>1 DEF Tiles
  <1>6. c \in Held(h) \/ c \in Bytes(h, U)
    <2>1. c \in kheap_begin..(h.end - 1)
      BY <1>2, <1>3, <1>4
    <2> QED
      BY <1>5, <2>1
  <1>7. CASE c \in Bytes(h, U)
    <2>1. PICK u \in U : c \in Extent(h, u)
      BY <1>7, BytesFacts
    <2>2. Whole(h, u)
      BY <1>1 DEF Tiles
    <2>3. PICK z \in Nat : z = SizeOf(h, u) /\ z > 0
      BY <2>2, WholeFacts
    <2>4. u \in Nat /\ (\A a : a \in Extent(h, u) <=> a \in Nat /\ u <= a /\ a < u + z)
      BY <2>2, <2>3, WholeFacts
    <2>5. u <= c /\ c < u + z
      BY <2>1, <2>4
    <2>6. u # b
      BY <1>3, <1>4, <2>1
    <2>7. \A a : ~(a \in Extent(h, b) /\ a \in Extent(h, u))
      BY <1>5, <2>6 DEF Apart
    <2>8. u = c
      <3> SUFFICES ASSUME u < c PROVE FALSE
        BY <1>4, <2>4, <2>5
      <3>1. CASE u < b
        BY <1>2, <1>3, <1>4, <2>4, <2>5, <2>7, <3>1
      <3>2. CASE ~(u < b)
        BY <1>2, <1>3, <1>4, <2>3, <2>4, <2>5, <2>7, <3>2
      <3> QED
        BY <3>1, <3>2
    <2> QED
      BY <2>8
  <1>8. CASE c \in Held(h)
    <2>1. Sorted(h, {})
      BY <1>5 DEF FreeList
    <2>2. PICK i \in 1..Len(h.free) : c \in Extent(h, h.free[i])
      <3>1. DOMAIN h.free = 1..Len(h.free)
        BY HeapFacts
      <3> QED
        BY <1>8, <3>1 DEF Held, Bytes, Range
    <2>3. PICK f : f = h.free[i]
      OBVIOUS
    <2>4. Block(h, f, FALSE) /\ Extent(h, f) \subseteq Held(h)
      BY <2>1, <2>2, <2>3, SortedFacts, HeldFacts
    <2>5. PICK z \in Nat : z = SizeOf(h, f) /\ z > 0
      BY <2>4, BlockSize
    <2>6. f \in Nat /\ (\A a : a \in Extent(h, f) <=> a \in Nat /\ f <= a /\ a < f + z)
      BY <2>4, <2>5, BlockSize
    <2>7. f <= c /\ c < f + z
      BY <2>2, <2>3, <2>6
    <2>8. \A a : ~(a \in Extent(h, b) /\ a \in Extent(h, f))
      BY <1>5, <2>4, BytesFacts
    <2>9. f = c
      <3> SUFFICES ASSUME f < c PROVE FALSE
        BY <1>4, <2>6, <2>7
      <3>1. CASE f < b
        BY <1>2, <1>3, <1>4, <2>6, <2>7, <2>8, <3>1
      <3>2. CASE ~(f < b)
        <4>1. f \in Extent(h, b)
          BY <1>3, <1>4, <2>6, <3>2
        <4>2. f \in Extent(h, f)
          BY <2>5, <2>6
        <4> QED
          BY <2>8, <4>1, <4>2
      <3> QED
        BY <3>1, <3>2
    <2> QED
      BY <2>2, <2>3, <2>9
  <1> QED
    BY <1>6, <1>7, <1>8

\* There are words to copy, and memory f has been copied to.
Source(from, to, n) == \A w \in WordsOf(to, n) : from + (w - to) \in Addresses
Copied(mem, from, to, n, f) ==
    /\ \A w \in WordsOf(to, n) : f[w] = mem[from + (w - to)]
    /\ \A w \in Addresses \ WordsOf(to, n) : f[w] = mem[w]

\* What memcpy() stores.
LEMMA CopyFacts ==
    ASSUME NEW V, NEW mem \in [Addresses -> V], NEW from, NEW to, NEW n, Source(from, to, n)
    PROVE  /\ Copy(mem, from, to, n) \in [Addresses -> V]
           /\ Copied(mem, from, to, n, Copy(mem, from, to, n))
  BY DEF Copy, WordsOf, Source, Copied

\* Another memory.
Memory == [Addresses -> Values \cup {Junk} \cup Headers]

\* What memset() stores.
LEMMA FillFacts ==
    ASSUME NEW mem \in Memory, NEW a, NEW n, NEW v \in Values,
           NEW X, X = WordsOf(a, n), NEW f, f = Fill(mem, a, n, v)
    PROVE  /\ f \in Memory /\ (\A w \in X : f[w] = v)
           /\ \A w \in Addresses \ X : f[w] = mem[w]
  <1>1. f = [w \in Addresses |-> IF w \in X THEN v ELSE mem[w]] /\ X \subseteq Addresses
    BY DEF Fill, WordsOf
  <1> QED
    BY <1>1 DEF Memory

WithMemory(h, m, g) == g = [h EXCEPT !.mem = m]

\* A heap with another memory.
LEMMA MemoryUpdate ==
    ASSUME NEW h \in Heaps, NEW m \in Memory, NEW g, WithMemory(h, m, g)
    PROVE  /\ g \in Heaps /\ g.mem = m /\ g.free = h.free /\ g.end = h.end
           /\ g.max = h.max /\ g.halt = h.halt
  BY DEF Heaps, Memory, WithMemory

\* Memory m differs from that of heap h in the words X, in the payload of block b.
Within(h, b, m, X) ==
    /\ \A w \in Addresses \ X : m[w] = h.mem[w]
    /\ X \subseteq Extent(h, b) /\ b \notin X

-----------------------------------------------------------------------------
(* Pointers *)

\* Pointers and blocks.
LEMMA HeadFacts ==
    ASSUME NEW D, D \subseteq Nat
    PROVE  /\ \A p \in D : p - Header \in Heads(D)
           /\ \A p, q \in Nat : p - Header = q - Header => p = q
           /\ \A x : Heads(D \cup {x}) = Heads(D) \cup {x - Header}
           /\ \A x \in D : Heads(D \ {x}) = Heads(D) \ {x - Header}
           /\ \A C \in SUBSET D : Heads(C) \subseteq Heads(D)
  <1>1. Header \in Nat
    BY Begins DEF Header
  <1>2. \A p, q \in Nat : p - Header = q - Header => p = q
    BY <1>1
  <1>3. \A p \in D : p - Header \in Heads(D)
    BY DEF Heads
  <1>4. \A x : Heads(D \cup {x}) = Heads(D) \cup {x - Header}
    BY DEF Heads
  <1>5. ASSUME NEW x \in D PROVE Heads(D \ {x}) = Heads(D) \ {x - Header}
    <2>1. ASSUME NEW b \in Heads(D \ {x}) PROVE b \in Heads(D) /\ b # x - Header
      <3>1. PICK p \in D \ {x} : b = p - Header
        BY DEF Heads
      <3>2. p \in Nat /\ x \in Nat /\ p # x /\ p \in D
        OBVIOUS
      <3> QED
        BY <1>2, <1>3, <3>1, <3>2
    <2>2. ASSUME NEW b \in Heads(D), b # x - Header PROVE b \in Heads(D \ {x})
      <3>1. PICK p \in D : b = p - Header
        BY DEF Heads
      <3>2. p \in D \ {x}
        BY <2>2, <3>1
      <3> QED
        BY <3>1, <3>2 DEF Heads
    <2> QED
      BY <2>1, <2>2
  <1>6. \A C \in SUBSET D : Heads(C) \subseteq Heads(D)
    BY DEF Heads
  <1> QED
    BY <1>2, <1>3, <1>4, <1>5, <1>6

\* A client finds in a block that was left alone what it found there before.
LEMMA EntryKept ==
    ASSUME NEW h \in Heaps, NEW g \in Heaps, NEW K, Keeps(h, g, K), h.end <= g.end,
           NEW p \in Nat, p - Header \in K, Block(h, p - Header, TRUE), NEW e, Entry(h, p, e)
    PROVE  Entry(g, p, e)
  <1>1. PICK b \in K : b = p - Header
    OBVIOUS
  <1>2. Block(h, b, TRUE)
    BY <1>1
  <1>3. PICK y \in Nat : y = SizeOf(h, b)
    BY <1>2, BlockSize
  <1>4. /\ b \in Nat /\ b \in Addresses /\ b \in Extent(h, b)
        /\ (\A a : a \in Extent(h, b) <=> a \in Nat /\ b <= a /\ a < b + y)
    BY <1>2, <1>3, BlockSize
  <1>5. PICK k \in Nat : k = e.written
    BY DEF Entry, Entries
  <1>6. PICK n \in Nat : n = e.asked
    BY DEF Entry, Entries
  <1>7. /\ e \in Entries /\ k <= n /\ n <= y - Header
        /\ \A w \in WordsOf(p, k) : h.mem[w] = e.value
    BY <1>1, <1>3, <1>5, <1>6 DEF Entry
  <1>8. Header \in Nat /\ p = b + Header
    <2>1. Header \in Nat
      BY Begins DEF Header
    <2> QED
      BY <1>1, <2>1
  <1>9. SizeOf(g, b) = y
    BY <1>3, <1>4 DEF Keeps, SizeOf
  <1>10. ASSUME NEW w \in WordsOf(p, k) PROVE g.mem[w] = e.value
    <2>1. w \in Addresses /\ p <= w /\ w < p + k
      BY DEF WordsOf
    <2>2. w \in Nat
      BY <2>1, AddressFacts
    <2>3. b <= w /\ w < b + y
      BY <1>4, <1>7, <1>8, <2>1, <2>2
    <2>4. w \in Extent(h, b)
      BY <1>4, <2>2, <2>3
    <2> QED
      BY <1>7, <2>1, <2>4 DEF Keeps
  <1> QED
    BY <1>1, <1>5, <1>6, <1>7, <1>9, <1>10 DEF Entry

\* The words behind the header of a block.
LEMMA Payload ==
    ASSUME NEW h \in Heaps, NEW p \in Nat, NEW c, c = p - Header, Block(h, c, TRUE),
           NEW n \in Nat, n <= SizeOf(h, c) - Header
    PROVE  WordsOf(p, n) \subseteq Extent(h, c) /\ c \notin WordsOf(p, n)
  <1>1. PICK y \in Nat : y = SizeOf(h, c)
    BY BlockSize
  <1>2. c \in Nat /\ (\A a : a \in Extent(h, c) <=> a \in Nat /\ c <= a /\ a < c + y)
    BY <1>1, BlockSize
  <1>3. Header \in Nat /\ Header > 0 /\ p = c + Header /\ n <= y - Header
    <2>1. Header \in Nat /\ Header > 0
      BY Begins DEF Header
    <2> QED
      BY <1>1, <1>2, <2>1
  <1>4. ASSUME NEW w \in WordsOf(p, n) PROVE w \in Extent(h, c) /\ w # c
    <2>1. w \in Nat /\ p <= w /\ w < p + n
      BY AddressFacts DEF WordsOf
    <2>2. c < w /\ w < c + y
      BY <1>2, <1>3, <2>1
    <2> QED
      BY <1>2, <2>1, <2>2
  <1> QED
    BY <1>4

\* An address as far from b as w is from c.
LEMMA Shift ==
    ASSUME NEW b \in Addresses, NEW c \in Addresses, NEW w \in Addresses, c <= w,
           b + (w - c) < MemoryEnd
    PROVE  b + (w - c) \in Addresses
  <1>1. /\ b \in Nat /\ c \in Nat /\ w \in Nat /\ kheap_begin <= b
        /\ b % Alignment = 0 /\ c % Alignment = 0 /\ w % Alignment = 0
    BY AddressFacts
  <1>2. Alignment \in Nat \ {0} /\ kheap_begin \in Nat /\ MemoryEnd \in Nat
    BY Begins
  <1>3. PICK x \in Nat : x = w - c /\ x % Alignment = 0
    <2>1. w - c \in Nat /\ (w - c) % Alignment = 0
      BY <1>1, <1>2, MultipleDifference
    <2> QED
      BY <2>1
  <1>4. (b + x) % Alignment = 0
    BY <1>1, <1>2, <1>3, MultipleSum
  <1>5. b + x \in Nat /\ kheap_begin <= b + x /\ b + x < MemoryEnd
    BY <1>1, <1>2, <1>3
  <1> QED
    BY <1>3, <1>4, <1>5, AddressFacts

-----------------------------------------------------------------------------
(* What was left alone *)

\* A block that was left alone.
LEMMA KeptBlock ==
    ASSUME NEW h \in Heaps, NEW g \in Heaps, NEW K, Keeps(h, g, K), h.end <= g.end,
           NEW u \in K, NEW taken, Block(h, u, taken)
    PROVE  Block(g, u, taken) /\ SizeOf(g, u) = SizeOf(h, u) /\ Extent(g, u) = Extent(h, u)
  <1>1. u \in Addresses /\ u \in Extent(h, u)
    BY BlockSize
  <1>2. g.mem[u] = h.mem[u]
    BY <1>1 DEF Keeps
  <1> QED
    BY <1>2, BlockKept

\* The blocks of a tiling that were left alone are still in use, or still pending.
LEMMA HeapStill ==
    ASSUME NEW h \in Heaps, NEW g \in Heaps, NEW U, NEW X, HeapOK(h, U, X),
           NEW K, Keeps(h, g, K), h.end <= g.end, NEW V, NEW Y, Tiles(g, V \cup Y),
           \A u \in V : (u \in U /\ u \in K) \/ Block(g, u, TRUE),
           \A u \in Y : (u \in X /\ u \in K) \/ Block(g, u, FALSE)
    PROVE  HeapOK(g, V, Y)
  <1>1. ASSUME NEW u \in V PROVE Block(g, u, TRUE)
    <2>1. CASE u \in U /\ u \in K
      <3>1. Block(h, u, TRUE)
        BY <2>1 DEF HeapOK
      <3> QED
        BY <2>1, <3>1, KeptBlock
    <2> QED
      BY <2>1
  <1>2. ASSUME NEW u \in Y PROVE Block(g, u, FALSE)
    <2>1. CASE u \in X /\ u \in K
      <3>1. Block(h, u, FALSE)
        BY <2>1 DEF HeapOK
      <3> QED
        BY <2>1, <3>1, KeptBlock
    <2> QED
      BY <2>1
  <1> QED
    BY <1>1, <1>2 DEF HeapOK

\* Ledger k has the entries of ledger l for the pointers in D, and those of its others
\* are true of heap g.
Untouched(l, k, D) == D \subseteq DOMAIN l /\ D \subseteq DOMAIN k /\ \A p \in D : k[p] = l[p]
Updated(g, k, D) == \A p \in DOMAIN k \ D : p \in Nat /\ Entry(g, p, k[p])

\* A step from heap h, that leaves the blocks K alone.
Alone(h, g, K) == g \in Heaps /\ h.end <= g.end /\ Keeps(h, g, K)

\* A ledger agrees with a heap in which the blocks it shares with another were left alone.
LEMMA LedgerAgrees ==
    ASSUME NEW h \in Heaps, NEW l, NEW X, Agrees(h, l, X), h.halt = "none",
           NEW g, NEW k, NEW D, Untouched(l, k, D), Updated(g, k, D), Alone(h, g, Heads(D)),
           NEW Y, HeapOK(g, Heads(DOMAIN k), Y)
    PROVE  Agrees(g, k, Y)
  <1>1. /\ DOMAIN l \subseteq Nat /\ HeapOK(h, Heads(DOMAIN l), X)
        /\ \A p \in DOMAIN l : Entry(h, p, l[p])
    BY DEF Agrees
  <1>2. DOMAIN k \subseteq Nat
    BY <1>1 DEF Untouched, Updated
  <1>3. Heads(DOMAIN k) \cup Y \subseteq Addresses
    BY DEF HeapOK, Block
  <1>4. ASSUME NEW p \in D PROVE Entry(g, p, k[p])
    <2>1. p \in DOMAIN l /\ p \in Nat /\ D \subseteq Nat /\ k[p] = l[p]
      BY <1>1 DEF Untouched
    <2>2. p - Header \in Heads(D) /\ p - Header \in Heads(DOMAIN l)
      BY <1>1, <2>1, HeadFacts
    <2>3. Block(h, p - Header, TRUE) /\ Entry(h, p, l[p])
      BY <1>1, <2>1, <2>2 DEF HeapOK
    <2>4. g \in Heaps /\ h.end <= g.end /\ Keeps(h, g, Heads(D))
      BY DEF Alone
    <2> QED
      BY <2>1, <2>2, <2>3, <2>4, EntryKept
  <1>5. \A p \in DOMAIN k : Entry(g, p, k[p])
    BY <1>4 DEF Updated
  <1> QED
    BY <1>1, <1>2, <1>3, <1>5 DEF Agrees

-----------------------------------------------------------------------------
(* The stores that follow a walk *)

\* The place of a block in the free list.
LEMMA IndexFound ==
    ASSUME NEW s \in Seq(Addresses), \A i, j \in 1..Len(s) : s[i] = s[j] => i = j
    PROVE  /\ \A i \in 1..Len(s) : Index(s, s[i]) = i /\ i # 0
           /\ \A x : (\A i \in 1..Len(s) : s[i] # x) => Index(s, x) = 0
           /\ \A x : Index(s, x) # 0 => Index(s, x) \in 1..Len(s) /\ s[Index(s, x)] = x
           /\ \A x : Index(s, x) = 0 => \A i \in 1..Len(s) : s[i] # x
           /\ Index(s, NULL) = 0
  <1>1. PICK n \in Nat : n = Len(s)
    OBVIOUS
  <1>2. ASSUME NEW x
        PROVE  LET I == {i \in 1..n : s[i] = x} IN Index(s, x) = IF I # {} THEN Min(I) ELSE 0
    BY <1>1 DEF Index, SelectInSeq
  <1>3. ASSUME NEW i \in 1..n PROVE Index(s, s[i]) = i
    <2>1. PICK I : I = {j \in 1..n : s[j] = s[i]} /\ I = {i}
      BY <1>1
    <2>2. I \subseteq Nat /\ I # {}
      BY <1>1, <2>1
    <2>3. Min(I) \in I
      BY <2>2, LeastNumber
    <2> QED
      BY <1>2, <2>1, <2>3
  <1>4. ASSUME NEW x, \A i \in 1..n : s[i] # x PROVE Index(s, x) = 0
    <2>1. {i \in 1..n : s[i] = x} = {}
      BY <1>4
    <2> QED
      BY <1>2, <2>1
  <1>5. ASSUME NEW x, Index(s, x) # 0 PROVE Index(s, x) \in 1..n /\ s[Index(s, x)] = x
    <2>1. PICK i \in 1..n : s[i] = x
      BY <1>4, <1>5
    <2> QED
      BY <1>3, <2>1
  <1>6. ASSUME NEW x, Index(s, x) = 0, NEW i \in 1..n, s[i] = x PROVE FALSE
    BY <1>3, <1>6
  <1>7. Index(s, NULL) = 0
    <2>1. ASSUME NEW i \in 1..n PROVE s[i] # NULL
      <3>1. s[i] \in Nat
        BY <1>1, AddressFacts
      <3> QED
        BY <3>1, HeapAssumption
    <2> QED
      BY <1>4, <2>1
  <1> QED
    BY <1>1, <1>3, <1>4, <1>5, <1>6, <1>7

\* The free list as a sequence without repetition.
LEMMA ListFacts ==
    ASSUME NEW h \in Heaps, FreeList(h)
    PROVE  h.free \in Seq(Addresses) /\ \A i, j \in 1..Len(h.free) : h.free[i] = h.free[j] => i = j
  <1>1. Sorted(h, {})
    BY DEF FreeList
  <1> QED
    BY <1>1, HeapFacts, SortedFacts

\* What is stored to take a block off the list that is where the walk found it.
LEMMA UnlinkIs ==
    ASSUME NEW h \in Heaps, FreeList(h), NEW b, NEW prev, Found(h, b, prev),
           NEW g, g = km_unlink(h, prev, b)
    PROVE  \E i : Unlinked(h, i, b, g)
  <1>1. PICK s \in Seq(Addresses) : s = h.free /\ \A i, j \in 1..Len(s) : s[i] = s[j] => i = j
    BY ListFacts
  <1>2. PICK i \in 1..Len(s) : s[i] = b /\ prev = Before(s, i)
    BY <1>1 DEF Found
  <1>3. PICK n \in Nat : n = Len(s) /\ i \in 1..n /\ i \in Nat
    OBVIOUS
  <1>4. Index(s, b) = i /\ i # 0
    BY <1>1, <1>2, IndexFound
  <1>5. Index(s, prev) = i - 1 /\ (prev = NULL \/ i - 1 # 0)
    <2>1. CASE i <= 1
      <3>1. prev = NULL /\ i - 1 = 0
        BY <1>2, <1>3, <2>1 DEF Before
      <3> QED
        BY <1>1, <3>1, IndexFound
    <2>2. CASE ~(i <= 1)
      <3>1. prev = s[i - 1] /\ i - 1 \in 1..Len(s)
        BY <1>2, <1>3, <2>2 DEF Before
      <3> QED
        BY <1>1, <3>1, IndexFound
    <2> QED
      BY <2>1, <2>2
  <1>6. ~Gone(h, prev) /\ ~Gone(h, b)
    BY <1>1, <1>4, <1>5 DEF Gone
  <1>7. g = [h EXCEPT !.free = SubSeq(s, 1, i - 1) \o SubSeq(s, i + 1, Len(s))]
    BY <1>1, <1>4, <1>5, <1>6 DEF km_unlink
  <1>8. RemoveAt(s, i) = SubSeq(s, 1, i - 1) \o SubSeq(s, i + 1, Len(s))
    BY DEF RemoveAt
  <1>9. g = [h EXCEPT !.free = RemoveAt(@, i)]
    BY <1>1, <1>7, <1>8
  <1> QED
    BY <1>1, <1>2, <1>9 DEF Unlinked

\* What is stored to put a block into the list between the two that the walk found.
LEMMA LinkIs ==
    ASSUME NEW h \in Heaps, FreeList(h), NEW b \in Addresses, NEW prev, NEW next,
           Between(h, b, prev, next)
    PROVE  km_link(h, b, prev, next) = km_insert(h, b)
  <1>1. PICK s \in Seq(Addresses) : s = h.free /\ \A i, j \in 1..Len(s) : s[i] = s[j] => i = j
    BY ListFacts
  <1>2. PICK n \in Nat : n = Len(s)
    OBVIOUS
  <1>3. PICK i : i = Place(s, b)
    OBVIOUS
  <1>4. i \in 1..(n + 1)
    BY <1>2, <1>3, PlaceFound DEF Belongs
  <1>5. prev = Before(s, i) /\ next = IF i <= n THEN s[i] ELSE NULL
    BY <1>1, <1>2, <1>3 DEF Between
  <1>6. Index(s, prev) = i - 1 /\ (prev = NULL \/ i - 1 # 0)
    <2>1. CASE i <= 1
      <3>1. prev = NULL /\ i - 1 = 0
        BY <1>4, <1>5, <2>1 DEF Before
      <3> QED
        BY <1>1, <3>1, IndexFound
    <2>2. CASE ~(i <= 1)
      <3>1. prev = s[i - 1] /\ i - 1 \in 1..Len(s)
        BY <1>2, <1>4, <1>5, <2>2 DEF Before
      <3> QED
        BY <1>1, <3>1, IndexFound
    <2> QED
      BY <2>1, <2>2
  <1>7. ~Gone(h, prev)
    BY <1>1, <1>6 DEF Gone
  <1>8. Behind(s, i - 1) = next
    BY <1>2, <1>4, <1>5 DEF Behind
  <1>9. Index(s, prev) + 1 = i
    BY <1>4, <1>6
  <1>10. km_link(h, b, prev, next) = InsertAtPlace(h, b, i)
    BY <1>1, <1>6, <1>7, <1>8, <1>9 DEF km_link
  <1> QED
    BY <1>1, <1>3, <1>10 DEF km_insert

-----------------------------------------------------------------------------
(* The heap under the steps of a call *)

\* From heap h to heap g, which has the blocks U in use and X pending, where those in K
\* were left alone.
Becomes(h, g, U, X, K) ==
    /\ g \in Heaps /\ h.end <= g.end /\ g.max = h.max /\ g.halt = "none"
    /\ HeapOK(g, U, X) /\ Keeps(h, g, K)

\* Block b has a size, and a rest behind t bytes of it.
Divides(h, b, t) ==
    t \in Nat /\ t > 0 /\ t % Alignment = 0 /\ t + Alignment <= SizeOf(h, b)

\* The rest of a block that is to be split.
LEMMA RestFacts ==
    ASSUME NEW h \in Heaps, NEW S, Tiles(h, S), NEW b \in S, NEW t, Divides(h, b, t)
    PROVE  /\ b \in Nat /\ b + t \in Addresses /\ b + t \in Extent(h, b) /\ b + t # b
           /\ (b + t) % Word = b + t /\ (SizeOf(h, b) - t) % Word = SizeOf(h, b) - t
           /\ SizeOf(h, b) - t \in Nat /\ t <= SizeOf(h, b) /\ t + Alignment < Word
           /\ (t + Alignment) % Word = t + Alignment
  <1>1. Whole(h, b)
    BY DEF Tiles
  <1>2. PICK z \in Nat : z = SizeOf(h, b) /\ z > 0 /\ z % Alignment = 0
    BY <1>1, WholeFacts
  <1>3. /\ b \in Addresses /\ b \in Nat /\ b + z <= h.end
        /\ (\A a : a \in Extent(h, b) <=> a \in Nat /\ b <= a /\ a < b + z)
    BY <1>1, <1>2, WholeFacts
  <1>4. /\ Alignment \in Nat \ {0} /\ Word \in Nat \ {0} /\ MemoryEnd \in Nat /\ MemoryEnd < Word
        /\ h.end \in Nat /\ h.end <= MemoryEnd /\ kheap_begin \in Nat /\ kheap_begin <= b
        /\ b % Alignment = 0
    <2>1. h.end \in Nat /\ h.max \in Nat /\ h.end <= h.max /\ h.max <= MemoryEnd
      BY TilesWithin
    <2> QED
      BY <1>3, <2>1, Begins, AddressFacts
  <1>5. t \in Nat /\ t > 0 /\ t % Alignment = 0 /\ t + Alignment <= z
    BY <1>2 DEF Divides
  <1>6. b + t < MemoryEnd /\ b + t \in Nat /\ z - t \in Nat /\ z - t < Word /\ t + Alignment < Word
        /\ b + t < b + z /\ kheap_begin <= b + t
    BY <1>2, <1>3, <1>4, <1>5
  <1>7. (b + t) % Alignment = 0
    BY <1>3, <1>4, <1>5, MultipleSum
  <1>8. b + t \in Addresses
    BY <1>6, <1>7, AddressFacts
  <1>9. (b + t) % Word = b + t /\ (z - t) % Word = z - t /\ (t + Alignment) % Word = t + Alignment
    <2>1. \A x \in Nat : x < Word => x % Word = x
      BY <1>4
    <2>2. b + t < Word /\ t + Alignment \in Nat
      BY <1>4, <1>5, <1>6
    <2> QED
      BY <1>6, <2>1, <2>2
  <1>10. b + t \in Extent(h, b) /\ b + t # b /\ t <= z
    BY <1>3, <1>4, <1>5, <1>6
  <1> QED
    BY <1>2, <1>3, <1>6, <1>8, <1>9, <1>10

\* Writing within a block, but not to its mark.
LEMMA Rewrite ==
    ASSUME NEW h \in Heaps, h.halt = "none", NEW U, NEW X, HeapOK(h, U, X), NEW b \in U \cup X,
           NEW g, Altered(h, b, g), g.mem[b].alloc = h.mem[b].alloc
    PROVE  Becomes(h, g, U, X, (U \cup X) \ {b}) /\ SizeOf(g, b) = SizeOf(h, b) /\ g.end = h.end
           /\ g.free = h.free
  <1>1. PICK S : S = U \cup X
    OBVIOUS
  <1>2. Tiles(h, S) /\ b \in S /\ (\A u \in U : Block(h, u, TRUE)) /\ (\A u \in X : Block(h, u, FALSE))
    BY <1>1 DEF HeapOK
  <1>3. Tiles(g, S) /\ Keeps(h, g, S \ {b}) /\ Whole(g, b)
    BY <1>2, Alter
  <1>4. /\ g \in Heaps /\ g.end = h.end /\ g.max = h.max /\ g.halt = "none"
        /\ SizeOf(g, b) = SizeOf(h, b) /\ h.end <= g.end /\ g.free = h.free
    BY HeapFacts DEF Altered
  <1>5. \A taken : Block(h, b, taken) => Block(g, b, taken)
    <2>1. ASSUME NEW taken, Block(h, b, taken) PROVE Block(g, b, taken)
      <3>1. h.mem[b].alloc = taken
        BY <2>1 DEF Block
      <3> QED
        BY <1>3, <3>1 DEF Whole
    <2> QED
      BY <2>1
  <1>6. PICK K : K = S \ {b}
    OBVIOUS
  <1>7. \A u \in U : (u \in U /\ u \in K) \/ Block(g, u, TRUE)
    BY <1>1, <1>2, <1>5, <1>6
  <1>8. \A u \in X : (u \in X /\ u \in K) \/ Block(g, u, FALSE)
    BY <1>1, <1>2, <1>5, <1>6
  <1>9. HeapOK(g, U, X)
    <2>1. Tiles(g, U \cup X) /\ Keeps(h, g, K)
      BY <1>1, <1>3, <1>6
    <2> QED
      BY <1>4, <1>7, <1>8, <2>1, HeapStill
  <1> QED
    BY <1>1, <1>3, <1>4, <1>9 DEF Becomes

\* The words of block b up to t bytes are what they were.
SameWords(h, g, b, t) == \A w \in Addresses : b < w /\ w < b + t => g.mem[w] = h.mem[w]

\* The rest of a block gets its header.
LEMMA CutBegins ==
    ASSUME NEW h \in Heaps, h.halt = "none", NEW U, NEW X, HeapOK(h, U, X), NEW b \in U \cup X,
           NEW t, Divides(h, b, t), NEW g, InitBlockIs(h, b + t, SizeOf(h, b) - t, g)
    PROVE  /\ Becomes(h, g, U, X, (U \cup X) \ {b}) /\ SizeOf(g, b) = SizeOf(h, b)
           /\ Cutting(g, b, t) /\ SameWords(h, g, b, t)
  <1>1. PICK S : S = U \cup X /\ Tiles(h, S) /\ b \in S
    BY DEF HeapOK
  <1>2. PICK r : r = b + t
    OBVIOUS
  <1>3. PICK y \in Nat : y = SizeOf(h, b) - t
    BY <1>1, RestFacts
  <1>4. r \in Addresses /\ r \in Extent(h, b) /\ r # b /\ b \in Nat /\ t \in Nat
    BY <1>1, <1>2, RestFacts DEF Divides
  <1>5. InitBlockIs(h, r, y, g)
    BY <1>2, <1>3
  <1>6. Wrote(h, r, g) /\ g \in Heaps
    BY <1>3, <1>4, <1>5, InitBlock
  <1>7. /\ g.free = h.free /\ g.end = h.end /\ g.max = h.max /\ g.halt = h.halt
        /\ \A w \in Addresses : w # r => g.mem[w] = h.mem[w]
    BY <1>6 DEF Wrote
  <1>8. b \in Addresses /\ h.mem[b] \in Headers
    BY <1>1, WholeFacts DEF Tiles
  <1>9. g.mem[b] = h.mem[b]
    BY <1>4, <1>7, <1>8
  <1>10. SizeOf(g, b) = SizeOf(h, b)
    BY <1>9 DEF SizeOf
  <1>11. Altered(h, b, g)
    BY <1>4, <1>6, <1>7, <1>8, <1>9, <1>10 DEF Altered
  <1>12. Becomes(h, g, U, X, (U \cup X) \ {b})
    BY <1>9, <1>11, Rewrite
  <1>13. g.mem[r] = [size |-> y, alloc |-> FALSE]
    <2>1. g = [h EXCEPT !.mem[r] = [size |-> y, alloc |-> FALSE]]
      BY <1>5 DEF InitBlockIs, km_initblock
    <2>2. PICK x : x = [size |-> y, alloc |-> FALSE]
      OBVIOUS
    <2>3. HeaderAt(h, r, x, g) /\ x \in Headers
      BY <1>3, <2>1, <2>2, NewHeader DEF HeaderAt
    <2> QED
      BY <1>4, <2>2, <2>3, WriteHeader
  <1>14. Cutting(g, b, t)
    BY <1>2, <1>3, <1>10, <1>13 DEF Cutting, Divides
  <1>15. SameWords(h, g, b, t)
    <2>1. ASSUME NEW w \in Addresses, b < w, w < b + t PROVE g.mem[w] = h.mem[w]
      <3>1. w # r
        BY <1>2, <1>4, <2>1, AddressFacts
      <3> QED
        BY <1>7, <3>1
    <2> QED
      BY <2>1 DEF SameWords
  <1> QED
    BY <1>10, <1>12, <1>14, <1>15

\* A header stored over an equal one.
LEMMA SameHeader ==
    ASSUME NEW h \in Heaps, NEW r \in Addresses, NEW x, h.mem[r] = x,
           NEW g, HeaderAt(h, r, x, g)
    PROVE  g = h
  <1>1. h.mem \in [Addresses -> Values \cup {Junk} \cup Headers]
    BY HeapFacts
  <1>2. PICK m : m = h.mem /\ m = [m EXCEPT ![r] = x]
    BY <1>1
  <1>3. g = [h EXCEPT !.mem = m]
    BY <1>2 DEF HeaderAt
  <1> QED
    BY <1>2, <1>3 DEF Heaps

\* The rest of a block goes to the free list.
LEMMA CutEnds ==
    ASSUME NEW h \in Heaps, h.halt = "none", NEW U, NEW X, HeapOK(h, U, X), NEW b \in U \cup X,
           NEW t, Divides(h, b, t), Cutting(h, b, t),
           NEW e, e = km_insert(h, b + t), NEW g, g = km_setsize(e, b, t)
    PROVE  /\ Becomes(h, g, U, X, (U \cup X) \ {b}) /\ t <= SizeOf(g, b)
           /\ e.halt = "none" /\ SameWords(h, g, b, t)
  <1>1. PICK S : S = U \cup X /\ Tiles(h, S) /\ b \in S
    BY DEF HeapOK
  <1>2. PICK r : r = b + t
    OBVIOUS
  <1>3. PICK y \in Nat : y = SizeOf(h, b) - t
    BY <1>1, RestFacts
  <1>4. /\ r \in Addresses /\ r % Word = r /\ y % Word = y /\ t <= SizeOf(h, b) /\ t + Alignment < Word
        /\ (t + Alignment) % Word = t + Alignment
        /\ t \in Nat /\ t > 0 /\ t % Alignment = 0 /\ t + Alignment <= SizeOf(h, b)
    BY <1>1, <1>2, <1>3, RestFacts DEF Divides
  <1>5. km_initblock(h, r, y) = h
    <2>1. PICK x : x = [size |-> y, alloc |-> FALSE]
      OBVIOUS
    <2>2. h.mem[r] = x
      BY <1>2, <1>3, <2>1 DEF Cutting
    <2>3. PICK d : d = km_initblock(h, r, y)
      OBVIOUS
    <2>4. HeaderAt(h, r, x, d)
      BY <2>1, <2>3 DEF HeaderAt, km_initblock
    <2>5. d = h
      BY <1>4, <2>2, <2>4, SameHeader
    <2> QED
      BY <2>3, <2>5
  <1>6. g = km_split(h, b, t)
    <2>1. ~(SizeOf(h, b) < (t + Alignment) % Word)
      <3>1. SizeOf(h, b) \in Nat /\ Alignment \in Nat
        BY <1>1, WholeFacts, Begins DEF Tiles
      <3> QED
        BY <1>4, <3>1
    <2>2. km_split(h, b, t) = km_setsize(km_insert(km_initblock(h, r % Word, y % Word), r % Word), b, t)
      BY <1>2, <1>3, <2>1 DEF km_split
    <2> QED
      BY <1>2, <1>4, <1>5, <2>2
  <1>7. SplitAt(h, b, t, g)
    BY <1>4, <1>6 DEF SplitAt
  <1>8. Left(h, g, S, S \ {b}) /\ CutTo(h, b, t, g)
    BY <1>1, <1>7, Split
  <1>9. /\ g \in Heaps /\ g.end = h.end /\ g.max = h.max /\ g.halt = "none" /\ h.end <= g.end
        /\ Tiles(g, S) /\ Keeps(h, g, S \ {b})
    BY <1>8, HeapFacts DEF Left
  <1>10. /\ SizeOf(g, b) >= t /\ g.mem[b].alloc = h.mem[b].alloc /\ SameWords(h, g, b, t)
    BY <1>8 DEF CutTo, SameWords
  <1>11. \A taken : Block(h, b, taken) => Block(g, b, taken)
    <2>1. ASSUME NEW taken, Block(h, b, taken) PROVE Block(g, b, taken)
      <3>1. h.mem[b].alloc = taken /\ Whole(g, b)
        BY <1>1, <1>9, <2>1 DEF Block, Tiles
      <3> QED
        BY <1>10, <3>1 DEF Whole
    <2> QED
      BY <2>1
  <1>12. PICK K : K = S \ {b}
    OBVIOUS
  <1>13. \A u \in U : (u \in U /\ u \in K) \/ Block(g, u, TRUE)
    BY <1>1, <1>11, <1>12 DEF HeapOK
  <1>14. \A u \in X : (u \in X /\ u \in K) \/ Block(g, u, FALSE)
    BY <1>1, <1>11, <1>12 DEF HeapOK
  <1>15. HeapOK(g, U, X)
    <2>1. Tiles(g, U \cup X) /\ Keeps(h, g, K)
      BY <1>1, <1>9, <1>12
    <2> QED
      BY <1>9, <1>13, <1>14, <2>1, HeapStill
  <1>16. e.halt = "none"
    BY <1>9 DEF km_setsize
  <1>17. t <= SizeOf(g, b)
    <2>1. SizeOf(g, b) \in Nat
      BY <1>1, <1>9, WholeFacts DEF Tiles
    <2> QED
      BY <1>4, <1>10, <2>1
  <1> QED
    BY <1>1, <1>9, <1>10, <1>15, <1>16, <1>17 DEF Becomes

\* One step after another.
LEMMA BecomesTwice ==
    ASSUME NEW h \in Heaps, NEW W, NEW Z, HeapOK(h, W, Z),
           NEW e, NEW U, NEW X, NEW L, Becomes(h, e, U, X, L),
           NEW g, NEW V, NEW Y, NEW M, Becomes(e, g, V, Y, M),
           NEW K, K \subseteq W \cup Z, K \subseteq L, K \subseteq M
    PROVE  Becomes(h, g, V, Y, K)
  <1>1. \A u \in K : Whole(h, u)
    BY DEF HeapOK, Tiles
  <1>2. Keeps(h, e, K) /\ Keeps(e, g, K)
    BY KeepsFewer DEF Becomes
  <1>3. e \in Heaps /\ g \in Heaps /\ h.end <= e.end /\ e.end <= g.end /\ e.max = h.max /\ g.max = e.max
    BY DEF Becomes
  <1>4. Keeps(h, g, K)
    BY <1>1, <1>2, <1>3, KeepsTwice
  <1>5. h.end <= g.end
    <2>1. h.end \in Nat /\ e.end \in Nat /\ g.end \in Nat
      BY <1>3, HeapFacts
    <2> QED
      BY <1>3, <2>1
  <1> QED
    BY <1>3, <1>4, <1>5 DEF Becomes

\* A block is in use or pending, not both.
LEMMA UsedOrPending ==
    ASSUME NEW h, NEW U, NEW X, HeapOK(h, U, X)
    PROVE  \A u \in U : u \notin X
  BY DEF HeapOK, Block

\* A block in use loses its mark.
LEMMA FreeBegins ==
    ASSUME NEW h \in Heaps, h.halt = "none", NEW U, NEW X, HeapOK(h, U, X), NEW b \in U,
           NEW g, g = km_clearalloc(h, b)
    PROVE  /\ Becomes(h, g, U \ {b}, X \cup {b}, (U \cup X) \ {b})
           /\ SizeOf(g, b) = SizeOf(h, b)
  <1>1. PICK S : S = U \cup X /\ Tiles(h, S) /\ b \in S
    BY DEF HeapOK
  <1>2. Marked(h, b, FALSE, g)
    BY DEF Marked, km_clearalloc
  <1>3. Left(h, g, S, S \ {b}) /\ Block(g, b, FALSE) /\ SizeOf(g, b) = SizeOf(h, b)
    BY <1>1, <1>2, Mark, ZenonT(30)
  <1>4. /\ g \in Heaps /\ g.end = h.end /\ g.max = h.max /\ g.halt = "none" /\ h.end <= g.end
        /\ Tiles(g, S) /\ Keeps(h, g, S \ {b})
    BY <1>3, HeapFacts DEF Left
  <1>5. PICK V : V = U \ {b}
    OBVIOUS
  <1>6. PICK Y : Y = X \cup {b}
    OBVIOUS
  <1>7. PICK K : K = S \ {b}
    OBVIOUS
  <1>8. V \cup Y = S
    BY <1>1, <1>5, <1>6
  <1>9. \A u \in V : (u \in U /\ u \in K) \/ Block(g, u, TRUE)
    BY <1>1, <1>5, <1>7
  <1>10. \A u \in Y : (u \in X /\ u \in K) \/ Block(g, u, FALSE)
    BY <1>1, <1>3, <1>6, <1>7
  <1>11. HeapOK(g, V, Y)
    <2>1. g \in Heaps /\ h.end <= g.end /\ Tiles(g, V \cup Y) /\ Keeps(h, g, K)
      BY <1>1, <1>4, <1>7, <1>8
    <2> QED
      BY ONLY h \in Heaps, HeapOK(h, U, X), <1>9, <1>10, <2>1, HeapStill
  <1> QED
    BY <1>1, <1>3, <1>4, <1>5, <1>6, <1>11 DEF Becomes

\* A block that was pending goes to the free list.
LEMMA FreeEnds ==
    ASSUME NEW h \in Heaps, h.halt = "none", NEW U, NEW X, HeapOK(h, U, X), NEW b \in X,
           NEW g, g = km_insert(h, b)
    PROVE  Becomes(h, g, U, X \ {b}, (U \cup X) \ {b})
  <1>1. PICK S : S = U \cup X /\ Tiles(h, S) /\ b \in S
    BY DEF HeapOK
  <1>2. Block(h, b, FALSE) /\ b \notin U
    BY UsedOrPending DEF HeapOK
  <1>3. Left(h, g, S \ {b}, S \ {b})
    BY <1>1, <1>2, PutBack
  <1>4. /\ g \in Heaps /\ g.end = h.end /\ g.max = h.max /\ g.halt = "none" /\ h.end <= g.end
        /\ Tiles(g, S \ {b}) /\ Keeps(h, g, S \ {b})
    BY <1>3, HeapFacts DEF Left
  <1>5. PICK Y : Y = X \ {b}
    OBVIOUS
  <1>6. PICK K : K = S \ {b}
    OBVIOUS
  <1>7. U \cup Y = K
    BY <1>1, <1>2, <1>5, <1>6
  <1>8. \A u \in U : u \in U /\ u \in K
    BY <1>7
  <1>9. \A u \in Y : u \in X /\ u \in K
    BY <1>5, <1>7
  <1>10. HeapOK(g, U, Y)
    <2>1. g \in Heaps /\ h.end <= g.end /\ Tiles(g, U \cup Y) /\ Keeps(h, g, K)
      BY <1>1, <1>4, <1>6, <1>7
    <2> QED
      BY ONLY h \in Heaps, HeapOK(h, U, X), <1>8, <1>9, <2>1, HeapStill
  <1> QED
    BY <1>1, <1>4, <1>5, <1>10 DEF Becomes

\* kfree() of a block in use, whatever is pending.
LEMMA FreeWhole ==
    ASSUME NEW h \in Heaps, h.halt = "none", NEW U, NEW X, HeapOK(h, U, X),
           NEW p, NEW b \in U, b = p - Header, NEW g, g = _kfree_unsafe(h, p)
    PROVE  Becomes(h, g, U \ {b}, X, (U \cup X) \ {b})
  <1>1. Block(h, b, TRUE) /\ h.mem[b] \in Headers /\ h.mem[b].alloc = TRUE
    BY DEF HeapOK, Block
  <1>2. InUse(h, b)
    BY <1>1, HeadersKnown DEF InUse
  <1>3. PICK e : e = km_clearalloc(h, b)
    OBVIOUS
  <1>4. g = km_insert(e, b)
    BY <1>2, <1>3 DEF _kfree_unsafe
  <1>5. PICK V : V = U \ {b}
    OBVIOUS
  <1>6. PICK Y : Y = X \cup {b}
    OBVIOUS
  <1>7. b \notin X
    BY UsedOrPending
  <1>8. PICK K : K = (U \cup X) \ {b}
    OBVIOUS
  <1>9. Becomes(h, e, V, Y, K)
    BY <1>3, <1>5, <1>6, <1>8, FreeBegins
  <1>10. Becomes(e, g, V, Y \ {b}, (V \cup Y) \ {b})
    <2>1. e \in Heaps /\ e.halt = "none" /\ HeapOK(e, V, Y) /\ b \in Y
      BY <1>6, <1>9 DEF Becomes
    <2> QED
      BY <1>4, <2>1, FreeEnds
  <1>11. Y \ {b} = X /\ (V \cup Y) \ {b} = K
    BY <1>5, <1>6, <1>7, <1>8
  <1>12. Becomes(h, g, V, X, K)
    <2>1. K \subseteq U \cup X /\ Becomes(e, g, V, X, K)
      BY <1>8, <1>10, <1>11
    <2> QED
      BY <1>9, <2>1, BecomesTwice
  <1> QED
    BY <1>5, <1>8, <1>12

\* A block of the free list becomes pending.
LEMMA TakeFree ==
    ASSUME NEW h \in Heaps, h.halt = "none", NEW U, HeapOK(h, U, {}),
           NEW b, NEW prev, Found(h, b, prev), NEW g, g = km_unlink(h, prev, b)
    PROVE  Becomes(h, g, U, {b}, U) /\ SizeOf(g, b) = SizeOf(h, b)
  <1>1. Tiles(h, U) /\ FreeList(h)
    <2>1. U \cup {} = U
      OBVIOUS
    <2> QED
      BY <2>1 DEF HeapOK, Tiles
  <1>2. PICK i : Unlinked(h, i, b, g)
    BY <1>1, UnlinkIs
  <1>3. /\ g \in Heaps /\ g.mem = h.mem /\ g.end = h.end /\ g.max = h.max /\ g.halt = "none"
        /\ Tiles(g, U \cup {b}) /\ b \notin U /\ Block(g, b, FALSE) /\ h.end <= g.end
    <2>1. /\ g \in Heaps /\ g.mem = h.mem /\ g.end = h.end /\ g.max = h.max /\ g.halt = h.halt
          /\ Tiles(g, U \cup {b}) /\ b \notin U /\ Block(g, b, FALSE)
      BY ONLY h \in Heaps, <1>1, <1>2, TakeOut
    <2>2. h.end <= g.end /\ g.halt = "none"
      BY <2>1, HeapFacts
    <2> QED
      BY <2>1, <2>2
  <1>4. Keeps(h, g, U) /\ SizeOf(g, b) = SizeOf(h, b)
    BY <1>3 DEF Keeps, SizeOf
  <1>5. HeapOK(g, U, {b})
    <2>1. \A u \in U : u \in U /\ u \in U
      OBVIOUS
    <2>2. \A u \in {b} : Block(g, u, FALSE)
      BY <1>3
    <2> QED
      BY <1>3, <1>4, <2>1, <2>2, HeapStill
  <1> QED
    BY <1>3, <1>4, <1>5 DEF Becomes

\* A new block at the end of the heap becomes pending, or there is no memory.
LEMMA ExtendHeap ==
    ASSUME NEW h \in Heaps, h.halt = "none", NEW U, HeapOK(h, U, {}), NEW t \in Nat, t > 0,
           MemoryEnd + t + PageSize <= Word, NEW g, g = km_extend(h, t)
    PROVE  \/ g \in Heaps /\ g.halt = "oom"
           \/ Becomes(h, g, U, {h.end}, U) /\ t <= SizeOf(g, h.end) /\ h.end \in Nat
  <1>1. Tiles(h, U)
    <2>1. U \cup {} = U
      OBVIOUS
    <2> QED
      BY <2>1 DEF HeapOK
  <1>2. /\ Alignment \in Nat \ {0} /\ PageSize \in Nat \ {0} /\ Word \in Nat \ {0} /\ MemoryEnd \in Nat
        /\ PageSize % Alignment = 0
    BY Begins, HeapAssumption
  <1>3. h.end \in Nat /\ h.max \in Nat /\ h.end <= h.max /\ h.max <= MemoryEnd
    BY <1>1, TilesWithin
  <1>4. PICK z \in Nat : z = Align(t, PageSize) /\ z % PageSize = 0 /\ t <= z /\ z < t + PageSize
    <2>1. t + PageSize <= Word
      BY <1>2
    <2> QED
      BY <1>2, <2>1, AlignRoundsUp
  <1>5. z > 0 /\ z % Alignment = 0
    BY <1>2, <1>4, MultipleOfMultiple
  <1>6. (h.end + z) % Word = h.end + z
    <2>1. PICK x \in Nat : x = h.end + z
      BY <1>3
    <2>2. x < Word
      BY <1>2, <1>3, <1>4, <2>1
    <2>3. x % Word = x
      BY <1>2, <2>2
    <2> QED
      BY <2>1, <2>3
  <1>7. g = IF h.end + z > h.max THEN [h EXCEPT !.end = h.end + z, !.halt = "oom"]
            ELSE km_initblock([h EXCEPT !.end = h.end + z], h.end, z)
    BY <1>4, <1>6 DEF km_extend
  <1>8. CASE h.end + z > h.max
    <2>1. g = [h EXCEPT !.end = h.end + z, !.halt = "oom"] /\ h.end + z \in Nat
      BY <1>3, <1>7, <1>8
    <2>2. g \in Heaps /\ g.halt = "oom"
      BY ONLY h \in Heaps, <2>1, Halted
    <2> QED
      BY <2>2
  <1>9. CASE ~(h.end + z > h.max)
    <2>1. Extended(h, z, g) /\ h.end + z <= h.max
      BY <1>3, <1>7, <1>9 DEF Extended
    <2>2. /\ g \in Heaps /\ g.end = h.end + z /\ g.max = h.max /\ g.halt = h.halt
          /\ Tiles(g, U \cup {h.end}) /\ h.end \notin U /\ Keeps(h, g, U)
          /\ Block(g, h.end, FALSE) /\ SizeOf(g, h.end) = z
      BY ONLY h \in Heaps, z \in Nat, <1>1, <1>5, <2>1, Extend
    <2>3. h.end <= g.end
      BY <1>3, <2>2
    <2>4. HeapOK(g, U, {h.end})
      <3>1. \A u \in U : u \in U /\ u \in U
        OBVIOUS
      <3>2. \A u \in {h.end} : Block(g, u, FALSE)
        BY <2>2
      <3> QED
        BY <2>2, <2>3, <3>1, <3>2, HeapStill
    <2> QED
      BY <1>3, <1>4, <2>2, <2>3, <2>4 DEF Becomes
  <1> QED
    BY <1>8, <1>9

\* A pending block gets its mark.
LEMMA MarkTaken ==
    ASSUME NEW h \in Heaps, h.halt = "none", NEW U, NEW X, HeapOK(h, U, X),
           NEW b \in X, \A u \in X : u = b, NEW g, g = km_setalloc(h, b), NEW S, S = U \cup X
    PROVE  /\ Becomes(h, g, S, {}, U) /\ SizeOf(g, b) = SizeOf(h, b) /\ b \notin U
           /\ SizeOf(h, b) \in Nat /\ b \in Nat
  <1>1. Tiles(h, S) /\ b \in S /\ S = U \cup {b} /\ HeapOK(h, U, {b})
    BY DEF HeapOK
  <1>2. b \notin U /\ Block(h, b, FALSE)
    BY <1>1, UsedOrPending DEF HeapOK
  <1>3. Marked(h, b, TRUE, g)
    BY DEF Marked, km_setalloc
  <1>4. Left(h, g, S, S \ {b}) /\ Block(g, b, TRUE) /\ SizeOf(g, b) = SizeOf(h, b)
    <2>1. Tiles(h, S) /\ b \in S
      BY <1>1
    <2> QED
      BY ONLY h \in Heaps, <1>3, <2>1, Mark, ZenonT(30)
  <1>5. S \ {b} = U
    BY <1>1, <1>2
  <1>6. /\ g \in Heaps /\ g.end = h.end /\ g.max = h.max /\ g.halt = "none" /\ h.end <= g.end
        /\ Tiles(g, S) /\ Keeps(h, g, U)
    <2>1. /\ g \in Heaps /\ g.end = h.end /\ g.max = h.max /\ g.halt = h.halt
          /\ Tiles(g, S) /\ Keeps(h, g, S \ {b})
      BY ONLY <1>4 DEF Left
    <2>2. Keeps(h, g, U)
      BY <1>5, <2>1
    <2>3. h.end <= g.end /\ g.halt = "none"
      BY <2>1, HeapFacts
    <2> QED
      BY <2>1, <2>2, <2>3
  <1>7. HeapOK(g, S, {})
    <2>1. \A u \in S : (u \in U /\ u \in U) \/ Block(g, u, TRUE)
      BY <1>1, <1>4
    <2>2. \A u \in {} : (u \in X /\ u \in U) \/ Block(g, u, FALSE)
      OBVIOUS
    <2>3. Tiles(g, S \cup {})
      BY <1>6
    <2> QED
      BY <1>6, <2>1, <2>2, <2>3, HeapStill
  <1> QED
    BY <1>1, <1>2, <1>4, <1>6, <1>7, BlockSize DEF Becomes

\* A block in use takes the free block c behind it in.
LEMMA JoinBehind ==
    ASSUME NEW h \in Heaps, h.halt = "none", NEW U, HeapOK(h, U, {}), NEW b \in U,
           NEW c, c = b + SizeOf(h, b), NEW prev, Found(h, c, prev),
           NEW e, e = km_unlink(h, prev, c),
           NEW g, g = km_setsize(e, b, SizeOf(e, b) + SizeOf(e, c))
    PROVE  /\ Becomes(h, g, U, {}, U \ {b}) /\ e.halt = "none"
           /\ SizeOf(g, b) = SizeOf(h, b) + SizeOf(h, c)
           /\ \A w \in Addresses : w # b => g.mem[w] = h.mem[w]
  <1>1. Becomes(h, e, U, {c}, U)
    BY TakeFree
  <1>2. PICK S : S = U \cup {c} /\ Tiles(e, S)
    BY <1>1 DEF Becomes, HeapOK
  <1>3. /\ e \in Heaps /\ e.halt = "none" /\ h.end <= e.end /\ e.max = h.max
        /\ HeapOK(e, U, {c}) /\ Keeps(h, e, U)
    BY <1>1 DEF Becomes
  <1>4. e.mem = h.mem
    <2>1. U \cup {} = U
      OBVIOUS
    <2>2. Tiles(h, U) /\ FreeList(h)
      BY <2>1 DEF HeapOK, Tiles
    <2>3. PICK i : Unlinked(h, i, c, e)
      BY <2>2, UnlinkIs
    <2>4. e = [h EXCEPT !.free = RemoveAt(@, i)]
      BY ONLY <2>3 DEF Unlinked
    <2>5. h \in Heaps
      OBVIOUS
    <2> QED
      BY ONLY <2>4, <2>5 DEF Heaps
  <1>5. c \notin U /\ b \in S /\ c \in S /\ S \ {c} = U
    BY <1>2, <1>3, UsedOrPending
  <1>6. SizeOf(e, b) = SizeOf(h, b) /\ SizeOf(e, c) = SizeOf(h, c)
    BY <1>4 DEF SizeOf
  <1>7. Resized(e, b, SizeOf(e, b) + SizeOf(e, c), g)
    BY <1>3 DEF km_setsize, Resized
  <1>8. /\ Left(e, g, U, U \ {b}) /\ Wrote(e, b, g)
        /\ SizeOf(g, b) = SizeOf(e, b) + SizeOf(e, c)
        /\ g.mem[b].alloc = e.mem[b].alloc
    <2>1. c = b + SizeOf(e, b)
      BY <1>6
    <2>2. /\ Left(e, g, S \ {c}, (S \ {c}) \ {b}) /\ Wrote(e, b, g)
          /\ SizeOf(g, b) = SizeOf(e, b) + SizeOf(e, c)
          /\ g.mem[b].alloc = e.mem[b].alloc
      <3>1. e \in Heaps /\ Tiles(e, S) /\ b \in S /\ c \in S
        BY <1>2, <1>3, <1>5
      <3> QED
        BY ONLY <1>7, <2>1, <3>1, Join
    <2> QED
      BY <1>5, <2>2
  <1>9. /\ g \in Heaps /\ g.end = e.end /\ g.max = e.max /\ g.halt = "none" /\ e.end <= g.end
        /\ Tiles(g, U) /\ Keeps(e, g, U \ {b})
    BY <1>3, <1>8, HeapFacts DEF Left
  <1>10. PICK K : K = U \ {b}
    OBVIOUS
  <1>11. Block(g, b, TRUE)
    <2>1. Block(e, b, TRUE) /\ Whole(g, b)
      BY <1>3, <1>9 DEF HeapOK, Tiles
    <2> QED
      BY <1>8, <2>1 DEF Whole, Block
  <1>12. HeapOK(g, U, {})
    <2>1. \A u \in U : (u \in U /\ u \in K) \/ Block(g, u, TRUE)
      BY <1>10, <1>11
    <2>2. \A u \in {} : (u \in {c} /\ u \in K) \/ Block(g, u, FALSE)
      OBVIOUS
    <2>3. Tiles(g, U \cup {}) /\ Keeps(e, g, K)
      BY <1>9, <1>10
    <2> QED
      BY <1>3, <1>9, <2>1, <2>2, <2>3, HeapStill
  <1>13. Becomes(e, g, U, {}, K)
    BY <1>9, <1>10, <1>12 DEF Becomes
  <1>14. Becomes(h, g, U, {}, K)
    <2>1. K \subseteq U \cup {} /\ K \subseteq U /\ K \subseteq K
      BY <1>10
    <2> QED
      BY <1>1, <1>13, <2>1, BecomesTwice
  <1>15. \A w \in Addresses : w # b => g.mem[w] = h.mem[w]
    BY <1>4, <1>8 DEF Wrote
  <1> QED
    BY <1>3, <1>6, <1>8, <1>10, <1>14, <1>15

-----------------------------------------------------------------------------
(* The steps of a call *)

\* A call that has gone on to another step.
LEMMA CallMoved ==
    ASSUME NEW c \in Calls, NEW a \in Steps, NEW d, d = [c EXCEPT !.at = a]
    PROVE  /\ d \in Calls /\ d.at = a /\ d.op = c.op /\ d.ptr = c.ptr /\ d.asked = c.asked
           /\ d.block = c.block /\ d.size = c.size /\ d.prev = c.prev /\ d.next = c.next
  BY DEF Calls

\* No call.
LEMMA IdleFacts ==
    /\ Idle \in Calls /\ Idle.at = "none" /\ Pends(Idle) = {}
    /\ \A h, l : CallOK(h, l, Idle)
  <1>1. Idle \in Calls /\ Idle.at = "none"
    BY DEF Idle, Calls, Steps, Works
  <1>2. Pends(Idle) = {}
    BY <1>1 DEF Pends
  <1> QED
    BY <1>1, <1>2 DEF CallOK

\* A call that is done leaves a sound state.
LEMMA IdleSound ==
    ASSUME NEW h \in Heaps, h.halt # "assert", NEW l, Agrees(h, l, {})
    PROVE  Sound(h, l, Idle)
  BY IdleFacts DEF Sound

\* How km_split() begins, for a call c that has the block U or X for it.
CanSplit(h, U, X, c) ==
    /\ h \in Heaps /\ h.halt = "none" /\ HeapOK(h, U, X)
    /\ c \in Calls /\ c.block \in U \cup X /\ c.op # "free"
    /\ FitsWord(c.asked) /\ c.size = TargetSize(c.asked) /\ c.size <= SizeOf(h, c.block)

\* The call that it leaves is sound: nothing is to be put back, or the header of the rest is there.
LEMMA SplitsWell ==
    ASSUME NEW h, NEW U, NEW X, NEW c, CanSplit(h, U, X, c), Splits(h, c)
    PROVE  /\ Becomes(h, heap', U, X, (U \cup X) \ {c.block})
           /\ SameWords(h, heap', c.block, c.size) /\ c.size <= SizeOf(heap', c.block)
           /\ \/ call' = IF c.op = "resize" THEN Idle ELSE [c EXCEPT !.at = "mark"]
              \/ call' = [c EXCEPT !.at = "place"] /\ Cutting(heap', c.block, c.size)
  <1>1. /\ h \in Heaps /\ h.halt = "none" /\ HeapOK(h, U, X) /\ c \in Calls /\ c.op # "free"
        /\ FitsWord(c.asked) /\ c.size = TargetSize(c.asked)
    BY DEF CanSplit
  <1>2. PICK b \in U \cup X : b = c.block
    BY DEF CanSplit
  <1>3. PICK m \in Nat : m = c.asked
    BY <1>1 DEF Calls
  <1>4. PICK t \in Nat : /\ t = c.size /\ t > 0 /\ t % Alignment = 0 /\ t + Alignment < Word
                         /\ t <= SizeOf(h, b)
    <2>1. /\ TargetSize(m) \in Nat /\ TargetSize(m) > 0 /\ TargetSize(m) % Alignment = 0
          /\ TargetSize(m) + Alignment < Word
      BY <1>1, <1>3, TargetFacts
    <2>2. c.size = TargetSize(m) /\ c.size <= SizeOf(h, b)
      BY <1>1, <1>2, <1>3 DEF CanSplit
    <2> QED
      BY <2>1, <2>2
  <1>5. PICK z \in Nat : z = SizeOf(h, b)
    BY <1>1, <1>2, WholeFacts DEF HeapOK, Tiles
  <1>6. Alignment \in Nat /\ Word \in Nat /\ Word > 0
    BY Begins
  <1>7. (t + Alignment) % Word = t + Alignment
    BY <1>4, <1>6
  <1>8. CASE z < t + Alignment
    <2>1. heap' = h /\ call' = IF c.op = "resize" THEN Idle ELSE [c EXCEPT !.at = "mark"]
      BY <1>2, <1>4, <1>5, <1>7, <1>8 DEF Splits
    <2>2. Becomes(h, h, U, X, (U \cup X) \ {b})
      <3>1. h.end <= h.end
        BY <1>1, HeapFacts
      <3> QED
        BY <1>1, <3>1 DEF Becomes, Keeps
    <2>3. SameWords(h, h, b, t)
      BY DEF SameWords
    <2> QED
      BY <1>2, <1>4, <2>1, <2>2, <2>3
  <1>9. CASE ~(z < t + Alignment)
    <2>1. Divides(h, b, t)
      BY <1>4, <1>5, <1>6, <1>9 DEF Divides
    <2>2. Tiles(h, U \cup X)
      BY <1>1 DEF HeapOK
    <2>3. (b + t) % Word = b + t /\ (z - t) % Word = z - t
      BY <1>1, <1>5, <2>1, <2>2, RestFacts
    <2>4. /\ heap' = km_initblock(h, Remainder(c), (z - t) % Word)
          /\ call' = [c EXCEPT !.at = "place"]
      BY <1>2, <1>4, <1>5, <1>7, <1>9 DEF Splits
    <2>5. Remainder(c) = b + t
      BY <1>2, <1>4, <2>3 DEF Remainder
    <2>6. PICK g : g = heap'
      OBVIOUS
    <2>7. InitBlockIs(h, b + t, SizeOf(h, b) - t, g)
      BY <1>5, <2>3, <2>4, <2>5, <2>6 DEF InitBlockIs
    <2>8. /\ Becomes(h, g, U, X, (U \cup X) \ {b}) /\ SizeOf(g, b) = SizeOf(h, b)
          /\ Cutting(g, b, t) /\ SameWords(h, g, b, t)
      BY <1>1, <2>1, <2>7, CutBegins
    <2> QED
      BY <1>2, <1>4, <2>4, <2>6, <2>8
  <1> QED
    BY <1>8, <1>9

\* What a client finds in a block that was resized in place: what it had written to it.
Shortens(o, m, e) ==
    /\ e \in Entries /\ e.asked = m
    /\ e.written <= m /\ e.written <= o.written /\ e.value = o.value

\* That is what the ledger says of the block from then on.
LEMMA ResizedEntry ==
    ASSUME NEW h, NEW g, NEW p \in Nat, NEW b \in Nat, b = p - Header,
           NEW o, Entry(h, p, o), NEW m \in Nat, NEW t \in Nat, m + Alignment <= t,
           SizeOf(g, b) \in Nat, t <= SizeOf(g, b), SameWords(h, g, b, t),
           NEW e, Shortens(o, m, e)
    PROVE  Entry(g, p, e)
  <1>1. PICK i \in Nat : i = e.written
    BY DEF Shortens, Entries
  <1>2. PICK j \in Nat : j = o.written
    BY DEF Entry, Entries
  <1>3. i <= m /\ i <= j /\ e.asked = m /\ e.value = o.value /\ e \in Entries
    BY <1>1, <1>2 DEF Shortens
  <1>4. \A w \in WordsOf(p, j) : h.mem[w] = o.value
    BY <1>2 DEF Entry
  <1>5. Alignment \in Nat /\ Alignment > 0 /\ p = b + Alignment /\ Header = Alignment
    BY Begins DEF Header
  <1>6. ASSUME NEW w \in WordsOf(p, i) PROVE g.mem[w] = e.value
    <2>1. w \in Addresses /\ w \in Nat /\ p <= w /\ w < p + i
      BY AddressFacts DEF WordsOf
    <2>2. b < w /\ w < b + t /\ w < p + j
      BY <1>3, <1>5, <2>1
    <2>3. g.mem[w] = h.mem[w]
      BY <2>1, <2>2 DEF SameWords
    <2>4. w \in WordsOf(p, j)
      BY <2>1, <2>2 DEF WordsOf
    <2> QED
      BY <1>3, <1>4, <2>3, <2>4
  <1>7. m <= SizeOf(g, p - Header) - Header
    BY <1>5
  <1> QED
    BY <1>1, <1>3, <1>6, <1>7 DEF Entry

\* The ledger's entry after krealloc().
LEMMA KeptFacts ==
    ASSUME NEW p, NEW o, o = live[p], o \in Entries, NEW m \in Nat
    PROVE  Shortens(o, m, Kept(p, m))
  <1>1. o.written \in Nat /\ o.value \in Values \cup {Junk}
    BY DEF Entries
  <1>2. PICK x : x = Min({m, o.written})
    OBVIOUS
  <1>3. x \in Nat /\ x <= m /\ x <= o.written
    <2>1. {m, o.written} \subseteq Nat /\ {m, o.written} # {}
      BY <1>1
    <2>2. x \in {m, o.written} /\ \A y \in {m, o.written} : x <= y
      BY <1>2, <2>1, LeastNumber
    <2> QED
      BY <2>1, <2>2
  <1>4. Kept(p, m) = [asked |-> m, written |-> x, value |-> o.value]
    BY <1>2 DEF Kept
  <1> QED
    BY <1>1, <1>3, <1>4 DEF Shortens, Entries

\* A step that goes on from a sound state.
LEMMA SoundAfter ==
    ASSUME NEW h, NEW l, NEW c, Sound(h, l, c), h.halt = "none",
           NEW g, NEW k, NEW d \in Calls, NEW D, Untouched(l, k, D), Updated(g, k, D),
           Becomes(h, g, Heads(DOMAIN k), Pends(d), Heads(D)), CallOK(g, k, d)
    PROVE  Sound(g, k, d)
  <1>1. h \in Heaps /\ Agrees(h, l, Pends(c))
    BY DEF Sound
  <1>2. /\ g \in Heaps /\ g.halt = "none" /\ HeapOK(g, Heads(DOMAIN k), Pends(d))
        /\ Alone(h, g, Heads(D))
    BY DEF Becomes, Alone
  <1>3. Agrees(g, k, Pends(d))
    BY <1>1, <1>2, LedgerAgrees
  <1> QED
    BY <1>2, <1>3 DEF Sound

\* Only the call went on.
LEMMA SoundCall ==
    ASSUME NEW h, NEW l, NEW c, Sound(h, l, c), h.halt = "none",
           NEW d \in Calls, Pends(d) = Pends(c), CallOK(h, l, d)
    PROVE  Sound(h, l, d)
  BY DEF Sound

\* The facts that a step begins with.
LEMMA SoundFacts ==
    ASSUME NEW h, NEW l, NEW c, Sound(h, l, c), h.halt = "none"
    PROVE  /\ h \in Heaps /\ c \in Calls /\ CallOK(h, l, c) /\ DOMAIN l \subseteq Nat
           /\ HeapOK(h, Heads(DOMAIN l), Pends(c))
           /\ \A p \in DOMAIN l : /\ Entry(h, p, l[p]) /\ p \in Nat /\ p - Header \in Heads(DOMAIN l)
                                  /\ Block(h, p - Header, TRUE) /\ InUse(h, p - Header)
  <1>1. /\ h \in Heaps /\ c \in Calls /\ CallOK(h, l, c) /\ DOMAIN l \subseteq Nat
        /\ HeapOK(h, Heads(DOMAIN l), Pends(c)) /\ \A p \in DOMAIN l : Entry(h, p, l[p])
    BY DEF Sound, Agrees
  <1>2. ASSUME NEW p \in DOMAIN l
        PROVE  p \in Nat /\ p - Header \in Heads(DOMAIN l) /\ Block(h, p - Header, TRUE) /\ InUse(h, p - Header)
    <2>1. p \in Nat /\ p - Header \in Heads(DOMAIN l)
      BY <1>1, HeadFacts
    <2>2. Block(h, p - Header, TRUE)
      BY <1>1, <2>1 DEF HeapOK
    <2>3. InUse(h, p - Header)
      BY <2>2, HeadersKnown DEF Block, InUse
    <2> QED
      BY <2>1, <2>2, <2>3
  <1> QED
    BY <1>1, <1>2

\* A size that fits a word.
LEMMA FittingSize ==
    ASSUME NEW n \in Nat, FitsWord(n)
    PROVE  n % Word = n /\ TargetSize(n) \in Nat
  <1>1. /\ Alignment \in Nat /\ PageSize \in Nat \ {0} /\ Word \in Nat \ {0} /\ MemoryEnd \in Nat
    BY Begins, HeapAssumption
  <1>2. n < Word
    BY <1>1 DEF FitsWord
  <1> QED
    BY <1>1, <1>2, TargetFacts

\* A call asks for a new block.
LEMMA AllocatesWell ==
    ASSUME Sound(heap, live, call), Running, Pends(call) = {},
           NEW op \in {"malloc", "calloc", "move"}, NEW ptr \in Nat \cup {NULL},
           NEW n \in Nat, FitsWord(n),
           op = "move" => ptr \in DOMAIN live /\ SizeOf(heap, ptr - Header) < TargetSize(n),
           Allocates(op, ptr, n)
    PROVE  Sound(heap', live', call') /\ stats' = stats
  <1>1. /\ call' = [Idle EXCEPT !.at = "find", !.op = op, !.ptr = ptr, !.asked = n,
                                !.size = TargetSize(n)]
        /\ heap' = heap /\ live' = live /\ stats' = stats
    BY FittingSize DEF Allocates
  <1>2. PICK d : d = call'
    OBVIOUS
  <1>3. /\ d \in Calls /\ d.at = "find" /\ d.op = op /\ d.ptr = ptr /\ d.asked = n
        /\ d.size = TargetSize(n)
    BY <1>1, <1>2, FittingSize DEF Idle, Calls, Steps, Works
  <1>4. Pends(d) = {}
    BY <1>3 DEF Pends
  <1>5. Wants(heap, live, d)
    BY <1>3 DEF Wants
  <1>6. CallOK(heap, live, d)
    BY <1>3, <1>5 DEF CallOK
  <1>7. Sound(heap, live, d)
    BY <1>3, <1>4, <1>6, SoundCall DEF Running
  <1> QED
    BY <1>1, <1>2, <1>7

\* A call begins to free the block of a pointer.
LEMMA FreesWell ==
    ASSUME Sound(heap, live, call), Running, Pends(call) = {},
           NEW p \in DOMAIN live, NEW kept \in Nat \cup {NULL}, Frees(p, kept),
           stats \in [cnt : Int, bytes : Int]
    PROVE  Sound(heap', live', call') /\ stats' \in [cnt : Int, bytes : Int]
  <1>1. PICK U : U = Heads(DOMAIN live)
    OBVIOUS
  <1>2. PICK b : b = p - Header
    OBVIOUS
  <1>3. PICK h : h = heap
    OBVIOUS
  <1>4. PICK l : l = live
    OBVIOUS
  <1>5. /\ Sound(h, l, call) /\ h.halt = "none" /\ h \in Heaps /\ DOMAIN l \subseteq Nat
        /\ HeapOK(h, U, {}) /\ b \in U /\ InUse(h, b) /\ Block(h, b, TRUE) /\ p \in DOMAIN l
    <2>1. Sound(h, l, call) /\ h.halt = "none" /\ p \in DOMAIN l
      BY <1>3, <1>4 DEF Running
    <2>2. /\ h \in Heaps /\ DOMAIN l \subseteq Nat /\ HeapOK(h, Heads(DOMAIN l), Pends(call))
          /\ p - Header \in Heads(DOMAIN l) /\ InUse(h, p - Header) /\ Block(h, p - Header, TRUE)
      BY <2>1, SoundFacts
    <2> QED
      BY <1>1, <1>2, <1>4, <2>1, <2>2
  <1>6. /\ heap' = km_clearalloc(h, b)
        /\ stats' = [cnt |-> stats.cnt - 1, bytes |-> stats.bytes - Counted(h, b)]
        /\ live' = Without({p})
        /\ call' = [Idle EXCEPT !.at = "place", !.op = "free", !.ptr = kept, !.block = b]
    BY <1>2, <1>3, <1>5 DEF Frees
  <1>7. PICK D : D = DOMAIN l \ {p}
    OBVIOUS
  <1>8. PICK g : g = heap'
    OBVIOUS
  <1>9. PICK k : k = live'
    OBVIOUS
  <1>10. PICK d : d = call'
    OBVIOUS
  <1>11. DOMAIN k = D /\ Untouched(l, k, D) /\ Updated(g, k, D)
    BY <1>4, <1>6, <1>7, <1>9 DEF Without, Untouched, Updated
  <1>12. b \in Nat /\ SizeOf(h, b) \in Nat
    BY <1>5, BlockSize
  <1>13. d \in Calls /\ d.at = "place" /\ d.op = "free" /\ d.block = b
    BY <1>6, <1>10, <1>12 DEF Idle, Calls, Steps, Works
  <1>14. Pends(d) = {b}
    BY <1>13 DEF Pends
  <1>15. Heads(D) = U \ {b}
    BY <1>1, <1>2, <1>4, <1>5, <1>7, HeadFacts
  <1>16. Becomes(h, g, Heads(D), {b}, Heads(D))
    <2>1. Becomes(h, g, U \ {b}, {} \cup {b}, (U \cup {}) \ {b})
      BY <1>5, <1>6, <1>8, FreeBegins
    <2>2. {} \cup {b} = {b} /\ (U \cup {}) \ {b} = U \ {b}
      OBVIOUS
    <2> QED
      BY <1>15, <2>1, <2>2
  <1>17. CallOK(g, k, d)
    BY <1>13 DEF CallOK, Puts
  <1>18. Sound(g, k, d)
    BY <1>5, <1>11, <1>13, <1>14, <1>16, <1>17, SoundAfter
  <1>19. stats' \in [cnt : Int, bytes : Int]
    BY <1>6, <1>12 DEF Counted
  <1> QED
    BY <1>8, <1>9, <1>10, <1>18, <1>19

\* What a call wants is the same after a step that left the block it moves alone.
LEMMA WantsKept ==
    ASSUME NEW h, NEW l, NEW c, Wants(h, l, c), NEW g, NEW k, NEW d,
           d.op = c.op, d.ptr = c.ptr, d.asked = c.asked, d.size = c.size,
           c.op = "move" /\ c.ptr \in DOMAIN l =>
               c.ptr \in DOMAIN k /\ SizeOf(g, c.ptr - Header) = SizeOf(h, c.ptr - Header)
    PROVE  Wants(g, k, d)
  BY DEF Wants

\* The size of a client's block that was left alone.
LEMMA SizeKept ==
    ASSUME NEW h, NEW l, NEW c, Sound(h, l, c), h.halt = "none", NEW p \in DOMAIN l,
           NEW g \in Heaps, NEW K, Keeps(h, g, K), h.end <= g.end, p - Header \in K
    PROVE  SizeOf(g, p - Header) = SizeOf(h, p - Header)
  <1>1. h \in Heaps /\ Block(h, p - Header, TRUE)
    BY SoundFacts
  <1> QED
    BY <1>1, KeptBlock

\* The neighbours that a walk finds.
LEMMA NeighboursFound ==
    ASSUME NEW h \in Heaps
    PROVE  /\ \A i \in Nat : i <= Len(h.free) + 1 => Before(h.free, i) \in Nat \cup {NULL}
           /\ \A i \in 1..Len(h.free) : h.free[i] \in Nat
  <1>1. Len(h.free) \in Nat /\ \A i \in 1..Len(h.free) : h.free[i] \in Nat
    BY HeapFacts
  <1> QED
    BY <1>1 DEF Before

\* The walk of km_find().
LEMMA FindsWell ==
    ASSUME Sound(heap, live, call), FindBlock
    PROVE  Sound(heap', live', call')
  <1>1. PICK h : h = heap
    OBVIOUS
  <1>2. PICK l : l = live
    OBVIOUS
  <1>3. PICK c : c = call
    OBVIOUS
  <1>4. PICK d : d = call'
    OBVIOUS
  <1>5. Sound(h, l, c) /\ h.halt = "none" /\ c.at = "find" /\ heap' = h /\ live' = l
    BY <1>1, <1>2, <1>3 DEF FindBlock, At, Running
  <1>6. h \in Heaps /\ c \in Calls /\ CallOK(h, l, c)
    BY <1>5, SoundFacts
  <1>7. PICK i : i = SelectInSeq(heap.free, LAMBDA b : SizeOf(heap, b) >= call.size)
    OBVIOUS
  <1>16. d = [c EXCEPT !.at = "take", !.block = IF i = 0 THEN NULL ELSE h.free[i],
                      !.prev = Before(h.free, i)]
    BY <1>1, <1>3, <1>4, <1>7 DEF FindBlock
  <1>8. PICK n \in Nat : n = Len(h.free)
    BY <1>6, HeapFacts
  <1>9. i = 0 \/ (i \in 1..n /\ SizeOf(h, h.free[i]) >= c.size)
    <2>1. PICK I : I = {j \in 1..n : SizeOf(h, h.free[j]) >= c.size}
      OBVIOUS
    <2>2. i = IF I # {} THEN Min(I) ELSE 0
      BY <1>1, <1>3, <1>7, <1>8, <2>1 DEF SelectInSeq
    <2>3. I \subseteq Nat
      BY <2>1
    <2>4. I = {} \/ Min(I) \in I
      BY <2>3, LeastNumber
    <2> QED
      BY <2>1, <2>2, <2>4
  <1>10. (IF i = 0 THEN NULL ELSE h.free[i]) \in Nat \cup {NULL} /\ Before(h.free, i) \in Nat \cup {NULL}
    <2>1. i \in Nat /\ i <= Len(h.free) + 1
      BY <1>8, <1>9
    <2>2. i = 0 \/ i \in 1..Len(h.free)
      BY <1>8, <1>9
    <2> QED
      BY <1>6, <2>1, <2>2, NeighboursFound
  <1>11. /\ d \in Calls /\ d.at = "take" /\ d.op = c.op /\ d.ptr = c.ptr /\ d.asked = c.asked
         /\ d.size = c.size /\ d.block = (IF i = 0 THEN NULL ELSE h.free[i]) /\ d.prev = Before(h.free, i)
    BY <1>6, <1>16, <1>10 DEF Calls, Steps
  <1>12. Wants(h, l, c) /\ Wants(h, l, d)
    <2>1. Wants(h, l, c)
      BY <1>5, <1>6 DEF CallOK
    <2> QED
      BY <1>11, <2>1, WantsKept DEF Wants
  <1>13. Takes(h, l, d)
    <2>1. CASE i = 0
      BY <1>11, <1>12, <2>1 DEF Takes
    <2>2. CASE i # 0
      <3>1. i \in 1..Len(h.free) /\ d.block = h.free[i] /\ d.prev = Before(h.free, i)
        BY <1>8, <1>9, <1>11, <2>2
      <3>2. Found(h, d.block, d.prev)
        BY <3>1 DEF Found
      <3>3. d.size <= SizeOf(h, d.block)
        <4>1. SizeOf(h, h.free[i]) >= c.size
          BY <1>9, <2>2
        <4> QED
          BY <1>11, <3>1, <4>1
      <3> QED
        BY <1>12, <3>2, <3>3 DEF Takes
    <2> QED
      BY <2>1, <2>2
  <1>14. CallOK(h, l, d) /\ Pends(d) = {} /\ Pends(c) = {}
    BY <1>5, <1>11, <1>13 DEF CallOK, Pends
  <1>15. Sound(h, l, d)
    BY <1>5, <1>11, <1>14, SoundCall
  <1> QED
    BY <1>4, <1>5, <1>15

\* A new block that has been found or made is split.
LEMMA TakenSplits ==
    ASSUME NEW h, NEW l, NEW c, Sound(h, l, c), h.halt = "none", Wants(h, l, c),
           NEW U, U = Heads(DOMAIN l), NEW b \in Nat, NEW e, Becomes(h, e, U, {b}, U),
           c.size <= SizeOf(e, b),
           NEW a, a = [c EXCEPT !.block = b, !.prev = NULL], Splits(e, a)
    PROVE  Sound(heap', l, call')
  <1>1. /\ h \in Heaps /\ c \in Calls /\ HeapOK(h, U, Pends(c)) /\ DOMAIN l \subseteq Nat
        /\ \A p \in DOMAIN l : p - Header \in U
    BY SoundFacts
  <1>2. /\ a \in Calls /\ a.op = c.op /\ a.ptr = c.ptr /\ a.asked = c.asked
        /\ a.size = c.size /\ a.block = b
    BY <1>1 DEF Calls
  <1>3. /\ a.op \in {"malloc", "calloc", "move"} /\ FitsWord(a.asked) /\ a.size = TargetSize(a.asked)
    BY <1>2 DEF Wants
  <1>4. /\ e \in Heaps /\ e.halt = "none" /\ HeapOK(e, U, {b}) /\ h.end <= e.end /\ Keeps(h, e, U)
    BY DEF Becomes
  <1>5. CanSplit(e, U, {b}, a)
    BY <1>2, <1>3, <1>4 DEF CanSplit
  <1>6. PICK g : g = heap'
    OBVIOUS
  <1>7. PICK d : d = call'
    OBVIOUS
  <1>8. b \notin U /\ (U \cup {b}) \ {b} = U
    BY <1>4, UsedOrPending
  <1>9. /\ Becomes(e, g, U, {b}, U) /\ c.size <= SizeOf(g, b)
        /\ \/ d = [a EXCEPT !.at = "mark"]
           \/ d = [a EXCEPT !.at = "place"] /\ Cutting(g, b, a.size)
    <2>1. /\ Becomes(e, g, U, {b}, (U \cup {b}) \ {a.block}) /\ a.size <= SizeOf(g, a.block)
          /\ \/ d = IF a.op = "resize" THEN Idle ELSE [a EXCEPT !.at = "mark"]
             \/ d = [a EXCEPT !.at = "place"] /\ Cutting(g, a.block, a.size)
      BY ONLY <1>5, <1>6, <1>7, Splits(e, a), SplitsWell
    <2> QED
      BY <1>2, <1>3, <1>8, <2>1
  <1>10. Becomes(h, g, U, {b}, U)
    <2>1. h \in Heaps /\ HeapOK(h, U, Pends(c)) /\ U \subseteq U \cup Pends(c) /\ U \subseteq U
      BY <1>1
    <2> QED
      BY ONLY <1>9, <2>1, Becomes(h, e, U, {b}, U), BecomesTwice
  <1>11. /\ d \in Calls /\ d.at \in {"mark", "place"} /\ d.op = c.op /\ d.ptr = c.ptr
         /\ d.asked = c.asked /\ d.size = c.size /\ d.block = b
         /\ d.at = "place" => Cutting(g, d.block, d.size)
    <2>1. "mark" \in Steps /\ "place" \in Steps
      BY DEF Steps
    <2>2. CASE d = [a EXCEPT !.at = "mark"]
      <3>1. /\ d \in Calls /\ d.at = "mark" /\ d.op = a.op /\ d.ptr = a.ptr /\ d.asked = a.asked
            /\ d.block = a.block /\ d.size = a.size
        BY ONLY <2>1, <2>2, <1>2, CallMoved
      <3> QED
        BY <1>2, <3>1
    <2>3. CASE d = [a EXCEPT !.at = "place"] /\ Cutting(g, b, a.size)
      <3>1. /\ d \in Calls /\ d.at = "place" /\ d.op = a.op /\ d.ptr = a.ptr /\ d.asked = a.asked
            /\ d.block = a.block /\ d.size = a.size
        BY ONLY <2>1, <2>3, <1>2, CallMoved
      <3> QED
        BY <1>2, <2>3, <3>1
    <2> QED
      BY <1>9, <2>2, <2>3
  <1>12. Wants(g, l, d)
    <2>1. g \in Heaps /\ Keeps(h, g, U) /\ h.end <= g.end
      BY <1>10 DEF Becomes
    <2>2. c.ptr \in DOMAIN l => SizeOf(g, c.ptr - Header) = SizeOf(h, c.ptr - Header)
      BY <1>1, <2>1, SizeKept
    <2> QED
      BY <1>11, <2>2, WantsKept
  <1>13. CallOK(g, l, d) /\ Pends(d) = {b}
    <2>1. d.op # "resize" /\ d.op # "free"
      BY <1>2, <1>3, <1>11
    <2>2. Pends(d) = {b}
      BY <1>11, <2>1 DEF Pends
    <2>3. d.at = "place" => Puts(g, l, d)
      BY <1>11, <1>12 DEF Puts
    <2>4. d.size <= SizeOf(g, d.block)
      BY <1>9, <1>11
    <2> QED
      BY <1>11, <1>12, <2>2, <2>3, <2>4 DEF CallOK
  <1>14. Untouched(l, l, DOMAIN l) /\ Updated(g, l, DOMAIN l)
    BY DEF Untouched, Updated
  <1>15. Sound(g, l, d)
    BY <1>10, <1>11, <1>13, <1>14, SoundAfter
  <1> QED
    BY <1>6, <1>7, <1>15

\* The stores of km_find(), or a new block, and the beginning of km_split().
LEMMA TakesWell ==
    ASSUME Sound(heap, live, call), TakeBlock
    PROVE  Sound(heap', live', call')
  <1>1. PICK h : h = heap
    OBVIOUS
  <1>2. PICK l : l = live
    OBVIOUS
  <1>3. PICK c : c = call
    OBVIOUS
  <1>4. PICK U : U = Heads(DOMAIN l)
    OBVIOUS
  <1>5. Sound(h, l, c) /\ h.halt = "none" /\ c.at = "take" /\ live' = l
    BY <1>1, <1>2, <1>3 DEF TakeBlock, At, Running
  <1>6. /\ h \in Heaps /\ c \in Calls /\ CallOK(h, l, c) /\ HeapOK(h, U, Pends(c))
        /\ Pends(c) = {}
    BY <1>4, <1>5, SoundFacts DEF Pends
  <1>7. Takes(h, l, c) /\ Wants(h, l, c) /\ FitsWord(c.asked) /\ c.size = TargetSize(c.asked)
    BY <1>5, <1>6 DEF CallOK, Takes, Wants
  <1>8. PICK m \in Nat : m = c.asked
    BY <1>6 DEF Calls
  <1>9. PICK t \in Nat : t = c.size /\ t > 0 /\ MemoryEnd + t + PageSize <= Word
    <2>1. TargetSize(m) \in Nat /\ TargetSize(m) > 0 /\ MemoryEnd + TargetSize(m) + PageSize <= Word
      BY <1>7, <1>8, TargetFacts
    <2> QED
      BY <1>7, <1>8, <2>1
  <1>10. CASE c.block = NULL
    <2>1. PICK e : e = km_extend(h, t)
      OBVIOUS
    <2>2. IF e.halt # "none" THEN heap' = e /\ call' = c
          ELSE Splits(e, [c EXCEPT !.block = h.end, !.prev = NULL])
      BY <1>1, <1>3, <1>9, <1>10, <2>1 DEF TakeBlock
    <2>3. CASE e \in Heaps /\ e.halt = "oom"
      <3>1. heap' = e /\ call' = c
        BY <2>2, <2>3
      <3>2. Agrees(e, l, Pends(c))
        <4>1. Agrees(h, l, Pends(c))
          BY <1>5 DEF Sound
        <4> QED
          BY <2>3, <4>1 DEF Agrees
      <3> QED
        BY <1>5, <1>6, <2>3, <3>1, <3>2 DEF Sound
    <2>4. CASE Becomes(h, e, U, {h.end}, U) /\ t <= SizeOf(e, h.end) /\ h.end \in Nat
      <3>1. e.halt = "none"
        BY <2>4 DEF Becomes
      <3>2. Splits(e, [c EXCEPT !.block = h.end, !.prev = NULL])
        BY <2>2, <3>1
      <3>3. PICK b \in Nat : b = h.end
        BY <2>4
      <3>4. PICK a : a = [c EXCEPT !.block = b, !.prev = NULL]
        OBVIOUS
      <3>5. Becomes(h, e, U, {b}, U) /\ c.size <= SizeOf(e, b) /\ Splits(e, a)
        BY <1>9, <2>4, <3>2, <3>3, <3>4
      <3>6. Sound(heap', l, call')
        BY ONLY <1>4, <1>5, <1>7, <3>4, <3>5, b \in Nat, TakenSplits
      <3> QED
        BY <1>5, <3>6
    <2>5. \/ e \in Heaps /\ e.halt = "oom"
          \/ Becomes(h, e, U, {h.end}, U) /\ t <= SizeOf(e, h.end) /\ h.end \in Nat
      BY <1>5, <1>6, <1>9, <2>1, ExtendHeap
    <2> QED
      BY <2>3, <2>4, <2>5
  <1>11. CASE c.block # NULL
    <2>1. PICK b \in Nat : b = c.block
      BY <1>6, <1>11 DEF Calls
    <2>2. Found(h, b, c.prev) /\ c.size <= SizeOf(h, b)
      BY <1>7, <1>11, <2>1 DEF Takes
    <2>3. PICK e : e = km_unlink(h, c.prev, b)
      OBVIOUS
    <2>4. Becomes(h, e, U, {b}, U) /\ SizeOf(e, b) = SizeOf(h, b)
      BY <1>5, <1>6, <2>2, <2>3, TakeFree
    <2>5. IF e.halt # "none" THEN heap' = e /\ call' = c
          ELSE Splits(e, [c EXCEPT !.block = b, !.prev = NULL])
      BY <1>1, <1>3, <1>11, <2>1, <2>3 DEF TakeBlock
    <2>6. PICK a : a = [c EXCEPT !.block = b, !.prev = NULL]
      OBVIOUS
    <2>7. Splits(e, a) /\ c.size <= SizeOf(e, b)
      BY <2>2, <2>4, <2>5, <2>6 DEF Becomes
    <2>8. Sound(heap', l, call')
      BY ONLY <1>4, <1>5, <1>7, <2>4, <2>6, <2>7, b \in Nat, TakenSplits
    <2> QED
      BY <1>5, <2>8
  <1> QED
    BY <1>10, <1>11

\* A client's block that is large enough is split.
LEMMA FitSplits ==
    ASSUME NEW h, NEW l, NEW c, Sound(h, l, c), h.halt = "none", NEW U, U = Heads(DOMAIN l),
           NEW p \in DOMAIN l, NEW b, b = p - Header,
           NEW e, Becomes(h, e, U, {}, U \ {b}), SameWords(h, e, b, e.end),
           NEW a \in Calls, a.op = "resize", a.ptr = p, a.block = b, FitsWord(a.asked),
           a.size = TargetSize(a.asked), a.size <= SizeOf(e, b), Splits(e, a),
           NEW k, DOMAIN k = DOMAIN l, Untouched(l, k, DOMAIN l \ {p}),
           Shortens(l[p], a.asked, k[p])
    PROVE  Sound(heap', k, call')
  <1>1. /\ h \in Heaps /\ HeapOK(h, U, Pends(c)) /\ DOMAIN l \subseteq Nat
        /\ Entry(h, p, l[p]) /\ b \in U /\ p \in Nat /\ Block(h, b, TRUE)
    BY SoundFacts
  <1>2. /\ e \in Heaps /\ e.halt = "none" /\ HeapOK(e, U, {}) /\ h.end <= e.end
    BY DEF Becomes
  <1>3. CanSplit(e, U, {}, a)
    BY <1>1, <1>2 DEF CanSplit
  <1>4. PICK g : g = heap'
    OBVIOUS
  <1>5. PICK d : d = call'
    OBVIOUS
  <1>6. PICK t : t = a.size
    OBVIOUS
  <1>7. PICK K : K = U \ {b}
    OBVIOUS
  <1>8. /\ Becomes(e, g, U, {}, K) /\ SameWords(e, g, b, t) /\ t <= SizeOf(g, b)
        /\ d = Idle \/ (d = [a EXCEPT !.at = "place"] /\ Cutting(g, b, t))
    <2>1. /\ Becomes(e, g, U, {}, (U \cup {}) \ {a.block}) /\ SameWords(e, g, a.block, a.size)
          /\ a.size <= SizeOf(g, a.block)
          /\ \/ d = IF a.op = "resize" THEN Idle ELSE [a EXCEPT !.at = "mark"]
             \/ d = [a EXCEPT !.at = "place"] /\ Cutting(g, a.block, a.size)
      BY ONLY <1>3, <1>4, <1>5, Splits(e, a), SplitsWell
    <2>2. (U \cup {}) \ {b} = K
      BY <1>7
    <2> QED
      BY <1>6, <2>1, <2>2
  <1>9. Becomes(h, g, U, {}, K)
    <2>1. h \in Heaps /\ HeapOK(h, U, Pends(c)) /\ K \subseteq U \cup Pends(c) /\ K \subseteq K
      BY <1>1, <1>7
    <2>2. Becomes(h, e, U, {}, K)
      BY <1>7
    <2> QED
      BY ONLY <1>8, <2>1, <2>2, BecomesTwice
  <1>10. PICK m \in Nat : m = a.asked
    BY DEF Calls
  <1>11. t \in Nat /\ m + Alignment <= t
    <2>1. TargetSize(m) \in Nat /\ m + Alignment <= TargetSize(m)
      BY <1>10, TargetFacts
    <2> QED
      BY <1>6, <1>10, <2>1
  <1>12. SameWords(h, g, b, t)
    <2>1. ASSUME NEW w \in Addresses, b < w, w < b + t PROVE g.mem[w] = h.mem[w]
      <3>1. g.mem[w] = e.mem[w]
        BY <1>8, <2>1 DEF SameWords
      <3>2. w < b + e.end
        <4>1. Block(e, b, TRUE) /\ b \in Nat /\ w \in Nat /\ e.end \in Nat
          BY <1>1, <1>2, BlockSize, AddressFacts, HeapFacts DEF HeapOK
        <4>2. SizeOf(e, b) \in Nat /\ b + SizeOf(e, b) <= e.end
          BY <1>2, <4>1, BlockSize
        <4>3. t <= SizeOf(e, b)
          BY <1>6
        <4> QED
          BY <1>11, <2>1, <4>1, <4>2, <4>3
      <3>3. e.mem[w] = h.mem[w]
        BY <2>1, <3>2 DEF SameWords
      <3> QED
        BY <3>1, <3>3
    <2> QED
      BY <2>1 DEF SameWords
  <1>13. Entry(g, p, k[p])
    <2>1. g \in Heaps /\ Block(g, b, TRUE) /\ b \in Nat
      BY <1>1, <1>9, BlockSize DEF Becomes, HeapOK
    <2>2. SizeOf(g, b) \in Nat
      BY <2>1, BlockSize
    <2>3. Shortens(l[p], m, k[p])
      BY <1>10
    <2> QED
      BY ONLY b = p - Header, <1>1, <1>8, <1>11, <1>12, m \in Nat, <2>1, <2>2, <2>3, ResizedEntry
  <1>14. PICK D : D = DOMAIN l \ {p}
    OBVIOUS
  <1>15. Untouched(l, k, D) /\ Updated(g, k, D)
    BY <1>1, <1>13, <1>14 DEF Updated
  <1>16. Heads(D) = K
    BY <1>1, <1>7, <1>14, HeadFacts
  <1>17. d \in Calls /\ Pends(d) = {} /\ CallOK(g, k, d)
    <2>1. CASE d = Idle
      BY <2>1, IdleFacts
    <2>2. CASE d = [a EXCEPT !.at = "place"] /\ Cutting(g, b, t)
      <3>1. "place" \in Steps
        BY DEF Steps
      <3>2. /\ d \in Calls /\ d.at = "place" /\ d.op = a.op /\ d.ptr = a.ptr /\ d.asked = a.asked
            /\ d.block = a.block /\ d.size = a.size
        BY ONLY <2>2, <3>1, a \in Calls, CallMoved
      <3>3. Fitting(k, d)
        BY <3>2 DEF Fitting
      <3>4. k[d.ptr].asked = d.asked
        BY <3>2 DEF Shortens
      <3>5. Puts(g, k, d)
        BY <1>6, <2>2, <3>2, <3>3, <3>4 DEF Puts
      <3> QED
        BY <3>2, <3>5 DEF CallOK, Pends
    <2> QED
      BY <1>8, <2>1, <2>2
  <1>18. Becomes(h, g, Heads(DOMAIN k), Pends(d), Heads(D))
    BY <1>9, <1>16, <1>17
  <1>19. Sound(g, k, d)
    BY <1>15, <1>17, <1>18, SoundAfter
  <1> QED
    BY <1>4, <1>5, <1>19

\* The ledger after krealloc() in place.
LEMMA LedgerKeeps ==
    ASSUME NEW p \in DOMAIN live, NEW l, l = live, NEW n \in Nat, l[p] \in Entries,
           NEW k, k = With(p, Kept(p, n))
    PROVE  /\ DOMAIN k = DOMAIN l /\ Untouched(l, k, DOMAIN l \ {p}) /\ Shortens(l[p], n, k[p])
  <1>1. Shortens(l[p], n, Kept(p, n))
    BY KeptFacts
  <1>2. DOMAIN k = DOMAIN l /\ k[p] = Kept(p, n) /\ \A q \in DOMAIN l \ {p} : k[q] = l[q]
    BY DEF With
  <1> QED
    BY <1>1, <1>2 DEF Untouched

\* krealloc() takes the block behind in.
LEMMA GrowsWell ==
    ASSUME Sound(heap, live, call), GrowBlock
    PROVE  Sound(heap', live', call')
  <1>1. PICK h : h = heap
    OBVIOUS
  <1>2. PICK l : l = live
    OBVIOUS
  <1>3. PICK c : c = call
    OBVIOUS
  <1>4. PICK U : U = Heads(DOMAIN l)
    OBVIOUS
  <1>5. Sound(h, l, c) /\ h.halt = "none" /\ c.at = "grow"
    BY <1>1, <1>2, <1>3 DEF GrowBlock, At, Running
  <1>6. /\ h \in Heaps /\ c \in Calls /\ CallOK(h, l, c) /\ HeapOK(h, U, Pends(c))
        /\ Pends(c) = {} /\ DOMAIN l \subseteq Nat
    BY <1>4, <1>5, SoundFacts DEF Pends
  <1>7. /\ Grows(h, l, c) /\ c.op = "resize" /\ c.ptr \in DOMAIN l /\ c.block = c.ptr - Header
        /\ FitsWord(c.asked) /\ c.size = TargetSize(c.asked)
    BY <1>5, <1>6 DEF CallOK, Grows, Fitting
  <1>8. PICK b : b = c.block
    OBVIOUS
  <1>9. PICK p : p = c.ptr /\ p \in DOMAIN l /\ b = p - Header
    BY <1>7, <1>8
  <1>10. Entry(h, p, l[p]) /\ b \in U /\ p \in Nat /\ Block(h, b, TRUE)
    BY <1>4, <1>5, <1>9, SoundFacts
  <1>11. PICK x : /\ x = c.next /\ Found(h, x, c.prev) /\ x = b + SizeOf(h, b)
                  /\ c.size <= SizeOf(h, b) + SizeOf(h, x)
    BY <1>7, <1>8 DEF Grows
  <1>12. PICK i : i = km_unlink(h, c.prev, x)
    OBVIOUS
  <1>13. PICK e : e = km_setsize(i, b, SizeOf(i, b) + SizeOf(i, x))
    OBVIOUS
  <1>14. /\ Becomes(h, e, U, {}, U \ {b}) /\ i.halt = "none"
         /\ SizeOf(e, b) = SizeOf(h, b) + SizeOf(h, x)
         /\ \A w \in Addresses : w # b => e.mem[w] = h.mem[w]
    <2>1. HeapOK(h, U, {}) /\ h \in Heaps /\ h.halt = "none" /\ b \in U
      BY <1>5, <1>6, <1>10
    <2>2. x = b + SizeOf(h, b) /\ Found(h, x, c.prev)
      BY <1>11
    <2>3. PICK v : v = c.prev
      OBVIOUS
    <2>4. i = km_unlink(h, v, x) /\ Found(h, x, v)
      BY <1>12, <2>2, <2>3
    <2> QED
      BY ONLY <1>13, <2>1, <2>2, <2>4, JoinBehind, SMTT(60)
  <1>15. PICK a : a = [c EXCEPT !.prev = NULL, !.next = NULL]
    OBVIOUS
  <1>16. Splits(e, a) /\ live' = With(p, Kept(p, c.asked))
    BY <1>1, <1>3, <1>8, <1>9, <1>11, <1>12, <1>13, <1>14, <1>15 DEF GrowBlock
  <1>17. /\ a \in Calls /\ a.op = "resize" /\ a.ptr = p /\ a.block = b /\ a.asked = c.asked
         /\ a.size = c.size
    BY <1>6, <1>7, <1>8, <1>9, <1>15 DEF Calls
  <1>18. SameWords(h, e, b, e.end)
    <2>1. \A w \in Addresses : b < w => w # b
      BY <1>6, <1>10, BlockSize, AddressFacts
    <2> QED
      BY <1>14, <2>1 DEF SameWords
  <1>19. PICK k : k = live'
    OBVIOUS
  <1>20. DOMAIN k = DOMAIN l /\ Untouched(l, k, DOMAIN l \ {p}) /\ Shortens(l[p], c.asked, k[p])
    <2>1. c.asked \in Nat /\ l[p] \in Entries
      BY <1>6, <1>10 DEF Calls, Entry
    <2> QED
      BY <1>2, <1>9, <1>16, <1>19, <2>1, LedgerKeeps
  <1>21. FitsWord(a.asked) /\ a.size = TargetSize(a.asked) /\ a.size <= SizeOf(e, b)
    BY <1>7, <1>11, <1>14, <1>17
  <1>22. Shortens(l[p], a.asked, k[p])
    BY <1>17, <1>20
  <1>23. Sound(heap', k, call')
    BY ONLY <1>4, <1>5, <1>9, <1>14, <1>16, <1>17, <1>18, <1>20, <1>21, <1>22, FitSplits
  <1> QED
    BY <1>19, <1>23

\* krealloc() finds the block large enough, or the one behind it free, or asks for a new one.
LEMMA ResizesWell ==
    ASSUME Sound(heap, live, call), Running, Pends(call) = {}, NEW p \in DOMAIN live,
           NEW n \in Nat, FitsWord(n), Resizes(p, n)
    PROVE  Sound(heap', live', call') /\ stats' = stats
  <1>1. PICK h : h = heap
    OBVIOUS
  <1>2. PICK l : l = live
    OBVIOUS
  <1>3. PICK U : U = Heads(DOMAIN l)
    OBVIOUS
  <1>4. PICK b : b = p - Header
    OBVIOUS
  <1>5. Sound(h, l, call) /\ h.halt = "none" /\ p \in DOMAIN l
    BY <1>1, <1>2 DEF Running
  <1>6. /\ h \in Heaps /\ HeapOK(h, U, {}) /\ DOMAIN l \subseteq Nat
        /\ Entry(h, p, l[p]) /\ b \in U /\ p \in Nat /\ Block(h, b, TRUE) /\ InUse(h, b)
    <2>1. /\ h \in Heaps /\ HeapOK(h, Heads(DOMAIN l), Pends(call)) /\ DOMAIN l \subseteq Nat
          /\ Entry(h, p, l[p]) /\ p - Header \in Heads(DOMAIN l) /\ p \in Nat
          /\ Block(h, p - Header, TRUE) /\ InUse(h, p - Header)
      BY <1>5, SoundFacts
    <2> QED
      BY <1>3, <1>4, <2>1
  <1>7. PICK c : c = [Idle EXCEPT !.op = "resize", !.ptr = p, !.asked = n,
                                 !.block = b, !.size = TargetSize(n)]
    OBVIOUS
  <1>8. PICK t \in Nat : t = TargetSize(n)
    BY FittingSize
  <1>9. /\ c \in Calls /\ c.op = "resize" /\ c.ptr = p /\ c.asked = n /\ c.block = b /\ c.size = t
        /\ b \in Nat
    <2>1. b \in Nat
      BY <1>6, BlockSize
    <2> QED
      BY <1>6, <1>7, <1>8, <2>1 DEF Idle, Calls, Steps, Works
  <1>10. PICK z \in Nat : z = SizeOf(h, b)
    BY <1>6, BlockSize
  <1>11. PICK x : x = b + z
    OBVIOUS
  <1>12. PICK i : i = Index(h.free, x)
    OBVIOUS
  <1>13. IF z >= t THEN Splits(h, c) /\ live' = With(p, Kept(p, n)) /\ stats' = stats
         ELSE IF x < h.end /\ ~h.mem[x].alloc /\ z + SizeOf(h, x) >= t
         THEN IF i = 0 THEN Panics("assert")
              ELSE /\ call' = [c EXCEPT !.at = "grow", !.prev = Before(h.free, i), !.next = x]
                   /\ heap' = h /\ stats' = stats /\ live' = l
         ELSE Allocates("move", p, n)
    BY <1>1, <1>2, <1>4, <1>6, <1>7, <1>8, <1>10, <1>11, <1>12 DEF Resizes, Idle
  <1>14. CASE z >= t
    <2>1. Splits(h, c) /\ live' = With(p, Kept(p, n)) /\ stats' = stats
      BY <1>13, <1>14
    <2>2. PICK k : k = live'
      OBVIOUS
    <2>3. DOMAIN k = DOMAIN l /\ Untouched(l, k, DOMAIN l \ {p}) /\ Shortens(l[p], n, k[p])
      <3>1. l[p] \in Entries
        BY <1>6 DEF Entry
      <3> QED
        BY <1>2, <1>5, <2>1, <2>2, <3>1, LedgerKeeps
    <2>4. Becomes(h, h, U, {}, U \ {b})
      <3>1. h.end <= h.end
        BY <1>6, HeapFacts
      <3> QED
        BY <1>5, <1>6, <3>1 DEF Becomes, Keeps
    <2>5. SameWords(h, h, b, h.end)
      BY DEF SameWords
    <2>6. FitsWord(c.asked) /\ c.size = TargetSize(c.asked) /\ c.size <= SizeOf(h, b)
      BY <1>8, <1>9, <1>10, <1>14
    <2>7. Shortens(l[p], c.asked, k[p])
      BY <1>9, <2>3
    <2>8. Sound(heap', k, call')
      BY ONLY <1>3, <1>4, <1>5, <1>9, <2>1, <2>3, <2>4, <2>5, <2>6, <2>7, FitSplits
    <2> QED
      BY <2>1, <2>2, <2>8
  <1>15. CASE ~(z >= t) /\ x < h.end /\ ~h.mem[x].alloc /\ z + SizeOf(h, x) >= t
    <2>1. PICK j \in 1..Len(h.free) : h.free[j] = x
      <3>1. Tiles(h, U)
        <4>1. U \cup {} = U
          OBVIOUS
        <4> QED
          BY <1>6, <4>1 DEF HeapOK
      <3>2. x \in U \/ \E j \in 1..Len(h.free) : h.free[j] = x
        <4>1. x = b + SizeOf(h, b) /\ x < h.end /\ h \in Heaps /\ b \in U /\ Block(h, b, TRUE)
          BY <1>6, <1>10, <1>11, <1>15
        <4> QED
          BY ONLY <3>1, <4>1, Neighbour
      <3>3. x \notin U
        BY <1>6, <1>15 DEF HeapOK, Block
      <3> QED
        BY <3>2, <3>3
    <2>2. i = j /\ i # 0
      <3>1. FreeList(h)
        BY <1>6 DEF HeapOK, Tiles
      <3>2. h.free \in Seq(Addresses) /\ \A u, v \in 1..Len(h.free) : h.free[u] = h.free[v] => u = v
        BY <1>6, <3>1, ListFacts
      <3>3. Index(h.free, h.free[j]) = j /\ j # 0
        BY <3>2, IndexFound
      <3> QED
        BY <1>12, <2>1, <3>3
    <2>3. /\ call' = [c EXCEPT !.at = "grow", !.prev = Before(h.free, i), !.next = x]
          /\ heap' = h /\ stats' = stats /\ live' = l
      BY <1>13, <1>15, <2>2
    <2>4. PICK d : d = call'
      OBVIOUS
    <2>5. Before(h.free, i) \in Nat \cup {NULL} /\ x \in Nat
      <3>1. i \in Nat /\ i <= Len(h.free) + 1 /\ Len(h.free) \in Nat
        BY <1>6, <2>1, <2>2, HeapFacts
      <3> QED
        BY <1>6, <1>9, <1>10, <1>11, <3>1, NeighboursFound
    <2>6. /\ d \in Calls /\ d.at = "grow" /\ d.op = "resize" /\ d.ptr = p /\ d.asked = n /\ d.block = b
          /\ d.size = t /\ d.prev = Before(h.free, i) /\ d.next = x
      BY <1>9, <2>3, <2>4, <2>5 DEF Calls, Steps
    <2>7. Found(h, x, d.prev)
      BY <2>1, <2>2, <2>6 DEF Found
    <2>8. d.size <= SizeOf(h, d.block) + SizeOf(h, d.next)
      <3>1. SizeOf(h, x) \in Nat
        <4>1. Sorted(h, {})
          BY <1>6 DEF HeapOK, Tiles, FreeList
        <4>2. Block(h, x, FALSE)
          BY <1>6, <2>1, <4>1, SortedFacts
        <4> QED
          BY <1>6, <4>2, BlockSize
      <3> QED
        BY <1>10, <1>15, <2>6, <3>1
    <2>9. Grows(h, l, d)
      BY <1>4, <1>5, <1>8, <1>10, <1>11, <2>6, <2>7, <2>8 DEF Grows, Fitting
    <2>10. CallOK(h, l, d) /\ Pends(d) = Pends(call)
      BY <2>6, <2>9 DEF CallOK, Pends
    <2>11. Sound(h, l, d)
      BY <1>5, <2>6, <2>10, SoundCall
    <2> QED
      BY <2>3, <2>4, <2>11
  <1>16. CASE ~(z >= t) /\ ~(x < h.end /\ ~h.mem[x].alloc /\ z + SizeOf(h, x) >= t)
    <2>1. Allocates("move", p, n)
      BY <1>13, <1>16
    <2>2. p \in DOMAIN live /\ SizeOf(heap, p - Header) < TargetSize(n) /\ p \in Nat \cup {NULL}
      BY <1>1, <1>4, <1>6, <1>8, <1>10, <1>16
    <2> QED
      BY <2>1, <2>2, AllocatesWell
  <1> QED
    BY <1>14, <1>15, <1>16

\* What is to be put into the free list.
LEMMA PutsFacts ==
    ASSUME NEW h, NEW l, NEW c, Sound(h, l, c), h.halt = "none", c.at \in {"place", "link"}
    PROVE  /\ Puts(h, l, c) /\ Inserts(c) \in Addresses /\ c.block \in Heads(DOMAIN l) \cup Pends(c)
           /\ c.op = "free" => Inserts(c) = c.block /\ Pends(c) = {c.block}
           /\ c.op # "free" => /\ Divides(h, c.block, c.size) /\ Cutting(h, c.block, c.size)
                               /\ Inserts(c) = c.block + c.size
  <1>1. /\ h \in Heaps /\ c \in Calls /\ HeapOK(h, Heads(DOMAIN l), Pends(c)) /\ CallOK(h, l, c)
        /\ \A p \in DOMAIN l : p - Header \in Heads(DOMAIN l)
    BY SoundFacts
  <1>2. Puts(h, l, c)
    BY <1>1 DEF CallOK
  <1>3. CASE c.op = "free"
    <2>1. Pends(c) = {c.block} /\ Inserts(c) = c.block
      BY <1>3 DEF Pends, Inserts
    <2>2. c.block \in Addresses
      BY <1>1, <2>1 DEF HeapOK, Block
    <2> QED
      BY <1>2, <1>3, <2>1, <2>2
  <1>4. CASE c.op # "free"
    <2>1. /\ FitsWord(c.asked) /\ c.size = TargetSize(c.asked) /\ Cutting(h, c.block, c.size)
          /\ c.op = "resize" => c.ptr \in DOMAIN l /\ c.block = c.ptr - Header
      BY <1>2, <1>4 DEF Puts, Wants, Fitting
    <2>2. PICK S : S = Heads(DOMAIN l) \cup Pends(c) /\ Tiles(h, S)
      BY <1>1 DEF HeapOK
    <2>3. PICK b \in S : b = c.block
      <3>1. CASE c.op = "resize"
        BY <1>1, <2>1, <2>2, <3>1
      <3>2. CASE c.op # "resize"
        BY <2>2, <3>2 DEF Pends
      <3> QED
        BY <3>1, <3>2
    <2>4. PICK m \in Nat : m = c.asked
      BY <1>1 DEF Calls
    <2>5. PICK t \in Nat : t = c.size /\ t > 0 /\ t % Alignment = 0
      <3>1. TargetSize(m) \in Nat /\ TargetSize(m) > 0 /\ TargetSize(m) % Alignment = 0
        BY <2>1, <2>4, TargetFacts
      <3> QED
        BY <2>1, <2>4, <3>1
    <2>6. Divides(h, b, t)
      BY <2>1, <2>3, <2>5 DEF Cutting, Divides
    <2>7. b + t \in Addresses /\ (b + t) % Word = b + t
      BY <1>1, <2>2, <2>6, RestFacts
    <2>8. Inserts(c) = b + t
      BY <1>4, <2>3, <2>5, <2>7 DEF Inserts, Remainder
    <2> QED
      BY <1>2, <1>4, <2>1, <2>2, <2>3, <2>5, <2>6, <2>7, <2>8
  <1> QED
    BY <1>3, <1>4

\* The walk of km_insert().
LEMMA PlacesWell ==
    ASSUME Sound(heap, live, call), FindPlace
    PROVE  Sound(heap', live', call')
  <1>1. PICK h : h = heap
    OBVIOUS
  <1>2. PICK l : l = live
    OBVIOUS
  <1>3. PICK c : c = call
    OBVIOUS
  <1>4. Sound(h, l, c) /\ h.halt = "none" /\ c.at = "place" /\ heap' = h /\ live' = l
    BY <1>1, <1>2, <1>3 DEF FindPlace, At, Running
  <1>5. PICK b : b = Inserts(c)
    OBVIOUS
  <1>6. h \in Heaps /\ c \in Calls /\ Puts(h, l, c) /\ b \in Addresses
    BY <1>4, <1>5, SoundFacts, PutsFacts
  <1>7. PICK i : i = Place(h.free, b)
    OBVIOUS
  <1>8. PICK x : x = Before(h.free, i)
    OBVIOUS
  <1>9. PICK y : y = IF i <= Len(h.free) THEN h.free[i] ELSE NULL
    OBVIOUS
  <1>10. PICK d : d = call'
    OBVIOUS
  <1>11. d = [c EXCEPT !.at = "link", !.prev = x, !.next = y]
    <2>1. ToInsert = b
      BY <1>3, <1>5 DEF ToInsert, Inserts
    <2> QED
      BY <1>1, <1>3, <1>7, <1>8, <1>9, <1>10, <2>1 DEF FindPlace
  <1>12. x \in Nat \cup {NULL} /\ y \in Nat \cup {NULL}
    <2>1. h.free \in Seq(Addresses) /\ Len(h.free) \in Nat
      BY <1>6, HeapFacts
    <2>2. i \in 1..(Len(h.free) + 1)
      BY <1>6, <1>7, <2>1, PlaceFound DEF Belongs
    <2> QED
      BY <1>6, <1>8, <1>9, <2>1, <2>2, NeighboursFound
  <1>13. /\ d \in Calls /\ d.at = "link" /\ d.op = c.op /\ d.ptr = c.ptr /\ d.asked = c.asked
         /\ d.size = c.size /\ d.block = c.block /\ d.prev = x /\ d.next = y
    BY <1>6, <1>11, <1>12 DEF Calls, Steps
  <1>14. Inserts(d) = b /\ Pends(d) = Pends(c)
    BY <1>4, <1>5, <1>13 DEF Inserts, Remainder, Pends
  <1>15. Between(h, Inserts(d), d.prev, d.next)
    BY <1>7, <1>8, <1>9, <1>13, <1>14 DEF Between
  <1>16. Puts(h, l, d)
    BY <1>6, <1>13 DEF Puts, Wants, Fitting
  <1>17. CallOK(h, l, d)
    BY <1>13, <1>15, <1>16 DEF CallOK
  <1>18. Sound(h, l, d)
    BY <1>4, <1>13, <1>14, <1>17, SoundCall
  <1> QED
    BY <1>4, <1>10, <1>18

\* The stores of km_insert(), and the end of km_split().
LEMMA LinksWell ==
    ASSUME Sound(heap, live, call), LinkBlock
    PROVE  Sound(heap', live', call')
  <1>1. PICK h : h = heap
    OBVIOUS
  <1>2. PICK l : l = live
    OBVIOUS
  <1>3. PICK c : c = call
    OBVIOUS
  <1>4. Sound(h, l, c) /\ h.halt = "none" /\ c.at = "link" /\ live' = l
    BY <1>1, <1>2, <1>3 DEF LinkBlock, At, Running
  <1>5. PICK U : U = Heads(DOMAIN l)
    OBVIOUS
  <1>6. /\ h \in Heaps /\ c \in Calls /\ HeapOK(h, U, Pends(c)) /\ CallOK(h, l, c)
        /\ DOMAIN l \subseteq Nat
        /\ \A p \in DOMAIN l : Entry(h, p, l[p]) /\ p \in Nat /\ p - Header \in U
    BY <1>4, <1>5, SoundFacts
  <1>7. PICK i : i = Inserts(c)
    OBVIOUS
  <1>8. PICK b : b = c.block
    OBVIOUS
  <1>9. PICK t : t = c.size
    OBVIOUS
  <1>10. /\ Puts(h, l, c) /\ i \in Addresses /\ b \in U \cup Pends(c)
         /\ c.op = "free" => i = b /\ Pends(c) = {b}
         /\ c.op # "free" => Divides(h, b, t) /\ Cutting(h, b, t) /\ i = b + t
    BY <1>4, <1>5, <1>7, <1>8, <1>9, PutsFacts
  <1>11. PICK e : e = km_insert(h, i)
    OBVIOUS
  <1>12. km_link(h, i, c.prev, c.next) = e
    <2>1. Between(h, i, c.prev, c.next)
      BY <1>4, <1>6, <1>7 DEF CallOK
    <2>2. FreeList(h)
      BY <1>6 DEF HeapOK, Tiles
    <2> QED
      BY <1>6, <1>10, <1>11, <2>1, <2>2, LinkIs
  <1>13. /\ heap' = IF c.op = "free" THEN e ELSE km_setsize(e, b, t)
         /\ call' = IF e.halt # "none" THEN c
                    ELSE IF c.op \in {"free", "resize"} THEN Idle
                    ELSE [c EXCEPT !.at = "mark", !.prev = NULL, !.next = NULL]
    <2>1. ToInsert = i
      BY <1>3, <1>7 DEF ToInsert, Inserts
    <2> QED
      BY <1>1, <1>3, <1>8, <1>9, <1>12, <2>1 DEF LinkBlock
  <1>14. PICK g : g = heap'
    OBVIOUS
  <1>15. PICK d : d = call'
    OBVIOUS
  <1>16. CASE c.op = "free"
    <2>1. Becomes(h, e, U, {}, U)
      <3>1. PICK X : X = {b} /\ X = Pends(c)
        BY <1>10, <1>16
      <3>2. Becomes(h, e, U, X \ {b}, (U \cup X) \ {b})
        BY <1>4, <1>6, <1>10, <1>11, <1>16, <3>1, FreeEnds
      <3>3. b \notin U
        BY <1>6, <3>1, UsedOrPending
      <3>4. X \ {b} = {} /\ (U \cup X) \ {b} = U
        BY <3>1, <3>3
      <3> QED
        BY <3>2, <3>4
    <2>2. g = e /\ d = Idle
      BY <1>13, <1>14, <1>15, <1>16, <2>1 DEF Becomes
    <2>3. Untouched(l, l, DOMAIN l) /\ Updated(g, l, DOMAIN l)
      BY DEF Untouched, Updated
    <2>4. Sound(g, l, d)
      BY <1>4, <1>5, <2>1, <2>2, <2>3, IdleFacts, SoundAfter
    <2> QED
      BY <1>4, <1>14, <1>15, <2>4
  <1>17. CASE c.op # "free"
    <2>1. g = km_setsize(e, b, t)
      BY <1>13, <1>14, <1>17
    <2>2. PICK X : X = Pends(c)
      OBVIOUS
    <2>3. /\ Becomes(h, g, U, X, (U \cup X) \ {b}) /\ t <= SizeOf(g, b)
          /\ e.halt = "none" /\ SameWords(h, g, b, t)
      <3>1. HeapOK(h, U, X) /\ b \in U \cup X /\ Divides(h, b, t) /\ Cutting(h, b, t) /\ e = km_insert(h, b + t)
        BY <1>6, <1>10, <1>11, <1>17, <2>2
      <3>2. h \in Heaps /\ h.halt = "none"
        BY <1>4, <1>6
      <3> QED
        BY ONLY <2>1, <3>1, <3>2, CutEnds, SMTT(60)
    <2>4. CASE c.op = "resize"
      <3>1. d = Idle /\ X = {}
        BY <1>13, <1>15, <2>2, <2>3, <2>4 DEF Pends
      <3>2. PICK p \in DOMAIN l : /\ p = c.ptr /\ b = p - Header /\ FitsWord(c.asked) /\ t = TargetSize(c.asked)
                                  /\ l[p].asked = c.asked
        BY <1>8, <1>9, <1>10, <2>4 DEF Puts, Wants, Fitting
      <3>3. PICK m \in Nat : m = c.asked
        BY <1>6 DEF Calls
      <3>4. t \in Nat /\ m + Alignment <= t
        BY <3>2, <3>3, TargetFacts
      <3>5. Entry(h, p, l[p]) /\ p \in Nat /\ b \in U
        BY <1>6, <3>2
      <3>6. Shortens(l[p], m, l[p])
        <4>1. l[p] \in Entries /\ l[p].written \in Nat /\ l[p].written <= l[p].asked
          BY <3>5 DEF Entry, Entries
        <4> QED
          BY <3>2, <3>3, <4>1 DEF Shortens
      <3>7. Entry(g, p, l[p])
        <4>1. Block(g, b, TRUE) /\ g \in Heaps
          BY <2>3, <3>5 DEF Becomes, HeapOK
        <4>2. SizeOf(g, b) \in Nat /\ b \in Nat
          BY <4>1, BlockSize
        <4> QED
          BY <2>3, <3>2, <3>4, <3>5, <3>6, <4>2, ResizedEntry
      <3>8. PICK D : D = DOMAIN l \ {p}
        OBVIOUS
      <3>9. Heads(D) = U \ {b}
        BY <1>5, <1>6, <3>2, <3>8, HeadFacts
      <3>10. Untouched(l, l, D) /\ Updated(g, l, D)
        BY <3>5, <3>7, <3>8 DEF Untouched, Updated
      <3>11. Becomes(h, g, U, {}, U \ {b})
        <4>1. (U \cup X) \ {b} = U \ {b}
          BY <3>1
        <4> QED
          BY <2>3, <3>1, <4>1
      <3>12. Sound(g, l, d)
        BY <1>4, <1>5, <3>1, <3>9, <3>10, <3>11, IdleFacts, SoundAfter
      <3> QED
        BY <1>4, <1>14, <1>15, <3>12
    <2>5. CASE c.op # "resize"
      <3>1. d = [c EXCEPT !.at = "mark", !.prev = NULL, !.next = NULL]
        BY <1>13, <1>15, <1>17, <2>3, <2>5
      <3>2. /\ d \in Calls /\ d.at = "mark" /\ d.op = c.op /\ d.ptr = c.ptr /\ d.asked = c.asked
            /\ d.size = t /\ d.block = b
        BY <1>6, <1>8, <1>9, <3>1 DEF Calls, Steps
      <3>3. X = {b} /\ Pends(d) = {b} /\ b \notin U
        <4>1. X = {b} /\ Pends(d) = {b}
          BY <1>4, <1>8, <2>2, <2>5, <3>2 DEF Pends
        <4> QED
          BY <1>6, <2>2, <4>1, UsedOrPending
      <3>4. Becomes(h, g, U, {b}, U)
        <4>1. (U \cup X) \ {b} = U
          BY <3>3
        <4> QED
          BY <2>3, <3>3, <4>1
      <3>5. Wants(h, l, c)
        BY <1>10, <1>17, <2>5 DEF Puts, Fitting
      <3>6. Wants(g, l, d)
        <4>1. g \in Heaps /\ Keeps(h, g, U) /\ h.end <= g.end
          BY <3>4 DEF Becomes
        <4>2. c.ptr \in DOMAIN l => SizeOf(g, c.ptr - Header) = SizeOf(h, c.ptr - Header)
          BY <1>4, <1>6, <4>1, SizeKept
        <4> QED
          BY <1>9, <3>2, <3>5, <4>2, WantsKept
      <3>7. CallOK(g, l, d)
        BY <2>3, <3>2, <3>6 DEF CallOK
      <3>8. Untouched(l, l, DOMAIN l) /\ Updated(g, l, DOMAIN l)
        BY DEF Untouched, Updated
      <3>9. Sound(g, l, d)
        BY <1>4, <1>5, <3>2, <3>3, <3>4, <3>7, <3>8, SoundAfter
      <3> QED
        BY <1>4, <1>14, <1>15, <3>9
    <2> QED
      BY <2>4, <2>5
  <1> QED
    BY <1>16, <1>17

\* A ledger with an entry of its own for q.
LEMMA LedgerGains ==
    ASSUME NEW q, NEW l, l = live, NEW e, NEW k, k = With(q, e)
    PROVE  /\ \A p : p \in DOMAIN k <=> p \in DOMAIN l \/ p = q
           /\ k[q] = e /\ \A p \in DOMAIN l : p # q => k[p] = l[p]
  BY DEF With

\* The end of _kmalloc_unsafe().
LEMMA MarksWell ==
    ASSUME Sound(heap, live, call), MarkBlock, stats \in [cnt : Int, bytes : Int]
    PROVE  Sound(heap', live', call') /\ stats' \in [cnt : Int, bytes : Int]
  <1>1. PICK h : h = heap
    OBVIOUS
  <1>2. PICK l : l = live
    OBVIOUS
  <1>3. PICK c : c = call
    OBVIOUS
  <1>4. Sound(h, l, c) /\ h.halt = "none" /\ c.at = "mark"
    BY <1>1, <1>2, <1>3 DEF MarkBlock, At, Running
  <1>5. PICK U : U = Heads(DOMAIN l)
    OBVIOUS
  <1>6. /\ h \in Heaps /\ c \in Calls /\ HeapOK(h, U, Pends(c)) /\ CallOK(h, l, c)
        /\ DOMAIN l \subseteq Nat
        /\ \A p \in DOMAIN l : Entry(h, p, l[p]) /\ p \in Nat /\ p - Header \in U
    BY <1>4, <1>5, SoundFacts
  <1>7. PICK b : b = c.block
    OBVIOUS
  <1>8. Wants(h, l, c) /\ c.size <= SizeOf(h, b) /\ FitsWord(c.asked) /\ c.size = TargetSize(c.asked)
    BY <1>4, <1>6, <1>7 DEF CallOK, Wants
  <1>9. Pends(c) = {b} /\ HeapOK(h, U, {b})
    <2>1. c.op # "resize"
      BY <1>8 DEF Wants
    <2>2. Pends(c) = {b}
      BY <1>4, <1>7, <2>1 DEF Pends
    <2> QED
      BY <1>6, <2>2
  <1>10. PICK g : g = heap'
    OBVIOUS
  <1>11. PICK d : d = call'
    OBVIOUS
  <1>12. PICK q : q = Pointer(b)
    OBVIOUS
  <1>13. PICK e : e = Entry0(c.asked)
    OBVIOUS
  <1>14. PICK k : k = live'
    OBVIOUS
  <1>15. /\ g = km_setalloc(h, b) /\ k = With(q, e)
         /\ stats' = [cnt |-> stats.cnt + 1, bytes |-> stats.bytes + SizeOf(h, b)]
         /\ d = CASE c.op = "malloc" -> Idle
                  [] c.op = "calloc" -> [c EXCEPT !.at = "zero"]
                  [] OTHER -> [c EXCEPT !.at = "copy"]
    BY <1>1, <1>3, <1>7, <1>10, <1>11, <1>12, <1>13, <1>14 DEF MarkBlock
  <1>16. /\ Becomes(h, g, U \cup {b}, {}, U) /\ SizeOf(g, b) = SizeOf(h, b) /\ b \notin U
         /\ SizeOf(h, b) \in Nat /\ b \in Nat
    <2>1. h \in Heaps /\ h.halt = "none" /\ g = km_setalloc(h, b)
      BY <1>4, <1>6, <1>15
    <2>2. PICK X : X = {b}
      OBVIOUS
    <2>3. PICK S : S = U \cup X
      OBVIOUS
    <2>4. HeapOK(h, U, X) /\ b \in X /\ \A u \in X : u = b
      BY <1>9, <2>2
    <2>5. /\ Becomes(h, g, S, {}, U) /\ SizeOf(g, b) = SizeOf(h, b) /\ b \notin U
          /\ SizeOf(h, b) \in Nat /\ b \in Nat
      BY ONLY <2>1, <2>3, <2>4, MarkTaken
    <2> QED
      BY <2>2, <2>3, <2>5
  <1>17. q \in Nat /\ q - Header = b /\ b # NULL
    <2>1. Header \in Nat /\ NULL \notin Nat
      BY Begins, HeapAssumption DEF Header
    <2> QED
      BY <1>12, <1>16, <2>1 DEF Pointer
  <1>18. q \notin DOMAIN l
    BY <1>6, <1>16, <1>17
  <1>19. DOMAIN k = DOMAIN l \cup {q} /\ k[q] = e /\ \A p \in DOMAIN l : k[p] = l[p]
    <2>1. k = With(q, e)
      BY <1>15
    <2>2. /\ \A p : p \in DOMAIN k <=> p \in DOMAIN l \/ p = q
          /\ k[q] = e /\ \A p \in DOMAIN l : p # q => k[p] = l[p]
      BY ONLY <1>2, <2>1, LedgerGains
    <2> QED
      BY <1>18, <2>2
  <1>20. PICK m \in Nat : m = c.asked
    BY <1>6 DEF Calls
  <1>21. PICK t \in Nat : t = c.size /\ m + Alignment <= t
    <2>1. TargetSize(m) \in Nat /\ m + Alignment <= TargetSize(m)
      BY <1>8, <1>20, TargetFacts
    <2> QED
      BY <1>8, <1>20, <2>1
  <1>22. Entry(g, q, k[q])
    <2>1. e = [asked |-> m, written |-> 0, value |-> Junk]
      BY <1>13, <1>20 DEF Entry0
    <2>2. WordsOf(q, 0) = {}
      <3>1. ASSUME NEW w \in WordsOf(q, 0) PROVE FALSE
        <4>1. w \in Nat /\ q <= w /\ w < q + 0
          BY AddressFacts DEF WordsOf
        <4> QED
          BY <1>17, <4>1
      <3> QED
        BY <3>1
    <2>3. m <= SizeOf(g, q - Header) - Header
      <3>1. Header = Alignment /\ Alignment \in Nat
        BY Begins DEF Header
      <3> QED
        BY <1>8, <1>16, <1>17, <1>21, <3>1
    <2> QED
      BY <1>19, <2>1, <2>2, <2>3 DEF Entry, Entries
  <1>23. PICK D : D = DOMAIN l
    OBVIOUS
  <1>24. Untouched(l, k, D) /\ Updated(g, k, D)
    BY <1>17, <1>19, <1>22, <1>23 DEF Untouched, Updated
  <1>25. Heads(DOMAIN k) = U \cup {b} /\ Heads(D) = U
    <2>1. Heads(DOMAIN k) = Heads(DOMAIN l) \cup {q - Header}
      BY <1>6, <1>19, HeadFacts
    <2> QED
      BY <1>5, <1>17, <1>23, <2>1
  <1>26. d \in Calls /\ Pends(d) = {} /\ CallOK(g, k, d)
    <2>1. "zero" \in Steps /\ "copy" \in Steps /\ c.op \in {"malloc", "calloc", "move"}
      BY <1>8 DEF Steps, Wants
    <2>2. CASE c.op = "malloc"
      BY <1>15, <2>2, IdleFacts
    <2>3. CASE c.op = "calloc"
      <3>1. d = [c EXCEPT !.at = "zero"]
        BY <1>15, <2>3
      <3>2. d \in Calls /\ d.at = "zero" /\ d.asked = c.asked /\ d.block = c.block
        BY ONLY <1>6, <2>1, <3>1, CallMoved
      <3>3. Zeroes(k, d)
        <4>1. k[q].asked = c.asked
          BY <1>13, <1>19 DEF Entry0
        <4> QED
          BY <1>7, <1>8, <1>12, <1>17, <1>19, <3>2, <4>1 DEF Zeroes
      <3> QED
        BY <3>2, <3>3 DEF CallOK, Pends
    <2>4. CASE c.op = "move"
      <3>1. d = [c EXCEPT !.at = "copy"]
        BY <1>15, <2>4
      <3>2. d \in Calls /\ d.at = "copy" /\ d.asked = c.asked /\ d.block = c.block /\ d.ptr = c.ptr
        BY ONLY <1>6, <2>1, <3>1, CallMoved
      <3>3. PICK p \in DOMAIN l : p = c.ptr /\ SizeOf(h, p - Header) < t
        BY <1>8, <1>21, <2>4 DEF Wants
      <3>4. SizeOf(g, p - Header) = SizeOf(h, p - Header)
        <4>1. g \in Heaps /\ Keeps(h, g, U) /\ h.end <= g.end /\ p - Header \in U
          BY <1>6, <1>16 DEF Becomes
        <4> QED
          BY <1>4, <4>1, SizeKept
      <3>5. SizeOf(h, p - Header) \in Nat
        <4>1. Block(h, p - Header, TRUE)
          BY <1>4, SoundFacts
        <4> QED
          BY <1>6, <4>1, BlockSize
      <3>6. SizeOf(g, p - Header) <= SizeOf(g, b)
        BY <1>8, <1>16, <1>21, <3>3, <3>4, <3>5
      <3>7. k[q].asked = c.asked
        BY <1>13, <1>19 DEF Entry0
      <3>8. Copies(g, k, d)
        BY <1>7, <1>12, <1>17, <1>18, <1>19, <3>2, <3>3, <3>6, <3>7 DEF Copies
      <3> QED
        BY <3>2, <3>8 DEF CallOK, Pends
    <2> QED
      BY <2>1, <2>2, <2>3, <2>4
  <1>27. Becomes(h, g, Heads(DOMAIN k), Pends(d), Heads(D))
    BY <1>16, <1>25, <1>26
  <1>28. Sound(g, k, d)
    BY <1>4, <1>24, <1>26, <1>27, SoundAfter
  <1>29. stats' \in [cnt : Int, bytes : Int]
    BY <1>15, <1>16
  <1> QED
    BY <1>10, <1>11, <1>14, <1>28, <1>29

\* Storing in the payload of a block changes neither headers nor other blocks.
LEMMA StoreKeeps ==
    ASSUME NEW h \in Heaps, h.halt = "none", NEW U, NEW X, HeapOK(h, U, X), NEW b \in U \cup X,
           NEW m \in Memory, NEW Y, Within(h, b, m, Y), NEW g, WithMemory(h, m, g),
           NEW K, K = (U \cup X) \ {b}
    PROVE  /\ Becomes(h, g, U, X, K) /\ SizeOf(g, b) = SizeOf(h, b)
           /\ g.mem = m /\ g.free = h.free /\ g.end = h.end
  <1>1. /\ g \in Heaps /\ g.mem = m /\ g.free = h.free /\ g.end = h.end
        /\ g.max = h.max /\ g.halt = h.halt
    BY MemoryUpdate
  <1>2. b \in Addresses /\ h.mem[b] \in Headers
    BY WholeFacts DEF HeapOK, Tiles
  <1>3. g.mem[b] = h.mem[b] /\ SizeOf(g, b) = SizeOf(h, b)
    BY <1>1, <1>2 DEF Within, SizeOf
  <1>4. \A w \in Addresses \ Extent(h, b) : g.mem[w] = h.mem[w]
    BY <1>1 DEF Within
  <1>5. Altered(h, b, g)
    BY <1>1, <1>2, <1>3, <1>4 DEF Altered
  <1>6. Becomes(h, g, U, X, (U \cup X) \ {b})
    BY <1>3, <1>5, Rewrite
  <1> QED
    BY <1>1, <1>3, <1>6

\* A client's bytes are filled with a value.
LEMMA Fills ==
    ASSUME NEW h, NEW l, NEW c, Sound(h, l, c), h.halt = "none", NEW p \in DOMAIN l,
           NEW n, n = l[p].asked, NEW v \in Values, NEW b, b = p - Header,
           NEW g, g = [h EXCEPT !.mem = Fill(@, p, n, v)], NEW e,
           e = [asked |-> n, written |-> n, value |-> v], NEW U, U = Heads(DOMAIN l)
    PROVE  /\ Becomes(h, g, U, Pends(c), (U \cup Pends(c)) \ {b}) /\ SizeOf(g, b) = SizeOf(h, b)
           /\ g.free = h.free /\ g.end = h.end /\ Entry(g, p, e)
  <1>1. /\ h \in Heaps /\ HeapOK(h, U, Pends(c)) /\ Entry(h, p, l[p]) /\ p \in Nat /\ b \in U
        /\ Block(h, b, TRUE)
    BY SoundFacts
  <1>2. n \in Nat /\ n <= SizeOf(h, b) - Header
    BY <1>1 DEF Entry, Entries
  <1>3. PICK Y : Y = WordsOf(p, n)
    OBVIOUS
  <1>4. PICK m : m = Fill(h.mem, p, n, v)
    OBVIOUS
  <1>5. m \in Memory /\ (\A w \in Y : m[w] = v) /\ (\A w \in Addresses \ Y : m[w] = h.mem[w])
    <2>1. h.mem \in Memory
      BY <1>1, HeapFacts DEF Memory
    <2> QED
      BY <1>3, <1>4, <2>1, FillFacts
  <1>6. Within(h, b, m, Y)
    <2>1. Y \subseteq Extent(h, b) /\ b \notin Y
      BY <1>1, <1>2, <1>3, Payload
    <2> QED
      BY <1>5, <2>1 DEF Within
  <1>7. WithMemory(h, m, g)
    BY <1>4 DEF WithMemory
  <1>8. /\ Becomes(h, g, U, Pends(c), (U \cup Pends(c)) \ {b}) /\ SizeOf(g, b) = SizeOf(h, b)
        /\ g.mem = m /\ g.free = h.free /\ g.end = h.end
    <2>1. h \in Heaps /\ h.halt = "none" /\ HeapOK(h, U, Pends(c)) /\ b \in U \cup Pends(c)
      BY <1>1
    <2>2. PICK K : K = (U \cup Pends(c)) \ {b}
      OBVIOUS
    <2>3. /\ Becomes(h, g, U, Pends(c), K) /\ SizeOf(g, b) = SizeOf(h, b)
          /\ g.mem = m /\ g.free = h.free /\ g.end = h.end
      BY ONLY <1>5, <1>6, <1>7, <2>1, <2>2, StoreKeeps
    <2> QED
      BY <2>2, <2>3
  <1>9. Entry(g, p, e)
    <2>1. v \in Values \cup {Junk} /\ n <= n
      BY <1>2
    <2> QED
      BY <1>2, <1>3, <1>5, <1>8, <2>1 DEF Entry, Entries
  <1> QED
    BY <1>8, <1>9

\* The loop of kcalloc().
LEMMA ZeroesWell ==
    ASSUME Sound(heap, live, call), ZeroBlock
    PROVE  Sound(heap', live', call')
  <1>1. PICK h : h = heap
    OBVIOUS
  <1>2. PICK l : l = live
    OBVIOUS
  <1>3. PICK c : c = call
    OBVIOUS
  <1>4. Sound(h, l, c) /\ h.halt = "none" /\ c.at = "zero"
    BY <1>1, <1>2, <1>3 DEF ZeroBlock, At, Running
  <1>5. PICK U : U = Heads(DOMAIN l)
    OBVIOUS
  <1>6. c \in Calls /\ CallOK(h, l, c) /\ Pends(c) = {} /\ DOMAIN l \subseteq Nat
    BY <1>4, SoundFacts DEF Pends
  <1>7. PICK p : p = Pointer(c.block) /\ p \in DOMAIN l /\ l[p].asked = c.asked /\ FitsWord(c.asked)
    BY <1>4, <1>6 DEF CallOK, Zeroes
  <1>8. PICK n \in Nat : n = c.asked /\ c.asked % Word = n /\ n = l[p].asked
    <2>1. c.asked \in Nat
      BY <1>6 DEF Calls
    <2> QED
      BY <1>7, <2>1, FittingSize
  <1>9. PICK b : b = p - Header
    OBVIOUS
  <1>10. PICK g : g = heap'
    OBVIOUS
  <1>11. PICK e : e = [asked |-> n, written |-> n, value |-> Zero]
    OBVIOUS
  <1>12. PICK k : k = live'
    OBVIOUS
  <1>13. g = [h EXCEPT !.mem = Fill(@, p, n, Zero)] /\ k = With(p, e) /\ call' = Idle
    BY <1>1, <1>3, <1>7, <1>8, <1>10, <1>11, <1>12 DEF ZeroBlock
  <1>14. /\ Becomes(h, g, U, Pends(c), (U \cup Pends(c)) \ {b}) /\ Entry(g, p, e)
    <2>1. Zero \in Values
      BY HeapAssumption
    <2> QED
      BY <1>4, <1>5, <1>7, <1>8, <1>9, <1>11, <1>13, <2>1, Fills
  <1>15. (U \cup {}) \ {b} = U \ {b}
    OBVIOUS
  <1>16. DOMAIN k = DOMAIN l /\ k[p] = e /\ \A q \in DOMAIN l : q # p => k[q] = l[q]
    <2>1. /\ \A q : q \in DOMAIN k <=> q \in DOMAIN l \/ q = p
          /\ k[p] = e /\ \A q \in DOMAIN l : q # p => k[q] = l[q]
      <3>1. k = With(p, e)
        BY <1>13
      <3> QED
        BY ONLY <1>2, <3>1, LedgerGains
    <2> QED
      BY <1>7, <2>1
  <1>17. PICK D : D = DOMAIN l \ {p}
    OBVIOUS
  <1>18. Heads(D) = U \ {b} /\ Heads(DOMAIN k) = U
    BY <1>5, <1>6, <1>7, <1>9, <1>16, <1>17, HeadFacts
  <1>19. Untouched(l, k, D) /\ Updated(g, k, D)
    <2>1. p \in Nat
      BY <1>6, <1>7
    <2> QED
      BY <1>14, <1>16, <1>17, <2>1 DEF Untouched, Updated
  <1>20. Becomes(h, g, Heads(DOMAIN k), Pends(Idle), Heads(D))
    BY <1>6, <1>14, <1>15, <1>18, IdleFacts
  <1>21. Sound(g, k, Idle)
    BY <1>4, <1>19, <1>20, IdleFacts, SoundAfter
  <1> QED
    BY <1>10, <1>12, <1>13, <1>21

\* The loop of krealloc() that copies the payload to a new block.
LEMMA CopiesWell ==
    ASSUME Sound(heap, live, call), CopyBlock
    PROVE  Sound(heap', live', call')
  <1>1. PICK h : h = heap
    OBVIOUS
  <1>2. PICK l : l = live
    OBVIOUS
  <1>3. PICK c : c = call
    OBVIOUS
  <1>4. Sound(h, l, c) /\ h.halt = "none" /\ c.at = "copy"
    BY <1>1, <1>2, <1>3 DEF CopyBlock, At, Running
  <1>5. PICK U : U = Heads(DOMAIN l)
    OBVIOUS
  <1>6. /\ h \in Heaps /\ c \in Calls /\ CallOK(h, l, c) /\ Pends(c) = {} /\ DOMAIN l \subseteq Nat
        /\ HeapOK(h, U, {})
        /\ \A r \in DOMAIN l : Entry(h, r, l[r]) /\ r \in Nat /\ r - Header \in U
                               /\ Block(h, r - Header, TRUE)
    <2>1. Pends(c) = {}
      BY <1>4 DEF Pends
    <2> QED
      BY <1>4, <1>5, <2>1, SoundFacts
  <1>7. Copies(h, l, c)
    BY <1>4, <1>6 DEF CallOK
  <1>8. PICK p \in DOMAIN l : p = c.ptr
    BY <1>7 DEF Copies
  <1>9. PICK q \in DOMAIN l : q = Pointer(c.block) /\ q # p /\ l[q].asked = c.asked
    BY <1>7, <1>8 DEF Copies
  <1>10. PICK b \in U : b = p - Header /\ Block(h, b, TRUE)
    BY <1>6
  <1>11. PICK x \in U : x = q - Header /\ Block(h, x, TRUE)
    BY <1>6
  <1>12. p \in Nat /\ q \in Nat /\ Entry(h, p, l[p]) /\ Entry(h, q, l[q])
    BY <1>6
  <1>13. PICK y \in Nat : y = SizeOf(h, b) /\ y > 0 /\ y % Alignment = 0
    BY <1>6, <1>10, BlockSize
  <1>14. PICK z \in Nat : z = SizeOf(h, x)
    BY <1>6, <1>11, BlockSize
  <1>15. /\ Alignment \in Nat \ {0} /\ Header = Alignment /\ MemoryEnd \in Nat
         /\ b \in Addresses /\ x \in Addresses /\ b \in Nat /\ x \in Nat
         /\ p = b + Alignment /\ q = x + Alignment /\ Alignment <= y
         /\ b + y <= h.end /\ h.end \in Nat /\ h.end <= MemoryEnd
    <2>1. Alignment \in Nat \ {0} /\ Header = Alignment /\ MemoryEnd \in Nat
      BY Begins DEF Header
    <2>2. b \in Addresses /\ x \in Addresses /\ b \in Nat /\ x \in Nat /\ b + y <= h.end
      BY <1>6, <1>10, <1>11, <1>13, BlockSize
    <2>3. h.end \in Nat /\ h.end <= MemoryEnd
      <3>1. Tiles(h, U \cup {})
        BY <1>6 DEF HeapOK
      <3>2. h.end \in Nat /\ h.max \in Nat /\ h.end <= h.max /\ h.max <= MemoryEnd
        BY <1>6, <3>1, TilesWithin
      <3> QED
        BY <2>1, <3>2
    <2>4. Alignment <= y
      <3>1. 0 % Alignment = 0 /\ 0 \in Nat
        BY <2>1
      <3>2. 0 + Alignment <= y
        BY <1>13, <2>1, <3>1, MultipleGap
      <3> QED
        BY <1>13, <2>1, <3>2
    <2>5. p = b + Alignment /\ q = x + Alignment
      BY <1>10, <1>11, <1>12, <2>1
    <2> QED
      BY <2>1, <2>2, <2>3, <2>4, <2>5
  <1>16. x = c.block /\ y <= z
    <2>1. c.block \in Nat
      <3>1. c.block # NULL /\ c.block \in Nat \cup {NULL}
        BY <1>6, <1>7 DEF Copies, Calls
      <3> QED
        BY <3>1
    <2>2. x = c.block
      BY <1>9, <1>11, <1>15, <2>1 DEF Pointer
    <2> QED
      BY <1>7, <1>8, <1>10, <1>13, <1>14, <2>2 DEF Copies
  <1>17. PICK n \in Nat : n = y - Alignment
    BY <1>13, <1>15
  <1>18. PICK Y : Y = WordsOf(q, n)
    OBVIOUS
  <1>19. ASSUME NEW w \in Y
         PROVE  w \in Addresses /\ p + (w - q) \in Addresses /\ p + (w - q) = b + (w - x)
    <2>1. w \in Addresses /\ w \in Nat /\ q <= w /\ w < q + n
      BY <1>18, AddressFacts DEF WordsOf
    <2>2. x <= w /\ b + (w - x) < MemoryEnd /\ p + (w - q) = b + (w - x)
      BY <1>12, <1>15, <1>17, <2>1
    <2>3. b + (w - x) \in Addresses
      BY <1>15, <2>1, <2>2, Shift
    <2> QED
      BY <2>1, <2>2, <2>3
  <1>20. PICK m : m = Copy(h.mem, p, q, n)
    OBVIOUS
  <1>21. /\ m \in Memory /\ (\A w \in Y : m[w] = h.mem[p + (w - q)])
         /\ \A w \in Addresses \ Y : m[w] = h.mem[w]
    <2>1. h.mem \in [Addresses -> Values \cup {Junk} \cup Headers]
      BY <1>6, HeapFacts
    <2>2. Source(p, q, n)
      BY <1>18, <1>19 DEF Source
    <2>3. m \in [Addresses -> Values \cup {Junk} \cup Headers] /\ Copied(h.mem, p, q, n, m)
      BY <1>20, <2>1, <2>2, CopyFacts
    <2> QED
      BY <1>18, <2>3 DEF Copied, Memory
  <1>22. Within(h, x, m, Y)
    <2>1. n <= SizeOf(h, x) - Header
      BY <1>13, <1>14, <1>15, <1>16, <1>17
    <2>2. Y \subseteq Extent(h, x) /\ x \notin Y
      BY <1>6, <1>11, <1>12, <1>18, <2>1, Payload
    <2> QED
      BY <1>21, <2>2 DEF Within
  <1>23. PICK g : g = heap'
    OBVIOUS
  <1>24. PICK k : k = live'
    OBVIOUS
  <1>25. PICK d : d = call'
    OBVIOUS
  <1>26. PICK e : e = Kept(p, c.asked)
    OBVIOUS
  <1>27. WithMemory(h, m, g) /\ k = With(q, e) /\ d = [c EXCEPT !.at = "free"]
    <2>1. PayloadSize(h, p) = n
      BY <1>10, <1>13, <1>15, <1>17 DEF PayloadSize
    <2> QED
      BY <1>1, <1>3, <1>8, <1>9, <1>20, <1>23, <1>24, <1>25, <1>26, <2>1 DEF CopyBlock, WithMemory
  <1>28. PICK K : K = U \ {x}
    OBVIOUS
  <1>29. /\ Becomes(h, g, U, {}, K) /\ SizeOf(g, x) = SizeOf(h, x) /\ g.mem = m
    <2>1. h \in Heaps /\ h.halt = "none" /\ HeapOK(h, U, {}) /\ x \in U \cup {} /\ K = (U \cup {}) \ {x}
      BY <1>4, <1>6, <1>28
    <2>2. m \in Memory
      BY <1>21
    <2>3. WithMemory(h, m, g)
      BY <1>27
    <2> QED
      BY ONLY <1>22, <2>1, <2>2, <2>3, StoreKeeps
  <1>30. PICK a \in Nat : a = c.asked
    BY <1>6 DEF Calls
  <1>31. Shortens(l[p], a, e)
    <2>1. l[p] \in Entries
      BY <1>12 DEF Entry
    <2> QED
      BY <1>2, <1>26, <1>30, <2>1, KeptFacts
  <1>32. Entry(g, q, e)
    <2>1. PICK i \in Nat : i = e.written
      BY <1>31 DEF Shortens, Entries
    <2>2. PICK j \in Nat : j = l[p].written
      BY <1>12 DEF Entry, Entries
    <2>3. PICK o \in Nat : o = l[p].asked
      BY <1>12 DEF Entry, Entries
    <2>4. /\ i <= a /\ i <= j /\ j <= o /\ o <= y - Header /\ e.asked = a /\ e.value = l[p].value
          /\ e \in Entries /\ \A w \in WordsOf(p, j) : h.mem[w] = l[p].value
      <3>1. i <= a /\ i <= j /\ e.asked = a /\ e.value = l[p].value /\ e \in Entries
        BY <1>31, <2>1, <2>2 DEF Shortens
      <3>2. j <= o /\ o <= SizeOf(h, p - Header) - Header /\ \A w \in WordsOf(p, j) : h.mem[w] = l[p].value
        BY <1>12, <2>2, <2>3 DEF Entry
      <3> QED
        BY <1>10, <1>13, <3>1, <3>2
    <2>5. ASSUME NEW w \in WordsOf(q, i) PROVE g.mem[w] = e.value
      <3>1. w \in Addresses /\ w \in Nat /\ q <= w /\ w < q + i
        BY AddressFacts DEF WordsOf
      <3>2. w < q + n
        BY <1>12, <1>15, <1>17, <2>4, <3>1
      <3>3. w \in Y
        BY <1>18, <3>1, <3>2 DEF WordsOf
      <3>4. PICK v \in Addresses : v = p + (w - q)
        BY <1>19, <3>3
      <3>5. p <= v /\ v < p + j
        BY <1>12, <2>4, <3>1, <3>4
      <3>6. v \in WordsOf(p, j)
        BY <3>5 DEF WordsOf
      <3> QED
        BY <1>21, <1>29, <2>4, <3>3, <3>4, <3>6
    <2>6. a <= SizeOf(g, q - Header) - Header
      <3>1. l[q].asked <= SizeOf(h, q - Header) - Header
        BY <1>12 DEF Entry
      <3> QED
        BY <1>9, <1>11, <1>29, <1>30, <3>1
    <2> QED
      BY <2>1, <2>4, <2>5, <2>6 DEF Entry
  <1>33. DOMAIN k = DOMAIN l /\ k[q] = e /\ \A r \in DOMAIN l : r # q => k[r] = l[r]
    <2>1. k = With(q, e)
      BY <1>27
    <2>2. /\ \A r : r \in DOMAIN k <=> r \in DOMAIN l \/ r = q
          /\ k[q] = e /\ \A r \in DOMAIN l : r # q => k[r] = l[r]
      BY ONLY <1>2, <2>1, LedgerGains
    <2> QED
      BY <2>2
  <1>34. PICK D : D = DOMAIN l \ {q}
    OBVIOUS
  <1>35. Heads(D) = K /\ Heads(DOMAIN k) = U
    BY <1>5, <1>6, <1>11, <1>28, <1>33, <1>34, HeadFacts
  <1>36. Untouched(l, k, D) /\ Updated(g, k, D)
    BY <1>12, <1>32, <1>33, <1>34 DEF Untouched, Updated
  <1>37. d \in Calls /\ Pends(d) = {} /\ CallOK(g, k, d)
    <2>1. "free" \in Steps
      BY DEF Steps
    <2>2. d = [c EXCEPT !.at = "free"]
      BY <1>27
    <2>3. d \in Calls /\ d.at = "free" /\ d.ptr = c.ptr /\ d.block = c.block
      BY ONLY <1>6, <2>1, <2>2, CallMoved
    <2> QED
      BY <1>7, <1>8, <1>33, <2>3 DEF CallOK, Pends, Copies
  <1>38. Becomes(h, g, Heads(DOMAIN k), Pends(d), Heads(D))
    BY <1>29, <1>35, <1>37
  <1>39. Sound(g, k, d)
    BY <1>4, <1>36, <1>37, <1>38, SoundAfter
  <1> QED
    BY <1>23, <1>24, <1>25, <1>39

\* krealloc() frees the block that it has copied.
LEMMA FreesOldWell ==
    ASSUME Sound(heap, live, call), FreeOld, stats \in [cnt : Int, bytes : Int]
    PROVE  Sound(heap', live', call') /\ stats' \in [cnt : Int, bytes : Int]
  <1>1. Running /\ call.at = "free" /\ Frees(call.ptr, Pointer(call.block)) /\ heap.halt = "none"
    BY DEF FreeOld, At, Running
  <1>2. call \in Calls /\ CallOK(heap, live, call) /\ Pends(call) = {}
    BY <1>1, SoundFacts DEF Pends
  <1>3. call.ptr \in DOMAIN live /\ Pointer(call.block) \in Nat
    <2>1. call.ptr \in DOMAIN live /\ call.block \in Nat
      BY <1>1, <1>2 DEF CallOK, Calls
    <2> QED
      BY <2>1, Begins DEF Pointer, Header
  <1> QED
    BY <1>1, <1>2, <1>3, FreesWell

-----------------------------------------------------------------------------
(* The interrupt, and the clients *)

\* The call relies on what a walk has found in the free list, which is the same.
Walks(c) == c.at \in {"grow", "link"} \/ (c.at = "take" /\ c.block # NULL)
SameList(h, g) ==
    /\ g.free = h.free
    /\ \A i \in 1..Len(h.free) : SizeOf(g, h.free[i]) = SizeOf(h, h.free[i])

\* A step of another has left what the call works on alone.
Spared(h, l, c, g, k, K) ==
    /\ g \in Heaps /\ h.end <= g.end /\ Keeps(h, g, K) /\ Pends(c) \subseteq K
    /\ \A p \in DOMAIN l \cap Uses(c) :
          p \in DOMAIN k /\ k[p].asked = l[p].asked /\ p - Header \in K
    /\ Walks(c) => SameList(h, g)

\* The call can go on then.
LEMMA CallKept ==
    ASSUME NEW h, NEW l, NEW c, Sound(h, l, c), h.halt = "none",
           NEW g, NEW k, NEW K, Spared(h, l, c, g, k, K)
    PROVE  CallOK(g, k, c)
  <1>1. /\ h \in Heaps /\ c \in Calls /\ CallOK(h, l, c) /\ DOMAIN l \subseteq Nat
        /\ HeapOK(h, Heads(DOMAIN l), Pends(c))
        /\ \A p \in DOMAIN l : p - Header \in Heads(DOMAIN l)
    BY SoundFacts
  <1>2. ASSUME NEW p \in DOMAIN l, p \in Uses(c)
        PROVE  /\ p \in DOMAIN k /\ k[p].asked = l[p].asked
               /\ SizeOf(g, p - Header) = SizeOf(h, p - Header)
    <2>1. p \in DOMAIN k /\ k[p].asked = l[p].asked /\ p - Header \in K
      BY <1>2 DEF Spared
    <2>2. g \in Heaps /\ Keeps(h, g, K) /\ h.end <= g.end
      BY DEF Spared
    <2> QED
      BY <2>1, <2>2, SizeKept
  <1>3. ASSUME NEW u \in Pends(c) PROVE SizeOf(g, u) = SizeOf(h, u)
    <2>1. Block(h, u, FALSE) /\ u \in K /\ g \in Heaps /\ Keeps(h, g, K) /\ h.end <= g.end
      BY <1>1 DEF Spared, HeapOK
    <2> QED
      BY <1>1, <2>1, KeptBlock
  <1>4. c.ptr \in Uses(c) /\ (c.block # NULL => Pointer(c.block) \in Uses(c))
    BY DEF Uses
  <1>5. Wants(h, l, c) => Wants(g, k, c)
    BY <1>2, <1>4, WantsKept
  <1>6. Fitting(l, c) => Fitting(k, c)
    BY <1>2, <1>4 DEF Fitting
  <1>7. c.at = "find" => Wants(g, k, c)
    BY <1>1, <1>5 DEF CallOK
  <1>8. ASSUME c.at = "take" PROVE Takes(g, k, c)
    <2>1. Wants(h, l, c) /\ (c.block = NULL \/ (Found(h, c.block, c.prev) /\ c.size <= SizeOf(h, c.block)))
      BY <1>1, <1>8 DEF CallOK, Takes
    <2>2. CASE c.block = NULL
      BY <1>5, <2>1, <2>2 DEF Takes
    <2>3. CASE c.block # NULL
      <3>1. SameList(h, g)
        BY <1>8, <2>3 DEF Spared, Walks
      <3>2. PICK i \in 1..Len(h.free) : h.free[i] = c.block /\ c.prev = Before(h.free, i)
        BY <2>1, <2>3 DEF Found
      <3>3. Found(g, c.block, c.prev)
        BY <3>1, <3>2 DEF SameList, Found
      <3>4. SizeOf(g, c.block) = SizeOf(h, c.block)
        BY <3>1, <3>2 DEF SameList
      <3> QED
        BY <1>5, <2>1, <2>3, <3>3, <3>4 DEF Takes
    <2> QED
      BY <2>2, <2>3
  <1>9. ASSUME c.at = "grow" PROVE Grows(g, k, c)
    <2>1. /\ Fitting(l, c) /\ Found(h, c.next, c.prev) /\ c.next = c.block + SizeOf(h, c.block)
          /\ c.size <= SizeOf(h, c.block) + SizeOf(h, c.next)
      BY <1>1, <1>9 DEF CallOK, Grows
    <2>2. SameList(h, g)
      BY <1>9 DEF Spared, Walks
    <2>3. PICK i \in 1..Len(h.free) : h.free[i] = c.next /\ c.prev = Before(h.free, i)
      BY <2>1 DEF Found
    <2>4. Found(g, c.next, c.prev) /\ SizeOf(g, c.next) = SizeOf(h, c.next)
      BY <2>2, <2>3 DEF SameList, Found
    <2>5. SizeOf(g, c.block) = SizeOf(h, c.block)
      <3>1. c.ptr \in DOMAIN l /\ c.block = c.ptr - Header
        BY <2>1 DEF Fitting
      <3> QED
        BY <1>2, <1>4, <3>1
    <2> QED
      BY <1>6, <2>1, <2>4, <2>5 DEF Grows
  <1>10. ASSUME c.at \in {"place", "link"} PROVE Puts(g, k, c)
    <2>1. /\ Puts(h, l, c) /\ c.block \in Heads(DOMAIN l) \cup Pends(c)
          /\ c.op # "free" => Divides(h, c.block, c.size) /\ Cutting(h, c.block, c.size)
      BY <1>10, PutsFacts
    <2>2. CASE c.op = "free"
      BY <2>2 DEF Puts
    <2>3. CASE c.op # "free"
      <3>1. c.block \in K
        <4>1. CASE c.op = "resize"
          <5>1. c.ptr \in DOMAIN l /\ c.block = c.ptr - Header
            BY <2>1, <2>3, <4>1 DEF Puts, Wants, Fitting
          <5> QED
            BY <1>4, <5>1 DEF Spared
        <4>2. CASE c.op # "resize"
          <5>1. c.block \in Pends(c)
            BY <1>10, <4>2 DEF Pends
          <5> QED
            BY <5>1 DEF Spared
        <4> QED
          BY <4>1, <4>2
      <3>2. PICK b : b = c.block
        OBVIOUS
      <3>3. PICK t : t = c.size
        OBVIOUS
      <3>4. PICK S : S = Heads(DOMAIN l) \cup Pends(c) /\ Tiles(h, S) /\ b \in S
        BY <1>1, <2>1, <3>2 DEF HeapOK
      <3>5. b + t \in Addresses /\ b + t \in Extent(h, b)
        BY <1>1, <2>1, <2>3, <3>2, <3>3, <3>4, RestFacts
      <3>6. b \in Addresses /\ b \in Extent(h, b)
        BY <1>1, <3>4, WholeFacts DEF Tiles
      <3>7. g.mem[b + t] = h.mem[b + t] /\ g.mem[b] = h.mem[b]
        BY <3>1, <3>2, <3>5, <3>6 DEF Spared, Keeps
      <3>8. Cutting(g, b, t)
        BY <2>1, <2>3, <3>2, <3>3, <3>7 DEF Cutting, SizeOf
      <3>9. Wants(g, k, c) \/ (Fitting(k, c) /\ k[c.ptr].asked = c.asked)
        <4>1. CASE Wants(h, l, c)
          BY <1>5, <4>1
        <4>2. CASE Fitting(l, c) /\ l[c.ptr].asked = c.asked
          BY <1>2, <1>4, <1>6, <4>2 DEF Fitting
        <4> QED
          BY <2>1, <2>3, <4>1, <4>2 DEF Puts
      <3> QED
        BY <3>2, <3>3, <3>8, <3>9 DEF Puts
    <2> QED
      BY <2>2, <2>3
  <1>11. ASSUME c.at = "link" PROVE Between(g, Inserts(c), c.prev, c.next)
    <2>1. g.free = h.free
      BY <1>11 DEF Spared, Walks, SameList
    <2>2. Between(h, Inserts(c), c.prev, c.next)
      BY <1>1, <1>11 DEF CallOK
    <2> QED
      BY <2>1, <2>2 DEF Between
  <1>12. ASSUME c.at = "mark" PROVE Wants(g, k, c) /\ c.size <= SizeOf(g, c.block)
    <2>1. Wants(h, l, c) /\ c.size <= SizeOf(h, c.block)
      BY <1>1, <1>12 DEF CallOK
    <2>2. c.block \in Pends(c)
      BY <1>12, <2>1 DEF Wants, Pends
    <2> QED
      BY <1>3, <1>5, <2>1, <2>2
  <1>13. ASSUME c.at = "zero" PROVE Zeroes(k, c)
    <2>1. Zeroes(l, c)
      BY <1>1, <1>13 DEF CallOK
    <2> QED
      BY <1>2, <1>4, <2>1 DEF Zeroes
  <1>14. ASSUME c.at = "copy" PROVE Copies(g, k, c)
    <2>1. Copies(h, l, c)
      BY <1>1, <1>14 DEF CallOK
    <2>2. PICK q \in DOMAIN l : q = Pointer(c.block) /\ q \in Uses(c) /\ q - Header = c.block
      <3>1. c.block # NULL /\ c.block \in Nat
        BY <1>1, <2>1 DEF Copies, Calls
      <3>2. Pointer(c.block) - Header = c.block
        BY <3>1, Begins DEF Pointer, Header
      <3> QED
        BY <1>4, <2>1, <3>1, <3>2 DEF Copies
    <2>3. /\ q \in DOMAIN k /\ k[q].asked = l[q].asked /\ SizeOf(g, c.block) = SizeOf(h, c.block)
      BY <1>2, <2>2
    <2>4. c.ptr \in DOMAIN k /\ SizeOf(g, c.ptr - Header) = SizeOf(h, c.ptr - Header)
      BY <1>2, <1>4, <2>1 DEF Copies
    <2> QED
      BY <2>1, <2>2, <2>3, <2>4 DEF Copies
  <1>15. c.at = "free" => c.ptr \in DOMAIN k /\ c.block # NULL
    BY <1>1, <1>2, <1>4 DEF CallOK
  <1> QED
    BY <1>7, <1>8, <1>9, <1>10, <1>11, <1>12, <1>13, <1>14, <1>15 DEF CallOK

\* The interrupt frees two blocks, between two steps of the call.
LEMMA ReapsWell ==
    ASSUME Sound(heap, live, call), NEW p \in DOMAIN live \ Busy, NEW q \in DOMAIN live \ Busy,
           Reap(p, q), ~Walked, stats \in [cnt : Int, bytes : Int]
    PROVE  Sound(heap', live', call') /\ stats' \in [cnt : Int, bytes : Int]
  <1>1. PICK h : h = heap
    OBVIOUS
  <1>2. PICK l : l = live
    OBVIOUS
  <1>3. PICK c : c = call
    OBVIOUS
  <1>4. Sound(h, l, c) /\ h.halt = "none" /\ p # q /\ call' = c /\ p \in DOMAIN l /\ q \in DOMAIN l
    BY <1>1, <1>2, <1>3 DEF Reap, Running
  <1>5. PICK U : U = Heads(DOMAIN l)
    OBVIOUS
  <1>6. PICK X : X = Pends(c)
    OBVIOUS
  <1>7. /\ h \in Heaps /\ c \in Calls /\ DOMAIN l \subseteq Nat /\ HeapOK(h, U, X)
        /\ \A r \in DOMAIN l : r \in Nat /\ r - Header \in U
    BY <1>4, <1>5, <1>6, SoundFacts
  <1>8. PICK b \in U : b = p - Header
    BY <1>4, <1>7
  <1>9. PICK x \in U : x = q - Header /\ x # b
    <2>1. p \in Nat /\ q \in Nat /\ p # q /\ q - Header \in U
      BY <1>4, <1>7
    <2>2. q - Header # p - Header
      BY <2>1, Begins DEF Header
    <2> QED
      BY <1>8, <2>1, <2>2
  <1>10. PICK e : e = _kfree_unsafe(h, p)
    OBVIOUS
  <1>11. PICK g : g = _kfree_unsafe(e, q)
    OBVIOUS
  <1>12. PICK V : V = U \ {b}
    OBVIOUS
  <1>13. PICK W : W = V \ {x}
    OBVIOUS
  <1>14. Becomes(h, e, V, X, (U \cup X) \ {b})
    BY <1>4, <1>7, <1>8, <1>10, <1>12, FreeWhole
  <1>15. e \in Heaps /\ e.halt = "none" /\ HeapOK(e, V, X) /\ x \in V
    BY <1>9, <1>12, <1>14 DEF Becomes
  <1>16. Becomes(e, g, W, X, (V \cup X) \ {x})
    BY <1>9, <1>11, <1>13, <1>15, FreeWhole
  <1>17. b \notin X /\ x \notin X
    BY <1>7, <1>8, <1>9, UsedOrPending
  <1>18. PICK K : K = W \cup X
    OBVIOUS
  <1>19. Becomes(h, g, W, X, K)
    <2>1. K \subseteq U \cup X /\ K \subseteq (U \cup X) \ {b} /\ K \subseteq (V \cup X) \ {x}
      BY <1>12, <1>13, <1>17, <1>18
    <2>2. h \in Heaps /\ HeapOK(h, U, X)
      BY <1>7
    <2> QED
      BY ONLY <1>14, <1>16, <2>1, <2>2, BecomesTwice
  <1>20. PICK k : k = live'
    OBVIOUS
  <1>21. PICK D : D = DOMAIN l \ {p, q}
    OBVIOUS
  <1>22. heap' = g /\ DOMAIN k = D /\ \A r \in D : k[r] = l[r]
    BY <1>1, <1>2, <1>10, <1>11, <1>20, <1>21 DEF Reap, Without
  <1>23. Heads(D) = W
    <2>1. PICK C : C = DOMAIN l \ {p} /\ C \subseteq Nat /\ q \in C
      BY <1>4, <1>7
    <2>2. Heads(C) = V
      BY <1>4, <1>5, <1>7, <1>8, <1>12, <2>1, HeadFacts
    <2>3. Heads(C \ {q}) = W
      BY <1>9, <1>13, <2>1, <2>2, HeadFacts
    <2>4. C \ {q} = D
      BY <1>21, <2>1
    <2> QED
      BY <2>3, <2>4
  <1>24. Spared(h, l, c, g, k, K)
    <2>1. g \in Heaps /\ h.end <= g.end /\ Keeps(h, g, K) /\ Pends(c) \subseteq K
      BY <1>6, <1>18, <1>19 DEF Becomes
    <2>2. ~Walks(c)
      BY <1>3 DEF Walked, Walks
    <2>3. ASSUME NEW r \in DOMAIN l, r \in Uses(c)
          PROVE  r \in DOMAIN k /\ k[r].asked = l[r].asked /\ r - Header \in K
      <3>1. r # p /\ r # q
        BY <1>3, <2>3 DEF Busy, Uses
      <3>2. r \in D /\ D \subseteq Nat
        BY <1>7, <1>21, <3>1
      <3>3. r - Header \in W
        BY <1>23, <3>2, HeadFacts
      <3> QED
        BY <1>18, <1>22, <3>2, <3>3
    <2> QED
      BY <2>1, <2>2, <2>3 DEF Spared
  <1>25. CallOK(g, k, c)
    BY <1>4, <1>24, CallKept
  <1>26. Untouched(l, k, D) /\ Updated(g, k, D)
    BY <1>21, <1>22 DEF Untouched, Updated
  <1>27. Becomes(h, g, Heads(DOMAIN k), Pends(c), Heads(D))
    <2>1. W \subseteq K
      BY <1>18
    <2>2. Becomes(h, g, W, X, W)
      BY <1>19, <2>1, KeepsFewer DEF Becomes
    <2> QED
      BY <1>6, <1>22, <1>23, <2>2
  <1>28. Sound(g, k, c)
    BY <1>4, <1>7, <1>25, <1>26, <1>27, SoundAfter
  <1>29. stats' \in [cnt : Int, bytes : Int]
    <2>1. Counted(h, b) \in Nat /\ Counted(e, x) \in Nat
      <3>1. Block(h, b, TRUE) /\ Block(e, x, TRUE)
        BY <1>7, <1>15 DEF HeapOK
      <3> QED
        BY <1>7, <1>15, <3>1, BlockSize DEF Counted
    <2>2. stats' = [cnt |-> stats.cnt - 2, bytes |-> stats.bytes - (Counted(h, b) + Counted(e, x))]
      BY <1>1, <1>8, <1>9, <1>10 DEF Reap
    <2> QED
      BY <2>1, <2>2
  <1> QED
    BY <1>4, <1>20, <1>22, <1>28, <1>29

\* A client's bytes are outside the free blocks.
LEMMA ListSpared ==
    ASSUME NEW h \in Heaps, NEW S, Tiles(h, S), NEW b \in S, NEW g \in Heaps, g.free = h.free,
           \A w \in Addresses \ Extent(h, b) : g.mem[w] = h.mem[w]
    PROVE  SameList(h, g)
  <1>1. FreeList(h) /\ Held(h) \cap Bytes(h, S) = {}
    BY DEF Tiles
  <1>2. ASSUME NEW i \in 1..Len(h.free) PROVE SizeOf(g, h.free[i]) = SizeOf(h, h.free[i])
    <2>1. PICK f : f = h.free[i]
      OBVIOUS
    <2>2. Sorted(h, {})
      BY <1>1 DEF FreeList
    <2>3. Block(h, f, FALSE) /\ Extent(h, f) \subseteq Held(h)
      BY <2>1, <2>2, SortedFacts, HeldFacts
    <2>4. f \in Addresses /\ f \in Held(h)
      BY <2>3, BlockSize
    <2>5. f \notin Extent(h, b)
      BY <1>1, <2>4, BytesFacts
    <2> QED
      BY <2>1, <2>4, <2>5 DEF SizeOf
  <1> QED
    BY <1>2 DEF SameList

\* A client writes to what it has.
LEMMA WritesWell ==
    ASSUME Sound(heap, live, call), NEW p \in DOMAIN live \ Busy, NEW v \in Values, Write(p, v)
    PROVE  Sound(heap', live', call')
  <1>1. PICK h : h = heap
    OBVIOUS
  <1>2. PICK l : l = live
    OBVIOUS
  <1>3. PICK c : c = call
    OBVIOUS
  <1>4. Sound(h, l, c) /\ h.halt = "none" /\ call' = c /\ p \in DOMAIN l
    BY <1>1, <1>2, <1>3 DEF Write, Running
  <1>5. PICK U : U = Heads(DOMAIN l)
    OBVIOUS
  <1>6. PICK X : X = Pends(c)
    OBVIOUS
  <1>7. /\ h \in Heaps /\ c \in Calls /\ DOMAIN l \subseteq Nat /\ HeapOK(h, U, X)
        /\ Entry(h, p, l[p]) /\ \A r \in DOMAIN l : r \in Nat /\ r - Header \in U
    BY <1>4, <1>5, <1>6, SoundFacts
  <1>8. PICK b \in U : b = p - Header
    BY <1>4, <1>7
  <1>9. PICK n : n = l[p].asked
    OBVIOUS
  <1>10. PICK e : e = [asked |-> n, written |-> n, value |-> v]
    OBVIOUS
  <1>11. PICK g : g = heap'
    OBVIOUS
  <1>12. PICK k : k = live'
    OBVIOUS
  <1>13. PICK K : K = (U \cup X) \ {b}
    OBVIOUS
  <1>14. g = [h EXCEPT !.mem = Fill(@, p, n, v)]
    BY <1>1, <1>2, <1>9, <1>11 DEF Write
  <1>15. /\ Becomes(h, g, U, X, K) /\ SizeOf(g, b) = SizeOf(h, b)
         /\ g.free = h.free /\ g.end = h.end /\ Entry(g, p, e)
    BY <1>4, <1>5, <1>6, <1>8, <1>9, <1>10, <1>13, <1>14, Fills
  <1>16. DOMAIN k = DOMAIN l /\ k[p] = e /\ \A r \in DOMAIN l : r # p => k[r] = l[r]
    <2>1. k = [l EXCEPT ![p].written = n, ![p].value = v]
      BY <1>2, <1>9, <1>12 DEF Write
    <2>2. PICK o \in Entries : o = l[p] /\ o.asked = n
      BY <1>7, <1>9 DEF Entry
    <2>3. PICK f : f = [o EXCEPT !.written = n, !.value = v] /\ k[p] = f
      BY <1>4, <2>1, <2>2
    <2>4. f = e
      <3>1. PICK i : i = o.written
        OBVIOUS
      <3>2. PICK u : u = o.value
        OBVIOUS
      <3>3. o = [asked |-> n, written |-> i, value |-> u]
        BY <2>2, <3>1, <3>2 DEF Entries
      <3> QED
        BY ONLY <1>10, <2>3, <3>3
    <2>5. k[p] = e
      BY <2>3, <2>4
    <2> QED
      BY <2>1, <2>5
  <1>17. PICK D : D = DOMAIN l \ {p}
    OBVIOUS
  <1>18. Heads(D) = U \ {b} /\ Heads(DOMAIN k) = U /\ b \notin X
    <2>1. b \notin X
      BY <1>7, UsedOrPending
    <2> QED
      BY <1>4, <1>5, <1>7, <1>8, <1>16, <1>17, <2>1, HeadFacts
  <1>19. Untouched(l, k, D) /\ Updated(g, k, D)
    BY <1>7, <1>15, <1>16, <1>17 DEF Untouched, Updated
  <1>20. Becomes(h, g, Heads(DOMAIN k), Pends(c), Heads(D))
    <2>1. Heads(D) \subseteq K
      BY <1>13, <1>18
    <2>2. Becomes(h, g, U, X, Heads(D))
      BY <1>15, <2>1, KeepsFewer DEF Becomes
    <2> QED
      BY <1>6, <1>18, <2>2
  <1>21. SameList(h, g)
    <2>1. PICK S : S = U \cup X /\ Tiles(h, S) /\ b \in S
      BY <1>7 DEF HeapOK
    <2>2. \A w \in Addresses \ Extent(h, b) : g.mem[w] = h.mem[w]
      <3>1. PICK Y : Y = WordsOf(p, n)
        OBVIOUS
      <3>2. Y \subseteq Extent(h, b)
        <4>1. Block(h, b, TRUE) /\ p \in Nat /\ n \in Nat /\ n <= SizeOf(h, b) - Header
          <5>1. n \in Nat /\ n <= SizeOf(h, p - Header) - Header
            BY <1>7, <1>9 DEF Entry, Entries
          <5>2. Block(h, b, TRUE) /\ p \in Nat
            BY <1>4, <1>7, <1>8 DEF HeapOK
          <5> QED
            BY <1>8, <5>1, <5>2
        <4> QED
          BY <1>7, <1>8, <3>1, <4>1, Payload
      <3>3. PICK m : m = Fill(h.mem, p, n, v)
        OBVIOUS
      <3>4. m \in Memory /\ \A w \in Addresses \ Y : m[w] = h.mem[w]
        <4>1. h.mem \in Memory
          BY <1>7, HeapFacts DEF Memory
        <4> QED
          BY <3>1, <3>3, <4>1, FillFacts
      <3>5. g.mem = m
        <4>1. WithMemory(h, m, g)
          BY <1>14, <3>3 DEF WithMemory
        <4> QED
          BY <1>7, <3>4, <4>1, MemoryUpdate
      <3> QED
        BY <3>2, <3>4, <3>5
    <2> QED
      BY <1>7, <1>15, <2>1, <2>2, ListSpared DEF Becomes
  <1>22. Spared(h, l, c, g, k, K)
    <2>1. g \in Heaps /\ h.end <= g.end /\ Keeps(h, g, K) /\ Pends(c) \subseteq K
      BY <1>6, <1>13, <1>15, <1>18 DEF Becomes
    <2>2. ASSUME NEW r \in DOMAIN l, r \in Uses(c)
          PROVE  r \in DOMAIN k /\ k[r].asked = l[r].asked /\ r - Header \in K
      <3>1. r # p
        BY <1>3, <2>2 DEF Busy, Uses
      <3>2. r \in D /\ D \subseteq Nat
        BY <1>7, <1>17, <3>1
      <3>3. r - Header \in U \ {b}
        BY <1>18, <3>2, HeadFacts
      <3> QED
        BY <1>13, <1>16, <3>1, <3>3
    <2> QED
      BY <1>21, <2>1, <2>2 DEF Spared
  <1>23. CallOK(g, k, c)
    BY <1>4, <1>22, CallKept
  <1>24. Sound(g, k, c)
    BY <1>4, <1>7, <1>19, <1>20, <1>23, SoundAfter
  <1> QED
    BY <1>4, <1>11, <1>12, <1>24

-----------------------------------------------------------------------------
(* The invariant is inductive *)

\* The sizes of the clients fit into a word.
LEMMA SizesFacts ==
    ASSUME SizesFit, NEW n \in Sizes \cup {0}
    PROVE  n \in Nat /\ FitsWord(n) /\ FitsWord(2 * n) /\ 2 * n \in Nat
  <1>1. /\ Alignment \in Nat /\ PageSize \in Nat /\ Word \in Nat /\ Word > 0 /\ MemoryEnd \in Nat
        /\ n \in Nat
    BY HeapAssumption
  <1>2. MemoryEnd + 2 * n + 2 * Alignment + PageSize <= Word
    BY DEF SizesFit
  <1> QED
    BY <1>1, <1>2 DEF FitsWord

\* What is left of the proof that a step keeps the invariant.
LEMMA StepKeeps ==
    ASSUME torn \in BOOLEAN, torn' = torn,
           ~torn => Sound(heap', live', call') /\ stats' \in [cnt : Int, bytes : Int]
    PROVE  IInv'
  BY DEF IInv

\* No block is pending when no call is under way.
LEMMA UnlockedFacts ==
    ASSUME Unlocked
    PROVE  Running /\ Pends(call) = {}
  BY DEF Unlocked, Pends

\* Every step keeps the invariant.
LEMMA NextKeeps ==
    ASSUME SizesFit, IInv, [Next]_vars
    PROVE  IInv'
  <1>1. /\ torn \in BOOLEAN
        /\ ~torn => Sound(heap, live, call) /\ stats \in [cnt : Int, bytes : Int]
    BY DEF IInv
  <1>2. ASSUME NEW n \in Sizes, KMalloc(n) PROVE IInv'
    <2>1. Unlocked /\ Allocates("malloc", NULL, n) /\ torn' = torn
      BY <1>2 DEF KMalloc
    <2>2. ASSUME ~torn PROVE Sound(heap', live', call') /\ stats' = stats
      <3>1. n \in Nat /\ FitsWord(n)
        BY SizesFacts
      <3> QED
        BY <1>1, <2>1, <2>2, <3>1, UnlockedFacts, AllocatesWell
    <2> QED
      BY <1>1, <2>1, <2>2, StepKeeps
  <1>3. ASSUME NEW n \in Sizes, NEW k \in {1, 2}, KCalloc(k, n) PROVE IInv'
    <2>1. PICK m : m = k * n
      OBVIOUS
    <2>2. Unlocked /\ Allocates("calloc", NULL, m) /\ torn' = torn
      BY <1>3, <2>1 DEF KCalloc
    <2>3. ASSUME ~torn PROVE Sound(heap', live', call') /\ stats' = stats
      <3>1. m \in Nat /\ FitsWord(m)
        <4>1. n \in Nat /\ FitsWord(n) /\ FitsWord(2 * n) /\ 2 * n \in Nat
          BY SizesFacts
        <4>2. m = n \/ m = 2 * n
          BY <2>1, <4>1
        <4> QED
          BY <4>1, <4>2
      <3> QED
        BY <1>1, <2>2, <2>3, <3>1, UnlockedFacts, AllocatesWell
    <2> QED
      BY <1>1, <2>2, <2>3, StepKeeps
  <1>4. ASSUME NEW n \in Sizes \cup {0}, NEW p \in DOMAIN live \cup {NULL}, KRealloc(p, n)
        PROVE  IInv'
    <2>1. Unlocked /\ torn' = torn /\ \/ p = NULL /\ Allocates("malloc", NULL, n)
                                      \/ p # NULL /\ n = 0 /\ Frees(p, NULL)
                                      \/ p # NULL /\ n # 0 /\ Resizes(p, n)
      BY <1>4 DEF KRealloc
    <2>2. ASSUME ~torn
          PROVE  Sound(heap', live', call') /\ stats' \in [cnt : Int, bytes : Int]
      <3>1. n \in Nat /\ FitsWord(n)
        BY SizesFacts
      <3>2. Sound(heap, live, call) /\ Running /\ Pends(call) = {} /\ stats \in [cnt : Int, bytes : Int]
        BY <1>1, <2>1, <2>2, UnlockedFacts
      <3>3. CASE Allocates("malloc", NULL, n)
        <4>1. Sound(heap', live', call') /\ stats' = stats
          BY <3>1, <3>2, <3>3, AllocatesWell
        <4> QED
          BY <3>2, <4>1
      <3>4. CASE p # NULL /\ Frees(p, NULL)
        <4>1. p \in DOMAIN live
          BY <3>4
        <4> QED
          BY <3>2, <3>4, <4>1, FreesWell
      <3>5. CASE p # NULL /\ Resizes(p, n)
        <4>1. p \in DOMAIN live
          BY <3>5
        <4>2. Sound(heap', live', call') /\ stats' = stats
          BY <3>1, <3>2, <3>5, <4>1, ResizesWell
        <4> QED
          BY <3>2, <4>2
      <3> QED
        BY <2>1, <3>3, <3>4, <3>5
    <2> QED
      BY <1>1, <2>1, <2>2, StepKeeps
  <1>5. ASSUME NEW p \in DOMAIN live, KFree(p) PROVE IInv'
    <2>1. Unlocked /\ Frees(p, NULL) /\ torn' = torn
      BY <1>5 DEF KFree
    <2>2. ASSUME ~torn
          PROVE  Sound(heap', live', call') /\ stats' \in [cnt : Int, bytes : Int]
      BY <1>1, <2>1, <2>2, UnlockedFacts, FreesWell
    <2> QED
      BY <1>1, <2>1, <2>2, StepKeeps
  <1>6. CASE FindBlock
    <2>1. torn' = torn /\ stats' = stats
      BY <1>6 DEF FindBlock
    <2> QED
      BY <1>1, <1>6, <2>1, FindsWell, StepKeeps
  <1>7. CASE TakeBlock
    <2>1. torn' = torn /\ stats' = stats
      BY <1>7 DEF TakeBlock
    <2> QED
      BY <1>1, <1>7, <2>1, TakesWell, StepKeeps
  <1>8. CASE GrowBlock
    <2>1. torn' = torn /\ stats' = stats
      BY <1>8 DEF GrowBlock
    <2> QED
      BY <1>1, <1>8, <2>1, GrowsWell, StepKeeps
  <1>9. CASE FindPlace
    <2>1. torn' = torn /\ stats' = stats
      BY <1>9 DEF FindPlace
    <2> QED
      BY <1>1, <1>9, <2>1, PlacesWell, StepKeeps
  <1>10. CASE LinkBlock
    <2>1. torn' = torn /\ stats' = stats
      BY <1>10 DEF LinkBlock
    <2> QED
      BY <1>1, <1>10, <2>1, LinksWell, StepKeeps
  <1>11. CASE MarkBlock
    <2>1. torn' = torn
      BY <1>11 DEF MarkBlock
    <2> QED
      BY <1>1, <1>11, <2>1, MarksWell, StepKeeps
  <1>12. CASE ZeroBlock
    <2>1. torn' = torn /\ stats' = stats
      BY <1>12 DEF ZeroBlock
    <2> QED
      BY <1>1, <1>12, <2>1, ZeroesWell, StepKeeps
  <1>13. CASE CopyBlock
    <2>1. torn' = torn /\ stats' = stats
      BY <1>13 DEF CopyBlock
    <2> QED
      BY <1>1, <1>13, <2>1, CopiesWell, StepKeeps
  <1>14. CASE FreeOld
    <2>1. torn' = torn
      BY <1>14 DEF FreeOld
    <2> QED
      BY <1>1, <1>14, <2>1, FreesOldWell, StepKeeps
  <1>15. ASSUME NEW p \in DOMAIN live \ Busy, NEW q \in DOMAIN live \ Busy, Reap(p, q) PROVE IInv'
    <2>1. torn' = (torn \/ Walked)
      BY <1>15 DEF Reap
    <2>2. CASE torn \/ Walked
      BY <2>1, <2>2 DEF IInv
    <2>3. CASE ~torn /\ ~Walked
      <3>1. torn' = torn
        BY <1>1, <2>1, <2>3
      <3>2. Sound(heap', live', call') /\ stats' \in [cnt : Int, bytes : Int]
        BY <1>1, <1>15, <2>3, ReapsWell
      <3> QED
        BY <1>1, <3>1, <3>2, StepKeeps
    <2> QED
      BY <2>2, <2>3
  <1>16. ASSUME NEW p \in DOMAIN live \ Busy, NEW v \in Values, Write(p, v) PROVE IInv'
    <2>1. torn' = torn /\ stats' = stats
      BY <1>16 DEF Write
    <2> QED
      BY <1>1, <1>16, <2>1, WritesWell, StepKeeps
  <1>17. CASE UNCHANGED vars
    BY <1>17 DEF vars, IInv
  <1> QED
    BY <1>2, <1>3, <1>4, <1>5, <1>6, <1>7, <1>8, <1>9, <1>10, <1>11, <1>12, <1>13, <1>14, <1>15,
       <1>16, <1>17 DEF Next

-----------------------------------------------------------------------------
(* The first heap *)

\* The region of the kernel, whose end bounds the heap.
KernelRegion(map, i) ==
    /\ i \in DOMAIN map /\ HoldsKernel(map[i]) /\ map[i].addr < Word
    /\ map[i].addr \in Nat /\ map[i].len \in Nat
    /\ internal_read_multibootinfo(map) = End(map[i])

\* The search of the memory map finds the region that the kernel is in.
LEMMA RegionFound ==
    ASSUME NEW map \in MemoryMaps
    PROVE  \E i : KernelRegion(map, i)
  <1> DEFINE I == {i \in 1..Len(map) : HoldsKernel(map[i])}
  <1>1. map \in Seq([available : BOOLEAN, addr : Nat, len : Nat])
    BY HeapAssumption
  <1>2. PICK n \in Nat : n = Len(map) /\ DOMAIN map = 1..n
    BY <1>1
  <1>3. PICK j \in 1..n : HoldsKernel(map[j]) /\ \A x \in 1..j : map[x].addr < Word
    BY <1>2, MapAssumption
  <1>4. SelectInSeq(map, HoldsKernel) = IF I # {} THEN Min(I) ELSE 0
    BY DEF SelectInSeq
  <1>5. I \subseteq Nat /\ j \in I
    BY <1>2, <1>3
  <1>6. Min(I) \in I /\ Min(I) <= j
    BY <1>5, LeastNumber
  <1>7. PICK i \in 1..n : i = Min(I) /\ HoldsKernel(map[i]) /\ i <= j
    BY <1>2, <1>6
  <1>8. SelectInSeq(map, HoldsKernel) = i /\ i # 0
    BY <1>4, <1>5, <1>7
  <1>9. map[i].addr < Word
    BY <1>3, <1>7
  <1>10. map[i] \in [available : BOOLEAN, addr : Nat, len : Nat]
    <2>1. PICK R : R = [available : BOOLEAN, addr : Nat, len : Nat]
      OBVIOUS
    <2>2. map \in Seq(R) /\ i \in 1..Len(map)
      BY <1>1, <1>2, <2>1
    <2>3. map[i] \in R
      BY ONLY <2>2, ElementOfSeq
    <2> QED
      BY <2>1, <2>3
  <1>11. internal_read_multibootinfo(map) = End(map[i])
    BY <1>8 DEF internal_read_multibootinfo
  <1>12. map[i].addr \in Nat /\ map[i].len \in Nat
    BY <1>10
  <1>13. KernelRegion(map, i)
    BY <1>2, <1>7, <1>9, <1>11, <1>12 DEF KernelRegion
  <1> QED
    BY <1>13

\* The end of the region bounds the heap.
LEMMA RegionBounds ==
    ASSUME NEW map \in MemoryMaps, NEW i, KernelRegion(map, i), NEW r, r = map[i],
           NEW max, max = internal_read_multibootinfo(map)
    PROVE  /\ max \in Nat /\ max <= MemoryEnd /\ max <= r.addr + r.len /\ r.addr <= kheap_begin
           /\ r.available
  <1>1. /\ i \in DOMAIN map /\ HoldsKernel(r) /\ r.addr < Word /\ r.addr \in Nat /\ r.len \in Nat
        /\ max = (r.addr + r.len) % Word
    BY DEF KernelRegion, End
  <1>2. max <= MemoryEnd
    <2>1. End(map[i]) <= MemoryEnd
      BY <1>1, MapAssumption
    <2> QED
      BY <1>1, <2>1 DEF End
  <1>3. Word \in Nat /\ Word > 0 /\ kernel_end \in Nat /\ kernel_end <= kheap_begin /\ kheap_begin \in Nat
    BY Begins, HeapAssumption
  <1>4. PICK x \in Nat : x = r.addr + r.len
    BY <1>1
  <1>5. x % Word \in Nat /\ x % Word <= x
    BY <1>3
  <1>6. r.addr % Word = r.addr
    BY <1>1, <1>3
  <1>7. r.addr <= kernel_end /\ r.available
    BY <1>1, <1>6 DEF HoldsKernel, Start
  <1>8. r.addr <= kheap_begin
    BY <1>1, <1>3, <1>7
  <1> QED
    BY <1>1, <1>2, <1>4, <1>5, <1>7, <1>8

\* A block at the head of an empty list.
LEMMA InsertFirst ==
    ASSUME NEW h \in Heaps, h.free = << >>, NEW b \in Addresses, NEW g, g = km_insert(h, b)
    PROVE  g \in Heaps /\ g.max = h.max /\ g.halt = h.halt
  <1>1. Belongs(h.free, b, Place(h.free, b))
    <2>1. h.free \in Seq(Addresses)
      BY HeapFacts
    <2> QED
      BY <2>1, PlaceFound
  <1>2. Place(h.free, b) = 1
    BY <1>1 DEF Belongs
  <1>3. g = InsertAtPlace(h, b, 1)
    BY <1>2 DEF km_insert
  <1>4. PICK f : f = <<b>> \o h.free
    OBVIOUS
  <1>5. f \in Seq(Addresses) /\ Len(f) = 1
    BY <1>4
  <1>6. PICK e : e = [h EXCEPT !.free = f]
    OBVIOUS
  <1>7. e \in Heaps /\ e.free = f /\ e.max = h.max /\ e.halt = h.halt
    BY <1>5, <1>6, ListUpdate
  <1>8. g = km_coalesce(e, 1)
    BY <1>3, <1>4, <1>6 DEF InsertAtPlace
  <1>9. g = e
    BY <1>5, <1>7, <1>8 DEF km_coalesce
  <1> QED
    BY <1>7, <1>9

\* The empty heap that kmalloc_init() starts from.
Empty(max, h) ==
    h = [mem  |-> [w \in Addresses |-> Junk],
         free |-> <<>>, end |-> kheap_begin, max |-> max, halt |-> "none"]

\* Its parts.
LEMMA EmptyFacts ==
    ASSUME NEW max \in Nat, NEW h, Empty(max, h)
    PROVE  /\ h \in Heaps /\ h.free = << >> /\ h.end = kheap_begin /\ h.max = max
           /\ h.halt = "none"
  <1>1. kheap_begin \in Nat
    BY Begins
  <1>2. PICK m : m = [w \in Addresses |-> Junk]
    OBVIOUS
  <1>3. m \in [Addresses -> Values \cup {Junk} \cup Headers]
    BY <1>2
  <1>4. h = [mem |-> m, free |-> <<>>, end |-> kheap_begin, max |-> max, halt |-> "none"]
    BY <1>2 DEF Empty
  <1> QED
    BY <1>1, <1>3, <1>4 DEF Heaps

\* It has no blocks and no bytes.
LEMMA EmptyTiles ==
    ASSUME NEW max \in Nat, NEW h, Empty(max, h), kheap_begin <= max, max <= MemoryEnd
    PROVE  Tiles(h, {})
  <1>1. /\ h \in Heaps /\ h.free = << >> /\ h.end = kheap_begin /\ h.max = max
        /\ h.halt = "none"
    BY EmptyFacts
  <1>2. Len(h.free) = 0 /\ DOMAIN h.free = {} /\ Range(h.free) = {}
    BY <1>1 DEF Range
  <1>3. FreeList(h)
    <2>1. Chain(0, Places(h), Lengths(h), {})
      BY <1>2 DEF Chain, Intervals, Places, Lengths
    <2> QED
      BY <1>2, <2>1 DEF FreeList, Sorted
  <1>4. kheap_begin \in Nat /\ kheap_begin % Alignment = 0
    BY Begins
  <1>5. Inside(h)
    BY <1>1, <1>4 DEF Inside
  <1>6. Held(h) = {} /\ Bytes(h, {}) = {}
    BY <1>2 DEF Held, Bytes
  <1>7. kheap_begin..(kheap_begin - 1) = {}
    BY <1>4
  <1> QED
    BY <1>1, <1>3, <1>5, <1>6, <1>7 DEF Tiles, Apart

\* kmalloc_init() leaves one free block, or has found no memory.
LEMMA BootGood ==
    ASSUME NEW max \in Nat, max <= MemoryEnd, NEW g, g = Boot(max)
    PROVE  /\ g \in Heaps /\ g.max = max /\ g.halt # "assert"
           /\ g.halt = "none" => HeapOK(g, {}, {})
  <1>1. PICK h : Empty(max, h)
    BY DEF Empty
  <1>2. /\ h \in Heaps /\ h.free = << >> /\ h.end = kheap_begin /\ h.max = max
        /\ h.halt = "none"
    BY <1>1, EmptyFacts
  <1>3. PICK b \in Nat : b = kheap_begin
    BY Begins
  <1>4. b \in Addresses
    BY <1>3, AddressFacts
  <1>5. /\ Alignment \in Nat \ {0} /\ PageSize \in Nat \ {0} /\ Word \in Nat \ {0} /\ MemoryEnd \in Nat
        /\ HeapInit \in Nat \ {0} /\ PageSize % Alignment = 0 /\ b < MemoryEnd
        /\ MemoryEnd + HeapInit + PageSize <= Word
    BY <1>3, Begins, HeapAssumption
  <1>6. PICK z \in Nat : /\ z = Align(HeapInit, PageSize) /\ z % PageSize = 0
                         /\ HeapInit <= z /\ z < HeapInit + PageSize
    <2>1. HeapInit + PageSize <= Word
      BY <1>5
    <2> QED
      BY <1>5, <2>1, AlignRoundsUp
  <1>7. z > 0 /\ z % Alignment = 0
    BY <1>5, <1>6, MultipleOfMultiple
  <1>8. (b + z) % Word = b + z
    <2>1. PICK x \in Nat : x = b + z
      OBVIOUS
    <2>2. x < Word
      BY <1>5, <1>6, <2>1
    <2>3. x % Word = x
      BY <1>5, <2>2
    <2> QED
      BY <2>1, <2>3
  <1>9. PICK e : e = km_extend(h, HeapInit)
    OBVIOUS
  <1>10. e = IF b + z > max THEN [h EXCEPT !.end = b + z, !.halt = "oom"]
             ELSE km_initblock([h EXCEPT !.end = b + z], b, z)
    BY <1>2, <1>3, <1>6, <1>8, <1>9 DEF km_extend
  <1>11. g = km_insert(e, b)
    <2>1. max # NULL
      BY HeapAssumption
    <2> QED
      BY <1>1, <1>3, <1>9, <2>1 DEF Boot, Empty
  <1>12. CASE b + z > max
    <2>1. e = [h EXCEPT !.end = b + z, !.halt = "oom"] /\ b + z \in Nat
      BY <1>10, <1>12
    <2>2. e \in Heaps /\ e.max = h.max /\ e.halt = "oom"
      BY ONLY <1>2, <2>1, Halted
    <2>3. e.free = << >>
      BY <1>2, <2>1 DEF Heaps
    <2>4. g \in Heaps /\ g.max = e.max /\ g.halt = e.halt
      BY <1>4, <1>11, <2>2, <2>3, InsertFirst
    <2> QED
      BY <1>2, <2>2, <2>4
  <1>13. CASE ~(b + z > max)
    <2>1. Extended(h, z, e) /\ h.end + z <= h.max /\ kheap_begin <= max
      BY <1>2, <1>3, <1>10, <1>13 DEF Extended
    <2>2. Tiles(h, {})
      BY <1>1, <2>1, EmptyTiles
    <2>3. PICK S : S = {} /\ Tiles(h, S)
      BY <2>2
    <2>4. /\ e \in Heaps /\ e.end = h.end + z /\ e.max = h.max /\ e.halt = h.halt
          /\ Tiles(e, S \cup {h.end}) /\ h.end \notin S /\ Keeps(h, e, S)
          /\ Block(e, h.end, FALSE) /\ SizeOf(e, h.end) = z
      <3>1. h \in Heaps /\ Extended(h, z, e) /\ h.end + z <= h.max
        BY <1>2, <2>1
      <3>2. Tiles(h, S)
        BY <2>3
      <3> QED
        BY ONLY <1>7, <3>1, <3>2, z \in Nat, Extend
    <2>5. Tiles(e, {b}) /\ Block(e, b, FALSE)
      <3>1. S \cup {h.end} = {b} /\ h.end = b
        BY <1>2, <1>3, <2>3
      <3> QED
        BY <2>4, <3>1
    <2>6. Left(e, g, {b} \ {b}, {b} \ {b})
      BY <1>11, <2>4, <2>5, PutBack
    <2>7. {b} \ {b} = {}
      OBVIOUS
    <2>8. g \in Heaps /\ g.max = e.max /\ g.halt = e.halt /\ Tiles(g, {})
      BY <2>6, <2>7 DEF Left
    <2>9. {} \cup {} = {}
      OBVIOUS
    <2>10. HeapOK(g, {}, {})
      BY <2>8, <2>9 DEF HeapOK
    <2> QED
      BY <1>2, <2>4, <2>8, <2>10
  <1> QED
    BY <1>12, <1>13

\* The first state satisfies the invariant.
LEMMA InitGood ==
    ASSUME Init
    PROVE  IInv
  <1>1. /\ mmap \in MemoryMaps /\ heap = Boot(internal_read_multibootinfo(mmap))
        /\ stats = [cnt |-> 0, bytes |-> 0] /\ live = << >> /\ call = Idle /\ torn = FALSE
    BY DEF Init
  <1>2. PICK i : KernelRegion(mmap, i)
    BY <1>1, RegionFound
  <1>3. PICK max : max = internal_read_multibootinfo(mmap)
    OBVIOUS
  <1>4. max \in Nat /\ max <= MemoryEnd
    BY <1>1, <1>2, <1>3, RegionBounds
  <1>5. /\ heap \in Heaps /\ heap.max = max /\ heap.halt # "assert"
        /\ heap.halt = "none" => HeapOK(heap, {}, {})
    BY <1>1, <1>3, <1>4, BootGood
  <1>6. DOMAIN live = {} /\ Heads({}) = {}
    BY <1>1 DEF Heads
  <1>7. Agrees(heap, live, {})
    BY <1>5, <1>6 DEF Agrees
  <1>8. stats \in [cnt : Int, bytes : Int]
    BY <1>1
  <1>9. Sound(heap, live, call)
    BY <1>1, <1>5, <1>7, IdleSound
  <1> QED
    BY <1>1, <1>8, <1>9 DEF IInv

\* What the clients have are the blocks in use, and some block may be pending.
LEMMA UsedFacts == UsedBlocks = Heads(DOMAIN live) /\ Pending = Pends(call)
  BY DEF UsedBlocks, Heads, Pending, Pends

\* The parts of the invariant, of an intact heap.
LEMMA IntactFacts ==
    ASSUME IInv, Intact
    PROVE  Sound(heap, live, call) /\ heap \in Heaps /\ heap.halt = "none"
  BY DEF IInv, Intact, Running, Sound

\* A block of an intact heap, with its bounds.
LEMMA BlockFacts ==
    ASSUME IInv, Intact
    PROVE  /\ Tiles(heap, UsedBlocks \cup Pending) /\ heap \in Heaps
           /\ \A b \in UsedBlocks : Block(heap, b, TRUE)
           /\ \A b \in Pending : Block(heap, b, FALSE)
           /\ \A i \in 1..Len(heap.free) : Block(heap, heap.free[i], FALSE)
           /\ \A b \in FreeBlocks : Block(heap, b, FALSE)
           /\ FreeBlocks \cap UsedBlocks = {}
  <1>1. heap \in Heaps /\ heap.halt = "none" /\ Agrees(heap, live, Pends(call))
    BY IntactFacts DEF Sound
  <1>2. HeapOK(heap, UsedBlocks, Pending)
    BY <1>1, UsedFacts DEF Agrees
  <1>3. Tiles(heap, UsedBlocks \cup Pending) /\ \A b \in UsedBlocks : Block(heap, b, TRUE)
    BY <1>2 DEF HeapOK
  <1>4. \A b \in Pending : Block(heap, b, FALSE)
    BY <1>2 DEF HeapOK
  <1>5. DOMAIN heap.free = 1..Len(heap.free)
    BY <1>1, HeapFacts
  <1>6. \A i \in 1..Len(heap.free) : Block(heap, heap.free[i], FALSE)
    BY <1>3, <1>5 DEF Tiles, FreeList, Sorted
  <1>7. \A b \in FreeBlocks : Block(heap, b, FALSE)
    BY <1>5, <1>6 DEF FreeBlocks, Range
  <1>8. FreeBlocks \cap UsedBlocks = {}
    BY <1>3, <1>7 DEF Block
  <1> QED
    BY <1>1, <1>3, <1>4, <1>6, <1>7, <1>8

\* The type invariant follows.
LEMMA HeapTypes ==
    ASSUME IInv
    PROVE  TypeOK
  <1>1. torn \in BOOLEAN
    BY DEF IInv
  <1>2. ASSUME ~torn
        PROVE  /\ heap.halt \in {"none", "oom", "assert", "stale"}
               /\ heap.mem \in [Addresses -> Values \cup {Junk} \cup Headers]
               /\ heap.free \in Seq(Addresses)
               /\ UsedBlocks \cup Pending \subseteq Addresses
               /\ stats \in [cnt : Int, bytes : Int]
    <2>1. Sound(heap, live, call) /\ stats \in [cnt : Int, bytes : Int]
      BY <1>2 DEF IInv
    <2>2. heap \in Heaps /\ Agrees(heap, live, Pends(call))
      BY <2>1 DEF Sound
    <2>3. /\ heap.halt \in {"none", "oom", "assert"} /\ heap.free \in Seq(Addresses)
          /\ heap.mem \in [Addresses -> Values \cup {Junk} \cup Headers]
      BY <2>2, HeapFacts
    <2>4. UsedBlocks \cup Pending \subseteq Addresses
      BY <2>2, UsedFacts DEF Agrees
    <2> QED
      BY <2>1, <2>3, <2>4
  <1> QED
    BY <1>1, <1>2 DEF TypeOK

\* The order of the free list.
LEMMA FreeOrder ==
    ASSUME NEW h \in Heaps, FreeList(h), NEW i \in 1..Len(h.free), NEW j \in 1..Len(h.free), i < j
    PROVE  h.free[i] + SizeOf(h, h.free[i]) < h.free[j]
  <1>1. PICK n \in Nat : n = Len(h.free)
    BY HeapFacts
  <1>2. PICK F : F = Places(h)
    OBVIOUS
  <1>3. PICK Z : Z = Lengths(h)
    OBVIOUS
  <1>4. Sorted(h, {})
    BY DEF FreeList
  <1>5. /\ Chain(n, F, Z, {}) /\ F[i] = h.free[i] /\ Z[i] = SizeOf(h, h.free[i])
        /\ F[j] = h.free[j]
    BY <1>1, <1>2, <1>3, <1>4, SortedFacts
  <1>6. F[i] + Z[i] < F[j]
    BY <1>1, <1>5, ChainFacts
  <1> QED
    BY <1>5, <1>6

\* The blocks tile the heap.
LEMMA HeapTiled ==
    ASSUME IInv
    PROVE  BlocksTile
  <1> SUFFICES ASSUME Intact
               PROVE  /\ FreeBlocks \cap UsedBlocks = {}
                      /\ \A b \in Blocks : IsHeader(heap.mem[b]) /\ heap.mem[b].alloc = (b \in UsedBlocks)
                      /\ \A b, c \in Blocks : b < c => b + SizeOf(heap, b) <= c
                      /\ UNION {Extent(heap, b) : b \in Blocks} = kheap_begin..(heap.end - 1)
    BY DEF BlocksTile
  <1>0. PICK S : S = UsedBlocks \cup Pending
    OBVIOUS
  <1>1. /\ Tiles(heap, S) /\ heap \in Heaps
        /\ \A b \in UsedBlocks : Block(heap, b, TRUE)
        /\ \A b \in Pending : Block(heap, b, FALSE)
        /\ \A i \in 1..Len(heap.free) : Block(heap, heap.free[i], FALSE)
        /\ \A b \in FreeBlocks : Block(heap, b, FALSE)
        /\ FreeBlocks \cap UsedBlocks = {}
    BY <1>0, BlockFacts
  <1>2. ASSUME NEW b \in Blocks
        PROVE  IsHeader(heap.mem[b]) /\ heap.mem[b].alloc = (b \in UsedBlocks)
    <2>1. heap.mem[b] \in Headers
      BY <1>1 DEF Blocks, Block
    <2>2. IsHeader(heap.mem[b])
      BY <2>1, HeadersKnown
    <2>3. CASE b \in UsedBlocks
      <3>1. heap.mem[b].alloc = TRUE
        BY <1>1, <2>3 DEF Block
      <3> QED
        BY <2>2, <2>3, <3>1
    <2>4. CASE b \notin UsedBlocks
      <3>1. heap.mem[b].alloc = FALSE
        BY <1>1, <2>4 DEF Block, Blocks
      <3>2. (b \in UsedBlocks) = FALSE
        BY <2>4
      <3> QED
        BY <2>2, <3>1, <3>2, Zenon
    <2> QED
      BY <2>3, <2>4
  <1>3. ASSUME NEW b \in Blocks, NEW c \in Blocks, b < c
        PROVE  b + SizeOf(heap, b) <= c
    <2>1. PICK x, y : Block(heap, b, x) /\ Block(heap, c, y)
      BY <1>1 DEF Blocks
    <2>2. /\ b \in Nat /\ c \in Nat /\ SizeOf(heap, b) \in Nat /\ c \in Extent(heap, c)
          /\ b \in Extent(heap, b)
          /\ \A a : a \in Extent(heap, b) <=> a \in Nat /\ b <= a /\ a < b + SizeOf(heap, b)
      BY <1>1, <2>1, BlockSize
    <2>3. CASE b \in FreeBlocks /\ c \in FreeBlocks
      <3>1. PICK i \in 1..Len(heap.free) : heap.free[i] = b
        BY <1>1, <2>3, HeapFacts DEF FreeBlocks, Range
      <3>2. PICK j \in 1..Len(heap.free) : heap.free[j] = c
        BY <1>1, <2>3, HeapFacts DEF FreeBlocks, Range
      <3>3. FreeList(heap) /\ Len(heap.free) \in Nat
        BY <1>1, HeapFacts DEF Tiles
      <3>4. i # j
        BY <1>3, <2>2, <3>1, <3>2
      <3>5. CASE i < j
        <4>1. b + SizeOf(heap, b) < c
          BY <1>1, <3>1, <3>2, <3>3, <3>5, FreeOrder
        <4> QED
          BY <2>2, <4>1
      <3>6. CASE j < i
        <4>1. c + SizeOf(heap, c) < b
          BY <1>1, <3>1, <3>2, <3>3, <3>6, FreeOrder
        <4>2. SizeOf(heap, c) \in Nat
          BY <1>1, <2>1, BlockSize
        <4> QED
          BY <1>3, <2>2, <4>1, <4>2
      <3> QED
        BY <3>3, <3>4, <3>5, <3>6
    <2>4. CASE b \in S /\ c \in S
      <3>1. Extent(heap, b) \cap Extent(heap, c) = {}
        <4>1. b # c
          BY <1>3, <2>2
        <4> QED
          BY <1>1, <2>4, <4>1 DEF Tiles, Apart
      <3> QED
        BY <1>3, <2>2, <3>1
    <2>5. CASE (b \in FreeBlocks /\ c \in S) \/ (b \in S /\ c \in FreeBlocks)
      <3>1. Held(heap) \cap Bytes(heap, S) = {}
        BY <1>1 DEF Tiles
      <3>2. Extent(heap, b) \cap Extent(heap, c) = {}
        BY <2>5, <3>1 DEF Held, Bytes, FreeBlocks
      <3> QED
        BY <1>3, <2>2, <3>2
    <2> QED
      BY <1>0, <2>3, <2>4, <2>5 DEF Blocks
  <1>4. UNION {Extent(heap, b) : b \in Blocks} = kheap_begin..(heap.end - 1)
    <2>1. Held(heap) \cup Bytes(heap, S) = kheap_begin..(heap.end - 1)
      BY <1>1 DEF Tiles
    <2>2. UNION {Extent(heap, b) : b \in Blocks} = Held(heap) \cup Bytes(heap, S)
      BY <1>0 DEF Held, Bytes, Blocks, FreeBlocks
    <2> QED
      BY <2>1, <2>2
  <1> QED
    BY <1>1, <1>2, <1>3, <1>4

\* The free list is sorted and merged.
LEMMA ListMerged ==
    ASSUME IInv
    PROVE  FreeListCoalesced
  <1> SUFFICES ASSUME Intact, NEW i \in DOMAIN heap.free, NEW j \in DOMAIN heap.free, i < j
               PROVE  heap.free[i] + SizeOf(heap, heap.free[i]) < heap.free[j]
    BY DEF FreeListCoalesced
  <1>1. heap \in Heaps /\ FreeList(heap)
    BY BlockFacts DEF Tiles
  <1>2. i \in 1..Len(heap.free) /\ j \in 1..Len(heap.free)
    BY <1>1, HeapFacts
  <1> QED
    BY <1>1, <1>2, FreeOrder

\* The clients' blocks are as large, and hold, what the ledger says.
LEMMA LedgerKept ==
    ASSUME IInv
    PROVE  ContentsKept /\ AtLeastAsked
  <1>1. ASSUME Intact, NEW p \in DOMAIN live
        PROVE  /\ \A w \in WordsOf(p, live[p].written) : heap.mem[w] = live[p].value
               /\ live[p].asked <= SizeOf(heap, p - Header) - Header
    <2>1. Entry(heap, p, live[p])
      BY <1>1, IntactFacts DEF Sound, Agrees
    <2> QED
      BY <2>1 DEF Entry
  <1> QED
    BY <1>1 DEF ContentsKept, AtLeastAsked

-----------------------------------------------------------------------------
(* The end of the heap. Only km_extend() moves it, and it checks the bound, whatever has
   become of the free list: this invariant does without the other one. *)

Fields == {"mem", "free", "end", "max", "halt"}

\* Heap g ends where h does, and has not come to run again.
Ends(h, g) ==
    DOMAIN h = Fields =>
        /\ DOMAIN g = Fields /\ g.end = h.end /\ g.max = h.max
        /\ g.halt = "none" => h.halt = "none"

\* It ends where it may if it runs.
Bounded(h) ==
    DOMAIN h = Fields /\ h.end \in Nat /\ h.max \in Nat /\ (h.halt = "none" => h.end <= h.max)

\* A call has a size.
Sized(c) == "size" \in DOMAIN c /\ c.size \in Nat

RamInv ==
    /\ mmap \in MemoryMaps /\ heap.max = internal_read_multibootinfo(mmap)
    /\ Bounded(heap) /\ Sized(call)

\* Changes of the memory and of the list.
LEMMA EndsEdits ==
    ASSUME NEW h, NEW m, NEW f
    PROVE  /\ Ends(h, h) /\ Ends(h, [h EXCEPT !.mem = m]) /\ Ends(h, [h EXCEPT !.free = f])
           /\ Ends(h, [h EXCEPT !.mem = m, !.free = f])
           /\ \A r : r # "none" => Ends(h, [h EXCEPT !.halt = r])
  BY DEF Ends, Fields

\* A change after another.
LEMMA EndsTwice ==
    ASSUME NEW h, NEW e, NEW g, Ends(h, e), Ends(e, g)
    PROVE  Ends(h, g)
  BY DEF Ends

\* What runs is bounded still.
LEMMA StillBounded ==
    ASSUME NEW h, NEW g, Bounded(h), Ends(h, g)
    PROVE  Bounded(g) /\ g.max = h.max
  BY DEF Ends, Bounded

\* The operators that change a header.
LEMMA EndsHeaders ==
    ASSUME NEW h, NEW b, NEW n
    PROVE  /\ Ends(h, km_initblock(h, b, n)) /\ Ends(h, km_setsize(h, b, n))
           /\ Ends(h, km_setalloc(h, b)) /\ Ends(h, km_clearalloc(h, b))
  <1>1. Ends(h, km_initblock(h, b, n))
    BY EndsEdits DEF km_initblock
  <1>2. Ends(h, km_setsize(h, b, n))
    BY EndsEdits DEF km_setsize
  <1>3. Ends(h, km_setalloc(h, b))
    BY EndsEdits DEF km_setalloc
  <1>4. Ends(h, km_clearalloc(h, b))
    BY EndsEdits DEF km_clearalloc
  <1> QED
    BY <1>1, <1>2, <1>3, <1>4

\* Merging two blocks.
LEMMA EndsCoalesce ==
    ASSUME NEW h, NEW i
    PROVE  Ends(h, km_coalesce(h, i))
  <1>1. PICK b : b = h.free[i]
    OBVIOUS
  <1>2. PICK f : f = RemoveAt(h.free, i + 1)
    OBVIOUS
  <1>3. PICK g : g = [h EXCEPT !.mem[b].size = @ + SizeOf(h, h.free[i + 1]), !.free = RemoveAt(@, i + 1)]
    OBVIOUS
  <1>4. km_coalesce(h, i) = g \/ km_coalesce(h, i) = h
    BY <1>1, <1>3 DEF km_coalesce
  <1>5. Ends(h, g)
    BY <1>3 DEF Ends, Fields
  <1> QED
    BY <1>4, <1>5, EndsEdits

\* Linking a block in.
LEMMA EndsAtPlace ==
    ASSUME NEW h, NEW b, NEW i
    PROVE  Ends(h, InsertAtPlace(h, b, i))
  <1>1. PICK e : e = [h EXCEPT !.free = <<b>> \o h.free]
    OBVIOUS
  <1>2. PICK f : f = [h EXCEPT !.free = InsertAt(h.free, i, b)]
    OBVIOUS
  <1>3. PICK a : a = [h EXCEPT !.halt = "assert"]
    OBVIOUS
  <1>4. PICK k : k = km_coalesce(f, i)
    OBVIOUS
  <1>5. \/ InsertAtPlace(h, b, i) = km_coalesce(e, 1)
        \/ InsertAtPlace(h, b, i) = a
        \/ InsertAtPlace(h, b, i) = km_coalesce(k, i - 1)
    BY <1>1, <1>2, <1>3, <1>4 DEF InsertAtPlace
  <1>6. Ends(h, e) /\ Ends(h, f) /\ Ends(h, a)
    BY <1>1, <1>2, <1>3, EndsEdits
  <1>7. Ends(e, km_coalesce(e, 1)) /\ Ends(f, k) /\ Ends(k, km_coalesce(k, i - 1))
    BY <1>4, EndsCoalesce
  <1> QED
    BY <1>5, <1>6, <1>7, EndsTwice

\* The stores after a walk.
LEMMA EndsLists ==
    ASSUME NEW h, NEW b, NEW prev, NEW next
    PROVE  Ends(h, km_unlink(h, prev, b)) /\ Ends(h, km_link(h, b, prev, next))
  <1>1. PICK f : f = SubSeq(h.free, 1, Index(h.free, prev)) \o SubSeq(h.free, Index(h.free, b) + 1, Len(h.free))
    OBVIOUS
  <1>2. Ends(h, km_unlink(h, prev, b))
    BY <1>1, EndsEdits DEF km_unlink
  <1>3. Ends(h, km_link(h, b, prev, next))
    BY EndsEdits, EndsAtPlace DEF km_link
  <1> QED
    BY <1>2, <1>3

\* A whole kfree() of the interrupt.
LEMMA EndsFree ==
    ASSUME NEW h, NEW p
    PROVE  Ends(h, _kfree_unsafe(h, p))
  <1>1. PICK b : b = p - Header
    OBVIOUS
  <1>2. PICK e : e = km_clearalloc(h, b)
    OBVIOUS
  <1>3. \/ _kfree_unsafe(h, p) = h
        \/ _kfree_unsafe(h, p) = [h EXCEPT !.halt = "assert"]
        \/ _kfree_unsafe(h, p) = InsertAtPlace(e, b, Place(e.free, b))
    BY <1>1, <1>2 DEF _kfree_unsafe, km_insert
  <1>4. Ends(h, e) /\ Ends(e, InsertAtPlace(e, b, Place(e.free, b)))
    BY <1>2, EndsHeaders, EndsAtPlace
  <1>5. Ends(h, h) /\ Ends(h, [h EXCEPT !.halt = "assert"])
    BY EndsEdits
  <1>6. Ends(h, InsertAtPlace(e, b, Place(e.free, b)))
    BY <1>4, EndsTwice
  <1> QED
    BY <1>3, <1>5, <1>6

\* km_extend() halts the kernel rather than pass the bound.
LEMMA ExtendBounded ==
    ASSUME NEW h, Bounded(h), NEW n \in Nat, h.halt = "none", NEW g, g = km_extend(h, n)
    PROVE  Bounded(g) /\ g.max = h.max
  <1>1. /\ DOMAIN h = Fields /\ h.end \in Nat /\ h.max \in Nat
    BY DEF Bounded
  <1>2. PageSize \in Nat \ {0} /\ Word \in Nat \ {0}
    BY Begins
  <1>3. PICK z : z = Align(n, PageSize)
    OBVIOUS
  <1>4. z \in Nat
    <2>1. PICK x \in Nat : x = (n + PageSize - 1) % Word
      BY <1>2
    <2>2. z = (x \div PageSize) * PageSize
      BY <1>3, <2>1 DEF Align
    <2> QED
      BY <1>2, <2>1, <2>2
  <1>5. PICK e \in Nat : e = (h.end + z) % Word
    BY <1>1, <1>2, <1>4
  <1>6. PICK k : k = [h EXCEPT !.end = e]
    OBVIOUS
  <1>7. /\ e > h.max => g = [h EXCEPT !.end = e, !.halt = "oom"]
        /\ ~(e > h.max) => g = km_initblock(k, h.end, z)
    BY <1>3, <1>5, <1>6 DEF km_extend
  <1>8. CASE e > h.max
    BY <1>1, <1>5, <1>7, <1>8 DEF Bounded, Fields
  <1>9. CASE ~(e > h.max)
    <2>1. DOMAIN k = Fields /\ k.end = e /\ k.max = h.max
      BY <1>1, <1>6 DEF Fields
    <2>2. e <= h.max
      BY <1>1, <1>5, <1>9
    <2>3. Bounded(k)
      BY <1>1, <1>5, <2>1, <2>2 DEF Bounded
    <2>4. Ends(k, g)
      BY <1>7, <1>9, EndsHeaders
    <2> QED
      BY <2>1, <2>3, <2>4, StillBounded
  <1> QED
    BY <1>8, <1>9

\* What a step that keeps the bounds of the heap must show.
Bounds(h, g, c) == Bounded(g) /\ g.max = h.max /\ Sized(c)

\* A size that is asked for is a number.
LEMMA TargetNumber ==
    ASSUME NEW n \in Int
    PROVE  TargetSize(n % Word) \in Nat
  <1>1. Alignment \in Nat \ {0} /\ Word \in Nat \ {0}
    BY Begins
  <1>2. PICK m \in Nat : m = n % Word
    BY <1>1
  <1>3. PICK x \in Nat : x = (m + Header) % Word
    BY <1>1 DEF Header
  <1>4. PICK y \in Nat : y = (x + Alignment - 1) % Word
    BY <1>1
  <1>5. TargetSize(m) = (y \div Alignment) * Alignment
    BY <1>3, <1>4 DEF TargetSize, Align
  <1> QED
    BY <1>1, <1>2, <1>4, <1>5

\* A call for new memory begins.
LEMMA AllocatesBounded ==
    ASSUME Bounded(heap), NEW op, NEW p, NEW n \in Int, Allocates(op, p, n)
    PROVE  Bounds(heap, heap', call')
  <1>1. heap' = heap
    BY DEF Allocates
  <1>2. PICK z : z = TargetSize(n % Word)
    OBVIOUS
  <1>3. z \in Nat
    BY <1>2, TargetNumber
  <1>4. call' = [Idle EXCEPT !.at = "find", !.op = op, !.ptr = p, !.asked = n, !.size = z]
    BY <1>2 DEF Allocates
  <1>5. Sized(call')
    BY <1>3, <1>4 DEF Sized, Idle
  <1> QED
    BY <1>1, <1>5 DEF Bounds

\* A failed assertion.
LEMMA PanicsBounded ==
    ASSUME Bounded(heap), Sized(call), NEW r, r # "none", Panics(r)
    PROVE  Bounds(heap, heap', call')
  <1>1. heap' = [heap EXCEPT !.halt = r] /\ call' = call
    BY DEF Panics
  <1>2. Ends(heap, heap')
    BY <1>1, EndsEdits
  <1>3. Sized(call')
    BY <1>1
  <1> QED
    BY <1>2, <1>3, StillBounded DEF Bounds

\* The first stores of kfree().
LEMMA FreesBounded ==
    ASSUME Bounded(heap), Sized(call), NEW p, NEW k, Frees(p, k)
    PROVE  Bounds(heap, heap', call')
  <1>1. CASE Panics("assert")
    BY <1>1, PanicsBounded
  <1>2. CASE ~Panics("assert")
    <2>1. PICK b : b = p - Header
      OBVIOUS
    <2>2. /\ heap' = km_clearalloc(heap, b)
          /\ call' = [Idle EXCEPT !.at = "place", !.op = "free", !.ptr = k, !.block = b]
      BY <1>2, <2>1 DEF Frees
    <2>3. Ends(heap, heap')
      BY <2>2, EndsHeaders
    <2>4. Sized(call')
      BY <2>2 DEF Sized, Idle
    <2> QED
      BY <2>3, <2>4, StillBounded DEF Bounds
  <1> QED
    BY <1>1, <1>2

\* km_split() up to km_insert().
LEMMA SplitsBounded ==
    ASSUME NEW h, Bounded(h), NEW c, Sized(c), Splits(h, c)
    PROVE  Bounds(h, heap', call')
  <1>1. \/ heap' = h
        \/ heap' = km_initblock(h, Remainder(c), (SizeOf(h, c.block) - c.size) % Word)
    BY DEF Splits
  <1>2. Ends(h, h) /\ Ends(h, km_initblock(h, Remainder(c), (SizeOf(h, c.block) - c.size) % Word))
    BY EndsEdits, EndsHeaders
  <1>3. Ends(h, heap')
    BY <1>1, <1>2
  <1>4. \/ call' = Idle \/ call' = [c EXCEPT !.at = "mark"] \/ call' = [c EXCEPT !.at = "place"]
    BY DEF Splits
  <1>5. Sized(call')
    BY <1>4 DEF Sized, Idle
  <1> QED
    BY <1>3, <1>5, StillBounded DEF Bounds

\* krealloc() begins.
LEMMA ResizesBounded ==
    ASSUME Bounded(heap), Sized(call), NEW p, NEW n \in Int, n % Word = n, Resizes(p, n)
    PROVE  Bounds(heap, heap', call')
  <1>1. PICK b : b = p - Header
    OBVIOUS
  <1>2. PICK z : z = TargetSize(n)
    OBVIOUS
  <1>3. z \in Nat
    BY <1>2, TargetNumber
  <1>4. PICK c : c = [Idle EXCEPT !.op = "resize", !.ptr = p, !.asked = n, !.block = b, !.size = z]
    OBVIOUS
  <1>5. Sized(c)
    BY <1>3, <1>4 DEF Sized, Idle
  <1>6. \/ Panics("assert") \/ Splits(heap, c) \/ Allocates("move", p, n)
        \/ \E x, y : call' = [c EXCEPT !.at = "grow", !.prev = x, !.next = y] /\ heap' = heap
    BY <1>1, <1>2, <1>4 DEF Resizes
  <1>7. CASE Panics("assert")
    BY <1>7, PanicsBounded
  <1>8. CASE Splits(heap, c)
    BY <1>5, <1>8, SplitsBounded
  <1>9. CASE Allocates("move", p, n)
    BY <1>9, AllocatesBounded
  <1>10. CASE \E x, y : call' = [c EXCEPT !.at = "grow", !.prev = x, !.next = y] /\ heap' = heap
    <2>1. PICK x, y : call' = [c EXCEPT !.at = "grow", !.prev = x, !.next = y] /\ heap' = heap
      BY <1>10
    <2>2. Sized(call')
      BY <1>5, <2>1 DEF Sized, Idle
    <2> QED
      BY <2>1, <2>2 DEF Bounds
  <1> QED
    BY <1>6, <1>7, <1>8, <1>9, <1>10

\* A block is unlinked or the heap is extended.
LEMMA TakeBounded ==
    ASSUME Bounded(heap), Sized(call), TakeBlock
    PROVE  Bounds(heap, heap', call')
  <1>1. PICK b : b = IF call.block = NULL THEN heap.end ELSE call.block
    OBVIOUS
  <1>2. PICK h : h = IF call.block = NULL THEN km_extend(heap, call.size)
                     ELSE km_unlink(heap, call.prev, b)
    OBVIOUS
  <1>3. PICK c : c = [call EXCEPT !.block = b, !.prev = NULL]
    OBVIOUS
  <1>4. Running /\ ((heap' = h /\ call' = call) \/ Splits(h, c))
    BY <1>1, <1>2, <1>3 DEF TakeBlock, At
  <1>5. Bounded(h) /\ h.max = heap.max
    <2>1. CASE call.block = NULL
      <3>1. call.size \in Nat /\ heap.halt = "none"
        BY <1>4 DEF Sized, Running
      <3> QED
        BY <1>2, <2>1, <3>1, ExtendBounded
    <2>2. CASE call.block # NULL
      <3>1. Ends(heap, h)
        BY <1>2, <2>2, EndsLists
      <3> QED
        BY <3>1, StillBounded
    <2> QED
      BY <2>1, <2>2
  <1>6. CASE heap' = h /\ call' = call
    BY <1>5, <1>6 DEF Bounds
  <1>7. CASE Splits(h, c)
    <2>1. Sized(c)
      BY <1>3 DEF Sized, Idle
    <2>2. Bounds(h, heap', call')
      BY <1>5, <1>7, <2>1, SplitsBounded
    <2> QED
      BY <1>5, <2>2 DEF Bounds
  <1> QED
    BY <1>4, <1>6, <1>7

\* A block grows into the one behind it.
LEMMA GrowBounded ==
    ASSUME Bounded(heap), Sized(call), GrowBlock
    PROVE  Bounds(heap, heap', call')
  <1>1. PICK h : h = km_unlink(heap, call.prev, call.next)
    OBVIOUS
  <1>2. PICK n : n = SizeOf(h, call.block) + SizeOf(h, call.next)
    OBVIOUS
  <1>3. PICK g : g = km_setsize(h, call.block, n)
    OBVIOUS
  <1>4. PICK c : c = [call EXCEPT !.prev = NULL, !.next = NULL]
    OBVIOUS
  <1>5. (heap' = h /\ call' = call) \/ Splits(g, c)
    BY <1>1, <1>2, <1>3, <1>4 DEF GrowBlock
  <1>6. Bounded(h) /\ h.max = heap.max
    <2>1. Ends(heap, h)
      BY <1>1, EndsLists
    <2> QED
      BY <2>1, StillBounded
  <1>7. Bounded(g) /\ g.max = h.max
    <2>1. Ends(h, g)
      BY <1>3, EndsHeaders
    <2> QED
      BY <1>6, <2>1, StillBounded
  <1>8. CASE heap' = h /\ call' = call
    BY <1>6, <1>8 DEF Bounds
  <1>9. CASE Splits(g, c)
    <2>1. Sized(c)
      BY <1>4 DEF Sized, Idle
    <2>2. Bounds(g, heap', call')
      BY <1>7, <1>9, <2>1, SplitsBounded
    <2> QED
      BY <1>6, <1>7, <2>2 DEF Bounds
  <1> QED
    BY <1>5, <1>8, <1>9

\* The stores of km_insert().
LEMMA LinkBounded ==
    ASSUME Bounded(heap), Sized(call), LinkBlock
    PROVE  Bounds(heap, heap', call')
  <1>1. PICK h : h = km_link(heap, ToInsert, call.prev, call.next)
    OBVIOUS
  <1>2. heap' = h \/ heap' = km_setsize(h, call.block, call.size)
    BY <1>1 DEF LinkBlock
  <1>3. Ends(heap, h) /\ Ends(h, h) /\ Ends(h, km_setsize(h, call.block, call.size))
    BY <1>1, EndsLists, EndsEdits, EndsHeaders
  <1>4. Ends(heap, heap')
    BY <1>2, <1>3, EndsTwice
  <1>5. \/ call' = call \/ call' = Idle
        \/ call' = [call EXCEPT !.at = "mark", !.prev = NULL, !.next = NULL]
    BY <1>1 DEF LinkBlock
  <1>6. Sized(call')
    <2>1. CASE call' = call
      BY <2>1
    <2>2. CASE call' = Idle
      BY <2>2 DEF Sized, Idle
    <2>3. CASE call' = [call EXCEPT !.at = "mark", !.prev = NULL, !.next = NULL]
      BY <2>3 DEF Sized
    <2> QED
      BY <1>5, <2>1, <2>2, <2>3
  <1> QED
    BY <1>4, <1>6, StillBounded DEF Bounds

\* The interrupt frees two blocks.
LEMMA ReapBounded ==
    ASSUME Bounded(heap), Sized(call), NEW p, NEW q, Reap(p, q)
    PROVE  Bounds(heap, heap', call')
  <1>1. PICK h : h = _kfree_unsafe(heap, p)
    OBVIOUS
  <1>2. heap' = _kfree_unsafe(h, q) /\ call' = call
    BY <1>1 DEF Reap
  <1>3. Ends(heap, h) /\ Ends(h, heap')
    BY <1>1, <1>2, EndsFree
  <1>4. Ends(heap, heap')
    BY <1>3, EndsTwice
  <1>5. Sized(call')
    BY <1>2
  <1> QED
    BY <1>4, <1>5, StillBounded DEF Bounds

\* The steps that only write memory or change the call.
LEMMA PlainBounded ==
    ASSUME Bounded(heap), Sized(call),
           FindBlock \/ FindPlace \/ MarkBlock \/ ZeroBlock \/ CopyBlock
    PROVE  Bounds(heap, heap', call')
  <1>1. CASE FindBlock
    <2>1. heap' = heap /\ \E y, z : call' = [call EXCEPT !.at = "take", !.block = y, !.prev = z]
      BY <1>1 DEF FindBlock
    <2>2. Sized(call')
      BY <2>1 DEF Sized, Idle
    <2> QED
      BY <2>1, <2>2 DEF Bounds
  <1>2. CASE FindPlace
    <2>1. heap' = heap /\ \E y, z : call' = [call EXCEPT !.at = "link", !.prev = y, !.next = z]
      BY <1>2 DEF FindPlace
    <2>2. Sized(call')
      BY <2>1 DEF Sized, Idle
    <2> QED
      BY <2>1, <2>2 DEF Bounds
  <1>3. CASE MarkBlock
    <2>1. heap' = km_setalloc(heap, call.block)
      BY <1>3 DEF MarkBlock
    <2>2. Ends(heap, heap')
      BY <2>1, EndsHeaders
    <2>3. Sized(call')
      BY <1>3 DEF MarkBlock, Sized, Idle
    <2> QED
      BY <2>2, <2>3, StillBounded DEF Bounds
  <1>4. CASE ZeroBlock
    <2>1. PICK m : heap' = [heap EXCEPT !.mem = m]
      BY <1>4 DEF ZeroBlock
    <2>2. Ends(heap, heap')
      BY <2>1, EndsEdits
    <2>3. Sized(call')
      BY <1>4 DEF ZeroBlock, Sized, Idle
    <2> QED
      BY <2>2, <2>3, StillBounded DEF Bounds
  <1>5. CASE CopyBlock
    <2>1. PICK m : heap' = [heap EXCEPT !.mem = m]
      BY <1>5 DEF CopyBlock
    <2>2. Ends(heap, heap')
      BY <2>1, EndsEdits
    <2>3. call' = [call EXCEPT !.at = "free"]
      BY <1>5 DEF CopyBlock
    <2>4. Sized(call')
      BY <2>3 DEF Sized, Idle
    <2> QED
      BY <2>2, <2>4, StillBounded DEF Bounds
  <1> QED
    BY <1>1, <1>2, <1>3, <1>4, <1>5

\* What is left of the proof that a step keeps the bound.
LEMMA BoundKeeps ==
    ASSUME RamInv, mmap' = mmap, Bounds(heap, heap', call')
    PROVE  RamInv'
  BY DEF RamInv, Bounds

\* Every step keeps the bound.
LEMMA RamKeeps ==
    ASSUME RamInv, [Next]_vars
    PROVE  RamInv'
  <1>1. Bounded(heap) /\ Sized(call)
    BY DEF RamInv
  <1>2. ASSUME NEW n \in Sizes \cup {0} PROVE n \in Int /\ n % Word = n
    <2>1. Word \in Nat \ {0} /\ n \in 0..(Word - 1)
      BY HeapAssumption
    <2> QED
      BY <2>1
  <1>3. ASSUME NEW n \in Sizes, KMalloc(n) PROVE RamInv'
    <2>1. Allocates("malloc", NULL, n) /\ mmap' = mmap
      BY <1>3 DEF KMalloc
    <2> QED
      BY <1>1, <1>2, <2>1, AllocatesBounded, BoundKeeps
  <1>4. ASSUME NEW n \in Sizes, NEW k \in {1, 2}, KCalloc(k, n) PROVE RamInv'
    <2>1. PICK m \in Int : m = k * n
      BY <1>2
    <2>2. Allocates("calloc", NULL, m) /\ mmap' = mmap
      BY <1>4, <2>1 DEF KCalloc
    <2> QED
      BY <1>1, <2>2, AllocatesBounded, BoundKeeps
  <1>5. ASSUME NEW n \in Sizes \cup {0}, NEW p \in DOMAIN live \cup {NULL}, KRealloc(p, n)
        PROVE  RamInv'
    <2>1. mmap' = mmap /\ \/ Allocates("malloc", NULL, n)
                          \/ Frees(p, NULL)
                          \/ Resizes(p, n)
      BY <1>5 DEF KRealloc
    <2>2. n \in Int /\ n % Word = n
      BY <1>2
    <2>3. Bounds(heap, heap', call')
      BY <1>1, <2>1, <2>2, AllocatesBounded, FreesBounded, ResizesBounded
    <2> QED
      BY <2>1, <2>3, BoundKeeps
  <1>6. ASSUME NEW p \in DOMAIN live, KFree(p) PROVE RamInv'
    <2>1. Frees(p, NULL) /\ mmap' = mmap
      BY <1>6 DEF KFree
    <2> QED
      BY <1>1, <2>1, FreesBounded, BoundKeeps
  <1>7. CASE TakeBlock
    <2>1. mmap' = mmap
      BY <1>7 DEF TakeBlock
    <2> QED
      BY <1>1, <1>7, <2>1, TakeBounded, BoundKeeps
  <1>8. CASE GrowBlock
    <2>1. mmap' = mmap
      BY <1>8 DEF GrowBlock
    <2> QED
      BY <1>1, <1>8, <2>1, GrowBounded, BoundKeeps
  <1>9. CASE LinkBlock
    <2>1. mmap' = mmap
      BY <1>9 DEF LinkBlock
    <2> QED
      BY <1>1, <1>9, <2>1, LinkBounded, BoundKeeps
  <1>10. CASE FindBlock \/ FindPlace \/ MarkBlock \/ ZeroBlock \/ CopyBlock
    <2>1. mmap' = mmap
      BY <1>10 DEF FindBlock, FindPlace, MarkBlock, ZeroBlock, CopyBlock
    <2> QED
      BY <1>1, <1>10, <2>1, PlainBounded, BoundKeeps
  <1>11. CASE FreeOld
    <2>1. Frees(call.ptr, Pointer(call.block)) /\ mmap' = mmap
      BY <1>11 DEF FreeOld
    <2> QED
      BY <1>1, <2>1, FreesBounded, BoundKeeps
  <1>12. ASSUME NEW p, NEW q, Reap(p, q) PROVE RamInv'
    <2>1. mmap' = mmap
      BY <1>12 DEF Reap
    <2> QED
      BY <1>1, <1>12, <2>1, ReapBounded, BoundKeeps
  <1>13. ASSUME NEW p, NEW v, Write(p, v) PROVE RamInv'
    <2>1. PICK m : heap' = [heap EXCEPT !.mem = m] /\ call' = call /\ mmap' = mmap
      BY <1>13 DEF Write
    <2>2. Ends(heap, heap')
      BY <2>1, EndsEdits
    <2>3. Bounds(heap, heap', call')
      BY <1>1, <2>1, <2>2, StillBounded DEF Bounds
    <2> QED
      BY <2>1, <2>3, BoundKeeps
  <1>14. CASE UNCHANGED vars
    BY <1>14 DEF vars, RamInv
  <1> QED
    BY <1>3, <1>4, <1>5, <1>6, <1>7, <1>8, <1>9, <1>10, <1>11, <1>12, <1>13, <1>14 DEF Next

\* It holds at first.
LEMMA RamBegins ==
    ASSUME Init
    PROVE  RamInv
  <1>1. /\ mmap \in MemoryMaps /\ heap = Boot(internal_read_multibootinfo(mmap)) /\ call = Idle
    BY DEF Init
  <1>2. PICK i : KernelRegion(mmap, i)
    BY <1>1, RegionFound
  <1>3. PICK max : max = internal_read_multibootinfo(mmap)
    OBVIOUS
  <1>4. max \in Nat /\ max <= MemoryEnd
    BY <1>1, <1>2, <1>3, RegionBounds
  <1>5. heap \in Heaps /\ heap.max = max /\ (heap.halt = "none" => HeapOK(heap, {}, {}))
    BY <1>1, <1>3, <1>4, BootGood
  <1>6. heap.halt = "none" => heap.end <= heap.max
    BY <1>5 DEF HeapOK, Tiles, Inside
  <1>7. DOMAIN heap = Fields /\ heap.end \in Nat /\ heap.max \in Nat
    BY <1>5 DEF Heaps, Fields
  <1>8. Sized(call)
    BY <1>1 DEF Sized, Idle
  <1> QED
    BY <1>1, <1>3, <1>5, <1>6, <1>7, <1>8 DEF RamInv, Bounded

\* The heap is in the region that the kernel is in.
LEMMA HeapBelowRam ==
    ASSUME RamInv
    PROVE  HeapInRam
  <1> SUFFICES ASSUME Running
               PROVE  \E i \in DOMAIN mmap : /\ mmap[i].available
                                             /\ mmap[i].addr <= kheap_begin
                                             /\ heap.end <= mmap[i].addr + mmap[i].len
    BY DEF HeapInRam
  <1>1. mmap \in MemoryMaps /\ heap.max = internal_read_multibootinfo(mmap) /\ Bounded(heap)
    BY DEF RamInv
  <1>2. PICK i : KernelRegion(mmap, i)
    BY <1>1, RegionFound
  <1>3. PICK r : r = mmap[i]
    OBVIOUS
  <1>4. i \in DOMAIN mmap /\ r.addr \in Nat /\ r.len \in Nat
    BY <1>2, <1>3 DEF KernelRegion
  <1>5. PICK max : max = internal_read_multibootinfo(mmap)
    OBVIOUS
  <1>6. /\ max \in Nat /\ max <= r.addr + r.len /\ r.addr <= kheap_begin
        /\ r.available
    BY <1>1, <1>2, <1>3, <1>5, RegionBounds
  <1>7. heap.end \in Nat /\ heap.end <= max
    BY <1>1, <1>5 DEF Bounded, Running
  <1>8. heap.end <= r.addr + r.len
    BY <1>4, <1>6, <1>7
  <1> QED
    BY <1>3, <1>4, <1>6, <1>8

-----------------------------------------------------------------------------
(* The theorems *)

\* In every state in which the timer interrupt has not freed blocks between a walk through
\* the free list and the stores that use it, the blocks of the heap tile it, the list is
\* sorted and merged, the clients' blocks hold what they were promised, and the call under
\* way finds what its steps rely on. The interrupt may come between any other two steps.
THEOREM HeapInvariant ==
    ASSUME SizesFit
    PROVE  Spec => []IInv
  <1>1. Init => IInv
    BY InitGood
  <1>2. IInv /\ [Next]_vars => IInv'
    BY NextKeeps
  <1> QED
    BY <1>1, <1>2, PTL DEF Spec

\* The heap, its list and the clients' pointers are of their types: the words of memory
\* that have an address, and blocks at aligned addresses in it, whatever was called.
THEOREM HeapTypeCorrect ==
    ASSUME SizesFit
    PROVE  Spec => []TypeOK
  <1>1. IInv => TypeOK
    BY HeapTypes
  <1> QED
    BY <1>1, HeapInvariant, PTL

\* Unless the interrupt comes between a walk and its stores, no assertion of kmalloc.c
\* fails: not those of kfree() and krealloc() about the mark of a block, not those of
\* km_insert() about the neighbours that its walk found, and krealloc() finds in the free
\* list the unmarked block behind the one it resizes, however many kfree() of the
\* interrupt have come between the other steps of the call.
THEOREM NoAssertFails ==
    ASSUME SizesFit
    PROVE  Spec => []NoAssert
  <1>1. IInv => NoAssert
    BY DEF IInv, Sound, NoAssert
  <1> QED
    BY <1>1, HeapInvariant, PTL

\* On the same condition, in the middle of a call and between calls: splitting, merging,
\* growing in place and moving, and a kfree() of the interrupt in the middle of them, lose
\* no byte of the heap and give none of them out twice.
THEOREM HeapNeverTorn ==
    ASSUME SizesFit
    PROVE  Spec => []BlocksTile
  <1>1. IInv => BlocksTile
    BY HeapTiled
  <1> QED
    BY <1>1, HeapInvariant, PTL

\* km_extend() stops at the end of the region that the kernel is in, for every map in
\* which the boot loader lists that region before any above the last address of a word,
\* whatever sizes are asked for and wherever the interrupt comes.
THEOREM HeapStaysInRam == Spec => []HeapInRam
  <1>1. Init => RamInv
    BY RamBegins
  <1>2. RamInv /\ [Next]_vars => RamInv'
    BY RamKeeps
  <1>3. RamInv => HeapInRam
    BY HeapBelowRam
  <1> QED
    BY <1>1, <1>2, <1>3, PTL DEF Spec

\* km_insert() and km_coalesce() keep the free list sorted and leave no two blocks in
\* it that touch, as long as no kfree() comes between the walk and the links of km_insert().
THEOREM FreeListMerged ==
    ASSUME SizesFit
    PROVE  Spec => []FreeListCoalesced
  <1>1. IInv => FreeListCoalesced
    BY ListMerged
  <1> QED
    BY <1>1, HeapInvariant, PTL

\* A client finds in its block what it has written there or kcalloc() has, through every
\* step of the calls of others, of its own krealloc() and of the interrupt, as long as the
\* interrupt has not come between a walk and its stores.
THEOREM ContentsSurvive ==
    ASSUME SizesFit
    PROVE  Spec => []ContentsKept
  <1>1. IInv => ContentsKept
    BY LedgerKept
  <1> QED
    BY <1>1, HeapInvariant, PTL

\* On that condition, behind every pointer there are as many bytes as its client asked for.
THEOREM BlocksLargeEnough ==
    ASSUME SizesFit
    PROVE  Spec => []AtLeastAsked
  <1>1. IInv => AtLeastAsked
    BY LedgerKept
  <1> QED
    BY <1>1, HeapInvariant, PTL
=============================================================================
