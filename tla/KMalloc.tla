------------------------------ MODULE KMalloc ------------------------------
(***************************************************************************)
(* The kernel heap (src/src/kernel/kmalloc.c). Addresses and sizes are in  *)
(* bytes. Memory is a function of the aligned addresses: an aligned word   *)
(* holds a block header or a value of the client's.                        *)
(*                                                                         *)
(* free_list_lock is held throughout kmalloc(), kcalloc(), krealloc() and  *)
(* kfree(): one call is under way at a time, and module Synch is about the *)
(* lock. But mutex_acquire() enables the interrupts again, and the lock is *)
(* recursive: the timer interrupt of the thread that holds it may free the *)
(* blocks of a thread that has exited in the middle of the call. So a call *)
(* is made of steps, with a step for every walk through the free list and  *)
(* one for the stores that use what the walk found; Reap is the interrupt. *)
(* It may come before, between and after these steps. From the beginning   *)
(* of a walk to the last of its stores the code depends on a list that     *)
(* does not change: for an interrupt in there the model has the one        *)
(* between the two steps, and the history variable torn says that it came. *)
(*                                                                         *)
(* The singly linked free list is the sequence of its blocks. The debug    *)
(* output is left out. Clients free and resize only what they were given.  *)
(***************************************************************************)
EXTENDS Integers, Sequences, FiniteSets, SequencesExt, FiniteSetsExt, Functions

CONSTANTS Alignment,     \* KMALLOC_ALIGNMENT, sizeof (km_block_header_t), KMALLOC_MAX_INTERNAL_FRAG
          PageSize,      \* KMALLOC_PAGESIZE
          HeapInit,      \* KMALLOC_HEAP_INIT_SIZE
          kernel_end,    \* the first address behind the kernel
          MemoryMaps,    \* the memory maps the boot loader may pass on
          MemoryEnd,     \* bound: no available memory from here to Word
          Word,          \* size_t and uint32_t count modulo Word
          NULL,
          Zero, Values,  \* what clients store; Zero is what kcalloc() stores
          Junk,          \* memory that nobody has written to
          Sizes,         \* bound: the sizes clients ask for
          MaxLive        \* bound: the number of blocks clients have at a time

\* km_block_header_t: the size and the mark; the list is modelled by a sequence.
Headers == [size : Nat, alloc : BOOLEAN]

ASSUME HeapAssumption ==
    /\ {Alignment, PageSize, HeapInit, kernel_end, MemoryEnd, Word} \subseteq Nat \ {0}
    /\ PageSize % Alignment = 0 /\ HeapInit % PageSize = 0
    /\ Word % PageSize = 0
    /\ kernel_end + PageSize <= MemoryEnd /\ MemoryEnd + HeapInit + PageSize <= Word
    /\ \A map \in MemoryMaps : map \in Seq([available : BOOLEAN, addr : Nat, len : Nat])
    /\ Zero \in Values /\ Junk \notin Values
    /\ \A v \in Values \cup {Junk} : v \notin Headers
    /\ NULL \notin Nat
    /\ Sizes \subseteq 0..(Word - 1)

VARIABLES heap,  \* mem, the free list (free), kheap_end (end), kheap_max_end
                 \* (max), and the reason for which the kernel has halted
                 \* ("none", "oom" or "assert"; "stale": see km_unlink)
          stats, \* kmalloc_stats: allocations minus frees, in calls and in bytes
          live,  \* what clients have: pointer -> bytes asked for, bytes written, value
          mmap,  \* the memory map of the machine: regions, in order
          call,  \* the call that holds free_list_lock, and its local variables
          torn   \* the interrupt has come between a walk and its stores

vars == <<heap, stats, live, mmap, call, torn>>

\* No call holds the lock. The call under way: the step it is at, the work it does,
\* the pointer it is to resize, the bytes asked for, the block it is about, the size
\* that is to have, and the neighbours in the free list that its last walk found.
Idle == [at |-> "none", op |-> "none", ptr |-> NULL, asked |-> 0,
         block |-> NULL, size |-> 0, prev |-> NULL, next |-> NULL]

\* KMALLOC_ALIGN, in unsigned arithmetic.
Align(x, align) == (((x + align - 1) % Word) \div align) * align

Header == Alignment
kheap_begin == Align(kernel_end, PageSize)
Addresses == {a \in kheap_begin..(MemoryEnd - 1) : a % Alignment = 0}

IsHeader(x) == x \notin Values \cup {Junk}

\* Mutant: the header is not added to the size asked for.
TargetSizeBare(n) == Align(n, Alignment)

TargetSize(n) == Align((n + Header) % Word, Alignment)

\* What the clients' sizes must satisfy for the heap to keep its promises: no sum that
\* is computed for them overflows. These are the bytes of kcalloc() for two elements, the
\* header, two roundings and the end of the heap.
SizesFit == \A n \in Sizes \cup {0} : MemoryEnd + 2 * n + 2 * Alignment + PageSize <= Word

\* The aligned words that the n bytes from address a on touch.
WordsOf(a, n) == {w \in Addresses : a <= w /\ w < a + n}

Fill(mem, a, n, v) == [w \in Addresses |-> IF w \in WordsOf(a, n) THEN v ELSE mem[w]]

Copy(mem, from, to, n) ==
    [w \in Addresses |-> IF w \in WordsOf(to, n) THEN mem[from + (w - to)] ELSE mem[w]]

-----------------------------------------------------------------------------
(* The free list. These operators map a heap to a heap. *)

SizeOf(h, b) == h.mem[b].size

km_initblock(h, b, n) == [h EXCEPT !.mem[b] = [size |-> n, alloc |-> FALSE]]

\* Block i of the free list swallows its successor if that is its neighbour.
km_coalesce(h, i) ==
    LET b == h.free[i]
    IN  IF i < Len(h.free) /\ b + SizeOf(h, b) = h.free[i + 1]
        THEN [h EXCEPT !.mem[b].size = @ + SizeOf(h, h.free[i + 1]),
                       !.free = RemoveAt(@, i + 1)]
        ELSE h

\* Where block b belongs in a list sorted by address.
Place(free, b) ==
    LET behind == SelectInSeq(free, LAMBDA f : f > b)
    IN  IF behind = 0 THEN Len(free) + 1 ELSE behind

\* Mutant: the block is merged with the block behind it only.
InsertAtPlaceNoMergePrev(h, b, i) ==
    km_coalesce([h EXCEPT !.free = InsertAt(@, i, b)], i)

\* Block b is merged with the block behind it, and then the block before it
\* with the result.
InsertAtPlace(h, b, i) ==
    IF i = 1 THEN km_coalesce([h EXCEPT !.free = <<b>> \o @], 1)
    ELSE IF \/ h.free[i - 1] + SizeOf(h, h.free[i - 1]) > b
            \/ i <= Len(h.free) /\ b + SizeOf(h, b) > h.free[i]
         THEN [h EXCEPT !.halt = "assert"]
    ELSE km_coalesce(km_coalesce([h EXCEPT !.free = InsertAt(@, i, b)], i), i - 1)

km_insert(h, b) == InsertAtPlace(h, b, Place(h.free, b))

\* A new block of whole pages at the end of the heap, not in the free list.
km_extend(h, n) ==
    LET size == Align(n, PageSize)
        end  == (h.end + size) % Word
    IN  IF end > h.max THEN [h EXCEPT !.end = end, !.halt = "oom"]
        ELSE km_initblock([h EXCEPT !.end = end], h.end, size)

\* Mutant: the block keeps the size it had before its rest was split off.
km_setsize_forgotten(h, b, n) == h

km_setsize(h, b, n) == IF h.halt # "none" THEN h ELSE [h EXCEPT !.mem[b].size = n]

-----------------------------------------------------------------------------
(* The stores that follow a walk. They use the blocks that it found. If one of those has
   left the list since, merged with its neighbour, its header is not modelled any more,
   and neither is what the call does: the model stops ("stale"). *)

\* Where block x is in a list, or 0; its neighbours at place i.
Index(free, x) == SelectInSeq(free, LAMBDA f : f = x)
Before(free, i) == IF i <= 1 THEN NULL ELSE free[i - 1]
Behind(free, i) == IF i < Len(free) THEN free[i + 1] ELSE NULL

Gone(h, x) == x # NULL /\ Index(h.free, x) = 0

\* prev, or the head of the list, is linked to what is behind block b.
km_unlink(h, prev, b) ==
    IF Gone(h, prev) \/ Gone(h, b) THEN [h EXCEPT !.halt = "stale"]
    ELSE [h EXCEPT !.free = SubSeq(@, 1, Index(@, prev)) \o SubSeq(@, Index(@, b) + 1, Len(@))]

\* The second half of km_insert(): block b goes behind prev, or else to the head.
km_link(h, b, prev, next) ==
    IF Gone(h, prev) THEN [h EXCEPT !.halt = "stale"]
    ELSE IF prev # NULL /\ Behind(h.free, Index(h.free, prev)) # next
    THEN [h EXCEPT !.halt = "assert"]
    ELSE InsertAtPlace(h, b, Index(h.free, prev) + 1)

-----------------------------------------------------------------------------
(* The calls *)

Running == heap.halt = "none"
Unlocked == Running /\ call.at = "none"
At(step) == Running /\ call.at = step
Room == Cardinality(DOMAIN live) < MaxLive

\* Mutants: the pointer is to the header; the block is not marked as allocated; of what
\* is freed, the header is not counted; the last word of the payload is not copied.
PointerToHeader(b) == b
km_setalloc_forgotten(h, b) == h
CountedBare(h, b) == SizeOf(h, b) - Header
PayloadSizeShort(h, ptr) == SizeOf(h, ptr - Header) - Header - Alignment

Pointer(b) == b + Header
km_setalloc(h, b) == [h EXCEPT !.mem[b].alloc = TRUE]
km_clearalloc(h, b) == [h EXCEPT !.mem[b].alloc = FALSE]
Counted(h, b) == SizeOf(h, b)
PayloadSize(h, ptr) == SizeOf(h, ptr - Header) - Header

InUse(h, b) == IsHeader(h.mem[b]) /\ h.mem[b].alloc
Entry0(asked) == [asked |-> asked, written |-> 0, value |-> Junk]

\* What krealloc() keeps of what was written to ptr.
Kept(ptr, asked) == [asked |-> asked, written |-> Min({asked, live[ptr].written}),
                     value |-> live[ptr].value]

Without(ptrs) == [p \in DOMAIN live \ ptrs |-> live[p]]
With(ptr, entry) == [p \in DOMAIN live \cup {ptr} |-> IF p = ptr THEN entry ELSE live[p]]

\* A call ends the kernel.
Panics(reason) == heap' = [heap EXCEPT !.halt = reason] /\ UNCHANGED <<stats, live, call>>

\* A call for a block of new memory: it is to look through the free list.
Allocates(op, ptr, asked) ==
    /\ call' = [Idle EXCEPT !.at = "find", !.op = op, !.ptr = ptr, !.asked = asked,
                            !.size = TargetSize(asked % Word)]
    /\ UNCHANGED <<heap, stats, live>>

\* _kfree_unsafe() of ptr up to km_insert(); the call keeps the pointer `kept'.
Frees(ptr, kept) ==
    LET b == ptr - Header
    IN  IF ~InUse(heap, b) THEN Panics("assert")
        ELSE /\ heap' = km_clearalloc(heap, b)
             /\ stats' = [cnt |-> stats.cnt - 1, bytes |-> stats.bytes - Counted(heap, b)]
             /\ live' = Without({ptr})
             /\ call' = [Idle EXCEPT !.at = "place", !.op = "free", !.ptr = kept, !.block = b]

\* km_split() of block c.block of heap h, for call c: what it has beyond c.size bytes
\* is to go back to the free list, unless that is too small to be a block.
Remainder(c) == (c.block + c.size) % Word

Splits(h, c) ==
    IF SizeOf(h, c.block) < (c.size + Alignment) % Word
    THEN /\ heap' = h
         /\ call' = IF c.op = "resize" THEN Idle ELSE [c EXCEPT !.at = "mark"]
    ELSE /\ heap' = km_initblock(h, Remainder(c), (SizeOf(h, c.block) - c.size) % Word)
         /\ call' = [c EXCEPT !.at = "place"]

\* krealloc() of ptr to n bytes: in place if the block is large enough, or is with the
\* free block behind it, for which the free list is walked.
Resizes(ptr, n) ==
    LET b    == ptr - Header
        next == b + SizeOf(heap, b)
        i    == Index(heap.free, next)
        c    == [Idle EXCEPT !.op = "resize", !.ptr = ptr, !.asked = n,
                             !.block = b, !.size = TargetSize(n)]
    IN  IF ~InUse(heap, b) THEN Panics("assert")
        ELSE IF SizeOf(heap, b) >= c.size
        THEN Splits(heap, c) /\ live' = With(ptr, Kept(ptr, n)) /\ UNCHANGED stats
        ELSE IF /\ next < heap.end /\ ~heap.mem[next].alloc
                /\ SizeOf(heap, b) + SizeOf(heap, next) >= c.size
        THEN IF i = 0 THEN Panics("assert")
             ELSE /\ call' = [c EXCEPT !.at = "grow", !.prev = Before(heap.free, i), !.next = next]
                  /\ UNCHANGED <<heap, stats, live>>
        ELSE Allocates("move", ptr, n)

KMalloc(n) == Unlocked /\ Room /\ Allocates("malloc", NULL, n) /\ UNCHANGED <<mmap, torn>>

KCalloc(nelems, elemsize) ==
    Unlocked /\ Room /\ Allocates("calloc", NULL, nelems * elemsize) /\ UNCHANGED <<mmap, torn>>

KRealloc(ptr, n) ==
    /\ Unlocked
    /\ \/ ptr = NULL /\ Room /\ Allocates("malloc", NULL, n)
       \/ ptr # NULL /\ n = 0 /\ Frees(ptr, NULL)
       \/ ptr # NULL /\ n # 0 /\ Resizes(ptr, n)
    /\ UNCHANGED <<mmap, torn>>

\* kfree (NULL) does nothing.
KFree(ptr) == Unlocked /\ Frees(ptr, NULL) /\ UNCHANGED <<mmap, torn>>

-----------------------------------------------------------------------------
(* The steps of the call under way *)

\* The walk of km_find(): first fit, or no block.
FindBlock ==
    LET i == SelectInSeq(heap.free, LAMBDA b : SizeOf(heap, b) >= call.size)
    IN  /\ At("find")
        /\ call' = [call EXCEPT !.at = "take", !.block = IF i = 0 THEN NULL ELSE heap.free[i],
                                !.prev = Before(heap.free, i)]
        /\ UNCHANGED <<heap, stats, live, mmap, torn>>

\* Its stores, or else a new block; then km_split().
TakeBlock ==
    LET b == IF call.block = NULL THEN heap.end ELSE call.block
        h == IF call.block = NULL THEN km_extend(heap, call.size)
             ELSE km_unlink(heap, call.prev, b)
    IN  /\ At("take")
        /\ IF h.halt # "none" THEN heap' = h /\ UNCHANGED call
           ELSE Splits(h, [call EXCEPT !.block = b, !.prev = NULL])
        /\ UNCHANGED <<stats, live, mmap, torn>>

\* krealloc() takes the free block behind off the list and grows into it; then km_split().
GrowBlock ==
    LET h == km_unlink(heap, call.prev, call.next)
        g == km_setsize(h, call.block, SizeOf(h, call.block) + SizeOf(h, call.next))
    IN  /\ At("grow")
        /\ IF h.halt # "none" THEN heap' = h /\ UNCHANGED <<call, live>>
           ELSE /\ Splits(g, [call EXCEPT !.prev = NULL, !.next = NULL])
                /\ live' = With(call.ptr, Kept(call.ptr, call.asked))
        /\ UNCHANGED <<stats, mmap, torn>>

\* The block that the call is to put into the free list.
ToInsert == IF call.op = "free" THEN call.block ELSE Remainder(call)

\* The walk of km_insert().
FindPlace ==
    LET i == Place(heap.free, ToInsert)
    IN  /\ At("place")
        /\ call' = [call EXCEPT !.at = "link", !.prev = Before(heap.free, i),
                                !.next = IF i <= Len(heap.free) THEN heap.free[i] ELSE NULL]
        /\ UNCHANGED <<heap, stats, live, mmap, torn>>

\* Its assertions and stores, and the end of km_split().
LinkBlock ==
    LET h == km_link(heap, ToInsert, call.prev, call.next)
    IN  /\ At("link")
        /\ heap' = IF call.op = "free" THEN h ELSE km_setsize(h, call.block, call.size)
        /\ call' = IF h.halt # "none" THEN call
                   ELSE IF call.op \in {"free", "resize"} THEN Idle
                   ELSE [call EXCEPT !.at = "mark", !.prev = NULL, !.next = NULL]
        /\ UNCHANGED <<stats, live, mmap, torn>>

\* The end of _kmalloc_unsafe(), which _kcalloc_unsafe() and _krealloc_unsafe() call too.
MarkBlock ==
    /\ At("mark")
    /\ heap' = km_setalloc(heap, call.block)
    /\ stats' = [cnt |-> stats.cnt + 1, bytes |-> stats.bytes + SizeOf(heap, call.block)]
    /\ live' = With(Pointer(call.block), Entry0(call.asked))
    /\ call' = CASE call.op = "malloc" -> Idle
                 [] call.op = "calloc" -> [call EXCEPT !.at = "zero"]
                 [] OTHER              -> [call EXCEPT !.at = "copy"]
    /\ UNCHANGED <<mmap, torn>>

\* The loop of _kcalloc_unsafe().
ZeroBlock ==
    LET ptr == Pointer(call.block)
        n   == call.asked % Word
    IN  /\ At("zero")
        /\ heap' = [heap EXCEPT !.mem = Fill(@, ptr, n, Zero)]
        /\ live' = With(ptr, [asked |-> call.asked, written |-> n, value |-> Zero])
        /\ call' = Idle
        /\ UNCHANGED <<stats, mmap, torn>>

\* The loop of _krealloc_unsafe(): the whole payload is copied to the block just allocated.
CopyBlock ==
    LET ptr == Pointer(call.block)
    IN  /\ At("copy")
        /\ heap' = [heap EXCEPT !.mem = Copy(@, call.ptr, ptr, PayloadSize(heap, call.ptr))]
        /\ live' = With(ptr, Kept(call.ptr, call.asked))
        /\ call' = [call EXCEPT !.at = "free"]
        /\ UNCHANGED <<stats, mmap, torn>>

FreeOld == At("free") /\ Frees(call.ptr, Pointer(call.block)) /\ UNCHANGED <<mmap, torn>>

-----------------------------------------------------------------------------
(* The interrupt, and the clients *)

\* The pointers that the call under way works on.
Busy == {call.ptr} \cup {Pointer(b) : b \in {call.block} \ {NULL}}

\* _kfree_unsafe(), in one step.
_kfree_unsafe(h, ptr) ==
    LET b == ptr - Header
    IN  IF h.halt # "none" THEN h
        ELSE IF ~InUse(h, b) THEN [h EXCEPT !.halt = "assert"]
        ELSE km_insert(km_clearalloc(h, b), b)

\* A walk has found blocks that the call is to use.
Walked == call.at \in {"grow", "link"} \/ (call.at = "take" /\ call.block # NULL)

\* The timer interrupt frees the stack and the thread_t of a thread that has exited, with
\* the interrupts disabled. If it holds the lock already, it does not wait.
Reap(stack_base, thread) ==
    LET h == _kfree_unsafe(heap, stack_base)
        g == _kfree_unsafe(h, thread)
    IN  /\ Running /\ stack_base # thread
        /\ heap' = g
        /\ stats' = [cnt   |-> stats.cnt - 2,
                     bytes |-> stats.bytes - (Counted(heap, stack_base - Header)
                                              + Counted(h, thread - Header))]
        /\ live' = Without({stack_base, thread})
        /\ torn' = (torn \/ Walked)
        /\ UNCHANGED <<mmap, call>>

\* A client stores a value all over the bytes it asked for.
Write(ptr, v) ==
    /\ Running
    /\ heap' = [heap EXCEPT !.mem = Fill(@, ptr, live[ptr].asked, v)]
    /\ live' = [live EXCEPT ![ptr].written = live[ptr].asked, ![ptr].value = v]
    /\ UNCHANGED <<stats, mmap, call, torn>>

\* The 64-bit base and end of a region, cut to the width of an address.
Start(r) == r.addr % Word
End(r)   == (r.addr + r.len) % Word

HoldsKernel(r) == r.available /\ Start(r) <= kernel_end /\ End(r) > kernel_end

\* The boot loader has put the kernel into available memory, which its map lists before
\* any region above the last address of a word.
ASSUME MapAssumption ==
    \A map \in MemoryMaps :
        /\ \E i \in DOMAIN map : HoldsKernel(map[i]) /\ \A j \in 1..i : map[j].addr < Word
        /\ \A i \in DOMAIN map : HoldsKernel(map[i]) /\ map[i].addr < Word => End(map[i]) <= MemoryEnd

\* Mutant: the search does not stop at the first region.
internal_read_multibootinfo_last(map) ==
    LET i == SelectLastInSeq(map, HoldsKernel) IN IF i = 0 THEN NULL ELSE End(map[i])

\* The end of the first available region that the kernel is in.
internal_read_multibootinfo(map) ==
    LET i == SelectInSeq(map, HoldsKernel) IN IF i = 0 THEN NULL ELSE End(map[i])

\* kmalloc_init()
Boot(max) ==
    LET h == [mem  |-> [w \in Addresses |-> Junk],
              free |-> <<>>, end |-> kheap_begin, max |-> max, halt |-> "none"]
    IN  IF max = NULL THEN [h EXCEPT !.halt = "assert"]
        ELSE km_insert(km_extend(h, HeapInit), kheap_begin)

Init ==
    /\ mmap \in MemoryMaps
    /\ heap = Boot(internal_read_multibootinfo(mmap))
    /\ stats = [cnt |-> 0, bytes |-> 0]
    /\ live = << >>
    /\ call = Idle
    /\ torn = FALSE

Next ==
    \/ \E n \in Sizes : KMalloc(n)
    \/ \E n \in Sizes, k \in {1, 2} : KCalloc(k, n)
    \/ \E n \in Sizes \cup {0}, ptr \in DOMAIN live \cup {NULL} : KRealloc(ptr, n)
    \/ \E ptr \in DOMAIN live : KFree(ptr)
    \/ FindBlock \/ TakeBlock \/ GrowBlock \/ FindPlace \/ LinkBlock
    \/ MarkBlock \/ ZeroBlock \/ CopyBlock \/ FreeOld
    \/ \E stack_base, thread \in DOMAIN live \ Busy : Reap(stack_base, thread)
    \/ \E ptr \in DOMAIN live \ Busy, v \in Values : Write(ptr, v)

Spec == Init /\ [][Next]_vars

-----------------------------------------------------------------------------
(* Properties *)

FreeBlocks == Range(heap.free)
UsedBlocks == {p - Header : p \in DOMAIN live}

\* A block that is in no list and not in use: a call has taken it or is to free it.
Pending == IF call.at \in {"place", "link", "mark"} /\ call.op # "resize"
           THEN {call.block} ELSE {}

Blocks == FreeBlocks \cup UsedBlocks \cup Pending

\* The kernel runs, and the interrupt has not come between a walk and its stores. Without
\* that nothing is claimed of the free list (see the run KMallocReentered).
Intact == Running /\ ~torn

TypeOK ==
    /\ torn \in BOOLEAN
    /\ ~torn =>
        /\ heap.halt \in {"none", "oom", "assert", "stale"}
        /\ heap.mem \in [Addresses -> Values \cup {Junk} \cup Headers]
        /\ heap.free \in Seq(Addresses)
        /\ UsedBlocks \cup Pending \subseteq Addresses
        /\ stats \in [cnt : Int, bytes : Int]

\* None of the assertions of kmalloc.c fails on pointers the heap gave out.
NoAssert == ~torn => heap.halt # "assert"

\* "Lock access to free list" (kmalloc.c:61): the list is not changed under a walk, and
\* the assertion of km_insert() that a walk's two blocks are neighbours still (:191) holds.
WalkNotDisturbed == heap.halt # "assert"

\* The bytes of a block.
Extent(h, b) == b..(b + SizeOf(h, b) - 1)

\* The blocks tile the heap: every byte below kheap_end is in exactly one block, free,
\* handed out or on its way between the two, at every step of a call, and whatever the
\* interrupt frees between two of them. No memory is lost, none is handed out twice, and
\* the word behind a block is the header of the next, on which krealloc() relies.
BlocksTile ==
    Intact =>
        /\ FreeBlocks \cap UsedBlocks = {}
        /\ \A b \in Blocks : IsHeader(heap.mem[b]) /\ heap.mem[b].alloc = (b \in UsedBlocks)
        /\ \A b, c \in Blocks : b < c => b + SizeOf(heap, b) <= c
        /\ UNION {Extent(heap, b) : b \in Blocks} = kheap_begin..(heap.end - 1)

\* The heap stays in memory that the machine has: it does not grow into a region
\* that is reserved or missing, although addresses above Word look like low ones.
HeapInRam ==
    Running => \E i \in DOMAIN mmap :
        /\ mmap[i].available
        /\ mmap[i].addr <= kheap_begin
        /\ heap.end <= mmap[i].addr + mmap[i].len

\* The free list is in the order of addresses, and no two free blocks touch:
\* what has been freed can be given out again in one piece.
FreeListCoalesced ==
    Intact => \A i, j \in DOMAIN heap.free :
        i < j => heap.free[i] + SizeOf(heap, heap.free[i]) < heap.free[j]

\* "The contents will remain unchanged" (krealloc() in kmalloc.h), and no other
\* call touches them either: a client finds what it has written.
ContentsKept ==
    Intact => \A p \in DOMAIN live : \A w \in WordsOf(p, live[p].written) :
        heap.mem[w] = live[p].value

\* "Allocates a chunck of memory of atleast 'size' bytes" (kmalloc.h).
AtLeastAsked ==
    Intact => \A p \in DOMAIN live : live[p].asked <= SizeOf(heap, p - Header) - Header

UsedBytes == SumFunction([b \in UsedBlocks |-> SizeOf(heap, b)])

\* The leak test of kmalloc_test.c compares calls that allocated with calls that
\* freed, and the bytes of both. Every step enters in them what it hands out
\* and takes back, a move of a block included; only the bytes are wrong when
\* krealloc() changes a block's size in place.
BytesCounted ==
    [][Intact' =>
         /\ stats'.cnt - stats.cnt = Cardinality(DOMAIN live') - Cardinality(DOMAIN live)
         /\ (\A p \in DOMAIN live \cap DOMAIN live' :
                SizeOf(heap', p - Header) = SizeOf(heap, p - Header))
            => stats'.bytes - stats.bytes = UsedBytes' - UsedBytes]_vars
=============================================================================
