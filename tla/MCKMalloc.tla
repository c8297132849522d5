----------------------------- MODULE MCKMalloc -----------------------------
(* Small instances of KMalloc for TLC. *)
EXTENDS KMalloc

CONSTANT V

MCValues == {Zero, V}

Ram(addr, len)      == [available |-> TRUE, addr |-> addr, len |-> len]
Reserved(addr, len) == [available |-> FALSE, addr |-> addr, len |-> len]

\* Maps as a PC has them, in the order of addresses: low memory, a reserved
\* hole, the memory the kernel is loaded into, and more above the last address
\* of 32 bits. In the second one the last page is not a whole one.
MCMemoryMaps ==
    {<<Ram(0, 2), Reserved(2, 2), Ram(4, MemoryEnd - 4)>>,
     <<Ram(0, 2), Reserved(2, 2), Ram(4, MemoryEnd - 10), Reserved(MemoryEnd - 6, 6),
       Ram(Word, MemoryEnd)>>}

\* The sizes of the instance are among those that the theorems are about.
ASSUME MCSizesFit == SizesFit

\* Two states are the same if they differ only in words that are no header of
\* a block and that no client has written, or in the sum of the bytes: no step
\* depends on them, and none of the properties checked with this view does.
MCView ==
    LET written == UNION {WordsOf(p, live[p].written) : p \in DOMAIN live}
        rest    == IF call.at \in {"place", "link"} THEN {ToInsert} ELSE {}
    IN  <<[w \in (Blocks \cup written \cup rest) \cap Addresses |-> heap.mem[w]],
          heap.free, heap.end, heap.halt, stats.cnt, live, mmap, call, torn>>

\* Bound: no step is taken from a state in which a walk has been disturbed.
MCIntact == ~torn
=============================================================================
