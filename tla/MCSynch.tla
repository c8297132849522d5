------------------------------ MODULE MCSynch ------------------------------
(* Small instances of Synch for TLC. *)
EXTENDS Synch

CONSTANTS A, B

MCThreads == {Idle, Main, A, B}

\* The instance for liveness, in which threads both sleep and lock.
MCPair == {Idle, Main, A}

\* A and B are interchangeable, and so are the mutexes; the idle and the main thread are not.
MCSymmetry == Permutations({A, B}) \cup Permutations(Mutexes)
=============================================================================
