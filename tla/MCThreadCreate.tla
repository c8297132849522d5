--------------------------- MODULE MCThreadCreate ---------------------------
(* Instances of ThreadCreate for TLC. *)
EXTENDS ThreadCreate, TLC

CONSTANTS A, B, C

\* Two of the threads that can be created are interchangeable.
Slots == Permutations({B, C})

\* Nothing is claimed of what follows once a list is torn or two creators raced.
Intact == overlap.torn = {} /\ ~overlap.tid
=============================================================================
