------------------------------ MODULE FifoLock ------------------------------
(***************************************************************************)
(* What a mutex promises, said without semaphores, counts or a scheduler:  *)
(* the threads that want a mutex stand in a line. They enter in the order  *)
(* in which they joined, one at a time, and only the one inside leaves.    *)
(***************************************************************************)
EXTENDS Sequences

CONSTANTS Threads, Mutexes

VARIABLES line,     \* the threads that have, or wait for, each mutex
          inside    \* the threads that may use what each mutex protects

Init == /\ line = [m \in Mutexes |-> <<>>]
        /\ inside = [m \in Mutexes |-> {}]

\* A thread that is not yet in the line goes to its end.
Join(t, m) ==
    /\ \A i \in DOMAIN line[m] : line[m][i] # t
    /\ line' = [line EXCEPT ![m] = Append(@, t)]
    /\ UNCHANGED inside

\* The first of the line enters.
Enter(t, m) ==
    /\ line[m] # <<>>
    /\ Head(line[m]) = t
    /\ inside[m] = {}
    /\ inside' = [inside EXCEPT ![m] = {t}]
    /\ UNCHANGED line

\* Nobody is there: a thread joins and enters at once.
Acquire(t, m) ==
    /\ line[m] = <<>>
    /\ line' = [line EXCEPT ![m] = <<t>>]
    /\ inside' = [inside EXCEPT ![m] = {t}]

\* The thread inside leaves, and the next one moves up.
Leave(t, m) ==
    /\ line[m] # <<>>
    /\ Head(line[m]) = t
    /\ inside[m] = {t}
    /\ line' = [line EXCEPT ![m] = Tail(@)]
    /\ inside' = [inside EXCEPT ![m] = {}]

Next == \E t \in Threads, m \in Mutexes :
            Join(t, m) \/ Enter(t, m) \/ Acquire(t, m) \/ Leave(t, m)

Spec == Init /\ [][Next]_<<line, inside>>
=============================================================================
