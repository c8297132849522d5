----------------------------- MODULE SleepClock -----------------------------
(***************************************************************************)
(* Synch with a stopwatch: how many timer interrupts each sleeping thread  *)
(* still has coming to it, counted without the modulus of timer_ticks.     *)
(***************************************************************************)
EXTENDS MCSynch

VARIABLES remaining,  \* interrupts until the thread has slept as long as it asked
          wrapped     \* the sum timer_ticks + ticks of its thread_sleep() overflowed

clock_vars == <<vars, remaining, wrapped>>

ClockInit ==
    /\ Init
    /\ remaining = [t \in Threads |-> 0]
    /\ wrapped = [t \in Threads |-> FALSE]

Asks(n) ==
    /\ ThreadSleep(n)
    /\ UNCHANGED synch_vars
    /\ remaining' = [remaining EXCEPT ![me] = n]
    /\ wrapped' = [wrapped EXCEPT ![me] = timer_ticks + n >= Word]

Wakes(t) == t \in Range(sleeping_threads) /\ t \notin Range(sleeping_threads')

\* Any other step; it is an interrupt when it moves the tick counter. The watch
\* of a thread that wakes up is reset.
Counts ==
    /\ Next
    /\ pc'[me] # "sleep" \/ pc[me] = "sleep"
    /\ remaining' = [t \in Threads |->
                        IF Wakes(t) THEN 0
                        ELSE IF timer_ticks' # timer_ticks /\ remaining[t] > 0
                        THEN remaining[t] - 1 ELSE remaining[t]]
    /\ wrapped' = [t \in Threads |-> wrapped[t] /\ ~Wakes(t)]

ClockSpec == ClockInit /\ [][Counts \/ \E n \in SleepTicks : Asks(n)]_clock_vars

FairClockSpec == ClockSpec /\ Fairness

\* "Sleep thread for a number of timer ticks." (thread.h): no thread leaves the
\* sleeping list before the last of the interrupts that it asked for, however
\* often thread_sleep() is interrupted on its way there; unless the wake-up
\* time has overflowed, when the comparison of absolute times ends the sleep
\* at the next interrupt.
SleepsLongEnoughUnlessWrapped ==
    [][\A t \in Threads : Wakes(t) /\ ~wrapped[t] => remaining[t] <= 1]_clock_vars
=============================================================================
