----------------------------- MODULE Scheduler -----------------------------
(***************************************************************************)
(* Threads, the round robin scheduler and the timer interrupt of AlienOS   *)
(* (src/src/kernel/thread.c, src/src/io/timer.c, src/src/io/interruptasm.s *)
(* and src/src/cpu/cpu.c).                                                 *)
(*                                                                         *)
(* The kernel runs on one processor. Whatever happens with interrupts      *)
(* disabled is one step here; a thread loses the processor only in         *)
(* isr_IRQ0, which the PIT raises and which thread_yield() raises too      *)
(* (int $0x20). The lists that only the interrupt handler and code with    *)
(* interrupts disabled touch are sequences, head first.                    *)
(*                                                                         *)
(* The population is fixed: the main thread has created every other thread *)
(* before the first step. The threads do not use the heap, so the lock     *)
(* that kfree() takes while zombies are reaped is free.                    *)
(***************************************************************************)
EXTENDS Integers, FiniteSets, Sequences, SequencesExt

CONSTANTS Threads,      \* every thread, the idle and the main thread included
          Idle,         \* _idle_thread
          Main,         \* the thread that called thread_main_init()
          NULL,
          KernelLock,   \* the kernel's own mutexes: free_list_lock and the list locks
          Word,         \* timer_ticks is an unsigned counter modulo Word
          SleepTicks    \* the arguments clients give to thread_sleep()

ASSUME ThreadsAssumption ==
    /\ IsFiniteSet(Threads)
    /\ Idle \in Threads
    /\ Main \in Threads
    /\ Idle # Main
    /\ NULL \notin Threads

ASSUME WordAssumption ==
    /\ Word \in Nat \ {0}
    /\ SleepTicks \subseteq 0..(Word - 1)

VARIABLES current_thread,    \* the thread on the processor
          status,            \* thread_t.status
          ready_threads,     \* ready list: pushed at the head, taken from the tail
          sleeping_threads,  \* sleeping list, pushed at the head
          zombie_threads,    \* exited threads not yet deallocated
          all_threads,       \* allocated threads
          timer_ticks,
          wakeup_ticks,      \* thread_t.wakeup_ticks
          blocked_on,        \* thread_t.blocked_on; NULL stands for BlockerType_None
          pc,                \* where the thread continues when it next runs
          panic              \* a kernel_assert() failed: the machine is halted

sched_vars == <<current_thread, status, ready_threads, sleeping_threads,
                zombie_threads, all_threads, timer_ticks, blocked_on, panic>>

thread_vars == <<sched_vars, wakeup_ticks, pc>>

me == current_thread

Statuses == {"Ready", "Running", "Blocked", "Sleeping", "Zombie"}

(***************************************************************************)
(* Continuation points inside the kernel. "client" is the caller's own     *)
(* code. "acquire" is the return from semaphore_down() inside              *)
(* mutex_acquire(), the only point where a resumed thread still has        *)
(* something to do with interrupts disabled.                               *)
(***************************************************************************)
Points == {"client", "sleep", "sleep_yield", "acquire", "try", "reacquire"}

InterruptsEnabled == pc[me] # "acquire"

\* The enumerations of the set S that keep the order of the list q.
InOrder(q, S) ==
    {s \in SeqOf(S, Len(q)) :
        /\ Range(s) = S
        /\ IsInjective(s)
        /\ \A i, j \in DOMAIN s : i < j =>
              \E k, l \in DOMAIN q : k < l /\ q[k] = s[i] /\ q[l] = s[j]}

thread_list_add(list, t) == <<t>> \o list

-----------------------------------------------------------------------------
(* The timer interrupt *)

\* Mutants of Due(): a comparison that is strict, and one that is a tick early.
DueStrict(now) == {t \in Range(sleeping_threads) : wakeup_ticks[t] < now}
DueEarly(now)  == {t \in Range(sleeping_threads) : wakeup_ticks[t] <= now + 1}

\* The sleepers whose time has come when the tick counter shows `now'.
Due(now) == {t \in Range(sleeping_threads) : wakeup_ticks[t] <= now}

\* thread_timer_tick() walks the sleeping list from its head and pushes each
\* due thread on the ready list, so the last one found ends up foremost.
thread_timer_tick(now) ==
    [woken  : InOrder(Reverse(sleeping_threads), Due(now)),
     asleep : InOrder(sleeping_threads, Range(sleeping_threads) \ Due(now))]

Reaped == zombie_threads \ {me}

\* clean_zombies() frees every zombie but the current thread. Each kfree()
\* takes and releases free_list_lock on behalf of the current thread, which
\* leaves that lock behind in its blocked_on.
clean_zombies(on) ==
    /\ all_threads' = all_threads \ Reaped
    /\ blocked_on' = IF Reaped = {} THEN on ELSE [on EXCEPT ![me] = KernelLock]

CleanZombiesAsserts(st) ==
    \A t \in zombie_threads : st[t] = "Zombie" /\ t # Idle

\* Mutant: the newest ready thread is taken.
find_ready_thread_newest(st, ready) ==
    IF ready # <<>> THEN Head(ready)
    ELSE IF st[me] = "Running" THEN me ELSE Idle

\* The thread find_ready_thread() returns, and the ready list it leaves.
find_ready_thread(st, ready) ==
    IF ready # <<>> THEN Last(ready)
    ELSE IF st[me] = "Running" THEN me ELSE Idle

ReadyRest(ready) == IF ready # <<>> THEN Front(ready) ELSE ready

\* schedule() puts the old thread where its status says and switches to `next'.
\* `asserts' are the assertions met so far on this path.
schedule(next, st, ready, sleeping, asserts) ==
    LET zombies == zombie_threads \ Reaped
        Is(s)   == me # Idle /\ st[me] = s
    IN  IF next = me
        THEN /\ current_thread' = me
             /\ status' = st
             /\ ready_threads' = ready
             /\ sleeping_threads' = sleeping
             /\ zombie_threads' = zombies
             /\ panic' = ~(asserts /\ st[me] = "Running")
        ELSE /\ current_thread' = next
             /\ status' = [t \in Threads |->
                             IF t = next THEN "Running"
                             ELSE IF t = me /\ (me = Idle \/ st[me] = "Running")
                             THEN "Ready" ELSE st[t]]
             /\ ready_threads' = IF Is("Running") THEN thread_list_add(ready, me) ELSE ready
             /\ sleeping_threads' = IF Is("Sleeping") THEN thread_list_add(sleeping, me) ELSE sleeping
             /\ zombie_threads' = IF Is("Zombie") THEN zombies \cup {me} ELSE zombies
             /\ panic' = ~(asserts /\ st[next] = "Ready" /\ ~Is("Ready"))

\* The whole interrupt, entered with the statuses, the ready list and the
\* blockers as the interrupted code left them: timer_callback(), then
\* scheduler_next(). It runs with interrupts disabled from end to end.
isr_IRQ0(st, ready, on, asserts) ==
    LET now   == (timer_ticks + 1) % Word
        awake == [t \in Threads |-> IF t \in Due(now) THEN "Ready" ELSE st[t]]
        sleepersOk == \A t \in Range(sleeping_threads) : st[t] = "Sleeping"
    IN  /\ timer_ticks' = now
        /\ clean_zombies(on)
        /\ \E tick \in thread_timer_tick(now) :
              LET found == tick.woken \o ready
              IN  schedule(find_ready_thread(awake, found), awake,
                           ReadyRest(found), tick.asleep,
                           asserts /\ sleepersOk /\ CleanZombiesAsserts(awake))

-----------------------------------------------------------------------------
(* Steps of the running thread *)

\* A client of the kernel has the processor and is in its own code.
AtClient == ~panic /\ me # Idle /\ pc[me] = "client"

\* The PIT fires, or the thread calls thread_yield(); the idle thread does
\* nothing else (cpu_idle_loop).
TimerInterrupt ==
    /\ ~panic
    /\ InterruptsEnabled
    /\ isr_IRQ0(status, ready_threads, blocked_on, TRUE)
    /\ UNCHANGED <<wakeup_ticks, pc>>

\* thread_sleep() runs with interrupts enabled: the interrupt may come between
\* any two of its three statements.
ThreadSleep(n) ==
    /\ AtClient
    /\ wakeup_ticks' = [wakeup_ticks EXCEPT ![me] = (timer_ticks + n) % Word]
    /\ pc' = [pc EXCEPT ![me] = "sleep"]
    /\ UNCHANGED sched_vars

ThreadSleepStatus ==
    /\ ~panic
    /\ pc[me] = "sleep"
    /\ status' = [status EXCEPT ![me] = "Sleeping"]
    /\ pc' = [pc EXCEPT ![me] = "sleep_yield"]
    /\ UNCHANGED <<current_thread, ready_threads, sleeping_threads, zombie_threads,
                   all_threads, timer_ticks, wakeup_ticks, blocked_on, panic>>

ThreadSleepYield ==
    /\ ~panic
    /\ pc[me] = "sleep_yield"
    /\ isr_IRQ0(status, ready_threads, blocked_on, TRUE)
    /\ pc' = [pc EXCEPT ![me] = "client"]
    /\ UNCHANGED wakeup_ticks

\* A thread returns from its entry point. The main thread never does: it ends
\* in cpu_idle_loop().
ThreadExit ==
    /\ AtClient
    /\ me # Main
    /\ isr_IRQ0([status EXCEPT ![me] = "Zombie"], ready_threads, blocked_on, me # Idle)
    /\ UNCHANGED <<wakeup_ticks, pc>>

ThreadInit ==
    /\ current_thread = Main
    /\ status = [t \in Threads |-> IF t = Main THEN "Running" ELSE "Ready"]
    /\ ready_threads \in SeqOf(Threads \ {Idle, Main}, Cardinality(Threads))
    /\ IsInjective(ready_threads)
    /\ Range(ready_threads) = Threads \ {Idle, Main}
    /\ sleeping_threads = <<>>
    /\ zombie_threads = {}
    /\ all_threads = Threads
    /\ timer_ticks = 0
    /\ wakeup_ticks = [t \in Threads |-> 0]
    /\ blocked_on = [t \in Threads |-> IF t = Main THEN KernelLock ELSE NULL]
    /\ pc = [t \in Threads |-> "client"]
    /\ panic = FALSE
=============================================================================
