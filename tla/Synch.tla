------------------------------- MODULE Synch -------------------------------
(***************************************************************************)
(* Semaphores, mutexes and condition variables (src/src/kernel/synch.c)    *)
(* used by the threads of module Scheduler.                                *)
(*                                                                         *)
(* Every operation of synch.c disables interrupts around its whole body,   *)
(* so an operation is one step up to the point where it gives the          *)
(* processor away, except mutex_try_acquire(), which disables them only    *)
(* for semaphore_try_down(), and condvar_wait(), which restores them       *)
(* before it takes the mutex again.                                        *)
(*                                                                         *)
(* Clients follow the rules the headers state: only the holder of a mutex  *)
(* releases it or waits with it, and no thread exits holding one.          *)
(***************************************************************************)
EXTENDS Scheduler

CONSTANTS Semaphores, Mutexes, CondVars,
          MaxCount,     \* bound: no semaphore is raised above this count
          MaxDepth      \* bound: no mutex is acquired deeper than this

ASSUME SynchAssumption ==
    /\ Semaphores \cap Mutexes = {}
    /\ Semaphores \cap CondVars = {}
    /\ Mutexes \cap CondVars = {}
    /\ NULL \notin Semaphores \cup Mutexes \cup CondVars
    /\ KernelLock \notin Semaphores \cup Mutexes \cup CondVars \cup {NULL}
    /\ MaxCount \in Nat
    /\ MaxDepth \in Nat \ {0}

VARIABLES count,            \* semaphore_t.count; a mutex holds a semaphore
          wait_queue,       \* wait_queue_head .. wait_queue_tail
          holder,           \* mutex_t.holder
          recursion_count,  \* mutex_t.recursion_count
          want,             \* the mutex a suspended mutex operation is about
          held              \* the clients' own ledger: acquisitions minus releases

mutex_vars == <<holder, recursion_count, want, held>>
synch_vars == <<count, wait_queue, mutex_vars>>
vars == <<thread_vars, synch_vars>>

Sems == Semaphores \cup Mutexes
Queues == Sems \cup CondVars

-----------------------------------------------------------------------------
(* thread_unblock() of the threads in the sequence w, in that order *)

\* Mutants: the status is left alone; the thread is not put on the ready list.
UnblockStatusKept(w, st) == st
UnblockReadyLost(w) == ready_threads

UnblockStatus(w, st) == [t \in Threads |-> IF t \in Range(w) THEN "Ready" ELSE st[t]]
UnblockReady(w)      == Reverse(w) \o ready_threads
UnblockOn(w, on)     == [t \in Threads |-> IF t \in Range(w) THEN NULL ELSE on[t]]
UnblockAsserts(w)    == \A t \in Range(w) : status[t] = "Blocked"

thread_unblock(w) ==
    /\ status' = UnblockStatus(w, status)
    /\ ready_threads' = UnblockReady(w)
    /\ blocked_on' = UnblockOn(w, blocked_on)
    /\ panic' = ~UnblockAsserts(w)
    /\ UNCHANGED <<current_thread, sleeping_threads, zombie_threads, all_threads, timer_ticks>>

\* wait_queue_popfront(), when there is someone to pop: the thread, and the rest.
Front1(o)  == IF wait_queue[o] # <<>> THEN <<Head(wait_queue[o])>> ELSE <<>>
Behind1(o) == IF wait_queue[o] # <<>> THEN Tail(wait_queue[o]) ELSE <<>>

\* Mutant: the newest waiter queues up in front of the others.
wait_queue_append_in_front(o) == [wait_queue EXCEPT ![o] = <<me>> \o @]

wait_queue_append(o) == [wait_queue EXCEPT ![o] = Append(@, me)]

-----------------------------------------------------------------------------
(* Semaphores *)

\* The count goes down whatever happens; below zero, the thread queues up and
\* gives the processor away. `on' is blocked_on as the caller left it: a
\* blocker that is already set is kept.
semaphore_down(o, on) ==
    /\ count' = [count EXCEPT ![o] = @ - 1]
    /\ \/ /\ count[o] > 0
          /\ blocked_on' = on
          /\ UNCHANGED <<wait_queue, current_thread, status, ready_threads, sleeping_threads,
                         zombie_threads, all_threads, timer_ticks, panic>>
       \/ /\ count[o] <= 0
          /\ wait_queue' = wait_queue_append(o)
          /\ isr_IRQ0([status EXCEPT ![me] = "Blocked"], ready_threads,
                      [on EXCEPT ![me] = IF @ = NULL THEN o ELSE @], TRUE)

\* Mutant: a unit that goes to a waiter is not counted.
semaphore_up_uncounted(o) ==
    /\ count' = IF wait_queue[o] = <<>> THEN [count EXCEPT ![o] = @ + 1] ELSE count
    /\ wait_queue' = [wait_queue EXCEPT ![o] = Behind1(o)]
    /\ thread_unblock(Front1(o))

\* The unit is handed to the first waiter, who returns from semaphore_down()
\* without looking at the count again.
semaphore_up(o) ==
    /\ count' = [count EXCEPT ![o] = @ + 1]
    /\ wait_queue' = [wait_queue EXCEPT ![o] = Behind1(o)]
    /\ thread_unblock(Front1(o))

SemaphoreDown(s) ==
    /\ AtClient
    /\ semaphore_down(s, blocked_on)
    /\ UNCHANGED <<wakeup_ticks, pc, mutex_vars>>

\* A failing semaphore_try_down() changes nothing.
SemaphoreTryDown(s) ==
    /\ AtClient
    /\ count[s] > 0
    /\ count' = [count EXCEPT ![s] = @ - 1]
    /\ UNCHANGED <<thread_vars, wait_queue, mutex_vars>>

SemaphoreUp(s) ==
    /\ AtClient
    /\ count[s] < MaxCount
    /\ semaphore_up(s)
    /\ UNCHANGED <<wakeup_ticks, pc, mutex_vars>>

-----------------------------------------------------------------------------
(* Mutexes *)

\* The running thread calls mutex_acquire(m): from its own code, or from
\* condvar_wait() once it has been signalled.
CallsAcquire(m) ==
    /\ ~panic
    /\ me # Idle
    /\ pc[me] = "client" \/ (pc[me] = "reacquire" /\ want[me] = m)

\* What mutex_acquire() and mutex_try_acquire() do once the semaphore is theirs.
Own(m) ==
    /\ holder' = [holder EXCEPT ![m] = me]
    /\ recursion_count' = [recursion_count EXCEPT ![m] = 1]
    /\ held' = [held EXCEPT ![me][m] = @ + 1]
    /\ want' = [want EXCEPT ![me] = NULL]
    /\ pc' = [pc EXCEPT ![me] = "client"]

\* The holder acquires again (mutex_acquire() and mutex_try_acquire() alike).
MutexReenter(m) ==
    /\ CallsAcquire(m)
    /\ holder[m] = me
    /\ recursion_count[m] < MaxDepth
    /\ recursion_count' = [recursion_count EXCEPT ![m] = @ + 1]
    /\ held' = [held EXCEPT ![me][m] = @ + 1]
    /\ want' = [want EXCEPT ![me] = NULL]
    /\ pc' = [pc EXCEPT ![me] = "client"]
    /\ UNCHANGED <<sched_vars, wakeup_ticks, count, wait_queue, holder>>

MutexTake(m) ==
    /\ CallsAcquire(m)
    /\ holder[m] # me
    /\ count[m] > 0
    /\ semaphore_down(m, [blocked_on EXCEPT ![me] = m])
    /\ Own(m)
    /\ UNCHANGED wakeup_ticks

MutexBlock(m) ==
    /\ CallsAcquire(m)
    /\ holder[m] # me
    /\ count[m] <= 0
    /\ semaphore_down(m, [blocked_on EXCEPT ![me] = m])
    /\ pc' = [pc EXCEPT ![me] = "acquire"]
    /\ want' = [want EXCEPT ![me] = m]
    /\ UNCHANGED <<wakeup_ticks, holder, recursion_count, held>>

\* A waiter that was handed the mutex has the processor again, interrupts
\* still disabled, and returns from semaphore_down().
MutexGranted ==
    /\ ~panic
    /\ pc[me] = "acquire"
    /\ Own(want[me])
    /\ UNCHANGED <<sched_vars, wakeup_ticks, count, wait_queue>>

\* mutex_try_acquire(): the semaphore first, the holder in a second step. A
\* failing call changes nothing.
MutexTry(m) ==
    /\ AtClient
    /\ holder[m] # me
    /\ count[m] > 0
    /\ count' = [count EXCEPT ![m] = @ - 1]
    /\ pc' = [pc EXCEPT ![me] = "try"]
    /\ want' = [want EXCEPT ![me] = m]
    /\ UNCHANGED <<sched_vars, wakeup_ticks, wait_queue, holder, recursion_count, held>>

MutexTryOwn ==
    /\ ~panic
    /\ pc[me] = "try"
    /\ Own(want[me])
    /\ UNCHANGED <<sched_vars, wakeup_ticks, count, wait_queue>>

\* Mutants: the inner release of a recursive mutex gives it away; a thread that
\* is not the holder can release.
MutexReleaseInner(m) ==
    /\ AtClient
    /\ holder[m] = me
    /\ recursion_count' = [recursion_count EXCEPT ![m] = @ - 1]
    /\ held' = [held EXCEPT ![me][m] = @ - 1]
    /\ holder' = [holder EXCEPT ![m] = NULL]
    /\ semaphore_up(m)
    /\ UNCHANGED <<wakeup_ticks, pc, want>>

MutexReleaseAnyone(m) ==
    /\ AtClient
    /\ recursion_count' = [recursion_count EXCEPT ![m] = @ - 1]
    /\ held' = [held EXCEPT ![me][m] = @ - 1]
    /\ UNCHANGED <<sched_vars, count, wait_queue, holder, wakeup_ticks, pc, want>>

MutexRelease(m) ==
    /\ AtClient
    /\ holder[m] = me
    /\ recursion_count' = [recursion_count EXCEPT ![m] = @ - 1]
    /\ held' = [held EXCEPT ![me][m] = @ - 1]
    /\ \/ /\ recursion_count[m] = 1
          /\ holder' = [holder EXCEPT ![m] = NULL]
          /\ semaphore_up(m)
       \/ /\ recursion_count[m] # 1
          /\ UNCHANGED <<sched_vars, count, wait_queue, holder>>
    /\ UNCHANGED <<wakeup_ticks, pc, want>>

-----------------------------------------------------------------------------
(* Condition variables *)

\* condvar_wait() up to its thread_yield(): the thread queues up, gives up one
\* level of the mutex, and switches away. It continues at "reacquire".
CondVarWait(cv, m) ==
    LET full  == recursion_count[m] = 1
        woken == IF full THEN Front1(m) ELSE <<>>
    IN  /\ AtClient
        /\ holder[m] = me
        /\ recursion_count' = [recursion_count EXCEPT ![m] = @ - 1]
        /\ held' = [held EXCEPT ![me][m] = @ - 1]
        /\ holder' = IF full THEN [holder EXCEPT ![m] = NULL] ELSE holder
        /\ count' = IF full THEN [count EXCEPT ![m] = @ + 1] ELSE count
        /\ wait_queue' = [wait_queue_append(cv) EXCEPT ![m] = IF full THEN Behind1(m) ELSE @]
        /\ isr_IRQ0(UnblockStatus(woken, [status EXCEPT ![me] = "Blocked"]),
                    UnblockReady(woken),
                    UnblockOn(woken, [blocked_on EXCEPT ![me] = cv]),
                    UnblockAsserts(woken))
        /\ pc' = [pc EXCEPT ![me] = "reacquire"]
        /\ want' = [want EXCEPT ![me] = m]
        /\ UNCHANGED wakeup_ticks

\* With nobody waiting, a signal and a broadcast are lost: they change nothing.
CondVarSignal(cv) ==
    /\ AtClient
    /\ wait_queue[cv] # <<>>
    /\ wait_queue' = [wait_queue EXCEPT ![cv] = Behind1(cv)]
    /\ thread_unblock(Front1(cv))
    /\ UNCHANGED <<wakeup_ticks, pc, count, mutex_vars>>

CondVarBroadcast(cv) ==
    /\ AtClient
    /\ wait_queue[cv] # <<>>
    /\ wait_queue' = [wait_queue EXCEPT ![cv] = <<>>]
    /\ thread_unblock(wait_queue[cv])
    /\ UNCHANGED <<wakeup_ticks, pc, count, mutex_vars>>

-----------------------------------------------------------------------------
(* The system *)

HoldsNothing == \A m \in Mutexes : held[me][m] = 0

ThreadStep ==
    \/ TimerInterrupt
    \/ \E n \in SleepTicks : ThreadSleep(n)
    \/ ThreadSleepStatus
    \/ ThreadSleepYield
    \/ HoldsNothing /\ ThreadExit

SynchStep ==
    \/ \E s \in Semaphores : SemaphoreDown(s) \/ SemaphoreTryDown(s) \/ SemaphoreUp(s)
    \/ \E m \in Mutexes : \/ MutexReenter(m) \/ MutexTake(m) \/ MutexBlock(m)
                          \/ MutexTry(m) \/ MutexRelease(m)
    \/ MutexGranted
    \/ MutexTryOwn
    \/ \E cv \in CondVars : \/ \E m \in Mutexes : CondVarWait(cv, m)
                            \/ CondVarSignal(cv) \/ CondVarBroadcast(cv)

Next == (ThreadStep /\ UNCHANGED synch_vars) \/ SynchStep

Init ==
    /\ ThreadInit
    /\ \E initial \in [Semaphores -> 0..MaxCount] :
          count = [o \in Sems |-> IF o \in Mutexes THEN 1 ELSE initial[o]]
    /\ wait_queue = [o \in Queues |-> <<>>]
    /\ holder = [m \in Mutexes |-> NULL]
    /\ recursion_count = [m \in Mutexes |-> 0]
    /\ want = [t \in Threads |-> NULL]
    /\ held = [t \in Threads |-> [m \in Mutexes |-> 0]]

Spec == Init /\ [][Next]_vars

\* The PIT keeps firing, and a thread resumed with interrupts disabled runs on.
Fairness == WF_vars(TimerInterrupt /\ UNCHANGED synch_vars) /\ WF_vars(MutexGranted)

FairSpec == Spec /\ Fairness

-----------------------------------------------------------------------------
(* Properties *)

\* Every variable has its type; in particular no recursion count and no client
\* ledger ever runs below zero (the code keeps them in unsigned integers).
TypeOK ==
    /\ current_thread \in Threads
    /\ status \in [Threads -> Statuses]
    /\ ready_threads \in Seq(Threads)
    /\ sleeping_threads \in Seq(Threads)
    /\ zombie_threads \subseteq Threads
    /\ all_threads \subseteq Threads
    /\ timer_ticks \in 0..(Word - 1)
    /\ wakeup_ticks \in [Threads -> 0..(Word - 1)]
    /\ blocked_on \in [Threads -> Queues \cup {NULL, KernelLock}]
    /\ pc \in [Threads -> Points]
    /\ panic \in BOOLEAN
    /\ count \in [Sems -> Int]
    /\ wait_queue \in [Queues -> Seq(Threads)]
    /\ holder \in [Mutexes -> Threads \cup {NULL}]
    /\ recursion_count \in [Mutexes -> Nat]
    /\ want \in [Threads -> Mutexes \cup {NULL}]
    /\ held \in [Threads -> [Mutexes -> Nat]]

\* None of the kernel_assert()s on the paths of the scheduler and of the
\* synchronization primitives fails while clients keep to the rules.
NoPanic == ~panic

\* A thread has one list node (local_list). Whatever the interleaving, it is
\* linked in exactly the list that its status names, once, and in no other; the
\* current and the idle thread are in none. A thread that is nowhere is lost, a
\* thread that is in two lists corrupts both.
LinkedOnce ==
    /\ IsInjective(ready_threads)
    /\ IsInjective(sleeping_threads)
    /\ \A o \in Queues : IsInjective(wait_queue[o])
    /\ \A t \in Threads \ {Idle} :
          /\ t \in Range(ready_threads) <=> status[t] = "Ready"
          /\ t \in Range(sleeping_threads) <=> status[t] = "Sleeping" /\ t # me
          /\ t \in zombie_threads <=> status[t] = "Zombie" /\ t \in all_threads
          /\ (\E o \in Queues : t \in Range(wait_queue[o])) <=> status[t] = "Blocked"
          /\ \A o, p \in Queues :
                t \in Range(wait_queue[o]) /\ t \in Range(wait_queue[p]) => o = p
    /\ Idle \notin Range(ready_threads) \cup Range(sleeping_threads) \cup zombie_threads
    /\ \A o \in Queues : Idle \notin Range(wait_queue[o])

\* The comment on semaphore_t.count: a count that is not positive says how many
\* threads wait. A positive one therefore means that nobody does: no thread
\* waits for a unit that is there (mutexes included).
CountIsQueueLength ==
    \A o \in Sems : Len(wait_queue[o]) = (IF count[o] < 0 THEN -count[o] ELSE 0)

\* Of all clients, at most one is between an acquisition and the matching
\* release of a mutex, and it is the holder, to the depth the mutex records.
MutualExclusion ==
    \A t \in Threads, m \in Mutexes :
        held[t][m] > 0 => holder[m] = t /\ recursion_count[m] = held[t][m]

\* The threads that are ready and will be taken before the ready thread t.
Ahead(t) ==
    {u \in Threads : \E i, j \in DOMAIN ready_threads :
        i < j /\ ready_threads[i] = t /\ ready_threads[j] = u}

\* Round robin: no step puts a thread ahead of one that is already ready, or
\* takes a thread while another is ahead of it, or drops one from the list. So
\* a ready thread runs after at most as many switches as threads were ahead.
NoOvertaking ==
    [][\A t \in Range(ready_threads) :
          IF t = current_thread' THEN Ahead(t) = {}
          ELSE t \in Range(ready_threads') /\ Ahead(t)' \subseteq Ahead(t)]_vars

\* Under FairSpec: a ready thread gets the processor, whatever the others do.
ReadyRuns ==
    \A t \in Threads \ {Idle} : status[t] = "Ready" ~> status[t] = "Running"

\* Under FairSpec: a thread that went to sleep runs again, although the tick
\* counter it is compared with wraps around, and although thread_sleep() can be
\* interrupted between setting the time and leaving the processor.
SleepersWake ==
    \A t \in Threads : status[t] = "Sleeping" ~> status[t] = "Running"

\* Under FairSpec: a waiter that mutex_release() has taken off the queue becomes
\* the holder; the mutex does not stay without one.
HandedOverIsTaken ==
    \A t \in Threads, m \in Mutexes :
        (pc[t] = "acquire" /\ want[t] = m /\ status[t] = "Ready") ~> holder[m] = t

-----------------------------------------------------------------------------
(* A mutex implements a line *)

\* The thread the mutex belongs to: its holder, or the thread whose down on the
\* mutex's semaphore has succeeded and which has yet to record itself.
Owns(t, m) ==
    \/ holder[m] = t
    \/ pc[t] = "try" /\ want[t] = m
    \/ pc[t] = "acquire" /\ want[t] = m /\ t \notin Range(wait_queue[m])

Owner(m) == {t \in Threads : Owns(t, m)}

Line(m) == IF Owner(m) = {} THEN wait_queue[m]
           ELSE <<CHOOSE t \in Threads : Owns(t, m)>> \o wait_queue[m]

Lock == INSTANCE FifoLock WITH
            line   <- [m \in Mutexes |-> Line(m)],
            inside <- [m \in Mutexes |-> {t \in Threads : held[t][m] > 0}]

\* Every step of the kernel is, for each mutex, a step of a fair line or none:
\* nobody barges in between a release and the waiter it was handed to, though
\* the holder field is NULL all that time.
ImplementsFifoLock == Lock!Spec

-----------------------------------------------------------------------------
(***************************************************************************)
(* The inductive invariant behind the safety properties (SynchProofs). The *)
(* parts about the lists take the statuses and the ready list as           *)
(* parameters, because isr_IRQ0 is entered half way through an operation,  *)
(* when these have changed and the rest has not.                           *)
(***************************************************************************)

\* The scheduler's lists agree with the statuses.
ListsOK(st, ready) ==
    /\ IsInjective(ready)
    /\ IsInjective(sleeping_threads)
    /\ \A t \in Threads \ {Idle} :
          /\ t \in Range(ready) <=> st[t] = "Ready"
          /\ t \in Range(sleeping_threads) <=> st[t] = "Sleeping" /\ t # me
          /\ t \in zombie_threads <=> st[t] = "Zombie" /\ t \in all_threads /\ t # me
    /\ Idle \notin Range(ready)
    /\ Idle \notin Range(sleeping_threads)
    /\ Idle \notin zombie_threads
    /\ \A t \in Threads : st[t] = "Running" => t = me
    /\ \A t \in Threads : st[t] # "Zombie" => t \in all_threads
    /\ me \in all_threads
    /\ st[me] # "Ready"
    /\ st[Idle] = IF me = Idle THEN "Running" ELSE "Ready"

\* A thread is in a wait queue, and then in one only, exactly when it is blocked.
QueuesOK(st, queue) ==
    /\ \A o \in Queues : IsInjective(queue[o])
    /\ \A t \in Threads : (\E o \in Queues : t \in Range(queue[o])) <=> st[t] = "Blocked"
    /\ \A t \in Threads, o \in Queues, p \in Queues :
          t \in Range(queue[o]) /\ t \in Range(queue[p]) => o = p

\* The thread on the processor runs, or is about to leave it to sleep.
CurrentOK ==
    /\ status[me] = "Running" \/ (status[me] = "Sleeping" /\ pc[me] = "sleep_yield")
    /\ pc[Idle] = "client"

\* Where a thread continues tells which queue it can be in.
WaitersOK ==
    /\ \A m \in Mutexes : \A t \in Range(wait_queue[m]) : pc[t] = "acquire" /\ want[t] = m
    /\ \A o \in Queues \ Mutexes : \A t \in Range(wait_queue[o]) : pc[t] \in {"client", "reacquire"}
    /\ \A t \in Threads : pc[t] \in {"acquire", "try", "reacquire"} => want[t] \in Mutexes

\* A mutex has one owner exactly when its count is not positive; the holder
\* field, the recursion count and the ledgers of the clients agree.
OwnerOK(m) ==
    /\ \A t, u \in Threads : Owns(t, m) /\ Owns(u, m) => t = u
    /\ (\E t \in Threads : Owns(t, m)) <=> count[m] <= 0
    /\ count[m] <= 1
    /\ recursion_count[m] = 0 <=> holder[m] = NULL
    /\ \A t \in Threads :
          /\ held[t][m] = IF holder[m] = t THEN recursion_count[m] ELSE 0
          /\ pc[t] \in {"acquire", "try"} /\ want[t] = m => holder[m] # t

OwnersOK == \A m \in Mutexes : OwnerOK(m)

IInv ==
    /\ TypeOK
    /\ NoPanic
    /\ ListsOK(status, ready_threads)
    /\ QueuesOK(status, wait_queue)
    /\ CurrentOK
    /\ WaitersOK
    /\ OwnersOK
    /\ CountIsQueueLength
=============================================================================
