------------------------------- MODULE Reaper -------------------------------
(***************************************************************************)
(* The timer interrupt frees the threads that have exited                  *)
(* (clean_zombies() in src/src/kernel/thread.c), and kfree() takes the     *)
(* heap's mutex on behalf of the thread that was interrupted. Scheduler    *)
(* assumes that the mutex is free; here it may be held by the interrupted  *)
(* thread, or by another one, in which case the interrupted thread blocks  *)
(* inside the interrupt handler and a second interrupt (thread_yield())    *)
(* is nested in the first one.                                             *)
(*                                                                         *)
(* The mutex is recursive: if the interrupted thread holds it, kfree()     *)
(* goes on, on a free list that this thread may be walking through. What   *)
(* becomes of the list is the subject of KMalloc (its action Reap); here   *)
(* such a kfree() sets disturbed, and an assertion may fail when the walk  *)
(* ends.                                                                   *)
(*                                                                         *)
(* Each interrupt has a frame on the stack of the thread it interrupts;    *)
(* frames are numbered from the base of the stack. A handler runs with     *)
(* interrupts disabled; its steps are told apart because it may block.     *)
(***************************************************************************)
EXTENDS Integers, Sequences, SequencesExt

CONSTANTS Threads, Idle, Main, NULL

VARIABLES current_thread, status,
          ready_threads,    \* pushed at the head, taken from the end
          zombie_threads,   \* pushed at the head
          pc,               \* of each thread: "client", "granted", "heap", "walk" or "exit"
          handlers,         \* the interrupt handlers it is in, innermost last
          live,             \* the number of frames on its stack
          esp,              \* thread_t.esp: the frame it points to
          lock,             \* free_list_lock: count, queue of waiters, holder
          disturbed,        \* the free list was changed under the holder's walk
          halted            \* an assertion has failed, or freed memory was used

vars == <<current_thread, status, ready_threads, zombie_threads, pc, handlers, live, esp, lock, disturbed, halted>>

me == current_thread

-----------------------------------------------------------------------------
(* Entering and leaving the handler *)

\* clean_zombies() begins: the zombie to visit next, the kfree()s left for the
\* one being freed, and whether the handler waits for the heap's mutex.
NewHandler == [zombie |-> IF zombie_threads = <<>> THEN NULL ELSE Head(zombie_threads),
               left |-> 0, waits |-> FALSE]

\* A frame is pushed, the current thread's esp updated, and the scheduler called.
isr_IRQ0(hs) ==
    /\ live' = [live EXCEPT ![me] = @ + 1]
    /\ esp' = [esp EXCEPT ![me] = live[me] + 1]
    /\ handlers' = [handlers EXCEPT ![me] = Append(hs, NewHandler)]

InHandler == ~halted /\ handlers[me] # <<>>
Innermost == Last(handlers[me])
SetInnermost(h) == Append(Front(handlers[me]), h)

Interrupt ==
    /\ ~halted /\ ~InHandler
    /\ pc[me] # "granted"
    /\ isr_IRQ0(handlers[me])
    /\ UNCHANGED <<current_thread, status, ready_threads, zombie_threads, pc, lock, disturbed, halted>>

ThreadExit ==
    /\ ~halted /\ ~InHandler
    /\ pc[me] = "client" /\ me \notin {Idle, Main}
    /\ status' = [status EXCEPT ![me] = "Zombie"]
    /\ pc' = [pc EXCEPT ![me] = "exit"]
    /\ isr_IRQ0(handlers[me])
    /\ UNCHANGED <<current_thread, ready_threads, zombie_threads, lock, disturbed, halted>>

-----------------------------------------------------------------------------
(* The heap's mutex *)

\* mutex_acquire() of a mutex that another thread has: it blocks, and yields
\* the processor by an interrupt.
Block(hs) ==
    /\ lock' = [lock EXCEPT !.count = @ - 1, !.queue = Append(@, me)]
    /\ status' = [status EXCEPT ![me] = "Blocked"]
    /\ isr_IRQ0(hs)

\* mutex_release(): the first waiter becomes ready.
Unlocked(l) ==
    [l EXCEPT !.count = @ + 1, !.holder = NULL, !.queue = IF @ = <<>> THEN @ ELSE Tail(@)]

Woken == IF lock.queue = <<>> THEN {} ELSE {Head(lock.queue)}

Wake ==
    /\ status' = [t \in Threads |-> IF t \in Woken THEN "Ready" ELSE status[t]]
    /\ ready_threads' = (IF lock.queue = <<>> THEN <<>> ELSE <<Head(lock.queue)>>) \o ready_threads

\* A client calls kmalloc(), krealloc() or kfree().
EnterHeap ==
    /\ ~halted /\ ~InHandler
    /\ pc[me] = "client" /\ me # Idle
    /\ IF lock.count > 0
       THEN /\ lock' = [lock EXCEPT !.count = @ - 1, !.holder = me]
            /\ pc' = [pc EXCEPT ![me] = "heap"]
            /\ UNCHANGED <<status, handlers, live, esp>>
       ELSE /\ Block(handlers[me])
            /\ pc' = [pc EXCEPT ![me] = "granted"]
    /\ UNCHANGED <<current_thread, ready_threads, zombie_threads, disturbed, halted>>

Granted ==
    /\ ~halted /\ ~InHandler
    /\ pc[me] = "granted"
    /\ lock' = [lock EXCEPT !.holder = me]
    /\ pc' = [pc EXCEPT ![me] = "heap"]
    /\ UNCHANGED <<current_thread, status, ready_threads, zombie_threads, handlers, live, esp, disturbed, halted>>

LeaveHeap ==
    /\ ~halted /\ ~InHandler
    /\ pc[me] = "heap"
    /\ lock' = Unlocked(lock)
    /\ Wake
    /\ pc' = [pc EXCEPT ![me] = "client"]
    /\ UNCHANGED <<current_thread, zombie_threads, handlers, live, esp, disturbed, halted>>

\* km_find() and km_insert() walk through the free list, and then use what they have found.
BeginWalk ==
    /\ ~halted /\ ~InHandler
    /\ pc[me] = "heap"
    /\ pc' = [pc EXCEPT ![me] = "walk"]
    /\ UNCHANGED <<current_thread, status, ready_threads, zombie_threads, handlers, live, esp, lock, disturbed, halted>>

EndWalk ==
    /\ ~halted /\ ~InHandler
    /\ pc[me] = "walk"
    /\ pc' = [pc EXCEPT ![me] = "heap"]
    /\ halted' \in {FALSE, disturbed}
    /\ UNCHANGED <<current_thread, status, ready_threads, zombie_threads, handlers, live, esp, lock, disturbed>>

-----------------------------------------------------------------------------
(* clean_zombies(), in the innermost handler of the current thread *)

\* The next zombie: its successor is remembered, and it is unlinked unless it
\* is the current thread.
Visit ==
    LET z == Innermost.zombie
        i == SelectInSeq(zombie_threads, LAMBDA t : t = z)
        h == [Innermost EXCEPT !.zombie = IF i = Len(zombie_threads) THEN NULL ELSE zombie_threads[i + 1],
                               !.left = IF z = me THEN 0 ELSE 2]
    IN  /\ InHandler
        /\ Innermost.left = 0 /\ z # NULL
        /\ IF i = 0 \/ status[z] # "Zombie"
           THEN halted' = TRUE /\ UNCHANGED <<zombie_threads, handlers>>
           ELSE /\ zombie_threads' = IF z = me THEN zombie_threads ELSE RemoveAt(zombie_threads, i)
                /\ handlers' = [handlers EXCEPT ![me] = SetInnermost(h)]
                /\ UNCHANGED halted
        /\ UNCHANGED <<current_thread, status, ready_threads, pc, live, esp, lock, disturbed>>

\* kfree() of the zombie's stack, then of the zombie: the mutex is free, or the
\* interrupted thread has it, and may be walking through the free list; or that
\* thread is already waiting for it, and queues up behind itself, which destroys
\* the queue; or another thread has it.
Kfree ==
    /\ InHandler
    /\ Innermost.left > 0 /\ ~Innermost.waits
    /\ IF lock.holder = me \/ lock.count > 0
       THEN /\ handlers' = [handlers EXCEPT ![me] = SetInnermost([Innermost EXCEPT !.left = @ - 1])]
            /\ disturbed' = (disturbed \/ pc[me] = "walk")
            /\ UNCHANGED <<status, live, esp, lock, halted>>
       ELSE IF me \in Range(lock.queue)
       THEN halted' = TRUE /\ UNCHANGED <<status, handlers, live, esp, lock, disturbed>>
       ELSE Block(SetInnermost([Innermost EXCEPT !.waits = TRUE])) /\ UNCHANGED <<disturbed, halted>>
    /\ UNCHANGED <<current_thread, ready_threads, zombie_threads, pc>>

\* The handler has got the mutex that it waited for.
KfreeGranted ==
    /\ InHandler
    /\ Innermost.waits
    /\ handlers' = [handlers EXCEPT ![me] = SetInnermost([Innermost EXCEPT !.left = @ - 1, !.waits = FALSE])]
    /\ lock' = Unlocked(lock)
    /\ Wake
    /\ UNCHANGED <<current_thread, zombie_threads, pc, live, esp, disturbed, halted>>

\* find_ready_thread(), schedule(), and the end of isr_IRQ0: the stack pointer
\* is loaded, and the frame it points to taken off the stack. With any frame
\* but the innermost one, the processor would go on with what has been left
\* there.
scheduler_next ==
    LET next == IF ready_threads # <<>> THEN Last(ready_threads)
                ELSE IF status[me] = "Running" THEN me ELSE Idle
        rest == IF ready_threads # <<>> THEN Front(ready_threads) ELSE ready_threads
        old  == IF me = Idle \/ status[me] = "Running" THEN "Ready" ELSE status[me]
    IN  /\ InHandler
        /\ Innermost.zombie = NULL /\ Innermost.left = 0
        /\ current_thread' = next
        /\ IF next = me
           THEN UNCHANGED <<status, ready_threads, zombie_threads>>
           ELSE /\ status' = [status EXCEPT ![me] = old, ![next] = "Running"]
                /\ ready_threads' = IF me # Idle /\ old = "Ready" THEN <<me>> \o rest ELSE rest
                /\ zombie_threads' = IF old = "Zombie" THEN <<me>> \o zombie_threads ELSE zombie_threads
        /\ halted' = \/ status[next] # (IF next = me THEN "Running" ELSE "Ready")
                     \/ esp[next] # live[next]
        /\ live' = [live EXCEPT ![next] = @ - 1]
        /\ handlers' = [handlers EXCEPT ![next] = Front(@)]
        /\ UNCHANGED <<pc, esp, lock, disturbed>>

-----------------------------------------------------------------------------

\* Main has created the others, whose stacks hold the frame they start with.
Init ==
    /\ current_thread = Main
    /\ status = [t \in Threads |-> IF t = Main THEN "Running" ELSE "Ready"]
    /\ ready_threads \in SetToSeqs(Threads \ {Idle, Main})
    /\ zombie_threads = <<>>
    /\ pc = [t \in Threads |-> "client"]
    /\ live = [t \in Threads |-> IF t = Main THEN 0 ELSE 1]
    /\ esp = live
    /\ handlers = [t \in Threads |->
                     IF t = Main THEN <<>> ELSE << [zombie |-> NULL, left |-> 0, waits |-> FALSE] >>]
    /\ lock = [count |-> 1, queue |-> <<>>, holder |-> NULL]
    /\ disturbed = FALSE
    /\ halted = FALSE

Next ==
    \/ Interrupt \/ ThreadExit
    \/ EnterHeap \/ Granted \/ BeginWalk \/ EndWalk \/ LeaveHeap
    \/ Visit \/ Kfree \/ KfreeGranted \/ scheduler_next

Spec == Init /\ [][Next]_vars

-----------------------------------------------------------------------------
(* Property *)

\* "Stack pointer for the thread, all other state will be stored there."
\* (thread.h, thread_t.esp): the esp of a thread that is not on the processor
\* points to its innermost frame, with the registers it is to go on with.
EspIsInnermostFrame ==
    \A t \in Threads \ {current_thread} : esp[t] = live[t]
=============================================================================
