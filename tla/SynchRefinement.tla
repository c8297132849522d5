-------------------------- MODULE SynchRefinement --------------------------
(***************************************************************************)
(* A mutex of synch.c implements FifoLock.                                 *)
(***************************************************************************)
EXTENDS SynchProofs

\* The threads that have mutex m by their own account.
Inside(m) == {t \in Threads : held[t][m] > 0}

\* Who stands in the line and who is inside, told by the fields of the mutex.
LineFacts ==
    \A m \in Mutexes :
        /\ \A t \in Threads : Owns(t, m) => Line(m) = <<t>> \o wait_queue[m]
        /\ (\A t \in Threads : ~Owns(t, m)) => Line(m) = <<>> /\ wait_queue[m] = <<>>
        /\ Inside(m) = {t \in Threads : holder[m] = t}

\* They follow from the inductive invariant.
LEMMA LineFactsHold == IInv => LineFacts
  <1> SUFFICES ASSUME IInv, NEW m \in Mutexes
               PROVE  /\ \A t \in Threads : Owns(t, m) => Line(m) = <<t>> \o wait_queue[m]
                      /\ (\A t \in Threads : ~Owns(t, m)) => Line(m) = <<>> /\ wait_queue[m] = <<>>
                      /\ Inside(m) = {t \in Threads : holder[m] = t}
    BY DEF LineFacts
  <1>1. /\ TypeOK /\ OwnerOK(m) /\ m \in Sems /\ m \in Queues
        /\ count[m] \in Int /\ wait_queue[m] \in Seq(Threads)
    BY Objects DEF IInv, OwnersOK, TypeOK
  <1>2. ASSUME NEW t \in Threads, Owns(t, m)
        PROVE  Line(m) = <<t>> \o wait_queue[m]
    <2>1. Owner(m) # {}
      BY <1>2 DEF Owner
    <2>2. (CHOOSE u \in Threads : Owns(u, m)) = t
      <3>1. Owns(CHOOSE u \in Threads : Owns(u, m), m) /\ (CHOOSE u \in Threads : Owns(u, m)) \in Threads
        BY <1>2
      <3> QED
        BY <1>1, <1>2, <3>1 DEF OwnerOK
    <2> QED
      BY <2>1, <2>2 DEF Line
  <1>3. ASSUME \A t \in Threads : ~Owns(t, m)
        PROVE  Line(m) = <<>> /\ wait_queue[m] = <<>>
    <2>1. Owner(m) = {} /\ count[m] > 0
      BY <1>1, <1>3 DEF Owner, OwnerOK
    <2>2. Len(wait_queue[m]) = 0
      BY <1>1, <2>1 DEF IInv, CountIsQueueLength
    <2>3. wait_queue[m] = <<>>
      BY <1>1, <2>2, ListDomain
    <2> QED
      BY <2>1, <2>3 DEF Line
  <1>4. Inside(m) = {t \in Threads : holder[m] = t}
    BY <1>1, Objects DEF Inside, OwnerOK, TypeOK
  <1> QED
    BY <1>2, <1>3, <1>4

\* ... and in the next state, which satisfies the invariant too.
LEMMA LineFactsNext == IInv' => LineFacts'
  BY LineFactsHold, PTL

-----------------------------------------------------------------------------
(* Steps of the line, from what happens to the fields of a mutex *)

\* A mutex whose queue, holder and owner stay the same: nobody joins its line,
\* and nobody enters or leaves.
LEMMA QuietMutex ==
    ASSUME IInv, IInv', NEW m \in Mutexes,
           wait_queue'[m] = wait_queue[m], holder'[m] = holder[m],
           \A t \in Threads : Owns(t, m)' <=> Owns(t, m)
    PROVE  Line(m)' = Line(m) /\ Inside(m)' = Inside(m)
  <1>1. LineFacts /\ LineFacts'
    BY LineFactsHold, LineFactsNext
  <1>2. Inside(m)' = Inside(m)
    BY <1>1 DEF LineFacts
  <1>3. CASE \E t \in Threads : Owns(t, m)
    <2>1. PICK t \in Threads : Owns(t, m)
      BY <1>3
    <2>2. Line(m) = <<t>> \o wait_queue[m] /\ Line(m)' = <<t>> \o wait_queue'[m]
      BY <1>1, <2>1 DEF LineFacts
    <2> QED
      BY <1>2, <2>2
  <1>4. CASE \A t \in Threads : ~Owns(t, m)
    BY <1>1, <1>2, <1>4 DEF LineFacts
  <1> QED
    BY <1>3, <1>4

\* Only the current thread moves, and neither before nor after the step is it
\* in the middle of acquiring m: the owner of m stays the same.
LEMMA QuietOwner ==
    ASSUME NEW m \in Mutexes,
           wait_queue'[m] = wait_queue[m], holder'[m] = holder[m],
           \A t \in Threads : t # me => pc'[t] = pc[t] /\ want'[t] = want[t],
           pc[me] \in {"acquire", "try"} => want[me] # m,
           pc'[me] \in {"acquire", "try"} => want'[me] # m
    PROVE  \A t \in Threads : Owns(t, m)' <=> Owns(t, m)
  BY DEF Owns

\* When all mutexes are quiet the lines do not move.
LEMMA QuietStep ==
    ASSUME \A m \in Mutexes : Line(m)' = Line(m) /\ Inside(m)' = Inside(m)
    PROVE  /\ [m \in Mutexes |-> Line(m)]' = [m \in Mutexes |-> Line(m)]
           /\ [m \in Mutexes |-> {t \in Threads : held[t][m] > 0}]'
                = [m \in Mutexes |-> {t \in Threads : held[t][m] > 0}]
  BY DEF Inside

\* When all mutexes but one are quiet, what happens to that one is the step.
LEMMA OneMutexMoves ==
    ASSUME NEW m \in Mutexes,
           \A p \in Mutexes : p # m => Line(p)' = Line(p) /\ Inside(p)' = Inside(p)
    PROVE  /\ [p \in Mutexes |-> Line(p)]'
                = [[p \in Mutexes |-> Line(p)] EXCEPT ![m] = Line(m)']
           /\ [p \in Mutexes |-> {t \in Threads : held[t][p] > 0}]'
                = [[p \in Mutexes |-> {t \in Threads : held[t][p] > 0}] EXCEPT ![m] = Inside(m)']
  BY DEF Inside

\* A thread at the end of a longer line, and nothing else: FifoLock calls it joining.
LEMMA IsJoin ==
    ASSUME NEW m \in Mutexes, NEW u \in Threads,
           \A p \in Mutexes : p # m => Line(p)' = Line(p) /\ Inside(p)' = Inside(p),
           \A i \in DOMAIN Line(m) : Line(m)[i] # u,
           Line(m)' = Append(Line(m), u),
           Inside(m)' = Inside(m)
    PROVE  Lock!Join(u, m)
  <1>1. [p \in Mutexes |-> {t \in Threads : held[t][p] > 0}]'
          = [p \in Mutexes |-> {t \in Threads : held[t][p] > 0}]
    BY DEF Inside
  <1> QED
    BY <1>1, OneMutexMoves DEF Lock!Join

\* The first in the line is inside, and was not: it enters.
LEMMA IsEnter ==
    ASSUME NEW m \in Mutexes, NEW u \in Threads,
           \A p \in Mutexes : p # m => Line(p)' = Line(p) /\ Inside(p)' = Inside(p),
           Line(m) # <<>>, Head(Line(m)) = u, Inside(m) = {},
           Line(m)' = Line(m), Inside(m)' = {u}
    PROVE  Lock!Enter(u, m)
  <1>1. [p \in Mutexes |-> Line(p)]' = [p \in Mutexes |-> Line(p)]
    OBVIOUS
  <1> QED
    BY <1>1, OneMutexMoves DEF Lock!Enter, Inside

\* The line of a free mutex becomes the one thread that is inside: joining and
\* entering in one step.
LEMMA IsAcquire ==
    ASSUME NEW m \in Mutexes, NEW u \in Threads,
           \A p \in Mutexes : p # m => Line(p)' = Line(p) /\ Inside(p)' = Inside(p),
           Line(m) = <<>>, Line(m)' = <<u>>, Inside(m)' = {u}
    PROVE  Lock!Acquire(u, m)
  BY OneMutexMoves DEF Lock!Acquire

\* The one inside is no longer in the line: it leaves.
LEMMA IsLeave ==
    ASSUME NEW m \in Mutexes, NEW u \in Threads,
           \A p \in Mutexes : p # m => Line(p)' = Line(p) /\ Inside(p)' = Inside(p),
           Line(m) # <<>>, Head(Line(m)) = u, Inside(m) = {u},
           Line(m)' = Tail(Line(m)), Inside(m)' = {}
    PROVE  Lock!Leave(u, m)
  BY OneMutexMoves DEF Lock!Leave, Inside

\* The line of a mutex that belongs to u, with the queue q behind it.
LEMMA LineShape ==
    ASSUME NEW u \in Threads, NEW q \in Seq(Threads)
    PROVE  /\ <<u>> \o q # <<>>
           /\ Head(<<u>> \o q) = u
           /\ Tail(<<u>> \o q) = q
           /\ <<u>> \o <<>> = <<u>>
           /\ Append(<<>>, u) = <<u>>
  OBVIOUS

\* Joining the queue is joining the line.
LEMMA LineGrows ==
    ASSUME NEW u \in Threads, NEW x \in Threads, NEW q \in Seq(Threads),
           x # u, x \notin Range(q)
    PROVE  /\ Append(<<u>> \o q, x) = <<u>> \o Append(q, x)
           /\ \A i \in DOMAIN (<<u>> \o q) : (<<u>> \o q)[i] # x
  <1> DEFINE L == <<u>> \o q
  <1>1. /\ L \in Seq(Threads) /\ Len(L) = Len(q) + 1
        /\ L[1] = u
        /\ \A i \in 1..Len(q) : L[i + 1] = q[i]
        /\ Len(q) \in Nat
    OBVIOUS
  <1>2. Append(L, x) = <<u>> \o Append(q, x)
    OBVIOUS
  <1>3. ASSUME NEW i \in DOMAIN L
        PROVE  L[i] # x
    <2>1. i \in 1..(Len(q) + 1)
      BY <1>1
    <2>2. CASE i = 1
      BY <1>1, <2>2
    <2>3. CASE i # 1
      <3>1. i - 1 \in 1..Len(q) /\ (i - 1) + 1 = i
        BY <1>1, <2>1, <2>3
      <3>2. i - 1 \in DOMAIN q /\ L[i] = q[i - 1]
        BY <1>1, <3>1
      <3> QED
        BY <3>2 DEF Range
    <2> QED
      BY <2>2, <2>3
  <1> QED
    BY <1>2, <1>3

-----------------------------------------------------------------------------
(* Every action is a step of the line, or none *)

\* No line moves, and nobody enters or leaves.
Stutters == \A m \in Mutexes : Line(m)' = Line(m) /\ Inside(m)' = Inside(m)

\* Timer interrupts, thread_sleep() and the exit of a thread that holds nothing.
LEMMA ThreadStepLine ==
    ASSUME IInv, IInv', ThreadStep, UNCHANGED synch_vars
    PROVE  Stutters
  <1>1. UNCHANGED <<wait_queue, holder, want>>
    BY DEF synch_vars, mutex_vars
  <1>2. \/ UNCHANGED pc
        \/ /\ pc[me] \in {"client", "sleep", "sleep_yield"}
           /\ \E x \in {"client", "sleep", "sleep_yield"} : pc' = [pc EXCEPT ![me] = x]
    BY DEF ThreadStep, TimerInterrupt, ThreadSleep, ThreadSleepStatus, ThreadSleepYield,
           ThreadExit, AtClient
  <1>3. pc \in [Threads -> Points] /\ me \in Threads
    BY CurrentIsFree DEF IInv, TypeOK
  <1>4. ASSUME NEW m \in Mutexes, NEW t \in Threads
        PROVE  Owns(t, m)' <=> Owns(t, m)
    BY <1>1, <1>2, <1>3 DEF Owns
  <1> QED
    BY <1>1, <1>4, QuietMutex DEF Stutters

\* The operations on semaphores, and the wake-ups of condition variables.
LEMMA OtherObjectsLine ==
    ASSUME IInv, IInv',
           \/ \E s \in Semaphores : SemaphoreDown(s) \/ SemaphoreTryDown(s) \/ SemaphoreUp(s)
           \/ \E cv \in CondVars : CondVarSignal(cv) \/ CondVarBroadcast(cv)
    PROVE  Stutters
  <1>1. UNCHANGED <<holder, want, pc>>
    BY DEF SemaphoreDown, SemaphoreTryDown, SemaphoreUp, CondVarSignal, CondVarBroadcast,
           mutex_vars, thread_vars
  <1>2. \A m \in Mutexes : wait_queue'[m] = wait_queue[m]
    <2>1. wait_queue \in [Queues -> Seq(Threads)]
      BY DEF IInv, TypeOK
    <2>2. CASE \E s \in Semaphores : SemaphoreDown(s) \/ SemaphoreTryDown(s) \/ SemaphoreUp(s)
      BY <2>1, <2>2, Objects DEF SemaphoreDown, SemaphoreTryDown, SemaphoreUp,
         semaphore_down, semaphore_up, wait_queue_append
    <2>3. CASE \E cv \in CondVars : CondVarSignal(cv) \/ CondVarBroadcast(cv)
      BY <2>1, <2>3, Objects DEF CondVarSignal, CondVarBroadcast
    <2> QED
      BY <2>2, <2>3
  <1>3. ASSUME NEW m \in Mutexes, NEW t \in Threads
        PROVE  Owns(t, m)' <=> Owns(t, m)
    BY <1>1, <1>2 DEF Owns
  <1> QED
    BY <1>1, <1>2, <1>3, QuietMutex DEF Stutters

\* mutex_acquire() and mutex_try_acquire() by the holder.
LEMMA MutexReenterLine ==
    ASSUME IInv, IInv', NEW m \in Mutexes, MutexReenter(m)
    PROVE  Stutters
  <1>1. /\ UNCHANGED <<wait_queue, holder>>
        /\ pc[me] \in {"client", "reacquire"} /\ me \in Threads
        /\ pc \in [Threads -> Points] /\ want \in [Threads -> Mutexes \cup {NULL}]
        /\ want' = [want EXCEPT ![me] = NULL]
        /\ pc' = [pc EXCEPT ![me] = "client"]
    BY CurrentIsFree DEF MutexReenter, CallsAcquire, IInv, TypeOK
  <1>2. ASSUME NEW p \in Mutexes, NEW t \in Threads
        PROVE  Owns(t, p)' <=> Owns(t, p)
    BY <1>1 DEF Owns
  <1> QED
    BY <1>1, <1>2, QuietMutex DEF Stutters

\* What every step of the current thread on one mutex has in common: it leaves
\* the queues, the holders and the owners of all others.
LEMMA OthersQuiet ==
    ASSUME IInv, IInv', NEW m \in Mutexes,
           \A p \in Mutexes : p # m => wait_queue'[p] = wait_queue[p],
           \A p \in Mutexes : p # m => holder'[p] = holder[p],
           \A t \in Threads : t # me => pc'[t] = pc[t] /\ want'[t] = want[t],
           pc[me] \in {"acquire", "try"} => want[me] = m,
           pc'[me] \in {"acquire", "try"} => want'[me] = m
    PROVE  \A p \in Mutexes : p # m => Line(p)' = Line(p) /\ Inside(p)' = Inside(p)
  <1> SUFFICES ASSUME NEW p \in Mutexes, p # m
               PROVE  Line(p)' = Line(p) /\ Inside(p)' = Inside(p)
    OBVIOUS
  <1>1. ASSUME NEW t \in Threads PROVE Owns(t, p)' <=> Owns(t, p)
    BY <1>1, QuietOwner
  <1> QED
    BY <1>1, QuietMutex

\* When the current thread writes itself into the holder field of m, it is the one
\* inside, in front of the same queue, and no other mutex moves.
LEMMA OwnQuiet ==
    ASSUME IInv, IInv', NEW m \in Mutexes, Own(m), UNCHANGED wait_queue,
           pc[me] \in {"acquire", "try"} => want[me] = m
    PROVE  /\ \A p \in Mutexes : p # m => Line(p)' = Line(p) /\ Inside(p)' = Inside(p)
           /\ Line(m)' = <<me>> \o wait_queue[m]
           /\ Inside(m)' = {me}
  <1>0. /\ me \in Threads
        /\ pc \in [Threads -> Points] /\ want \in [Threads -> Mutexes \cup {NULL}]
        /\ holder \in [Mutexes -> Threads \cup {NULL}]
    BY CurrentIsFree DEF IInv, TypeOK
  <1>1. /\ holder'[m] = me /\ pc'[me] = "client"
        /\ \A p \in Mutexes : p # m => holder'[p] = holder[p]
        /\ \A t \in Threads : t # me => pc'[t] = pc[t] /\ want'[t] = want[t]
    BY <1>0 DEF Own
  <1>2. \A p \in Mutexes : p # m => Line(p)' = Line(p) /\ Inside(p)' = Inside(p)
    BY <1>1, OthersQuiet
  <1>3. LineFacts'
    BY LineFactsNext
  <1> QED
    BY <1>0, <1>1, <1>2, <1>3 DEF LineFacts, Owns

\* semaphore_down() either takes a unit or queues up.
LEMMA DownQueue ==
    ASSUME NEW o, NEW on, semaphore_down(o, on), count[o] \in Int
    PROVE  wait_queue' = IF count[o] > 0 THEN wait_queue
                         ELSE [wait_queue EXCEPT ![o] = Append(@, me)]
  <1>1. CASE count[o] > 0 /\ UNCHANGED wait_queue
    BY <1>1
  <1>2. CASE count[o] <= 0 /\ wait_queue' = wait_queue_append(o)
    BY <1>2 DEF wait_queue_append
  <1> QED
    BY <1>1, <1>2 DEF semaphore_down

\* A free mutex is taken: the thread joins an empty line and enters.
LEMMA MutexTakeLine ==
    ASSUME IInv, IInv', NEW m \in Mutexes, MutexTake(m)
    PROVE  \E u \in Threads : Lock!Acquire(u, m)
  <1>0. /\ me \in Threads /\ OwnerOK(m) /\ LineFacts /\ count \in [Sems -> Int] /\ m \in Sems
        /\ wait_queue[m] \in Seq(Threads)
    BY CurrentIsFree, LineFactsHold, Objects DEF IInv, OwnersOK, TypeOK
  <1>1. /\ Own(m) /\ count[m] > 0 /\ pc[me] \in {"client", "reacquire"}
        /\ UNCHANGED wait_queue
    <2>1. /\ Own(m) /\ count[m] > 0 /\ pc[me] \in {"client", "reacquire"}
          /\ semaphore_down(m, [blocked_on EXCEPT ![me] = m])
      BY DEF MutexTake, CallsAcquire
    <2> QED
      BY <1>0, <2>1, DownQueue
  <1>2. Line(m) = <<>> /\ wait_queue[m] = <<>>
    <2>1. ~(count[m] <= 0)
      BY <1>0, <1>1
    <2> QED
      BY <1>0, <2>1 DEF OwnerOK, LineFacts
  <1>3. /\ \A p \in Mutexes : p # m => Line(p)' = Line(p) /\ Inside(p)' = Inside(p)
        /\ Line(m)' = <<me>> \o wait_queue[m]
        /\ Inside(m)' = {me}
    BY <1>1, OwnQuiet
  <1>4. <<me>> \o wait_queue[m] = <<me>>
    BY <1>0, <1>2, LineShape
  <1>5. PICK u \in Threads : u = me
    BY <1>0
  <1>6. Lock!Acquire(u, m)
    BY <1>2, <1>3, <1>4, <1>5, IsAcquire
  <1> QED
    BY <1>6

\* A thread that was handed the mutex, or whose mutex_try_acquire() has the
\* semaphore, stands first in the line and enters.
LEMMA OwnStepLine ==
    ASSUME IInv, IInv', MutexGranted \/ MutexTryOwn
    PROVE  \E u \in Threads, m \in Mutexes : Lock!Enter(u, m)
  <1>0. me \in Threads /\ WaitersOK /\ pc[me] \in {"acquire", "try"}
    BY CurrentIsFree DEF IInv, MutexGranted, MutexTryOwn
  <1>1. PICK u \in Threads, m \in Mutexes : u = me /\ m = want[me]
    BY <1>0 DEF WaitersOK
  <1>2. Own(m) /\ UNCHANGED wait_queue
    BY <1>1 DEF MutexGranted, MutexTryOwn
  <1>3. /\ u \notin Range(wait_queue[m]) /\ OwnerOK(m) /\ LineFacts
        /\ wait_queue[m] \in Seq(Threads)
    BY <1>1, CurrentIsFree, LineFactsHold, Objects DEF IInv, OwnersOK, TypeOK
  <1>4. Owns(u, m)
    BY <1>0, <1>1, <1>3 DEF Owns
  <1>5. Line(m) = <<u>> \o wait_queue[m]
    BY <1>3, <1>4 DEF LineFacts
  <1>6. Inside(m) = {}
    <2>1. ASSUME NEW t \in Threads PROVE holder[m] # t
      <3>1. holder[m] = t => Owns(t, m)
        BY DEF Owns
      <3>2. holder[m] # u
        BY <1>0, <1>1, <1>3 DEF OwnerOK
      <3> QED
        BY <1>3, <1>4, <3>1, <3>2 DEF OwnerOK
    <2> QED
      BY <1>3, <2>1 DEF LineFacts
  <1>7. /\ \A p \in Mutexes : p # m => Line(p)' = Line(p) /\ Inside(p)' = Inside(p)
        /\ Line(m)' = <<u>> \o wait_queue[m]
        /\ Inside(m)' = {u}
    BY <1>1, <1>2, OwnQuiet
  <1>8. Line(m) # <<>> /\ Head(Line(m)) = u
    BY <1>3, <1>5, LineShape
  <1>9. Lock!Enter(u, m)
    BY <1>5, <1>6, <1>7, <1>8, IsEnter
  <1> QED
    BY <1>9

\* A thread that finds the mutex taken goes to the end of the line.
LEMMA MutexBlockLine ==
    ASSUME IInv, IInv', NEW m \in Mutexes, MutexBlock(m)
    PROVE  \E u \in Threads : Lock!Join(u, m)
  <1>0. /\ me \in Threads /\ OwnerOK(m) /\ LineFacts /\ LineFacts' /\ m \in Queues
        /\ wait_queue \in [Queues -> Seq(Threads)] /\ count[m] \in Int
        /\ pc \in [Threads -> Points] /\ want \in [Threads -> Mutexes \cup {NULL}]
        /\ wait_queue[m] \in Seq(Threads) /\ me \notin Range(wait_queue[m])
        /\ \A p \in Mutexes : p \in Queues
    BY CurrentIsFree, LineFactsHold, LineFactsNext, Objects DEF IInv, OwnersOK, TypeOK
  <1>1. /\ count[m] <= 0 /\ pc[me] \in {"client", "reacquire"} /\ holder[m] # me
        /\ wait_queue' = [wait_queue EXCEPT ![m] = Append(@, me)]
        /\ pc' = [pc EXCEPT ![me] = "acquire"]
        /\ want' = [want EXCEPT ![me] = m]
        /\ UNCHANGED holder
    <2>1. /\ count[m] <= 0 /\ pc[me] \in {"client", "reacquire"} /\ holder[m] # me
          /\ semaphore_down(m, [blocked_on EXCEPT ![me] = m])
          /\ pc' = [pc EXCEPT ![me] = "acquire"]
          /\ want' = [want EXCEPT ![me] = m]
          /\ UNCHANGED holder
      BY DEF MutexBlock, CallsAcquire
    <2>2. ~(count[m] > 0)
      BY <1>0, <2>1
    <2> QED
      BY <1>0, <2>1, <2>2, DownQueue
  <1>2. /\ wait_queue'[m] = Append(wait_queue[m], me)
        /\ \A p \in Mutexes : p # m => wait_queue'[p] = wait_queue[p]
        /\ pc'[me] = "acquire" /\ want'[me] = m
        /\ \A t \in Threads : t # me => pc'[t] = pc[t] /\ want'[t] = want[t]
    BY <1>0, <1>1
  <1>3. \A p \in Mutexes : p # m => Line(p)' = Line(p) /\ Inside(p)' = Inside(p)
    BY <1>1, <1>2, OthersQuiet
  <1>4. PICK u \in Threads : Owns(u, m)
    BY <1>0, <1>1 DEF OwnerOK
  <1>5. u # me
    BY <1>1, <1>4 DEF Owns
  <1>6. Owns(u, m)'
    <2>1. Range(wait_queue'[m]) = Range(wait_queue[m]) \cup {me}
      BY <1>0, <1>2, AppendList
    <2> QED
      BY <1>1, <1>2, <1>4, <1>5, <2>1 DEF Owns
  <1>7. /\ Line(m) = <<u>> \o wait_queue[m]
        /\ Line(m)' = <<u>> \o Append(wait_queue[m], me)
    BY <1>0, <1>2, <1>4, <1>6 DEF LineFacts
  <1>8. /\ Line(m)' = Append(Line(m), me)
        /\ \A i \in DOMAIN Line(m) : Line(m)[i] # me
    <2>1. /\ Append(<<u>> \o wait_queue[m], me) = <<u>> \o Append(wait_queue[m], me)
          /\ \A i \in DOMAIN (<<u>> \o wait_queue[m]) : (<<u>> \o wait_queue[m])[i] # me
      <3>1. PICK x \in Threads, q \in Seq(Threads) : x = me /\ q = wait_queue[m]
        BY <1>0
      <3>2. /\ Append(<<u>> \o q, x) = <<u>> \o Append(q, x)
            /\ \A i \in DOMAIN (<<u>> \o q) : (<<u>> \o q)[i] # x
        <4>1. x # u /\ x \notin Range(q)
          BY <1>0, <1>5, <3>1
        <4> QED
          BY <4>1, LineGrows
      <3> QED
        BY <3>1, <3>2, Zenon
    <2> QED
      BY <1>7, <2>1, Zenon
  <1>9. Inside(m)' = Inside(m)
    BY <1>0, <1>1 DEF LineFacts
  <1>10. PICK v \in Threads : v = me
    BY <1>0
  <1>11. Lock!Join(v, m)
    BY <1>3, <1>8, <1>9, <1>10, IsJoin
  <1> QED
    BY <1>11

\* The first half of mutex_try_acquire(): the thread joins an empty line.
LEMMA MutexTryLine ==
    ASSUME IInv, IInv', NEW m \in Mutexes, MutexTry(m)
    PROVE  \E u \in Threads : Lock!Join(u, m)
  <1>0. /\ me \in Threads /\ OwnerOK(m) /\ LineFacts /\ LineFacts' /\ m \in Queues /\ m \in Sems
        /\ wait_queue[m] \in Seq(Threads) /\ count[m] \in Int
        /\ pc \in [Threads -> Points] /\ want \in [Threads -> Mutexes \cup {NULL}]
    BY CurrentIsFree, LineFactsHold, LineFactsNext, Objects DEF IInv, OwnersOK, TypeOK
  <1>1. /\ count[m] > 0 /\ pc[me] = "client"
        /\ pc' = [pc EXCEPT ![me] = "try"]
        /\ want' = [want EXCEPT ![me] = m]
        /\ UNCHANGED <<wait_queue, holder>>
    BY DEF MutexTry, AtClient
  <1>2. /\ pc'[me] = "try" /\ want'[me] = m
        /\ \A t \in Threads : t # me => pc'[t] = pc[t] /\ want'[t] = want[t]
    BY <1>0, <1>1
  <1>3. \A p \in Mutexes : p # m => Line(p)' = Line(p) /\ Inside(p)' = Inside(p)
    BY <1>1, <1>2, OthersQuiet
  <1>4. Line(m) = <<>> /\ wait_queue[m] = <<>>
    <2>1. ~(count[m] <= 0)
      BY <1>0, <1>1
    <2> QED
      BY <1>0, <2>1 DEF OwnerOK, LineFacts
  <1>5. Line(m)' = <<me>> \o wait_queue[m]
    BY <1>0, <1>1, <1>2 DEF LineFacts, Owns
  <1>6. /\ Line(m)' = Append(Line(m), me)
        /\ \A i \in DOMAIN Line(m) : Line(m)[i] # me
    <2>1. Append(<<>>, me) = <<me>> /\ <<me>> \o <<>> = <<me>>
      BY <1>0, LineShape
    <2> QED
      BY <1>4, <1>5, <2>1
  <1>7. Inside(m)' = Inside(m)
    BY <1>0, <1>1 DEF LineFacts
  <1>8. PICK u \in Threads : u = me
    BY <1>0
  <1>9. Lock!Join(u, m)
    BY <1>3, <1>6, <1>7, <1>8, IsJoin
  <1> QED
    BY <1>9

\* The last release, by mutex_release() or by condvar_wait(): the thread leaves,
\* and the first waiter, if there is one, is the next in the line although the
\* holder field does not name it yet.
LEMMA ReleaseLine ==
    ASSUME IInv, IInv', NEW m \in Mutexes, holder[m] = me, holder'[m] = NULL,
           \A p \in Mutexes : p # m => holder'[p] = holder[p],
           wait_queue'[m] = Behind1(m),
           \A p \in Mutexes : p # m => wait_queue'[p] = wait_queue[p],
           \A t \in Threads : t # me => pc'[t] = pc[t] /\ want'[t] = want[t],
           pc[me] = "client", pc'[me] \in {"client", "reacquire"}
    PROVE  \E u \in Threads : Lock!Leave(u, m)
  <1>0. /\ me \in Threads /\ OwnerOK(m) /\ LineFacts /\ LineFacts'
        /\ wait_queue[m] \in Seq(Threads) /\ IsInjective(wait_queue[m])
        /\ me \notin Range(wait_queue[m])
        /\ \A t \in Range(wait_queue[m]) : pc[t] = "acquire" /\ want[t] = m
    BY CurrentIsFree, LineFactsHold, LineFactsNext, Objects
    DEF IInv, OwnersOK, TypeOK, QueuesOK, WaitersOK
  <1>1. PICK u \in Threads : u = me
    BY <1>0
  <1>2. \A p \in Mutexes : p # m => Line(p)' = Line(p) /\ Inside(p)' = Inside(p)
    BY OthersQuiet
  <1>3. Owns(u, m)
    BY <1>1 DEF Owns
  <1>4. /\ Line(m) = <<u>> \o wait_queue[m]
        /\ Inside(m) = {u} /\ Inside(m)' = {}
    BY <1>0, <1>1, <1>3, Objects DEF LineFacts
  <1>5. Line(m)' = wait_queue[m]
    <2>1. CASE wait_queue[m] = <<>>
      <3>1. ASSUME NEW t \in Threads PROVE ~Owns(t, m)'
        <4>1. wait_queue'[m] = wait_queue[m]
          BY <2>1 DEF Behind1
        <4>2. Owns(t, m)' => t # me /\ Owns(t, m)
          BY <4>1, Objects DEF Owns
        <4> QED
          BY <1>0, <1>1, <1>3, <4>2 DEF OwnerOK
      <3> QED
        BY <1>0, <2>1, <3>1 DEF LineFacts
    <2>2. CASE wait_queue[m] # <<>>
      <3>1. wait_queue'[m] = Tail(wait_queue[m])
        BY <2>2 DEF Behind1
      <3>2. /\ Head(wait_queue[m]) \in Threads
            /\ Head(wait_queue[m]) \in Range(wait_queue[m])
            /\ Head(wait_queue[m]) \notin Range(Tail(wait_queue[m]))
        BY <1>0, <2>2, TailList
      <3>3. PICK h \in Threads : h = Head(wait_queue[m])
        BY <3>2
      <3>4. Owns(h, m)'
        <4>1. /\ h # me /\ pc'[h] = "acquire" /\ want'[h] = m
              /\ h \notin Range(wait_queue'[m])
          BY <1>0, <3>1, <3>2, <3>3
        <4> QED
          BY <4>1 DEF Owns
      <3>5. Line(m)' = <<h>> \o Tail(wait_queue[m])
        <4>1. Line(m)' = <<h>> \o wait_queue'[m]
          BY <1>0, <3>4, Zenon DEF LineFacts
        <4> QED
          BY <3>1, <4>1, Zenon
      <3>6. <<Head(wait_queue[m])>> \o Tail(wait_queue[m]) = wait_queue[m]
        BY <1>0, <2>2
      <3> QED
        BY <3>3, <3>5, <3>6
    <2> QED
      BY <2>1, <2>2
  <1>6. Line(m) # <<>> /\ Head(Line(m)) = u /\ Tail(Line(m)) = wait_queue[m]
    BY <1>0, <1>4, LineShape
  <1>7. Lock!Leave(u, m)
    BY <1>2, <1>4, <1>5, <1>6, IsLeave
  <1> QED
    BY <1>7

\* mutex_release(): an inner release is not seen outside.
LEMMA MutexReleaseLine ==
    ASSUME IInv, IInv', NEW m \in Mutexes, MutexRelease(m)
    PROVE  Stutters \/ \E u \in Threads : Lock!Leave(u, m)
  <1>0. /\ holder[m] = me /\ pc[me] = "client" /\ UNCHANGED <<pc, want>>
        /\ holder \in [Mutexes -> Threads \cup {NULL}]
        /\ wait_queue \in [Queues -> Seq(Threads)]
        /\ \A p \in Mutexes : p \in Queues
    BY Objects DEF MutexRelease, AtClient, IInv, TypeOK
  <1>1. CASE recursion_count[m] = 1
    <2>1. /\ holder' = [holder EXCEPT ![m] = NULL]
          /\ wait_queue' = [wait_queue EXCEPT ![m] = Behind1(m)]
      BY <1>1 DEF MutexRelease, semaphore_up
    <2>2. /\ holder'[m] = NULL /\ wait_queue'[m] = Behind1(m)
          /\ \A p \in Mutexes : p # m => holder'[p] = holder[p] /\ wait_queue'[p] = wait_queue[p]
      BY <1>0, <2>1
    <2> QED
      BY <1>0, <2>2, ReleaseLine
  <1>2. CASE recursion_count[m] # 1
    <2>1. UNCHANGED <<wait_queue, holder>>
      BY <1>2 DEF MutexRelease
    <2>2. ASSUME NEW p \in Mutexes, NEW t \in Threads
          PROVE  Owns(t, p)' <=> Owns(t, p)
      BY <1>0, <2>1 DEF Owns
    <2> QED
      BY <2>1, <2>2, QuietMutex DEF Stutters
  <1> QED
    BY <1>1, <1>2

\* condvar_wait(): the thread leaves, unless it has the mutex more than once.
LEMMA CondVarWaitLine ==
    ASSUME IInv, IInv', NEW cv \in CondVars, NEW m \in Mutexes, CondVarWait(cv, m)
    PROVE  Stutters \/ \E u \in Threads : Lock!Leave(u, m)
  <1>0. /\ me \in Threads /\ cv \in Queues /\ cv \notin Mutexes
        /\ holder \in [Mutexes -> Threads \cup {NULL}]
        /\ wait_queue \in [Queues -> Seq(Threads)]
        /\ pc \in [Threads -> Points] /\ want \in [Threads -> Mutexes \cup {NULL}]
        /\ \A p \in Mutexes : p \in Queues
    BY CurrentIsFree, Objects DEF IInv, TypeOK
  <1>1. /\ holder[m] = me /\ pc[me] = "client"
        /\ holder' = IF recursion_count[m] = 1 THEN [holder EXCEPT ![m] = NULL] ELSE holder
        /\ wait_queue' = [wait_queue_append(cv) EXCEPT
                            ![m] = IF recursion_count[m] = 1 THEN Behind1(m) ELSE @]
        /\ pc' = [pc EXCEPT ![me] = "reacquire"]
        /\ want' = [want EXCEPT ![me] = m]
    BY DEF CondVarWait, AtClient
  <1>2. /\ \A p \in Mutexes : p # m => wait_queue'[p] = wait_queue[p]
        /\ wait_queue'[m] = IF recursion_count[m] = 1 THEN Behind1(m) ELSE wait_queue[m]
        /\ \A t \in Threads : t # me => pc'[t] = pc[t] /\ want'[t] = want[t]
        /\ pc'[me] = "reacquire"
    BY <1>0, <1>1 DEF wait_queue_append
  <1>3. CASE recursion_count[m] = 1
    <2>1. holder'[m] = NULL /\ \A p \in Mutexes : p # m => holder'[p] = holder[p]
      BY <1>0, <1>1, <1>3
    <2> QED
      BY <1>1, <1>2, <1>3, <2>1, ReleaseLine
  <1>4. CASE recursion_count[m] # 1
    <2>1. /\ UNCHANGED holder
          /\ \A p \in Mutexes : wait_queue'[p] = wait_queue[p]
      BY <1>1, <1>2, <1>4
    <2>2. ASSUME NEW p \in Mutexes, NEW t \in Threads
          PROVE  Owns(t, p)' <=> Owns(t, p)
      BY <1>1, <1>2, <2>1, <2>2, QuietOwner
    <2> QED
      BY <2>1, <2>2, QuietMutex DEF Stutters
  <1> QED
    BY <1>3, <1>4

-----------------------------------------------------------------------------
(* The refinement *)

\* In the initial state nobody stands in a line.
LEMMA InitLine == Init => Lock!Init
  <1> SUFFICES ASSUME Init PROVE Lock!Init
    OBVIOUS
  <1>1. /\ wait_queue = [o \in Queues |-> <<>>]
        /\ holder = [m \in Mutexes |-> NULL]
        /\ held = [t \in Threads |-> [m \in Mutexes |-> 0]]
        /\ pc = [t \in Threads |-> "client"]
    BY DEF Init, ThreadInit
  <1>2. \A m \in Mutexes : Line(m) = <<>>
    <2>1. \A t \in Threads, m \in Mutexes : ~Owns(t, m)
      BY <1>1, Objects DEF Owns
    <2> QED
      BY <1>1, <2>1, Objects DEF Line, Owner
  <1>3. \A m \in Mutexes : {t \in Threads : held[t][m] > 0} = {}
    BY <1>1
  <1> QED
    BY <1>2, <1>3 DEF Lock!Init

\* Every step of the kernel is one step of one line, or moves no line.
LEMMA NextLine ==
    ASSUME IInv, IInv', [Next]_vars
    PROVE  [Lock!Next]_<<[m \in Mutexes |-> Line(m)],
                         [m \in Mutexes |-> {t \in Threads : held[t][m] > 0}]>>
  <1>1. Stutters \/ Lock!Next
    <2>1. CASE ThreadStep /\ UNCHANGED synch_vars
      BY <2>1, ThreadStepLine
    <2>2. CASE SynchStep
      <3>1. CASE \/ \E s \in Semaphores : SemaphoreDown(s) \/ SemaphoreTryDown(s) \/ SemaphoreUp(s)
                 \/ \E cv \in CondVars : CondVarSignal(cv) \/ CondVarBroadcast(cv)
        BY <3>1, OtherObjectsLine
      <3>2. ASSUME NEW m \in Mutexes,
                   \/ MutexReenter(m) \/ MutexTake(m) \/ MutexBlock(m)
                   \/ MutexTry(m) \/ MutexRelease(m)
            PROVE  Stutters \/ Lock!Next
        <4>1. CASE MutexReenter(m)
          BY <4>1, MutexReenterLine
        <4>2. CASE MutexTake(m)
          BY <4>2, MutexTakeLine DEF Lock!Next
        <4>3. CASE MutexBlock(m)
          BY <4>3, MutexBlockLine DEF Lock!Next
        <4>4. CASE MutexTry(m)
          BY <4>4, MutexTryLine DEF Lock!Next
        <4>5. CASE MutexRelease(m)
          BY <4>5, MutexReleaseLine DEF Lock!Next
        <4> QED
          BY <3>2, <4>1, <4>2, <4>3, <4>4, <4>5
      <3>3. CASE MutexGranted \/ MutexTryOwn
        BY <3>3, OwnStepLine DEF Lock!Next
      <3>4. CASE \E cv \in CondVars, m \in Mutexes : CondVarWait(cv, m)
        BY <3>4, CondVarWaitLine DEF Lock!Next
      <3> QED
        BY <2>2, <3>1, <3>2, <3>3, <3>4 DEF SynchStep
    <2>3. CASE UNCHANGED vars
      <3>1. UNCHANGED <<wait_queue, holder, pc, want>>
        BY <2>3 DEF vars, thread_vars, synch_vars, mutex_vars
      <3>2. ASSUME NEW m \in Mutexes, NEW t \in Threads
            PROVE  Owns(t, m)' <=> Owns(t, m)
        BY <3>1 DEF Owns
      <3> QED
        BY <3>1, <3>2, QuietMutex DEF Stutters
    <2> QED
      BY <2>1, <2>2, <2>3 DEF Next
  <1> QED
    BY <1>1, QuietStep DEF Stutters

\* A mutex of synch.c is a fair line: for any number of threads and mutexes, and
\* whatever else the threads do, every step of the kernel is a step of FifoLock.
THEOREM MutexRefinesFifoLock == Spec => ImplementsFifoLock
  <1>1. Init => Lock!Init
    BY InitLine
  <1>2. IInv /\ IInv' /\ [Next]_vars
          => [Lock!Next]_<<[m \in Mutexes |-> Line(m)],
                           [m \in Mutexes |-> {t \in Threads : held[t][m] > 0}]>>
    BY NextLine
  <1> QED
    BY <1>1, <1>2, Invariance, PTL DEF Spec, ImplementsFifoLock, Lock!Spec
=============================================================================
