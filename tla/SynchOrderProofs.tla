-------------------------- MODULE SynchOrderProofs --------------------------
(***************************************************************************)
(* Proofs about Synch and SleepClock: the ready list is served in turn,    *)
(* and a sleeping thread is not woken early. Both rest on the invariant of *)
(* SynchProofs.                                                            *)
(***************************************************************************)
EXTENDS SleepClock, SynchProofs

-----------------------------------------------------------------------------
(* Who is ahead of whom in a list *)

AheadIn(s, t) ==
    {u \in Threads : \E i, j \in DOMAIN s : i < j /\ s[i] = t /\ s[j] = u}

\* Pushing threads at the head of a list puts nobody ahead of, and takes nobody
\* away from ahead of, a thread that is in the list already.
LEMMA PushedBehind ==
    ASSUME NEW p \in Seq(Threads), NEW s \in Seq(Threads), IsInjective(p \o s),
           NEW t \in Range(s)
    PROVE  /\ p \o s \in Seq(Threads)
           /\ t \in Range(p \o s)
           /\ AheadIn(p \o s, t) = AheadIn(s, t)
           /\ IsInjective(s)
  <1> DEFINE f == p \o s
  <1>1. /\ f \in Seq(Threads)
        /\ Len(f) = Len(p) + Len(s)
        /\ \A i \in 1..Len(p) : f[i] = p[i]
        /\ \A i \in 1..Len(s) : f[Len(p) + i] = s[i]
    OBVIOUS
  <1>2. /\ DOMAIN f = 1..(Len(p) + Len(s)) /\ DOMAIN s = 1..Len(s)
        /\ Len(p) \in Nat /\ Len(s) \in Nat
    BY <1>1, LenProperties
  <1>3. PICK k \in 1..Len(s) : s[k] = t
    BY <1>2 DEF Range
  <1>4. f[Len(p) + k] = t /\ Len(p) + k \in DOMAIN f
    BY <1>1, <1>2, <1>3
  <1> HIDE DEF f
  <1>5. t \in Range(f)
    BY <1>4 DEF Range
  <1>6. IsInjective(f)
    BY DEF f
  <1>7. \A i \in DOMAIN f : f[i] = t => i = Len(p) + k
    BY <1>4, <1>6 DEF IsInjective
  <1>8. ASSUME NEW u \in AheadIn(f, t) PROVE u \in AheadIn(s, t)
    <2>1. PICK i, j \in DOMAIN f : i < j /\ f[i] = t /\ f[j] = u
      BY <1>8 DEF AheadIn
    <2>2. i = Len(p) + k
      BY <1>7, <2>1
    <2>3. /\ j - Len(p) \in 1..Len(s) /\ k < j - Len(p)
          /\ Len(p) + (j - Len(p)) = j
      BY <1>2, <1>3, <2>1, <2>2
    <2>4. s[j - Len(p)] = u
      BY <1>1, <2>1, <2>3
    <2> QED
      BY <1>2, <1>3, <1>8, <2>3, <2>4 DEF AheadIn
  <1>9. ASSUME NEW u \in AheadIn(s, t) PROVE u \in AheadIn(f, t)
    <2>1. PICK i, j \in DOMAIN s : i < j /\ s[i] = t /\ s[j] = u
      BY <1>9 DEF AheadIn
    <2>2. /\ Len(p) + i \in DOMAIN f /\ Len(p) + j \in DOMAIN f
          /\ Len(p) + i < Len(p) + j
      BY <1>2, <2>1
    <2>3. f[Len(p) + i] = t /\ f[Len(p) + j] = u
      BY <1>1, <1>2, <2>1
    <2> QED
      BY <1>9, <2>2, <2>3 DEF AheadIn
  <1>10. IsInjective(s)
    <2>1. ASSUME NEW i \in DOMAIN s, NEW j \in DOMAIN s, s[i] = s[j] PROVE i = j
      <3>1. /\ Len(p) + i \in DOMAIN f /\ Len(p) + j \in DOMAIN f
            /\ f[Len(p) + i] = f[Len(p) + j]
        BY <1>1, <1>2, <2>1
      <3>2. Len(p) + i = Len(p) + j
        BY <1>6, <3>1 DEF IsInjective
      <3> QED
        BY <1>2, <3>2
    <2> QED
      BY <2>1 DEF IsInjective
  <1> QED
    BY <1>1, <1>5, <1>8, <1>9, <1>10 DEF f

\* Taking the thread at the tail: nobody was ahead of it, and the others keep
\* their places.
LEMMA TakenFromTail ==
    ASSUME NEW s \in Seq(Threads), s # <<>>, IsInjective(s), NEW t \in Range(s)
    PROVE  /\ t = Last(s) => AheadIn(s, t) = {}
           /\ t # Last(s) => t \in Range(Front(s)) /\ AheadIn(Front(s), t) \subseteq AheadIn(s, t)
  <1> DEFINE n == Len(s)
             f == Front(s)
  <1>1. n \in Nat \ {0} /\ DOMAIN s = 1..n /\ Last(s) = s[n]
    BY ListDomain DEF Last
  <1>2. f \in Seq(Threads) /\ Range(f) = Range(s) \ {Last(s)}
    BY FrontList
  <1>3. DOMAIN f = 1..(n - 1) /\ \A i \in 1..(n - 1) : f[i] = s[i]
    BY <1>1, FrontItems
  <1>4. ASSUME t = Last(s), NEW u \in AheadIn(s, t) PROVE FALSE
    <2>1. PICK i, j \in DOMAIN s : i < j /\ s[i] = t /\ s[j] = u
      BY <1>4 DEF AheadIn
    <2>2. i = n
      BY <1>1, <1>4, <2>1 DEF IsInjective
    <2> QED
      BY <1>1, <2>1, <2>2
  <1> HIDE DEF f
  <1>5. ASSUME NEW u \in AheadIn(f, t) PROVE u \in AheadIn(s, t)
    <2>1. PICK i, j \in DOMAIN f : i < j /\ f[i] = t /\ f[j] = u
      BY <1>5 DEF AheadIn
    <2>2. i \in DOMAIN s /\ j \in DOMAIN s /\ s[i] = t /\ s[j] = u
      BY <1>1, <1>3, <2>1
    <2> QED
      BY <1>5, <2>1, <2>2 DEF AheadIn
  <1> QED
    BY <1>2, <1>4, <1>5 DEF f

\* A list is free of duplicates when it is so without its tail, and the tail is
\* not in the rest.
LEMMA InjectiveFromFront ==
    ASSUME NEW s \in Seq(Threads), s # <<>>,
           IsInjective(Front(s)), Last(s) \notin Range(Front(s))
    PROVE  IsInjective(s)
  <1> DEFINE n == Len(s)
             f == Front(s)
  <1>1. /\ n \in Nat \ {0} /\ DOMAIN s = 1..n /\ Last(s) = s[n]
        /\ DOMAIN f = 1..(n - 1) /\ \A i \in 1..(n - 1) : f[i] = s[i]
    BY FrontItems DEF Last
  <1> HIDE DEF n, f
  <1>2. ASSUME NEW i \in 1..n, NEW j \in 1..n, s[i] = s[j], i < j PROVE FALSE
    <2>1. i \in 1..(n - 1) /\ f[i] = s[i]
      BY <1>1, <1>2
    <2>2. CASE j = n
      <3>1. Last(s) \in Range(f)
        BY <1>1, <1>2, <2>1, <2>2 DEF Range
      <3> QED
        BY <3>1 DEF f
    <2>3. CASE j # n
      <3>1. j \in 1..(n - 1) /\ f[j] = s[j]
        BY <1>1, <2>3
      <3>2. IsInjective(f)
        BY DEF f
      <3>3. i = j
        BY <1>1, <1>2, <2>1, <3>1, <3>2 DEF IsInjective
      <3> QED
        BY <1>1, <1>2, <3>3
    <2> QED
      BY <2>2, <2>3
  <1>3. ASSUME NEW i \in 1..n, NEW j \in 1..n, s[i] = s[j] PROVE i = j
    <2>1. i \in Int /\ j \in Int /\ (i < j \/ j < i \/ i = j)
      BY <1>1
    <2> QED
      BY <1>2, <1>3, <2>1
  <1> QED
    BY <1>1, <1>3 DEF IsInjective

-----------------------------------------------------------------------------
(* Round robin *)

\* What NoOvertaking says of a step.
InTurn ==
    \A t \in Range(ready_threads) :
        IF t = current_thread' THEN Ahead(t) = {}
        ELSE t \in Range(ready_threads') /\ Ahead(t)' \subseteq Ahead(t)

\* Ahead is about the ready list, before and after the step.
LEMMA AheadMeans ==
    \A t : Ahead(t) = AheadIn(ready_threads, t) /\ Ahead(t)' = AheadIn(ready_threads', t)
  BY DEF Ahead, AheadIn

\* The current thread is not in the ready list.
LEMMA CurrentNotReady == IInv => current_thread \notin Range(ready_threads)
  BY DEF IInv, ListsOK, TypeOK, me

\* Nor is it in the next state.
LEMMA CurrentNotReadyNext == IInv' => (current_thread \notin Range(ready_threads))'
  BY CurrentNotReady, PTL

\* thread_unblock() and steps that do not touch the ready list: threads are only
\* pushed behind those that are ready, and the current thread stays.
LEMMA PushInTurn ==
    ASSUME IInv, IInv', UNCHANGED current_thread,
           NEW p \in Seq(Threads), ready_threads' = p \o ready_threads
    PROVE  InTurn
  <1>1. /\ ready_threads \in Seq(Threads)
        /\ current_thread \notin Range(ready_threads)
    BY CurrentNotReady DEF IInv, TypeOK
  <1>2. IsInjective(ready_threads')
    BY DEF IInv, ListsOK
  <1>3. ASSUME NEW t \in Range(ready_threads)
        PROVE  t # current_thread' /\ t \in Range(ready_threads') /\ Ahead(t)' \subseteq Ahead(t)
    <2>1. t \in Range(p \o ready_threads) /\ AheadIn(p \o ready_threads, t) = AheadIn(ready_threads, t)
      BY <1>1, <1>2, PushedBehind
    <2> QED
      BY <1>1, <2>1, AheadMeans
  <1> QED
    BY <1>3 DEF InTurn

\* The interrupt, entered after the threads p were pushed on the ready list: it
\* pushes the woken sleepers behind all of them and takes the thread at the tail.
LEMMA SwitchInTurn ==
    ASSUME IInv, IInv', NEW p \in Seq(Threads), NEW st, NEW on, NEW asserts,
           isr_IRQ0(st, p \o ready_threads, on, asserts)
    PROVE  InTurn
  <1> DEFINE now   == (timer_ticks + 1) % Word
             awake == [t \in Threads |-> IF t \in Due(now) THEN "Ready" ELSE st[t]]
             ready == p \o ready_threads
  <1>1. PICK tick \in thread_timer_tick(now) : \E ok :
          schedule(find_ready_thread(awake, tick.woken \o ready), awake,
                   ReadyRest(tick.woken \o ready), tick.asleep, ok)
    BY DEF isr_IRQ0
  <1> DEFINE woken == tick.woken
             found == woken \o ready
             next  == find_ready_thread(awake, found)
             rest  == ReadyRest(found)
  <1>2. /\ ready_threads \in Seq(Threads) /\ sleeping_threads \in Seq(Threads)
        /\ IsInjective(sleeping_threads) /\ me \in Threads
    BY CurrentIsFree DEF IInv, ListsOK, TypeOK
  <1>3. woken \in Seq(Threads)
    <2>1. Reverse(sleeping_threads) \in Seq(Threads)
      BY <1>2, ReverseList
    <2>2. Due(now) \subseteq Threads
      BY <1>2, ListDomain DEF Due
    <2>3. woken \in InOrder(Reverse(sleeping_threads), Due(now))
      BY <1>1 DEF thread_timer_tick
    <2> QED
      BY <2>1, <2>2, <2>3, InOrderEnumerates
  <1>4. ready \in Seq(Threads) /\ found \in Seq(Threads)
    BY <1>2, <1>3, ConcatProperties
  <1>5. IsInjective(ready_threads') /\ current_thread' \notin Range(ready_threads')
    BY CurrentNotReadyNext DEF IInv, ListsOK
  <1>6. /\ current_thread' = next
        /\ ready_threads' = rest \/ ready_threads' = <<me>> \o rest
    BY <1>1 DEF schedule, thread_list_add
  <1> HIDE DEF now, awake, woken, next
  <1>7. SUFFICES ASSUME NEW t \in Range(ready_threads)
                 PROVE  IF t = current_thread' THEN Ahead(t) = {}
                        ELSE t \in Range(ready_threads') /\ Ahead(t)' \subseteq Ahead(t)
    BY DEF InTurn
  <1>8. found # <<>>
    <2>1. ready_threads # <<>>
      BY <1>2, ListDomain
    <2> QED
      BY <1>2, <1>3, <1>4, <2>1
  <1>9. next = Last(found) /\ rest = Front(found)
    BY <1>8 DEF next, find_ready_thread, ReadyRest
  <1> HIDE DEF found, rest
  <1>10. rest \in Seq(Threads)
    BY <1>4, <1>8, <1>9, FrontItems
  <1>11. IsInjective(rest) /\ Last(found) \notin Range(rest)
    <2>1. CASE ready_threads' = rest
      BY <1>5, <1>6, <1>9, <2>1
    <2>2. CASE ready_threads' = <<me>> \o rest
      <3>1. /\ <<me>> \in Seq(Threads)
            /\ Range(<<me>> \o rest) = Range(<<me>>) \cup Range(rest)
        <4>1. <<me>> \in Seq(Threads)
          BY <1>2, SingletonList
        <4>2. PICK q \in Seq(Threads) : q = <<me>>
          BY <4>1
        <4>3. Range(q \o rest) = Range(q) \cup Range(rest)
          BY <1>10, RangeConcatenation
        <4> QED
          BY <4>2, <4>3
      <3>2. CASE rest = <<>>
        BY <3>2, EmptyList
      <3>3. CASE rest # <<>>
        <4>1. PICK x : x \in Range(rest)
          BY <1>10, <3>3, ListDomain
        <4>2. IsInjective(rest)
          BY <1>5, <1>10, <2>2, <3>1, <4>1, PushedBehind
        <4> QED
          BY <1>5, <1>6, <1>9, <2>2, <3>1, <4>2
      <3> QED
        BY <3>2, <3>3
    <2> QED
      BY <1>6, <2>1, <2>2
  <1>12. IsInjective(found)
    BY <1>4, <1>8, <1>9, <1>11, InjectiveFromFront
  <1>13. t \in Range(found) /\ AheadIn(found, t) = AheadIn(ready_threads, t)
    <2>0. woken \o ready = woken \o (p \o ready_threads) /\ IsInjective(woken \o ready)
      BY <1>12 DEF found
    <2>1. Range(ready) = Range(p) \cup Range(ready_threads)
      BY <1>2, RangeConcatenation
    <2>2. t \in Range(ready)
      BY <2>1
    <2> HIDE DEF ready
    <2>3. /\ t \in Range(found) /\ AheadIn(found, t) = AheadIn(ready, t)
          /\ IsInjective(ready)
      BY <1>3, <1>4, <2>0, <2>2, PushedBehind DEF found
    <2>4. IsInjective(p \o ready_threads)
      BY <2>3 DEF ready
    <2>5. AheadIn(p \o ready_threads, t) = AheadIn(ready_threads, t)
      BY <1>2, <2>4, PushedBehind
    <2> QED
      BY <2>3, <2>5 DEF ready
  <1>14. CASE t = current_thread'
    BY <1>4, <1>6, <1>8, <1>9, <1>12, <1>13, <1>14, TakenFromTail, AheadMeans
  <1>15. CASE t # current_thread'
    <2>1. t \in Range(rest) /\ AheadIn(rest, t) \subseteq AheadIn(ready_threads, t)
      BY <1>4, <1>6, <1>8, <1>9, <1>12, <1>13, <1>15, TakenFromTail
    <2>2. CASE ready_threads' = rest
      BY <1>15, <2>1, <2>2, AheadMeans
    <2>3. CASE ready_threads' = <<me>> \o rest
      <3>1. <<me>> \in Seq(Threads)
        BY <1>2, SingletonList
      <3>2. t \in Range(ready_threads') /\ AheadIn(ready_threads', t) = AheadIn(rest, t)
        BY <1>5, <1>10, <2>1, <2>3, <3>1, PushedBehind
      <3> QED
        BY <1>15, <2>1, <3>2, AheadMeans
    <2> QED
      BY <1>6, <2>2, <2>3
  <1> QED
    BY <1>14, <1>15

\* A step that leaves the ready list and the current thread alone.
LEMMA QuietInTurn ==
    ASSUME IInv, IInv', UNCHANGED <<current_thread, ready_threads>>
    PROVE  InTurn
  <1>1. <<>> \in Seq(Threads) /\ <<>> \o ready_threads = ready_threads
    BY EmptyList DEF IInv, TypeOK
  <1> QED
    BY <1>1, PushInTurn

\* The interrupt, when nobody was unblocked first.
LEMMA IrqInTurn ==
    ASSUME IInv, IInv', NEW st, NEW on, NEW asserts,
           isr_IRQ0(st, ready_threads, on, asserts)
    PROVE  InTurn
  <1>1. <<>> \in Seq(Threads) /\ <<>> \o ready_threads = ready_threads
    BY EmptyList DEF IInv, TypeOK
  <1>2. isr_IRQ0(st, <<>> \o ready_threads, on, asserts)
    BY <1>1
  <1> QED
    BY <1>1, <1>2, SwitchInTurn

\* semaphore_down() returns at once or enters the interrupt.
LEMMA DownInTurn ==
    ASSUME IInv, IInv', NEW o, NEW on, semaphore_down(o, on)
    PROVE  InTurn
  <1>1. CASE UNCHANGED <<current_thread, ready_threads>>
    BY <1>1, QuietInTurn
  <1>2. CASE isr_IRQ0([status EXCEPT ![me] = "Blocked"], ready_threads,
                      [on EXCEPT ![me] = IF @ = NULL THEN o ELSE @], TRUE)
    BY <1>2, IrqInTurn
  <1> QED
    BY <1>1, <1>2 DEF semaphore_down

\* thread_unblock() of the first waiter, or of all of them.
LEMMA UnblockInTurn ==
    ASSUME IInv, IInv', NEW w \in Seq(Threads), IsInjective(w), thread_unblock(w)
    PROVE  InTurn
  <1>1. Reverse(w) \in Seq(Threads)
    BY ReverseList
  <1>2. UNCHANGED current_thread /\ ready_threads' = Reverse(w) \o ready_threads
    BY DEF thread_unblock, UnblockReady
  <1> QED
    BY <1>1, <1>2, PushInTurn

\* Every step of the kernel serves the ready list in turn.
LEMMA NextInTurn ==
    ASSUME IInv, IInv', [Next]_vars
    PROVE  InTurn
  <1>0. ASSUME NEW o \in Queues
        PROVE  /\ wait_queue[o] \in Seq(Threads) /\ IsInjective(wait_queue[o])
               /\ Front1(o) \in Seq(Threads) /\ IsInjective(Front1(o))
    BY PopFront DEF IInv, TypeOK, QueuesOK
  <1>1. CASE ThreadStep
    <2>1. CASE TimerInterrupt
      BY <2>1, IrqInTurn DEF TimerInterrupt
    <2>2. CASE ThreadSleepYield
      BY <2>2, IrqInTurn DEF ThreadSleepYield
    <2>3. CASE ThreadExit
      BY <2>3, IrqInTurn DEF ThreadExit
    <2>4. CASE (\E n \in SleepTicks : ThreadSleep(n)) \/ ThreadSleepStatus
      BY <2>4, QuietInTurn DEF ThreadSleep, ThreadSleepStatus, sched_vars
    <2> QED
      BY <1>1, <2>1, <2>2, <2>3, <2>4 DEF ThreadStep
  <1>2. ASSUME NEW s \in Semaphores, SemaphoreDown(s) \/ SemaphoreTryDown(s) \/ SemaphoreUp(s)
        PROVE  InTurn
    <2>1. CASE SemaphoreDown(s)
      BY <2>1, DownInTurn DEF SemaphoreDown
    <2>2. CASE SemaphoreTryDown(s)
      BY <2>2, QuietInTurn DEF SemaphoreTryDown, thread_vars, sched_vars
    <2>3. CASE SemaphoreUp(s)
      BY <1>0, <2>3, UnblockInTurn, Objects DEF SemaphoreUp, semaphore_up
    <2> QED
      BY <1>2, <2>1, <2>2, <2>3
  <1>3. ASSUME NEW m \in Mutexes,
               \/ MutexReenter(m) \/ MutexTake(m) \/ MutexBlock(m)
               \/ MutexTry(m) \/ MutexRelease(m)
        PROVE  InTurn
    <2>1. CASE MutexReenter(m) \/ MutexTry(m)
      BY <2>1, QuietInTurn DEF MutexReenter, MutexTry, sched_vars
    <2>2. CASE MutexTake(m) \/ MutexBlock(m)
      BY <2>2, DownInTurn DEF MutexTake, MutexBlock
    <2>3. CASE MutexRelease(m)
      <3>1. CASE semaphore_up(m)
        BY <1>0, <3>1, UnblockInTurn, Objects DEF semaphore_up
      <3>2. CASE UNCHANGED sched_vars
        BY <3>2, QuietInTurn DEF sched_vars
      <3> QED
        BY <2>3, <3>1, <3>2 DEF MutexRelease
    <2> QED
      BY <1>3, <2>1, <2>2, <2>3
  <1>4. CASE MutexGranted \/ MutexTryOwn
    BY <1>4, QuietInTurn DEF MutexGranted, MutexTryOwn, sched_vars
  <1>5. ASSUME NEW cv \in CondVars, NEW m \in Mutexes, CondVarWait(cv, m)
        PROVE  InTurn
    <2> DEFINE woken == IF recursion_count[m] = 1 THEN Front1(m) ELSE <<>>
               st == UnblockStatus(woken, [status EXCEPT ![me] = "Blocked"])
               on == UnblockOn(woken, [blocked_on EXCEPT ![me] = cv])
    <2>1. isr_IRQ0(st, UnblockReady(woken), on, UnblockAsserts(woken))
      BY <1>5 DEF CondVarWait
    <2>2. woken \in Seq(Threads) /\ IsInjective(woken)
      BY <1>0, Objects, EmptyList
    <2> HIDE DEF woken, st, on
    <2>3. Reverse(woken) \in Seq(Threads)
      BY <2>2, ReverseList
    <2>4. isr_IRQ0(st, Reverse(woken) \o ready_threads, on, UnblockAsserts(woken))
      BY <2>1 DEF UnblockReady
    <2> QED
      BY <2>3, <2>4, SwitchInTurn
  <1>6. ASSUME NEW cv \in CondVars, CondVarSignal(cv) \/ CondVarBroadcast(cv)
        PROVE  InTurn
    BY <1>0, <1>6, UnblockInTurn, Objects DEF CondVarSignal, CondVarBroadcast
  <1>7. CASE UNCHANGED vars
    BY <1>7, QuietInTurn DEF vars, thread_vars, sched_vars
  <1> QED
    BY <1>1, <1>2, <1>3, <1>4, <1>5, <1>6, <1>7 DEF Next, SynchStep

\* Round robin: whatever the threads do, no thread is put ahead of one that is
\* ready, taken before its turn, or dropped from the ready list.
THEOREM RoundRobin == Spec => NoOvertaking
  <1>1. IInv /\ IInv' /\ [Next]_vars =>
          [\A t \in Range(ready_threads) :
              IF t = current_thread' THEN Ahead(t) = {}
              ELSE t \in Range(ready_threads') /\ Ahead(t)' \subseteq Ahead(t)]_vars
    BY NextInTurn DEF InTurn
  <1> QED
    BY <1>1, Invariance, PTL DEF Spec, NoOvertaking

-----------------------------------------------------------------------------
(* Sleep *)

\* What a step does to time: nothing, or it is a tick, and whoever is woken by it
\* is due.
TimeStep ==
    \/ UNCHANGED <<timer_ticks, sleeping_threads>>
    \/ /\ timer_ticks' = (timer_ticks + 1) % Word
       /\ \A t \in Threads : Wakes(t) => wakeup_ticks[t] <= timer_ticks'

\* Every entry of the interrupt is a tick, and thread_timer_tick() takes only
\* those off the sleeping list whose time has come.
LEMMA IrqTime ==
    ASSUME IInv, NEW st, NEW ready, NEW on, NEW asserts, isr_IRQ0(st, ready, on, asserts)
    PROVE  TimeStep
  <1> DEFINE now   == (timer_ticks + 1) % Word
             awake == [t \in Threads |-> IF t \in Due(now) THEN "Ready" ELSE st[t]]
  <1>1. PICK tick \in thread_timer_tick(now) : \E ok :
          schedule(find_ready_thread(awake, tick.woken \o ready), awake,
                   ReadyRest(tick.woken \o ready), tick.asleep, ok)
    BY DEF isr_IRQ0
  <1> DEFINE asleep == tick.asleep
  <1>2. timer_ticks' = now
    BY DEF isr_IRQ0
  <1>3. me \in Threads /\ sleeping_threads \in Seq(Threads)
    BY CurrentIsFree DEF IInv, TypeOK
  <1>4. asleep \in Seq(Threads) /\ Range(asleep) = Range(sleeping_threads) \ Due(now)
    <2>1. asleep \in InOrder(sleeping_threads, Range(sleeping_threads) \ Due(now))
      BY <1>1 DEF thread_timer_tick
    <2>2. Range(sleeping_threads) \ Due(now) \subseteq Threads
      BY <1>3, ListDomain
    <2> QED
      BY <1>3, <2>1, <2>2, InOrderEnumerates
  <1>5. sleeping_threads' = asleep \/ sleeping_threads' = <<me>> \o asleep
    BY <1>1 DEF schedule, thread_list_add
  <1> HIDE DEF now, asleep
  <1>6. Range(asleep) \subseteq Range(sleeping_threads')
    <2>1. PICK q \in Seq(Threads) : q = <<me>>
      BY <1>3, SingletonList
    <2>2. Range(q \o asleep) = Range(q) \cup Range(asleep)
      BY <1>4, RangeConcatenation
    <2> QED
      BY <1>5, <2>1, <2>2
  <1>7. ASSUME NEW t \in Threads, Wakes(t) PROVE wakeup_ticks[t] <= timer_ticks'
    <2>1. t \in Due(now)
      BY <1>4, <1>6, <1>7 DEF Wakes
    <2> QED
      BY <1>2, <2>1 DEF Due
  <1> QED
    BY <1>2, <1>7 DEF TimeStep, now

\* No other step of the kernel moves time, or takes a thread off the list.
LEMMA NextTime ==
    ASSUME IInv, [Next]_vars
    PROVE  TimeStep
  <1>1. ASSUME NEW o, NEW on, semaphore_down(o, on) PROVE TimeStep
    <2>1. CASE isr_IRQ0([status EXCEPT ![me] = "Blocked"], ready_threads,
                        [on EXCEPT ![me] = IF @ = NULL THEN o ELSE @], TRUE)
      BY <2>1, IrqTime
    <2>2. CASE UNCHANGED <<timer_ticks, sleeping_threads>>
      BY <2>2 DEF TimeStep
    <2> QED
      BY <1>1, <2>1, <2>2 DEF semaphore_down
  <1>2. ASSUME NEW w, thread_unblock(w) PROVE TimeStep
    BY <1>2 DEF thread_unblock, TimeStep
  <1>3. CASE ThreadStep
    <2>1. CASE TimerInterrupt
      BY <2>1, IrqTime DEF TimerInterrupt
    <2>2. CASE ThreadSleepYield
      BY <2>2, IrqTime DEF ThreadSleepYield
    <2>3. CASE ThreadExit
      BY <2>3, IrqTime DEF ThreadExit
    <2>4. CASE (\E n \in SleepTicks : ThreadSleep(n)) \/ ThreadSleepStatus
      BY <2>4 DEF ThreadSleep, ThreadSleepStatus, sched_vars, TimeStep
    <2> QED
      BY <1>3, <2>1, <2>2, <2>3, <2>4 DEF ThreadStep
  <1>4. ASSUME NEW s \in Semaphores, SemaphoreDown(s) \/ SemaphoreTryDown(s) \/ SemaphoreUp(s)
        PROVE  TimeStep
    <2>1. CASE SemaphoreDown(s)
      BY <1>1, <2>1 DEF SemaphoreDown
    <2>2. CASE SemaphoreTryDown(s)
      BY <2>2 DEF SemaphoreTryDown, thread_vars, sched_vars, TimeStep
    <2>3. CASE SemaphoreUp(s)
      BY <1>2, <2>3 DEF SemaphoreUp, semaphore_up
    <2> QED
      BY <1>4, <2>1, <2>2, <2>3
  <1>5. ASSUME NEW m \in Mutexes,
               \/ MutexReenter(m) \/ MutexTake(m) \/ MutexBlock(m)
               \/ MutexTry(m) \/ MutexRelease(m)
        PROVE  TimeStep
    <2>1. CASE MutexReenter(m) \/ MutexTry(m)
      BY <2>1 DEF MutexReenter, MutexTry, sched_vars, TimeStep
    <2>2. CASE MutexTake(m) \/ MutexBlock(m)
      BY <1>1, <2>2 DEF MutexTake, MutexBlock
    <2>3. CASE MutexRelease(m)
      <3>1. CASE semaphore_up(m)
        BY <1>2, <3>1 DEF semaphore_up
      <3>2. CASE UNCHANGED sched_vars
        BY <3>2 DEF sched_vars, TimeStep
      <3> QED
        BY <2>3, <3>1, <3>2 DEF MutexRelease
    <2> QED
      BY <1>5, <2>1, <2>2, <2>3
  <1>6. CASE MutexGranted \/ MutexTryOwn
    BY <1>6 DEF MutexGranted, MutexTryOwn, sched_vars, TimeStep
  <1>7. ASSUME NEW cv \in CondVars, NEW m \in Mutexes, CondVarWait(cv, m)
        PROVE  TimeStep
    BY <1>7, IrqTime DEF CondVarWait
  <1>8. ASSUME NEW cv \in CondVars, CondVarSignal(cv) \/ CondVarBroadcast(cv)
        PROVE  TimeStep
    BY <1>2, <1>8 DEF CondVarSignal, CondVarBroadcast
  <1>9. CASE UNCHANGED vars
    BY <1>9 DEF vars, thread_vars, sched_vars, TimeStep
  <1> QED
    BY <1>3, <1>4, <1>5, <1>6, <1>7, <1>8, <1>9 DEF Next, SynchStep

\* Unless the sum overflowed, the watch of a thread that still has to sleep shows
\* how far its wake-up time is ahead of the tick counter: the counter cannot
\* wrap around before that time.
ClockOK ==
    /\ remaining \in [Threads -> Nat]
    /\ wrapped \in [Threads -> BOOLEAN]
    /\ \A t \in Threads :
          ~wrapped[t] /\ remaining[t] > 0 => wakeup_ticks[t] = timer_ticks + remaining[t]

ClockNext == Counts \/ \E n \in SleepTicks : Asks(n)

\* A step of the clock is a step of the kernel.
LEMMA ClockStepIsStep == [ClockNext]_clock_vars => [Next]_vars
  BY DEF ClockNext, Counts, Asks, clock_vars, Next, ThreadStep

\* thread_sleep() is the only code that writes wakeup_ticks.
LEMMA WakeupKept ==
    ASSUME Counts, IInv
    PROVE  UNCHANGED wakeup_ticks
  <1>1. \A n \in SleepTicks : ~ThreadSleep(n)
    <2>1. me \in Threads /\ pc \in [Threads -> Points]
      BY CurrentIsFree DEF IInv, TypeOK
    <2> QED
      BY <2>1 DEF Counts, ThreadSleep, AtClient
  <1> QED
    BY <1>1 DEF Counts, Next, ThreadStep, SynchStep, TimerInterrupt, ThreadSleepStatus,
       ThreadSleepYield, ThreadExit, SemaphoreDown, SemaphoreTryDown, SemaphoreUp, MutexReenter,
       MutexTake, MutexBlock, MutexTry, MutexRelease, MutexGranted, MutexTryOwn, CondVarWait,
       CondVarSignal, CondVarBroadcast, thread_vars

\* Nobody who is woken by a step, and whose sum did not overflow, had more than
\* one interrupt to go.
LEMMA WakesInTime ==
    ASSUME IInv, ClockOK, TimeStep, NEW t \in Threads, Wakes(t), ~wrapped[t]
    PROVE  remaining[t] <= 1
  <1>1. /\ timer_ticks \in 0..(Word - 1) /\ wakeup_ticks[t] \in 0..(Word - 1)
        /\ Word \in Nat \ {0} /\ remaining[t] \in Nat
    BY WordAssumption DEF IInv, TypeOK, ClockOK
  <1>2. timer_ticks' = (timer_ticks + 1) % Word /\ wakeup_ticks[t] <= timer_ticks'
    BY DEF TimeStep, Wakes
  <1>3. ASSUME remaining[t] > 0 PROVE remaining[t] <= 1
    <2>1. wakeup_ticks[t] = timer_ticks + remaining[t]
      BY <1>3 DEF ClockOK
    <2>2. timer_ticks + 1 < Word
      BY <1>1, <1>3, <2>1
    <2>3. (timer_ticks + 1) % Word = timer_ticks + 1
      BY <1>1, <2>2
    <2> QED
      BY <1>1, <1>2, <2>1, <2>3
  <1> QED
    BY <1>1, <1>3

\* Every step keeps the watches right.
LEMMA ClockNextOK ==
    ASSUME IInv, ClockOK, [ClockNext]_clock_vars
    PROVE  ClockOK'
  <1>0. /\ me \in Threads /\ timer_ticks \in 0..(Word - 1)
        /\ wakeup_ticks \in [Threads -> 0..(Word - 1)] /\ Word \in Nat \ {0}
        /\ remaining \in [Threads -> Nat] /\ wrapped \in [Threads -> BOOLEAN]
    BY CurrentIsFree, WordAssumption DEF IInv, TypeOK, ClockOK
  <1>1. ASSUME NEW n \in SleepTicks, Asks(n) PROVE ClockOK'
    <2>1. /\ wakeup_ticks' = [wakeup_ticks EXCEPT ![me] = (timer_ticks + n) % Word]
          /\ UNCHANGED timer_ticks
          /\ remaining' = [remaining EXCEPT ![me] = n]
          /\ wrapped' = [wrapped EXCEPT ![me] = timer_ticks + n >= Word]
          /\ n \in Nat
      BY <1>1, WordAssumption DEF Asks, ThreadSleep, sched_vars
    <2>2. /\ remaining' \in [Threads -> Nat]
          /\ wrapped' \in [Threads -> BOOLEAN]
      BY <1>0, <2>1
    <2>3. ASSUME NEW t \in Threads, ~wrapped'[t], remaining'[t] > 0
          PROVE  wakeup_ticks'[t] = timer_ticks' + remaining'[t]
      <3>1. CASE t = me
        <4>1. ~(timer_ticks + n >= Word)
          BY <1>0, <2>1, <2>3, <3>1
        <4>2. (timer_ticks + n) % Word = timer_ticks + n
          BY <1>0, <2>1, <4>1
        <4> QED
          BY <1>0, <2>1, <3>1, <4>2
      <3>2. CASE t # me
        BY <1>0, <2>1, <2>3, <3>2 DEF ClockOK
      <3> QED
        BY <3>1, <3>2
    <2> QED
      BY <2>2, <2>3 DEF ClockOK
  <1>2. CASE Counts
    <2>1. UNCHANGED wakeup_ticks /\ TimeStep
      BY <1>2, WakeupKept, NextTime DEF Counts
    <2>2. /\ remaining' = [t \in Threads |->
                             IF Wakes(t) THEN 0
                             ELSE IF timer_ticks' # timer_ticks /\ remaining[t] > 0
                             THEN remaining[t] - 1 ELSE remaining[t]]
          /\ wrapped' = [t \in Threads |-> wrapped[t] /\ ~Wakes(t)]
      BY <1>2 DEF Counts
    <2>3. remaining' \in [Threads -> Nat]
      BY <1>0, <2>2
    <2>4. wrapped' \in [Threads -> BOOLEAN]
      BY <2>2
    <2>5. ASSUME NEW t \in Threads, ~wrapped'[t], remaining'[t] > 0
          PROVE  wakeup_ticks'[t] = timer_ticks' + remaining'[t]
      <3>0. ~Wakes(t)
        <4>1. Wakes(t) => remaining'[t] = 0
          BY <2>2
        <4> QED
          BY <2>5, <4>1
      <3>1. ~Wakes(t) /\ ~wrapped[t]
        <4>1. wrapped'[t] = (wrapped[t] /\ ~Wakes(t))
          BY <2>2
        <4> QED
          BY <1>0, <2>5, <3>0, <4>1, Zenon
      <3>2. remaining'[t] = IF timer_ticks' # timer_ticks /\ remaining[t] > 0
                            THEN remaining[t] - 1 ELSE remaining[t]
        BY <2>2, <3>1
      <3>3. remaining[t] \in Nat /\ wakeup_ticks[t] \in 0..(Word - 1)
        BY <1>0
      <3>4. remaining[t] > 0 /\ wakeup_ticks[t] = timer_ticks + remaining[t]
        BY <2>5, <3>1, <3>2, <3>3 DEF ClockOK
      <3>5. CASE timer_ticks' = timer_ticks
        BY <2>1, <3>2, <3>4, <3>5
      <3>6. CASE timer_ticks' # timer_ticks
        <4>1. timer_ticks' = (timer_ticks + 1) % Word
          BY <2>1, <3>6 DEF TimeStep
        <4>2. timer_ticks + 1 < Word
          BY <1>0, <3>3, <3>4
        <4>3. (timer_ticks + 1) % Word = timer_ticks + 1
          BY <1>0, <4>2
        <4> QED
          BY <1>0, <2>1, <3>2, <3>3, <3>4, <3>6, <4>1, <4>3
      <3> QED
        BY <3>5, <3>6
    <2> QED
      BY <2>3, <2>4, <2>5 DEF ClockOK
  <1>3. CASE UNCHANGED clock_vars
    BY <1>3 DEF clock_vars, vars, thread_vars, sched_vars, ClockOK
  <1> QED
    BY <1>1, <1>2, <1>3 DEF ClockNext

\* A thread sleeps at least as many interrupts as it asked for, for any word size,
\* any argument and however its thread_sleep() is interrupted, unless the sum
\* timer_ticks + ticks overflowed.
THEOREM NeverWokenEarly == ClockSpec => SleepsLongEnoughUnlessWrapped
  <1>1. ClockInit => IInv /\ ClockOK
    <2> SUFFICES ASSUME ClockInit PROVE IInv /\ ClockOK
      OBVIOUS
    <2>1. IInv
      BY InitInv DEF ClockInit
    <2>2. ClockOK
      BY DEF ClockInit, ClockOK
    <2> QED
      BY <2>1, <2>2
  <1>2. IInv /\ ClockOK /\ [ClockNext]_clock_vars => (IInv /\ ClockOK)'
    <2> SUFFICES ASSUME IInv, ClockOK, [ClockNext]_clock_vars PROVE IInv' /\ ClockOK'
      OBVIOUS
    <2>1. IInv'
      BY ClockStepIsStep, NextInv
    <2>2. ClockOK'
      BY ClockNextOK
    <2> QED
      BY <2>1, <2>2
  <1>3. IInv /\ ClockOK /\ [ClockNext]_clock_vars =>
          [\A t \in Threads : Wakes(t) /\ ~wrapped[t] => remaining[t] <= 1]_clock_vars
    <2> SUFFICES ASSUME IInv, ClockOK, [ClockNext]_clock_vars
                 PROVE  \A t \in Threads : Wakes(t) /\ ~wrapped[t] => remaining[t] <= 1
      OBVIOUS
    <2>1. TimeStep
      BY ClockStepIsStep, NextTime
    <2> QED
      BY <2>1, WakesInTime
  <1> QED
    BY <1>1, <1>2, <1>3, PTL DEF ClockSpec, ClockNext, SleepsLongEnoughUnlessWrapped
=============================================================================
