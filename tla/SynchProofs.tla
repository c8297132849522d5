---------------------------- MODULE SynchProofs ----------------------------
(***************************************************************************)
(* Proofs about Synch: for any set of threads, semaphores, mutexes and     *)
(* condition variables, any word size and any client that keeps to the     *)
(* rules, the safety properties that TLC checks on small instances hold.   *)
(***************************************************************************)
EXTENDS Synch, ListLemmas, FiniteSetTheorems

-----------------------------------------------------------------------------
(* The timer interrupt *)

Blockers == Queues \cup {NULL, KernelLock}

\* The part of TypeOK that isr_IRQ0 reads besides its parameters.
IrqTypeOK ==
    /\ current_thread \in Threads
    /\ sleeping_threads \in Seq(Threads)
    /\ zombie_threads \subseteq Threads
    /\ all_threads \subseteq Threads
    /\ timer_ticks \in 0..(Word - 1)

\* Any enumeration that InOrder allows lists exactly the given set, nobody twice.
LEMMA InOrderEnumerates ==
    ASSUME NEW q \in Seq(Threads), NEW S \in SUBSET Threads, NEW s \in InOrder(q, S)
    PROVE  s \in Seq(Threads) /\ Range(s) = S /\ IsInjective(s)
  <1>1. s \in SeqOf(S, Len(q)) /\ Range(s) = S /\ IsInjective(s)
    BY DEF InOrder
  <1>2. PICK m \in 0..Len(q) : s \in [1..m -> S]
    BY <1>1 DEF SeqOf
  <1>3. m \in Nat
    BY <1>2, LenProperties
  <1>4. s \in [1..m -> Threads]
    BY <1>2
  <1>5. s \in Seq(Threads)
    BY <1>3, <1>4, SeqDef
  <1> QED
    BY <1>1, <1>5

\* Whatever state the interrupted operation left its own thread in, the
\* interrupt files that thread where its status says and switches to a thread
\* that was ready: afterwards the lists agree with the statuses again, nobody
\* has become blocked or unblocked, and no assertion of the handler has failed.
LEMMA SwitchKeepsLists ==
    ASSUME NEW st \in [Threads -> Statuses], NEW ready \in Seq(Threads),
           NEW on \in [Threads -> Blockers], NEW asserts \in BOOLEAN,
           IrqTypeOK, ListsOK(st, ready), isr_IRQ0(st, ready, on, asserts)
    PROVE  /\ IrqTypeOK'
           /\ status' \in [Threads -> Statuses]
           /\ ready_threads' \in Seq(Threads)
           /\ blocked_on' \in [Threads -> Blockers]
           /\ panic' = ~asserts
           /\ ListsOK(status, ready_threads)'
           /\ status'[current_thread'] = "Running"
           /\ \A t \in Threads : status'[t] = "Blocked" <=> st[t] = "Blocked"
  <1> DEFINE now   == (timer_ticks + 1) % Word
             due   == Due(now)
             awake == [t \in Threads |-> IF t \in due THEN "Ready" ELSE st[t]]
             Slept == Range(sleeping_threads)
  <1>0. PICK tick \in thread_timer_tick(now) :
          schedule(find_ready_thread(awake, tick.woken \o ready), awake,
                   ReadyRest(tick.woken \o ready), tick.asleep,
                   asserts /\ (\A t \in Slept : st[t] = "Sleeping")
                           /\ CleanZombiesAsserts(awake))
    BY DEF isr_IRQ0
  <1> DEFINE woken  == tick.woken
             asleep == tick.asleep
             found  == woken \o ready
             next   == find_ready_thread(awake, found)
             rest   == ReadyRest(found)
  <1>1. due \subseteq Slept /\ Slept \subseteq Threads
    BY ListDomain DEF IrqTypeOK, Due
  <1>2. /\ IsInjective(Reverse(sleeping_threads))
        /\ Reverse(sleeping_threads) \in Seq(Threads)
    BY ReverseList DEF IrqTypeOK, ListsOK
  <1>3. /\ woken \in InOrder(Reverse(sleeping_threads), due)
        /\ asleep \in InOrder(sleeping_threads, Slept \ due)
    BY <1>0 DEF thread_timer_tick
  <1>4. woken \in Seq(Threads) /\ Range(woken) = due /\ IsInjective(woken)
    BY <1>1, <1>2, <1>3, InOrderEnumerates
  <1>5. asleep \in Seq(Threads) /\ Range(asleep) = Slept \ due /\ IsInjective(asleep)
    BY <1>1, <1>3, InOrderEnumerates DEF IrqTypeOK
  <1>6. /\ timer_ticks' = now
        /\ now \in 0..(Word - 1)
    BY WordAssumption DEF isr_IRQ0, IrqTypeOK
  <1>7. /\ all_threads' = all_threads \ Reaped
        /\ blocked_on' \in [Threads -> Blockers]
    BY DEF isr_IRQ0, clean_zombies, Blockers, IrqTypeOK
  <1>8. /\ me \in Threads /\ Idle \in Threads
        /\ me \notin Slept /\ me \notin due /\ me \notin zombie_threads
        /\ Idle \notin Slept /\ Idle \notin due /\ Idle \notin zombie_threads
        /\ \A t \in Slept : st[t] = "Sleeping"
        /\ \A t \in zombie_threads : st[t] = "Zombie" /\ t \in all_threads /\ t # me
    BY <1>1, ThreadsAssumption DEF IrqTypeOK, ListsOK, me
  <1>9. Reaped = zombie_threads
    BY <1>8 DEF Reaped
  <1>10. /\ awake \in [Threads -> Statuses]
         /\ awake[me] = st[me]
         /\ awake[Idle] = st[Idle]
         /\ \A t \in zombie_threads : awake[t] = "Zombie"
         /\ CleanZombiesAsserts(awake)
    BY <1>1, <1>8 DEF Statuses, CleanZombiesAsserts, IrqTypeOK
  <1>11. Range(woken) \cap Range(ready) = {}
    BY <1>1, <1>4, <1>8 DEF ListsOK
  <1>12. found \in Seq(Threads) /\ Range(found) = due \cup Range(ready) /\ IsInjective(found)
    BY <1>4, <1>11, ConcatList DEF ListsOK
  <1>13. ASSUME NEW t \in Threads \ {Idle}
         PROVE  /\ t \in Range(found) <=> awake[t] = "Ready"
                /\ t \in Range(asleep) <=> awake[t] = "Sleeping" /\ t # me
                /\ t \in zombie_threads <=> awake[t] = "Zombie" /\ t \in all_threads /\ t # me
    BY <1>1, <1>5, <1>8, <1>12 DEF ListsOK
  <1>14. Idle \notin Range(found) /\ Idle \notin Range(asleep) /\ me \notin Range(asleep)
    BY <1>5, <1>8, <1>12 DEF ListsOK
  <1>15. /\ \A t \in Threads : awake[t] = "Running" => t = me
         /\ \A t \in Threads : awake[t] # "Zombie" => t \in all_threads
         /\ \A t \in Threads : awake[t] = "Blocked" <=> st[t] = "Blocked"
         /\ me \in all_threads
         /\ awake[me] # "Ready"
         /\ awake[Idle] = IF me = Idle THEN "Running" ELSE "Ready"
    BY <1>1, <1>8, <1>10 DEF ListsOK
  <1>16. /\ next \in Threads
         /\ rest \in Seq(Threads)
         /\ IsInjective(rest)
         /\ Range(rest) = Range(found) \ {next}
         /\ next = me => awake[me] = "Running"
         /\ next # me => awake[next] = "Ready"
         /\ next # me => next # Idle \/ Range(found) = {}
    <2>1. CASE found # <<>>
      <3>1. next = Last(found) /\ rest = Front(found)
        BY <2>1 DEF find_ready_thread, ReadyRest
      <3> HIDE DEF found, next, rest, awake
      <3>2. /\ next \in Threads /\ next \in Range(found)
            /\ rest \in Seq(Threads) /\ IsInjective(rest)
            /\ Range(rest) = Range(found) \ {next}
        BY <2>1, <3>1, <1>12, FrontList
      <3>3. next # Idle /\ awake[next] = "Ready" /\ next # me
        BY <3>2, <1>13, <1>14, <1>15
      <3> QED
        BY <3>2, <3>3
    <2>2. CASE found = <<>>
      <3>1. /\ next = IF awake[me] = "Running" THEN me ELSE Idle
            /\ rest = <<>>
        BY <2>2 DEF find_ready_thread, ReadyRest
      <3>2. Range(found) = {} /\ Range(rest) = {} /\ rest \in Seq(Threads) /\ IsInjective(rest)
        BY <2>2, <3>1, EmptyList
      <3> QED
        BY <3>1, <3>2, <1>8, <1>15
    <2> QED
      BY <2>1, <2>2
  <1>17. schedule(next, awake, rest, asleep, asserts)
    <2>1. (asserts /\ (\A t \in Slept : st[t] = "Sleeping") /\ CleanZombiesAsserts(awake)) = asserts
      BY <1>8, <1>10
    <2> QED
      BY <1>0, <2>1
  <1> HIDE DEF now, due, awake, Slept, woken, asleep, found, next, rest
  <1>18. CASE next = me
    <2>1. /\ current_thread' = me
          /\ status' = awake
          /\ ready_threads' = rest
          /\ sleeping_threads' = asleep
          /\ zombie_threads' = {}
          /\ all_threads' = all_threads \ zombie_threads
          /\ panic' = ~asserts
      BY <1>7, <1>9, <1>16, <1>17, <1>18 DEF schedule, thread_list_add
    <2>2. \A t \in Threads : t \in Range(rest) <=> t \in Range(found)
      <3>1. me \notin Range(found)
        BY <1>8, <1>13, <1>14, <1>15
      <3> QED
        BY <1>16, <1>18, <3>1
    <2>3. \A t \in Threads \ {Idle} :
            /\ t \in Range(ready_threads') <=> status'[t] = "Ready"
            /\ t \in Range(sleeping_threads') <=> status'[t] = "Sleeping" /\ t # current_thread'
            /\ t \in zombie_threads' <=>
                  status'[t] = "Zombie" /\ t \in all_threads' /\ t # current_thread'
      BY <1>13, <2>1, <2>2
    <2>4. \A t \in Threads : status'[t] # "Zombie" => t \in all_threads'
      BY <1>10, <1>15, <2>1
    <2>5. ListsOK(status, ready_threads)'
      BY <1>5, <1>8, <1>14, <1>15, <1>16, <1>18, <2>1, <2>2, <2>3, <2>4 DEF ListsOK, me
    <2> QED
      BY <1>5, <1>6, <1>7, <1>8, <1>10, <1>15, <1>16, <1>18, <2>1, <2>5 DEF IrqTypeOK
  <1>19. CASE next # me
    <2> DEFINE Is(s) == me # Idle /\ awake[me] = s
    <2>1. /\ current_thread' = next
          /\ status' = [t \in Threads |->
                          IF t = next THEN "Running"
                          ELSE IF t = me /\ (me = Idle \/ awake[me] = "Running")
                          THEN "Ready" ELSE awake[t]]
          /\ ready_threads' = IF Is("Running") THEN <<me>> \o rest ELSE rest
          /\ sleeping_threads' = IF Is("Sleeping") THEN <<me>> \o asleep ELSE asleep
          /\ zombie_threads' = IF Is("Zombie") THEN {me} ELSE {}
          /\ all_threads' = all_threads \ zombie_threads
          /\ panic' = ~asserts
      BY <1>7, <1>9, <1>15, <1>16, <1>17, <1>19 DEF schedule, thread_list_add
    <2>2. me \notin Range(found)
      BY <1>8, <1>13, <1>14, <1>15
    <2>3. /\ ready_threads' \in Seq(Threads)
          /\ IsInjective(ready_threads')
          /\ Range(ready_threads') =
               (Range(found) \ {next}) \cup (IF Is("Running") THEN {me} ELSE {})
      BY <1>8, <1>16, <2>1, <2>2, PushList
    <2>4. /\ sleeping_threads' \in Seq(Threads)
          /\ IsInjective(sleeping_threads')
          /\ Range(sleeping_threads') =
               Range(asleep) \cup (IF Is("Sleeping") THEN {me} ELSE {})
      BY <1>5, <1>8, <1>14, <2>1, PushList
    <2>5. \A t \in Threads :
            status'[t] = IF t = next THEN "Running"
                         ELSE IF t = me /\ (me = Idle \/ awake[me] = "Running")
                         THEN "Ready" ELSE awake[t]
      BY <2>1
    <2>6. status' \in [Threads -> Statuses]
      BY <1>10, <2>1 DEF Statuses
    <2>7. ASSUME NEW t \in Threads \ {Idle}
          PROVE  /\ t \in Range(ready_threads') <=> status'[t] = "Ready"
                 /\ t \in Range(sleeping_threads') <=> status'[t] = "Sleeping" /\ t # next
                 /\ t \in zombie_threads' <=>
                      status'[t] = "Zombie" /\ t \in all_threads' /\ t # next
      <3>1. CASE t = next
        <4>1. awake[t] = "Ready" /\ t # me /\ status'[t] = "Running"
          BY <1>16, <1>19, <2>5, <3>1
        <4> QED
          BY <1>13, <2>1, <2>3, <2>4, <3>1, <4>1
      <3>2. CASE t = me
        <4>1. t # Idle /\ t # next /\ status'[t] = IF awake[me] = "Running" THEN "Ready" ELSE awake[t]
          BY <1>19, <2>5, <3>2
        <4> QED
          BY <1>8, <1>13, <1>14, <1>15, <2>1, <2>2, <2>3, <2>4, <3>2, <4>1
      <3>3. CASE t # next /\ t # me
        <4>1. status'[t] = awake[t]
          BY <2>5, <3>3
        <4> QED
          BY <1>13, <2>1, <2>3, <2>4, <3>3, <4>1
      <3> QED
        BY <3>1, <3>2, <3>3
    <2>8. /\ Idle \notin Range(ready_threads')
          /\ Idle \notin Range(sleeping_threads')
          /\ Idle \notin zombie_threads'
      BY <1>14, <2>1, <2>3, <2>4
    <2>9. \A t \in Threads : status'[t] = "Running" => t = next
      BY <1>15, <2>5
    <2>10. \A t \in Threads : status'[t] # "Zombie" => t \in all_threads'
      BY <1>8, <1>10, <1>15, <1>16, <2>1, <2>5
    <2>11. next \in all_threads' /\ status'[next] = "Running"
      BY <1>16, <2>5, <2>10
    <2>12. status'[Idle] = IF next = Idle THEN "Running" ELSE "Ready"
      BY <1>8, <1>15, <2>5
    <2>13. ListsOK(status, ready_threads)'
      BY <2>1, <2>3, <2>4, <2>7, <2>8, <2>9, <2>10, <2>11, <2>12 DEF ListsOK, me
    <2>14. \A t \in Threads : status'[t] = "Blocked" <=> st[t] = "Blocked"
      BY <1>10, <1>15, <1>16, <1>19, <2>5
    <2>15. zombie_threads' \subseteq Threads /\ all_threads' \subseteq Threads
      BY <1>8, <2>1 DEF IrqTypeOK
    <2> QED
      BY <1>6, <1>7, <1>16, <2>1, <2>3, <2>4, <2>6, <2>11, <2>13, <2>14, <2>15 DEF IrqTypeOK
  <1> QED
    BY <1>18, <1>19

-----------------------------------------------------------------------------
(* Blocking and unblocking *)

\* Before it gives the processor away, the running thread changes its own
\* status: that leaves every list as it should be.
LEMMA OwnStatus ==
    ASSUME IrqTypeOK, status \in [Threads -> Statuses],
           ListsOK(status, ready_threads), me # Idle,
           NEW s \in {"Blocked", "Sleeping", "Zombie"}
    PROVE  /\ [status EXCEPT ![me] = s] \in [Threads -> Statuses]
           /\ ListsOK([status EXCEPT ![me] = s], ready_threads)
  BY ThreadsAssumption DEF IrqTypeOK, ListsOK, Statuses, me

\* thread_unblock() of threads that are blocked, none of them the current one.
LEMMA UnblockKeepsLists ==
    ASSUME IrqTypeOK, ready_threads \in Seq(Threads),
           NEW st \in [Threads -> Statuses], ListsOK(st, ready_threads),
           NEW w \in Seq(Threads), IsInjective(w), me \notin Range(w),
           \A t \in Range(w) : st[t] = "Blocked"
    PROVE  /\ UnblockStatus(w, st) \in [Threads -> Statuses]
           /\ UnblockReady(w) \in Seq(Threads)
           /\ ListsOK(UnblockStatus(w, st), UnblockReady(w))
  <1> DEFINE st2 == UnblockStatus(w, st)
             r2  == UnblockReady(w)
  <1>1. Range(w) \subseteq Threads
    BY ListDomain
  <1>2. \A t \in Range(w) : t # Idle /\ t # me /\ t \notin Range(ready_threads)
                           /\ t \notin Range(sleeping_threads) /\ t \notin zombie_threads
                           /\ t \in all_threads
    BY <1>1, ThreadsAssumption DEF ListsOK
  <1>3. \A t \in Threads : st2[t] = IF t \in Range(w) THEN "Ready" ELSE st[t]
    BY DEF UnblockStatus
  <1>4. st2 \in [Threads -> Statuses]
    BY DEF UnblockStatus, Statuses
  <1>5. /\ Reverse(w) \in Seq(Threads)
        /\ Range(Reverse(w)) = Range(w)
        /\ IsInjective(Reverse(w))
    BY ReverseList
  <1>6. /\ r2 \in Seq(Threads)
        /\ Range(r2) = Range(w) \cup Range(ready_threads)
        /\ IsInjective(r2)
    <2>1. Range(Reverse(w)) \cap Range(ready_threads) = {}
      BY <1>2, <1>5
    <2>2. /\ Reverse(w) \o ready_threads \in Seq(Threads)
          /\ Range(Reverse(w) \o ready_threads) = Range(Reverse(w)) \cup Range(ready_threads)
          /\ IsInjective(Reverse(w) \o ready_threads)
      BY <1>5, <2>1, ConcatList DEF ListsOK
    <2> QED
      BY <1>5, <2>2 DEF UnblockReady
  <1> HIDE DEF st2, r2
  <1>7. ListsOK(st2, r2)
    BY <1>1, <1>2, <1>3, <1>6, ThreadsAssumption DEF ListsOK, IrqTypeOK, me
  <1> QED
    BY <1>4, <1>6, <1>7 DEF st2, r2

\* wait_queue_append() of a thread that is in no queue, with the change of its
\* status to Blocked.
LEMMA EnqueueKeepsQueues ==
    ASSUME NEW st \in [Threads -> Statuses], NEW queue \in [Queues -> Seq(Threads)],
           QueuesOK(st, queue), NEW t \in Threads, NEW o \in Queues, st[t] # "Blocked"
    PROVE  /\ [queue EXCEPT ![o] = Append(@, t)] \in [Queues -> Seq(Threads)]
           /\ QueuesOK([st EXCEPT ![t] = "Blocked"], [queue EXCEPT ![o] = Append(@, t)])
  <1> DEFINE q2  == [queue EXCEPT ![o] = Append(@, t)]
             st2 == [st EXCEPT ![t] = "Blocked"]
  <1>1. \A p \in Queues : t \notin Range(queue[p])
    BY DEF QueuesOK
  <1>2. /\ Append(queue[o], t) \in Seq(Threads)
        /\ Range(Append(queue[o], t)) = Range(queue[o]) \cup {t}
        /\ IsInjective(Append(queue[o], t))
    BY <1>1, AppendList DEF QueuesOK
  <1>3. /\ q2 \in [Queues -> Seq(Threads)]
        /\ q2[o] = Append(queue[o], t)
        /\ \A p \in Queues : p # o => q2[p] = queue[p]
    BY <1>2
  <1>4. \A u \in Threads : st2[u] = IF u = t THEN "Blocked" ELSE st[u]
    OBVIOUS
  <1> HIDE DEF q2, st2
  <1>5. \A u \in Threads, p \in Queues :
          u \in Range(q2[p]) <=> u \in Range(queue[p]) \/ (u = t /\ p = o)
    BY <1>2, <1>3
  <1>6. \A p \in Queues : IsInjective(q2[p])
    BY <1>2, <1>3 DEF QueuesOK
  <1>7. QueuesOK(st2, q2)
    BY <1>1, <1>4, <1>5, <1>6 DEF QueuesOK
  <1> QED
    BY <1>3, <1>7 DEF q2, st2

\* Taking the threads w off a queue, the threads r staying, and unblocking w.
LEMMA DequeueKeepsQueues ==
    ASSUME NEW st \in [Threads -> Statuses], NEW queue \in [Queues -> Seq(Threads)],
           QueuesOK(st, queue), NEW o \in Queues,
           NEW w, NEW r \in Seq(Threads), IsInjective(r),
           Range(w) \cap Range(r) = {}, Range(queue[o]) = Range(w) \cup Range(r)
    PROVE  /\ [queue EXCEPT ![o] = r] \in [Queues -> Seq(Threads)]
           /\ QueuesOK(UnblockStatus(w, st), [queue EXCEPT ![o] = r])
  <1> DEFINE q2  == [queue EXCEPT ![o] = r]
             st2 == UnblockStatus(w, st)
  <1>1. /\ q2 \in [Queues -> Seq(Threads)]
        /\ q2[o] = r
        /\ \A p \in Queues : p # o => q2[p] = queue[p]
    OBVIOUS
  <1>2. \A u \in Threads : st2[u] = IF u \in Range(w) THEN "Ready" ELSE st[u]
    BY DEF UnblockStatus
  <1> HIDE DEF q2, st2
  <1>3. \A u \in Threads, p \in Queues :
          u \in Range(q2[p]) <=> u \in Range(queue[p]) /\ u \notin Range(w)
    BY <1>1 DEF QueuesOK
  <1>4. \A p \in Queues : IsInjective(q2[p])
    BY <1>1 DEF QueuesOK
  <1>5. QueuesOK(st2, q2)
    BY <1>2, <1>3, <1>4 DEF QueuesOK
  <1> QED
    BY <1>1, <1>5 DEF q2, st2

\* wait_queue_popfront(), empty queues included.
LEMMA PopFront ==
    ASSUME NEW o \in Queues, wait_queue \in [Queues -> Seq(Threads)],
           IsInjective(wait_queue[o])
    PROVE  /\ Front1(o) \in Seq(Threads) /\ IsInjective(Front1(o))
           /\ Behind1(o) \in Seq(Threads) /\ IsInjective(Behind1(o))
           /\ Range(Front1(o)) \cap Range(Behind1(o)) = {}
           /\ Range(wait_queue[o]) = Range(Front1(o)) \cup Range(Behind1(o))
           /\ wait_queue[o] = <<>> => Range(Front1(o)) = {} /\ Len(Behind1(o)) = 0
           /\ wait_queue[o] # <<>> =>
                 /\ Range(Front1(o)) = {Head(wait_queue[o])}
                 /\ Head(wait_queue[o]) \in Threads
                 /\ Len(Behind1(o)) = Len(wait_queue[o]) - 1
  <1> DEFINE q == wait_queue[o]
  <1>1. q \in Seq(Threads)
    OBVIOUS
  <1>2. CASE q = <<>>
    BY <1>2, EmptyList DEF Front1, Behind1
  <1>3. CASE q # <<>>
    <2>1. Front1(o) = <<Head(q)>> /\ Behind1(o) = Tail(q)
      BY <1>3 DEF Front1, Behind1
    <2> HIDE DEF q
    <2>2. /\ Head(q) \in Threads /\ Head(q) \in Range(q)
          /\ Tail(q) \in Seq(Threads)
          /\ Len(Tail(q)) = Len(q) - 1
          /\ Range(Tail(q)) = Range(q) \ {Head(q)}
          /\ IsInjective(Tail(q))
      BY <1>1, <1>3, TailList DEF q
    <2>3. <<Head(q)>> \in Seq(Threads) /\ Range(<<Head(q)>>) = {Head(q)} /\ IsInjective(<<Head(q)>>)
      BY <2>2, SingletonList
    <2>4. Range(q) = {Head(q)} \cup (Range(q) \ {Head(q)})
      BY <2>2
    <2> QED
      BY <1>3, <2>1, <2>2, <2>3, <2>4 DEF q
  <1> QED
    BY <1>2, <1>3

-----------------------------------------------------------------------------
(* The inductive invariant *)

SchedOK == /\ ListsOK(status, ready_threads)
           /\ QueuesOK(status, wait_queue)
           /\ CurrentOK

SynchOK == /\ WaitersOK
           /\ OwnersOK
           /\ CountIsQueueLength

\* The objects are told apart.
LEMMA Objects ==
    /\ \A m \in Mutexes : m \in Sems /\ m \in Queues /\ m \in Blockers /\ m # NULL
    /\ \A s \in Semaphores : s \in Sems /\ s \in Queues /\ s \in Blockers /\ s \notin Mutexes
    /\ \A c \in CondVars : c \in Queues /\ c \in Blockers /\ c \notin Mutexes /\ c \notin Sems
    /\ \A t \in Threads : t # NULL
  BY SynchAssumption, ThreadsAssumption DEF Sems, Queues, Blockers

\* The thread on the processor is in no wait queue.
LEMMA CurrentIsFree ==
    ASSUME IInv
    PROVE  /\ me \in Threads
           /\ status[me] # "Blocked"
           /\ \A o \in Queues : me \notin Range(wait_queue[o])
           /\ pc[me] # "sleep_yield" => status[me] = "Running"
           /\ IrqTypeOK
           /\ blocked_on \in [Threads -> Blockers]
  BY DEF IInv, TypeOK, CurrentOK, QueuesOK, me, IrqTypeOK, Blockers

\* A step that leaves the synchronization objects alone, and moves the current
\* thread only between points outside synch.c, keeps what is known about them.
LEMMA SynchFrame ==
    ASSUME IInv, UNCHANGED synch_vars, pc' \in [Threads -> Points],
           \A t \in Threads :
              \/ pc'[t] = pc[t]
              \/ /\ t = me
                 /\ pc[t] \in {"client", "sleep", "sleep_yield"}
                 /\ pc'[t] \in {"client", "sleep", "sleep_yield"}
    PROVE  SynchOK'
  <1>1. UNCHANGED <<count, wait_queue, holder, recursion_count, want, held>>
    BY DEF synch_vars, mutex_vars
  <1>2. \A o \in Queues : me \notin Range(wait_queue[o])
    BY CurrentIsFree
  <1>3. WaitersOK'
    <2>1. \A o \in Queues : \A t \in Range(wait_queue[o]) : t \in Threads /\ t # me
      BY <1>2, ListDomain DEF IInv, TypeOK
    <2>2. \A o \in Queues : \A t \in Range(wait_queue[o]) : pc'[t] = pc[t]
      BY <2>1
    <2> QED
      BY <1>1, <2>2, Objects DEF IInv, WaitersOK
  <1>4. \A t \in Threads, m \in Mutexes : Owns(t, m)' <=> Owns(t, m)
    BY <1>1 DEF Owns
  <1>5. OwnersOK'
    BY <1>1, <1>4 DEF IInv, OwnersOK, OwnerOK
  <1>6. CountIsQueueLength'
    BY <1>1 DEF IInv, CountIsQueueLength
  <1> QED
    BY <1>3, <1>5, <1>6 DEF SynchOK

\* A step that ends in isr_IRQ0, told by what it hands to the handler.
LEMMA SwitchStep ==
    ASSUME TypeOK, NEW st \in [Threads -> Statuses], NEW ready \in Seq(Threads),
           NEW on \in [Threads -> Blockers], NEW asserts \in BOOLEAN, asserts,
           IrqTypeOK, ListsOK(st, ready), isr_IRQ0(st, ready, on, asserts),
           QueuesOK(st, wait_queue'), pc'[Idle] = "client"
    PROVE  /\ IrqTypeOK'
           /\ status' \in [Threads -> Statuses]
           /\ ready_threads' \in Seq(Threads)
           /\ blocked_on' \in [Threads -> Blockers]
           /\ panic' = FALSE
           /\ SchedOK'
  <1>1. /\ IrqTypeOK'
        /\ status' \in [Threads -> Statuses]
        /\ ready_threads' \in Seq(Threads)
        /\ blocked_on' \in [Threads -> Blockers]
        /\ panic' = ~asserts
        /\ ListsOK(status, ready_threads)'
        /\ status'[current_thread'] = "Running"
        /\ \A t \in Threads : status'[t] = "Blocked" <=> st[t] = "Blocked"
    BY SwitchKeepsLists
  <1>2. QueuesOK(status', wait_queue')
    BY <1>1 DEF QueuesOK
  <1>3. QueuesOK(status, wait_queue)'
    BY <1>2 DEF QueuesOK
  <1>4. CurrentOK'
    BY <1>1 DEF CurrentOK, me
  <1> QED
    BY <1>1, <1>3, <1>4 DEF SchedOK

\* How the parts make up the invariant in the next state.
LEMMA Assemble ==
    ASSUME IrqTypeOK', status' \in [Threads -> Statuses], ready_threads' \in Seq(Threads),
           blocked_on' \in [Threads -> Blockers], panic' = FALSE,
           wakeup_ticks' \in [Threads -> 0..(Word - 1)],
           pc' \in [Threads -> Points],
           count' \in [Sems -> Int], wait_queue' \in [Queues -> Seq(Threads)],
           holder' \in [Mutexes -> Threads \cup {NULL}],
           recursion_count' \in [Mutexes -> Nat],
           want' \in [Threads -> Mutexes \cup {NULL}],
           held' \in [Threads -> [Mutexes -> Nat]],
           SchedOK', SynchOK'
    PROVE  IInv'
  BY DEF IInv, TypeOK, NoPanic, IrqTypeOK, Blockers, SchedOK, SynchOK

\* The steps of module Scheduler keep the invariant.
LEMMA ThreadStepInv ==
    ASSUME IInv, ThreadStep, UNCHANGED synch_vars
    PROVE  IInv'
  <1>0. /\ me \in Threads /\ IrqTypeOK /\ blocked_on \in [Threads -> Blockers]
        /\ status[me] # "Blocked"
        /\ pc[me] # "sleep_yield" => status[me] = "Running"
    BY CurrentIsFree
  <1>a. UNCHANGED <<count, wait_queue, holder, recursion_count, want, held>>
    BY DEF synch_vars, mutex_vars
  <1>b. /\ TypeOK /\ ListsOK(status, ready_threads) /\ QueuesOK(status, wait_queue)
        /\ CurrentOK
    BY DEF IInv
  <1>c. me = Idle => pc[me] = "client"
    BY <1>b DEF CurrentOK, me
  <1>1. CASE TimerInterrupt
    <2>1. /\ isr_IRQ0(status, ready_threads, blocked_on, TRUE)
          /\ UNCHANGED <<wakeup_ticks, pc>>
      BY <1>1 DEF TimerInterrupt
    <2>2. QueuesOK(status, wait_queue')
      BY <1>a, <1>b
    <2>3. /\ IrqTypeOK' /\ status' \in [Threads -> Statuses]
          /\ ready_threads' \in Seq(Threads) /\ blocked_on' \in [Threads -> Blockers]
          /\ panic' = FALSE /\ SchedOK'
      BY <1>0, <1>b, <2>1, <2>2, SwitchStep DEF TypeOK, CurrentOK
    <2>4. SynchOK'
      BY <2>1, SynchFrame DEF IInv, TypeOK
    <2> QED
      BY <1>a, <1>b, <2>1, <2>3, <2>4, Assemble DEF TypeOK
  <1>2. CASE \E n \in SleepTicks : ThreadSleep(n)
    <2>1. PICK n \in SleepTicks : ThreadSleep(n)
      BY <1>2
    <2>2. /\ me # Idle /\ pc[me] = "client"
          /\ wakeup_ticks' = [wakeup_ticks EXCEPT ![me] = (timer_ticks + n) % Word]
          /\ pc' = [pc EXCEPT ![me] = "sleep"]
          /\ UNCHANGED sched_vars
      BY <2>1 DEF ThreadSleep, AtClient
    <2>3. n \in Nat /\ (timer_ticks + n) % Word \in 0..(Word - 1)
      BY <1>b, WordAssumption DEF TypeOK
    <2>4. SynchOK'
      BY <1>0, <1>b, <2>2, SynchFrame DEF TypeOK, Points
    <2>5. SchedOK'
      BY <1>0, <1>a, <1>b, <2>2 DEF sched_vars, SchedOK, ListsOK, QueuesOK, CurrentOK, me, TypeOK
    <2> QED
      BY <1>0, <1>a, <1>b, <2>2, <2>3, <2>4, <2>5, Assemble
      DEF sched_vars, TypeOK, IrqTypeOK, Points, IInv, NoPanic
  <1>3. CASE ThreadSleepStatus
    <2>1. /\ ~panic /\ pc[me] = "sleep"
          /\ status' = [status EXCEPT ![me] = "Sleeping"]
          /\ pc' = [pc EXCEPT ![me] = "sleep_yield"]
          /\ UNCHANGED <<current_thread, ready_threads, sleeping_threads, zombie_threads,
                         all_threads, timer_ticks, wakeup_ticks, blocked_on, panic>>
      BY <1>3 DEF ThreadSleepStatus
    <2>2. me # Idle
      BY <1>c, <2>1
    <2>3. SynchOK'
      BY <1>0, <1>b, <2>1, SynchFrame DEF TypeOK, Points
    <2>4. /\ status' \in [Threads -> Statuses]
          /\ ListsOK(status', ready_threads)
      BY <1>0, <1>b, <2>1, <2>2, OwnStatus DEF TypeOK
    <2>5. ListsOK(status, ready_threads)'
      BY <2>1, <2>4 DEF ListsOK, me
    <2>6. QueuesOK(status, wait_queue)' /\ CurrentOK'
      BY <1>0, <1>a, <1>b, <2>1, <2>2 DEF QueuesOK, CurrentOK, me, TypeOK
    <2> QED
      BY <1>0, <1>a, <1>b, <2>1, <2>3, <2>4, <2>5, <2>6, Assemble
      DEF TypeOK, IrqTypeOK, Points, SchedOK
  <1>4. CASE ThreadSleepYield
    <2>1. /\ pc[me] = "sleep_yield"
          /\ isr_IRQ0(status, ready_threads, blocked_on, TRUE)
          /\ pc' = [pc EXCEPT ![me] = "client"]
          /\ UNCHANGED wakeup_ticks
      BY <1>4 DEF ThreadSleepYield
    <2>2. QueuesOK(status, wait_queue') /\ pc'[Idle] = "client"
      BY <1>0, <1>a, <1>b, <2>1 DEF CurrentOK, TypeOK
    <2>3. /\ IrqTypeOK' /\ status' \in [Threads -> Statuses]
          /\ ready_threads' \in Seq(Threads) /\ blocked_on' \in [Threads -> Blockers]
          /\ panic' = FALSE /\ SchedOK'
      BY <1>0, <1>b, <2>1, <2>2, SwitchStep DEF TypeOK
    <2>4. SynchOK'
      BY <1>0, <1>b, <2>1, SynchFrame DEF TypeOK, Points
    <2> QED
      BY <1>a, <1>b, <2>1, <2>3, <2>4, Assemble DEF TypeOK, Points
  <1>5. CASE ThreadExit
    <2> DEFINE st == [status EXCEPT ![me] = "Zombie"]
    <2>1. /\ me # Idle
          /\ isr_IRQ0(st, ready_threads, blocked_on, me # Idle)
          /\ UNCHANGED <<wakeup_ticks, pc>>
      BY <1>5 DEF ThreadExit, AtClient
    <2>2. st \in [Threads -> Statuses] /\ ListsOK(st, ready_threads)
      BY <1>0, <1>b, <2>1, OwnStatus DEF TypeOK
    <2>3. QueuesOK(st, wait_queue')
      BY <1>0, <1>a, <1>b DEF QueuesOK, TypeOK
    <2> HIDE DEF st
    <2>4. /\ IrqTypeOK' /\ status' \in [Threads -> Statuses]
          /\ ready_threads' \in Seq(Threads) /\ blocked_on' \in [Threads -> Blockers]
          /\ panic' = FALSE /\ SchedOK'
      BY <1>0, <1>b, <2>1, <2>2, <2>3, SwitchStep DEF TypeOK, CurrentOK
    <2>5. SynchOK'
      BY <2>1, SynchFrame DEF IInv, TypeOK
    <2> QED
      BY <1>a, <1>b, <2>1, <2>4, <2>5, Assemble DEF TypeOK
  <1> QED
    BY <1>1, <1>2, <1>3, <1>4, <1>5 DEF ThreadStep

-----------------------------------------------------------------------------
(* Semaphores *)

\* semaphore_down(), whoever calls it: the scheduler's part of the invariant
\* holds again, and the count still tells the length of the queue.
LEMMA DownStep ==
    ASSUME IInv, NEW o \in Sems, NEW on \in [Threads -> Blockers],
           me # Idle, status[me] = "Running", semaphore_down(o, on), pc'[Idle] = "client"
    PROVE  /\ IrqTypeOK' /\ status' \in [Threads -> Statuses]
           /\ ready_threads' \in Seq(Threads) /\ blocked_on' \in [Threads -> Blockers]
           /\ panic' = FALSE
           /\ SchedOK'
           /\ count' = [count EXCEPT ![o] = @ - 1]
           /\ count' \in [Sems -> Int]
           /\ wait_queue' = IF count[o] > 0 THEN wait_queue
                            ELSE [wait_queue EXCEPT ![o] = Append(@, me)]
           /\ wait_queue' \in [Queues -> Seq(Threads)]
           /\ CountIsQueueLength'
  <1>0. /\ me \in Threads /\ IrqTypeOK /\ o \in Queues
        /\ count[o] \in Int
        /\ wait_queue[o] \in Seq(Threads)
        /\ o \in Blockers
    BY CurrentIsFree DEF IInv, TypeOK, Queues, Blockers
  <1>1. /\ TypeOK /\ ListsOK(status, ready_threads) /\ QueuesOK(status, wait_queue)
        /\ CountIsQueueLength /\ CurrentOK /\ panic = FALSE
    BY DEF IInv, NoPanic, TypeOK
  <1>2. count' = [count EXCEPT ![o] = @ - 1] /\ count' \in [Sems -> Int]
    BY <1>1 DEF semaphore_down, wait_queue_append, TypeOK
  <1>a. count[o] > 0 <=> ~(count[o] <= 0)
    BY <1>0
  <1>3. CASE count[o] > 0
    <2>1. /\ blocked_on' = on
          /\ UNCHANGED <<wait_queue, current_thread, status, ready_threads, sleeping_threads,
                         zombie_threads, all_threads, timer_ticks, panic>>
      BY <1>3, <1>a, Zenon DEF semaphore_down, wait_queue_append
    <2>2. SchedOK'
      BY <1>1, <2>1 DEF SchedOK, ListsOK, QueuesOK, CurrentOK, me
    <2>3. CountIsQueueLength'
      BY <1>0, <1>1, <1>2, <1>3, <2>1 DEF CountIsQueueLength, TypeOK
    <2> QED
      BY <1>0, <1>1, <1>2, <1>3, <2>1, <2>2, <2>3 DEF TypeOK, IrqTypeOK
  <1>4. CASE count[o] <= 0
    <2> DEFINE st == [status EXCEPT ![me] = "Blocked"]
               by == [on EXCEPT ![me] = IF @ = NULL THEN o ELSE @]
    <2>1. /\ wait_queue' = [wait_queue EXCEPT ![o] = Append(@, me)]
          /\ isr_IRQ0(st, ready_threads, by, TRUE)
      BY <1>4, <1>a, Zenon DEF semaphore_down, wait_queue_append
    <2>2. by \in [Threads -> Blockers]
      BY <1>0
    <2>3. st \in [Threads -> Statuses] /\ ListsOK(st, ready_threads)
      BY <1>0, <1>1, OwnStatus DEF TypeOK
    <2>4. /\ wait_queue' \in [Queues -> Seq(Threads)]
          /\ QueuesOK(st, wait_queue')
      BY <1>0, <1>1, <2>1, EnqueueKeepsQueues DEF TypeOK
    <2> HIDE DEF st, by
    <2>5. /\ IrqTypeOK' /\ status' \in [Threads -> Statuses]
          /\ ready_threads' \in Seq(Threads) /\ blocked_on' \in [Threads -> Blockers]
          /\ panic' = FALSE /\ SchedOK'
      BY <1>0, <1>1, <2>1, <2>2, <2>3, <2>4, SwitchStep DEF TypeOK
    <2>6. CountIsQueueLength'
      <3>1. Len(Append(wait_queue[o], me)) = Len(wait_queue[o]) + 1
        BY <1>0, AppendList
      <3>2. Len(wait_queue[o]) = -count[o]
        BY <1>0, <1>1, <1>4 DEF CountIsQueueLength
      <3>3. Len(wait_queue'[o]) = -count'[o] /\ count'[o] < 0
        BY <1>0, <1>1, <1>2, <1>4, <2>1, <3>1, <3>2 DEF TypeOK
      <3>4. \A p \in Sems : p # o => wait_queue'[p] = wait_queue[p] /\ count'[p] = count[p]
        BY <1>1, <1>2, <2>1 DEF TypeOK, Queues
      <3> QED
        BY <1>1, <3>3, <3>4 DEF CountIsQueueLength
    <2> QED
      BY <1>0, <1>2, <1>4, <2>1, <2>4, <2>5, <2>6
  <1> QED
    BY <1>a, <1>3, <1>4

\* Unblocking the threads w that were taken off the queue o, r staying in it.
LEMMA WakeStep ==
    ASSUME IInv, NEW o \in Queues, NEW w \in Seq(Threads), NEW r \in Seq(Threads),
           IsInjective(w), IsInjective(r), Range(w) \cap Range(r) = {},
           Range(wait_queue[o]) = Range(w) \cup Range(r),
           thread_unblock(w), wait_queue' = [wait_queue EXCEPT ![o] = r],
           UNCHANGED pc
    PROVE  /\ IrqTypeOK' /\ status' \in [Threads -> Statuses]
           /\ ready_threads' \in Seq(Threads) /\ blocked_on' \in [Threads -> Blockers]
           /\ panic' = FALSE
           /\ SchedOK'
           /\ wait_queue' \in [Queues -> Seq(Threads)]
  <1>0. /\ me \in Threads /\ IrqTypeOK /\ me \notin Range(wait_queue[o])
        /\ blocked_on \in [Threads -> Blockers]
    BY CurrentIsFree
  <1>1. /\ TypeOK /\ ListsOK(status, ready_threads) /\ QueuesOK(status, wait_queue) /\ CurrentOK
    BY DEF IInv
  <1>2. \A t \in Range(w) : t \in Threads /\ status[t] = "Blocked" /\ t # me
    BY <1>0, <1>1, ListDomain DEF QueuesOK
  <1>3. /\ status' = UnblockStatus(w, status)
        /\ ready_threads' = UnblockReady(w)
        /\ blocked_on' = UnblockOn(w, blocked_on)
        /\ panic' = ~UnblockAsserts(w)
        /\ UNCHANGED <<current_thread, sleeping_threads, zombie_threads, all_threads, timer_ticks>>
    BY DEF thread_unblock
  <1>4. /\ status' \in [Threads -> Statuses]
        /\ ready_threads' \in Seq(Threads)
        /\ ListsOK(status', ready_threads')
    <2>1. me \notin Range(w)
      BY <1>2
    <2> QED
      BY <1>0, <1>1, <1>2, <1>3, <2>1, UnblockKeepsLists DEF TypeOK
  <1>5. ListsOK(status, ready_threads)'
    BY <1>3, <1>4 DEF ListsOK, me
  <1>6. /\ wait_queue' \in [Queues -> Seq(Threads)]
        /\ QueuesOK(status', wait_queue')
    BY <1>1, <1>3, DequeueKeepsQueues DEF TypeOK
  <1>7. QueuesOK(status, wait_queue)'
    BY <1>6 DEF QueuesOK
  <1>8. CurrentOK'
    <2>1. status'[me] = status[me] /\ me' = me
      BY <1>0, <1>2, <1>3 DEF UnblockStatus, me
    <2> QED
      BY <1>1, <2>1 DEF CurrentOK
  <1>9. panic' = FALSE /\ blocked_on' \in [Threads -> Blockers]
    BY <1>0, <1>2, <1>3 DEF UnblockAsserts, UnblockOn, Blockers
  <1>10. IrqTypeOK'
    BY <1>0, <1>3 DEF IrqTypeOK
  <1> QED
    BY <1>4, <1>5, <1>6, <1>7, <1>8, <1>9, <1>10 DEF SchedOK

\* semaphore_up(), whoever calls it.
LEMMA UpStep ==
    ASSUME IInv, NEW o \in Sems, semaphore_up(o), UNCHANGED pc
    PROVE  /\ IrqTypeOK' /\ status' \in [Threads -> Statuses]
           /\ ready_threads' \in Seq(Threads) /\ blocked_on' \in [Threads -> Blockers]
           /\ panic' = FALSE
           /\ SchedOK'
           /\ count' = [count EXCEPT ![o] = @ + 1]
           /\ count' \in [Sems -> Int]
           /\ wait_queue' = [wait_queue EXCEPT ![o] = Behind1(o)]
           /\ wait_queue' \in [Queues -> Seq(Threads)]
           /\ CountIsQueueLength'
  <1>0. /\ o \in Queues /\ TypeOK /\ QueuesOK(status, wait_queue) /\ CountIsQueueLength
        /\ count[o] \in Int /\ wait_queue[o] \in Seq(Threads)
        /\ IsInjective(wait_queue[o])
    BY DEF IInv, TypeOK, Queues, QueuesOK
  <1>1. /\ count' = [count EXCEPT ![o] = @ + 1]
        /\ wait_queue' = [wait_queue EXCEPT ![o] = Behind1(o)]
        /\ thread_unblock(Front1(o))
    BY DEF semaphore_up
  <1>2. /\ Front1(o) \in Seq(Threads) /\ IsInjective(Front1(o))
        /\ Behind1(o) \in Seq(Threads) /\ IsInjective(Behind1(o))
        /\ Range(Front1(o)) \cap Range(Behind1(o)) = {}
        /\ Range(wait_queue[o]) = Range(Front1(o)) \cup Range(Behind1(o))
        /\ wait_queue[o] = <<>> => Len(Behind1(o)) = 0
        /\ wait_queue[o] # <<>> => Len(Behind1(o)) = Len(wait_queue[o]) - 1
    BY <1>0, PopFront DEF TypeOK
  <1>3. /\ IrqTypeOK' /\ status' \in [Threads -> Statuses]
        /\ ready_threads' \in Seq(Threads) /\ blocked_on' \in [Threads -> Blockers]
        /\ panic' = FALSE /\ SchedOK'
        /\ wait_queue' \in [Queues -> Seq(Threads)]
    BY <1>0, <1>1, <1>2, WakeStep
  <1>4. count' \in [Sems -> Int]
    BY <1>0, <1>1 DEF TypeOK
  <1>5. CountIsQueueLength'
    <2>1. \A p \in Sems : p # o => wait_queue'[p] = wait_queue[p] /\ count'[p] = count[p]
      BY <1>0, <1>1 DEF TypeOK, Queues
    <2>2. wait_queue'[o] = Behind1(o) /\ count'[o] = count[o] + 1
      BY <1>0, <1>1 DEF TypeOK
    <2>3. Len(wait_queue[o]) = IF count[o] < 0 THEN -count[o] ELSE 0
      BY <1>0 DEF CountIsQueueLength
    <2>4. Len(wait_queue[o]) = 0 <=> wait_queue[o] = <<>>
      BY <1>0, ListDomain
    <2>5. Len(wait_queue'[o]) = IF count'[o] < 0 THEN -count'[o] ELSE 0
      BY <1>0, <1>2, <2>2, <2>3, <2>4
    <2> QED
      BY <1>0, <2>1, <2>5 DEF CountIsQueueLength
  <1> QED
    BY <1>1, <1>3, <1>4, <1>5

\* The semaphore operations of clients keep the invariant.
LEMMA SemaphoreStepInv ==
    ASSUME IInv, NEW s \in Semaphores,
           SemaphoreDown(s) \/ SemaphoreTryDown(s) \/ SemaphoreUp(s)
    PROVE  IInv'
  <1>0. /\ me \in Threads /\ IrqTypeOK /\ blocked_on \in [Threads -> Blockers]
        /\ pc[me] # "sleep_yield" => status[me] = "Running"
        /\ \A o \in Queues : me \notin Range(wait_queue[o])
    BY CurrentIsFree
  <1>1. s \in Sems /\ s \in Queues /\ s \notin Mutexes
    BY Objects
  <1>2. TypeOK /\ WaitersOK /\ OwnersOK /\ CountIsQueueLength /\ CurrentOK
    BY DEF IInv
  <1>3. me # Idle /\ pc[me] = "client" /\ panic = FALSE
        /\ UNCHANGED <<wakeup_ticks, pc, holder, recursion_count, want, held>>
    BY DEF SemaphoreDown, SemaphoreTryDown, SemaphoreUp, AtClient, mutex_vars, thread_vars, IInv, NoPanic
  <1>4. ASSUME \A m \in Mutexes : count'[m] = count[m] /\ wait_queue'[m] = wait_queue[m]
        PROVE  OwnersOK'
    <2>1. \A t \in Threads, m \in Mutexes : Owns(t, m)' <=> Owns(t, m)
      BY <1>3, <1>4 DEF Owns
    <2> QED
      BY <1>2, <1>3, <1>4, <2>1 DEF OwnersOK, OwnerOK
  <1>5. CASE SemaphoreDown(s)
    <2>1. /\ IrqTypeOK' /\ status' \in [Threads -> Statuses]
          /\ ready_threads' \in Seq(Threads) /\ blocked_on' \in [Threads -> Blockers]
          /\ panic' = FALSE
          /\ SchedOK'
          /\ count' = [count EXCEPT ![s] = @ - 1]
          /\ count' \in [Sems -> Int]
          /\ wait_queue' = IF count[s] > 0 THEN wait_queue
                           ELSE [wait_queue EXCEPT ![s] = Append(@, me)]
          /\ wait_queue' \in [Queues -> Seq(Threads)]
          /\ CountIsQueueLength'
      <3>1. semaphore_down(s, blocked_on) /\ pc'[Idle] = "client" /\ status[me] = "Running"
        BY <1>0, <1>2, <1>3, <1>5 DEF SemaphoreDown, CurrentOK
      <3> QED
        BY <1>0, <1>1, <1>3, <3>1, DownStep
    <2>2. \A o \in Queues : o # s => wait_queue'[o] = wait_queue[o]
      BY <1>2, <2>1 DEF TypeOK
    <2>3. OwnersOK'
      BY <1>1, <1>2, <1>4, <2>1, <2>2, Objects DEF TypeOK
    <2>4. \A t \in Range(wait_queue'[s]) : t \in Range(wait_queue[s]) \/ t = me
      BY <1>0, <1>1, <1>2, <2>1, AppendList DEF TypeOK
    <2>5. WaitersOK'
      BY <1>1, <1>2, <1>3, <2>2, <2>4, Objects DEF WaitersOK
    <2> QED
      BY <1>2, <1>3, <2>1, <2>3, <2>5, Assemble DEF TypeOK, SynchOK
  <1>6. CASE SemaphoreTryDown(s)
    <2>1. /\ count[s] > 0
          /\ count' = [count EXCEPT ![s] = @ - 1]
          /\ UNCHANGED <<sched_vars, wait_queue>>
      BY <1>6 DEF SemaphoreTryDown, thread_vars
    <2>2. OwnersOK'
      BY <1>1, <1>2, <1>4, <2>1, Objects DEF TypeOK
    <2>3. WaitersOK'
      BY <1>2, <1>3, <2>1 DEF WaitersOK
    <2>4. count' \in [Sems -> Int] /\ CountIsQueueLength'
      BY <1>1, <1>2, <2>1 DEF CountIsQueueLength, TypeOK
    <2>5. SchedOK'
      BY <1>3, <2>1 DEF IInv, SchedOK, sched_vars, ListsOK, QueuesOK, CurrentOK, me
    <2> QED
      BY <1>0, <1>2, <1>3, <2>1, <2>2, <2>3, <2>4, <2>5, Assemble
      DEF TypeOK, SynchOK, sched_vars, IrqTypeOK
  <1>7. CASE SemaphoreUp(s)
    <2>1. /\ IrqTypeOK' /\ status' \in [Threads -> Statuses]
          /\ ready_threads' \in Seq(Threads) /\ blocked_on' \in [Threads -> Blockers]
          /\ panic' = FALSE
          /\ SchedOK'
          /\ count' = [count EXCEPT ![s] = @ + 1]
          /\ count' \in [Sems -> Int]
          /\ wait_queue' = [wait_queue EXCEPT ![s] = Behind1(s)]
          /\ wait_queue' \in [Queues -> Seq(Threads)]
          /\ CountIsQueueLength'
      BY <1>1, <1>3, <1>7, UpStep DEF SemaphoreUp
    <2>2. \A o \in Queues : o # s => wait_queue'[o] = wait_queue[o]
      BY <1>2, <2>1 DEF TypeOK
    <2>3. OwnersOK'
      BY <1>1, <1>2, <1>4, <2>1, <2>2, Objects DEF TypeOK
    <2>4. \A t \in Range(wait_queue'[s]) : t \in Range(wait_queue[s])
      <3>1. IsInjective(wait_queue[s])
        BY <1>1 DEF IInv, QueuesOK
      <3> QED
        BY <1>1, <1>2, <2>1, <3>1, PopFront DEF TypeOK
    <2>5. WaitersOK'
      BY <1>1, <1>2, <1>3, <2>2, <2>4, Objects DEF WaitersOK
    <2> QED
      BY <1>2, <1>3, <2>1, <2>3, <2>5, Assemble DEF TypeOK, SynchOK
  <1> QED
    BY <1>5, <1>6, <1>7

-----------------------------------------------------------------------------
(* Mutexes *)

\* Only the current thread moves, and no queue gains a thread.
LEMMA WaitersFrame ==
    ASSUME IInv,
           \A t \in Threads : t # me => pc'[t] = pc[t] /\ want'[t] = want[t],
           \A o \in Queues : Range(wait_queue'[o]) \subseteq Range(wait_queue[o]),
           pc'[me] \in {"acquire", "try", "reacquire"} => want'[me] \in Mutexes
    PROVE  WaitersOK'
  <1>1. \A o \in Queues : \A t \in Range(wait_queue'[o]) :
          t \in Range(wait_queue[o]) /\ t \in Threads /\ t # me
    BY CurrentIsFree, ListDomain DEF IInv, TypeOK
  <1>2. \A o \in Queues : \A t \in Range(wait_queue'[o]) :
          t \in Range(wait_queue[o]) /\ pc'[t] = pc[t] /\ want'[t] = want[t]
    BY <1>1
  <1>3. \A t \in Threads : pc'[t] \in {"acquire", "try", "reacquire"} => want'[t] \in Mutexes
    BY DEF IInv, WaitersOK
  <1> QED
    BY <1>2, <1>3, Objects DEF IInv, WaitersOK

\* A mutex that the step is not about.
LEMMA OwnerFrame ==
    ASSUME IInv, NEW m \in Mutexes,
           count'[m] = count[m], wait_queue'[m] = wait_queue[m], holder'[m] = holder[m],
           recursion_count'[m] = recursion_count[m],
           \A t \in Threads : held'[t][m] = held[t][m],
           \A t \in Threads : t # me => pc'[t] = pc[t] /\ want'[t] = want[t],
           pc[me] \in {"acquire", "try"} => want[me] # m,
           pc'[me] \in {"acquire", "try"} => want'[me] # m
    PROVE  OwnerOK(m)'
  <1>1. \A t \in Threads : Owns(t, m)' <=> Owns(t, m)
    BY DEF Owns
  <1>2. \A t \in Threads : pc'[t] \in {"acquire", "try"} /\ want'[t] = m =>
                            pc[t] \in {"acquire", "try"} /\ want[t] = m
    OBVIOUS
  <1> QED
    BY <1>1, <1>2 DEF IInv, OwnersOK, OwnerOK

\* The current thread, which has the semaphore of m, records itself.
LEMMA OwnStep ==
    ASSUME IInv, NEW m \in Mutexes, Own(m), UNCHANGED wait_queue,
           \A p \in Mutexes : p # m => count'[p] = count[p],
           count'[m] <= 0, count'[m] \in Int,
           \/ pc[me] \in {"acquire", "try"} /\ want[me] = m
           \/ pc[me] \in {"client", "reacquire"} /\ count[m] > 0
    PROVE  /\ WaitersOK' /\ OwnersOK'
           /\ pc' \in [Threads -> Points]
           /\ holder' \in [Mutexes -> Threads \cup {NULL}]
           /\ recursion_count' \in [Mutexes -> Nat]
           /\ want' \in [Threads -> Mutexes \cup {NULL}]
           /\ held' \in [Threads -> [Mutexes -> Nat]]
           /\ pc'[Idle] = "client"
  <1>0. /\ me \in Threads /\ me # NULL /\ m \in Queues
        /\ \A o \in Queues : me \notin Range(wait_queue[o])
    BY CurrentIsFree, Objects
  <1>1. /\ TypeOK /\ OwnerOK(m) /\ CurrentOK /\ count[m] \in Int
    BY Objects DEF IInv, OwnersOK, TypeOK
  <1>2. /\ pc' = [pc EXCEPT ![me] = "client"]
        /\ want' = [want EXCEPT ![me] = NULL]
        /\ holder' = [holder EXCEPT ![m] = me]
        /\ recursion_count' = [recursion_count EXCEPT ![m] = 1]
        /\ held' = [held EXCEPT ![me][m] = @ + 1]
    BY DEF Own
  <1>3. /\ \A t \in Threads : t # me => pc'[t] = pc[t] /\ want'[t] = want[t]
        /\ pc'[me] = "client"
        /\ holder'[m] = me /\ recursion_count'[m] = 1
        /\ \A p \in Mutexes : p # m => holder'[p] = holder[p] /\ recursion_count'[p] = recursion_count[p]
        /\ \A t \in Threads, p \in Mutexes :
              held'[t][p] = IF t = me /\ p = m THEN held[t][p] + 1 ELSE held[t][p]
    BY <1>0, <1>1, <1>2 DEF TypeOK
  <1>4. \A t \in Threads : t # me => ~Owns(t, m)
    <2>1. CASE pc[me] \in {"acquire", "try"} /\ want[me] = m
      <3>1. Owns(me, m)
        BY <1>0, <2>1 DEF Owns
      <3> QED
        BY <1>0, <1>1, <3>1 DEF OwnerOK
    <2>2. CASE count[m] > 0
      BY <1>1, <2>2 DEF OwnerOK
    <2> QED
      BY <2>1, <2>2
  <1>5. holder[m] = NULL
    <2>1. holder[m] # me
      <3>1. CASE pc[me] \in {"acquire", "try"} /\ want[me] = m
        BY <1>0, <1>1, <3>1 DEF OwnerOK
      <3>2. CASE count[m] > 0
        BY <1>0, <1>1, <3>2 DEF OwnerOK, Owns
      <3> QED
        BY <3>1, <3>2
    <2>2. \A t \in Threads : t # me => holder[m] # t
      BY <1>4 DEF Owns
    <2> QED
      BY <1>1, <2>1, <2>2 DEF TypeOK
  <1>6. \A t \in Threads : held[t][m] = 0
    BY <1>1, <1>5, Objects DEF OwnerOK
  <1>7. \A t \in Threads : Owns(t, m)' <=> t = me
    BY <1>0, <1>3, <1>4 DEF Owns
  <1>8. OwnerOK(m)'
    BY <1>0, <1>3, <1>6, <1>7 DEF OwnerOK
  <1>9. ASSUME NEW p \in Mutexes, p # m PROVE OwnerOK(p)'
    <2>1. pc[me] \in {"acquire", "try"} => want[me] # p
      BY <1>9
    <2> QED
      BY <1>3, <1>9, <2>1, OwnerFrame
  <1>10. OwnersOK'
    BY <1>8, <1>9 DEF OwnersOK
  <1>11. WaitersOK'
    BY <1>3, WaitersFrame
  <1>12. pc' \in [Threads -> Points] /\ pc'[Idle] = "client"
    BY <1>0, <1>1, <1>2 DEF TypeOK, Points, CurrentOK
  <1>13. /\ holder' \in [Mutexes -> Threads \cup {NULL}]
         /\ want' \in [Threads -> Mutexes \cup {NULL}]
    BY <1>0, <1>1, <1>2 DEF TypeOK
  <1>14. /\ recursion_count' \in [Mutexes -> Nat]
         /\ held' \in [Threads -> [Mutexes -> Nat]]
    BY <1>0, <1>1, <1>2 DEF TypeOK
  <1> QED
    BY <1>10, <1>11, <1>12, <1>13, <1>14

\* The holder goes one level deeper or gives up a level that is not the last.
LEMMA DepthStep ==
    ASSUME IInv, NEW m \in Mutexes, holder[m] = me, pc[me] \in {"client", "reacquire"},
           UNCHANGED <<count, holder>>, wait_queue'[m] = wait_queue[m], NEW d \in Nat \ {0},
           recursion_count' = [recursion_count EXCEPT ![m] = d],
           held' = [held EXCEPT ![me][m] = d],
           \A t \in Threads : t # me => pc'[t] = pc[t] /\ want'[t] = want[t],
           pc'[me] \in {"client", "reacquire"},
           \A p \in Mutexes : p # m => wait_queue'[p] = wait_queue[p]
    PROVE  /\ OwnersOK'
           /\ recursion_count' \in [Mutexes -> Nat]
           /\ held' \in [Threads -> [Mutexes -> Nat]]
  <1>0. me \in Threads /\ TypeOK /\ OwnerOK(m) /\ me # NULL
    BY CurrentIsFree, Objects DEF IInv, OwnersOK
  <1>1. /\ recursion_count' \in [Mutexes -> Nat]
        /\ held' \in [Threads -> [Mutexes -> Nat]]
        /\ recursion_count'[m] = d /\ held'[me][m] = d
        /\ \A p \in Mutexes : p # m => recursion_count'[p] = recursion_count[p]
        /\ \A t \in Threads, p \in Mutexes : t # me \/ p # m => held'[t][p] = held[t][p]
    BY <1>0 DEF TypeOK
  <1>2. \A t \in Threads : Owns(t, m)' <=> Owns(t, m)
    BY DEF Owns
  <1>3. OwnerOK(m)'
    BY <1>0, <1>1, <1>2 DEF OwnerOK
  <1>4. ASSUME NEW p \in Mutexes, p # m PROVE OwnerOK(p)'
    BY <1>1, <1>4, OwnerFrame
  <1> QED
    BY <1>1, <1>3, <1>4 DEF OwnersOK

\* The holder gives up its last level: the mutex passes to the first waiter,
\* who owns it from that moment, or to nobody.
LEMMA ReleaseStep ==
    ASSUME IInv, NEW m \in Mutexes, holder[m] = me, pc[me] = "client",
           recursion_count[m] = 1,
           recursion_count' = [recursion_count EXCEPT ![m] = @ - 1],
           held' = [held EXCEPT ![me][m] = @ - 1],
           holder' = [holder EXCEPT ![m] = NULL],
           count' = [count EXCEPT ![m] = @ + 1],
           wait_queue'[m] = Behind1(m),
           \A p \in Mutexes : p # m => wait_queue'[p] = wait_queue[p],
           \A t \in Threads : t # me => pc'[t] = pc[t] /\ want'[t] = want[t],
           pc'[me] \in {"client", "reacquire"}
    PROVE  /\ OwnersOK'
           /\ holder' \in [Mutexes -> Threads \cup {NULL}]
           /\ recursion_count' \in [Mutexes -> Nat]
           /\ held' \in [Threads -> [Mutexes -> Nat]]
  <1>0. /\ me \in Threads /\ TypeOK /\ OwnerOK(m) /\ me # NULL
        /\ m \in Queues /\ m \in Sems /\ count[m] \in Int
        /\ wait_queue[m] \in Seq(Threads) /\ IsInjective(wait_queue[m])
        /\ me \notin Range(wait_queue[m])
        /\ \A t \in Range(wait_queue[m]) : pc[t] = "acquire" /\ want[t] = m
        /\ Len(wait_queue[m]) = IF count[m] < 0 THEN -count[m] ELSE 0
    BY CurrentIsFree, Objects
    DEF IInv, OwnersOK, TypeOK, QueuesOK, WaitersOK, CountIsQueueLength
  <1>1. held[me][m] = 1
    BY <1>0 DEF OwnerOK
  <1>2. /\ recursion_count'[m] = 0 /\ held'[me][m] = 0 /\ holder'[m] = NULL
        /\ count'[m] = count[m] + 1
        /\ \A p \in Mutexes : p # m => /\ recursion_count'[p] = recursion_count[p]
                                       /\ holder'[p] = holder[p]
                                       /\ count'[p] = count[p]
        /\ \A t \in Threads, p \in Mutexes : t # me \/ p # m => held'[t][p] = held[t][p]
        /\ holder' \in [Mutexes -> Threads \cup {NULL}]
        /\ recursion_count' \in [Mutexes -> Nat]
        /\ held' \in [Threads -> [Mutexes -> Nat]]
    <2>1. /\ held' = [held EXCEPT ![me][m] = 0]
          /\ recursion_count' = [recursion_count EXCEPT ![m] = 0]
      BY <1>0, <1>1 DEF TypeOK
    <2>2. /\ held' \in [Threads -> [Mutexes -> Nat]] /\ held'[me][m] = 0
          /\ \A t \in Threads, p \in Mutexes : t # me \/ p # m => held'[t][p] = held[t][p]
      BY <1>0, <2>1, SMTT(30) DEF TypeOK
    <2>3. /\ recursion_count' \in [Mutexes -> Nat] /\ recursion_count'[m] = 0
          /\ \A p \in Mutexes : p # m => recursion_count'[p] = recursion_count[p]
      BY <1>0, <2>1 DEF TypeOK
    <2>4. /\ count'[m] = count[m] + 1
          /\ \A p \in Mutexes : p # m => count'[p] = count[p]
      BY <1>0, Objects DEF TypeOK
    <2>5. /\ holder' \in [Mutexes -> Threads \cup {NULL}] /\ holder'[m] = NULL
          /\ \A p \in Mutexes : p # m => holder'[p] = holder[p]
      BY <1>0 DEF TypeOK
    <2> QED
      BY <2>2, <2>3, <2>4, <2>5
  <1>3. Owns(me, m) /\ count[m] <= 0 /\ \A t \in Threads : t # me => ~Owns(t, m)
    BY <1>0 DEF OwnerOK, Owns
  <1>4. /\ Range(Front1(m)) \cap Range(Behind1(m)) = {}
        /\ Range(wait_queue[m]) = Range(Front1(m)) \cup Range(Behind1(m))
        /\ wait_queue[m] = <<>> => Range(Front1(m)) = {}
        /\ wait_queue[m] # <<>> => /\ Range(Front1(m)) = {Head(wait_queue[m])}
                                  /\ Head(wait_queue[m]) \in Threads
    BY <1>0, PopFront DEF TypeOK
  <1>5. \A t \in Threads : t # me /\ pc[t] = "acquire" /\ want[t] = m => t \in Range(wait_queue[m])
    BY <1>3 DEF Owns
  <1>6. \A t \in Threads : Owns(t, m)' <=> t \in Range(Front1(m))
    <2>1. ASSUME NEW t \in Threads, t = me PROVE ~Owns(t, m)' /\ t \notin Range(Front1(m))
      BY <1>0, <1>2, <1>4, <2>1 DEF Owns
    <2>2. ASSUME NEW t \in Threads, t # me PROVE Owns(t, m)' <=> t \in Range(Front1(m))
      <3>1. ~(pc[t] = "try" /\ want[t] = m) /\ holder'[m] # t
        BY <1>2, <1>3, <2>2, Objects DEF Owns
      <3>2. Owns(t, m)' <=> pc[t] = "acquire" /\ want[t] = m /\ t \notin Range(Behind1(m))
        BY <2>2, <3>1 DEF Owns
      <3> QED
        BY <1>0, <1>4, <1>5, <2>2, <3>2
    <2> QED
      BY <2>1, <2>2
  <1>7. (\E t \in Threads : Owns(t, m)') <=> count'[m] <= 0
    <2>1. Len(wait_queue[m]) = 0 <=> wait_queue[m] = <<>>
      BY <1>0, ListDomain
    <2>2. wait_queue[m] = <<>> <=> count[m] = 0
      BY <1>0, <1>3, <2>1
    <2>3. wait_queue[m] = <<>> <=> ~(\E t \in Threads : Owns(t, m)')
      BY <1>4, <1>6
    <2> QED
      BY <1>0, <1>2, <1>3, <2>2, <2>3
  <1>8. \A t, u \in Threads : Owns(t, m)' /\ Owns(u, m)' => t = u
    BY <1>4, <1>6
  <1>9. OwnerOK(m)'
    <2>1. \A t \in Threads : held'[t][m] = 0
      BY <1>0, <1>2 DEF OwnerOK
    <2>2. count'[m] <= 1
      BY <1>0, <1>2, <1>3
    <2> QED
      BY <1>2, <1>7, <1>8, <2>1, <2>2, Objects DEF OwnerOK
  <1>10. ASSUME NEW p \in Mutexes, p # m PROVE OwnerOK(p)'
    BY <1>2, <1>10, OwnerFrame
  <1> QED
    BY <1>2, <1>9, <1>10 DEF OwnersOK

\* The steps that leave the scheduler alone leave its part of the invariant alone.
LEMMA SchedFrame ==
    ASSUME IInv, UNCHANGED <<sched_vars, wakeup_ticks, wait_queue>>,
           pc'[Idle] = "client", pc[me] # "sleep_yield"
    PROVE  /\ IrqTypeOK' /\ status' \in [Threads -> Statuses]
           /\ ready_threads' \in Seq(Threads) /\ blocked_on' \in [Threads -> Blockers]
           /\ panic' = FALSE
           /\ SchedOK'
           /\ wakeup_ticks' \in [Threads -> 0..(Word - 1)]
           /\ wait_queue' \in [Queues -> Seq(Threads)]
  <1>1. UNCHANGED <<current_thread, status, ready_threads, sleeping_threads, zombie_threads,
                    all_threads, timer_ticks, blocked_on, panic, wakeup_ticks, wait_queue>>
    BY DEF sched_vars
  <1>2. ListsOK(status, ready_threads)' /\ QueuesOK(status, wait_queue)'
    BY <1>1 DEF IInv, ListsOK, QueuesOK, me
  <1>3. CurrentOK'
    BY <1>1, CurrentIsFree DEF CurrentOK, me
  <1> QED
    BY <1>1, <1>2, <1>3, CurrentIsFree DEF IInv, NoPanic, TypeOK, SchedOK, IrqTypeOK

\* Taking, blocking on, being handed, trying and releasing a mutex keep the invariant.
LEMMA MutexStepInv ==
    ASSUME IInv, NEW m \in Mutexes,
           \/ MutexReenter(m) \/ MutexTake(m) \/ MutexBlock(m)
           \/ MutexTry(m) \/ MutexRelease(m)
    PROVE  IInv'
  <1>0. /\ me \in Threads /\ IrqTypeOK /\ blocked_on \in [Threads -> Blockers]
        /\ pc[me] # "sleep_yield" => status[me] = "Running"
        /\ \A o \in Queues : me \notin Range(wait_queue[o])
        /\ m \in Sems /\ m \in Queues /\ m \in Blockers /\ me # NULL /\ m # NULL
    BY CurrentIsFree, Objects
  <1>1. /\ TypeOK /\ OwnersOK /\ OwnerOK(m) /\ WaitersOK /\ CountIsQueueLength /\ CurrentOK
        /\ count[m] \in Int /\ count[m] <= 1
    BY <1>0 DEF IInv, OwnersOK, OwnerOK, TypeOK
  <1>2. CASE MutexReenter(m)
    <2> DEFINE d == recursion_count[m] + 1
    <2>1. /\ me # Idle /\ pc[me] \in {"client", "reacquire"} /\ holder[m] = me
          /\ recursion_count' = [recursion_count EXCEPT ![m] = @ + 1]
          /\ held' = [held EXCEPT ![me][m] = @ + 1]
          /\ want' = [want EXCEPT ![me] = NULL]
          /\ pc' = [pc EXCEPT ![me] = "client"]
          /\ UNCHANGED <<sched_vars, wakeup_ticks, count, wait_queue, holder>>
      BY <1>2 DEF MutexReenter, CallsAcquire
    <2>2. held[me][m] = recursion_count[m] /\ recursion_count[m] \in Nat
      BY <1>0, <1>1, <2>1 DEF OwnerOK, TypeOK
    <2>3. /\ recursion_count' = [recursion_count EXCEPT ![m] = d]
          /\ held' = [held EXCEPT ![me][m] = d]
          /\ d \in Nat \ {0}
      BY <1>0, <1>1, <2>1, <2>2 DEF TypeOK
    <2>4. /\ \A t \in Threads : t # me => pc'[t] = pc[t] /\ want'[t] = want[t]
          /\ pc'[me] = "client" /\ pc'[Idle] = "client"
          /\ pc' \in [Threads -> Points]
          /\ want' \in [Threads -> Mutexes \cup {NULL}]
      BY <1>0, <1>1, <2>1 DEF TypeOK, Points, CurrentOK
    <2> HIDE DEF d
    <2>5. /\ OwnersOK' /\ recursion_count' \in [Mutexes -> Nat]
          /\ held' \in [Threads -> [Mutexes -> Nat]]
      BY <2>1, <2>3, <2>4, DepthStep, ZenonT(30)
    <2>6. WaitersOK'
      BY <2>1, <2>4, WaitersFrame
    <2>7. CountIsQueueLength'
      BY <1>1, <2>1 DEF CountIsQueueLength
    <2>8. /\ IrqTypeOK' /\ status' \in [Threads -> Statuses]
          /\ ready_threads' \in Seq(Threads) /\ blocked_on' \in [Threads -> Blockers]
          /\ panic' = FALSE /\ SchedOK'
          /\ wakeup_ticks' \in [Threads -> 0..(Word - 1)]
          /\ wait_queue' \in [Queues -> Seq(Threads)]
      BY <2>1, <2>4, SchedFrame
    <2> QED
      BY <1>1, <2>1, <2>4, <2>5, <2>6, <2>7, <2>8, Assemble DEF TypeOK, SynchOK
  <1>3. CASE MutexTake(m)
    <2>1. /\ me # Idle /\ pc[me] \in {"client", "reacquire"}
          /\ count[m] > 0
          /\ semaphore_down(m, [blocked_on EXCEPT ![me] = m])
          /\ Own(m)
          /\ UNCHANGED wakeup_ticks
      BY <1>3 DEF MutexTake, CallsAcquire
    <2>2. /\ [blocked_on EXCEPT ![me] = m] \in [Threads -> Blockers]
          /\ status[me] = "Running"
          /\ pc'[Idle] = "client"
      BY <1>0, <1>1, <2>1 DEF Own, CurrentOK, TypeOK
    <2>3. /\ IrqTypeOK' /\ status' \in [Threads -> Statuses]
          /\ ready_threads' \in Seq(Threads) /\ blocked_on' \in [Threads -> Blockers]
          /\ panic' = FALSE /\ SchedOK'
          /\ count' = [count EXCEPT ![m] = @ - 1]
          /\ count' \in [Sems -> Int]
          /\ wait_queue' = IF count[m] > 0 THEN wait_queue
                           ELSE [wait_queue EXCEPT ![m] = Append(@, me)]
          /\ wait_queue' \in [Queues -> Seq(Threads)]
          /\ CountIsQueueLength'
      BY <1>0, <2>1, <2>2, DownStep
    <2>4. /\ count'[m] = 0 /\ wait_queue' = wait_queue
          /\ \A p \in Mutexes : p # m => count'[p] = count[p]
      BY <1>0, <1>1, <2>1, <2>3, Objects DEF TypeOK
    <2>5. /\ WaitersOK' /\ OwnersOK'
          /\ pc' \in [Threads -> Points]
          /\ holder' \in [Mutexes -> Threads \cup {NULL}]
          /\ recursion_count' \in [Mutexes -> Nat]
          /\ want' \in [Threads -> Mutexes \cup {NULL}]
          /\ held' \in [Threads -> [Mutexes -> Nat]]
      BY <2>1, <2>4, OwnStep
    <2> QED
      BY <1>1, <2>1, <2>3, <2>5, Assemble DEF TypeOK, SynchOK
  <1>4. CASE MutexBlock(m)
    <2>1. /\ me # Idle /\ pc[me] \in {"client", "reacquire"}
          /\ holder[m] # me
          /\ count[m] <= 0
          /\ semaphore_down(m, [blocked_on EXCEPT ![me] = m])
          /\ pc' = [pc EXCEPT ![me] = "acquire"]
          /\ want' = [want EXCEPT ![me] = m]
          /\ UNCHANGED <<wakeup_ticks, holder, recursion_count, held>>
      BY <1>4 DEF MutexBlock, CallsAcquire
    <2>2. /\ [blocked_on EXCEPT ![me] = m] \in [Threads -> Blockers]
          /\ status[me] = "Running"
          /\ pc'[Idle] = "client"
      BY <1>0, <1>1, <2>1 DEF CurrentOK, TypeOK
    <2>3. /\ IrqTypeOK' /\ status' \in [Threads -> Statuses]
          /\ ready_threads' \in Seq(Threads) /\ blocked_on' \in [Threads -> Blockers]
          /\ panic' = FALSE /\ SchedOK'
          /\ count' = [count EXCEPT ![m] = @ - 1]
          /\ count' \in [Sems -> Int]
          /\ wait_queue' = IF count[m] > 0 THEN wait_queue
                           ELSE [wait_queue EXCEPT ![m] = Append(@, me)]
          /\ wait_queue' \in [Queues -> Seq(Threads)]
          /\ CountIsQueueLength'
      BY <1>0, <2>1, <2>2, DownStep
    <2>4. /\ count'[m] = count[m] - 1
          /\ wait_queue'[m] = Append(wait_queue[m], me)
          /\ \A p \in Queues : p # m => wait_queue'[p] = wait_queue[p]
          /\ \A p \in Mutexes : p # m => count'[p] = count[p]
      BY <1>0, <1>1, <2>1, <2>3, Objects DEF TypeOK
    <2>5. Range(wait_queue'[m]) = Range(wait_queue[m]) \cup {me}
      BY <1>0, <1>1, <2>4, AppendList DEF TypeOK
    <2>6. /\ \A t \in Threads : t # me => pc'[t] = pc[t] /\ want'[t] = want[t]
          /\ pc'[me] = "acquire" /\ want'[me] = m
          /\ pc' \in [Threads -> Points]
          /\ want' \in [Threads -> Mutexes \cup {NULL}]
      BY <1>0, <1>1, <2>1 DEF TypeOK, Points
    <2>7. WaitersOK'
      <3>1. \A o \in Queues : \A t \in Range(wait_queue[o]) : t \in Threads /\ t # me
        BY <1>0, <1>1, ListDomain DEF TypeOK
      <3>2. \A o \in Queues : \A t \in Range(wait_queue[o]) :
              pc'[t] = pc[t] /\ want'[t] = want[t]
        BY <2>6, <3>1
      <3>3. \A p \in Mutexes : \A t \in Range(wait_queue'[p]) : pc'[t] = "acquire" /\ want'[t] = p
        <4>1. ASSUME NEW p \in Mutexes, NEW t \in Range(wait_queue'[p]), t = me
              PROVE  pc'[t] = "acquire" /\ want'[t] = p
          BY <1>0, <2>4, <2>6, <4>1, Objects
        <4>2. ASSUME NEW p \in Mutexes, NEW t \in Range(wait_queue'[p]), t # me
              PROVE  pc'[t] = "acquire" /\ want'[t] = p
          <5>1. t \in Range(wait_queue[p])
            BY <2>4, <2>5, <4>2, Objects
          <5> QED
            BY <1>1, <3>2, <5>1, Objects DEF WaitersOK
        <4> QED
          BY <4>1, <4>2
      <3>4. \A o \in Queues \ Mutexes : \A t \in Range(wait_queue'[o]) :
              pc'[t] \in {"client", "reacquire"}
        BY <1>1, <2>4, <3>2 DEF WaitersOK
      <3>5. \A t \in Threads : pc'[t] \in {"acquire", "try", "reacquire"} => want'[t] \in Mutexes
        BY <1>1, <2>6 DEF WaitersOK
      <3> QED
        BY <3>3, <3>4, <3>5 DEF WaitersOK
    <2>8. OwnerOK(m)'
      <3>1. \A t \in Threads : Owns(t, m)' <=> Owns(t, m)
        BY <1>0, <2>1, <2>5, <2>6 DEF Owns
      <3>2. count'[m] <= 0 /\ count'[m] <= 1
        BY <1>1, <2>1, <2>4
      <3>3. \A t \in Threads : pc'[t] \in {"acquire", "try"} /\ want'[t] = m => holder[m] # t
        BY <1>1, <2>1, <2>6 DEF OwnerOK
      <3> QED
        BY <1>1, <2>1, <3>1, <3>2, <3>3 DEF OwnerOK
    <2>9. ASSUME NEW p \in Mutexes, p # m PROVE OwnerOK(p)'
      BY <2>1, <2>4, <2>6, <2>9, Objects, OwnerFrame
    <2>10. OwnersOK'
      BY <2>8, <2>9 DEF OwnersOK
    <2> QED
      BY <1>1, <2>1, <2>3, <2>6, <2>7, <2>10, Assemble DEF TypeOK, SynchOK
  <1>5. CASE MutexTry(m)
    <2>1. /\ me # Idle /\ pc[me] = "client"
          /\ holder[m] # me
          /\ count[m] > 0
          /\ count' = [count EXCEPT ![m] = @ - 1]
          /\ pc' = [pc EXCEPT ![me] = "try"]
          /\ want' = [want EXCEPT ![me] = m]
          /\ UNCHANGED <<sched_vars, wakeup_ticks, wait_queue, holder, recursion_count, held>>
      BY <1>5 DEF MutexTry, AtClient
    <2>2. /\ \A t \in Threads : t # me => pc'[t] = pc[t] /\ want'[t] = want[t]
          /\ pc'[me] = "try" /\ want'[me] = m /\ pc'[Idle] = "client"
          /\ pc' \in [Threads -> Points]
          /\ want' \in [Threads -> Mutexes \cup {NULL}]
          /\ count'[m] = 0 /\ count' \in [Sems -> Int]
          /\ \A p \in Sems : p # m => count'[p] = count[p]
      BY <1>0, <1>1, <2>1 DEF TypeOK, Points, CurrentOK
    <2>3. WaitersOK'
      BY <2>1, <2>2, WaitersFrame
    <2>4. OwnerOK(m)'
      <3>1. \A t \in Threads : ~Owns(t, m)
        BY <1>1, <2>1 DEF OwnerOK
      <3>2. \A t \in Threads : Owns(t, m)' <=> t = me
        BY <2>1, <2>2, <3>1 DEF Owns
      <3> QED
        BY <1>0, <1>1, <2>1, <2>2, <3>2 DEF OwnerOK
    <2>5. ASSUME NEW p \in Mutexes, p # m PROVE OwnerOK(p)'
      BY <2>1, <2>2, <2>5, Objects, OwnerFrame
    <2>6. OwnersOK'
      BY <2>4, <2>5 DEF OwnersOK
    <2>7. CountIsQueueLength'
      <3>1. Len(wait_queue'[m]) = 0
        BY <1>0, <1>1, <2>1 DEF CountIsQueueLength
      <3> QED
        BY <1>1, <2>1, <2>2, <3>1 DEF CountIsQueueLength
    <2>8. /\ IrqTypeOK' /\ status' \in [Threads -> Statuses]
          /\ ready_threads' \in Seq(Threads) /\ blocked_on' \in [Threads -> Blockers]
          /\ panic' = FALSE /\ SchedOK'
          /\ wakeup_ticks' \in [Threads -> 0..(Word - 1)]
          /\ wait_queue' \in [Queues -> Seq(Threads)]
      BY <2>1, <2>2, SchedFrame
    <2> QED
      BY <1>1, <2>1, <2>2, <2>3, <2>6, <2>7, <2>8, Assemble DEF TypeOK, SynchOK
  <1>6. CASE MutexRelease(m)
    <2>1. /\ me # Idle /\ pc[me] = "client" /\ holder[m] = me
          /\ recursion_count' = [recursion_count EXCEPT ![m] = @ - 1]
          /\ held' = [held EXCEPT ![me][m] = @ - 1]
          /\ UNCHANGED <<wakeup_ticks, pc, want>>
      BY <1>6 DEF MutexRelease, AtClient
    <2>2. CASE recursion_count[m] = 1
      <3>1. semaphore_up(m) /\ holder' = [holder EXCEPT ![m] = NULL]
        BY <1>6, <2>2 DEF MutexRelease
      <3>2. /\ IrqTypeOK' /\ status' \in [Threads -> Statuses]
            /\ ready_threads' \in Seq(Threads) /\ blocked_on' \in [Threads -> Blockers]
            /\ panic' = FALSE /\ SchedOK'
            /\ count' = [count EXCEPT ![m] = @ + 1]
            /\ count' \in [Sems -> Int]
            /\ wait_queue' = [wait_queue EXCEPT ![m] = Behind1(m)]
            /\ wait_queue' \in [Queues -> Seq(Threads)]
            /\ CountIsQueueLength'
        BY <1>0, <2>1, <3>1, UpStep
      <3>3. /\ wait_queue'[m] = Behind1(m)
            /\ \A p \in Queues : p # m => wait_queue'[p] = wait_queue[p]
        BY <1>0, <1>1, <3>2 DEF TypeOK
      <3>4. /\ OwnersOK'
            /\ holder' \in [Mutexes -> Threads \cup {NULL}]
            /\ recursion_count' \in [Mutexes -> Nat]
            /\ held' \in [Threads -> [Mutexes -> Nat]]
        BY <2>1, <2>2, <3>1, <3>2, <3>3, Objects, ReleaseStep
      <3>5. \A o \in Queues : Range(wait_queue'[o]) \subseteq Range(wait_queue[o])
        <4>1. IsInjective(wait_queue[m])
          BY <1>0 DEF IInv, QueuesOK
        <4> QED
          BY <1>0, <1>1, <3>3, <4>1, PopFront DEF TypeOK
      <3>6. WaitersOK'
        BY <2>1, <3>5, WaitersFrame
      <3> QED
        BY <1>1, <2>1, <3>2, <3>4, <3>6, Assemble DEF TypeOK, SynchOK
    <2>3. CASE recursion_count[m] # 1
      <3> DEFINE d == recursion_count[m] - 1
      <3>1. UNCHANGED <<sched_vars, count, wait_queue, holder>>
        BY <1>6, <2>3 DEF MutexRelease
      <3>2. held[me][m] = recursion_count[m] /\ recursion_count[m] \in Nat \ {0}
        BY <1>0, <1>1, <2>1 DEF OwnerOK, TypeOK
      <3>3. /\ recursion_count' = [recursion_count EXCEPT ![m] = d]
            /\ held' = [held EXCEPT ![me][m] = d]
            /\ d \in Nat \ {0}
        BY <1>0, <1>1, <2>1, <2>3, <3>2 DEF TypeOK
      <3> HIDE DEF d
      <3>4. /\ OwnersOK' /\ recursion_count' \in [Mutexes -> Nat]
            /\ held' \in [Threads -> [Mutexes -> Nat]]
        BY <2>1, <3>1, <3>3, DepthStep
      <3>5. WaitersOK'
        BY <2>1, <3>1, WaitersFrame
      <3>6. CountIsQueueLength'
        BY <1>1, <3>1 DEF CountIsQueueLength
      <3>7. /\ IrqTypeOK' /\ status' \in [Threads -> Statuses]
            /\ ready_threads' \in Seq(Threads) /\ blocked_on' \in [Threads -> Blockers]
            /\ panic' = FALSE /\ SchedOK'
            /\ wakeup_ticks' \in [Threads -> 0..(Word - 1)]
            /\ wait_queue' \in [Queues -> Seq(Threads)]
        BY <1>1, <2>1, <3>1, SchedFrame DEF CurrentOK
      <3> QED
        BY <1>1, <2>1, <3>1, <3>4, <3>5, <3>6, <3>7, Assemble DEF TypeOK, SynchOK
    <2> QED
      BY <2>2, <2>3
  <1> QED
    BY <1>2, <1>3, <1>4, <1>5, <1>6

\* The second halves of mutex_acquire() and mutex_try_acquire() keep the invariant.
LEMMA OwnStepInv ==
    ASSUME IInv, MutexGranted \/ MutexTryOwn
    PROVE  IInv'
  <1> DEFINE m == want[me]
  <1>0. me \in Threads /\ \A o \in Queues : me \notin Range(wait_queue[o])
    BY CurrentIsFree
  <1>1. TypeOK /\ WaitersOK /\ OwnersOK /\ CountIsQueueLength
    BY DEF IInv
  <1>2. /\ pc[me] \in {"acquire", "try"}
        /\ Own(m)
        /\ UNCHANGED <<sched_vars, wakeup_ticks, count, wait_queue>>
    BY DEF MutexGranted, MutexTryOwn
  <1>3. m \in Mutexes
    BY <1>0, <1>1, <1>2 DEF WaitersOK
  <1>4. m \in Queues /\ count[m] \in Int
    BY <1>1, <1>3, Objects DEF TypeOK
  <1>5. count[m] <= 0
    <2>1. Owns(me, m)
      BY <1>0, <1>2, <1>4 DEF Owns
    <2> QED
      BY <1>0, <1>1, <1>3, <2>1 DEF OwnersOK, OwnerOK
  <1> HIDE DEF m
  <1>6. /\ WaitersOK' /\ OwnersOK'
        /\ pc' \in [Threads -> Points]
        /\ holder' \in [Mutexes -> Threads \cup {NULL}]
        /\ recursion_count' \in [Mutexes -> Nat]
        /\ want' \in [Threads -> Mutexes \cup {NULL}]
        /\ held' \in [Threads -> [Mutexes -> Nat]]
        /\ pc'[Idle] = "client"
    <2>1. want[me] = m
      BY DEF m
    <2> QED
      BY <1>2, <1>3, <1>4, <1>5, <2>1, OwnStep
  <1>7. CountIsQueueLength'
    BY <1>1, <1>2 DEF CountIsQueueLength
  <1>8. /\ IrqTypeOK' /\ status' \in [Threads -> Statuses]
        /\ ready_threads' \in Seq(Threads) /\ blocked_on' \in [Threads -> Blockers]
        /\ panic' = FALSE /\ SchedOK'
        /\ wakeup_ticks' \in [Threads -> 0..(Word - 1)]
        /\ wait_queue' \in [Queues -> Seq(Threads)]
    BY <1>2, <1>6, SchedFrame
  <1> QED
    BY <1>1, <1>2, <1>6, <1>7, <1>8, Assemble DEF TypeOK, SynchOK

-----------------------------------------------------------------------------
(* Condition variables *)

\* Waiting on a condition variable keeps the invariant.
LEMMA CondVarWaitInv ==
    ASSUME IInv, NEW cv \in CondVars, NEW m \in Mutexes, CondVarWait(cv, m)
    PROVE  IInv'
  <1> DEFINE full  == recursion_count[m] = 1
             woken == IF full THEN Front1(m) ELSE <<>>
             stay  == IF full THEN Behind1(m) ELSE wait_queue[m]
             st1   == [status EXCEPT ![me] = "Blocked"]
             q1    == [wait_queue EXCEPT ![cv] = Append(@, me)]
             st2   == UnblockStatus(woken, st1)
             on2   == UnblockOn(woken, [blocked_on EXCEPT ![me] = cv])
  <1>0. /\ me \in Threads /\ IrqTypeOK /\ blocked_on \in [Threads -> Blockers]
        /\ status[me] # "Blocked"
        /\ \A o \in Queues : me \notin Range(wait_queue[o])
        /\ m \in Sems /\ m \in Queues /\ cv \in Queues /\ cv \in Blockers
        /\ cv # m /\ cv \notin Mutexes /\ cv \notin Sems /\ me # NULL
    BY CurrentIsFree, Objects
  <1>1. /\ TypeOK /\ OwnersOK /\ OwnerOK(m) /\ WaitersOK /\ CountIsQueueLength /\ CurrentOK
        /\ ListsOK(status, ready_threads) /\ QueuesOK(status, wait_queue)
    BY DEF IInv, OwnersOK
  <1>2. /\ me # Idle /\ pc[me] = "client" /\ holder[m] = me
        /\ recursion_count' = [recursion_count EXCEPT ![m] = @ - 1]
        /\ held' = [held EXCEPT ![me][m] = @ - 1]
        /\ holder' = IF full THEN [holder EXCEPT ![m] = NULL] ELSE holder
        /\ count' = IF full THEN [count EXCEPT ![m] = @ + 1] ELSE count
        /\ wait_queue' = [q1 EXCEPT ![m] = IF full THEN Behind1(m) ELSE @]
        /\ isr_IRQ0(st2, UnblockReady(woken), on2, UnblockAsserts(woken))
        /\ pc' = [pc EXCEPT ![me] = "reacquire"]
        /\ want' = [want EXCEPT ![me] = m]
        /\ UNCHANGED wakeup_ticks
    BY DEF CondVarWait, AtClient, wait_queue_append
  <1>3. /\ \A t \in Threads : t # me => pc'[t] = pc[t] /\ want'[t] = want[t]
        /\ pc'[me] = "reacquire" /\ want'[me] = m /\ pc'[Idle] = "client"
        /\ pc' \in [Threads -> Points]
        /\ want' \in [Threads -> Mutexes \cup {NULL}]
    BY <1>0, <1>1, <1>2, SMTT(30) DEF TypeOK, Points, CurrentOK
  <1>4. /\ wait_queue[m] \in Seq(Threads) /\ IsInjective(wait_queue[m])
        /\ wait_queue[cv] \in Seq(Threads)
        /\ wait_queue'[cv] = Append(wait_queue[cv], me)
        /\ wait_queue'[m] = stay
        /\ \A o \in Queues : o # cv /\ o # m => wait_queue'[o] = wait_queue[o]
    BY <1>0, <1>1, <1>2 DEF TypeOK, QueuesOK
  <1>5. /\ woken \in Seq(Threads) /\ IsInjective(woken)
        /\ stay \in Seq(Threads) /\ IsInjective(stay)
        /\ Range(woken) \cap Range(stay) = {}
        /\ Range(wait_queue[m]) = Range(woken) \cup Range(stay)
    BY <1>0, <1>1, <1>4, PopFront, EmptyList DEF TypeOK
  <1>6. /\ me \notin Range(woken)
        /\ \A t \in Range(woken) : t \in Threads /\ status[t] = "Blocked"
    <2>1. \A t \in Range(woken) : t \in Range(wait_queue[m])
      BY <1>5
    <2>2. \A t \in Range(woken) : t \in Threads
      BY <1>5, ListDomain
    <2> QED
      BY <1>0, <1>1, <2>1, <2>2 DEF QueuesOK
  <1>7. /\ st1 \in [Threads -> Statuses]
        /\ ListsOK(st1, ready_threads)
    BY <1>0, <1>1, <1>2, OwnStatus DEF TypeOK
  <1>8. /\ q1 \in [Queues -> Seq(Threads)]
        /\ QueuesOK(st1, q1)
    BY <1>0, <1>1, EnqueueKeepsQueues DEF TypeOK
  <1>9. q1[m] = wait_queue[m] /\ wait_queue' = [q1 EXCEPT ![m] = stay]
    BY <1>0, <1>1, <1>2 DEF TypeOK
  <1>10. \A t \in Range(woken) : st1[t] = "Blocked"
    BY <1>0, <1>1, <1>6 DEF TypeOK
  <1>11. on2 \in [Threads -> Blockers] /\ UnblockAsserts(woken) = TRUE
    BY <1>0, <1>6 DEF UnblockOn, UnblockAsserts, Blockers
  <1> HIDE DEF woken, stay, st1, q1
  <1>12. /\ st2 \in [Threads -> Statuses]
         /\ UnblockReady(woken) \in Seq(Threads)
         /\ ListsOK(st2, UnblockReady(woken))
    BY <1>0, <1>1, <1>5, <1>6, <1>7, <1>10, UnblockKeepsLists DEF TypeOK
  <1>13. /\ wait_queue' \in [Queues -> Seq(Threads)]
         /\ QueuesOK(st2, wait_queue')
    BY <1>0, <1>5, <1>7, <1>8, <1>9, DequeueKeepsQueues
  <1> HIDE DEF st2, on2
  <1>18. TRUE \in BOOLEAN /\ isr_IRQ0(st2, UnblockReady(woken), on2, TRUE)
    BY <1>2, <1>11
  <1>14. /\ IrqTypeOK' /\ status' \in [Threads -> Statuses]
         /\ ready_threads' \in Seq(Threads) /\ blocked_on' \in [Threads -> Blockers]
         /\ panic' = FALSE /\ SchedOK'
    BY <1>0, <1>1, <1>3, <1>11, <1>12, <1>13, <1>18, SwitchStep
  <1>15. WaitersOK'
    <2>1. \A o \in Queues : \A t \in Range(wait_queue[o]) : t \in Threads /\ t # me
      BY <1>0, <1>1, ListDomain DEF TypeOK
    <2>2. \A o \in Queues : \A t \in Range(wait_queue[o]) : pc'[t] = pc[t] /\ want'[t] = want[t]
      BY <1>3, <2>1
    <2>3. Range(wait_queue'[cv]) = Range(wait_queue[cv]) \cup {me}
      BY <1>0, <1>4, AppendList
    <2>4. \A o \in Queues : o # cv => Range(wait_queue'[o]) \subseteq Range(wait_queue[o])
      BY <1>4, <1>5
    <2>5. \A p \in Mutexes : \A t \in Range(wait_queue'[p]) : pc'[t] = "acquire" /\ want'[t] = p
      BY <1>0, <1>1, <2>2, <2>4, Objects DEF WaitersOK
    <2>6. \A o \in Queues \ Mutexes : \A t \in Range(wait_queue'[o]) :
            pc'[t] \in {"client", "reacquire"}
      BY <1>1, <1>3, <2>2, <2>3, <2>4 DEF WaitersOK
    <2>7. \A t \in Threads : pc'[t] \in {"acquire", "try", "reacquire"} => want'[t] \in Mutexes
      BY <1>1, <1>3 DEF WaitersOK
    <2> QED
      BY <2>5, <2>6, <2>7 DEF WaitersOK
  <1>16. /\ OwnersOK'
         /\ holder' \in [Mutexes -> Threads \cup {NULL}]
         /\ recursion_count' \in [Mutexes -> Nat]
         /\ held' \in [Threads -> [Mutexes -> Nat]]
         /\ count' \in [Sems -> Int]
         /\ CountIsQueueLength'
    <2>0. \A p \in Mutexes : p # m => wait_queue'[p] = wait_queue[p]
      BY <1>0, <1>4, Objects
    <2>1. CASE full
      <3>1. /\ holder' = [holder EXCEPT ![m] = NULL]
            /\ count' = [count EXCEPT ![m] = @ + 1]
            /\ wait_queue'[m] = Behind1(m)
        BY <1>2, <1>4, <2>1 DEF stay
      <3>2. /\ OwnersOK'
            /\ holder' \in [Mutexes -> Threads \cup {NULL}]
            /\ recursion_count' \in [Mutexes -> Nat]
            /\ held' \in [Threads -> [Mutexes -> Nat]]
        BY <1>2, <1>3, <2>0, <2>1, <3>1, ReleaseStep
      <3>3. count' \in [Sems -> Int] /\ count'[m] = count[m] + 1 /\ count[m] \in Int
        BY <1>0, <1>1, <3>1 DEF TypeOK
      <3>4. \A p \in Sems : p # m => count'[p] = count[p] /\ wait_queue'[p] = wait_queue[p]
        BY <1>0, <1>1, <1>4, <3>1 DEF TypeOK, Queues
      <3>5. Len(wait_queue'[m]) = IF count'[m] < 0 THEN -count'[m] ELSE 0
        <4>1. Len(wait_queue[m]) = IF count[m] < 0 THEN -count[m] ELSE 0
          BY <1>0, <1>1 DEF CountIsQueueLength
        <4>2. /\ wait_queue[m] = <<>> => Len(Behind1(m)) = 0
              /\ wait_queue[m] # <<>> => Len(Behind1(m)) = Len(wait_queue[m]) - 1
          BY <1>0, <1>1, <1>4, PopFront DEF TypeOK
        <4>3. Len(wait_queue[m]) = 0 <=> wait_queue[m] = <<>>
          BY <1>4, ListDomain
        <4> QED
          BY <3>1, <3>3, <4>1, <4>2, <4>3
      <3>6. CountIsQueueLength'
        BY <1>0, <1>1, <3>4, <3>5 DEF CountIsQueueLength
      <3> QED
        BY <3>2, <3>3, <3>6
    <2>2. CASE ~full
      <3> DEFINE d == recursion_count[m] - 1
      <3>1. holder' = holder /\ count' = count /\ wait_queue'[m] = wait_queue[m]
        BY <1>2, <1>4, <2>2 DEF stay
      <3>2. held[me][m] = recursion_count[m] /\ recursion_count[m] \in Nat \ {0}
        BY <1>0, <1>1, <1>2 DEF OwnerOK, TypeOK
      <3>3. /\ recursion_count' = [recursion_count EXCEPT ![m] = d]
            /\ held' = [held EXCEPT ![me][m] = d]
            /\ d \in Nat \ {0}
        BY <1>0, <1>1, <1>2, <2>2, <3>2 DEF TypeOK
      <3> HIDE DEF d
      <3>7. /\ holder[m] = me /\ pc[me] \in {"client", "reacquire"}
            /\ pc'[me] \in {"client", "reacquire"}
            /\ UNCHANGED <<count, holder>>
        BY <1>2, <1>3, <3>1
      <3>4. /\ OwnersOK' /\ recursion_count' \in [Mutexes -> Nat]
            /\ held' \in [Threads -> [Mutexes -> Nat]]
        BY <1>3, <2>0, <3>1, <3>3, <3>7, DepthStep
      <3>5. \A p \in Sems : wait_queue'[p] = wait_queue[p]
        BY <1>0, <1>4, <3>1 DEF Queues
      <3>6. CountIsQueueLength'
        BY <1>1, <3>1, <3>5 DEF CountIsQueueLength
      <3> QED
        BY <1>1, <3>1, <3>4, <3>6 DEF TypeOK
    <2> QED
      BY <2>1, <2>2
  <1> QED
    BY <1>1, <1>2, <1>3, <1>13, <1>14, <1>15, <1>16, Assemble DEF TypeOK, SynchOK

\* A signal and a broadcast keep the invariant.
LEMMA CondVarWakeInv ==
    ASSUME IInv, NEW cv \in CondVars, CondVarSignal(cv) \/ CondVarBroadcast(cv)
    PROVE  IInv'
  <1> DEFINE Taken(w, r) ==
               /\ w \in Seq(Threads) /\ IsInjective(w)
               /\ r \in Seq(Threads) /\ IsInjective(r)
               /\ Range(w) \cap Range(r) = {}
               /\ Range(wait_queue[cv]) = Range(w) \cup Range(r)
               /\ thread_unblock(w)
               /\ wait_queue' = [wait_queue EXCEPT ![cv] = r]
  <1>0. /\ cv \in Queues /\ cv \notin Sems /\ cv \notin Mutexes
        /\ TypeOK /\ OwnersOK /\ WaitersOK /\ CountIsQueueLength
        /\ wait_queue[cv] \in Seq(Threads) /\ IsInjective(wait_queue[cv])
    BY Objects DEF IInv, TypeOK, QueuesOK
  <1>1. UNCHANGED <<wakeup_ticks, pc, count, holder, recursion_count, want, held>>
    BY DEF CondVarSignal, CondVarBroadcast, mutex_vars
  <1>2. \E w, r \in Seq(Threads) : Taken(w, r)
    <2>1. CASE CondVarSignal(cv)
      <3>1. Front1(cv) \in Seq(Threads) /\ Behind1(cv) \in Seq(Threads)
            /\ Taken(Front1(cv), Behind1(cv))
        BY <1>0, <2>1, PopFront DEF CondVarSignal, TypeOK
      <3> QED
        BY <3>1
    <2>2. CASE CondVarBroadcast(cv)
      <3>1. <<>> \in Seq(Threads) /\ Taken(wait_queue[cv], <<>>)
        BY <1>0, <2>2, EmptyList DEF CondVarBroadcast
      <3> QED
        BY <1>0, <3>1
    <2> QED
      BY <2>1, <2>2
  <1>3. PICK w \in Seq(Threads), r \in Seq(Threads) : Taken(w, r)
    BY <1>2
  <1>4. /\ IrqTypeOK' /\ status' \in [Threads -> Statuses]
        /\ ready_threads' \in Seq(Threads) /\ blocked_on' \in [Threads -> Blockers]
        /\ panic' = FALSE /\ SchedOK'
        /\ wait_queue' \in [Queues -> Seq(Threads)]
    BY <1>0, <1>1, <1>3, WakeStep
  <1>5. /\ \A o \in Queues : o # cv => wait_queue'[o] = wait_queue[o]
        /\ wait_queue'[cv] = r
    BY <1>0, <1>3 DEF TypeOK
  <1>6. WaitersOK'
    <2>1. \A o \in Queues : Range(wait_queue'[o]) \subseteq Range(wait_queue[o])
      BY <1>3, <1>5
    <2>2. pc[me] \in {"acquire", "try", "reacquire"} => want[me] \in Mutexes
      BY <1>0, CurrentIsFree DEF WaitersOK
    <2> QED
      BY <1>1, <2>1, <2>2, WaitersFrame
  <1>7. OwnersOK'
    <2>1. \A m \in Mutexes : wait_queue'[m] = wait_queue[m]
      BY <1>0, <1>5, Objects
    <2>2. \A t \in Threads, m \in Mutexes : Owns(t, m)' <=> Owns(t, m)
      BY <1>1, <2>1 DEF Owns
    <2> QED
      BY <1>0, <1>1, <2>2 DEF OwnersOK, OwnerOK
  <1>8. CountIsQueueLength'
    BY <1>0, <1>1, <1>5 DEF CountIsQueueLength, Queues
  <1> QED
    BY <1>0, <1>1, <1>4, <1>6, <1>7, <1>8, Assemble DEF TypeOK, SynchOK

-----------------------------------------------------------------------------
(* The theorems *)

\* The system starts in a state that satisfies the invariant.
LEMMA InitInv == Init => IInv
  <1> SUFFICES ASSUME Init PROVE IInv
    OBVIOUS
  <1>0. ThreadInit
    BY DEF Init
  <1>1. /\ ready_threads \in Seq(Threads)
        /\ IsInjective(ready_threads)
        /\ Range(ready_threads) = Threads \ {Idle, Main}
    <2>1. PICK n \in 0..Cardinality(Threads) : ready_threads \in [1..n -> Threads \ {Idle, Main}]
      BY <1>0 DEF ThreadInit, SeqOf
    <2>2. n \in Nat
      <3>1. Cardinality(Threads) \in Nat
        BY ThreadsAssumption, FS_CardinalityType
      <3> QED
        BY <2>1, <3>1
    <2>3. ready_threads \in [1..n -> Threads]
      BY <2>1
    <2> QED
      BY <1>0, <2>2, <2>3, SeqDef DEF ThreadInit
  <1>2. /\ <<>> \in Seq(Threads) /\ Range(<<>>) = {} /\ IsInjective(<<>>) /\ Len(<<>>) = 0
    BY EmptyList
  <1>3. /\ wait_queue = [o \in Queues |-> <<>>]
        /\ holder = [m \in Mutexes |-> NULL]
        /\ recursion_count = [m \in Mutexes |-> 0]
        /\ want = [t \in Threads |-> NULL]
        /\ held = [t \in Threads |-> [m \in Mutexes |-> 0]]
    BY DEF Init
  <1>4. /\ count \in [Sems -> Nat]
        /\ \A m \in Mutexes : count[m] = 1
    <2>1. PICK initial \in [Semaphores -> 0..MaxCount] :
            count = [o \in Sems |-> IF o \in Mutexes THEN 1 ELSE initial[o]]
      BY DEF Init
    <2> QED
      BY <2>1, SynchAssumption, Objects DEF Sems
  <1>5. TypeOK
    <2>1. /\ status \in [Threads -> Statuses] /\ pc \in [Threads -> Points]
          /\ current_thread \in Threads
      BY <1>0, ThreadsAssumption DEF ThreadInit, Statuses, Points
    <2>2. /\ 0 \in 0..(Word - 1) /\ timer_ticks \in 0..(Word - 1)
          /\ wakeup_ticks \in [Threads -> 0..(Word - 1)]
      BY <1>0, WordAssumption DEF ThreadInit
    <2>3. blocked_on \in [Threads -> Queues \cup {NULL, KernelLock}]
      BY <1>0 DEF ThreadInit
    <2>4. /\ sleeping_threads \in Seq(Threads) /\ zombie_threads \subseteq Threads
          /\ all_threads \subseteq Threads /\ panic \in BOOLEAN
      BY <1>0, <1>2 DEF ThreadInit
    <2>5. /\ count \in [Sems -> Int] /\ wait_queue \in [Queues -> Seq(Threads)]
      BY <1>2, <1>3, <1>4
    <2>6. /\ holder \in [Mutexes -> Threads \cup {NULL}]
          /\ recursion_count \in [Mutexes -> Nat]
          /\ want \in [Threads -> Mutexes \cup {NULL}]
          /\ held \in [Threads -> [Mutexes -> Nat]]
      BY <1>3
    <2> QED
      BY <1>1, <2>1, <2>2, <2>3, <2>4, <2>5, <2>6 DEF TypeOK
  <1>6. ListsOK(status, ready_threads) /\ CurrentOK /\ NoPanic
    BY <1>0, <1>1, <1>2, ThreadsAssumption DEF ThreadInit, ListsOK, CurrentOK, NoPanic, me
  <1>7. QueuesOK(status, wait_queue)
    BY <1>0, <1>2, <1>3, ThreadsAssumption DEF ThreadInit, QueuesOK
  <1>8. WaitersOK
    BY <1>0, <1>2, <1>3, Objects DEF ThreadInit, WaitersOK
  <1>9. OwnersOK
    <2>1. \A t \in Threads, m \in Mutexes : ~Owns(t, m)
      BY <1>0, <1>3, Objects DEF ThreadInit, Owns
    <2> QED
      BY <1>0, <1>3, <1>4, <2>1, Objects DEF ThreadInit, OwnersOK, OwnerOK
  <1>10. CountIsQueueLength
    BY <1>2, <1>3, <1>4 DEF CountIsQueueLength, Queues
  <1> QED
    BY <1>5, <1>6, <1>7, <1>8, <1>9, <1>10 DEF IInv

\* Every step keeps the invariant.
LEMMA NextInv == IInv /\ [Next]_vars => IInv'
  <1> SUFFICES ASSUME IInv, [Next]_vars PROVE IInv'
    OBVIOUS
  <1>1. CASE ThreadStep /\ UNCHANGED synch_vars
    BY <1>1, ThreadStepInv
  <1>2. CASE SynchStep
    <2>1. CASE \E s \in Semaphores : SemaphoreDown(s) \/ SemaphoreTryDown(s) \/ SemaphoreUp(s)
      BY <2>1, SemaphoreStepInv
    <2>2. CASE \E m \in Mutexes : \/ MutexReenter(m) \/ MutexTake(m) \/ MutexBlock(m)
                                  \/ MutexTry(m) \/ MutexRelease(m)
      BY <2>2, MutexStepInv
    <2>3. CASE MutexGranted \/ MutexTryOwn
      BY <2>3, OwnStepInv
    <2>4. CASE \E cv \in CondVars, m \in Mutexes : CondVarWait(cv, m)
      BY <2>4, CondVarWaitInv
    <2>5. CASE \E cv \in CondVars : CondVarSignal(cv) \/ CondVarBroadcast(cv)
      BY <2>5, CondVarWakeInv
    <2> QED
      BY <1>2, <2>1, <2>2, <2>3, <2>4, <2>5 DEF SynchStep
  <1>3. CASE UNCHANGED vars
    BY <1>3 DEF vars, thread_vars, sched_vars, synch_vars, mutex_vars, IInv, TypeOK, NoPanic,
                ListsOK, QueuesOK, CurrentOK, WaitersOK, OwnersOK, OwnerOK, Owns,
                CountIsQueueLength, me
  <1> QED
    BY <1>1, <1>2, <1>3 DEF Next

\* IInv is an inductive invariant of the kernel model, for all its parameters.
THEOREM Invariance == Spec => []IInv
  BY InitInv, NextInv, PTL DEF Spec

\* Every variable keeps its type; recursion counts and ledgers never go below 0.
THEOREM TypeCorrect == Spec => []TypeOK
  <1>1. IInv => TypeOK
    BY DEF IInv
  <1> QED
    BY <1>1, Invariance, PTL

\* No kernel_assert() of thread.c or synch.c on the modelled paths ever fails.
THEOREM NeverPanics == Spec => []NoPanic
  <1>1. IInv => NoPanic
    BY DEF IInv
  <1> QED
    BY <1>1, Invariance, PTL

\* A thread's list node is linked in exactly the list that its status names.
THEOREM AlwaysLinkedOnce == Spec => []LinkedOnce
  <1>1. IInv => LinkedOnce
    <2> SUFFICES ASSUME IInv PROVE LinkedOnce
      OBVIOUS
    <2>1. ListsOK(status, ready_threads) /\ QueuesOK(status, wait_queue) /\ CurrentOK
      BY DEF IInv
    <2>2. status[Idle] # "Blocked" /\ Idle \in Threads /\ me \in Threads
      BY <2>1, ThreadsAssumption DEF ListsOK, IInv, TypeOK, me
    <2>3. \A o \in Queues : Idle \notin Range(wait_queue[o])
      BY <2>1, <2>2 DEF QueuesOK
    <2>4. status[me] # "Zombie"
      BY <2>1 DEF CurrentOK
    <2> QED
      BY <2>1, <2>2, <2>3, <2>4 DEF LinkedOnce, ListsOK, QueuesOK
  <1> QED
    BY <1>1, Invariance, PTL

\* A count that is not positive tells the length of the queue, a positive one
\* that nobody waits.
THEOREM CountAlwaysQueueLength == Spec => []CountIsQueueLength
  <1>1. IInv => CountIsQueueLength
    BY DEF IInv
  <1> QED
    BY <1>1, Invariance, PTL

\* No two clients are inside the same mutex.
THEOREM AlwaysMutualExclusion == Spec => []MutualExclusion
  <1>1. IInv => MutualExclusion
    BY DEF IInv, TypeOK, OwnersOK, OwnerOK, MutualExclusion
  <1> QED
    BY <1>1, Invariance, PTL
=============================================================================
