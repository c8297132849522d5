---------------------------- MODULE ThreadCreate ----------------------------
(***************************************************************************)
(* Threads that are created and deallocated while others run, with the     *)
(* thread lists as the pointers they are (src/src/kernel/thread.c).        *)
(*                                                                         *)
(* thread_create_arg() and the queries work on the lists with interrupts   *)
(* enabled, under mutexes that the timer interrupt does not take: they are *)
(* steps of single loads and stores here, in the order of the source. The  *)
(* interrupt, and all that runs with interrupts disabled, is one step.     *)
(*                                                                         *)
(* A mutex is its owner and a line of waiters, which is what module Synch  *)
(* shows mutexes to be (FifoLock). Threads here do not sleep, and the lock *)
(* of the heap is free whenever it is needed (module Reaper is about it).  *)
(***************************************************************************)
EXTENDS Integers, FiniteSets, Sequences, SequencesExt

CONSTANTS Threads,   \* addresses of thread_t: the idle and the main thread, and what kcalloc() gives out
          Idle,
          Main,
          NULL,
          MaxTid,    \* bound: no thread is created after this tid was given out
          Sought,    \* the arguments of thread_get_by_tid()
          Askers     \* the threads that count others or look for them

ASSUME CreateAssumption ==
    /\ IsFiniteSet(Threads)
    /\ {Idle, Main} \subseteq Threads
    /\ Idle # Main
    /\ NULL \notin Threads
    /\ MaxTid \in Nat \ {0}
    /\ Sought \subseteq Nat
    /\ Askers \subseteq Threads

VARIABLES current_thread,
          status,      \* thread_t.status
          allocated,   \* the threads whose memory is allocated
          links,       \* the heads of the lists, next and prev of the list nodes
          mutex,       \* all_threads_lock and local_threads_lock: owner and waiters
          tid,         \* thread_t.tid
          next_tid,
          call,        \* where each thread is in the kernel, with its local variables
          halted,      \* "assert": a kernel_assert() failed; "loop": a walk does not end
          overlap      \* history: what happened while a call was under way

vars == <<current_thread, status, allocated, links, mutex, tid, next_tid, call, halted, overlap>>

me == current_thread

Lists == {"all", "ready", "zombie"}

\* A thread has a node for the list of all threads and one for all other lists.
Node(l) == IF l = "all" THEN "all" ELSE "local"

\* The mutex that thread.c associates with a list: all_threads_lock or local_threads_lock.
Guard(l) == Node(l)

-----------------------------------------------------------------------------
(* Doubly linked lists: operators that map links to links *)

\* Mutant: the old head does not point back to the new one.
thread_list_add_no_back(k, l, t) ==
    [head |-> [k.head EXCEPT ![l] = t],
     next |-> [k.next EXCEPT ![Node(l)][t] = k.head[l]],
     prev |-> [k.prev EXCEPT ![Node(l)][t] = NULL]]

thread_list_add(k, l, t) ==
    [head |-> [k.head EXCEPT ![l] = t],
     next |-> [k.next EXCEPT ![Node(l)][t] = k.head[l]],
     prev |-> [k.prev EXCEPT ![Node(l)] = [u \in Threads |->
                  IF u = t THEN NULL ELSE IF u = k.head[l] THEN t ELSE @[u]]]]

\* Node t is unlinked: its predecessor p, or the head, is made to point to its
\* successor s, and s back to p.
Unlink(k, l, t, p, s) ==
    [head |-> IF p = NULL THEN [k.head EXCEPT ![l] = s] ELSE k.head,
     next |-> [k.next EXCEPT ![Node(l)] = [u \in Threads |->
                  IF u = t THEN NULL ELSE IF u = p THEN s ELSE @[u]]],
     prev |-> [k.prev EXCEPT ![Node(l)] = [u \in Threads |->
                  IF u = t THEN NULL ELSE IF u = s THEN p ELSE @[u]]]]

thread_list_remove(k, l, t) ==
    Unlink(k, l, t, k.prev[Node(l)][t], k.next[Node(l)][t])

\* "Expected thread without prev pointer to be head of list"
RemoveAsserts(k, l, t) == k.prev[Node(l)][t] = NULL => k.head[l] = t

\* The nodes met on the way from the head, NULL once the end is reached.
Walk(k, l) ==
    LET at[i \in 0..Cardinality(Threads)] ==
            IF i = 0 THEN k.head[l]
            ELSE IF at[i - 1] = NULL THEN NULL ELSE k.next[Node(l)][at[i - 1]]
    IN  at

Ends(k, l)    == Walk(k, l)[Cardinality(Threads)] = NULL
Members(k, l) == {Walk(k, l)[i] : i \in 0..Cardinality(Threads)} \ {NULL}
LastOf(k, l)  == CHOOSE t \in Members(k, l) : k.next[Node(l)][t] = NULL

\* Every node is its successor's predecessor.
BackLinked(k, l) ==
    \A t \in Members(k, l) : k.next[Node(l)][t] # NULL => k.prev[Node(l)][k.next[Node(l)][t]] = t

-----------------------------------------------------------------------------
(* What the history records *)

Adding(l)  == {t \in allocated : call[t].list = l /\ call[t].at \in {"back", "link", "head"}}
Walking(l) == {t \in allocated : call[t].list = l /\ call[t].at = "walk"}

Changed(k, l) == Walk(k, l) # Walk(links, l)

\* A step that is not their own changes the links to k: the lists in which an
\* insertion was under way are torn, the threads that were walking are astray.
Disturb(k) ==
    [overlap EXCEPT !.torn   = @ \cup {l \in Lists : Changed(k, l) /\ Adding(l) # {}},
                    !.astray = @ \cup UNION {Walking(l) : l \in {m \in Lists : Changed(k, m)}}]

-----------------------------------------------------------------------------
(* The timer interrupt *)

Reaped(k) == Members(k, "zombie") \ {me}

\* Mutant: the dead thread stays in the list of all threads.
Clean_local(k, z) == thread_list_remove(k, "zombie", z)

\* clean_zombies() unlinks a dead thread from both of its lists.
Clean(k, z) == thread_list_remove(thread_list_remove(k, "zombie", z), "all", z)

clean_zombies(k) == FoldLeft(Clean, k, SetToSeq(Reaped(k)))

CleanAsserts(k, st) ==
    \A z \in Members(k, "zombie") :
        /\ st[z] = "Zombie" /\ z # Idle
        /\ z # me => RemoveAsserts(k, "zombie", z) /\ RemoveAsserts(k, "all", z)

find_ready_thread(k, st) ==
    IF k.head["ready"] # NULL THEN LastOf(k, "ready")
    ELSE IF st[me] = "Running" THEN me ELSE Idle

\* The lists without the thread that has been found.
Taken(k) == IF k.head["ready"] # NULL THEN thread_list_remove(k, "ready", LastOf(k, "ready")) ELSE k

\* schedule(): the old thread goes where its status says.
Parked(k, st, next) ==
    IF next = me \/ me = Idle THEN k
    ELSE IF st[me] = "Running" THEN thread_list_add(k, "ready", me)
    ELSE IF st[me] = "Zombie" THEN thread_list_add(k, "zombie", me)
    ELSE k

schedule(next, k, st) ==
    /\ current_thread' = next
    /\ links' = Parked(k, st, next)
    /\ status' = [t \in Threads |->
                    IF t = next THEN "Running"
                    ELSE IF t = me /\ (me = Idle \/ st[me] = "Running") THEN "Ready" ELSE st[t]]
    /\ halted' = IF \/ next = me /\ st[me] # "Running"
                    \/ next # me /\ (st[next] # "Ready" \/ (me # Idle /\ st[me] = "Ready"))
                 THEN "assert" ELSE "no"

\* scheduler_next() once the zombies are gone.
scheduler_next(k, st) ==
    IF ~Ends(k, "ready")
    THEN halted' = "loop" /\ links' = k /\ UNCHANGED <<current_thread, status>>
    ELSE IF ~BackLinked(k, "ready") \/ (k.head["ready"] # NULL /\ ~RemoveAsserts(k, "ready", LastOf(k, "ready")))
    THEN halted' = "assert" /\ links' = k /\ UNCHANGED <<current_thread, status>>
    ELSE schedule(find_ready_thread(k, st), Taken(k), st)

\* The interrupt, with the links and the statuses as the interrupted code left them.
isr_IRQ0(k, st) ==
    /\ IF ~Ends(k, "zombie") \/ ~CleanAsserts(k, st)
       THEN halted' = "assert" /\ links' = k /\ UNCHANGED <<current_thread, status, allocated>>
       ELSE /\ scheduler_next(clean_zombies(k), st)
            /\ allocated' = allocated \ Reaped(k)
    /\ overlap' = Disturb(links')

-----------------------------------------------------------------------------
(* Steps of the running thread *)

Idling == [at |-> "client", list |-> NULL, new |-> NULL, reg |-> NULL, seek |-> NULL, count |-> 0]

At(point) == halted = "no" /\ me # Idle /\ call[me].at = point

Goto(c) == call' = [call EXCEPT ![me] = c]

\* The PIT fires, or a thread yields. Every point of a call can be interrupted.
TimerInterrupt ==
    /\ halted = "no"
    /\ isr_IRQ0(links, status)
    /\ UNCHANGED <<mutex, tid, next_tid, call>>

ThreadExit ==
    /\ At("client")
    /\ me # Main
    /\ isr_IRQ0(links, [status EXCEPT ![me] = "Zombie"])
    /\ UNCHANGED <<mutex, tid, next_tid, call>>

\* mutex_acquire(): the thread goes on at once, or when it has been given the mutex.
Acquire(m, c) ==
    /\ Goto(c)
    /\ \/ /\ mutex[m].owner = NULL
          /\ mutex' = [mutex EXCEPT ![m].owner = me]
          /\ UNCHANGED <<current_thread, status, allocated, links, halted, overlap>>
       \/ /\ mutex[m].owner # NULL
          /\ mutex' = [mutex EXCEPT ![m].waiters = Append(@, me)]
          /\ isr_IRQ0(links, [status EXCEPT ![me] = "Blocked"])

\* mutex_release(): the first waiter is the new owner, and ready to run.
\* A walk that is done is no longer astray.
Release(m, c, done) ==
    /\ Goto(c)
    /\ \/ /\ mutex[m].waiters = <<>>
          /\ mutex' = [mutex EXCEPT ![m].owner = NULL]
          /\ overlap' = [overlap EXCEPT !.astray = @ \ done]
          /\ UNCHANGED <<status, links>>
       \/ /\ mutex[m].waiters # <<>>
          /\ mutex' = [mutex EXCEPT ![m] = [owner |-> Head(@.waiters), waiters |-> Tail(@.waiters)]]
          /\ status' = [status EXCEPT ![Head(mutex[m].waiters)] = "Ready"]
          /\ links' = thread_list_add(links, "ready", Head(mutex[m].waiters))
          /\ overlap' = [Disturb(links') EXCEPT !.astray = @ \ done]
    /\ UNCHANGED <<current_thread, allocated, halted>>

\* thread_create_arg(): kcalloc() clears the new thread, and internal_thread_init()
\* reads next_tid.
ReadTid(t) ==
    /\ At("client")
    /\ t \notin allocated
    /\ next_tid <= MaxTid
    /\ allocated' = allocated \cup {t}
    /\ call' = [call EXCEPT ![me] = [Idling EXCEPT !.at = "tid", !.new = t, !.reg = next_tid],
                            ![t] = Idling]
    /\ overlap' = [overlap EXCEPT !.tid = @ \/ \E u \in allocated : call[u].at = "tid"]
    /\ UNCHANGED <<current_thread, status, links, mutex, tid, next_tid, halted>>

\* Mutant: next_tid goes back when a smaller number is free.
WriteTid_lowest ==
    /\ At("tid")
    /\ next_tid' = Cardinality(allocated)
    /\ tid' = [tid EXCEPT ![call[me].new] = call[me].reg]
    /\ status' = [status EXCEPT ![call[me].new] = "Ready"]
    /\ Goto([call[me] EXCEPT !.at = "lock", !.list = "all", !.reg = NULL])
    /\ UNCHANGED <<current_thread, allocated, links, mutex, halted, overlap>>

\* next_tid++ is stored, and the thread is initialized.
WriteTid ==
    /\ At("tid")
    /\ next_tid' = call[me].reg + 1
    /\ tid' = [tid EXCEPT ![call[me].new] = call[me].reg]
    /\ status' = [status EXCEPT ![call[me].new] = "Ready"]
    /\ links' = [links EXCEPT !.next = [n \in DOMAIN @ |-> [@[n] EXCEPT ![call[me].new] = NULL]],
                              !.prev = [n \in DOMAIN @ |-> [@[n] EXCEPT ![call[me].new] = NULL]]]
    /\ Goto([call[me] EXCEPT !.at = "lock", !.list = "all", !.reg = NULL])
    /\ UNCHANGED <<current_thread, allocated, mutex, halted, overlap>>

\* The creator takes the mutex of the list.
LockList ==
    /\ At("lock")
    /\ Acquire(Guard(call[me].list), [call[me] EXCEPT !.at = "load"])
    /\ UNCHANGED <<tid, next_tid>>

\* Creators and queries load the head of the list.
LoadHead ==
    /\ At("load")
    /\ Goto([call[me] EXCEPT !.reg = links.head[call[me].list],
                             !.at = IF call[me].new # NULL THEN "back" ELSE "walk"])
    /\ UNCHANGED <<current_thread, status, allocated, links, mutex, tid, next_tid, halted, overlap>>

Store(k, point) ==
    /\ links' = k
    /\ Goto([call[me] EXCEPT !.at = point])
    /\ UNCHANGED <<current_thread, status, allocated, mutex, tid, next_tid, halted, overlap>>

\* thread_list_add() in three stores: (*head)->prev, the new node, *head.
StoreBack ==
    /\ At("back")
    /\ Store(IF call[me].reg = NULL THEN links
             ELSE [links EXCEPT !.prev[Node(call[me].list)][call[me].reg] = call[me].new], "link")

\* The compiler may use the head it has loaded, or load it again.
StoreNode ==
    /\ At("link")
    /\ \E h \in {call[me].reg, links.head[call[me].list]} :
          Store([links EXCEPT !.next[Node(call[me].list)][call[me].new] = h,
                              !.prev[Node(call[me].list)][call[me].new] = NULL], "head")

StoreHead ==
    /\ At("head")
    /\ Store([links EXCEPT !.head[call[me].list] = call[me].new], "unlock")

\* The new thread goes into the list of all threads, then into the ready list.
UnlockAdded ==
    /\ At("unlock")
    /\ call[me].new # NULL
    /\ Release(Guard(call[me].list),
               IF call[me].list = "all" THEN [call[me] EXCEPT !.at = "lock", !.list = "ready", !.reg = NULL]
               ELSE Idling, {})
    /\ UNCHANGED <<tid, next_tid>>

\* Mutant: a query is content with the other mutex.
Query_other_lock(l, n) ==
    /\ At("client")
    /\ me \in Askers
    /\ Acquire(IF l = "all" THEN "local" ELSE "all", [Idling EXCEPT !.at = "load", !.list = l, !.seek = n])
    /\ UNCHANGED <<tid, next_tid>>

\* The queries take the mutex of their list.
Query(l, n) ==
    /\ At("client")
    /\ me \in Askers
    /\ Acquire(Guard(l), [Idling EXCEPT !.at = "load", !.list = l, !.seek = n])
    /\ UNCHANGED <<tid, next_tid>>

\* thread_count(), thread_count_ready(), thread_count_zombie().
thread_count(l) == Query(l, NULL)

thread_get_by_tid(n) == Query("all", n)

\* The condition of their loops.
Found(c) == c.reg \in {NULL} \cup {t \in Threads : tid[t] = c.seek}

\* One turn of the loop. The bound ends a walk in a circle.
WalkNext ==
    /\ At("walk")
    /\ ~Found(call[me])
    /\ call[me].count <= Cardinality(Threads)
    /\ Goto([call[me] EXCEPT !.reg = links.next[Node(call[me].list)][call[me].reg], !.count = @ + 1])
    /\ UNCHANGED <<current_thread, status, allocated, links, mutex, tid, next_tid, halted, overlap>>

\* Mutant: returns without the release.
WalkEnd_no_release ==
    /\ At("walk")
    /\ Found(call[me])
    /\ Goto(Idling)
    /\ UNCHANGED <<current_thread, status, allocated, links, mutex, tid, next_tid, halted, overlap>>

\* The caller gets the count, or the thread that the walk has stopped at.
WalkEnd ==
    /\ At("walk")
    /\ Found(call[me])
    /\ Release(Guard(call[me].list), Idling, {me})
    /\ UNCHANGED <<tid, next_tid>>

-----------------------------------------------------------------------------
\* thread_main_init() links the main and then the idle thread.
NoLinks == [head |-> [l \in Lists |-> NULL],
            next |-> [n \in {"all", "local"} |-> [t \in Threads |-> NULL]],
            prev |-> [n \in {"all", "local"} |-> [t \in Threads |-> NULL]]]

Init ==
    /\ current_thread = Main
    /\ status = [t \in Threads |-> IF t = Main THEN "Running" ELSE "Ready"]
    /\ allocated = {Idle, Main}
    /\ links = thread_list_add(thread_list_add(NoLinks, "all", Main), "all", Idle)
    /\ mutex = [m \in {"all", "local"} |-> [owner |-> NULL, waiters |-> <<>>]]
    /\ tid = [t \in Threads |-> IF t = Idle THEN 1 ELSE 0]
    /\ next_tid = 2
    /\ call = [t \in Threads |-> Idling]
    /\ halted = "no"
    /\ overlap = [torn |-> {}, astray |-> {}, tid |-> FALSE]

Next ==
    \/ TimerInterrupt
    \/ ThreadExit
    \/ \E t \in Threads : ReadTid(t)
    \/ WriteTid
    \/ LockList
    \/ LoadHead
    \/ StoreBack
    \/ StoreNode
    \/ StoreHead
    \/ UnlockAdded
    \/ \E l \in Lists : thread_count(l)
    \/ \E n \in Sought : thread_get_by_tid(n)
    \/ WalkNext
    \/ WalkEnd

Spec == Init /\ [][Next]_vars

-----------------------------------------------------------------------------
(* Properties *)

\* The values that the code can give its variables; a list in which two calls
\* overlapped may point anywhere.
TypeOK ==
    /\ current_thread \in allocated
    /\ status \in [Threads -> {"Ready", "Running", "Blocked", "Zombie"}]
    /\ {Idle, Main} \subseteq allocated /\ allocated \subseteq Threads
    /\ links.head \in [Lists -> Threads \cup {NULL}]
    /\ \A m \in DOMAIN mutex : /\ mutex[m].owner \in allocated \cup {NULL}
                               /\ Range(mutex[m].waiters) \subseteq allocated
    /\ tid \in [Threads -> 0..MaxTid] /\ next_tid \in 2..(MaxTid + 1)
    /\ halted \in {"no", "assert", "loop"}

\* The threads that thread_create_arg() has yet to link into list l.
Unlinked(l) ==
    {call[u].new : u \in {v \in allocated :
        \/ call[v].at = "tid"
        \/ call[v].list = "all" /\ l # "all"
        \/ call[v].list = l /\ call[v].at # "unlock"}}

Belongs(l) ==
    {t \in allocated \ Unlinked(l) :
        \/ l = "all"
        \/ l = "ready" /\ status[t] = "Ready" /\ t # Idle
        \/ l = "zombie" /\ status[t] = "Zombie"}

\* A list that no interrupt or unblocking thread changed in the middle of an
\* insertion (thread_create_arg()) ends, is linked in both directions, and holds
\* exactly the threads that it is for: none is lost, none appears in a list that
\* its status does not name, none is still linked when it has been freed.
ListsSoundUnlessTorn ==
    \A l \in Lists \ overlap.torn :
        /\ Ends(links, l)
        /\ BackLinked(links, l)
        /\ Members(links, l) = Belongs(l)

\* No assertion of the scheduler fails and none of its loops runs for ever while
\* no list was torn, whatever is created, exits and is counted meanwhile.
NoHaltUnlessTorn == halted # "no" => overlap.torn # {}

\* A query that walks a list which no interrupt changes under it stands where its
\* count says, on a thread that exists; in the end it has counted the whole list,
\* or found the thread with that tid if there is one.
WalksExact ==
    \A l \in Lists \ overlap.torn : \A t \in Walking(l) \ overlap.astray :
        /\ call[t].reg = Walk(links, l)[call[t].count]
        /\ Found(call[t]) =>
              IF call[t].seek \in {tid[u] : u \in Members(links, l)}
              THEN tid[call[t].reg] = call[t].seek
              ELSE call[t].count = Cardinality(Members(links, l))

\* "Unique thread identifier": two threads have the same tid only if two creators
\* read next_tid before either of them stored it.
TidsDistinctUnlessRaced ==
    ~overlap.tid => \A t, u \in allocated \ Unlinked("all") : tid[t] = tid[u] => t = u

\* thread_create_arg() is "Synchronized internally": a thread that has been created
\* and is ready can be found by the scheduler.
NoThreadLost ==
    \A t \in allocated \ (Unlinked("ready") \cup {Idle}) :
        status[t] = "Ready" => t \in Members(links, "ready")
=============================================================================
