------------------------- MODULE ThreadCreateProofs -------------------------
(***************************************************************************)
(* Proofs about ThreadCreate, for any number of threads: creating, ending  *)
(* and counting them keeps the pointers of the thread lists sound, unless  *)
(* the timer interrupt or an unblocking thread comes between the stores of *)
(* an insertion. From then on nothing is known of the lists, but that the  *)
(* history says so.                                                        *)
(*                                                                         *)
(* A list is described by the walk from its head. The walk is a recursive  *)
(* function over the places 0..Cardinality(Threads); facts about it are    *)
(* proved by looking at the least place at which they fail (LeastOf).      *)
(***************************************************************************)
EXTENDS ThreadCreate, ListLemmas, FiniteSetTheorems, WellFoundedInduction, TLAPS

-----------------------------------------------------------------------------
(* The invariant *)

\* What a pointer to a thread can be.
Addr   == Threads \cup {NULL}
Nodes  == {"all", "local"}

\* The places of a walk through a list.
Places == 0..Cardinality(Threads)

\* Heads and nodes whose pointers point to threads or nowhere.
LinkTables == [head : [Lists -> Addr],
               next : [Nodes -> [Threads -> Addr]],
               prev : [Nodes -> [Threads -> Addr]]]

\* No thread is twice in list l, and each but the first points back to the one before.
Path(k, l) ==
    /\ \A i, j \in Places : Walk(k, l)[i] # NULL /\ Walk(k, l)[i] = Walk(k, l)[j] => i = j
    /\ \A i \in Places \ {0} : Walk(k, l)[i] # NULL => k.prev[Node(l)][Walk(k, l)[i]] = Walk(k, l)[i - 1]

\* The first thread of list l points back to b.
First(k, l, b) == k.head[l] # NULL => k.prev[Node(l)][k.head[l]] = b

\* The points of the calls, and the local variables that a thread may have there.
Points == {"client", "tid", "lock", "load", "back", "link", "head", "unlock", "walk"}
Frames == [at : Points, list : Lists \cup {NULL}, new : Addr, reg : Addr \cup Nat,
           seek : Nat \cup {NULL}, count : Nat]

\* The points at which a call holds the mutex of its list, or waits for it.
Busy == {"load", "back", "link", "head", "unlock", "walk"}

\* Thread v has yet to link the thread that it makes into list l.
Fresh(v, l) == \/ call[v].at = "tid"
               \/ call[v].list = "all" /\ l # "all"
               \/ call[v].list = l /\ call[v].at # "unlock"

\* The running thread is the only one whose status says so. The idle thread neither
\* waits nor ends, the main thread does not end.
StatusOK ==
    /\ current_thread \in allocated
    /\ {Idle, Main} \subseteq allocated /\ allocated \subseteq Threads
    /\ status \in [Threads -> {"Ready", "Running", "Blocked", "Zombie"}]
    /\ \A t \in Threads : status[t] = "Running" <=> t = current_thread
    /\ status[Idle] \in {"Ready", "Running"} /\ status[Main] # "Zombie"

\* What the local variables hold at each point of thread_create_arg() and the queries.
FrameOK(c) ==
    /\ c.at = "client" => c.new = NULL
    /\ c.at \in {"tid", "lock", "back", "link", "head", "unlock"} => c.new \in Threads
    /\ c.at \in {"lock", "back", "link", "head", "unlock"} => c.list \in {"all", "ready"}
    /\ c.at = "load" => /\ c.list \in Lists /\ (c.new = NULL => c.count = 0)
                        /\ c.new \in Threads => c.list \in {"all", "ready"}
    /\ c.at = "walk" => c.new = NULL /\ c.list \in Lists /\ c.reg \in Addr

\* Dead threads and the idle thread are in no call.
CallsOK ==
    /\ call \in [Threads -> Frames]
    /\ call[Idle].at = "client"
    /\ \A v \in allocated : FrameOK(call[v]) /\ (status[v] = "Zombie" => call[v].at = "client")

\* The thread that v makes is allocated, does nothing yet and is not in use; its memory
\* may still say that it is dead, until it is initialized.
NewOK(v) ==
    call[v].new # NULL /\ Fresh(v, "ready") =>
        /\ call[v].new \in allocated \ {Idle, Main}
        /\ call[call[v].new].at = "client"
        /\ status[call[v].new] \in {"Ready", "Zombie"}
        /\ call[v].at # "tid" => status[call[v].new] = "Ready"

\* No two threads make the same one.
FreshOK ==
    /\ \A v \in allocated : NewOK(v)
    /\ \A u, v \in allocated :
          call[v].new # NULL /\ call[u].new = call[v].new /\ Fresh(u, "ready") /\ Fresh(v, "ready") => u = v

\* A mutex has an owner, inside the part of its call that the mutex protects, or nobody
\* waits for it. Who is in such a part has the mutex or waits for it, and blocked threads
\* are those that wait.
MutexOK ==
    /\ mutex \in [Nodes -> [owner : Addr, waiters : Seq(Threads)]]
    /\ \A m \in Nodes :
        /\ IsInjective(mutex[m].waiters)
        /\ mutex[m].owner = NULL => mutex[m].waiters = <<>>
        /\ mutex[m].owner # NULL =>
              /\ mutex[m].owner \in allocated
              /\ call[mutex[m].owner].at \in Busy /\ Guard(call[mutex[m].owner].list) = m
              /\ mutex[m].owner \notin Range(mutex[m].waiters)
        /\ \A t \in Range(mutex[m].waiters) :
              t \in allocated /\ call[t].at = "load" /\ Guard(call[t].list) = m /\ status[t] = "Blocked"
    /\ \A v \in allocated : call[v].at \in Busy =>
          v = mutex[Guard(call[v].list)].owner \/ v \in Range(mutex[Guard(call[v].list)].waiters)
    /\ \A t \in Threads : status[t] = "Blocked" => \E m \in Nodes : t \in Range(mutex[m].waiters)

\* The old head of the list points back to a thread that is not in the list yet.
Storing(l) == {v \in allocated : call[v].list = l /\ call[v].at \in {"link", "head"}}

\* Every list links the threads that it is for. The interrupt cleans up every dead
\* thread but the one that it interrupts: at most one is left for the next one.
ListsOK ==
    /\ links \in LinkTables
    /\ \A l \in Lists : /\ Path(links, l)
                        /\ Members(links, l) = Belongs(l)
                        /\ Storing(l) = {} => First(links, l, NULL)
    /\ \A t, u \in Members(links, "zombie") : t = u

\* Insertions under way: the head is still the one that was loaded, and what has been
\* stored is there. An insertion into the ready list has not been interrupted.
AddOK ==
    \A l \in Lists : \A v \in Adding(l) :
        /\ call[v].reg = links.head[l]
        /\ call[v].at # "back" => First(links, l, call[v].new)
        /\ call[v].at = "head" => /\ links.next[Node(l)][call[v].new] = call[v].reg
                                  /\ links.prev[Node(l)][call[v].new] = NULL
        /\ l = "ready" => v = current_thread

\* Walks under way stand where their count says, and have not passed what they seek.
WalkOK ==
    \A l \in Lists : \A t \in Walking(l) \ overlap.astray :
        /\ call[t].count \in Places
        /\ call[t].reg = Walk(links, l)[call[t].count]
        /\ \A i \in Places : i < call[t].count =>
              Walk(links, l)[i] # NULL /\ tid[Walk(links, l)[i]] # call[t].seek

\* The threads that have got their number.
Numbered == {t \in allocated : \A v \in allocated : call[v].at = "tid" => call[v].new # t}

\* Numbers are within bounds and, unless creators raced, distinct and below next_tid.
TidOK ==
    /\ tid \in [Threads -> 0..MaxTid] /\ next_tid \in 2..(MaxTid + 1)
    /\ \A v \in allocated : call[v].at = "tid" => call[v].reg \in 2..MaxTid
    /\ ~overlap.tid =>
        /\ \A v \in allocated : call[v].at = "tid" => call[v].reg = next_tid
        /\ \A u, v \in allocated : call[u].at = "tid" /\ call[v].at = "tid" => u = v
        /\ \A t \in Numbered : tid[t] < next_tid
        /\ \A t, u \in Numbered : tid[t] = tid[u] => t = u

\* The history.
OverlapOK == overlap \in [torn : SUBSET Lists, astray : SUBSET Threads, tid : BOOLEAN]

\* All of it. It holds as long as no interrupt or unblocking thread comes between the
\* stores of an insertion; after that only the history is known.
Inv ==
    /\ halted = "no" /\ OverlapOK
    /\ StatusOK /\ CallsOK /\ FreshOK /\ MutexOK /\ ListsOK /\ AddOK /\ WalkOK /\ TidOK

\* The inductive invariant.
IInv == OverlapOK /\ allocated \subseteq Threads /\ (overlap.torn = {} => Inv)

-----------------------------------------------------------------------------
(* Walks *)

\* f goes from h along g, for n steps.
Follows(f, h, g, n) ==
    f = [i \in 0..n |-> IF i = 0 THEN h ELSE IF f[i - 1] = NULL THEN NULL ELSE g[f[i - 1]]]

\* Sets of numbers have a least one.
LEMMA LeastOf ==
    ASSUME NEW T, T \subseteq Nat, T # {}
    PROVE  \E x \in T : \A y \in T : x <= y
  <1> DEFINE R == OpToRel(<, Nat)
  <1>1. IsWellFoundedOn(R, Nat)
    BY NatLessThanWellFounded
  <1>2. \A x, y \in Nat : x < y => <<x, y>> \in R
    BY DEF OpToRel
  <1> HIDE DEF R
  <1>3. PICK x \in T : \A y \in T : ~ (<<y, x>> \in R)
    BY <1>1, WFMin
  <1>4. ASSUME NEW y \in T PROVE x <= y
    <2>1. x \in Nat /\ y \in Nat /\ ~(y < x)
      BY <1>2, <1>3
    <2> QED
      BY <2>1
  <1> QED
    BY <1>3, <1>4

\* There is such a walk from every head along all pointers.
LEMMA WalkExists ==
    ASSUME NEW h, NEW g, NEW n \in Nat
    PROVE  \E f : Follows(f, h, g, n)
  <1> DEFINE Bad == {m \in Nat : ~ \E f : Follows(f, h, g, m)}
  <1>1. ASSUME Bad # {} PROVE FALSE
    <2>1. PICK m \in Bad : \A y \in Bad : m <= y
      BY <1>1, LeastOf
    <2>2. m \in Nat /\ ~ \E f : Follows(f, h, g, m)
      BY <2>1
    <2>3. CASE m = 0
      <3> DEFINE f == [i \in 0..0 |-> h]
      <3>1. Follows(f, h, g, 0)
        BY DEF Follows
      <3> QED
        BY <2>2, <2>3, <3>1
    <2>4. CASE m # 0
      <3>1. m - 1 \in Nat /\ m - 1 \notin Bad
        BY <2>1, <2>2, <2>4
      <3>2. PICK f : Follows(f, h, g, m - 1)
        BY <3>1
      <3> DEFINE e == [i \in 0..m |-> IF i <= m - 1 THEN f[i]
                                      ELSE IF f[m - 1] = NULL THEN NULL ELSE g[f[m - 1]]]
      <3>3. ASSUME NEW i \in 0..m
            PROVE  e[i] = IF i = 0 THEN h ELSE IF e[i - 1] = NULL THEN NULL ELSE g[e[i - 1]]
        <4>1. CASE i = 0
          <5>1. f[0] = h
            BY <2>2, <2>4, <3>2 DEF Follows
          <5> QED
            BY <2>2, <2>4, <4>1, <5>1
        <4>2. CASE i \in 1..(m - 1)
          <5>1. i \in 0..(m - 1) /\ i - 1 \in 0..(m - 1) /\ i # 0
            BY <2>2, <4>2
          <5>2. f[i] = IF f[i - 1] = NULL THEN NULL ELSE g[f[i - 1]]
            BY <3>2, <5>1 DEF Follows
          <5>3. e[i] = f[i] /\ e[i - 1] = f[i - 1]
            BY <2>2, <5>1
          <5> QED
            BY <5>1, <5>2, <5>3
        <4>3. CASE i = m
          <5>1. e[m] = (IF f[m - 1] = NULL THEN NULL ELSE g[f[m - 1]]) /\ e[m - 1] = f[m - 1]
            BY <2>2, <2>4
          <5> QED
            BY <2>4, <4>3, <5>1
        <4> QED
          BY <2>2, <4>1, <4>2, <4>3
      <3>4. Follows(e, h, g, m)
        BY <3>3 DEF Follows
      <3> QED
        BY <2>2, <3>4
    <2> QED
      BY <2>3, <2>4
  <1> QED
    BY <1>1

\* There is only one.
LEMMA WalkUnique ==
    ASSUME NEW h, NEW g, NEW n \in Nat, NEW e, Follows(e, h, g, n), NEW f, Follows(f, h, g, n)
    PROVE  e = f
  <1> DEFINE Bad == {m \in 0..n : e[m] # f[m]}
  <1>1. ASSUME Bad # {} PROVE FALSE
    <2>0. Bad \subseteq Nat
      OBVIOUS
    <2>1. PICK m \in Bad : \A y \in Bad : m <= y
      <3> HIDE DEF Bad
      <3> QED
        BY <1>1, <2>0, LeastOf
    <2>2. m \in 0..n /\ e[m] # f[m]
      BY <2>1
    <2>3. /\ e[m] = IF m = 0 THEN h ELSE IF e[m - 1] = NULL THEN NULL ELSE g[e[m - 1]]
          /\ f[m] = IF m = 0 THEN h ELSE IF f[m - 1] = NULL THEN NULL ELSE g[f[m - 1]]
      BY <2>2 DEF Follows
    <2>4. m # 0
      BY <2>2, <2>3
    <2>5. m - 1 \in 0..n /\ m - 1 \notin Bad
      BY <2>1, <2>2, <2>4
    <2>6. e[m - 1] = f[m - 1]
      BY <2>5
    <2> QED
      BY <2>2, <2>3, <2>6
  <1>2. \A i \in 0..n : e[i] = f[i]
    BY <1>1
  <1>3. e = [i \in 0..n |-> e[i]] /\ f = [i \in 0..n |-> f[i]]
    BY DEF Follows
  <1> QED
    BY <1>2, <1>3

\* There are finitely many threads.
LEMMA CountThreads == Cardinality(Threads) \in Nat
  BY CreateAssumption, FS_CardinalityType

\* Walk is the walk that its definition describes.
LEMMA WalkFollows ==
    ASSUME NEW k, NEW l
    PROVE  Follows(Walk(k, l), k.head[l], k.next[Node(l)], Cardinality(Threads))
  <1> DEFINE N == Cardinality(Threads)
             h == k.head[l]
             g == k.next[Node(l)]
  <1>1. \E f : Follows(f, h, g, N)
    BY CountThreads, WalkExists
  <1>2. Walk(k, l) = CHOOSE f : Follows(f, h, g, N)
    BY DEF Walk, Follows
  <1> QED
    BY <1>1, <1>2

\* Each thread of a walk is where the one before points to.
LEMMA WalkStep ==
    ASSUME NEW k, NEW l
    PROVE  /\ Walk(k, l) = [i \in Places |-> Walk(k, l)[i]]
           /\ 0 \in Places
           /\ Walk(k, l)[0] = k.head[l]
           /\ \A i \in Places \ {0} :
                 /\ i - 1 \in Places
                 /\ Walk(k, l)[i] = IF Walk(k, l)[i - 1] = NULL THEN NULL
                                    ELSE k.next[Node(l)][Walk(k, l)[i - 1]]
  <1> DEFINE w == Walk(k, l)
             h == k.head[l]
             g == k.next[Node(l)]
  <1>1. Follows(w, h, g, Cardinality(Threads))
    BY WalkFollows
  <1> HIDE DEF w, h, g
  <1>2. w = [i \in Places |-> IF i = 0 THEN h ELSE IF w[i - 1] = NULL THEN NULL ELSE g[w[i - 1]]]
    BY <1>1 DEF Follows, Places
  <1>3. 0 \in Places /\ \A i \in Places \ {0} : i - 1 \in Places /\ i # 0
    BY CountThreads DEF Places
  <1>4. /\ w = [i \in Places |-> w[i]]
        /\ w[0] = h
        /\ \A i \in Places \ {0} : w[i] = IF w[i - 1] = NULL THEN NULL ELSE g[w[i - 1]]
    BY <1>2, <1>3
  <1> QED
    BY <1>3, <1>4 DEF w, h, g

\* What satisfies this recurrence is the walk.
LEMMA WalkIs ==
    ASSUME NEW k, NEW l, NEW f,
           f = [i \in Places |-> f[i]],
           f[0] = k.head[l],
           \A i \in Places \ {0} : f[i] = IF f[i - 1] = NULL THEN NULL ELSE k.next[Node(l)][f[i - 1]]
    PROVE  Walk(k, l) = f
  <1> DEFINE h == k.head[l]
             g == k.next[Node(l)]
  <1>1. \A i \in Places : f[i] = IF i = 0 THEN h ELSE IF f[i - 1] = NULL THEN NULL ELSE g[f[i - 1]]
    OBVIOUS
  <1> HIDE DEF h, g
  <1>2. Follows(f, h, g, Cardinality(Threads))
    BY <1>1 DEF Follows, Places
  <1> QED
    BY <1>2, CountThreads, WalkFollows, WalkUnique DEF h, g

-----------------------------------------------------------------------------
(* clean_zombies(): the fold over the dead threads *)

\* A fold over nothing cleans nothing.
LEMMA FoldNothing ==
    ASSUME NEW k, NEW s, DOMAIN s = {}
    PROVE  FoldLeft(Clean, k, s) = k
  BY DEF FoldLeft, MapThenFoldSet

\* The function that folds Clean over at most one place of a sequence.
Folded(iter, k, s) ==
    iter = [S \in SUBSET {1} |-> IF S = {} THEN k ELSE Clean(iter[S \ {Max(S)}], s[Max(S)])]

\* A fold over one thread cleans it.
LEMMA FoldOne ==
    ASSUME NEW k, NEW s, DOMAIN s = {1}
    PROVE  FoldLeft(Clean, k, s) = Clean(k, s[1])
  <1> DEFINE I == [S \in SUBSET {1} |-> IF S = {} THEN k ELSE Clean(k, s[1])]
  <1>1. FoldLeft(Clean, k, s) = (CHOOSE iter : Folded(iter, k, s))[{1}]
    BY DEF FoldLeft, MapThenFoldSet, Folded
  <1>2. Max({1}) = 1
    BY DEF Max
  <1>3. ASSUME NEW S \in SUBSET {1} PROVE S = {} \/ S = {1}
    OBVIOUS
  <1>4. Folded(I, k, s)
    <2>1. ASSUME NEW S \in SUBSET {1}, S # {} PROVE Max(S) = 1 /\ S \ {Max(S)} = {}
      <3>1. S = {1}
        BY <1>3, <2>1
      <3> QED
        BY <1>2, <3>1
    <2>2. I[{}] = k
      OBVIOUS
    <2>3. ASSUME NEW S \in SUBSET {1}
          PROVE I[S] = IF S = {} THEN k ELSE Clean(I[S \ {Max(S)}], s[Max(S)])
      BY <2>1, <2>2
    <2> HIDE DEF I
    <2>4. I = [S \in SUBSET {1} |-> I[S]]
      BY DEF I
    <2> QED
      BY <2>3, <2>4 DEF Folded
  <1>5. PICK iter : iter = (CHOOSE i : Folded(i, k, s)) /\ Folded(iter, k, s)
    BY <1>4
  <1>6. iter[{}] = k
    BY <1>5 DEF Folded
  <1>7. iter[{1}] = Clean(iter[{1} \ {1}], s[1])
    BY <1>2, <1>5 DEF Folded
  <1> QED
    BY <1>1, <1>5, <1>6, <1>7

\* clean_zombies() with nothing to clean changes nothing.
LEMMA CleanNone ==
    ASSUME NEW k, Reaped(k) = {}
    PROVE  clean_zombies(k) = k
  <1>1. Cardinality({}) = 0 /\ \E f \in [1..0 -> {}] : IsInjective(f)
    <2>1. [i \in 1..0 |-> i] \in [1..0 -> {}] /\ IsInjective([i \in 1..0 |-> i])
      BY DEF IsInjective
    <2> QED
      BY <2>1, FS_EmptySet
  <1>2. SetToSeq({}) \in [1..0 -> {}]
    BY <1>1 DEF SetToSeq
  <1>3. DOMAIN SetToSeq({}) = {}
    BY <1>2
  <1> QED
    BY <1>3, FoldNothing DEF clean_zombies

\* clean_zombies() with one dead thread to clean unlinks that one.
LEMMA CleanOne ==
    ASSUME NEW k, NEW z, Reaped(k) = {z}
    PROVE  clean_zombies(k) = Clean(k, z)
  <1>1. Cardinality({z}) = 1
    BY FS_Singleton
  <1>2. \E f \in [1..1 -> {z}] : IsInjective(f)
    <2>1. [i \in 1..1 |-> z] \in [1..1 -> {z}] /\ IsInjective([i \in 1..1 |-> z])
      BY DEF IsInjective
    <2> QED
      BY <2>1
  <1>3. SetToSeq({z}) \in [1..1 -> {z}]
    BY <1>1, <1>2 DEF SetToSeq
  <1>4. DOMAIN SetToSeq({z}) = {1} /\ SetToSeq({z})[1] = z
    BY <1>3
  <1> QED
    BY <1>4, FoldOne DEF clean_zombies

-----------------------------------------------------------------------------
(* Members of a list *)

\* Every list uses one of the two nodes.
LEMMA NodeOfList ==
    ASSUME NEW l \in Lists
    PROVE  Node(l) \in Nodes
  BY DEF Lists, Node, Nodes

\* The pointers of a list are pointers to threads, or NULL.
LEMMA Pointers ==
    ASSUME NEW k \in LinkTables, NEW l \in Lists
    PROVE  /\ k.head[l] \in Addr
           /\ \A t \in Threads : k.next[Node(l)][t] \in Addr /\ k.prev[Node(l)][t] \in Addr
  BY NodeOfList DEF LinkTables

\* Once a walk is at its end it stays there.
LEMMA WalkStaysNull ==
    ASSUME NEW k, NEW l, NEW i \in Places, NEW j \in Places, i <= j, Walk(k, l)[i] = NULL
    PROVE  Walk(k, l)[j] = NULL
  <1> DEFINE w == Walk(k, l)
             Bad == {m \in Places : i <= m /\ w[m] # NULL}
  <1>1. \A n \in Places \ {0} : n - 1 \in Places /\ (w[n - 1] = NULL => w[n] = NULL)
    BY WalkStep
  <1>2. w[i] = NULL
    OBVIOUS
  <1> HIDE DEF w
  <1>3. ASSUME Bad # {} PROVE FALSE
    <2>1. Bad \subseteq Nat
      BY CountThreads DEF Places
    <2>2. PICK m \in Bad : \A y \in Bad : m <= y
      <3> HIDE DEF Bad
      <3> QED
        BY <1>3, <2>1, LeastOf
    <2>3. m \in Places /\ i <= m /\ w[m] # NULL /\ m # i
      BY <1>2, <2>2
    <2>4. m \in Places \ {0} /\ m - 1 \in Places /\ i <= m - 1 /\ ~(m <= m - 1)
      BY <2>3, <1>1, CountThreads DEF Places
    <2>5. m - 1 \notin Bad
      BY <2>2, <2>4
    <2>6. w[m - 1] = NULL
      BY <2>4, <2>5
    <2> QED
      BY <1>1, <2>3, <2>4, <2>6
  <1> QED
    BY <1>3 DEF w

\* A walk meets threads until it ends.
LEMMA WalkTyped ==
    ASSUME NEW k \in LinkTables, NEW l \in Lists
    PROVE  \A i \in Places : Walk(k, l)[i] \in Addr
  <1> DEFINE w == Walk(k, l)
             Bad == {m \in Places : w[m] \notin Addr}
  <1>1. /\ w[0] \in Addr
        /\ \A n \in Places \ {0} : n - 1 \in Places /\ (w[n - 1] \in Addr => w[n] \in Addr)
    BY WalkStep, Pointers DEF Addr
  <1> HIDE DEF w
  <1>3. ASSUME Bad # {} PROVE FALSE
    <2>1. Bad \subseteq Nat
      BY CountThreads DEF Places
    <2>2. PICK m \in Bad : \A y \in Bad : m <= y
      <3> HIDE DEF Bad
      <3> QED
        BY <1>3, <2>1, LeastOf
    <2>3. m \in Places /\ m # 0
      BY <1>1, <2>2
    <2>4. m \in Places \ {0} /\ m - 1 \in Places /\ ~(m <= m - 1)
      BY <2>3, <1>1, CountThreads DEF Places
    <2>5. m - 1 \notin Bad
      BY <2>2, <2>4
    <2> QED
      BY <1>1, <2>2, <2>4, <2>5
  <1> QED
    BY <1>3 DEF w

\* The members are where the walk has been.
LEMMA MemberAt ==
    ASSUME NEW k, NEW l
    PROVE  /\ \A t \in Members(k, l) : t # NULL /\ \E i \in Places : Walk(k, l)[i] = t
           /\ \A i \in Places : Walk(k, l)[i] # NULL => Walk(k, l)[i] \in Members(k, l)
  BY DEF Members, Places

\* The members of a list are threads.
LEMMA MembersThreads ==
    ASSUME NEW k \in LinkTables, NEW l \in Lists
    PROVE  Members(k, l) \subseteq Threads
  BY MemberAt, WalkTyped DEF Addr

\* A list that links no thread twice ends.
LEMMA WalkEnds ==
    ASSUME NEW k \in LinkTables, NEW l \in Lists, Path(k, l)
    PROVE  /\ Cardinality(Threads) \in Places
           /\ Walk(k, l)[Cardinality(Threads)] = NULL
  <1> DEFINE w == Walk(k, l)
             N == Cardinality(Threads)
  <1>0. N \in Nat /\ N \in Places /\ IsFiniteSet(Threads)
    BY CountThreads, CreateAssumption DEF Places
  <1>1. ASSUME w[N] # NULL PROVE FALSE
    <2>1. ASSUME NEW i \in Places PROVE w[i] # NULL
      BY <1>0, <1>1, WalkStaysNull, CountThreads DEF Places
    <2>2. \A i \in Places : w[i] \in Threads
      BY <2>1, WalkTyped DEF Addr
    <2>3. \A i, j \in Places : w[i] = w[j] => i = j
      BY <2>1 DEF Path
    <2> DEFINE f == [i \in Places |-> w[i]]
    <2> HIDE DEF w, N
    <2>4. f \in Injection(Places, Threads)
      BY <2>2, <2>3 DEF Injection, IsInjective
    <2> HIDE DEF f
    <2>5. Cardinality(Places) <= N
      BY <1>0, <2>4, FS_Injection DEF N
    <2>6. Cardinality(Places) = N + 1
      <3>1. 0 \in Int /\ N \in Int /\ ~(0 > N)
        BY <1>0
      <3>2. Cardinality(0..N) = N - 0 + 1
        BY <3>1, FS_Interval
      <3> QED
        BY <3>1, <3>2 DEF Places, N
    <2> QED
      BY <1>0, <2>5, <2>6
  <1> QED
    BY <1>0, <1>1

\* Every member has a place before the end of the walk, and the pointers around it.
LEMMA MemberPlace ==
    ASSUME NEW k \in LinkTables, NEW l \in Lists, Path(k, l), NEW t \in Members(k, l)
    PROVE  \E i \in Places :
              /\ Walk(k, l)[i] = t
              /\ i + 1 \in Places
              /\ i + 1 # 0 /\ (i + 1) - 1 = i
              /\ Walk(k, l)[i + 1] = k.next[Node(l)][t]
              /\ i # 0 => i - 1 \in Places /\ k.prev[Node(l)][t] = Walk(k, l)[i - 1] /\ Walk(k, l)[i - 1] # NULL
              /\ i = 0 => k.head[l] = t
  <1>1. PICK i \in Places : Walk(k, l)[i] = t /\ t # NULL
    BY MemberAt
  <1>2. i # Cardinality(Threads)
    BY <1>1, WalkEnds
  <1>3. i + 1 \in Places \ {0} /\ (i + 1) - 1 = i
    BY <1>2, CountThreads DEF Places
  <1>4. Walk(k, l)[i + 1] = k.next[Node(l)][t]
    BY <1>1, <1>3, WalkStep
  <1>5. ASSUME i # 0
        PROVE  i - 1 \in Places /\ k.prev[Node(l)][t] = Walk(k, l)[i - 1] /\ Walk(k, l)[i - 1] # NULL
    <2>1. i \in Places \ {0}
      BY <1>5
    <2>2. i - 1 \in Places /\ Walk(k, l)[i - 1] # NULL
      BY <1>1, <2>1, WalkStep
    <2> QED
      BY <1>1, <2>1, <2>2 DEF Path
  <1>6. i = 0 => k.head[l] = t
    BY <1>1, WalkStep
  <1> QED
    BY <1>1, <1>3, <1>4, <1>5, <1>6

\* A list is the same as long as its head and its members' pointers are.
LEMMA WalkFrame ==
    ASSUME NEW k, NEW l, NEW k2,
           k2.head[l] = k.head[l],
           \A t \in Members(k, l) : k2.next[Node(l)][t] = k.next[Node(l)][t]
    PROVE  Walk(k2, l) = Walk(k, l) /\ Members(k2, l) = Members(k, l)
  <1> DEFINE w == Walk(k, l)
  <1>1. w = [i \in Places |-> w[i]]
    BY WalkStep
  <1>2. w[0] = k2.head[l]
    BY WalkStep
  <1>3. ASSUME NEW i \in Places \ {0}
        PROVE  w[i] = IF w[i - 1] = NULL THEN NULL ELSE k2.next[Node(l)][w[i - 1]]
    <2>1. i - 1 \in Places /\ w[i] = IF w[i - 1] = NULL THEN NULL ELSE k.next[Node(l)][w[i - 1]]
      BY WalkStep
    <2>2. w[i - 1] # NULL => w[i - 1] \in Members(k, l)
      BY <2>1, MemberAt
    <2> QED
      BY <2>1, <2>2
  <1> HIDE DEF w
  <1>4. Walk(k2, l) = w
    BY <1>1, <1>2, <1>3, WalkIs
  <1> QED
    BY <1>4 DEF w, Members

\* A list stays linked in both directions while its members keep both pointers.
LEMMA PathFrame ==
    ASSUME NEW k, NEW l, NEW k2, Path(k, l),
           k2.head[l] = k.head[l],
           \A t \in Members(k, l) : /\ k2.next[Node(l)][t] = k.next[Node(l)][t]
                                    /\ k2.prev[Node(l)][t] = k.prev[Node(l)][t]
    PROVE  /\ Walk(k2, l) = Walk(k, l) /\ Members(k2, l) = Members(k, l)
           /\ Path(k2, l)
           /\ \A b : First(k, l, b) => First(k2, l, b)
  <1>1. Walk(k2, l) = Walk(k, l) /\ Members(k2, l) = Members(k, l)
    BY WalkFrame
  <1>2. Path(k2, l)
    BY <1>1, MemberAt DEF Path
  <1>3. k.head[l] # NULL => k.head[l] \in Members(k, l)
    BY WalkStep, MemberAt
  <1>4. \A b : First(k, l, b) => First(k2, l, b)
    BY <1>3 DEF First
  <1> QED
    BY <1>1, <1>2, <1>4

-----------------------------------------------------------------------------
(* A thread put in front of a list, or taken out of it *)

\* Thread t has been put before the list l of k, to give k2.
Pushed(k, l, t, k2) ==
    /\ k2.head[l] = t
    /\ k2.next[Node(l)][t] = k.head[l]
    /\ k2.prev[Node(l)][t] = NULL
    /\ \A u \in Members(k, l) :
          /\ k2.next[Node(l)][u] = k.next[Node(l)][u]
          /\ k2.prev[Node(l)][u] = IF u = k.head[l] THEN t ELSE k.prev[Node(l)][u]

\* A walk through the list with t in front meets t, then what it met before.
LEMMA PushWalk ==
    ASSUME NEW k \in LinkTables, NEW l \in Lists, NEW k2, NEW t \in Threads, Pushed(k, l, t, k2)
    PROVE  \A i \in Places : Walk(k2, l)[i] = IF i = 0 THEN t ELSE Walk(k, l)[i - 1]
  <1> DEFINE w == Walk(k, l)
             f == [i \in Places |-> IF i = 0 THEN t ELSE w[i - 1]]
             g == k2.next[Node(l)]
  <1>0. 0 \in Places /\ t # NULL
    BY WalkStep, CreateAssumption
  <1>1. f[0] = k2.head[l]
    BY <1>0 DEF Pushed
  <1>2. ASSUME NEW i \in Places \ {0}
        PROVE  f[i] = IF f[i - 1] = NULL THEN NULL ELSE g[f[i - 1]]
    <2>1. i - 1 \in Places /\ i # 0
      BY WalkStep
    <2>2. CASE i - 1 = 0
      <3>1. f[i - 1] = t /\ f[i] = w[0]
        BY <2>1, <2>2
      <3>2. w[0] = k.head[l] /\ g[t] = k.head[l]
        BY WalkStep DEF Pushed
      <3> HIDE DEF f, w, g
      <3> QED
        BY <1>0, <3>1, <3>2
    <2>3. CASE i - 1 # 0
      <3>1. i - 1 \in Places \ {0}
        BY <2>1, <2>3
      <3>2. f[i] = w[i - 1] /\ f[i - 1] = w[(i - 1) - 1]
        BY <2>1, <2>3
      <3>3. /\ (i - 1) - 1 \in Places
            /\ w[i - 1] = IF w[(i - 1) - 1] = NULL THEN NULL ELSE k.next[Node(l)][w[(i - 1) - 1]]
        <4>1. \A j \in Places \ {0} :
                 /\ j - 1 \in Places
                 /\ w[j] = IF w[j - 1] = NULL THEN NULL ELSE k.next[Node(l)][w[j - 1]]
          BY WalkStep
        <4> HIDE DEF w
        <4> QED
          BY ONLY <3>1, <4>1
      <3>4. w[(i - 1) - 1] # NULL => g[w[(i - 1) - 1]] = k.next[Node(l)][w[(i - 1) - 1]]
        BY <3>3, MemberAt DEF Pushed
      <3> HIDE DEF f, w, g
      <3> QED
        BY <3>2, <3>3, <3>4
    <2> QED
      BY <2>2, <2>3
  <1>3. f = [i \in Places |-> f[i]]
    OBVIOUS
  <1> HIDE DEF f
  <1>4. Walk(k2, l) = f
    BY <1>1, <1>2, <1>3, WalkIs
  <1> QED
    BY <1>4 DEF f

\* thread_list_add() of a thread that was not in the list: the list has one member more
\* and is linked in both directions.
LEMMA PushPath ==
    ASSUME NEW k \in LinkTables, NEW l \in Lists, NEW k2, NEW t \in Threads, Path(k, l),
           t \notin Members(k, l), Pushed(k, l, t, k2)
    PROVE  /\ Members(k2, l) = Members(k, l) \cup {t}
           /\ Path(k2, l)
           /\ First(k2, l, NULL)
  <1> DEFINE w == Walk(k, l)
             v == Walk(k2, l)
  <1>0. t # NULL /\ 0 \in Places
    BY CreateAssumption, WalkStep
  <1>1. \A i \in Places : v[i] = IF i = 0 THEN t ELSE w[i - 1]
    BY PushWalk
  <1>2. \A i \in Places \ {0} : i - 1 \in Places
    BY WalkStep
  <1>3. Members(k2, l) = Members(k, l) \cup {t}
    <2>1. ASSUME NEW u \in Members(k2, l) PROVE u \in Members(k, l) \cup {t}
      <3>1. PICK i \in Places : v[i] = u /\ u # NULL
        BY MemberAt
      <3> QED
        BY <1>1, <1>2, <3>1, MemberAt
    <2>2. ASSUME NEW u \in Members(k, l) PROVE u \in Members(k2, l)
      <3>1. PICK i \in Places : w[i] = u /\ i + 1 \in Places /\ i + 1 # 0 /\ (i + 1) - 1 = i /\ u # NULL
        BY MemberPlace, MemberAt
      <3>2. v[i + 1] = u
        BY <1>1, <3>1
      <3> QED
        BY <3>1, <3>2, MemberAt
    <2>3. t \in Members(k2, l)
      BY <1>0, <1>1, MemberAt
    <2> QED
      BY <2>1, <2>2, <2>3
  <1>4. First(k2, l, NULL)
    BY DEF First, Pushed
  <1>5. ASSUME NEW i \in Places, NEW j \in Places, v[i] # NULL, v[i] = v[j] PROVE i = j
    <2>1. ASSUME NEW n \in Places, n # 0, v[n] # NULL PROVE v[n] # t /\ n - 1 \in Places /\ v[n] = w[n - 1]
      BY <1>1, <1>2, <2>1, MemberAt
    <2>2. v[0] = t
      BY <1>0, <1>1
    <2>3. CASE i # 0 /\ j # 0
      <3>1. i - 1 \in Places /\ j - 1 \in Places /\ w[i - 1] # NULL /\ w[i - 1] = w[j - 1]
        BY <1>5, <2>1, <2>3
      <3>2. i - 1 = j - 1
        BY <3>1 DEF Path
      <3> QED
        BY <3>2 DEF Places
    <2> QED
      BY <1>5, <2>1, <2>2, <2>3
  <1>6. ASSUME NEW i \in Places \ {0}, v[i] # NULL PROVE k2.prev[Node(l)][v[i]] = v[i - 1]
    <2>1. i - 1 \in Places /\ v[i] = w[i - 1] /\ w[i - 1] \in Members(k, l) /\ w[i - 1] # NULL
      BY <1>1, <1>2, <1>6, MemberAt
    <2>2. k2.prev[Node(l)][v[i]] = IF w[i - 1] = k.head[l] THEN t ELSE k.prev[Node(l)][w[i - 1]]
      BY <2>1 DEF Pushed
    <2>3. w[0] = k.head[l]
      BY WalkStep
    <2>4. CASE i - 1 = 0
      BY <1>0, <1>1, <2>1, <2>2, <2>3, <2>4
    <2>5. CASE i - 1 # 0
      <3>1. w[i - 1] # k.head[l]
        BY <1>0, <2>1, <2>3, <2>5 DEF Path
      <3>2. k.prev[Node(l)][w[i - 1]] = w[(i - 1) - 1]
        BY <2>1, <2>5 DEF Path
      <3>3. v[i - 1] = w[(i - 1) - 1]
        BY <1>1, <2>1, <2>5
      <3> QED
        BY <2>2, <3>1, <3>2, <3>3
    <2> QED
      BY <2>4, <2>5
  <1>7. Path(k2, l)
    BY <1>5, <1>6 DEF Path
  <1> QED
    BY <1>3, <1>4, <1>7

\* Thread t has been taken out of the list l of k, to give k2.
Removed(k, l, t, k2) ==
    LET p == k.prev[Node(l)][t]
        s == k.next[Node(l)][t]
    IN  /\ k2.head[l] = IF p = NULL THEN s ELSE k.head[l]
        /\ \A u \in Members(k, l) \ {t} :
              /\ k2.next[Node(l)][u] = IF u = p THEN s ELSE k.next[Node(l)][u]
              /\ k2.prev[Node(l)][u] = IF u = s THEN p ELSE k.prev[Node(l)][u]

\* thread_list_remove() of a member: the list has one member less and is linked in both
\* directions.
LEMMA RemovePath ==
    ASSUME NEW k \in LinkTables, NEW l \in Lists, NEW k2, NEW t \in Members(k, l), Path(k, l),
           First(k, l, NULL), Removed(k, l, t, k2)
    PROVE  /\ Members(k2, l) = Members(k, l) \ {t}
           /\ Path(k2, l)
           /\ First(k2, l, NULL)
  <1> DEFINE w == Walk(k, l)
             N == Cardinality(Threads)
             nx == k.next[Node(l)]
             pv == k.prev[Node(l)]
             nx2 == k2.next[Node(l)]
             pv2 == k2.prev[Node(l)]
  <1>1. PICK m \in Places : /\ w[m] = t
                            /\ m + 1 \in Places
                            /\ w[m + 1] = nx[t]
                            /\ m # 0 => m - 1 \in Places /\ pv[t] = w[m - 1] /\ w[m - 1] # NULL
                            /\ m = 0 => k.head[l] = t
    BY MemberPlace
  <1>2. PICK p : p = IF m = 0 THEN NULL ELSE w[m - 1]
    OBVIOUS
  <1>3. PICK s : s = w[m + 1]
    OBVIOUS
  <1>4. t # NULL /\ pv[t] = p /\ nx[t] = s
    BY <1>1, <1>2, <1>3, MemberAt DEF First
  <1>5. /\ k2.head[l] = IF p = NULL THEN s ELSE k.head[l]
        /\ \A u \in Members(k, l) \ {t} : /\ nx2[u] = IF u = p THEN s ELSE nx[u]
                                          /\ pv2[u] = IF u = s THEN p ELSE pv[u]
    BY <1>4 DEF Removed
  <1>6. /\ N \in Nat /\ Places = 0..N
        /\ w[N] = NULL
    BY CountThreads, WalkEnds DEF Places
  <1>7. \A i \in Places : w[i] # NULL => w[i] \in Members(k, l)
    BY MemberAt
  <1>8. \A i, j \in Places : w[i] # NULL /\ w[i] = w[j] => i = j
    BY DEF Path
  <1>9. /\ w[0] = k.head[l]
        /\ \A i \in Places \ {0} : w[i] = IF w[i - 1] = NULL THEN NULL ELSE nx[w[i - 1]]
        /\ \A i \in Places \ {0} : w[i] # NULL => pv[w[i]] = w[i - 1]
    BY WalkStep DEF Path
  <1>10. \A i \in Places : i <= m => w[i] # NULL
    BY <1>1, <1>4, WalkStaysNull
  <1> DEFINE f == [i \in Places |-> IF i < m THEN w[i] ELSE IF i < N THEN w[i + 1] ELSE NULL]
  <1>11. \A i \in Places : f[i] = IF i < m THEN w[i] ELSE IF i < N THEN w[i + 1] ELSE NULL
    OBVIOUS
  <1>12. f = [i \in Places |-> f[i]]
    OBVIOUS
  <1>13. k.head[l] # NULL => pv[k.head[l]] = NULL
    BY DEF First
  <1>p. m \in 0..N /\ m < N
    BY <1>1, <1>6
  <1> HIDE DEF w, f, N, nx, pv, nx2, pv2
  <1>14. f[0] = k2.head[l]
    <2>1. CASE m = 0
      BY <1>2, <1>3, <1>5, <1>6, <1>11, <1>p, <2>1
    <2>2. CASE m # 0
      BY <1>1, <1>2, <1>5, <1>6, <1>9, <1>11, <1>p, <2>2
    <2> QED
      BY <2>1, <2>2
  <1>15. ASSUME NEW i \in Places \ {0}
         PROVE  /\ f[i] = IF f[i - 1] = NULL THEN NULL ELSE nx2[f[i - 1]]
                /\ f[i] # NULL => pv2[f[i]] = f[i - 1]
    <2>0. i - 1 \in Places /\ i \in 1..N
      BY <1>6
    <2>1. CASE i < m
      <3>1. f[i] = w[i] /\ f[i - 1] = w[i - 1]
        BY <1>6, <1>11, <1>p, <2>0, <2>1
      <3>2. w[i] # NULL /\ w[i - 1] # NULL
        BY <1>6, <1>10, <1>p, <2>0, <2>1
      <3>3. i # m /\ i - 1 # m /\ i - 1 # m - 1 /\ i # m + 1 /\ m # 0
        BY <1>p, <2>0, <2>1
      <3>4. w[i] # t /\ w[i - 1] # t /\ w[i - 1] # p /\ w[i] # s
        BY <1>1, <1>2, <1>3, <1>8, <2>0, <3>2, <3>3
      <3>5. nx2[w[i - 1]] = nx[w[i - 1]] /\ pv2[w[i]] = pv[w[i]]
        BY <1>5, <1>7, <2>0, <3>2, <3>4
      <3>6. w[i] = nx[w[i - 1]] /\ pv[w[i]] = w[i - 1]
        BY <1>9, <3>2
      <3> QED
        BY <3>1, <3>2, <3>5, <3>6
    <2>2. CASE i = m
      <3>1. f[i] = s /\ f[i - 1] = p /\ p = w[m - 1] /\ p # NULL /\ m - 1 \in Places
        BY <1>1, <1>2, <1>3, <1>6, <1>11, <1>p, <2>0, <2>2
      <3>2. p # t /\ p \in Members(k, l)
        <4>1. m - 1 # m
          BY <1>p
        <4> QED
          BY <1>1, <1>7, <1>8, <3>1, <4>1
      <3>3. nx2[p] = s
        BY <1>5, <3>2
      <3>4. ASSUME s # NULL PROVE pv2[s] = p
        <4>1. s # t /\ s \in Members(k, l)
          <5>1. m + 1 # m
            BY <1>p
          <5> QED
            BY <1>1, <1>3, <1>7, <1>8, <3>4, <5>1
        <4> QED
          BY <1>5, <4>1
      <3> QED
        BY <3>1, <3>3, <3>4
    <2>3. CASE i > m
      <3>1. f[i - 1] = w[i]
        BY <1>6, <1>11, <1>p, <2>0, <2>3
      <3>2. CASE i = N
        <4>1. w[i] = NULL /\ f[i] = NULL
          BY <1>6, <1>11, <1>p, <2>0, <2>3, <3>2
        <4> QED
          BY <3>1, <4>1
      <3>3. CASE i # N
        <4>1. i + 1 \in Places \ {0} /\ (i + 1) - 1 = i /\ f[i] = w[i + 1]
          BY <1>6, <1>11, <1>p, <2>0, <2>3, <3>3
        <4>2. i # m /\ i # m - 1 /\ i + 1 # m + 1 /\ i + 1 # m
          BY <1>p, <2>0, <2>3
        <4>3. w[i + 1] = (IF w[i] = NULL THEN NULL ELSE nx[w[i]]) /\ (w[i + 1] # NULL => pv[w[i + 1]] = w[i])
          BY <1>9, <4>1
        <4>4. ASSUME w[i] # NULL PROVE nx2[w[i]] = nx[w[i]]
          <5>1. w[i] # t /\ w[i] # p
            BY <1>1, <1>2, <1>8, <4>2, <4>4
          <5> QED
            BY <1>5, <1>7, <4>4, <5>1
        <4>5. ASSUME w[i + 1] # NULL PROVE pv2[w[i + 1]] = pv[w[i + 1]]
          <5>1. w[i + 1] # t /\ w[i + 1] # s
            BY <1>1, <1>3, <1>8, <4>1, <4>2, <4>5
          <5> QED
            BY <1>5, <1>7, <4>1, <4>5, <5>1
        <4> QED
          BY <3>1, <4>1, <4>3, <4>4, <4>5
      <3> QED
        BY <3>2, <3>3
    <2> QED
      BY <1>6, <1>p, <2>0, <2>1, <2>2, <2>3
  <1>16. Walk(k2, l) = f
    BY <1>12, <1>14, <1>15, WalkIs DEF nx2
  <1>17. ASSUME NEW i \in Places, NEW j \in Places, f[i] # NULL, f[i] = f[j] PROVE i = j
    <2>1. ASSUME NEW n \in Places, f[n] # NULL
          PROVE  \E c \in Places : f[n] = w[c] /\ c = IF n < m THEN n ELSE n + 1
      BY <1>6, <1>11, <1>p, <2>1
    <2>2. PICK c \in Places : f[i] = w[c] /\ c = IF i < m THEN i ELSE i + 1
      BY <1>17, <2>1
    <2>3. PICK d \in Places : f[j] = w[d] /\ d = IF j < m THEN j ELSE j + 1
      BY <1>17, <2>1
    <2>4. c = d
      BY <1>8, <1>17, <2>2, <2>3
    <2> QED
      BY <1>6, <1>p, <2>2, <2>3, <2>4
  <1>18. Path(k2, l)
    BY <1>15, <1>16, <1>17 DEF Path, pv2
  <1>19. Members(k2, l) = Members(k, l) \ {t}
    <2>1. ASSUME NEW u \in Members(k2, l) PROVE u \in Members(k, l) /\ u # t
      <3>1. PICK i \in Places : f[i] = u /\ u # NULL
        BY <1>16, MemberAt
      <3>2. PICK c \in Places : f[i] = w[c] /\ c # m
        BY <1>6, <1>11, <1>p, <3>1
      <3> QED
        BY <1>1, <1>7, <1>8, <3>1, <3>2
    <2>2. ASSUME NEW u \in Members(k, l), u # t PROVE u \in Members(k2, l)
      <3>1. PICK c \in Places : w[c] = u /\ u # NULL
        BY MemberAt DEF w
      <3>2. c # m
        BY <1>1, <2>2, <3>1
      <3>3. \E i \in Places : f[i] = w[c]
        <4>1. CASE c < m
          BY <1>11, <4>1
        <4>2. CASE c > m
          <5>1. c - 1 \in Places /\ ~(c - 1 < m) /\ c - 1 < N /\ (c - 1) + 1 = c
            BY <1>6, <1>p, <4>2
          <5> QED
            BY <1>11, <5>1
        <4> QED
          BY <1>6, <1>p, <3>2, <4>1, <4>2
      <3> QED
        BY <1>16, <3>1, <3>3, MemberAt
    <2> QED
      BY <2>1, <2>2
  <1>20. First(k2, l, NULL)
    <2>1. ASSUME k2.head[l] # NULL PROVE pv2[k2.head[l]] = NULL
      <3>1. CASE m = 0
        <4>1. k2.head[l] = s /\ p = NULL /\ s \in Members(k, l) /\ s # t
          <5>1. m + 1 # m
            BY <1>p
          <5> QED
            BY <1>1, <1>2, <1>3, <1>5, <1>7, <1>8, <2>1, <3>1, <5>1
        <4> QED
          BY <1>5, <4>1
      <3>2. CASE m # 0
        <4>1. k2.head[l] = w[0] /\ 0 \in Places /\ m + 1 # 0
          BY <1>1, <1>2, <1>5, <1>6, <1>9, <1>p, <3>2
        <4>2. w[0] # t /\ w[0] # s /\ w[0] \in Members(k, l)
          BY <1>1, <1>3, <1>7, <1>8, <2>1, <3>2, <4>1
        <4> QED
          BY <1>5, <1>9, <1>13, <2>1, <4>1, <4>2
      <3> QED
        BY <3>1, <3>2
    <2> QED
      BY <2>1 DEF First, pv2
  <1> QED
    BY <1>18, <1>19, <1>20

-----------------------------------------------------------------------------
(* thread_list_add() and thread_list_remove() *)

\* Two lists whose nodes are different ones, or that link different threads.
Apart(k, l, m) == Node(l) # Node(m) \/ Members(k, l) \cap Members(k, m) = {}

\* thread_list_add() puts a thread before a list and leaves the other lists alone.
LEMMA AddIsPushed ==
    ASSUME NEW k \in LinkTables, NEW l \in Lists, NEW t \in Threads
    PROVE  /\ thread_list_add(k, l, t) \in LinkTables
           /\ t \notin Members(k, l) => Pushed(k, l, t, thread_list_add(k, l, t))
           /\ thread_list_add(k, l, t).head = [k.head EXCEPT ![l] = t]
  <1> DEFINE k2 == thread_list_add(k, l, t)
  <1>1. /\ k.head \in [Lists -> Addr] /\ k.next \in [Nodes -> [Threads -> Addr]]
        /\ k.prev \in [Nodes -> [Threads -> Addr]] /\ Node(l) \in Nodes
        /\ t \in Addr /\ NULL \in Addr /\ k.head[l] \in Addr
    BY NodeOfList DEF LinkTables, Addr
  <1>2. /\ k2.head = [k.head EXCEPT ![l] = t]
        /\ k2.next = [k.next EXCEPT ![Node(l)][t] = k.head[l]]
        /\ k2.prev = [k.prev EXCEPT ![Node(l)] = [u \in Threads |->
                         IF u = t THEN NULL ELSE IF u = k.head[l] THEN t ELSE k.prev[Node(l)][u]]]
        /\ k2 = [head |-> k2.head, next |-> k2.next, prev |-> k2.prev]
    BY <1>1 DEF thread_list_add
  <1> HIDE DEF k2
  <1>3. k2 \in LinkTables
    <2>1. k2.head \in [Lists -> Addr]
      BY <1>1, <1>2
    <2>2. k2.next \in [Nodes -> [Threads -> Addr]]
      BY <1>1, <1>2
    <2>3. k2.prev \in [Nodes -> [Threads -> Addr]]
      <3>1. \A u \in Threads : k.prev[Node(l)][u] \in Addr
        BY <1>1
      <3> DEFINE r == [u \in Threads |-> IF u = t THEN NULL ELSE IF u = k.head[l] THEN t ELSE k.prev[Node(l)][u]]
      <3>2. r \in [Threads -> Addr]
        BY <1>1, <3>1
      <3>3. k2.prev = [k.prev EXCEPT ![Node(l)] = r]
        BY <1>2
      <3> HIDE DEF r
      <3> QED
        BY <1>1, <3>2, <3>3
    <2> QED
      BY <1>2, <2>1, <2>2, <2>3 DEF LinkTables
  <1>4. ASSUME t \notin Members(k, l) PROVE Pushed(k, l, t, k2)
    <2>1. Members(k, l) \subseteq Threads
      BY MembersThreads
    <2>2. k2.head[l] = t
      BY <1>1, <1>2
    <2>3. \A u \in Threads : k2.next[Node(l)][u] = IF u = t THEN k.head[l] ELSE k.next[Node(l)][u]
      BY <1>1, <1>2
    <2>4. \A u \in Threads : k2.prev[Node(l)][u] = IF u = t THEN NULL ELSE IF u = k.head[l] THEN t
                                                   ELSE k.prev[Node(l)][u]
      BY <1>1, <1>2
    <2>5. \A u \in Members(k, l) : u \in Threads /\ u # t
      BY <1>4, <2>1
    <2> QED
      BY <2>2, <2>3, <2>4, <2>5 DEF Pushed
  <1> QED
    BY <1>2, <1>3, <1>4 DEF k2

\* What thread_list_add() and thread_list_remove() leave alone.
Untouched(k, k2, l) ==
    /\ Walk(k2, l) = Walk(k, l) /\ Members(k2, l) = Members(k, l)
    /\ Path(k, l) => Path(k2, l)
    /\ \A b : First(k, l, b) => First(k2, l, b)

\* A list whose head and members keep their pointers is untouched.
LEMMA UntouchedIf ==
    ASSUME NEW k \in LinkTables, NEW l \in Lists, NEW k2,
           k2.head[l] = k.head[l],
           \A t \in Members(k, l) : /\ k2.next[Node(l)][t] = k.next[Node(l)][t]
                                    /\ k2.prev[Node(l)][t] = k.prev[Node(l)][t]
    PROVE  Untouched(k, k2, l)
  <1>1. Walk(k2, l) = Walk(k, l) /\ Members(k2, l) = Members(k, l)
    BY WalkFrame
  <1>2. Path(k, l) => Path(k2, l)
    BY PathFrame
  <1>3. k.head[l] # NULL => k.head[l] \in Members(k, l)
    BY WalkStep, MemberAt
  <1>4. \A b : First(k, l, b) => First(k2, l, b)
    BY <1>3 DEF First
  <1> QED
    BY <1>1, <1>2, <1>4 DEF Untouched

\* Two steps that leave a list alone.
LEMMA UntouchedTransitive ==
    ASSUME NEW k, NEW l, NEW k2, NEW k3, Untouched(k, k2, l), Untouched(k2, k3, l)
    PROVE  Untouched(k, k3, l)
  BY DEF Untouched

\* thread_list_add() leaves the lists alone that use another node or do not link t.
LEMMA AddUntouched ==
    ASSUME NEW k \in LinkTables, NEW l \in Lists, NEW t \in Threads, NEW m \in Lists, m # l,
           Node(m) = Node(l) => t \notin Members(k, m) /\ Apart(k, l, m)
    PROVE  Untouched(k, thread_list_add(k, l, t), m)
  <1> DEFINE k2 == thread_list_add(k, l, t)
  <1>1. /\ k.head \in [Lists -> Addr] /\ k.next \in [Nodes -> [Threads -> Addr]]
        /\ k.prev \in [Nodes -> [Threads -> Addr]] /\ Node(l) \in Nodes /\ Node(m) \in Nodes
    BY NodeOfList DEF LinkTables, Addr
  <1>2. /\ k2.head = [k.head EXCEPT ![l] = t]
        /\ k2.next = [k.next EXCEPT ![Node(l)][t] = k.head[l]]
        /\ k2.prev = [k.prev EXCEPT ![Node(l)] = [u \in Threads |->
                         IF u = t THEN NULL ELSE IF u = k.head[l] THEN t ELSE k.prev[Node(l)][u]]]
    BY DEF thread_list_add
  <1> HIDE DEF k2
  <1>3. k2.head[m] = k.head[m]
    BY <1>1, <1>2
  <1>4. Members(k, m) \subseteq Threads
    BY MembersThreads
  <1>5. CASE Node(m) # Node(l)
    <2>1. k2.next[Node(m)] = k.next[Node(m)] /\ k2.prev[Node(m)] = k.prev[Node(m)]
      BY <1>1, <1>2, <1>5
    <2> QED
      BY <1>3, <2>1, UntouchedIf DEF k2
  <1>6. CASE Node(m) = Node(l)
    <2>1. k.head[l] # NULL => k.head[l] \in Members(k, l)
      BY WalkStep, MemberAt
    <2>2. ASSUME NEW u \in Members(k, m) PROVE u \in Threads /\ u # t /\ u # k.head[l]
      <3>1. u # NULL
        BY MemberAt
      <3> QED
        BY <1>4, <1>6, <2>1, <3>1 DEF Apart
    <2>3. ASSUME NEW u \in Members(k, m)
          PROVE  k2.next[Node(m)][u] = k.next[Node(m)][u] /\ k2.prev[Node(m)][u] = k.prev[Node(m)][u]
      BY <1>1, <1>2, <1>6, <2>2
    <2> QED
      BY <1>3, <2>3, UntouchedIf DEF k2
  <1> QED
    BY <1>5, <1>6

\* Unlinking a node leaves pointers to threads.
LEMMA UnlinkTyped ==
    ASSUME NEW k \in LinkTables, NEW l \in Lists, NEW t \in Threads, NEW p \in Addr, NEW s \in Addr
    PROVE  Unlink(k, l, t, p, s) \in LinkTables
  <1> DEFINE k2 == Unlink(k, l, t, p, s)
  <1>1. /\ k.head \in [Lists -> Addr] /\ k.next \in [Nodes -> [Threads -> Addr]]
        /\ k.prev \in [Nodes -> [Threads -> Addr]] /\ Node(l) \in Nodes /\ NULL \in Addr
    BY NodeOfList DEF LinkTables, Addr
  <1> DEFINE r == [u \in Threads |-> IF u = t THEN NULL ELSE IF u = p THEN s ELSE k.next[Node(l)][u]]
             q == [u \in Threads |-> IF u = t THEN NULL ELSE IF u = s THEN p ELSE k.prev[Node(l)][u]]
  <1>2. /\ k2.head = IF p = NULL THEN [k.head EXCEPT ![l] = s] ELSE k.head
        /\ k2.next = [k.next EXCEPT ![Node(l)] = r]
        /\ k2.prev = [k.prev EXCEPT ![Node(l)] = q]
        /\ k2 = [head |-> k2.head, next |-> k2.next, prev |-> k2.prev]
    BY <1>1 DEF Unlink
  <1>3. \A u \in Threads : k.next[Node(l)][u] \in Addr /\ k.prev[Node(l)][u] \in Addr
    BY <1>1
  <1>4. r \in [Threads -> Addr] /\ q \in [Threads -> Addr]
    BY <1>1, <1>3
  <1> HIDE DEF k2, r, q
  <1>5. k2.head \in [Lists -> Addr]
    BY <1>1, <1>2
  <1>6. k2.next \in [Nodes -> [Threads -> Addr]]
    BY <1>1, <1>2, <1>4
  <1>7. k2.prev \in [Nodes -> [Threads -> Addr]]
    BY <1>1, <1>2, <1>4
  <1> QED
    BY <1>2, <1>5, <1>6, <1>7 DEF LinkTables, k2

\* The pointers after a node has been unlinked.
LEMMA UnlinkPointers ==
    ASSUME NEW k \in LinkTables, NEW l \in Lists, NEW t \in Threads, NEW p \in Addr, NEW s \in Addr
    PROVE  /\ Unlink(k, l, t, p, s).head = IF p = NULL THEN [k.head EXCEPT ![l] = s] ELSE k.head
           /\ \A u \in Threads :
                 /\ Unlink(k, l, t, p, s).next[Node(l)][u] =
                       IF u = t THEN NULL ELSE IF u = p THEN s ELSE k.next[Node(l)][u]
                 /\ Unlink(k, l, t, p, s).prev[Node(l)][u] =
                       IF u = t THEN NULL ELSE IF u = s THEN p ELSE k.prev[Node(l)][u]
           /\ \A n \in Nodes : n # Node(l) =>
                 /\ Unlink(k, l, t, p, s).next[n] = k.next[n]
                 /\ Unlink(k, l, t, p, s).prev[n] = k.prev[n]
  <1> DEFINE k2 == Unlink(k, l, t, p, s)
  <1>1. /\ k.head \in [Lists -> Addr] /\ k.next \in [Nodes -> [Threads -> Addr]]
        /\ k.prev \in [Nodes -> [Threads -> Addr]] /\ Node(l) \in Nodes /\ NULL \in Addr
    BY NodeOfList DEF LinkTables, Addr
  <1> DEFINE r == [u \in Threads |-> IF u = t THEN NULL ELSE IF u = p THEN s ELSE k.next[Node(l)][u]]
             q == [u \in Threads |-> IF u = t THEN NULL ELSE IF u = s THEN p ELSE k.prev[Node(l)][u]]
  <1>2. /\ k2.head = IF p = NULL THEN [k.head EXCEPT ![l] = s] ELSE k.head
        /\ k2.next = [k.next EXCEPT ![Node(l)] = r]
        /\ k2.prev = [k.prev EXCEPT ![Node(l)] = q]
    BY <1>1 DEF Unlink
  <1> HIDE DEF k2
  <1>3. k2.next[Node(l)] = r /\ k2.prev[Node(l)] = q
    BY <1>1, <1>2
  <1>4. \A n \in Nodes : n # Node(l) => k2.next[n] = k.next[n] /\ k2.prev[n] = k.prev[n]
    BY <1>1, <1>2
  <1> QED
    BY <1>2, <1>3, <1>4 DEF k2

\* The neighbours of a linked thread are linked in the same list.
LEMMA Neighbours ==
    ASSUME NEW k \in LinkTables, NEW l \in Lists, NEW t \in Members(k, l), Path(k, l), First(k, l, NULL)
    PROVE  /\ t \in Threads
           /\ k.prev[Node(l)][t] \in Addr /\ k.next[Node(l)][t] \in Addr
           /\ k.prev[Node(l)][t] # NULL => k.prev[Node(l)][t] \in Members(k, l)
           /\ k.next[Node(l)][t] # NULL => k.next[Node(l)][t] \in Members(k, l)
           /\ k.prev[Node(l)][t] = NULL => k.head[l] = t
  <1>1. t \in Threads
    BY MembersThreads
  <1>2. k.prev[Node(l)][t] \in Addr /\ k.next[Node(l)][t] \in Addr
    BY <1>1, Pointers
  <1>3. PICK i \in Places : /\ Walk(k, l)[i] = t
                            /\ i + 1 \in Places
                            /\ Walk(k, l)[i + 1] = k.next[Node(l)][t]
                            /\ i # 0 => i - 1 \in Places /\ k.prev[Node(l)][t] = Walk(k, l)[i - 1] /\ Walk(k, l)[i - 1] # NULL
                            /\ i = 0 => k.head[l] = t
    BY MemberPlace
  <1>4. t # NULL
    BY MemberAt
  <1>5. k.next[Node(l)][t] # NULL => k.next[Node(l)][t] \in Members(k, l)
    BY <1>3, MemberAt
  <1>6. i # 0 => k.prev[Node(l)][t] # NULL /\ k.prev[Node(l)][t] \in Members(k, l)
    BY <1>3, MemberAt
  <1>7. i = 0 => k.prev[Node(l)][t] = NULL /\ k.head[l] = t
    BY <1>3, <1>4 DEF First
  <1> QED
    BY <1>1, <1>2, <1>5, <1>6, <1>7

\* thread_list_remove() of a member does what it should, and its assertion holds.
LEMMA RemoveIsRemoved ==
    ASSUME NEW k \in LinkTables, NEW l \in Lists, NEW t \in Members(k, l), Path(k, l), First(k, l, NULL)
    PROVE  /\ thread_list_remove(k, l, t) \in LinkTables
           /\ Removed(k, l, t, thread_list_remove(k, l, t))
           /\ RemoveAsserts(k, l, t)
  <1> DEFINE p == k.prev[Node(l)][t]
             s == k.next[Node(l)][t]
             k2 == Unlink(k, l, t, p, s)
  <1>1. t \in Threads /\ p \in Addr /\ s \in Addr
    BY Neighbours
  <1>2. k2 \in LinkTables
    BY <1>1, UnlinkTyped
  <1>3. /\ k2.head = IF p = NULL THEN [k.head EXCEPT ![l] = s] ELSE k.head
        /\ \A u \in Threads :
              /\ k2.next[Node(l)][u] = IF u = t THEN NULL ELSE IF u = p THEN s ELSE k.next[Node(l)][u]
              /\ k2.prev[Node(l)][u] = IF u = t THEN NULL ELSE IF u = s THEN p ELSE k.prev[Node(l)][u]
    BY <1>1, UnlinkPointers
  <1>4. Members(k, l) \subseteq Threads
    BY MembersThreads
  <1>5. k2.head[l] = IF p = NULL THEN s ELSE k.head[l]
    BY <1>3 DEF LinkTables
  <1> HIDE DEF k2
  <1>6. Removed(k, l, t, k2)
    BY <1>3, <1>4, <1>5 DEF Removed
  <1>7. RemoveAsserts(k, l, t)
    BY Neighbours DEF RemoveAsserts
  <1> QED
    BY <1>2, <1>6, <1>7 DEF thread_list_remove, k2

\* thread_list_remove() leaves the other lists alone.
LEMMA RemoveUntouched ==
    ASSUME NEW k \in LinkTables, NEW l \in Lists, NEW t \in Members(k, l), Path(k, l), First(k, l, NULL),
           NEW m \in Lists, m # l, Apart(k, l, m)
    PROVE  Untouched(k, thread_list_remove(k, l, t), m)
  <1> DEFINE p == k.prev[Node(l)][t]
             s == k.next[Node(l)][t]
             k2 == Unlink(k, l, t, p, s)
  <1>1. t \in Threads /\ p \in Addr /\ s \in Addr
    BY Neighbours
  <1>2. /\ p # NULL => p \in Members(k, l)
        /\ s # NULL => s \in Members(k, l)
    BY Neighbours
  <1>3. /\ k2.head = IF p = NULL THEN [k.head EXCEPT ![l] = s] ELSE k.head
        /\ \A u \in Threads :
              /\ k2.next[Node(l)][u] = IF u = t THEN NULL ELSE IF u = p THEN s ELSE k.next[Node(l)][u]
              /\ k2.prev[Node(l)][u] = IF u = t THEN NULL ELSE IF u = s THEN p ELSE k.prev[Node(l)][u]
        /\ \A n \in Nodes : n # Node(l) => k2.next[n] = k.next[n] /\ k2.prev[n] = k.prev[n]
    BY <1>1, UnlinkPointers
  <1>4. k2.head[m] = k.head[m]
    BY <1>3 DEF LinkTables
  <1> HIDE DEF k2
  <1>5. CASE Node(m) # Node(l)
    <2>1. k2.next[Node(m)] = k.next[Node(m)] /\ k2.prev[Node(m)] = k.prev[Node(m)]
      BY <1>3, <1>5, NodeOfList
    <2>2. Untouched(k, k2, m)
      BY <1>4, <2>1, UntouchedIf
    <2> QED
      BY <2>2 DEF k2, thread_list_remove
  <1>6. CASE Node(m) = Node(l)
    <2>1. ASSUME NEW u \in Members(k, m) PROVE u \in Threads /\ u # t /\ u # p /\ u # s
      <3>1. u # NULL /\ u \in Threads /\ u \notin Members(k, l)
        BY <1>6, MemberAt, MembersThreads DEF Apart
      <3> QED
        BY <1>2, <3>1
    <2>2. ASSUME NEW u \in Members(k, m)
          PROVE  k2.next[Node(m)][u] = k.next[Node(m)][u] /\ k2.prev[Node(m)][u] = k.prev[Node(m)][u]
      BY <1>3, <1>6, <2>1
    <2>3. Untouched(k, k2, m)
      BY <1>4, <2>2, UntouchedIf
    <2> QED
      BY <2>3 DEF k2, thread_list_remove
  <1> QED
    BY <1>5, <1>6

-----------------------------------------------------------------------------
(* What loops over the lists rely on *)

\* What the loops over a sound list find: its end, its last thread, no assertion fails.
LEMMA SoundWalk ==
    ASSUME NEW k \in LinkTables, NEW l \in Lists, Path(k, l)
    PROVE  /\ Ends(k, l)
           /\ BackLinked(k, l)
           /\ \A t \in Members(k, l) : RemoveAsserts(k, l, t)
           /\ k.head[l] = NULL <=> Members(k, l) = {}
           /\ k.head[l] # NULL => k.head[l] \in Members(k, l) /\ LastOf(k, l) \in Members(k, l)
  <1> DEFINE w == Walk(k, l)
  <1>1. Ends(k, l)
    BY WalkEnds DEF Ends
  <1>2. BackLinked(k, l)
    <2> SUFFICES ASSUME NEW t \in Members(k, l), k.next[Node(l)][t] # NULL
                 PROVE  k.prev[Node(l)][k.next[Node(l)][t]] = t
      BY DEF BackLinked
    <2>1. PICK i \in Places : w[i] = t /\ i + 1 \in Places /\ i + 1 # 0 /\ (i + 1) - 1 = i /\ w[i + 1] = k.next[Node(l)][t]
      BY MemberPlace
    <2>2. k.prev[Node(l)][w[i + 1]] = w[(i + 1) - 1]
      BY <2>1 DEF Path
    <2> QED
      BY <2>1, <2>2
  <1>3. ASSUME NEW t \in Members(k, l) PROVE RemoveAsserts(k, l, t)
    BY MemberPlace DEF RemoveAsserts
  <1>4. w[0] = k.head[l] /\ 0 \in Places
    BY WalkStep
  <1>5. k.head[l] # NULL => k.head[l] \in Members(k, l)
    BY <1>4, MemberAt
  <1>6. ASSUME NEW t \in Members(k, l) PROVE k.head[l] # NULL
    <2>1. PICK i \in Places : w[i] = t /\ t # NULL
      BY MemberAt
    <2>2. 0 <= i
      BY CountThreads DEF Places
    <2> QED
      BY <1>4, <2>1, <2>2, WalkStaysNull
  <1>7. ASSUME k.head[l] # NULL PROVE LastOf(k, l) \in Members(k, l)
    <2> DEFINE E == {i \in Places : w[i] = NULL}
    <2>1. Cardinality(Threads) \in E
      BY WalkEnds
    <2>2. E \subseteq Nat
      BY CountThreads DEF Places
    <2>3. PICK e \in E : \A y \in E : e <= y
      <3> HIDE DEF E
      <3> QED
        BY <2>1, <2>2, LeastOf
    <2>4. e \in Places \ {0} /\ w[e] = NULL
      BY <1>4, <1>7, <2>3
    <2>5. e - 1 \in Places /\ w[e] = (IF w[e - 1] = NULL THEN NULL ELSE k.next[Node(l)][w[e - 1]])
      BY <2>4, WalkStep
    <2>6. w[e - 1] # NULL
      <3>1. ~(e <= e - 1)
        BY <2>4, CountThreads DEF Places
      <3>2. e - 1 \notin E
        BY <2>3, <3>1
      <3> QED
        BY <2>5, <3>2
    <2>7. w[e - 1] \in Members(k, l) /\ k.next[Node(l)][w[e - 1]] = NULL
      BY <2>4, <2>5, <2>6, MemberAt
    <2> QED
      BY <2>7 DEF LastOf
  <1> QED
    BY <1>1, <1>2, <1>3, <1>5, <1>6, <1>7

\* The other nodes of all threads keep their pointers.
LEMMA OtherNode ==
    ASSUME NEW k \in LinkTables, NEW l \in Lists, NEW t \in Threads, NEW m \in Lists, Node(m) # Node(l)
    PROVE  /\ Untouched(k, thread_list_add(k, l, t), m)
           /\ thread_list_add(k, l, t).next[Node(m)] = k.next[Node(m)]
           /\ thread_list_add(k, l, t).prev[Node(m)] = k.prev[Node(m)]
           /\ thread_list_remove(k, l, t) \in LinkTables
           /\ Untouched(k, thread_list_remove(k, l, t), m)
           /\ thread_list_remove(k, l, t).next[Node(m)] = k.next[Node(m)]
           /\ thread_list_remove(k, l, t).prev[Node(m)] = k.prev[Node(m)]
  <1> DEFINE p == k.prev[Node(l)][t]
             s == k.next[Node(l)][t]
             k2 == Unlink(k, l, t, p, s)
             k3 == thread_list_add(k, l, t)
  <1>1. Node(m) \in Nodes /\ Node(l) \in Nodes /\ m # l
    BY NodeOfList
  <1>2. p \in Addr /\ s \in Addr
    BY Pointers
  <1>3. /\ k2.head = IF p = NULL THEN [k.head EXCEPT ![l] = s] ELSE k.head
        /\ k2.next[Node(m)] = k.next[Node(m)] /\ k2.prev[Node(m)] = k.prev[Node(m)]
    BY <1>1, <1>2, UnlinkPointers
  <1>4. k2 \in LinkTables
    BY <1>2, UnlinkTyped
  <1>5. k2.head[m] = k.head[m]
    BY <1>1, <1>3 DEF LinkTables
  <1> HIDE DEF k2
  <1>6. Untouched(k, k2, m)
    BY <1>3, <1>5, UntouchedIf
  <1>7. Untouched(k, k3, m)
    BY <1>1, AddUntouched
  <1>8. k3.next[Node(m)] = k.next[Node(m)] /\ k3.prev[Node(m)] = k.prev[Node(m)]
    BY <1>1 DEF thread_list_add, LinkTables
  <1> QED
    BY <1>3, <1>4, <1>6, <1>7, <1>8 DEF k2, thread_list_remove

\* No removal leaves a list as it was, whatever stands before its head meanwhile.
LEMMA RemoveChanges ==
    ASSUME NEW k \in LinkTables, NEW l \in Lists, NEW t \in Members(k, l), Path(k, l),
           NEW u \in Members(k, l), u # t
    PROVE  Walk(thread_list_remove(k, l, t), l) # Walk(k, l)
  <1> DEFINE w == Walk(k, l)
             p == k.prev[Node(l)][t]
             s == k.next[Node(l)][t]
             k2 == Unlink(k, l, t, p, s)
  <1>1. t \in Threads /\ t # NULL /\ u # NULL
    BY MembersThreads, MemberAt
  <1>2. p \in Addr /\ s \in Addr
    BY <1>1, Pointers
  <1>3. /\ k2.head = IF p = NULL THEN [k.head EXCEPT ![l] = s] ELSE k.head
        /\ \A x \in Threads :
           /\ k2.next[Node(l)][x] = IF x = t THEN NULL ELSE IF x = p THEN s ELSE k.next[Node(l)][x]
           /\ k2.prev[Node(l)][x] = IF x = t THEN NULL ELSE IF x = s THEN p ELSE k.prev[Node(l)][x]
    BY <1>1, <1>2, UnlinkPointers
  <1> HIDE DEF k2
  <1>4. ASSUME Walk(k2, l) = w PROVE FALSE
    <2>1. PICK m \in Places : /\ w[m] = t
                              /\ m + 1 \in Places /\ m + 1 # 0 /\ (m + 1) - 1 = m
                              /\ w[m + 1] = s
                              /\ m # 0 => m - 1 \in Places /\ p = w[m - 1] /\ w[m - 1] # NULL
      BY MemberPlace
    <2>2. \A i \in Places \ {0} : w[i] = IF w[i - 1] = NULL THEN NULL ELSE k2.next[Node(l)][w[i - 1]]
      <3>1. \A i \in Places \ {0} :
               Walk(k2, l)[i] = IF Walk(k2, l)[i - 1] = NULL THEN NULL ELSE k2.next[Node(l)][Walk(k2, l)[i - 1]]
        BY WalkStep
      <3> QED
        BY <1>4, <3>1
    <2>3. s = NULL
      BY <1>1, <1>3, <2>1, <2>2
    <2>4. CASE m = 0
      <3>1. PICK i \in Places : w[i] = u
        BY MemberAt
      <3>2. i # 0
        BY <2>1, <2>4, <3>1
      <3>3. m + 1 <= i
        BY <2>4, <3>2, CountThreads DEF Places
      <3>4. w[i] = NULL
        BY <2>1, <2>3, <3>3, WalkStaysNull
      <3> QED
        BY <1>1, <3>1, <3>4
    <2>5. CASE m # 0
      <3>1. p # t
        <4>1. m - 1 # m
          BY CountThreads DEF Places
        <4> QED
          BY <2>1, <2>5, <4>1 DEF Path
      <3>2. p \in Threads
        BY <1>2, <2>1, <2>5 DEF Addr
      <3>3. k2.next[Node(l)][p] = s
        BY <1>3, <3>1, <3>2
      <3>4. w[m] = s
        BY <2>1, <2>2, <2>5, <3>3
      <3> QED
        BY <1>1, <2>1, <2>3, <3>4
    <2> QED
      BY <2>4, <2>5
  <1> QED
    BY <1>4 DEF k2, thread_list_remove

\* A list with another head is another list.
LEMMA HeadChanges ==
    ASSUME NEW k, NEW l, NEW k2, Walk(k2, l) = Walk(k, l)
    PROVE  k2.head[l] = k.head[l]
  BY WalkStep

-----------------------------------------------------------------------------
(* The timer interrupt *)

\* What the interrupt finds when no list is torn; st is the status of the threads,
\* with what the running thread has just made of its own.
IrqReady(st) ==
    /\ links \in LinkTables
    /\ \A l \in Lists : Path(links, l) /\ (Storing(l) = {} => First(links, l, NULL))
    /\ {Idle, Main} \subseteq Members(links, "all")
    /\ Members(links, "zombie") \subseteq Members(links, "all")
    /\ \A t, u \in Members(links, "zombie") : t = u
    /\ \A t \in Members(links, "zombie") : st[t] = "Zombie" /\ t \notin {Idle, me}
    /\ \A t \in Members(links, "ready") : st[t] = "Ready" /\ t \notin {Idle, me}
    /\ me \in Threads
    /\ st[me] \in {"Running", "Zombie", "Blocked"}
    /\ me = Idle => st[me] = "Running"
    /\ me # Idle => st[Idle] = "Ready"
    /\ Storing("zombie") = {}
    /\ Adding("ready") # {} => st[me] = "Running" /\ me # Idle

\* Threads that are not dead keep their pointers in the nodes of list l.
Kept(l, k2) ==
    \A t \in Threads \ Members(links, "zombie") :
        /\ k2.next[Node(l)][t] = links.next[Node(l)][t]
        /\ k2.prev[Node(l)][t] = links.prev[Node(l)][t]

\* What clean_zombies() makes of the lists. In the middle of an insertion into the
\* list of all threads, cleaning a thread changes that list.
Cleaned(k1) ==
    /\ k1 \in LinkTables
    /\ Untouched(links, k1, "ready")
    /\ Kept("ready", k1)
    /\ Path(k1, "zombie") /\ Members(k1, "zombie") = {} /\ First(k1, "zombie", NULL)
    /\ Members(links, "zombie") = {} => k1 = links
    /\ Members(links, "zombie") # {} => Walk(k1, "all") # Walk(links, "all")
    /\ Storing("all") = {} => /\ Path(k1, "all")
                              /\ Members(k1, "all") = Members(links, "all") \ Members(links, "zombie")
                              /\ First(k1, "all", NULL)

\* The three lists and the nodes they use.
LEMMA ListNames ==
    /\ "all" \in Lists /\ "ready" \in Lists /\ "zombie" \in Lists
    /\ Node("all") = "all" /\ Node("ready") = "local" /\ Node("zombie") = "local"
    /\ \A l \in Lists : l = "all" \/ l = "ready" \/ l = "zombie"
    /\ Nodes = {"all", "local"}
  BY DEF Lists, Node, Nodes

\* An empty list is sound.
LEMMA EmptyUnless ==
    ASSUME NEW k, NEW l, Members(k, l) = {}
    PROVE  Path(k, l) /\ \A b : First(k, l, b)
  <1>1. \A i \in Places : Walk(k, l)[i] = NULL
    BY MemberAt
  <1>2. k.head[l] = NULL
    BY <1>1, WalkStep
  <1> QED
    BY <1>1, <1>2 DEF Path, First

\* clean_zombies() leaves no dead thread behind, and none of its assertions fails.
LEMMA CleanZombies ==
    ASSUME NEW st, IrqReady(st)
    PROVE  Cleaned(clean_zombies(links)) /\ CleanAsserts(links, st)
  <1> DEFINE Z == Members(links, "zombie")
  <1>1. /\ links \in LinkTables
        /\ \A l \in Lists : Path(links, l) /\ (Storing(l) = {} => First(links, l, NULL))
        /\ Storing("zombie") = {}
    BY DEF IrqReady
  <1>2. /\ \A z \in Z : st[z] = "Zombie" /\ z # Idle /\ z # me
        /\ \A t, u \in Z : t = u
        /\ Z \subseteq Members(links, "all")
    BY DEF IrqReady
  <1>3. CleanAsserts(links, st)
    <2>1. \A z \in Z : RemoveAsserts(links, "zombie", z)
      BY <1>1, ListNames, SoundWalk
    <2>2. \A z \in Members(links, "all") : RemoveAsserts(links, "all", z)
      BY <1>1, ListNames, SoundWalk
    <2> QED
      BY <1>2, <2>1, <2>2 DEF CleanAsserts
  <1>4. Reaped(links) = Z
    BY <1>2 DEF Reaped
  <1>5. CASE Z = {}
    <2>1. clean_zombies(links) = links
      BY <1>4, <1>5, CleanNone
    <2>2. \A l \in Lists : Untouched(links, links, l) /\ Kept(l, links)
      BY DEF Untouched, Kept
    <2>3. Cleaned(links)
      BY <1>1, <1>5, <2>2, ListNames DEF Cleaned
    <2> QED
      BY <1>3, <2>1, <2>3
  <1>6. CASE Z # {}
    <2>1. PICK z \in Z : Z = {z}
      BY <1>2, <1>6
    <2> DEFINE k0 == thread_list_remove(links, "zombie", z)
               k1 == thread_list_remove(k0, "all", z)
    <2>2. clean_zombies(links) = k1
      BY <1>4, <2>1, CleanOne DEF Clean
    <2>3. Path(links, "zombie") /\ First(links, "zombie", NULL) /\ "zombie" \in Lists /\ "all" \in Lists /\ "ready" \in Lists
      BY <1>1, ListNames
    <2>4. z \in Members(links, "zombie") /\ z \in Members(links, "all") /\ z \in Threads
      BY <1>1, <1>2, <2>3, MembersThreads
    <2>5. k0 \in LinkTables /\ Removed(links, "zombie", z, k0)
      BY <1>1, <2>3, <2>4, RemoveIsRemoved
    <2>6. Apart(links, "zombie", "ready")
      <3>1. Members(links, "zombie") \cap Members(links, "ready") = {}
        BY DEF IrqReady
      <3> QED
        BY <3>1 DEF Apart
    <2>7. Untouched(links, k0, "ready")
      BY <1>1, <2>3, <2>4, <2>6, RemoveUntouched
    <2>8. Members(k0, "zombie") = {}
      <3>1. Members(k0, "zombie") = Members(links, "zombie") \ {z}
        BY <1>1, <2>3, <2>4, <2>5, RemovePath
      <3> QED
        BY <2>1, <3>1
    <2>9. Untouched(links, k0, "all") /\ k0.next["all"] = links.next["all"] /\ k0.prev["all"] = links.prev["all"]
      BY <1>1, <2>3, <2>4, ListNames, OtherNode
    <2>10. /\ k1 \in LinkTables
           /\ Untouched(k0, k1, "ready") /\ Untouched(k0, k1, "zombie")
           /\ k1.next["local"] = k0.next["local"] /\ k1.prev["local"] = k0.prev["local"]
      <3>0. Node("ready") # Node("all") /\ Node("zombie") # Node("all")
        BY ListNames
      <3> HIDE DEF k0
      <3>1. /\ k1 \in LinkTables /\ Untouched(k0, k1, "ready")
            /\ k1.next[Node("ready")] = k0.next[Node("ready")] /\ k1.prev[Node("ready")] = k0.prev[Node("ready")]
        BY <2>3, <2>4, <2>5, <3>0, OtherNode
      <3>2. Untouched(k0, k1, "zombie")
        BY <2>3, <2>4, <2>5, <3>0, OtherNode
      <3> QED
        BY <3>1, <3>2, ListNames
    <2>11. Kept("ready", k1)
      <3> DEFINE p == links.prev["local"][z]
                 s == links.next["local"][z]
      <3>1. /\ p # NULL => p \in Z
            /\ s # NULL => s \in Z
            /\ p \in Addr /\ s \in Addr
        BY <1>1, <2>3, <2>4, ListNames, Neighbours
      <3>2. /\ k0.head = IF p = NULL THEN [links.head EXCEPT !["zombie"] = s] ELSE links.head
            /\ \A u \in Threads :
                  /\ k0.next["local"][u] = IF u = z THEN NULL ELSE IF u = p THEN s ELSE links.next["local"][u]
                  /\ k0.prev["local"][u] = IF u = z THEN NULL ELSE IF u = s THEN p ELSE links.prev["local"][u]
        <4>1. k0 = Unlink(links, "zombie", z, p, s)
          BY ListNames DEF thread_list_remove
        <4> HIDE DEF k0, p, s
        <4>2. /\ Unlink(links, "zombie", z, p, s).head = IF p = NULL THEN [links.head EXCEPT !["zombie"] = s] ELSE links.head
              /\ \A u \in Threads :
                    /\ Unlink(links, "zombie", z, p, s).next[Node("zombie")][u] =
                          IF u = z THEN NULL ELSE IF u = p THEN s ELSE links.next[Node("zombie")][u]
                    /\ Unlink(links, "zombie", z, p, s).prev[Node("zombie")][u] =
                          IF u = z THEN NULL ELSE IF u = s THEN p ELSE links.prev[Node("zombie")][u]
          BY <1>1, <2>3, <2>4, <3>1, UnlinkPointers
        <4> QED
          BY <4>1, <4>2, ListNames
      <3>3. \A u \in Threads \ Z : u # z /\ u # p /\ u # s
        <4>1. NULL \notin Threads
          BY CreateAssumption
        <4> QED
          BY <2>1, <3>1, <4>1
      <3> HIDE DEF k0, k1, p, s
      <3>4. \A u \in Threads \ Z : /\ k0.next["local"][u] = links.next["local"][u]
                                   /\ k0.prev["local"][u] = links.prev["local"][u]
        BY <3>2, <3>3
      <3> QED
        BY <2>10, <3>4, ListNames DEF Kept
    <2>12. Path(k0, "all") /\ Members(k0, "all") = Members(links, "all") /\ Walk(k0, "all") = Walk(links, "all")
      BY <1>1, <2>3, <2>9 DEF Untouched
    <2>13. Walk(k1, "all") # Walk(links, "all")
      <3>1. PICK u \in Members(links, "all") : u # z
        <4>1. Idle # Main /\ Idle \in Members(links, "all") /\ Main \in Members(links, "all")
          BY CreateAssumption DEF IrqReady
        <4> QED
          BY <4>1
      <3> HIDE DEF k0
      <3>2. Walk(k1, "all") # Walk(k0, "all")
        BY <2>3, <2>4, <2>5, <2>12, <3>1, RemoveChanges
      <3> QED
        BY <2>12, <3>2
    <2>14. ASSUME Storing("all") = {}
           PROVE  /\ Path(k1, "all")
                  /\ Members(k1, "all") = Members(links, "all") \ Z
                  /\ First(k1, "all", NULL)
      <3>1. First(k0, "all", NULL)
        BY <1>1, <2>3, <2>9, <2>14 DEF Untouched
      <3> HIDE DEF k0
      <3>2. Removed(k0, "all", z, k1)
        BY <2>3, <2>4, <2>5, <2>12, <3>1, RemoveIsRemoved
      <3> HIDE DEF k1
      <3>3. Path(k1, "all") /\ Members(k1, "all") = Members(k0, "all") \ {z} /\ First(k1, "all", NULL)
        BY <2>3, <2>4, <2>5, <2>12, <3>1, <3>2, RemovePath
      <3> QED
        BY <2>1, <2>12, <3>3
    <2> HIDE DEF k0, k1
    <2>15. Untouched(links, k1, "ready")
      BY <2>7, <2>10, UntouchedTransitive
    <2>16. Members(k1, "zombie") = {}
      BY <2>8, <2>10 DEF Untouched
    <2>17. Path(k1, "zombie") /\ First(k1, "zombie", NULL)
      BY <2>16, EmptyUnless
    <2>18. Cleaned(k1)
      BY <1>6, <2>10, <2>11, <2>13, <2>14, <2>15, <2>16, <2>17 DEF Cleaned
    <2> QED
      BY <1>3, <2>2, <2>18
  <1> QED
    BY <1>5, <1>6

\* The ready list and the zombie list are sound, and link the threads in R and in Z.
LocalOK(k, R, Z) ==
    /\ k \in LinkTables
    /\ Path(k, "ready") /\ First(k, "ready", NULL) /\ Members(k, "ready") = R
    /\ Path(k, "zombie") /\ First(k, "zombie", NULL) /\ Members(k, "zombie") = Z
    /\ R \cap Z = {}

\* The list of all threads is left alone.
AllSame(k, k2) ==
    Untouched(k, k2, "all") /\ k2.next["all"] = k.next["all"] /\ k2.prev["all"] = k.prev["all"]

\* So it is when nothing changes.
LEMMA AllSameReflexive == \A k : AllSame(k, k)
  BY DEF AllSame, Untouched

\* Who has made the old head point back is inserting.
LEMMA StoringAdds == \A l : Storing(l) \subseteq Adding(l)
  BY DEF Storing, Adding

\* So it is by two steps that leave it alone.
LEMMA AllSameTransitive ==
    ASSUME NEW k, NEW k2, NEW k3, AllSame(k, k2), AllSame(k2, k3)
    PROVE  AllSame(k, k3)
  BY UntouchedTransitive DEF AllSame

\* A thread is put into the ready list or into the list of dead threads.
LEMMA AddLocal ==
    ASSUME NEW k, NEW R, NEW Z, LocalOK(k, R, Z), NEW t \in Threads, t \notin R \cup Z
    PROVE  /\ LocalOK(thread_list_add(k, "ready", t), R \cup {t}, Z)
           /\ LocalOK(thread_list_add(k, "zombie", t), R, Z \cup {t})
           /\ AllSame(k, thread_list_add(k, "ready", t))
           /\ AllSame(k, thread_list_add(k, "zombie", t))
  <1>1. /\ k \in LinkTables
        /\ Path(k, "ready") /\ First(k, "ready", NULL) /\ Members(k, "ready") = R
        /\ Path(k, "zombie") /\ First(k, "zombie", NULL) /\ Members(k, "zombie") = Z
        /\ R \cap Z = {}
    BY DEF LocalOK
  <1>2. Apart(k, "ready", "zombie") /\ Apart(k, "zombie", "ready")
    BY <1>1 DEF Apart
  <1>3. /\ "all" \in Lists /\ "ready" \in Lists /\ "zombie" \in Lists /\ "ready" # "zombie"
        /\ Node("all") # Node("ready") /\ Node("all") # Node("zombie") /\ Node("all") = "all"
    BY ListNames
  <1>4. LocalOK(thread_list_add(k, "ready", t), R \cup {t}, Z)
    <2> DEFINE k2 == thread_list_add(k, "ready", t)
    <2>1. k2 \in LinkTables /\ Pushed(k, "ready", t, k2)
      BY <1>1, <1>3, AddIsPushed
    <2>2. Untouched(k, k2, "zombie")
      BY <1>1, <1>2, <1>3, AddUntouched
    <2> HIDE DEF k2
    <2>3. Members(k2, "ready") = R \cup {t} /\ Path(k2, "ready") /\ First(k2, "ready", NULL)
      BY <1>1, <1>3, <2>1, PushPath
    <2>4. Members(k2, "zombie") = Z /\ Path(k2, "zombie") /\ First(k2, "zombie", NULL)
      BY <1>1, <2>2 DEF Untouched
    <2>5. LocalOK(k2, R \cup {t}, Z)
      BY <1>1, <2>1, <2>3, <2>4 DEF LocalOK
    <2> QED
      BY <2>5 DEF k2
  <1>5. LocalOK(thread_list_add(k, "zombie", t), R, Z \cup {t})
    <2> DEFINE k2 == thread_list_add(k, "zombie", t)
    <2>1. k2 \in LinkTables /\ Pushed(k, "zombie", t, k2)
      BY <1>1, <1>3, AddIsPushed
    <2>2. Untouched(k, k2, "ready")
      BY <1>1, <1>2, <1>3, AddUntouched
    <2> HIDE DEF k2
    <2>3. Members(k2, "zombie") = Z \cup {t} /\ Path(k2, "zombie") /\ First(k2, "zombie", NULL)
      BY <1>1, <1>3, <2>1, PushPath
    <2>4. Members(k2, "ready") = R /\ Path(k2, "ready") /\ First(k2, "ready", NULL)
      BY <1>1, <2>2 DEF Untouched
    <2>5. LocalOK(k2, R, Z \cup {t})
      BY <1>1, <2>1, <2>3, <2>4 DEF LocalOK
    <2> QED
      BY <2>5 DEF k2
  <1>6. AllSame(k, thread_list_add(k, "ready", t)) /\ AllSame(k, thread_list_add(k, "zombie", t))
    BY <1>1, <1>3, OtherNode DEF AllSame
  <1> QED
    BY <1>4, <1>5, <1>6

\* A thread is taken out of the ready list.
LEMMA TakeLocal ==
    ASSUME NEW k, NEW R, NEW Z, LocalOK(k, R, Z), NEW t \in R
    PROVE  /\ LocalOK(thread_list_remove(k, "ready", t), R \ {t}, Z)
           /\ AllSame(k, thread_list_remove(k, "ready", t))
  <1>1. /\ k \in LinkTables
        /\ Path(k, "ready") /\ First(k, "ready", NULL) /\ Members(k, "ready") = R
        /\ Path(k, "zombie") /\ First(k, "zombie", NULL) /\ Members(k, "zombie") = Z
        /\ R \cap Z = {}
    BY DEF LocalOK
  <1>2. Apart(k, "ready", "zombie")
    BY <1>1 DEF Apart
  <1>3. /\ "all" \in Lists /\ "ready" \in Lists /\ "zombie" \in Lists /\ "ready" # "zombie"
        /\ Node("all") # Node("ready") /\ Node("all") = "all"
        /\ t \in Members(k, "ready") /\ t \in Threads
    BY <1>1, ListNames, MembersThreads
  <1> DEFINE k2 == thread_list_remove(k, "ready", t)
  <1>4. k2 \in LinkTables /\ Removed(k, "ready", t, k2)
    BY <1>1, <1>3, RemoveIsRemoved
  <1>5. Untouched(k, k2, "zombie")
    BY <1>1, <1>2, <1>3, RemoveUntouched
  <1>6. AllSame(k, k2)
    BY <1>1, <1>3, OtherNode DEF AllSame
  <1> HIDE DEF k2
  <1>7. Members(k2, "ready") = R \ {t} /\ Path(k2, "ready") /\ First(k2, "ready", NULL)
    BY <1>1, <1>3, <1>4, RemovePath
  <1>8. Members(k2, "zombie") = Z /\ Path(k2, "zombie") /\ First(k2, "zombie", NULL)
    BY <1>1, <1>5 DEF Untouched
  <1>9. LocalOK(k2, R \ {t}, Z)
    BY <1>1, <1>4, <1>7, <1>8 DEF LocalOK
  <1> QED
    BY <1>6, <1>9 DEF k2

\* The running thread goes on because nobody else is ready.
Stays(st, k1) ==
    /\ current_thread' = me
    /\ st[me] = "Running" /\ Members(links, "ready") = {}
    /\ links' = k1

\* Another thread runs: one that was ready, or the idle thread. The old one is
\* where its status says.
Switches(st, k1) ==
    /\ current_thread' # me
    /\ \/ current_thread' \in Members(links, "ready")
       \/ current_thread' = Idle /\ Members(links, "ready") = {} /\ st[me] # "Running"
    /\ Storing("ready") = {}
    /\ LocalOK(links', (Members(links, "ready") \ {current_thread'})
                          \cup (IF st[me] = "Running" /\ me # Idle THEN {me} ELSE {}),
                       IF st[me] = "Zombie" THEN {me} ELSE {})
    /\ AllSame(k1, links')

\* The statuses that schedule() sets.
NewStatus(st) ==
    status' = [t \in Threads |->
                 IF t = current_thread' THEN "Running"
                 ELSE IF t = me /\ (me = Idle \/ st[me] = "Running") THEN "Ready" ELSE st[t]]

\* schedule() puts the old thread into the list that its status names.
LEMMA ParkedOK ==
    ASSUME NEW st, IrqReady(st), NEW k, NEW R, LocalOK(k, R, {}), me \notin R, NEW n, n # me
    PROVE  /\ LocalOK(Parked(k, st, n), R \cup (IF st[me] = "Running" /\ me # Idle THEN {me} ELSE {}),
                                        IF st[me] = "Zombie" THEN {me} ELSE {})
           /\ AllSame(k, Parked(k, st, n))
  <1> DEFINE k2 == Parked(k, st, n)
  <1>1. me \in Threads /\ st[me] \in {"Running", "Zombie", "Blocked"} /\ (me = Idle => st[me] = "Running")
    BY DEF IrqReady
  <1>2. CASE st[me] = "Running" /\ me # Idle
    <2>1. k2 = thread_list_add(k, "ready", me)
      BY <1>2 DEF Parked
    <2>2. LocalOK(thread_list_add(k, "ready", me), R \cup {me}, {}) /\ AllSame(k, thread_list_add(k, "ready", me))
      <3>1. me \notin R \cup {}
        OBVIOUS
      <3> QED
        BY <1>1, <3>1, AddLocal
    <2> QED
      BY <1>2, <2>1, <2>2
  <1>3. CASE st[me] = "Zombie"
    <2>1. k2 = thread_list_add(k, "zombie", me)
      BY <1>1, <1>3 DEF Parked
    <2>2. LocalOK(thread_list_add(k, "zombie", me), R, {} \cup {me}) /\ AllSame(k, thread_list_add(k, "zombie", me))
      <3>1. me \notin R \cup {}
        OBVIOUS
      <3> QED
        BY <1>1, <3>1, AddLocal
    <2>3. R \cup {} = R /\ {} \cup {me} = {me}
      OBVIOUS
    <2> QED
      BY <1>3, <2>1, <2>2, <2>3
  <1>4. CASE ~(st[me] = "Running" /\ me # Idle) /\ st[me] # "Zombie"
    <2>1. k2 = k
      BY <1>1, <1>4 DEF Parked
    <2>2. R \cup {} = R
      OBVIOUS
    <2> QED
      BY <1>4, <2>1, <2>2, AllSameReflexive
  <1> QED
    BY <1>2, <1>3, <1>4

\* scheduler_next() after clean_zombies(), unless it tears a list.
LEMMA SchedulerNext ==
    ASSUME NEW st, IrqReady(st), NEW k1, Cleaned(k1), scheduler_next(k1, st),
           Storing("ready") # {} => Walk(links', "ready") = Walk(links, "ready")
    PROVE  /\ halted' = "no"
           /\ NewStatus(st)
           /\ Stays(st, k1) \/ Switches(st, k1)
  <1> DEFINE R == Members(links, "ready")
  <1>1. /\ links \in LinkTables
        /\ \A l \in Lists : Path(links, l) /\ (Storing(l) = {} => First(links, l, NULL))
        /\ me \in Threads
        /\ st[me] \in {"Running", "Zombie", "Blocked"}
        /\ me = Idle => st[me] = "Running"
        /\ me # Idle => st[Idle] = "Ready"
        /\ Storing("ready") # {} => st[me] = "Running" /\ me # Idle
        /\ \A t \in R : st[t] = "Ready" /\ t # Idle /\ t # me
    BY StoringAdds DEF IrqReady
  <1>2. /\ k1 \in LinkTables /\ Untouched(links, k1, "ready")
        /\ Path(k1, "zombie") /\ Members(k1, "zombie") = {} /\ First(k1, "zombie", NULL)
    BY DEF Cleaned
  <1>3. "ready" \in Lists /\ "all" \in Lists /\ Node("all") # Node("ready")
    BY ListNames
  <1>4. Path(k1, "ready") /\ Members(k1, "ready") = R /\ Walk(k1, "ready") = Walk(links, "ready")
    BY <1>1, <1>2, <1>3 DEF Untouched
  <1>5. /\ Ends(k1, "ready") /\ BackLinked(k1, "ready")
        /\ \A t \in R : RemoveAsserts(k1, "ready", t)
        /\ k1.head["ready"] = NULL <=> R = {}
        /\ k1.head["ready"] # NULL => LastOf(k1, "ready") \in R
    BY <1>2, <1>3, <1>4, SoundWalk
  <1>6. schedule(find_ready_thread(k1, st), Taken(k1), st)
    BY <1>5 DEF scheduler_next
  <1>7. ASSUME Storing("ready") = {} PROVE LocalOK(k1, R, {})
    BY <1>1, <1>2, <1>3, <1>4, <1>7 DEF LocalOK, Untouched
  <1>8. CASE R = {}
    <2>1. Taken(k1) = k1 /\ find_ready_thread(k1, st) = IF st[me] = "Running" THEN me ELSE Idle
      BY <1>5, <1>8 DEF Taken, find_ready_thread
    <2>2. CASE st[me] = "Running"
      <3>1. schedule(me, k1, st)
        BY <1>6, <2>1, <2>2
      <3> QED
        BY <1>8, <2>2, <3>1 DEF schedule, Parked, Stays, NewStatus
    <2>3. CASE st[me] # "Running"
      <3>1. schedule(Idle, k1, st)
        BY <1>6, <2>1, <2>3
      <3>2. Idle # me /\ st[Idle] = "Ready" /\ st[me] # "Ready" /\ Storing("ready") = {}
        BY <1>1, <2>3
      <3>3. /\ current_thread' = Idle /\ links' = Parked(k1, st, Idle) /\ NewStatus(st) /\ halted' = "no"
        BY <3>1, <3>2 DEF schedule, NewStatus
      <3>4. LocalOK(k1, {}, {})
        BY <1>7, <1>8, <3>2
      <3>5. /\ LocalOK(links', {} \cup (IF st[me] = "Running" /\ me # Idle THEN {me} ELSE {}),
                               IF st[me] = "Zombie" THEN {me} ELSE {})
            /\ AllSame(k1, links')
        <4>1. me \notin {}
          OBVIOUS
        <4> QED
          BY <3>2, <3>3, <3>4, <4>1, ParkedOK
      <3>6. R \ {Idle} = {}
        BY <1>8
      <3> QED
        BY <1>8, <2>3, <3>2, <3>3, <3>5, <3>6 DEF Switches
    <2> QED
      BY <2>2, <2>3
  <1>9. CASE R # {}
    <2>1. PICK n : n = LastOf(k1, "ready")
      OBVIOUS
    <2>2. n \in R /\ n # me /\ st[n] = "Ready" /\ n \in Threads
      BY <1>1, <1>3, <1>5, <1>9, <2>1, MembersThreads
    <2> DEFINE k2 == thread_list_remove(k1, "ready", n)
    <2>3. Taken(k1) = k2 /\ find_ready_thread(k1, st) = n
      BY <1>5, <1>9, <2>1 DEF Taken, find_ready_thread
    <2>4. schedule(n, k2, st)
      BY <1>6, <2>3
    <2>5. ~(me # Idle /\ st[me] = "Ready")
      BY <1>1
    <2> HIDE DEF k2
    <2>6. current_thread' = n /\ links' = Parked(k2, st, n) /\ NewStatus(st) /\ halted' = "no"
      BY <2>2, <2>4, <2>5 DEF schedule, NewStatus
    <2>7. ASSUME Storing("ready") # {} PROVE FALSE
      <3>1. st[me] = "Running" /\ me # Idle
        BY <1>1, <2>7
      <3>2. links' = thread_list_add(k2, "ready", me)
        BY <2>2, <2>6, <3>1 DEF Parked
      <3>3. k2 \in LinkTables
        BY <1>2, <1>3, <2>2, OtherNode DEF k2
      <3>4. links'.head["ready"] = me
        <4>1. thread_list_add(k2, "ready", me).head = [k2.head EXCEPT !["ready"] = me]
          BY <1>1, <1>3, <3>3, AddIsPushed
        <4> QED
          BY <1>3, <3>2, <3>3, <4>1 DEF LinkTables
      <3>5. links'.head["ready"] = links.head["ready"]
        BY <2>7, HeadChanges
      <3>6. links.head["ready"] # NULL => links.head["ready"] \in R
        BY <1>1, <1>3, SoundWalk
      <3> QED
        BY <1>1, <3>4, <3>5, <3>6, CreateAssumption
    <2>8. LocalOK(k2, R \ {n}, {}) /\ AllSame(k1, k2)
      BY <1>7, <2>2, <2>7, TakeLocal DEF k2
    <2>9. /\ LocalOK(links', (R \ {n}) \cup (IF st[me] = "Running" /\ me # Idle THEN {me} ELSE {}),
                             IF st[me] = "Zombie" THEN {me} ELSE {})
          /\ AllSame(k2, links')
      <3>1. me \notin R \ {n}
        BY <1>1
      <3> QED
        BY <2>2, <2>6, <2>8, <3>1, ParkedOK
    <2>10. AllSame(k1, links')
      BY <2>8, <2>9, AllSameTransitive
    <2> QED
      BY <2>2, <2>6, <2>7, <2>9, <2>10 DEF Switches
  <1> QED
    BY <1>8, <1>9

\* What an interrupt does that tears no list.
Switched(st) ==
    /\ halted' = "no" /\ NewStatus(st)
    /\ allocated' = allocated \ Members(links, "zombie")
    /\ links' \in LinkTables /\ overlap' = Disturb(links')
    /\ \/ current_thread' = me /\ st[me] = "Running"
       \/ current_thread' # me /\ current_thread' \in Members(links, "ready")
       \/ current_thread' # me /\ current_thread' = Idle /\ st[me] # "Running"
    /\ Members(links', "ready") =
          (Members(links, "ready") \ {current_thread'})
             \cup (IF st[me] = "Running" /\ me # Idle /\ current_thread' # me THEN {me} ELSE {})
    /\ Members(links', "zombie") = IF st[me] = "Zombie" THEN {me} ELSE {}
    /\ Members(links', "all") = Members(links, "all") \ Members(links, "zombie")
    /\ \A l \in Lists :
          /\ Path(links', l)
          /\ Storing(l) = {} => First(links', l, NULL)
          /\ Storing(l) # {} => Untouched(links, links', l) /\ Kept(l, links')
          /\ Adding(l) # {} => Walk(links', l) = Walk(links, l)
    /\ Adding("ready") # {} => current_thread' = me

\* An interrupt that tears no list changes none in which an insertion is under way.
LEMMA NotTorn ==
    ASSUME OverlapOK, NEW k, Disturb(k).torn = {}
    PROVE  \A l \in Lists : Adding(l) # {} => Walk(k, l) = Walk(links, l)
  <1>1. Disturb(k).torn = overlap.torn \cup {l \in Lists : Changed(k, l) /\ Adding(l) # {}}
    BY DEF Disturb, OverlapOK
  <1> QED
    BY <1>1 DEF Changed

\* isr_IRQ0() on sound lists: unless it tears one, no assertion fails, the dead threads
\* are freed, and another thread runs or the same one goes on.
LEMMA Interrupt ==
    ASSUME NEW st, IrqReady(st), OverlapOK, isr_IRQ0(links, st), overlap'.torn = {}
    PROVE  Switched(st)
  <1> DEFINE R == Members(links, "ready")
             Z == Members(links, "zombie")
  <1>1. PICK k1 : k1 = clean_zombies(links)
    OBVIOUS
  <1>2. Cleaned(k1) /\ CleanAsserts(links, st)
    BY <1>1, CleanZombies
  <1>3. /\ links \in LinkTables
        /\ \A l \in Lists : Path(links, l) /\ (Storing(l) = {} => First(links, l, NULL))
        /\ Storing("zombie") = {}
        /\ \A z \in Z : z # me
        /\ me \notin R
        /\ me \in Threads
        /\ Adding("ready") # {} => st[me] = "Running" /\ me # Idle
    BY DEF IrqReady
  <1>4. Ends(links, "zombie")
    BY <1>3, ListNames, SoundWalk
  <1>5. Reaped(links) = Z
    BY <1>3 DEF Reaped
  <1>6. /\ scheduler_next(k1, st)
        /\ allocated' = allocated \ Z
        /\ overlap' = Disturb(links')
    BY <1>1, <1>2, <1>4, <1>5 DEF isr_IRQ0
  <1>7. \A l \in Lists : Adding(l) # {} => Walk(links', l) = Walk(links, l)
    BY <1>6, NotTorn
  <1>8. \A l : Storing(l) # {} => Adding(l) # {}
    BY StoringAdds
  <1>9. halted' = "no" /\ NewStatus(st) /\ (Stays(st, k1) \/ Switches(st, k1))
    <2>1. Storing("ready") # {} => Walk(links', "ready") = Walk(links, "ready")
      BY <1>7, <1>8, ListNames
    <2> QED
      BY <1>2, <1>6, <2>1, SchedulerNext
  <1>10. AllSame(k1, links') /\ links' \in LinkTables
    BY <1>2, <1>9, AllSameReflexive DEF Stays, Switches, LocalOK, Cleaned
  \* The list of all threads.
  <1>11. /\ Members(links', "all") = Members(links, "all") \ Z
         /\ Path(links', "all")
         /\ Storing("all") = {} => First(links', "all", NULL)
         /\ Storing("all") # {} => Untouched(links, links', "all") /\ Kept("all", links')
    <2>1. CASE Storing("all") = {}
      <3>1. /\ Path(k1, "all") /\ First(k1, "all", NULL)
            /\ Members(k1, "all") = Members(links, "all") \ Z
        BY <1>2, <2>1 DEF Cleaned
      <3> QED
        BY <1>10, <2>1, <3>1 DEF AllSame, Untouched
    <2>2. CASE Storing("all") # {}
      <3>1. Walk(links', "all") = Walk(links, "all")
        BY <1>7, <1>8, <2>2, ListNames
      <3>2. Z = {} /\ k1 = links
        <4>1. Walk(k1, "all") = Walk(links', "all")
          BY <1>10 DEF AllSame, Untouched
        <4> QED
          BY <1>2, <3>1, <4>1 DEF Cleaned
      <3>3. Untouched(links, links', "all") /\ Kept("all", links')
        BY <1>10, <3>2, ListNames DEF AllSame, Kept
      <3> QED
        BY <1>3, <2>2, <3>2, <3>3, ListNames DEF Untouched
    <2> QED
      BY <2>1, <2>2
  <1>12. CASE Stays(st, k1)
    <2>1. current_thread' = me /\ st[me] = "Running" /\ R = {} /\ links' = k1
      BY <1>12 DEF Stays
    <2>2. /\ Untouched(links, links', "ready") /\ Kept("ready", links')
          /\ Path(links', "zombie") /\ Members(links', "zombie") = {} /\ First(links', "zombie", NULL)
      BY <1>2, <2>1 DEF Cleaned
    <2>3. /\ Members(links', "ready") = {} /\ Path(links', "ready")
          /\ Storing("ready") = {} => First(links', "ready", NULL)
      BY <1>3, <2>1, <2>2, ListNames DEF Untouched
    <2>4. Members(links', "ready") = (R \ {current_thread'})
                 \cup (IF st[me] = "Running" /\ me # Idle /\ current_thread' # me THEN {me} ELSE {})
      BY <2>1, <2>3
    <2>5. \A l \in Lists :
             /\ Path(links', l)
             /\ Storing(l) = {} => First(links', l, NULL)
             /\ Storing(l) # {} => Untouched(links, links', l) /\ Kept(l, links')
      BY <1>3, <1>11, <2>2, <2>3, ListNames
    <2> QED
      BY <1>6, <1>7, <1>9, <1>10, <1>11, <2>1, <2>2, <2>4, <2>5 DEF Switched
  <1>13. CASE Switches(st, k1)
    <2> DEFINE nx == current_thread'
               Q == (R \ {nx}) \cup (IF st[me] = "Running" /\ me # Idle THEN {me} ELSE {})
    <2>1. /\ nx # me
          /\ nx \in R \/ (nx = Idle /\ R = {} /\ st[me] # "Running")
          /\ Storing("ready") = {}
          /\ LocalOK(links', Q, IF st[me] = "Zombie" THEN {me} ELSE {})
      BY <1>13 DEF Switches
    <2>2. /\ Path(links', "ready") /\ First(links', "ready", NULL) /\ Members(links', "ready") = Q
          /\ Path(links', "zombie") /\ First(links', "zombie", NULL)
          /\ Members(links', "zombie") = IF st[me] = "Zombie" THEN {me} ELSE {}
      BY <2>1 DEF LocalOK
    <2>3. ASSUME Adding("ready") # {} PROVE FALSE
      <3>1. Members(links', "ready") = R
        BY <1>7, <2>3, ListNames DEF Members
      <3>2. me \in Q
        BY <1>3, <2>3
      <3> QED
        BY <1>3, <2>2, <3>1, <3>2
    <2>4. Members(links', "ready") = (R \ {nx})
                 \cup (IF st[me] = "Running" /\ me # Idle /\ nx # me THEN {me} ELSE {})
      BY <2>1, <2>2
    <2>5. \A l \in Lists :
             /\ Path(links', l)
             /\ Storing(l) = {} => First(links', l, NULL)
             /\ Storing(l) # {} => Untouched(links, links', l) /\ Kept(l, links')
      BY <1>3, <1>11, <2>1, <2>2, ListNames
    <2> QED
      BY <1>6, <1>7, <1>9, <1>10, <1>11, <2>1, <2>2, <2>3, <2>4, <2>5 DEF Switched
  <1> QED
    BY <1>9, <1>12, <1>13

-----------------------------------------------------------------------------
(* What the invariant says of the running thread and of new threads *)

\* Unlinked, by the threads that make others.
LEMMA UnlinkedIs ==
    ASSUME NEW l, NEW t, t \in Threads
    PROVE  t \in Unlinked(l) <=> \E v \in allocated : Fresh(v, l) /\ call[v].new = t
  BY DEF Unlinked, Fresh

\* A new thread goes into the list of all threads first.
LEMMA FreshReady ==
    ASSUME NEW v, NEW l \in Lists, Fresh(v, l), FrameOK(call[v]), call[v] \in Frames, call[v].new # NULL
    PROVE  Fresh(v, "ready") /\ (l = "all" => Fresh(v, "zombie"))
  BY DEF Fresh, FrameOK, Lists, Frames, Points, Addr

\* A thread that is not yet in some list is not in the ready list either.
LEMMA UnlinkedReady ==
    ASSUME CallsOK, allocated \subseteq Threads, NEW t \in Threads, NEW l \in Lists, t \in Unlinked(l)
    PROVE  t \in Unlinked("ready") /\ (l = "all" => t \in Unlinked("zombie"))
  <1>1. PICK v \in allocated : Fresh(v, l) /\ call[v].new = t
    BY UnlinkedIs
  <1>2. FrameOK(call[v]) /\ call[v] \in Frames /\ call[v].new # NULL
    BY <1>1, CreateAssumption DEF CallsOK
  <1>3. Fresh(v, "ready") /\ (l = "all" => Fresh(v, "zombie"))
    BY <1>1, <1>2, FreshReady
  <1> QED
    BY <1>1, <1>3, UnlinkedIs

\* A new thread is not one of those that run, and no thread makes two of it.
LEMMA UnlinkedNew ==
    ASSUME CallsOK, FreshOK, allocated \subseteq Threads, NEW t \in Threads, NEW l \in Lists, t \in Unlinked(l)
    PROVE  /\ t \notin {Idle, Main} /\ call[t].at = "client"
           /\ status[t] \in {"Ready", "Zombie"}
  <1>1. t \in Unlinked("ready")
    BY UnlinkedReady
  <1>2. PICK v \in allocated : Fresh(v, "ready") /\ call[v].new = t
    BY <1>1, UnlinkedIs
  <1>3. NewOK(v) /\ t # NULL
    BY CreateAssumption DEF FreshOK
  <1> QED
    BY <1>2, <1>3 DEF NewOK

\* What the invariant says of the running thread: it waits for no mutex, has those that
\* its call needs, and is in the lists.
LEMMA RunningThread ==
    ASSUME Inv
    PROVE  /\ me \in allocated /\ me \in Threads /\ me # NULL
           /\ status[me] = "Running"
           /\ \A t \in Threads : t # me => status[t] \in {"Ready", "Blocked", "Zombie"}
           /\ FrameOK(call[me]) /\ call[me] \in Frames
           /\ \A m \in Nodes : me \notin Range(mutex[m].waiters)
           /\ call[me].at \in Busy => mutex[Guard(call[me].list)].owner = me
           /\ \A l \in Lists : me \notin Unlinked(l)
  <1>1. /\ me \in allocated /\ me \in Threads /\ status[me] = "Running" /\ allocated \subseteq Threads
        /\ \A t \in Threads : t # me => status[t] \in {"Ready", "Blocked", "Zombie"}
    BY DEF Inv, StatusOK, me
  <1>2. me # NULL
    BY <1>1, CreateAssumption
  <1>3. FrameOK(call[me]) /\ call[me] \in Frames
    BY <1>1 DEF Inv, CallsOK
  <1>4. \A m \in Nodes : me \notin Range(mutex[m].waiters)
    BY <1>1 DEF Inv, MutexOK
  <1>5. ASSUME call[me].at \in Busy PROVE mutex[Guard(call[me].list)].owner = me
    <2>1. call[me].list \in Lists
      BY <1>3, <1>5 DEF FrameOK, Busy, Lists
    <2>2. Guard(call[me].list) \in Nodes
      BY <2>1, NodeOfList DEF Guard
    <2>3. me = mutex[Guard(call[me].list)].owner \/ me \in Range(mutex[Guard(call[me].list)].waiters)
      BY <1>1, <1>5 DEF Inv, MutexOK
    <2> QED
      BY <1>4, <2>2, <2>3
  <1>6. ASSUME NEW l \in Lists, me \in Unlinked(l) PROVE FALSE
    <2>1. status[me] \in {"Ready", "Zombie"}
      BY <1>1, <1>6, UnlinkedNew DEF Inv, StatusOK
    <2> QED
      BY <1>1, <2>1
  <1> QED
    BY <1>1, <1>2, <1>3, <1>4, <1>5, <1>6

\* The lists that the invariant describes.
LEMMA MembersAre ==
    ASSUME Inv, NEW l \in Lists
    PROVE  /\ Path(links, l) /\ links \in LinkTables
           /\ Members(links, l) = Belongs(l) /\ Members(links, l) \subseteq Threads
           /\ Storing(l) = {} => First(links, l, NULL)
  BY MembersThreads DEF Inv, ListsOK

\* The statuses with which the interrupt is entered.
Entered(st) ==
    \/ st = status
    \/ /\ me # Idle /\ call[me].at \in {"client", "lock"}
       /\ \/ st = [status EXCEPT ![me] = "Zombie"] /\ me # Main
          \/ st = [status EXCEPT ![me] = "Blocked"]

\* What the interrupt may find as the status of the running thread.
LEMMA EnteredStatus ==
    ASSUME Inv, NEW st, Entered(st)
    PROVE  /\ st \in [Threads -> {"Ready", "Running", "Blocked", "Zombie"}]
           /\ \A t \in Threads : t # me => st[t] = status[t]
           /\ st[me] \in {"Running", "Zombie", "Blocked"}
           /\ st[me] # "Running" => me # Idle /\ call[me].at \in {"client", "lock"}
           /\ st[me] = "Zombie" => me # Main
  BY RunningThread DEF Entered, Inv, StatusOK

\* The invariant gives the interrupt the lists it relies on, at every point of a call.
LEMMA ReadyForInterrupt ==
    ASSUME Inv, NEW st, Entered(st)
    PROVE  IrqReady(st)
  <1>1. /\ me \in allocated /\ me \in Threads /\ status[me] = "Running"
        /\ \A t \in Threads : t # me => status[t] \in {"Ready", "Blocked", "Zombie"}
        /\ FrameOK(call[me])
    BY RunningThread
  <1>2. /\ \A t \in Threads : t # me => st[t] = status[t]
        /\ st[me] \in {"Running", "Zombie", "Blocked"}
        /\ st[me] # "Running" => me # Idle /\ call[me].at \in {"client", "lock"}
    BY EnteredStatus
  <1>3. /\ {Idle, Main} \subseteq allocated /\ allocated \subseteq Threads
        /\ status[Idle] \in {"Ready", "Running"}
        /\ \A t \in Threads : status[t] = "Running" <=> t = me
    BY DEF Inv, StatusOK, me
  <1>4. \A l \in Lists : /\ Path(links, l) /\ links \in LinkTables
                         /\ Members(links, l) = Belongs(l) /\ Members(links, l) \subseteq Threads
                         /\ Storing(l) = {} => First(links, l, NULL)
    BY MembersAre
  <1>5. {Idle, Main} \subseteq Members(links, "all")
    <2>1. Idle \notin Unlinked("all") /\ Main \notin Unlinked("all")
      BY <1>3, UnlinkedNew, ListNames DEF Inv, StatusOK
    <2> QED
      BY <1>3, <1>4, <2>1, ListNames DEF Belongs
  <1>6. Members(links, "zombie") \subseteq Members(links, "all")
    <2>1. \A t \in Threads : t \in Unlinked("all") => t \in Unlinked("zombie")
      BY UnlinkedReady, ListNames DEF Inv, StatusOK
    <2> QED
      BY <1>3, <1>4, <2>1, ListNames DEF Belongs
  <1>7. \A t, u \in Members(links, "zombie") : t = u
    BY DEF Inv, ListsOK
  <1>8. \A t \in Members(links, "zombie") : st[t] = "Zombie" /\ t \notin {Idle, me}
    BY <1>1, <1>2, <1>3, <1>4, ListNames DEF Belongs
  <1>9. \A t \in Members(links, "ready") : st[t] = "Ready" /\ t \notin {Idle, me}
    BY <1>1, <1>2, <1>3, <1>4, ListNames DEF Belongs
  <1>10. me # Idle => st[Idle] = "Ready"
    BY <1>2, <1>3
  <1>11. Storing("zombie") = {}
    BY DEF Storing, Inv, CallsOK, FrameOK
  <1>12. ASSUME Adding("ready") # {} PROVE st[me] = "Running" /\ me # Idle
    <2>1. PICK v \in Adding("ready") : TRUE
      BY <1>12
    <2>2. v = me
      BY <2>1, ListNames DEF Inv, AddOK, me
    <2>3. call[me].at \in {"back", "link", "head"}
      BY <2>1, <2>2 DEF Adding
    <2> QED
      BY <1>2, <2>3 DEF Inv, CallsOK
  <1> QED
    BY <1>1, <1>2, <1>4, <1>5, <1>6, <1>7, <1>8, <1>9, <1>10, <1>11, <1>12, ListNames DEF IrqReady

-----------------------------------------------------------------------------
(* Steps that leave the new threads where they are *)

\* The running thread goes on to c without making a thread or linking one.
Moves(c) ==
    /\ me # Idle /\ c \in Frames /\ FrameOK(c)
    /\ c.new = call[me].new
    /\ c.at # "tid" /\ call[me].at # "tid"
    /\ c.new # NULL => c.list = call[me].list /\ c.at # "unlock" /\ call[me].at # "unlock"
    /\ call' = [call EXCEPT ![me] = c]

\* Every thread makes the thread that it made before, and has come as far with it.
KeepsNew ==
    /\ call' \in [Threads -> Frames] /\ call'[Idle].at = "client"
    /\ \A v \in Threads : v # me => call'[v] = call[v]
    /\ \A v \in Threads :
          /\ call'[v].new = call[v].new
          /\ call[v].new # NULL => \A l \in Lists : Fresh(v, l)' <=> Fresh(v, l)
          /\ call'[v].at = "tid" <=> call[v].at = "tid"
          /\ call[v].at = "tid" => call'[v] = call[v]
    /\ \A v \in allocated : FrameOK(call'[v])

\* A step that changes no call leaves the new threads alone.
LEMMA SameKeepsNew ==
    ASSUME Inv, call' = call
    PROVE  KeepsNew
  BY DEF Inv, CallsOK, StatusOK, KeepsNew, Fresh

\* So does a step that goes on in a call without linking a thread.
LEMMA MovesKeepsNew ==
    ASSUME Inv, NEW c, Moves(c)
    PROVE  KeepsNew
  <1>1. /\ me \in Threads /\ Idle \in Threads /\ allocated \subseteq Threads
        /\ call \in [Threads -> Frames] /\ call[Idle].at = "client"
        /\ \A v \in allocated : FrameOK(call[v])
    BY RunningThread, CreateAssumption DEF Inv, CallsOK, StatusOK
  <1>2. /\ me # Idle /\ c \in Frames /\ FrameOK(c)
        /\ c.new = call[me].new
        /\ c.at # "tid" /\ call[me].at # "tid"
        /\ c.new # NULL => c.list = call[me].list /\ c.at # "unlock" /\ call[me].at # "unlock"
        /\ call' = [call EXCEPT ![me] = c]
    BY DEF Moves
  <1>3. /\ call' \in [Threads -> Frames]
        /\ call'[me] = c
        /\ \A v \in Threads : v # me => call'[v] = call[v]
    BY <1>1, <1>2
  <1>4. ASSUME NEW v \in Threads
        PROVE  /\ call'[v].new = call[v].new
               /\ call[v].new # NULL => \A l \in Lists : Fresh(v, l)' <=> Fresh(v, l)
               /\ call'[v].at = "tid" <=> call[v].at = "tid"
               /\ call[v].at = "tid" => call'[v] = call[v]
    <2>1. CASE v = me
      BY <1>2, <1>3, <2>1 DEF Fresh
    <2>2. CASE v # me
      BY <1>3, <2>2 DEF Fresh
    <2> QED
      BY <2>1, <2>2
  <1>5. call'[Idle].at = "client"
    BY <1>1, <1>2, <1>3
  <1>6. \A v \in allocated : FrameOK(call'[v])
    BY <1>1, <1>2, <1>3
  <1> QED
    BY <1>3, <1>4, <1>5, <1>6 DEF KeepsNew

\* The threads that disappear had no call under way.
OnlyIdleFreed ==
    /\ allocated' \subseteq allocated
    /\ \A z \in allocated \ allocated' : /\ call[z].at = "client" /\ call[z].new = NULL
                                         /\ \A l \in Lists : z \notin Unlinked(l)

\* The threads that are yet to be linked are the same.
LEMMA UnlinkedKept ==
    ASSUME Inv, KeepsNew, OnlyIdleFreed, NEW l \in Lists, NEW t \in Threads
    PROVE  t \in Unlinked(l)' <=> t \in Unlinked(l)
  <1>0. allocated \subseteq Threads /\ t # NULL
    BY CreateAssumption DEF Inv, StatusOK
  <1>1. t \in Unlinked(l)' <=> \E v \in allocated' : Fresh(v, l)' /\ call'[v].new = t
    BY DEF Unlinked, Fresh
  <1>2. t \in Unlinked(l) <=> \E v \in allocated : Fresh(v, l) /\ call[v].new = t
    BY UnlinkedIs
  <1>3. ASSUME NEW v \in allocated', Fresh(v, l)', call'[v].new = t
        PROVE  \E u \in allocated : Fresh(u, l) /\ call[u].new = t
    BY <1>0, <1>3 DEF KeepsNew, OnlyIdleFreed
  <1>4. ASSUME NEW v \in allocated, Fresh(v, l), call[v].new = t
        PROVE  \E u \in allocated' : Fresh(u, l)' /\ call'[u].new = t
    BY <1>0, <1>4 DEF KeepsNew, OnlyIdleFreed
  <1> QED
    BY <1>1, <1>2, <1>3, <1>4

\* Nobody else makes them, or uses them.
LEMMA FreshKept ==
    ASSUME Inv, KeepsNew, OnlyIdleFreed,
           \A t \in Threads : t \in Unlinked("ready") => status'[t] = status[t]
    PROVE  FreshOK'
  <1>0. /\ allocated \subseteq Threads /\ NULL \notin Threads /\ "ready" \in Lists
        /\ call \in [Threads -> Frames]
        /\ allocated' \subseteq allocated
    BY CreateAssumption, ListNames DEF Inv, StatusOK, CallsOK, OnlyIdleFreed
  <1>1. \A v \in allocated : NewOK(v)
    BY DEF Inv, FreshOK
  <1>2. ASSUME NEW v \in allocated' PROVE NewOK(v)'
    <2> SUFFICES ASSUME call'[v].new # NULL, Fresh(v, "ready")'
                 PROVE  /\ call'[v].new \in allocated' \ {Idle, Main}
                        /\ call'[call'[v].new].at = "client"
                        /\ status'[call'[v].new] \in {"Ready", "Zombie"}
                        /\ call'[v].at # "tid" => status'[call'[v].new] = "Ready"
      BY DEF NewOK
    <2>1. PICK n : n = call[v].new
      OBVIOUS
    <2>2. v \in allocated /\ v \in Threads /\ n # NULL /\ call'[v].new = n /\ Fresh(v, "ready")
      BY <1>0, <2>1 DEF KeepsNew
    <2>3. /\ n \in allocated \ {Idle, Main} /\ call[n].at = "client"
          /\ status[n] \in {"Ready", "Zombie"}
          /\ call[v].at # "tid" => status[n] = "Ready"
      BY <1>1, <2>1, <2>2 DEF NewOK
    <2>4. n \in Threads /\ n \in Unlinked("ready")
      BY <1>0, <2>1, <2>2, <2>3, UnlinkedIs
    <2>5. n \in allocated'
      BY <1>0, <2>3, <2>4 DEF OnlyIdleFreed
    <2>6. status'[n] = status[n]
      BY <2>4
    <2>7. n # me
      BY <1>0, <2>4, RunningThread
    <2>8. call'[n].at = "client" /\ (call'[v].at = "tid" <=> call[v].at = "tid")
      BY <2>2, <2>3, <2>4, <2>7 DEF KeepsNew
    <2> QED
      BY <2>2, <2>3, <2>5, <2>6, <2>8
  <1>3. ASSUME NEW u \in allocated', NEW v \in allocated', call'[v].new # NULL, call'[u].new = call'[v].new,
               Fresh(u, "ready")', Fresh(v, "ready")'
        PROVE  u = v
    <2>1. /\ call[v].new # NULL /\ call[u].new = call[v].new
          /\ Fresh(u, "ready") /\ Fresh(v, "ready") /\ u \in allocated /\ v \in allocated
      BY <1>0, <1>3 DEF KeepsNew
    <2> QED
      BY <2>1 DEF Inv, FreshOK
  <1> QED
    BY <1>2, <1>3 DEF FreshOK

\* The numbers are the same.
LEMMA TidKept ==
    ASSUME Inv, KeepsNew, OnlyIdleFreed, tid' = tid, next_tid' = next_tid, overlap'.tid = overlap.tid
    PROVE  TidOK'
  <1>0. /\ allocated \subseteq Threads /\ allocated' \subseteq allocated
        /\ tid \in [Threads -> 0..MaxTid] /\ next_tid \in 2..(MaxTid + 1)
        /\ \A v \in allocated : call[v].at = "tid" => call[v].reg \in 2..MaxTid
        /\ \A v \in allocated' : /\ call'[v].at = "tid" <=> call[v].at = "tid"
                                 /\ call[v].at = "tid" => call'[v] = call[v]
        /\ \A v \in allocated : call[v].at = "tid" => v \in allocated'
    BY DEF Inv, StatusOK, TidOK, KeepsNew, OnlyIdleFreed
  <1>1. \A t \in Numbered' : t \in Numbered
    BY <1>0 DEF Numbered
  <1>2. \A v \in allocated' : call'[v].at = "tid" => call'[v].reg \in 2..MaxTid
    BY <1>0
  <1>3. ASSUME ~overlap'.tid
        PROVE  /\ \A v \in allocated' : call'[v].at = "tid" => call'[v].reg = next_tid'
               /\ \A u, v \in allocated' : call'[u].at = "tid" /\ call'[v].at = "tid" => u = v
               /\ \A t \in Numbered' : tid'[t] < next_tid'
               /\ \A t, u \in Numbered' : tid'[t] = tid'[u] => t = u
    <2>1. /\ \A v \in allocated : call[v].at = "tid" => call[v].reg = next_tid
          /\ \A u, v \in allocated : call[u].at = "tid" /\ call[v].at = "tid" => u = v
          /\ \A t \in Numbered : tid[t] < next_tid
          /\ \A t, u \in Numbered : tid[t] = tid[u] => t = u
      BY <1>3 DEF Inv, TidOK
    <2>2. \A v \in allocated' : call'[v].at = "tid" => call'[v].reg = next_tid'
      BY <1>0, <2>1
    <2>3. \A u, v \in allocated' : call'[u].at = "tid" /\ call'[v].at = "tid" => u = v
      BY <1>0, <2>1
    <2> QED
      BY <1>1, <2>1, <2>2, <2>3
  <1> QED
    BY <1>0, <1>2, <1>3 DEF TidOK

-----------------------------------------------------------------------------
(* The invariant after an interrupt that tears no list *)

\* The threads after an interrupt: dead ones are freed, which are in no call and known to
\* nobody; all but the old and the new running thread keep their status.
LEMMA SwitchFacts ==
    ASSUME Inv, NEW st, Entered(st), Switched(st)
    PROVE  /\ OnlyIdleFreed
           /\ me \in allocated' /\ current_thread' \in allocated' /\ current_thread' \in Threads
           /\ status' \in [Threads -> {"Ready", "Running", "Blocked", "Zombie"}]
           /\ \A t \in Threads : t # me /\ t # current_thread' => status'[t] = status[t]
           /\ status'[current_thread'] = "Running"
           /\ current_thread' = me => st[me] = "Running"
           /\ current_thread' # me =>
                 /\ status[current_thread'] = "Ready"
                 /\ status'[me] = IF st[me] = "Running" THEN "Ready" ELSE st[me]
           /\ \A l \in Lists : current_thread' \notin Unlinked(l)
           /\ \A t \in Threads : t \in Unlinked("ready") => status'[t] = status[t] /\ t \in allocated'
           /\ \A t \in allocated : t \in allocated' <=> t \notin Belongs("zombie")
           /\ \A t \in allocated : call[t].at # "client" => t \in allocated'
  <1> DEFINE n == current_thread'
             A2 == allocated'
  <1>1. /\ me \in allocated /\ me \in Threads /\ status[me] = "Running"
        /\ \A t \in Threads : t # me => status[t] \in {"Ready", "Blocked", "Zombie"}
        /\ \A l \in Lists : me \notin Unlinked(l)
    BY RunningThread
  <1>2. /\ {Idle, Main} \subseteq allocated /\ allocated \subseteq Threads
        /\ status[Idle] \in {"Ready", "Running"}
        /\ \A t \in allocated : status[t] = "Zombie" => call[t].at = "client"
        /\ \A t \in allocated : call[t].at = "client" => call[t].new = NULL
    BY DEF Inv, StatusOK, CallsOK, FrameOK
  <1>3. /\ st \in [Threads -> {"Ready", "Running", "Blocked", "Zombie"}]
        /\ \A t \in Threads : t # me => st[t] = status[t]
        /\ st[me] \in {"Running", "Zombie", "Blocked"}
        /\ st[me] # "Running" => me # Idle
    BY EnteredStatus
  <1>4. /\ Members(links, "zombie") = Belongs("zombie") /\ Members(links, "ready") = Belongs("ready")
        /\ "ready" \in Lists /\ "zombie" \in Lists /\ "all" \in Lists
    BY MembersAre, ListNames
  <1>5. allocated' = allocated \ Belongs("zombie") /\ NewStatus(st)
    BY <1>4 DEF Switched
  <1>6. \A z \in Belongs("zombie") : z \in allocated /\ status[z] = "Zombie" /\ z \notin Unlinked("zombie")
    BY DEF Belongs
  <1>7. \A t \in Belongs("ready") : t \in allocated /\ status[t] = "Ready" /\ t # Idle /\ t \notin Unlinked("ready")
    BY DEF Belongs
  <1>8. OnlyIdleFreed
    <2>1. ASSUME NEW z \in Belongs("zombie"), NEW l \in Lists PROVE z \notin Unlinked(l)
      <3>1. z \in Threads /\ z \notin Unlinked("zombie") /\ status[z] = "Zombie"
        BY <1>2, <1>6
      <3>2. ASSUME z \in Unlinked("ready") PROVE FALSE
        <4>1. PICK v \in allocated : Fresh(v, "ready") /\ call[v].new = z
          BY <3>1, <3>2, UnlinkedIs
        <4>2. z # NULL
          BY <3>1, CreateAssumption
        <4>3. call[v].at = "tid"
          BY <3>1, <4>1, <4>2 DEF Inv, FreshOK, NewOK
        <4>4. Fresh(v, "zombie")
          BY <4>3 DEF Fresh
        <4> QED
          BY <3>1, <4>1, <4>4, UnlinkedIs
      <3>3. z \in Unlinked(l) => z \in Unlinked("ready")
        BY <1>2, <3>1, UnlinkedReady DEF Inv
      <3> QED
        BY <3>2, <3>3
    <2>2. \A z \in Belongs("zombie") : call[z].at = "client" /\ call[z].new = NULL
      BY <1>2, <1>6
    <2> QED
      BY <1>5, <2>1, <2>2 DEF OnlyIdleFreed
  <1>9. \/ n = me /\ st[me] = "Running"
        \/ n # me /\ n \in Belongs("ready")
        \/ n # me /\ n = Idle
    BY <1>4 DEF Switched
  <1>10. n \in allocated /\ n \in Threads /\ (n # me => status[n] = "Ready")
    BY <1>1, <1>2, <1>7, <1>9
  <1>11. me \in A2 /\ n \in A2
    BY <1>1, <1>5, <1>6, <1>10
  <1>12. ASSUME NEW l \in Lists PROVE n \notin Unlinked(l)
    <2>1. n \in Unlinked(l) => n \in Unlinked("ready") /\ n # Idle
      BY <1>2, <1>10, UnlinkedReady, UnlinkedNew DEF Inv
    <2> QED
      BY <1>1, <1>7, <1>9, <2>1
  <1>13. /\ status' \in [Threads -> {"Ready", "Running", "Blocked", "Zombie"}]
         /\ \A t \in Threads : t # me /\ t # n => status'[t] = status[t]
         /\ status'[n] = "Running"
         /\ n # me => status'[me] = IF st[me] = "Running" THEN "Ready" ELSE st[me]
    <2> HIDE DEF n
    <2>1. \A t \in Threads : status'[t] = IF t = n THEN "Running"
                                          ELSE IF t = me /\ (me = Idle \/ st[me] = "Running") THEN "Ready" ELSE st[t]
      BY <1>5 DEF NewStatus, n
    <2>2. \A t \in Threads : st[t] \in {"Ready", "Running", "Blocked", "Zombie"}
      BY <1>3
    <2>3. \A t \in Threads : status'[t] \in {"Ready", "Running", "Blocked", "Zombie"}
      BY <2>1, <2>2
    <2>4. status' = [t \in Threads |-> status'[t]]
      BY <1>5 DEF NewStatus
    <2>5. status' \in [Threads -> {"Ready", "Running", "Blocked", "Zombie"}]
      BY <2>3, <2>4
    <2>6. \A t \in Threads : t # me /\ t # n => status'[t] = status[t]
      BY <1>3, <2>1
    <2>7. status'[n] = "Running" /\ (n # me => status'[me] = IF st[me] = "Running" THEN "Ready" ELSE st[me])
      BY <1>1, <1>3, <1>10, <2>1
    <2> QED
      BY <2>5, <2>6, <2>7
  <1>14. \A t \in Threads : t \in Unlinked("ready") => status'[t] = status[t] /\ t \in A2
    <2>1. ASSUME NEW t \in Threads, t \in Unlinked("ready") PROVE t \in allocated
      <3>1. PICK v \in allocated : Fresh(v, "ready") /\ call[v].new = t
        BY <2>1, UnlinkedIs
      <3>2. t # NULL
        BY CreateAssumption
      <3> QED
        BY <3>1, <3>2 DEF Inv, FreshOK, NewOK
    <2>2. \A t \in allocated \ A2 : t \notin Unlinked("ready")
      BY <1>4, <1>8 DEF OnlyIdleFreed
    <2> QED
      BY <1>1, <1>4, <1>12, <1>13, <2>1, <2>2
  <1>15. \A t \in allocated : call[t].at # "client" => t \in A2
    BY <1>2, <1>5, <1>6
  <1> QED
    BY <1>5, <1>8, <1>9, <1>10, <1>11, <1>12, <1>13, <1>14, <1>15

\* The interrupt makes one thread the running one.
LEMMA SwitchStatus ==
    ASSUME Inv, NEW st, Entered(st), Switched(st)
    PROVE  StatusOK'
  <1>1. /\ OnlyIdleFreed
        /\ me \in allocated' /\ current_thread' \in allocated' /\ current_thread' \in Threads
        /\ status' \in [Threads -> {"Ready", "Running", "Blocked", "Zombie"}]
        /\ \A t \in Threads : t # me /\ t # current_thread' => status'[t] = status[t]
        /\ status'[current_thread'] = "Running"
        /\ current_thread' # me => status'[me] = IF st[me] = "Running" THEN "Ready" ELSE st[me]
        /\ \A t \in allocated : t \in allocated' <=> t \notin Belongs("zombie")
    BY SwitchFacts
  <1>2. /\ {Idle, Main} \subseteq allocated /\ allocated \subseteq Threads
        /\ status[Idle] \in {"Ready", "Running"} /\ status[Main] # "Zombie"
        /\ \A t \in Threads : t # me => status[t] # "Running"
    BY DEF Inv, StatusOK, me
  <1>3. /\ st[me] \in {"Running", "Zombie", "Blocked"}
        /\ st[me] # "Running" => me # Idle
        /\ st[me] = "Zombie" => me # Main
    BY EnteredStatus
  <1>4. {Idle, Main} \subseteq allocated' /\ allocated' \subseteq Threads
    <2>1. Idle \notin Belongs("zombie") /\ Main \notin Belongs("zombie")
      BY <1>2 DEF Belongs
    <2> QED
      BY <1>1, <1>2, <2>1 DEF OnlyIdleFreed
  <1>5. \A t \in Threads : status'[t] = "Running" <=> t = current_thread'
    BY <1>1, <1>2, <1>3
  <1>6. status'[Idle] \in {"Ready", "Running"} /\ status'[Main] # "Zombie"
    <2>1. Idle \in Threads /\ Main \in Threads
      BY <1>2
    <2>2. CASE Idle = current_thread'
      BY <1>1, <1>2, <1>3, <2>1, <2>2
    <2>3. CASE Idle # current_thread'
      BY <1>1, <1>2, <1>3, <2>1, <2>3
    <2> QED
      BY <2>2, <2>3
  <1> QED
    BY <1>1, <1>4, <1>5, <1>6 DEF StatusOK

\* No dead thread is in a call after the interrupt.
LEMMA SwitchCalls ==
    ASSUME Inv, NEW st, Entered(st), Switched(st), KeepsNew,
           st[me] = "Zombie" => call'[me].at = "client"
    PROVE  CallsOK'
  <1>1. /\ allocated' \subseteq allocated /\ allocated \subseteq Threads
        /\ \A t \in Threads : t # me /\ t # current_thread' => status'[t] = status[t]
        /\ status'[current_thread'] = "Running" /\ current_thread' \in Threads
        /\ current_thread' # me => status'[me] = IF st[me] = "Running" THEN "Ready" ELSE st[me]
    BY SwitchFacts DEF OnlyIdleFreed, Inv, StatusOK
  <1>2. /\ call' \in [Threads -> Frames] /\ call'[Idle].at = "client"
        /\ \A v \in Threads : v # me => call'[v] = call[v]
        /\ \A v \in allocated : FrameOK(call'[v])
    BY DEF KeepsNew
  <1>3. ASSUME NEW v \in allocated', status'[v] = "Zombie" PROVE call'[v].at = "client"
    <2>1. v \in allocated /\ v \in Threads
      BY <1>1
    <2>2. CASE v = me
      BY <1>1, <1>3, <2>2
    <2>3. CASE v # me
      <3>1. status[v] = "Zombie"
        BY <1>1, <1>3, <2>1, <2>3
      <3> QED
        BY <1>2, <2>1, <2>3, <3>1 DEF Inv, CallsOK
    <2> QED
      BY <2>2, <2>3
  <1>4. \A v \in allocated' : FrameOK(call[v])' /\ (status'[v] = "Zombie" => call'[v].at = "client")
    BY <1>1, <1>2, <1>3 DEF FrameOK
  <1> QED
    BY <1>2, <1>4 DEF CallsOK

\* No call of a thread changes meanwhile, but that one may begin to wait for its mutex.
Enters ==
    \A v \in Threads : \/ call'[v] = call[v]
                       \/ call[v].at \in {"client", "lock"} /\ call'[v].at = "load"

\* Insertions and walks under way are the same after the interrupt.
LEMMA EntersKeeps ==
    ASSUME Inv, Enters, OnlyIdleFreed, \A t \in allocated : call[t].at # "client" => t \in allocated'
    PROVE  \A l \in Lists : /\ Storing(l)' = Storing(l)
                            /\ Adding(l)' = Adding(l)
                            /\ Walking(l)' = Walking(l)
                            /\ \A v \in Adding(l) \cup Walking(l) : call'[v] = call[v] /\ v \in allocated
  <1>1. allocated \subseteq Threads /\ allocated' \subseteq allocated
    BY DEF Inv, StatusOK, OnlyIdleFreed
  <1> DEFINE P == {"back", "link", "head", "walk"}
  <1>2. \A v \in allocated' : call'[v].at \in P => call'[v] = call[v]
    BY <1>1 DEF Enters
  <1>3. \A v \in allocated : call[v].at \in P => call'[v] = call[v] /\ v \in allocated'
    BY <1>1 DEF Enters
  <1> QED
    BY <1>1, <1>2, <1>3 DEF Storing, Adding, Walking

\* The lists link what they are for after the interrupt, with what clean_zombies(),
\* find_ready_thread() and schedule() moved.
LEMMA SwitchLists ==
    ASSUME Inv, NEW st, Entered(st), Switched(st), KeepsNew, Enters
    PROVE  ListsOK'
  <1> DEFINE n == current_thread'
  <1>1. /\ OnlyIdleFreed
        /\ me \in allocated' /\ n \in allocated' /\ n \in Threads
        /\ \A t \in Threads : t # me /\ t # n => status'[t] = status[t]
        /\ status'[n] = "Running"
        /\ n = me => st[me] = "Running"
        /\ n # me => /\ status[n] = "Ready"
                     /\ status'[me] = IF st[me] = "Running" THEN "Ready" ELSE st[me]
        /\ \A l \in Lists : n \notin Unlinked(l)
        /\ \A t \in allocated : t \in allocated' <=> t \notin Belongs("zombie")
        /\ \A t \in allocated : call[t].at # "client" => t \in allocated'
    BY SwitchFacts
  <1>2. /\ me \in allocated /\ me \in Threads /\ status[me] = "Running"
        /\ \A t \in Threads : t # me => status[t] \in {"Ready", "Blocked", "Zombie"}
        /\ \A l \in Lists : me \notin Unlinked(l)
    BY RunningThread
  <1>3. allocated' \subseteq allocated /\ allocated \subseteq Threads
    BY <1>1 DEF OnlyIdleFreed, Inv, StatusOK
  <1>4. \A l \in Lists : \A t \in Threads : t \in Unlinked(l)' <=> t \in Unlinked(l)
    BY <1>1, UnlinkedKept
  <1>5. \A l \in Lists : Members(links, l) = Belongs(l)
    BY MembersAre
  <1>6. \A l \in Lists : Storing(l)' = Storing(l)
    BY <1>1, EntersKeeps
  <1>7. /\ links' \in LinkTables
        /\ Members(links', "ready") =
             (Members(links, "ready") \ {n})
                \cup (IF st[me] = "Running" /\ me # Idle /\ n # me THEN {me} ELSE {})
        /\ Members(links', "zombie") = IF st[me] = "Zombie" THEN {me} ELSE {}
        /\ Members(links', "all") = Members(links, "all") \ Members(links, "zombie")
        /\ \A l \in Lists : Path(links', l) /\ (Storing(l) = {} => First(links', l, NULL))
    BY DEF Switched
  <1>8. st[me] \in {"Running", "Zombie", "Blocked"} /\ (st[me] # "Running" => me # Idle)
    BY EnteredStatus
  <1> HIDE DEF n
  <1>9. Members(links', "all") = Belongs("all")'
    <2>1. Members(links', "all") = Belongs("all") \ Belongs("zombie")
      BY <1>5, <1>7, ListNames
    <2>2. Belongs("all") = allocated \ Unlinked("all")
      BY DEF Belongs
    <2>3. Belongs("all")' = allocated' \ Unlinked("all")'
      BY DEF Belongs
    <2> QED
      BY <1>1, <1>3, <1>4, <2>1, <2>2, <2>3, ListNames
  <1>10. Members(links', "zombie") = Belongs("zombie")'
    <2>1. \A t : t \in Belongs("zombie")' <=> t \in allocated' /\ t \notin Unlinked("zombie")' /\ status'[t] = "Zombie"
      BY DEF Belongs
    <2>2. \A t : t \in Belongs("zombie") <=> t \in allocated /\ t \notin Unlinked("zombie") /\ status[t] = "Zombie"
      BY DEF Belongs
    <2>3. ASSUME NEW t \in Belongs("zombie")' PROVE t = me /\ st[me] = "Zombie"
      <3>1. t \in allocated' /\ t \in allocated /\ t \in Threads /\ t \notin Unlinked("zombie") /\ status'[t] = "Zombie"
        BY <1>3, <1>4, <2>1, ListNames
      <3>2. t # n
        BY <1>1, <3>1 DEF n
      <3>3. t = me
        BY <1>1, <2>2, <3>1, <3>2 DEF n
      <3> QED
        BY <1>1, <3>1, <3>2, <3>3 DEF n
    <2>4. ASSUME st[me] = "Zombie" PROVE me \in Belongs("zombie")'
      <3>1. n # me
        BY <1>1, <2>4 DEF n
      <3>2. status'[me] = "Zombie"
        BY <1>1, <2>4, <3>1 DEF n
      <3> QED
        BY <1>1, <1>2, <1>4, <2>1, <3>2, ListNames
    <2> QED
      BY <1>7, <2>3, <2>4
  <1>11. Members(links', "ready") = Belongs("ready")'
    <2>1. \A t : t \in Belongs("ready")' <=>
               t \in allocated' /\ t \notin Unlinked("ready")' /\ status'[t] = "Ready" /\ t # Idle
      BY DEF Belongs
    <2>2. \A t : t \in Belongs("ready") <=>
               t \in allocated /\ t \notin Unlinked("ready") /\ status[t] = "Ready" /\ t # Idle
      BY DEF Belongs
    <2>3. \A t : t \in Belongs("zombie") => status[t] = "Zombie"
      BY DEF Belongs
    <2>4. Members(links, "ready") = Belongs("ready")
      BY <1>5, ListNames
    <2>5. ASSUME NEW t \in Belongs("ready")' PROVE t \in Members(links', "ready")
      <3>1. t \in allocated' /\ t \in allocated /\ t \in Threads /\ t \notin Unlinked("ready") /\ status'[t] = "Ready" /\ t # Idle
        BY <1>3, <1>4, <2>1, ListNames
      <3>2. t # n
        BY <1>1, <3>1 DEF n
      <3>3. CASE t = me
        <4>1. st[me] = "Running"
          BY <1>1, <1>8, <3>1, <3>2, <3>3 DEF n
        <4> QED
          BY <1>7, <3>1, <3>2, <3>3, <4>1 DEF n
      <3>4. CASE t # me
        <4>1. t \in Belongs("ready")
          BY <1>1, <2>2, <3>1, <3>2, <3>4 DEF n
        <4> QED
          BY <1>7, <2>4, <3>2, <4>1 DEF n
      <3> QED
        BY <3>3, <3>4
    <2>6. ASSUME NEW t \in Members(links', "ready") PROVE t \in Belongs("ready")'
      <3>1. CASE t \in Belongs("ready") /\ t # n
        <4>1. t \in allocated /\ t \in Threads /\ t \notin Unlinked("ready") /\ status[t] = "Ready" /\ t # Idle
          BY <1>3, <2>2, <3>1
        <4>2. t # me /\ t \notin Belongs("zombie")
          BY <1>2, <2>3, <4>1
        <4>3. status'[t] = "Ready" /\ t \in allocated'
          BY <1>1, <3>1, <4>1, <4>2 DEF n
        <4> QED
          BY <1>4, <2>1, <4>1, <4>3, ListNames
      <3>2. CASE t = me /\ st[me] = "Running" /\ me # Idle /\ n # me
        <4>1. status'[me] = "Ready"
          BY <1>1, <3>2 DEF n
        <4> QED
          BY <1>1, <1>2, <1>4, <2>1, <3>2, <4>1, ListNames
      <3>3. \/ t \in Belongs("ready") /\ t # n
            \/ t = me /\ st[me] = "Running" /\ me # Idle /\ n # me
        BY <1>7, <2>4 DEF n
      <3> QED
        BY <3>1, <3>2, <3>3
    <2> QED
      BY <2>5, <2>6
  <1>12. \A t, u \in Members(links', "zombie") : t = u
    BY <1>7
  <1>13. \A l \in Lists : /\ Path(links', l) /\ Members(links', l) = Belongs(l)'
                          /\ Storing(l)' = {} => First(links', l, NULL)
    BY <1>6, <1>7, <1>9, <1>10, <1>11, ListNames
  <1>14. \A l \in Lists : (Path(links, l)' <=> Path(links', l)) /\ Members(links, l)' = Members(links', l)
                          /\ (First(links, l, NULL)' <=> First(links', l, NULL))
    BY DEF Path, Members, Walk, First, Node
  <1> QED
    BY <1>7, <1>12, <1>13, <1>14, ListNames DEF ListsOK

\* An insertion that the interrupt did not disturb can go on where it was.
LEMMA SwitchAdders ==
    ASSUME Inv, NEW st, Entered(st), Switched(st), KeepsNew, Enters
    PROVE  AddOK'
  <1> SUFFICES ASSUME NEW l \in Lists, NEW v \in Adding(l)'
               PROVE  /\ call'[v].reg = links'.head[l]
                      /\ call'[v].at # "back" => First(links', l, call'[v].new)
                      /\ call'[v].at = "head" => /\ links'.next[Node(l)][call'[v].new] = call'[v].reg
                                                 /\ links'.prev[Node(l)][call'[v].new] = NULL
                      /\ l = "ready" => v = current_thread'
    BY DEF AddOK, First, Node
  <1>1. OnlyIdleFreed /\ \A t \in allocated : call[t].at # "client" => t \in allocated'
    BY SwitchFacts
  <1>2. v \in Adding(l) /\ call'[v] = call[v] /\ v \in allocated
    BY <1>1, EntersKeeps
  <1>3. /\ call[v].reg = links.head[l]
        /\ call[v].at # "back" => First(links, l, call[v].new)
        /\ call[v].at = "head" => /\ links.next[Node(l)][call[v].new] = call[v].reg
                                  /\ links.prev[Node(l)][call[v].new] = NULL
        /\ l = "ready" => v = me
    BY <1>2 DEF Inv, AddOK, me
  <1>4. /\ Walk(links', l) = Walk(links, l)
        /\ Storing(l) # {} => Untouched(links, links', l) /\ Kept(l, links')
        /\ l = "ready" => current_thread' = me
    BY <1>2 DEF Switched
  <1>5. links'.head[l] = links.head[l]
    BY <1>4, HeadChanges
  <1>6. call[v].at # "back" => v \in Storing(l)
    BY <1>2 DEF Adding, Storing
  <1>7. call[v].at # "back" => First(links', l, call[v].new)
    BY <1>3, <1>4, <1>6 DEF Untouched
  <1>8. ASSUME call[v].at = "head"
        PROVE  /\ links'.next[Node(l)][call[v].new] = call[v].reg
               /\ links'.prev[Node(l)][call[v].new] = NULL
    <2>1. PICK t : t = call[v].new
      OBVIOUS
    <2>2. call[v].list = l /\ t \in Threads
      BY <1>2, <1>8, <2>1 DEF Adding, Inv, CallsOK, FrameOK
    <2>3. t \in Unlinked(l)
      BY <1>2, <1>8, <2>1, <2>2, UnlinkedIs DEF Fresh
    <2>4. t \notin Members(links, "zombie")
      <3>1. \A z \in Members(links, "zombie") : z \in allocated /\ z \notin allocated'
        BY MembersAre, ListNames DEF Belongs, Switched
      <3> QED
        BY <1>1, <2>3, <3>1 DEF OnlyIdleFreed
    <2>5. Kept(l, links')
      BY <1>4, <1>6, <1>8
    <2> QED
      BY <1>3, <1>8, <2>1, <2>2, <2>4, <2>5 DEF Kept
  <1> QED
    BY <1>2, <1>3, <1>4, <1>5, <1>7, <1>8

\* A walk through a list that the interrupt did not change can go on where it was.
LEMMA SwitchWalkers ==
    ASSUME Inv, NEW st, Entered(st), Switched(st), KeepsNew, Enters, tid' = tid
    PROVE  WalkOK'
  <1> SUFFICES ASSUME NEW l \in Lists, NEW t \in Walking(l)' \ overlap'.astray
               PROVE  /\ call'[t].count \in Places
                      /\ call'[t].reg = Walk(links', l)[call'[t].count]
                      /\ \A i \in Places : i < call'[t].count =>
                            Walk(links', l)[i] # NULL /\ tid'[Walk(links', l)[i]] # call'[t].seek
    BY DEF WalkOK, Walk, Node, Places
  <1>1. OnlyIdleFreed /\ \A u \in allocated : call[u].at # "client" => u \in allocated'
    BY SwitchFacts
  <1>2. t \in Walking(l) /\ call'[t] = call[t]
    BY <1>1, EntersKeeps
  <1>3. overlap'.astray = overlap.astray \cup UNION {Walking(m) : m \in {o \in Lists : Changed(links', o)}}
    BY DEF Switched, Disturb, Inv, OverlapOK
  <1>4. Walk(links', l) = Walk(links, l) /\ t \notin overlap.astray
    BY <1>2, <1>3 DEF Changed
  <1> QED
    BY <1>2, <1>4 DEF Inv, WalkOK

-----------------------------------------------------------------------------
(* The mutexes *)

\* What MutexOK says of one mutex, for some threads, calls and statuses.
GuardOK(q, m, A, c, s) ==
    /\ q \in [owner : Addr, waiters : Seq(Threads)]
    /\ IsInjective(q.waiters)
    /\ q.owner = NULL => q.waiters = <<>>
    /\ q.owner # NULL => /\ q.owner \in A /\ c[q.owner].at \in Busy /\ Guard(c[q.owner].list) = m
                         /\ q.owner \notin Range(q.waiters)
    /\ \A t \in Range(q.waiters) :
          t \in A /\ c[t].at = "load" /\ Guard(c[t].list) = m /\ s[t] = "Blocked"

\* What MutexOK says of both.
MutexIs(q, A, c, s) ==
    /\ q = [m \in Nodes |-> q[m]]
    /\ \A m \in Nodes : GuardOK(q[m], m, A, c, s)
    /\ \A v \in A : c[v].at \in Busy =>
          v = q[Guard(c[v].list)].owner \/ v \in Range(q[Guard(c[v].list)].waiters)
    /\ \A t \in Threads : s[t] = "Blocked" => \E m \in Nodes : t \in Range(q[m].waiters)

\* MutexOK, of this state and of the next.
LEMMA MutexParts ==
    /\ MutexOK <=> MutexIs(mutex, allocated, call, status)
    /\ MutexOK' <=> MutexIs(mutex', allocated', call', status')
  <1>1. MutexOK => MutexIs(mutex, allocated, call, status)
    BY DEF MutexOK, MutexIs, GuardOK
  <1>2. ASSUME MutexIs(mutex, allocated, call, status) PROVE MutexOK
    <2>1. /\ mutex = [m \in Nodes |-> mutex[m]]
          /\ \A m \in Nodes : mutex[m] \in [owner : Addr, waiters : Seq(Threads)]
      BY <1>2 DEF MutexIs, GuardOK
    <2>2. mutex \in [Nodes -> [owner : Addr, waiters : Seq(Threads)]]
      BY <2>1
    <2> QED
      BY <1>2, <2>2 DEF MutexOK, MutexIs, GuardOK
  <1>3. MutexOK' => MutexIs(mutex', allocated', call', status')
    BY DEF MutexOK, MutexIs, GuardOK, Guard, Node, Nodes, Addr, Busy
  <1>4. ASSUME MutexIs(mutex', allocated', call', status') PROVE MutexOK'
    <2>1. /\ mutex' = [m \in Nodes |-> mutex'[m]]
          /\ \A m \in Nodes : mutex'[m] \in [owner : Addr, waiters : Seq(Threads)]
      BY <1>4 DEF MutexIs, GuardOK
    <2>2. mutex' \in [Nodes -> [owner : Addr, waiters : Seq(Threads)]]
      BY <2>1
    <2> QED
      BY <1>4, <2>2 DEF MutexOK, MutexIs, GuardOK, Guard, Node, Nodes, Addr, Busy
  <1> QED
    BY <1>1, <1>2, <1>3, <1>4

\* Nobody takes or releases a mutex, and nobody who waits is disturbed.
LEMMA MutexSame ==
    ASSUME NEW q, NEW A, NEW c, NEW s, MutexIs(q, A, c, s), A \subseteq Threads,
           NEW A2, A2 \subseteq A, NEW c2, NEW s2,
           \A v \in A : c[v].at \in Busy =>
              /\ v \in A2 /\ c2[v].at \in Busy /\ c2[v].list = c[v].list
              /\ s[v] = "Blocked" => c2[v] = c[v] /\ s2[v] = s[v],
           \A v \in A : c2[v].at \in Busy => c[v].at \in Busy,
           \A t \in Threads : s2[t] = "Blocked" => s[t] = "Blocked"
    PROVE  MutexIs(q, A2, c2, s2)
  <1>1. ASSUME NEW m \in Nodes PROVE GuardOK(q[m], m, A2, c2, s2)
    <2>1. GuardOK(q[m], m, A, c, s)
      BY DEF MutexIs
    <2>2. "load" \in Busy
      BY DEF Busy
    <2>3. ASSUME q[m].owner # NULL
          PROVE  q[m].owner \in A2 /\ c2[q[m].owner].at \in Busy /\ Guard(c2[q[m].owner].list) = m
      BY <2>1, <2>3 DEF GuardOK
    <2>4. ASSUME NEW t \in Range(q[m].waiters)
          PROVE  t \in A2 /\ c2[t].at = "load" /\ Guard(c2[t].list) = m /\ s2[t] = "Blocked"
      BY <2>1, <2>2, <2>4 DEF GuardOK
    <2> QED
      BY <2>1, <2>3, <2>4 DEF GuardOK
  <1>2. \A v \in A2 : c2[v].at \in Busy =>
          v = q[Guard(c2[v].list)].owner \/ v \in Range(q[Guard(c2[v].list)].waiters)
    BY DEF MutexIs
  <1>3. \A t \in Threads : s2[t] = "Blocked" => \E m \in Nodes : t \in Range(q[m].waiters)
    BY DEF MutexIs
  <1> QED
    BY <1>1, <1>2, <1>3 DEF MutexIs

\* A thread takes a free mutex.
Takes(q, A, c, m, t, q2, c2) ==
    /\ m \in Nodes /\ q[m].owner = NULL /\ t \in A /\ c[t].at \notin Busy
    /\ c2[t].at \in Busy /\ Guard(c2[t].list) = m
    /\ \A v \in A : v # t => c2[v] = c[v]
    /\ q2 = [q EXCEPT ![m].owner = t]

\* mutex_acquire() of a free mutex keeps the mutexes in order.
LEMMA MutexTaken ==
    ASSUME NEW q, NEW A, NEW c, NEW s, NEW m, NEW t, NEW q2, NEW c2,
           MutexIs(q, A, c, s), A \subseteq Threads, Takes(q, A, c, m, t, q2, c2)
    PROVE  MutexIs(q2, A, c2, s)
  <1> USE DEF Takes
  <1>0. /\ q = [o \in Nodes |-> q[o]]
        /\ \A o \in Nodes : GuardOK(q[o], o, A, c, s)
        /\ \A v \in A : c[v].at \in Busy =>
              v = q[Guard(c[v].list)].owner \/ v \in Range(q[Guard(c[v].list)].waiters)
        /\ \A v \in Threads : s[v] = "Blocked" => \E o \in Nodes : v \in Range(q[o].waiters)
    BY DEF MutexIs
  <1>1. q[m] \in [owner : Addr, waiters : Seq(Threads)] /\ q[m].waiters = <<>> /\ IsInjective(q[m].waiters)
    BY <1>0 DEF GuardOK
  <1>2. t \in Threads /\ t # NULL /\ t \in Addr
    BY CreateAssumption DEF Addr
  <1>3. /\ q2 = [o \in Nodes |-> q2[o]]
        /\ \A o \in Nodes : o # m => q2[o] = q[o]
        /\ q2[m] = [q[m] EXCEPT !.owner = t]
    BY <1>0
  <1>4. q2[m].owner = t /\ q2[m].waiters = q[m].waiters /\ q2[m] \in [owner : Addr, waiters : Seq(Threads)]
    BY <1>1, <1>2, <1>3
  <1>5. Range(q[m].waiters) = {}
    BY <1>1, EmptyList
  <1>6. ASSUME NEW o \in Nodes PROVE t \notin Range(q[o].waiters) /\ q[o].owner # t
    <2>1. GuardOK(q[o], o, A, c, s) /\ "load" \in Busy
      BY <1>0 DEF Busy
    <2> QED
      BY <1>2, <2>1 DEF GuardOK
  <1>7. ASSUME NEW o \in Nodes PROVE GuardOK(q2[o], o, A, c2, s)
    <2>1. CASE o = m
      <3>1. IsInjective(q2[m].waiters) /\ Range(q2[m].waiters) = {}
        BY <1>1, <1>4, <1>5
      <3> QED
        BY <1>2, <1>4, <2>1, <3>1 DEF GuardOK
    <2>2. CASE o # m
      <3>1. GuardOK(q[o], o, A, c, s) /\ q2[o] = q[o]
        BY <1>0, <1>3, <2>2
      <3>2. q[o].owner # NULL => c2[q[o].owner] = c[q[o].owner]
        BY <1>6, <3>1 DEF GuardOK
      <3>3. \A u \in Range(q[o].waiters) : c2[u] = c[u]
        BY <1>6, <3>1 DEF GuardOK
      <3> QED
        BY <3>1, <3>2, <3>3 DEF GuardOK
    <2> QED
      BY <2>1, <2>2
  <1>8. ASSUME NEW v \in A, c2[v].at \in Busy
        PROVE  v = q2[Guard(c2[v].list)].owner \/ v \in Range(q2[Guard(c2[v].list)].waiters)
    <2>1. CASE v = t
      BY <1>4, <2>1
    <2>2. CASE v # t
      <3>1. PICK o : o = Guard(c[v].list)
        OBVIOUS
      <3>2. Guard(c2[v].list) = o /\ (v = q[o].owner \/ v \in Range(q[o].waiters))
        BY <1>0, <1>8, <2>2, <3>1
      <3>3. o # m
        BY <1>2, <1>5, <3>2, CreateAssumption
      <3>4. o \in Nodes
        BY <3>1 DEF Guard, Node, Nodes
      <3> QED
        BY <1>3, <3>2, <3>3, <3>4
    <2> QED
      BY <2>1, <2>2
  <1>9. \A v \in Threads : s[v] = "Blocked" => \E o \in Nodes : v \in Range(q2[o].waiters)
    BY <1>0, <1>3, <1>4
  <1> QED
    BY <1>3, <1>7, <1>8, <1>9 DEF MutexIs

\* Thread t joins the line for mutex m, and may not run on.
Waits(q, A, c, s, m, t, q2, A2, c2, s2) ==
    /\ m \in Nodes /\ q[m].owner # NULL /\ t \in A /\ c[t].at \notin Busy
    /\ c2[t].at = "load" /\ Guard(c2[t].list) = m
    /\ \A v \in A : v # t => c2[v] = c[v]
    /\ A2 \subseteq A /\ t \in A2 /\ \A v \in A : c[v].at \in Busy => v \in A2
    /\ s2[t] = "Blocked"
    /\ \A v \in Threads : v # t => (s2[v] = "Blocked" <=> s[v] = "Blocked")
    /\ q2 = [q EXCEPT ![m].waiters = Append(@, t)]

\* A thread waits for a mutex that another one has; what runs next may be that one.
LEMMA MutexWaits ==
    ASSUME NEW q, NEW A, NEW c, NEW s, NEW m, NEW t, NEW q2, NEW A2, NEW c2, NEW s2,
           MutexIs(q, A, c, s), A \subseteq Threads, Waits(q, A, c, s, m, t, q2, A2, c2, s2)
    PROVE  MutexIs(q2, A2, c2, s2)
  <1> USE DEF Waits
  <1>0. /\ q = [o \in Nodes |-> q[o]]
        /\ \A o \in Nodes : GuardOK(q[o], o, A, c, s)
        /\ \A v \in A : c[v].at \in Busy =>
              v = q[Guard(c[v].list)].owner \/ v \in Range(q[Guard(c[v].list)].waiters)
        /\ \A v \in Threads : s[v] = "Blocked" => \E o \in Nodes : v \in Range(q[o].waiters)
    BY DEF MutexIs
  <1>1. q[m] \in [owner : Addr, waiters : Seq(Threads)] /\ IsInjective(q[m].waiters)
    BY <1>0 DEF GuardOK
  <1>2. t \in Threads /\ "load" \in Busy
    BY DEF Busy
  <1>3. /\ q2 = [o \in Nodes |-> q2[o]]
        /\ \A o \in Nodes : o # m => q2[o] = q[o]
        /\ q2[m] = [q[m] EXCEPT !.waiters = Append(q[m].waiters, t)]
    BY <1>0
  <1>4. ASSUME NEW o \in Nodes PROVE t \notin Range(q[o].waiters) /\ q[o].owner # t
    <2>1. GuardOK(q[o], o, A, c, s)
      BY <1>0
    <2>2. t # NULL
      BY <1>2, CreateAssumption
    <2> QED
      BY <1>2, <2>1, <2>2 DEF GuardOK
  <1>5. PICK w : w = Append(q[m].waiters, t)
    OBVIOUS
  <1>6. w \in Seq(Threads) /\ Range(w) = Range(q[m].waiters) \cup {t} /\ IsInjective(w)
    <2>1. q[m].waiters \in Seq(Threads) /\ t \notin Range(q[m].waiters)
      BY <1>1, <1>4
    <2> QED
      BY <1>1, <1>2, <1>5, <2>1, AppendList
  <1>7. q2[m].owner = q[m].owner /\ q2[m].waiters = w /\ q2[m] \in [owner : Addr, waiters : Seq(Threads)]
    BY <1>1, <1>3, <1>5, <1>6
  <1>8. ASSUME NEW o \in Nodes
        PROVE  /\ q[o].owner # NULL => /\ q[o].owner \in A2 /\ c2[q[o].owner].at \in Busy
                                       /\ Guard(c2[q[o].owner].list) = o
               /\ \A u \in Range(q[o].waiters) :
                     u \in A2 /\ c2[u].at = "load" /\ Guard(c2[u].list) = o /\ s2[u] = "Blocked"
    <2>1. GuardOK(q[o], o, A, c, s)
      BY <1>0
    <2>2. q[o].owner # NULL => q[o].owner \in A /\ q[o].owner # t /\ c[q[o].owner].at \in Busy
                               /\ Guard(c[q[o].owner].list) = o
      BY <1>4, <2>1 DEF GuardOK
    <2>3. \A u \in Range(q[o].waiters) :
             u \in A /\ u # t /\ c[u].at = "load" /\ Guard(c[u].list) = o /\ s[u] = "Blocked"
      BY <1>4, <2>1 DEF GuardOK
    <2> QED
      BY <1>2, <2>2, <2>3
  <1>9. ASSUME NEW o \in Nodes PROVE GuardOK(q2[o], o, A2, c2, s2)
    <2>1. GuardOK(q[o], o, A, c, s)
      BY <1>0
    <2>2. CASE o = m
      <3>1. IsInjective(q2[m].waiters) /\ Range(q2[m].waiters) = Range(q[m].waiters) \cup {t}
        BY <1>6, <1>7
      <3>2. q[m].owner \notin Range(q2[m].waiters)
        BY <1>4, <2>1, <2>2, <3>1 DEF GuardOK
      <3>3. /\ q[m].owner \in A2 /\ c2[q[m].owner].at \in Busy /\ Guard(c2[q[m].owner].list) = m
            /\ \A u \in Range(q[m].waiters) :
                  u \in A2 /\ c2[u].at = "load" /\ Guard(c2[u].list) = m /\ s2[u] = "Blocked"
        BY <1>8
      <3>4. q2[m].owner # NULL
        BY <1>7
      <3> HIDE <1>3
      <3> QED
        BY <1>7, <2>2, <3>1, <3>2, <3>3, <3>4 DEF GuardOK
    <2>3. CASE o # m
      BY <1>3, <1>8, <2>1, <2>3 DEF GuardOK
    <2> QED
      BY <2>2, <2>3
  <1>10. ASSUME NEW v \in A2, c2[v].at \in Busy
         PROVE  v = q2[Guard(c2[v].list)].owner \/ v \in Range(q2[Guard(c2[v].list)].waiters)
    <2>1. CASE v = t
      BY <1>6, <1>7, <2>1
    <2>2. CASE v # t
      <3>1. PICK o : o = Guard(c[v].list)
        OBVIOUS
      <3>2. Guard(c2[v].list) = o /\ (v = q[o].owner \/ v \in Range(q[o].waiters))
        BY <1>0, <1>10, <2>2, <3>1
      <3>3. o \in Nodes
        BY <3>1 DEF Guard, Node, Nodes
      <3> QED
        BY <1>3, <1>6, <1>7, <3>2, <3>3
    <2> QED
      BY <2>1, <2>2
  <1>11. ASSUME NEW v \in Threads, s2[v] = "Blocked" PROVE \E o \in Nodes : v \in Range(q2[o].waiters)
    <2>1. CASE v = t
      BY <1>6, <1>7, <2>1
    <2>2. CASE v # t
      <3>1. PICK o \in Nodes : v \in Range(q[o].waiters)
        BY <1>0, <1>11, <2>2
      <3> QED
        BY <1>3, <1>6, <1>7, <3>1
    <2> QED
      BY <2>1, <2>2
  <1> QED
    BY <1>3, <1>9, <1>10, <1>11 DEF MutexIs

\* The owner releases a mutex that no thread waits for.
Frees(q, A, c, m, t, q2, c2) ==
    /\ m \in Nodes /\ t \in A /\ q[m].owner = t /\ q[m].waiters = <<>>
    /\ c2[t].at \notin Busy /\ \A v \in A : v # t => c2[v] = c[v]
    /\ q2 = [q EXCEPT ![m].owner = NULL]

\* mutex_release() without waiters keeps the mutexes in order.
LEMMA MutexFreed ==
    ASSUME NEW q, NEW A, NEW c, NEW s, NEW m, NEW t, NEW q2, NEW c2,
           MutexIs(q, A, c, s), A \subseteq Threads, Frees(q, A, c, m, t, q2, c2)
    PROVE  MutexIs(q2, A, c2, s)
  <1> USE DEF Frees
  <1>0. /\ q = [o \in Nodes |-> q[o]]
        /\ \A o \in Nodes : GuardOK(q[o], o, A, c, s)
        /\ \A v \in A : c[v].at \in Busy =>
              v = q[Guard(c[v].list)].owner \/ v \in Range(q[Guard(c[v].list)].waiters)
        /\ \A v \in Threads : s[v] = "Blocked" => \E o \in Nodes : v \in Range(q[o].waiters)
    BY DEF MutexIs
  <1>1. q[m] \in [owner : Addr, waiters : Seq(Threads)] /\ Range(q[m].waiters) = {} /\ IsInjective(q[m].waiters)
    BY <1>0, EmptyList DEF GuardOK
  <1>2. t \in Threads /\ t # NULL /\ NULL \in Addr
    BY CreateAssumption DEF Addr
  <1>3. /\ q2 = [o \in Nodes |-> q2[o]]
        /\ \A o \in Nodes : o # m => q2[o] = q[o]
        /\ q2[m] = [q[m] EXCEPT !.owner = NULL]
    BY <1>0
  <1>4. q2[m].owner = NULL /\ q2[m].waiters = q[m].waiters /\ q2[m] \in [owner : Addr, waiters : Seq(Threads)]
    BY <1>1, <1>2, <1>3
  <1>5. ASSUME NEW o \in Nodes, o # m PROVE t \notin Range(q[o].waiters) /\ q[o].owner # t
    <2>1. GuardOK(q[o], o, A, c, s) /\ GuardOK(q[m], m, A, c, s)
      BY <1>0
    <2>2. Guard(c[t].list) = m
      BY <1>2, <2>1 DEF GuardOK
    <2> QED
      BY <1>2, <1>5, <2>1, <2>2 DEF GuardOK
  <1>6. ASSUME NEW o \in Nodes PROVE GuardOK(q2[o], o, A, c2, s)
    <2>1. CASE o = m
      <3>1. IsInjective(q2[m].waiters) /\ Range(q2[m].waiters) = {} /\ q2[m].waiters = <<>>
        BY <1>1, <1>4
      <3> QED
        BY <1>4, <2>1, <3>1 DEF GuardOK
    <2>2. CASE o # m
      <3>1. GuardOK(q[o], o, A, c, s) /\ q2[o] = q[o]
        BY <1>0, <1>3, <2>2
      <3>2. q[o].owner # NULL => c2[q[o].owner] = c[q[o].owner]
        BY <1>5, <2>2, <3>1 DEF GuardOK
      <3>3. \A u \in Range(q[o].waiters) : c2[u] = c[u]
        BY <1>5, <2>2, <3>1 DEF GuardOK
      <3> QED
        BY <3>1, <3>2, <3>3 DEF GuardOK
    <2> QED
      BY <2>1, <2>2
  <1>7. ASSUME NEW v \in A, c2[v].at \in Busy
        PROVE  v = q2[Guard(c2[v].list)].owner \/ v \in Range(q2[Guard(c2[v].list)].waiters)
    <2>1. v # t
      BY <1>7
    <2>2. PICK o : o = Guard(c[v].list)
      OBVIOUS
    <2>3. Guard(c2[v].list) = o /\ (v = q[o].owner \/ v \in Range(q[o].waiters))
      BY <1>0, <1>7, <2>1, <2>2
    <2>4. o # m
      BY <1>1, <2>1, <2>3
    <2>5. o \in Nodes
      BY <2>2 DEF Guard, Node, Nodes
    <2> QED
      BY <1>3, <2>3, <2>4, <2>5
  <1>8. \A v \in Threads : s[v] = "Blocked" => \E o \in Nodes : v \in Range(q2[o].waiters)
    BY <1>0, <1>3, <1>4
  <1> QED
    BY <1>3, <1>6, <1>7, <1>8 DEF MutexIs

\* The owner gives a mutex to the thread that has waited longest.
Gives(q, A, c, s, m, t, h, q2, c2, s2) ==
    /\ m \in Nodes /\ t \in A /\ q[m].owner = t /\ q[m].waiters # <<>> /\ h = Head(q[m].waiters)
    /\ c2[t].at \notin Busy /\ \A v \in A : v # t => c2[v] = c[v]
    /\ s2[h] # "Blocked" /\ \A v \in Threads : v # h => s2[v] = s[v]
    /\ q2 = [q EXCEPT ![m] = [owner |-> Head(@.waiters), waiters |-> Tail(@.waiters)]]

\* mutex_release() with waiters keeps the mutexes in order; the new owner was blocked,
\* about to load the head of a list that this mutex protects.
LEMMA MutexGiven ==
    ASSUME NEW q, NEW A, NEW c, NEW s, NEW m, NEW t, NEW h, NEW q2, NEW c2, NEW s2,
           MutexIs(q, A, c, s), A \subseteq Threads, Gives(q, A, c, s, m, t, h, q2, c2, s2)
    PROVE  MutexIs(q2, A, c2, s2) /\ h \in A /\ h # t /\ s[h] = "Blocked" /\ c[h].at = "load" /\ Guard(c[h].list) = m
  <1> USE DEF Gives
  <1>0. /\ q = [o \in Nodes |-> q[o]]
        /\ \A o \in Nodes : GuardOK(q[o], o, A, c, s)
        /\ \A v \in A : c[v].at \in Busy =>
              v = q[Guard(c[v].list)].owner \/ v \in Range(q[Guard(c[v].list)].waiters)
        /\ \A v \in Threads : s[v] = "Blocked" => \E o \in Nodes : v \in Range(q[o].waiters)
    BY DEF MutexIs
  <1>1. q[m] \in [owner : Addr, waiters : Seq(Threads)] /\ IsInjective(q[m].waiters)
    BY <1>0 DEF GuardOK
  <1>2. t \in Threads /\ t # NULL
    BY CreateAssumption
  <1>3. PICK w : w = Tail(q[m].waiters)
    OBVIOUS
  <1>4. /\ h \in Threads /\ h \in Range(q[m].waiters)
        /\ w \in Seq(Threads) /\ Range(w) = Range(q[m].waiters) \ {h} /\ IsInjective(w)
    <2>1. q[m].waiters \in Seq(Threads)
      BY <1>1
    <2> QED
      BY <1>1, <1>3, <2>1, TailList
  <1>5. /\ q2 = [o \in Nodes |-> q2[o]]
        /\ \A o \in Nodes : o # m => q2[o] = q[o]
        /\ q2[m] = [owner |-> h, waiters |-> w]
    BY <1>0, <1>3
  <1>6. q2[m].owner = h /\ q2[m].waiters = w /\ q2[m] \in [owner : Addr, waiters : Seq(Threads)]
    BY <1>4, <1>5 DEF Addr
  <1>7. /\ GuardOK(q[m], m, A, c, s)
        /\ h \in A /\ h # t /\ s[h] = "Blocked" /\ c[h].at = "load" /\ Guard(c[h].list) = m
        /\ Guard(c[t].list) = m /\ t \notin Range(q[m].waiters)
    BY <1>0, <1>2, <1>4 DEF GuardOK
  <1>8. ASSUME NEW o \in Nodes, o # m
        PROVE  /\ t \notin Range(q[o].waiters) /\ q[o].owner # t
               /\ h \notin Range(q[o].waiters)
    <2>1. GuardOK(q[o], o, A, c, s)
      BY <1>0
    <2> QED
      BY <1>2, <1>7, <1>8, <2>1 DEF GuardOK
  <1>9. ASSUME NEW o \in Nodes PROVE GuardOK(q2[o], o, A, c2, s2)
    <2>1. CASE o = m
      <3>1. IsInjective(q2[m].waiters) /\ Range(q2[m].waiters) = Range(q[m].waiters) \ {h}
        BY <1>4, <1>6
      <3>2. h \in A /\ c2[h].at \in Busy /\ Guard(c2[h].list) = m /\ h # NULL
        BY <1>4, <1>7, CreateAssumption DEF Busy
      <3>3. \A u \in Range(q2[m].waiters) :
                u \in A /\ c2[u].at = "load" /\ Guard(c2[u].list) = m /\ s2[u] = "Blocked"
        <4>1. \A u \in Range(q[m].waiters) :
                u \in A /\ c[u].at = "load" /\ Guard(c[u].list) = m /\ s[u] = "Blocked" /\ u # t
          BY <1>7 DEF GuardOK
        <4> QED
          BY <3>1, <4>1
      <3> HIDE <1>5
      <3> QED
        BY <1>6, <2>1, <3>1, <3>2, <3>3 DEF GuardOK
    <2>2. CASE o # m
      <3>1. GuardOK(q[o], o, A, c, s) /\ q2[o] = q[o]
        BY <1>0, <1>5, <2>2
      <3>2. q[o].owner # NULL => c2[q[o].owner] = c[q[o].owner]
        BY <1>8, <2>2, <3>1 DEF GuardOK
      <3>3. \A u \in Range(q[o].waiters) : c2[u] = c[u] /\ s2[u] = s[u]
        BY <1>8, <2>2, <3>1 DEF GuardOK
      <3> QED
        BY <3>1, <3>2, <3>3 DEF GuardOK
    <2> QED
      BY <2>1, <2>2
  <1>10. ASSUME NEW v \in A, c2[v].at \in Busy
         PROVE  v = q2[Guard(c2[v].list)].owner \/ v \in Range(q2[Guard(c2[v].list)].waiters)
    <2>1. v # t
      BY <1>10
    <2>2. PICK o : o = Guard(c[v].list)
      OBVIOUS
    <2>3. Guard(c2[v].list) = o /\ (v = q[o].owner \/ v \in Range(q[o].waiters))
      BY <1>0, <1>10, <2>1, <2>2
    <2>4. o \in Nodes
      BY <2>2 DEF Guard, Node, Nodes
    <2> QED
      BY <1>4, <1>5, <1>6, <2>1, <2>3, <2>4
  <1>11. ASSUME NEW v \in Threads, s2[v] = "Blocked" PROVE \E o \in Nodes : v \in Range(q2[o].waiters)
    <2>1. v # h
      BY <1>11
    <2>2. PICK o \in Nodes : v \in Range(q[o].waiters)
      BY <1>0, <1>11, <2>1
    <2> QED
      BY <1>4, <1>5, <1>6, <2>1, <2>2
  <1> QED
    BY <1>5, <1>7, <1>9, <1>10, <1>11 DEF MutexIs

\* A switch that tears no list keeps the invariant, as long as the mutexes are in order.
LEMMA SwitchInv ==
    ASSUME Inv, NEW st, Entered(st), Switched(st), KeepsNew, Enters, OverlapOK', MutexOK',
           overlap'.tid = overlap.tid, tid' = tid, next_tid' = next_tid,
           st[me] = "Zombie" => call'[me].at = "client"
    PROVE  Inv'
  <1>1. OnlyIdleFreed /\ \A t \in Threads : t \in Unlinked("ready") => status'[t] = status[t]
    BY SwitchFacts
  <1>2. StatusOK'
    BY SwitchStatus
  <1>3. CallsOK'
    BY SwitchCalls
  <1>4. FreshOK'
    BY <1>1, FreshKept
  <1>5. ListsOK'
    BY SwitchLists
  <1>6. AddOK'
    BY SwitchAdders
  <1>7. WalkOK'
    BY SwitchWalkers
  <1>8. TidOK'
    BY <1>1, TidKept
  <1>9. halted' = "no"
    BY DEF Switched
  <1> QED
    BY <1>2, <1>3, <1>4, <1>5, <1>6, <1>7, <1>8, <1>9 DEF Inv

\* A history only grows.
LEMMA Disturbed ==
    ASSUME OverlapOK, allocated \subseteq Threads, NEW k
    PROVE  /\ Disturb(k) \in [torn : SUBSET Lists, astray : SUBSET Threads, tid : BOOLEAN]
           /\ overlap.torn \subseteq Disturb(k).torn
           /\ Disturb(k).tid = overlap.tid
  <1>1. \A l : Walking(l) \subseteq Threads
    BY DEF Walking
  <1>2. UNION {Walking(l) : l \in {m \in Lists : Changed(k, m)}} \subseteq Threads
    BY <1>1
  <1> QED
    BY <1>2 DEF Disturb, OverlapOK

\* What an interrupt does to the history, in every state.
LEMMA OverlapSwitched ==
    ASSUME OverlapOK, allocated \subseteq Threads, NEW st, isr_IRQ0(links, st)
    PROVE  /\ OverlapOK' /\ allocated' \subseteq Threads
           /\ overlap.torn \subseteq overlap'.torn /\ overlap'.tid = overlap.tid
  <1>1. overlap' = Disturb(links') /\ allocated' \subseteq allocated
    BY DEF isr_IRQ0
  <1> QED
    BY <1>1, Disturbed DEF OverlapOK

\* No thread but the running one begins or stops to wait for a mutex.
LEMMA SwitchBlocks ==
    ASSUME Inv, NEW st, Entered(st), Switched(st)
    PROVE  /\ allocated' \subseteq allocated /\ allocated \subseteq Threads
           /\ me \in allocated' /\ me \in allocated /\ me \in Threads
           /\ \A v \in allocated : call[v].at \in Busy => v \in allocated'
           /\ \A v \in Threads : status[v] = "Blocked" => v # me /\ status'[v] = status[v]
           /\ \A v \in Threads : v # me /\ status'[v] = "Blocked" => status[v] = "Blocked"
           /\ status'[me] = "Blocked" <=> st[me] = "Blocked"
  <1>1. /\ OnlyIdleFreed
        /\ me \in allocated' /\ current_thread' \in Threads
        /\ \A t \in Threads : t # me /\ t # current_thread' => status'[t] = status[t]
        /\ status'[current_thread'] = "Running"
        /\ current_thread' = me => st[me] = "Running"
        /\ current_thread' # me =>
              /\ status[current_thread'] = "Ready"
              /\ status'[me] = IF st[me] = "Running" THEN "Ready" ELSE st[me]
        /\ \A t \in allocated : call[t].at # "client" => t \in allocated'
    BY SwitchFacts
  <1>2. me \in allocated /\ me \in Threads /\ status[me] = "Running" /\ allocated \subseteq Threads
    BY RunningThread DEF Inv, StatusOK
  <1>3. \A v \in allocated : call[v].at \in Busy => v \in allocated'
    BY <1>1 DEF Busy
  <1>4. allocated' \subseteq allocated
    BY <1>1 DEF OnlyIdleFreed
  <1>5. st[me] \in {"Running", "Zombie", "Blocked"}
    BY EnteredStatus
  <1>6. \A v \in Threads : status[v] = "Blocked" => v # me /\ status'[v] = status[v]
    BY <1>1, <1>2
  <1>7. \A v \in Threads : v # me /\ status'[v] = "Blocked" => status[v] = "Blocked"
    BY <1>1, <1>2
  <1>8. status'[me] = "Blocked" <=> st[me] = "Blocked"
    BY <1>1, <1>2, <1>5
  <1> QED
    BY <1>1, <1>2, <1>3, <1>4, <1>6, <1>7, <1>8

\* An interrupt that tears no list keeps the invariant, also when the thread has ended.
LEMMA InterruptInv ==
    ASSUME Inv, NEW st, Entered(st), st[me] # "Blocked", isr_IRQ0(links, st), overlap'.torn = {},
           st[me] = "Zombie" => call[me].at = "client",
           UNCHANGED <<mutex, tid, next_tid, call>>
    PROVE  Inv'
  <1>1. Switched(st)
    BY ReadyForInterrupt, Interrupt DEF Inv
  <1>2. KeepsNew /\ Enters
    BY SameKeepsNew DEF Enters
  <1>3. OverlapOK' /\ overlap'.tid = overlap.tid
    BY OverlapSwitched DEF Inv, StatusOK
  <1>4. MutexOK'
    <2>1. MutexIs(mutex, allocated, call, status)
      BY MutexParts DEF Inv
    <2>2. /\ allocated' \subseteq allocated /\ allocated \subseteq Threads
          /\ \A v \in allocated : call[v].at \in Busy =>
               /\ v \in allocated' /\ call[v].at \in Busy /\ call[v].list = call[v].list
               /\ status[v] = "Blocked" => call[v] = call[v] /\ status'[v] = status[v]
          /\ \A t \in Threads : status'[t] = "Blocked" => status[t] = "Blocked"
      BY <1>1, SwitchBlocks
    <2>3. MutexIs(mutex, allocated', call, status')
      BY <2>1, <2>2, MutexSame
    <2> QED
      BY <2>3, MutexParts
  <1> QED
    BY <1>1, <1>2, <1>3, <1>4, SwitchInv

\* As does waiting for a mutex, from where another thread runs.
LEMMA WaitInv ==
    ASSUME Inv, NEW m \in Nodes, NEW c, Moves(c), c.at = "load", Guard(c.list) = m,
           call[me].at \in {"client", "lock"}, mutex[m].owner # NULL,
           mutex' = [mutex EXCEPT ![m].waiters = Append(@, me)],
           isr_IRQ0(links, [status EXCEPT ![me] = "Blocked"]), overlap'.torn = {},
           UNCHANGED <<tid, next_tid>>
    PROVE  Inv'
  <1>1. PICK st : st = [status EXCEPT ![me] = "Blocked"]
    OBVIOUS
  <1>2. Entered(st) /\ st[me] = "Blocked" /\ isr_IRQ0(links, st)
    BY <1>1, RunningThread DEF Entered, Moves, Inv, StatusOK
  <1>3. Switched(st)
    BY <1>2, ReadyForInterrupt, Interrupt DEF Inv
  <1>4. KeepsNew
    BY MovesKeepsNew
  <1>5. call' = [call EXCEPT ![me] = c] /\ call \in [Threads -> Frames] /\ me \in Threads
    BY RunningThread DEF Moves, Inv, CallsOK
  <1>6. call'[me] = c /\ \A v \in Threads : v # me => call'[v] = call[v]
    BY <1>5
  <1>7. Enters
    BY <1>5, <1>6 DEF Enters
  <1>8. OverlapOK' /\ overlap'.tid = overlap.tid
    BY <1>2, OverlapSwitched DEF Inv, StatusOK
  <1>9. MutexOK'
    <2>1. MutexIs(mutex, allocated, call, status)
      BY MutexParts DEF Inv
    <2>2. /\ allocated' \subseteq allocated /\ allocated \subseteq Threads
          /\ me \in allocated' /\ me \in allocated
          /\ \A v \in allocated : call[v].at \in Busy => v \in allocated'
          /\ status'[me] = "Blocked"
          /\ \A v \in Threads : v # me => (status'[v] = "Blocked" <=> status[v] = "Blocked")
      BY <1>2, <1>3, SwitchBlocks
    <2>3. /\ call[me].at \notin Busy /\ call'[me].at = "load" /\ Guard(call'[me].list) = m
          /\ \A v \in allocated : v # me => call'[v] = call[v]
      BY <1>6, <2>2 DEF Busy
    <2>4. MutexIs(mutex', allocated', call', status')
      <3>1. Waits(mutex, allocated, call, status, m, me, mutex', allocated', call', status')
        BY <2>2, <2>3 DEF Waits
      <3> QED
        BY <2>1, <2>2, <3>1, MutexWaits
    <2> QED
      BY <2>4, MutexParts
  <1> QED
    BY <1>2, <1>3, <1>4, <1>7, <1>8, <1>9, SwitchInv

-----------------------------------------------------------------------------
(* Steps of a call *)

\* Threads, statuses and numbers are what they were.
Quiet == UNCHANGED <<current_thread, status, allocated, tid, next_tid, halted, overlap>>

\* A step of a call that only moves on changes nothing about who belongs into which list.
LEMMA QuietSets ==
    ASSUME Inv, Quiet, NEW c, Moves(c)
    PROVE  /\ KeepsNew /\ OnlyIdleFreed
           /\ \A l \in Lists : Belongs(l)' = Belongs(l)
           /\ call'[me] = c /\ \A v \in Threads : v # me => call'[v] = call[v]
  <1>1. KeepsNew
    BY MovesKeepsNew
  <1>2. allocated \subseteq Threads /\ OnlyIdleFreed
    BY DEF Quiet, OnlyIdleFreed, Inv, StatusOK
  <1>3. \A l \in Lists : \A t \in Threads : t \in Unlinked(l)' <=> t \in Unlinked(l)
    BY <1>1, <1>2, UnlinkedKept
  <1>4. ASSUME NEW l \in Lists PROVE Belongs(l)' = Belongs(l)
    <2>1. \A t : t \in Belongs(l)' <=> /\ t \in allocated' /\ t \notin Unlinked(l)'
                                       /\ \/ l = "all"
                                          \/ l = "ready" /\ status'[t] = "Ready" /\ t # Idle
                                          \/ l = "zombie" /\ status'[t] = "Zombie"
      BY DEF Belongs
    <2>2. \A t : t \in Belongs(l) <=> /\ t \in allocated /\ t \notin Unlinked(l)
                                      /\ \/ l = "all"
                                         \/ l = "ready" /\ status[t] = "Ready" /\ t # Idle
                                         \/ l = "zombie" /\ status[t] = "Zombie"
      BY DEF Belongs
    <2> QED
      BY <1>2, <1>3, <2>1, <2>2 DEF Quiet
  <1>5. call'[me] = c /\ \A v \in Threads : v # me => call'[v] = call[v]
    BY RunningThread DEF Moves, Inv, CallsOK
  <1> QED
    BY <1>1, <1>2, <1>4, <1>5

\* Such a step keeps what the invariant says of threads, calls and numbers.
LEMMA QuietInv ==
    ASSUME Inv, Quiet, NEW c, Moves(c), MutexOK', ListsOK', AddOK', WalkOK'
    PROVE  Inv'
  <1>1. KeepsNew /\ OnlyIdleFreed
    BY QuietSets
  <1>2. StatusOK' /\ OverlapOK' /\ halted' = "no"
    BY DEF Quiet, Inv, StatusOK, OverlapOK
  <1>3. CallsOK'
    <2>1. status[me] = "Running" /\ call'[me] = c /\ \A v \in Threads : v # me => call'[v] = call[v]
      BY RunningThread, QuietSets
    <2>2. allocated' = allocated /\ status' = status /\ allocated \subseteq Threads
      BY DEF Quiet, Inv, StatusOK
    <2>3. \A v \in allocated : status[v] = "Zombie" => call'[v].at = "client"
      BY <2>1, <2>2 DEF Inv, CallsOK
    <2>4. \A v \in allocated : FrameOK(call'[v])
      BY <1>1 DEF KeepsNew
    <2>5. \A v \in allocated' : FrameOK(call[v])' /\ (status'[v] = "Zombie" => call'[v].at = "client")
      BY <2>2, <2>3, <2>4 DEF FrameOK
    <2> QED
      BY <1>1, <2>5 DEF CallsOK, KeepsNew
  <1>4. FreshOK'
    BY <1>1, FreshKept DEF Quiet
  <1>5. TidOK'
    BY <1>1, TidKept DEF Quiet
  <1> QED
    BY <1>2, <1>3, <1>4, <1>5 DEF Inv

\* Lists in which a step of a call moves nothing, and those that it leaves without
\* an insertion under way are linked in both directions.
ListsStay(c) ==
    /\ links' \in LinkTables
    /\ \A l \in Lists :
          /\ Members(links', l) = Members(links, l) /\ Path(links', l)
          /\ Storing(l) \subseteq {me} /\ ~ (c.list = l /\ c.at \in {"link", "head"}) => First(links', l, NULL)

\* Such a step keeps the lists in order if it keeps their members.
LEMMA QuietLists ==
    ASSUME Inv, Quiet, NEW c, Moves(c), ListsStay(c)
    PROVE  ListsOK'
  <1>0. /\ links' \in LinkTables
        /\ \A l \in Lists :
          /\ Members(links', l) = Members(links, l) /\ Path(links', l)
          /\ Storing(l) \subseteq {me} /\ ~ (c.list = l /\ c.at \in {"link", "head"}) => First(links', l, NULL)
    BY DEF ListsStay
  <1>1. ASSUME NEW l \in Lists
        PROVE  Path(links, l)' /\ Members(links, l)' = Belongs(l)' /\ (Storing(l)' = {} => First(links, l, NULL)')
    <2>1. /\ Members(links', l) = Members(links, l) /\ Path(links', l)
          /\ Storing(l) \subseteq {me} /\ ~ (c.list = l /\ c.at \in {"link", "head"}) => First(links', l, NULL)
      BY <1>0
    <2>2. Belongs(l)' = Belongs(l) /\ Members(links, l) = Belongs(l)
      BY QuietSets, MembersAre
    <2>3. (Path(links, l)' <=> Path(links', l)) /\ Members(links, l)' = Members(links', l)
          /\ (First(links, l, NULL)' <=> First(links', l, NULL))
      BY DEF Path, Members, Walk, First, Node
    <2>4. ASSUME Storing(l)' = {}
          PROVE  Storing(l) \subseteq {me} /\ ~ (c.list = l /\ c.at \in {"link", "head"})
      <3>1. call'[me] = c /\ \A v \in Threads : v # me => call'[v] = call[v]
        BY QuietSets
      <3>2. allocated \subseteq Threads /\ allocated' = allocated /\ me \in allocated
        BY RunningThread DEF Quiet, Inv, StatusOK
      <3> QED
        BY <2>4, <3>1, <3>2 DEF Storing
    <2> QED
      BY <2>1, <2>2, <2>3, <2>4
  <1>2. \A t, u \in Members(links, "zombie")' : t = u
    <2>1. Members(links, "zombie")' = Members(links, "zombie")
      <3>1. Members(links', "zombie") = Members(links, "zombie")
        BY <1>0, ListNames
      <3> QED
        BY <3>1 DEF Members, Walk, Node
    <2>2. \A t, u \in Members(links, "zombie") : t = u
      BY DEF Inv, ListsOK
    <2> QED
      BY <2>1, <2>2
  <1> QED
    BY <1>0, <1>1, <1>2 DEF ListsOK

\* A step inside a call: the same mutexes are held and waited for.
LEMMA QuietMutex ==
    ASSUME Inv, Quiet, NEW c, Moves(c), mutex' = mutex,
           call[me].at \in Busy <=> c.at \in Busy, c.list = call[me].list
    PROVE  MutexOK'
  <1>1. MutexIs(mutex, allocated, call, status)
    BY MutexParts DEF Inv
  <1>2. status[me] = "Running" /\ call'[me] = c /\ \A v \in Threads : v # me => call'[v] = call[v]
    BY RunningThread, QuietSets
  <1>3. allocated \subseteq Threads /\ allocated' = allocated /\ status' = status
    BY DEF Quiet, Inv, StatusOK
  <1>4. /\ \A v \in allocated : call[v].at \in Busy =>
              /\ v \in allocated /\ call'[v].at \in Busy /\ call'[v].list = call[v].list
              /\ status[v] = "Blocked" => call'[v] = call[v] /\ status[v] = status[v]
        /\ \A v \in allocated : call'[v].at \in Busy => call[v].at \in Busy
    BY <1>2, <1>3
  <1>5. MutexIs(mutex, allocated, call', status)
    BY <1>1, <1>3, <1>4, MutexSame
  <1> QED
    BY <1>3, <1>5, MutexParts

\* The mutex of a list lets one thread at a time walk it or insert into it.
LEMMA Alone ==
    ASSUME Inv, call[me].at \in Busy, NEW v \in allocated, call[v].at \in Busy \ {"load"},
           Guard(call[v].list) = Guard(call[me].list)
    PROVE  v = me
  <1>1. mutex[Guard(call[me].list)].owner = me
    BY RunningThread
  <1>2. call[v].list \in Lists
    BY DEF Busy, Inv, CallsOK, FrameOK, Lists
  <1>3. Guard(call[v].list) \in Nodes
    BY <1>2, NodeOfList DEF Guard
  <1>4. v \notin Range(mutex[Guard(call[v].list)].waiters)
    BY <1>3 DEF Inv, MutexOK
  <1>5. v = mutex[Guard(call[v].list)].owner
    BY <1>4 DEF Inv, MutexOK
  <1> QED
    BY <1>1, <1>5

\* The thread that is being inserted is not linked yet, in this node of it.
LEMMA NewUnlinked ==
    ASSUME Inv, call[me].at \in {"back", "link", "head"}
    PROVE  /\ call[me].new \in Threads /\ call[me].list \in {"all", "ready"}
           /\ \A m \in Lists : Node(m) = Node(call[me].list) => call[me].new \notin Members(links, m)
           /\ call[me].new \in allocated /\ call[me].new \in Unlinked(call[me].list)
           /\ status[call[me].new] = "Ready" /\ call[me].new \notin {Idle, Main, me}
  <1>1. PICK t : t = call[me].new
    OBVIOUS
  <1>2. PICK l : l = call[me].list
    OBVIOUS
  <1>3. me \in allocated /\ status[me] = "Running" /\ FrameOK(call[me])
    BY RunningThread
  <1>4. t \in Threads /\ l \in {"all", "ready"} /\ t # NULL
    BY <1>1, <1>2, <1>3, CreateAssumption DEF FrameOK
  <1>5. Fresh(me, l) /\ Fresh(me, "ready")
    BY <1>2, <1>4 DEF Fresh
  <1>6. t \in allocated /\ status[t] = "Ready" /\ t \notin {Idle, Main, me}
    BY <1>1, <1>3, <1>4, <1>5 DEF Inv, FreshOK, NewOK
  <1>7. t \in Unlinked(l)
    BY <1>1, <1>3, <1>4, <1>5, UnlinkedIs
  <1>8. ASSUME NEW m \in Lists, Node(m) = Node(l) PROVE t \notin Members(links, m)
    <2>1. Members(links, m) = Belongs(m)
      BY MembersAre
    <2>2. m = l \/ m = "zombie"
      BY <1>4, <1>8 DEF Node, Lists
    <2> QED
      BY <1>6, <1>7, <2>1, <2>2 DEF Belongs
  <1> QED
    BY <1>1, <1>2, <1>4, <1>6, <1>7, <1>8

\* What the other threads do in their calls meanwhile.
LEMMA Others ==
    ASSUME Inv, Quiet, NEW c, Moves(c), NEW l \in Lists
    PROVE  /\ \A v \in Adding(l)' : v # me => v \in Adding(l) /\ call'[v] = call[v]
           /\ \A v \in Walking(l)' : v # me => v \in Walking(l) /\ call'[v] = call[v]
           /\ \A v \in Storing(l) : v # me => v \in Storing(l)'
           /\ me \in Storing(l)' <=> c.list = l /\ c.at \in {"link", "head"}
           /\ me \in Adding(l)' <=> c.list = l /\ c.at \in {"back", "link", "head"}
           /\ me \in Walking(l)' <=> c.list = l /\ c.at = "walk"
  <1>1. call'[me] = c /\ \A v \in Threads : v # me => call'[v] = call[v]
    BY QuietSets
  <1>2. allocated \subseteq Threads /\ allocated' = allocated /\ me \in allocated
    BY RunningThread DEF Quiet, Inv, StatusOK
  <1> QED
    BY <1>1, <1>2 DEF Adding, Walking, Storing

\* What AddOK says of one insertion.
AdderOK(k, l, c) ==
    /\ c.reg = k.head[l]
    /\ c.at # "back" => First(k, l, c.new)
    /\ c.at = "head" => k.next[Node(l)][c.new] = c.reg /\ k.prev[Node(l)][c.new] = NULL

\* What WalkOK says of one walk.
WalkerOK(w, c) ==
    /\ c.count \in Places
    /\ c.reg = w[c.count]
    /\ \A i \in Places : i < c.count => w[i] # NULL /\ tid[w[i]] # c.seek

\* Such a step keeps the other insertions in order if the pointers they rely on stay.
LEMMA QuietAdders ==
    ASSUME Inv, Quiet, NEW c, Moves(c),
           \A l \in Lists : \A v \in Adding(l) : v # me => AdderOK(links', l, call[v]),
           c.at \in {"back", "link", "head"} => AdderOK(links', c.list, c)
    PROVE  AddOK'
  <1> SUFFICES ASSUME NEW l \in Lists, NEW v \in Adding(l)'
               PROVE  AdderOK(links', l, call'[v]) /\ (l = "ready" => v = current_thread')
    BY DEF AddOK, First, Node, AdderOK
  <1>1. current_thread' = me
    BY DEF Quiet, me
  <1>2. CASE v = me
    BY <1>1, <1>2, Others, QuietSets
  <1>3. CASE v # me
    <2>1. v \in Adding(l) /\ call'[v] = call[v]
      BY <1>3, Others
    <2> QED
      BY <1>1, <1>3, <2>1 DEF Inv, AddOK, me
  <1> QED
    BY <1>2, <1>3

\* Such a step keeps the other walks in order if their lists stay.
LEMMA QuietWalkers ==
    ASSUME Inv, Quiet, NEW c, Moves(c),
           \A l \in Lists : \A v \in Walking(l) \ overlap.astray : v # me => Walk(links', l) = Walk(links, l),
           c.at = "walk" /\ me \notin overlap.astray => WalkerOK(Walk(links', c.list), c)
    PROVE  WalkOK'
  <1> SUFFICES ASSUME NEW l \in Lists, NEW t \in Walking(l)' \ overlap'.astray
               PROVE  /\ call'[t].count \in Places
                      /\ call'[t].reg = Walk(links', l)[call'[t].count]
                      /\ \A i \in Places : i < call'[t].count =>
                            Walk(links', l)[i] # NULL /\ tid'[Walk(links', l)[i]] # call'[t].seek
    BY DEF WalkOK, Walk, Node, Places
  <1>0. tid' = tid /\ t \notin overlap.astray
    BY DEF Quiet
  <1>1. CASE t = me
    BY <1>0, <1>1, Others, QuietSets DEF WalkerOK
  <1>2. CASE t # me
    <2>1. t \in Walking(l) /\ call'[t] = call[t] /\ t \notin overlap.astray
      BY <1>0, <1>2, Others
    <2> QED
      BY <1>0, <1>2, <2>1 DEF Inv, WalkOK
  <1> QED
    BY <1>1, <1>2

\* What the invariant says of each insertion under way.
LEMMA AddersWere ==
    ASSUME Inv
    PROVE  \A l \in Lists : \A v \in Adding(l) : AdderOK(links, l, call[v])
  BY DEF Inv, AddOK, AdderOK

\* A step that stores no pointer and begins no insertion.
LEMMA SameLinks ==
    ASSUME Inv, Quiet, NEW c, Moves(c), links' = links, MutexOK',
           c.at \notin {"link", "head"}, call[me].at \notin {"link", "head"},
           c.at = "back" => AdderOK(links, c.list, c),
           c.at = "walk" /\ me \notin overlap.astray => WalkerOK(Walk(links, c.list), c)
    PROVE  Inv'
  <1>1. ListsOK'
    <2>1. ASSUME NEW l \in Lists, Storing(l) \subseteq {me} PROVE Storing(l) = {}
      BY <2>1 DEF Storing
    <2>2. ListsStay(c)
      <3>1. links \in LinkTables
        BY MembersAre, ListNames
      <3>2. ASSUME NEW l \in Lists
            PROVE  /\ Path(links, l)
                   /\ Storing(l) \subseteq {me} => First(links, l, NULL)
        BY <2>1, MembersAre
      <3> QED
        BY <3>1, <3>2 DEF ListsStay
    <2> QED
      BY <2>2, QuietLists
  <1>2. AddOK'
    BY AddersWere, QuietAdders
  <1>3. WalkOK'
    BY QuietWalkers
  <1> QED
    BY <1>1, <1>2, <1>3, QuietInv

\* mutex_acquire() of a free mutex keeps the invariant.
LEMMA TakeInv ==
    ASSUME Inv, Quiet, NEW m \in Nodes, NEW c, Moves(c), c.at = "load", Guard(c.list) = m,
           call[me].at \in {"client", "lock"}, mutex[m].owner = NULL,
           mutex' = [mutex EXCEPT ![m].owner = me], links' = links
    PROVE  Inv'
  <1>1. MutexIs(mutex, allocated, call, status) /\ allocated \subseteq Threads
    BY MutexParts DEF Inv, StatusOK
  <1>2. me \in allocated /\ call'[me] = c /\ \A v \in Threads : v # me => call'[v] = call[v]
    BY RunningThread, QuietSets
  <1>3. Takes(mutex, allocated, call, m, me, mutex', call')
    BY <1>1, <1>2 DEF Takes, Busy
  <1>4. MutexIs(mutex', allocated, call', status)
    BY <1>1, <1>3, MutexTaken
  <1>5. MutexOK'
    BY <1>4, MutexParts DEF Quiet
  <1> QED
    BY <1>5, SameLinks

\* One turn of the loop of a query: another thread is counted, and is not the one sought.
LEMMA WalkNextInv ==
    ASSUME Inv, WalkNext
    PROVE  Inv'
  <1>1. me \in allocated /\ me # Idle /\ me \in Threads /\ FrameOK(call[me]) /\ call[me] \in Frames
    BY RunningThread DEF WalkNext, At
  <1>2. /\ call[me].at = "walk" /\ ~Found(call[me])
        /\ call' = [call EXCEPT ![me] = [call[me] EXCEPT
                       !.reg = links.next[Node(call[me].list)][call[me].reg], !.count = @ + 1]]
        /\ Quiet /\ links' = links /\ mutex' = mutex
    BY DEF WalkNext, At, Goto, Quiet
  <1>3. PICK c : c = [call[me] EXCEPT !.reg = links.next[Node(call[me].list)][call[me].reg], !.count = @ + 1]
    OBVIOUS
  <1>4. PICK l : l = call[me].list
    OBVIOUS
  <1>5. l \in Lists /\ call[me].new = NULL /\ call[me].reg \in Addr
    BY <1>1, <1>2, <1>4 DEF FrameOK
  <1>6. call[me].reg \in Threads /\ tid[call[me].reg] # call[me].seek /\ call[me].reg # NULL
    BY <1>2, <1>5 DEF Found, Addr
  <1>7. /\ c.at = "walk" /\ c.list = l /\ c.new = NULL /\ c.seek = call[me].seek
        /\ c.reg = links.next[Node(l)][call[me].reg] /\ c.count = call[me].count + 1
    BY <1>1, <1>2, <1>3, <1>4, <1>5 DEF Frames
  <1>8. links \in LinkTables /\ c.reg \in Addr
    BY <1>5, <1>6, <1>7, Pointers, MembersAre
  <1>9. c \in Frames
    <2>1. call[me].count \in Nat /\ call[me].count + 1 \in Nat
      BY <1>1 DEF Frames
    <2> QED
      BY <1>1, <1>3, <1>7, <1>8, <2>1 DEF Frames
  <1>10. FrameOK(c)
    BY <1>5, <1>7, <1>8 DEF FrameOK
  <1>11. Moves(c)
    BY <1>1, <1>2, <1>3, <1>5, <1>7, <1>9, <1>10 DEF Moves
  <1>12. MutexOK'
    BY <1>2, <1>4, <1>7, <1>11, QuietMutex DEF Busy
  <1>13. ASSUME me \notin overlap.astray PROVE WalkerOK(Walk(links, l), c)
    <2>1. me \in Walking(l) \ overlap.astray
      BY <1>1, <1>2, <1>4, <1>13 DEF Walking
    <2>2. /\ call[me].count \in Places
          /\ call[me].reg = Walk(links, l)[call[me].count]
          /\ \A i \in Places : i < call[me].count =>
                Walk(links, l)[i] # NULL /\ tid[Walk(links, l)[i]] # call[me].seek
      BY <1>5, <2>1 DEF Inv, WalkOK
    <2>3. Walk(links, l)[Cardinality(Threads)] = NULL /\ Cardinality(Threads) \in Nat
      BY <1>5, MembersAre, WalkEnds, CountThreads
    <2>4. PICK n : n = call[me].count
      OBVIOUS
    <2>5. n # Cardinality(Threads)
      BY <1>6, <2>2, <2>3, <2>4
    <2>6. n + 1 \in Places /\ n + 1 # 0 /\ (n + 1) - 1 = n /\ n \in Places
      BY <2>2, <2>3, <2>4, <2>5 DEF Places
    <2>7. Walk(links, l)[n + 1] = links.next[Node(l)][Walk(links, l)[n]]
      BY <1>6, <2>2, <2>4, <2>6, WalkStep
    <2>8. \A i \in Places : i < n + 1 => i < n \/ i = n
      BY <2>6 DEF Places
    <2> QED
      BY <1>6, <1>7, <2>2, <2>4, <2>6, <2>7, <2>8 DEF WalkerOK
  <1> QED
    BY <1>2, <1>7, <1>11, <1>12, <1>13, SameLinks

\* An insertion or a walk begins at the head of the list.
LEMMA LoadHeadInv ==
    ASSUME Inv, LoadHead
    PROVE  Inv'
  <1>1. me \in allocated /\ me # Idle /\ me \in Threads /\ FrameOK(call[me]) /\ call[me] \in Frames
    BY RunningThread DEF LoadHead, At
  <1>2. PICK l : l = call[me].list
    OBVIOUS
  <1>3. PICK c : c = [call[me] EXCEPT !.reg = links.head[l], !.at = IF call[me].new # NULL THEN "back" ELSE "walk"]
    OBVIOUS
  <1>4. /\ call[me].at = "load"
        /\ call' = [call EXCEPT ![me] = c]
        /\ Quiet /\ links' = links /\ mutex' = mutex
    BY <1>2, <1>3 DEF LoadHead, At, Goto, Quiet
  <1>5. l \in Lists /\ (call[me].new = NULL => call[me].count = 0) /\ (call[me].new \in Threads => l \in {"all", "ready"})
    BY <1>1, <1>2, <1>4 DEF FrameOK
  <1>6. /\ c.list = l /\ c.new = call[me].new /\ c.reg = links.head[l] /\ c.count = call[me].count
        /\ c.at = IF call[me].new # NULL THEN "back" ELSE "walk"
        /\ call[me].new \in Addr
    BY <1>1, <1>2, <1>3 DEF Frames
  <1>7. links.head[l] \in Addr
    BY <1>5, Pointers, MembersAre
  <1>8. c \in Frames
    BY <1>1, <1>2, <1>3, <1>7 DEF Frames, Points
  <1>9. FrameOK(c)
    BY <1>5, <1>6, <1>7 DEF FrameOK, Addr
  <1>10. Moves(c)
    BY <1>1, <1>2, <1>4, <1>6, <1>8, <1>9 DEF Moves
  <1>11. MutexOK'
    BY <1>2, <1>4, <1>6, <1>10, QuietMutex DEF Busy
  <1>12. c.at = "back" => AdderOK(links, c.list, c)
    BY <1>6 DEF AdderOK
  <1>13. c.at = "walk" => WalkerOK(Walk(links, c.list), c)
    <2> SUFFICES ASSUME c.at = "walk" PROVE WalkerOK(Walk(links, l), c)
      BY <1>6
    <2>1. c.count = 0
      BY <1>5, <1>6
    <2>2. 0 \in Places /\ Walk(links, l)[0] = links.head[l]
      BY WalkStep
    <2>3. \A i \in Places : ~(i < 0)
      BY CountThreads DEF Places
    <2> QED
      BY <1>6, <2>1, <2>2, <2>3 DEF WalkerOK
  <1> QED
    BY <1>4, <1>6, <1>10, <1>11, <1>12, <1>13, SameLinks

\* A step that stores pointers of one list, between loading its head and storing it.
Stores(l, c) ==
    /\ l = call[me].list /\ call[me].at \in {"back", "link"}
    /\ c = [call[me] EXCEPT !.at = "link"] \/ c = [call[me] EXCEPT !.at = "head"]
    /\ call' = [call EXCEPT ![me] = c]
    /\ links' \in LinkTables /\ links'.head = links.head
    /\ \A n \in Nodes : n # Node(l) => links'.next[n] = links.next[n] /\ links'.prev[n] = links.prev[n]
    /\ \A m \in Lists : \A t \in Members(links, m) :
          /\ links'.next[Node(m)][t] = links.next[Node(m)][t]
          /\ m # l \/ t # links.head[l] => links'.prev[Node(m)][t] = links.prev[Node(m)][t]
    /\ AdderOK(links', l, c)

\* Such a store keeps the invariant: no walk and no other insertion is in that list.
LEMMA StoreInv ==
    ASSUME Inv, Quiet, mutex' = mutex, me # Idle, NEW l, NEW c, Stores(l, c)
    PROVE  Inv'
  <1> USE DEF Stores
  <1>1. me \in allocated /\ me \in Threads /\ FrameOK(call[me]) /\ call[me] \in Frames
    BY RunningThread
  <1>2. /\ l \in {"all", "ready"} /\ l \in Lists /\ call[me].new \in Threads
        /\ \A m \in Lists : Node(m) = Node(l) => call[me].new \notin Members(links, m)
    BY NewUnlinked, ListNames
  <1>3. /\ c.list = l /\ c.new = call[me].new /\ c.reg = call[me].reg /\ c.count = call[me].count
        /\ c.at \in {"link", "head"} /\ c \in Frames
    BY <1>1 DEF Frames, Points
  <1>4. FrameOK(c)
    BY <1>2, <1>3 DEF FrameOK
  <1>5. Moves(c)
    BY <1>3, <1>4 DEF Moves
  <1>6. MutexOK'
    BY <1>3, <1>5, QuietMutex DEF Busy
  <1>7. ASSUME NEW m \in Lists PROVE Walk(links', m) = Walk(links, m) /\ Members(links', m) = Members(links, m)
    BY WalkFrame
  <1>8. ASSUME NEW m \in Lists, m # l PROVE Untouched(links, links', m)
    <2>1. links \in LinkTables
      BY <1>2, MembersAre
    <2> QED
      BY <1>8, <2>1, UntouchedIf
  <1>9. Path(links', l)
    <2>1. Path(links, l) /\ links \in LinkTables
      BY <1>2, MembersAre
    <2>2. PICK w : w = Walk(links, l)
      OBVIOUS
    <2>3. Walk(links', l) = w
      BY <1>2, <1>7, <2>2
    <2>4. w[0] = links.head[l] /\ 0 \in Places
      BY <2>2, WalkStep
    <2>5. \A i, j \in Places : w[i] # NULL /\ w[i] = w[j] => i = j
      BY <2>1, <2>2 DEF Path
    <2>6. ASSUME NEW i \in Places \ {0}, w[i] # NULL PROVE links'.prev[Node(l)][w[i]] = w[i - 1]
      <3>1. w[i] # links.head[l]
        BY <2>4, <2>5, <2>6
      <3>2. w[i] \in Members(links, l)
        BY <2>2, <2>6, MemberAt
      <3>3. links'.prev[Node(l)][w[i]] = links.prev[Node(l)][w[i]]
        BY <1>2, <3>1, <3>2
      <3>4. links.prev[Node(l)][w[i]] = w[i - 1]
        BY <2>1, <2>2, <2>6 DEF Path
      <3> QED
        BY <3>3, <3>4
    <2> QED
      BY <2>3, <2>5, <2>6 DEF Path
  <1>10. ASSUME NEW m \in Lists, m # l
         PROVE  /\ Path(links', m)
                /\ Storing(m) \subseteq {me} => First(links', m, NULL)
    <2>1. Path(links, m) /\ (Storing(m) = {} => First(links, m, NULL))
      BY MembersAre
    <2>2. me \notin Storing(m)
      BY <1>10 DEF Storing
    <2> QED
      BY <1>8, <1>10, <2>1, <2>2 DEF Untouched
  <1>11. ListsStay(c)
    <2>1. ASSUME NEW m \in Lists
          PROVE  /\ Members(links', m) = Members(links, m) /\ Path(links', m)
                 /\ Storing(m) \subseteq {me} /\ ~ (c.list = m /\ c.at \in {"link", "head"})
                       => First(links', m, NULL)
      BY <1>3, <1>7, <1>9, <1>10
    <2> QED
      BY <2>1 DEF ListsStay
  <1>12. ListsOK'
    BY <1>5, <1>11, QuietLists
  <1>13. ASSUME NEW m \in Lists, NEW v \in Adding(m), v # me PROVE AdderOK(links', m, call[v])
    <2>1. call[v].list = m /\ call[v].at \in {"back", "link", "head"} /\ v \in allocated
      BY <1>13 DEF Adding
    <2>2. Node(m) # Node(l)
      BY <1>13, <2>1, Alone DEF Guard, Busy
    <2>3. m # l /\ Node(m) \in Nodes
      BY <2>2, NodeOfList
    <2>4. AdderOK(links, m, call[v])
      BY <1>13, AddersWere
    <2>5. /\ links'.head[m] = links.head[m]
          /\ links'.next[Node(m)] = links.next[Node(m)] /\ links'.prev[Node(m)] = links.prev[Node(m)]
      BY <2>2, <2>3
    <2> QED
      BY <2>4, <2>5 DEF AdderOK, First
  <1>14. AddOK'
    BY <1>3, <1>5, <1>13, QuietAdders
  <1>15. WalkOK'
    BY <1>3, <1>5, <1>7, QuietWalkers
  <1> QED
    BY <1>5, <1>6, <1>12, <1>14, <1>15, QuietInv

\* (*head)->prev = thread: the old head points back to the new thread.
LEMMA StoreBackInv ==
    ASSUME Inv, StoreBack
    PROVE  Inv'
  <1>1. me \in allocated /\ me # Idle /\ me \in Threads /\ FrameOK(call[me]) /\ call[me] \in Frames
    BY RunningThread DEF StoreBack, At
  <1>2. PICK l : l = call[me].list
    OBVIOUS
  <1>3. PICK c : c = [call[me] EXCEPT !.at = "link"]
    OBVIOUS
  <1>4. PICK h : h = call[me].reg
    OBVIOUS
  <1>5. PICK n : n = call[me].new
    OBVIOUS
  <1>6. /\ call[me].at = "back"
        /\ call' = [call EXCEPT ![me] = c]
        /\ Quiet /\ mutex' = mutex
        /\ links' = IF h = NULL THEN links ELSE [links EXCEPT !.prev[Node(l)][h] = n]
    BY <1>2, <1>3, <1>4, <1>5 DEF StoreBack, Store, At, Goto, Quiet
  <1>7. /\ n \in Threads /\ n \in Addr /\ l \in {"all", "ready"} /\ l \in Lists
        /\ \A m \in Lists : Node(m) = Node(l) => n \notin Members(links, m)
    BY <1>2, <1>5, <1>6, NewUnlinked, ListNames DEF Addr
  <1>8. links \in LinkTables /\ Path(links, l) /\ Node(l) \in Nodes
    BY <1>7, MembersAre, NodeOfList
  <1>9. h = links.head[l]
    <2>1. me \in Adding(l)
      BY <1>1, <1>2, <1>6 DEF Adding
    <2> QED
      BY <1>4, <1>7, <2>1, AddersWere DEF AdderOK
  <1>10. h \in Addr /\ (h # NULL => h \in Threads /\ h \in Members(links, l))
    BY <1>7, <1>8, <1>9, Pointers, SoundWalk DEF Addr
  <1>11. /\ links' \in LinkTables /\ links'.head = links.head /\ links'.next = links.next
         /\ \A o \in Nodes : o # Node(l) => links'.prev[o] = links.prev[o]
         /\ \A t \in Threads : t # h => links'.prev[Node(l)][t] = links.prev[Node(l)][t]
         /\ h # NULL => links'.prev[Node(l)][h] = n
    <2>1. CASE h = NULL
      BY <1>6, <1>8, <2>1
    <2>2. CASE h # NULL
      <3>1. PICK p : p = [links.prev EXCEPT ![Node(l)] = [links.prev[Node(l)] EXCEPT ![h] = n]]
        OBVIOUS
      <3>2. links.prev \in [Nodes -> [Threads -> Addr]]
        BY <1>8 DEF LinkTables
      <3>3. /\ p \in [Nodes -> [Threads -> Addr]]
            /\ \A o \in Nodes : o # Node(l) => p[o] = links.prev[o]
            /\ \A t \in Threads : t # h => p[Node(l)][t] = links.prev[Node(l)][t]
            /\ p[Node(l)][h] = n
        BY <1>7, <1>8, <1>10, <2>2, <3>1, <3>2
      <3>4. links' = [links EXCEPT !.prev = p]
        BY <1>6, <2>2, <3>1
      <3>5. links'.prev = p /\ links'.head = links.head /\ links'.next = links.next /\ links' \in LinkTables
        BY <1>8, <3>3, <3>4 DEF LinkTables
      <3> QED
        BY <3>3, <3>5
    <2> QED
      BY <2>1, <2>2
  <1>12. ASSUME NEW m \in Lists, NEW t \in Members(links, m)
         PROVE  /\ links'.next[Node(m)][t] = links.next[Node(m)][t]
                /\ m # l \/ t # links.head[l] => links'.prev[Node(m)][t] = links.prev[Node(m)][t]
    <2>1. t \in Threads /\ Node(m) \in Nodes
      BY <1>12, MembersAre, NodeOfList
    <2>2. CASE Node(m) # Node(l)
      BY <1>11, <2>1, <2>2
    <2>3. CASE Node(m) = Node(l) /\ t # h
      BY <1>9, <1>11, <2>1, <2>3
    <2>4. CASE Node(m) = Node(l) /\ t = h /\ m # l
      <3>1. l = "ready" /\ m = "zombie"
        BY <1>7, <2>4 DEF Node, Lists
      <3>2. t \in Members(links, "ready") /\ t \in Members(links, "zombie")
        BY <1>10, <1>12, <2>1, <2>4, <3>1, CreateAssumption
      <3>3. FALSE
        BY <3>2, MembersAre, ListNames DEF Belongs
      <3> QED
        BY <3>3
    <2> QED
      BY <1>9, <1>11, <2>2, <2>3, <2>4
  <1>13. AdderOK(links', l, c)
    <2>1. c.reg = h /\ c.at = "link" /\ c.new = n
      BY <1>1, <1>3, <1>4, <1>5 DEF Frames
    <2>2. First(links', l, n)
      BY <1>9, <1>11 DEF First
    <2> QED
      BY <1>9, <1>11, <2>1, <2>2 DEF AdderOK
  <1>14. Stores(l, c)
    BY <1>2, <1>3, <1>6, <1>11, <1>12, <1>13 DEF Stores
  <1> QED
    BY <1>1, <1>6, <1>14, StoreInv

\* The new thread's node: it points to the head.
LEMMA StoreNodeInv ==
    ASSUME Inv, StoreNode
    PROVE  Inv'
  <1>1. me \in allocated /\ me # Idle /\ me \in Threads /\ FrameOK(call[me]) /\ call[me] \in Frames
    BY RunningThread DEF StoreNode, At
  <1>2. PICK l : l = call[me].list
    OBVIOUS
  <1>3. PICK c : c = [call[me] EXCEPT !.at = "head"]
    OBVIOUS
  <1>4. PICK n : n = call[me].new
    OBVIOUS
  <1>5. call[me].at = "link"
    BY DEF StoreNode, At
  <1>6. /\ n \in Threads /\ l \in {"all", "ready"} /\ l \in Lists
        /\ \A m \in Lists : Node(m) = Node(l) => n \notin Members(links, m)
    BY <1>2, <1>4, <1>5, NewUnlinked, ListNames
  <1>7. links \in LinkTables /\ Path(links, l) /\ Node(l) \in Nodes
    BY <1>6, MembersAre, NodeOfList
  <1>8. call[me].reg = links.head[l] /\ First(links, l, n)
    <2>1. me \in Adding(l)
      BY <1>1, <1>2, <1>5 DEF Adding
    <2> QED
      BY <1>4, <1>5, <1>6, <2>1, AddersWere DEF AdderOK
  <1>9. PICK h : h = links.head[l]
    OBVIOUS
  <1>10. /\ call' = [call EXCEPT ![me] = c]
         /\ Quiet /\ mutex' = mutex
         /\ links' = [links EXCEPT !.next[Node(l)][n] = h, !.prev[Node(l)][n] = NULL]
    BY <1>2, <1>3, <1>4, <1>8, <1>9 DEF StoreNode, Store, Goto, Quiet
  <1>11. h \in Addr /\ NULL \in Addr /\ h # n
    BY <1>6, <1>7, <1>9, Pointers, SoundWalk, CreateAssumption DEF Addr
  <1>12. /\ links' \in LinkTables /\ links'.head = links.head
         /\ \A o \in Nodes : o # Node(l) => links'.next[o] = links.next[o] /\ links'.prev[o] = links.prev[o]
         /\ \A t \in Threads : t # n => /\ links'.next[Node(l)][t] = links.next[Node(l)][t]
                                        /\ links'.prev[Node(l)][t] = links.prev[Node(l)][t]
         /\ links'.next[Node(l)][n] = h /\ links'.prev[Node(l)][n] = NULL
    <2>1. PICK p : p = [links.prev EXCEPT ![Node(l)] = [links.prev[Node(l)] EXCEPT ![n] = NULL]]
      OBVIOUS
    <2>2. PICK q : q = [links.next EXCEPT ![Node(l)] = [links.next[Node(l)] EXCEPT ![n] = h]]
      OBVIOUS
    <2>3. links.prev \in [Nodes -> [Threads -> Addr]] /\ links.next \in [Nodes -> [Threads -> Addr]]
      BY <1>7 DEF LinkTables
    <2>4. /\ p \in [Nodes -> [Threads -> Addr]]
          /\ \A o \in Nodes : o # Node(l) => p[o] = links.prev[o]
          /\ \A t \in Threads : t # n => p[Node(l)][t] = links.prev[Node(l)][t]
          /\ p[Node(l)][n] = NULL
      BY <1>6, <1>7, <1>11, <2>1, <2>3
    <2>5. /\ q \in [Nodes -> [Threads -> Addr]]
          /\ \A o \in Nodes : o # Node(l) => q[o] = links.next[o]
          /\ \A t \in Threads : t # n => q[Node(l)][t] = links.next[Node(l)][t]
          /\ q[Node(l)][n] = h
      BY <1>6, <1>7, <1>11, <2>2, <2>3
    <2>6. links' = [links EXCEPT !.next = q, !.prev = p]
      BY <1>7, <1>10, <2>1, <2>2 DEF LinkTables
    <2>7. links'.prev = p /\ links'.next = q /\ links'.head = links.head /\ links' \in LinkTables
      BY <1>7, <2>4, <2>5, <2>6 DEF LinkTables
    <2> QED
      BY <2>4, <2>5, <2>7
  <1>13. ASSUME NEW m \in Lists, NEW t \in Members(links, m)
         PROVE  /\ links'.next[Node(m)][t] = links.next[Node(m)][t]
                /\ links'.prev[Node(m)][t] = links.prev[Node(m)][t]
    <2>1. t \in Threads /\ Node(m) \in Nodes
      BY <1>13, MembersAre, NodeOfList
    <2>2. Node(m) = Node(l) => t # n
      BY <1>6, <1>13
    <2> QED
      BY <1>12, <2>1, <2>2
  <1>14. AdderOK(links', l, c)
    <2>1. c.reg = h /\ c.at = "head" /\ c.new = n
      BY <1>1, <1>3, <1>4, <1>8, <1>9 DEF Frames
    <2>2. First(links', l, n)
      <3>1. h # NULL => h \in Threads
        BY <1>11 DEF Addr
      <3>2. h # NULL => links.prev[Node(l)][h] = n
        BY <1>8, <1>9 DEF First
      <3> QED
        BY <1>9, <1>11, <1>12, <3>1, <3>2 DEF First
    <2> QED
      BY <1>9, <1>12, <2>1, <2>2 DEF AdderOK
  <1>15. Stores(l, c)
    BY <1>2, <1>3, <1>5, <1>10, <1>12, <1>13, <1>14 DEF Stores
  <1> QED
    BY <1>1, <1>10, <1>15, StoreInv

-----------------------------------------------------------------------------
(* Steps that bring a new thread further, or end a call *)

\* A call that stands at c has yet to link its new thread into list l.
FreshAt(c, l) == \/ c.at = "tid"
                 \/ c.list = "all" /\ l # "all"
                 \/ c.list = l /\ c.at # "unlock"

\* The running thread goes on to c, with the new thread that it had or with none.
Proceeds(c) ==
    /\ me # Idle /\ c \in Frames /\ FrameOK(c)
    /\ c.at # "tid" /\ call[me].at # "tid"
    /\ c.new # NULL => c.new = call[me].new /\ (FreshAt(c, "ready") => FreshAt(call[me], "ready"))
    /\ call' = [call EXCEPT ![me] = c]

\* Threads that waited may become ready; all else about threads stays.
Wakes ==
    /\ UNCHANGED <<current_thread, allocated, tid, next_tid>> /\ overlap'.tid = overlap.tid
    /\ status' \in [Threads -> {"Ready", "Running", "Blocked", "Zombie"}]
    /\ \A t \in Threads : status'[t] = status[t] \/ (status[t] = "Blocked" /\ status'[t] = "Ready")

\* The other calls stay where they are.
LEMMA ProceedsCalls ==
    ASSUME Inv, NEW c, Proceeds(c)
    PROVE  /\ call'[me] = c /\ \A v \in Threads : v # me => call'[v] = call[v]
           /\ call' \in [Threads -> Frames]
  BY RunningThread DEF Proceeds, Inv, CallsOK

\* Such steps keep what the invariant says of threads, calls and numbers.
LEMMA ProceedsRest ==
    ASSUME Inv, NEW c, Proceeds(c), Wakes
    PROVE  StatusOK' /\ CallsOK' /\ FreshOK' /\ TidOK'
  <1>1. /\ me \in allocated /\ me \in Threads /\ status[me] = "Running"
        /\ allocated \subseteq Threads /\ {Idle, Main} \subseteq allocated /\ NULL \notin Threads
        /\ \A t \in Threads : status[t] = "Running" <=> t = me
        /\ status[Idle] \in {"Ready", "Running"} /\ status[Main] # "Zombie"
    BY RunningThread, CreateAssumption DEF Inv, StatusOK, me
  <1>2. /\ call'[me] = c /\ \A v \in Threads : v # me => call'[v] = call[v]
        /\ call' \in [Threads -> Frames]
    BY ProceedsCalls
  <1>3. /\ current_thread' = current_thread /\ allocated' = allocated /\ tid' = tid /\ next_tid' = next_tid
        /\ overlap'.tid = overlap.tid
        /\ status' \in [Threads -> {"Ready", "Running", "Blocked", "Zombie"}]
        /\ \A t \in Threads : status'[t] = status[t] \/ (status[t] = "Blocked" /\ status'[t] = "Ready")
    BY DEF Wakes
  <1>4. /\ me # Idle /\ FrameOK(c) /\ c.at # "tid" /\ call[me].at # "tid"
        /\ c.new # NULL => c.new = call[me].new /\ (FreshAt(c, "ready") => FreshAt(call[me], "ready"))
    BY DEF Proceeds
  <1>5. StatusOK'
    <2>1. current_thread' = me
      BY <1>3 DEF me
    <2>2. \A t \in Threads : status'[t] = "Running" <=> t = current_thread'
      BY <1>1, <1>3, <2>1
    <2>3. status'[Idle] \in {"Ready", "Running"} /\ status'[Main] # "Zombie"
      <3>1. Idle \in Threads /\ Main \in Threads
        BY <1>1
      <3> QED
        BY <1>1, <1>3, <3>1
    <2> QED
      BY <1>1, <1>3, <2>1, <2>2, <2>3 DEF StatusOK
  <1>6. CallsOK'
    <2>1. ASSUME NEW v \in allocated PROVE FrameOK(call'[v]) /\ (status'[v] = "Zombie" => call'[v].at = "client")
      <3>1. v \in Threads
        BY <1>1
      <3>2. CASE v = me
        BY <1>1, <1>2, <1>3, <1>4, <3>2
      <3>3. CASE v # me
        BY <1>2, <1>3, <3>1, <3>3 DEF Inv, CallsOK
      <3> QED
        BY <3>2, <3>3
    <2>2. \A v \in allocated' : FrameOK(call[v])' /\ (status'[v] = "Zombie" => call'[v].at = "client")
      BY <1>3, <2>1 DEF FrameOK
    <2>3. call'[Idle].at = "client"
      BY <1>1, <1>2, <1>4 DEF Inv, CallsOK
    <2> QED
      BY <1>2, <2>2, <2>3 DEF CallsOK
  <1>7. ASSUME NEW v \in allocated, call'[v].new # NULL, Fresh(v, "ready")'
        PROVE  /\ call'[v].new = call[v].new /\ Fresh(v, "ready")
               /\ call'[v].at # "tid" => call[v].at # "tid"
    <2>1. v \in Threads /\ FreshAt(call'[v], "ready")
      BY <1>1, <1>7 DEF Fresh, FreshAt
    <2>2. CASE v = me
      BY <1>2, <1>4, <1>7, <2>1, <2>2 DEF Fresh, FreshAt
    <2>3. CASE v # me
      BY <1>2, <2>1, <2>3 DEF Fresh, FreshAt
    <2> QED
      BY <2>2, <2>3
  <1>8. FreshOK'
    <2>1. ASSUME NEW v \in allocated' PROVE NewOK(v)'
      <3> SUFFICES ASSUME call'[v].new # NULL, Fresh(v, "ready")'
                   PROVE  /\ call'[v].new \in allocated' \ {Idle, Main}
                          /\ call'[call'[v].new].at = "client"
                          /\ status'[call'[v].new] \in {"Ready", "Zombie"}
                          /\ call'[v].at # "tid" => status'[call'[v].new] = "Ready"
        BY DEF NewOK
      <3>1. PICK n : n = call[v].new
        OBVIOUS
      <3>2. v \in allocated /\ n # NULL /\ call'[v].new = n /\ Fresh(v, "ready")
            /\ (call'[v].at # "tid" => call[v].at # "tid")
        BY <1>3, <1>7, <3>1
      <3>3. /\ n \in allocated \ {Idle, Main} /\ call[n].at = "client"
            /\ status[n] \in {"Ready", "Zombie"}
            /\ call[v].at # "tid" => status[n] = "Ready"
        BY <3>1, <3>2 DEF Inv, FreshOK, NewOK
      <3>4. n \in Threads /\ n # me
        BY <1>1, <3>3
      <3>5. call'[n] = call[n] /\ status'[n] = status[n]
        BY <1>2, <1>3, <3>3, <3>4
      <3> QED
        BY <1>3, <3>2, <3>3, <3>5
    <2>2. ASSUME NEW u \in allocated', NEW v \in allocated', call'[v].new # NULL, call'[u].new = call'[v].new,
                 Fresh(u, "ready")', Fresh(v, "ready")'
          PROVE  u = v
      <3>1. /\ call[v].new # NULL /\ call[u].new = call[v].new
            /\ Fresh(u, "ready") /\ Fresh(v, "ready") /\ u \in allocated /\ v \in allocated
        BY <1>3, <1>7, <2>2
      <3> QED
        BY <3>1 DEF Inv, FreshOK
    <2> QED
      BY <2>1, <2>2 DEF FreshOK
  <1>9. TidOK'
    <2>1. \A v \in allocated : /\ call'[v].at = "tid" <=> call[v].at = "tid"
                               /\ call[v].at = "tid" => call'[v] = call[v]
      BY <1>1, <1>2, <1>4
    <2>2. Numbered' = Numbered
      BY <1>3, <2>1 DEF Numbered
    <2> QED
      BY <1>3, <2>1, <2>2 DEF Inv, TidOK
  <1> QED
    BY <1>5, <1>6, <1>8, <1>9

\* Who makes thread t and has not linked it into l yet: another thread, or this one.
Makes(l, t) == \E v \in allocated : v # me /\ Fresh(v, l) /\ call[v].new = t

\* The threads that are yet to be linked, before and after.
LEMMA ProceedsUnlinked ==
    ASSUME Inv, NEW c, Proceeds(c), allocated' = allocated, NEW l \in Lists, NEW t \in Threads
    PROVE  /\ t \in Unlinked(l)' <=> Makes(l, t) \/ (FreshAt(c, l) /\ c.new = t)
           /\ t \in Unlinked(l) <=> Makes(l, t) \/ (FreshAt(call[me], l) /\ call[me].new = t)
  <1>1. t \in Unlinked(l) <=> \E v \in allocated : FreshAt(call[v], l) /\ call[v].new = t
    BY DEF Unlinked, FreshAt
  <1>2. t \in Unlinked(l)' <=> \E v \in allocated' : FreshAt(call'[v], l) /\ call'[v].new = t
    BY DEF Unlinked, FreshAt
  <1>3. Makes(l, t) <=> \E v \in allocated : v # me /\ FreshAt(call[v], l) /\ call[v].new = t
    BY DEF Makes, Fresh, FreshAt
  <1>4. me \in allocated /\ allocated \subseteq Threads
    BY RunningThread DEF Inv, StatusOK
  <1>5. call'[me] = c /\ \A v \in Threads : v # me => call'[v] = call[v]
    BY ProceedsCalls
  <1> QED
    BY <1>1, <1>2, <1>3, <1>4, <1>5

\* What Belongs says of a thread.
LEMMA BelongsIs ==
    /\ \A l, t : t \in Belongs(l) <=> /\ t \in allocated /\ t \notin Unlinked(l)
                                      /\ \/ l = "all"
                                         \/ l = "ready" /\ status[t] = "Ready" /\ t # Idle
                                         \/ l = "zombie" /\ status[t] = "Zombie"
    /\ \A l, t : t \in Belongs(l)' <=> /\ t \in allocated' /\ t \notin Unlinked(l)'
                                       /\ \/ l = "all"
                                          \/ l = "ready" /\ status'[t] = "Ready" /\ t # Idle
                                          \/ l = "zombie" /\ status'[t] = "Zombie"
  BY DEF Belongs

\* ListsOK of the next state, from one list after the other.
LEMMA ListsNext ==
    ASSUME links' \in LinkTables,
           \A l \in Lists : Path(links', l),
           \A l \in Lists : Members(links', l) = Belongs(l)',
           \A l \in Lists : Storing(l)' # {} \/ First(links', l, NULL),
           \A t, u \in Members(links', "zombie") : t = u
    PROVE  ListsOK'
  <1>1. ASSUME NEW l \in Lists
        PROVE  Path(links, l)' /\ Members(links, l)' = Belongs(l)' /\ (Storing(l)' = {} => First(links, l, NULL)')
    <2>1. (Path(links, l)' <=> Path(links', l)) /\ Members(links, l)' = Members(links', l)
          /\ (First(links, l, NULL)' <=> First(links', l, NULL))
      BY DEF Path, Members, Walk, First, Node
    <2> QED
      BY <2>1
  <1>2. \A t, u \in Members(links, "zombie")' : t = u
    <2>1. Members(links, "zombie")' = Members(links', "zombie")
      BY DEF Members, Walk, Node
    <2> QED
      BY <2>1
  <1> QED
    BY <1>1, <1>2 DEF ListsOK

\* *head = thread: the new thread is linked.
LEMMA StoreHeadInv ==
    ASSUME Inv, StoreHead
    PROVE  Inv'
  <1>1. me \in allocated /\ me # Idle /\ me \in Threads /\ FrameOK(call[me]) /\ call[me] \in Frames
    BY RunningThread DEF StoreHead, At
  <1>2. PICK l : l = call[me].list
    OBVIOUS
  <1>3. PICK c : c = [call[me] EXCEPT !.at = "unlock"]
    OBVIOUS
  <1>4. PICK n : n = call[me].new
    OBVIOUS
  <1>5. /\ call[me].at = "head"
        /\ call' = [call EXCEPT ![me] = c]
        /\ UNCHANGED <<current_thread, status, allocated, mutex, tid, next_tid, halted, overlap>>
        /\ links' = [links EXCEPT !.head[l] = n]
    BY <1>2, <1>3, <1>4 DEF StoreHead, Store, At, Goto
  <1>6. /\ n \in Threads /\ l \in {"all", "ready"} /\ l \in Lists
        /\ \A m \in Lists : Node(m) = Node(l) => n \notin Members(links, m)
        /\ n \in allocated /\ n \in Unlinked(l) /\ status[n] = "Ready" /\ n \notin {Idle, Main, me}
    BY <1>2, <1>4, <1>5, NewUnlinked, ListNames
  <1>7. links \in LinkTables /\ Path(links, l) /\ Node(l) \in Nodes /\ n \in Addr /\ n # NULL
    BY <1>6, MembersAre, NodeOfList, CreateAssumption DEF Addr
  <1>8. /\ call[me].reg = links.head[l] /\ First(links, l, n)
        /\ links.next[Node(l)][n] = links.head[l] /\ links.prev[Node(l)][n] = NULL
    <2>1. me \in Adding(l)
      BY <1>1, <1>2, <1>5 DEF Adding
    <2> QED
      BY <1>4, <1>5, <1>6, <2>1, AddersWere DEF AdderOK
  <1>9. /\ links' \in LinkTables /\ links'.next = links.next /\ links'.prev = links.prev
        /\ links'.head[l] = n /\ \A m \in Lists : m # l => links'.head[m] = links.head[m]
    <2>1. PICK p : p = [links.head EXCEPT ![l] = n]
      OBVIOUS
    <2>2. links.head \in [Lists -> Addr]
      BY <1>7 DEF LinkTables
    <2>3. p \in [Lists -> Addr] /\ p[l] = n /\ \A m \in Lists : m # l => p[m] = links.head[m]
      BY <1>6, <1>7, <2>1, <2>2
    <2>4. links' = [links EXCEPT !.head = p]
      BY <1>5, <2>1
    <2>5. links'.head = p /\ links'.next = links.next /\ links'.prev = links.prev /\ links' \in LinkTables
      BY <1>7, <2>3, <2>4 DEF LinkTables
    <2> QED
      BY <2>3, <2>5
  <1>10. /\ Members(links', l) = Members(links, l) \cup {n} /\ Path(links', l) /\ First(links', l, NULL)
    <2>1. ASSUME NEW u \in Members(links, l), u = links.head[l] PROVE links.prev[Node(l)][u] = n
      <3>1. u # NULL
        BY <1>6, MembersAre, CreateAssumption
      <3> QED
        BY <1>8, <2>1, <3>1 DEF First
    <2>2. Pushed(links, l, n, links')
      BY <1>8, <1>9, <2>1 DEF Pushed
    <2> QED
      BY <1>6, <1>7, <2>2, PushPath
  <1>11. ASSUME NEW m \in Lists, m # l PROVE Untouched(links, links', m)
    BY <1>7, <1>9, <1>11, UntouchedIf
  <1>12. /\ c.list = l /\ c.new = n /\ c.at = "unlock" /\ c \in Frames
    BY <1>1, <1>2, <1>3, <1>4 DEF Frames, Points
  <1>13. FrameOK(c)
    BY <1>6, <1>12 DEF FrameOK
  <1>14. Proceeds(c)
    <2>1. FreshAt(call[me], "ready")
      BY <1>2, <1>5, <1>6 DEF FreshAt
    <2> QED
      BY <1>1, <1>4, <1>5, <1>12, <1>13, <2>1 DEF Proceeds
  <1>15. StatusOK' /\ CallsOK' /\ FreshOK' /\ TidOK'
    <2>1. Wakes
      BY <1>5 DEF Wakes, Inv, StatusOK
    <2> QED
      BY <1>14, <2>1, ProceedsRest
  <1>16. /\ call'[me] = c /\ \A v \in Threads : v # me => call'[v] = call[v]
         /\ allocated \subseteq Threads /\ allocated' = allocated
    BY <1>5, <1>14, ProceedsCalls DEF Inv, StatusOK
  <1>17. ~ Makes(l, n)
    <2>1. ASSUME NEW v \in allocated, v # me, Fresh(v, l), call[v].new = n PROVE FALSE
      <3>1. FrameOK(call[v]) /\ call[v] \in Frames
        BY <1>16 DEF Inv, CallsOK
      <3>2. Fresh(v, "ready")
        BY <1>6, <1>7, <2>1, <3>1, FreshReady
      <3>3. Fresh(me, "ready")
        BY <1>2, <1>5, <1>6 DEF Fresh
      <3> QED
        BY <1>1, <1>4, <1>7, <2>1, <3>2, <3>3 DEF Inv, FreshOK
    <2> QED
      BY <2>1 DEF Makes
  <1>18. ASSUME NEW m \in Lists, NEW t \in Threads
         PROVE  t \in Unlinked(m)' <=> t \in Unlinked(m) /\ (m # l \/ t # n)
    <2>1. /\ t \in Unlinked(m)' <=> Makes(m, t) \/ (FreshAt(c, m) /\ c.new = t)
          /\ t \in Unlinked(m) <=> Makes(m, t) \/ (FreshAt(call[me], m) /\ call[me].new = t)
      BY <1>14, <1>16, ProceedsUnlinked
    <2>2. CASE m = l
      <3>1. ~ FreshAt(c, l) /\ FreshAt(call[me], l)
        BY <1>2, <1>5, <1>12 DEF FreshAt
      <3> QED
        BY <1>4, <1>17, <2>1, <2>2, <3>1
    <2>3. CASE m # l
      <3>1. FreshAt(c, m) <=> FreshAt(call[me], m)
        BY <1>2, <1>5, <1>12, <2>3 DEF FreshAt
      <3> QED
        BY <1>4, <1>12, <2>1, <2>3, <3>1
    <2> QED
      BY <2>2, <2>3
  <1>19. ASSUME NEW m \in Lists PROVE Belongs(m)' = IF m = l THEN Belongs(l) \cup {n} ELSE Belongs(m)
    <2>1. \A t : t \in Belongs(m)' => t \in Threads
      BY <1>16, BelongsIs
    <2>2. \A t : t \in Belongs(m) => t \in Threads
      BY <1>16, BelongsIs
    <2>3. CASE m = l
      <3>1. ASSUME NEW t \in Threads PROVE t \in Belongs(l)' <=> t \in Belongs(l) \/ t = n
        BY <1>5, <1>6, <1>18, BelongsIs
      <3> QED
        BY <1>6, <2>1, <2>2, <2>3, <3>1
    <2>4. CASE m # l
      <3>1. ASSUME NEW t \in Threads PROVE t \in Belongs(m)' <=> t \in Belongs(m)
        BY <1>5, <1>18, <2>4, BelongsIs
      <3> QED
        BY <2>1, <2>2, <2>4, <3>1
    <2> QED
      BY <2>3, <2>4
  <1>20. ASSUME NEW m \in Lists PROVE Members(links', m) = Belongs(m)' /\ Path(links', m)
    <2>1. Members(links, m) = Belongs(m) /\ Path(links, m)
      BY MembersAre
    <2>2. CASE m = l
      BY <1>10, <1>19, <2>1, <2>2
    <2>3. CASE m # l
      BY <1>11, <1>19, <2>1, <2>3 DEF Untouched
    <2> QED
      BY <2>2, <2>3
  <1>21. ASSUME NEW m \in Lists PROVE Storing(m)' # {} \/ First(links', m, NULL)
    <2>1. CASE m = l
      BY <1>10, <2>1
    <2>2. CASE m # l
      <3>1. ASSUME NEW v \in Storing(m) PROVE v \in Storing(m)'
        <4>1. v # me /\ v \in Threads
          BY <1>2, <1>16, <2>2, <3>1 DEF Storing
        <4> QED
          BY <1>16, <3>1, <4>1 DEF Storing
      <3>2. Storing(m) = {} => First(links', m, NULL)
        BY <1>11, <2>2, MembersAre DEF Untouched
      <3> QED
        BY <3>1, <3>2
    <2> QED
      BY <2>1, <2>2
  <1>22. ListsOK'
    <2>1. \A t, u \in Members(links', "zombie") : t = u
      <3>1. Members(links', "zombie") = Members(links, "zombie")
        BY <1>6, <1>11, ListNames DEF Untouched
      <3> QED
        BY <3>1 DEF Inv, ListsOK
    <2> QED
      BY <1>9, <1>20, <1>21, <2>1, ListsNext
  <1>23. AddOK'
    <2> SUFFICES ASSUME NEW m \in Lists, NEW v \in Adding(m)'
                 PROVE  AdderOK(links', m, call'[v]) /\ (m = "ready" => v = current_thread')
      BY DEF AddOK, First, Node, AdderOK
    <2>1. v # me /\ v \in Adding(m) /\ call'[v] = call[v]
      BY <1>12, <1>16 DEF Adding
    <2>2. call[v].list = m /\ call[v].at \in {"back", "link", "head"} /\ v \in allocated
      BY <2>1 DEF Adding
    <2>3. m # l
      BY <1>2, <1>5, <2>1, <2>2, Alone DEF Guard, Busy
    <2>4. AdderOK(links, m, call[v]) /\ (m = "ready" => v = me)
      BY <2>1, AddersWere DEF Inv, AddOK, me
    <2> QED
      BY <1>5, <1>9, <2>1, <2>3, <2>4 DEF AdderOK, First
  <1>24. WalkOK'
    <2> SUFFICES ASSUME NEW m \in Lists, NEW t \in Walking(m)' \ overlap'.astray
                 PROVE  /\ call'[t].count \in Places
                        /\ call'[t].reg = Walk(links', m)[call'[t].count]
                        /\ \A i \in Places : i < call'[t].count =>
                              Walk(links', m)[i] # NULL /\ tid'[Walk(links', m)[i]] # call'[t].seek
      BY DEF WalkOK, Walk, Node, Places
    <2>1. t # me /\ t \in Walking(m) /\ call'[t] = call[t] /\ t \notin overlap.astray
      BY <1>5, <1>12, <1>16 DEF Walking
    <2>2. call[t].list = m /\ call[t].at = "walk" /\ t \in allocated
      BY <2>1 DEF Walking
    <2>3. m # l
      BY <1>2, <1>5, <2>1, <2>2, Alone DEF Guard, Busy
    <2>4. Walk(links', m) = Walk(links, m)
      BY <1>11, <2>3 DEF Untouched
    <2> QED
      BY <1>5, <2>1, <2>4 DEF Inv, WalkOK
  <1>25. MutexOK'
    <2>1. MutexIs(mutex, allocated, call, status)
      BY MutexParts DEF Inv
    <2>2. /\ \A v \in allocated : call[v].at \in Busy =>
                /\ v \in allocated /\ call'[v].at \in Busy /\ call'[v].list = call[v].list
                /\ status[v] = "Blocked" => call'[v] = call[v] /\ status[v] = status[v]
          /\ \A v \in allocated : call'[v].at \in Busy => call[v].at \in Busy
      BY <1>2, <1>5, <1>12, <1>16, RunningThread DEF Busy
    <2>3. MutexIs(mutex, allocated, call', status)
      BY <1>16, <2>1, <2>2, MutexSame
    <2> QED
      BY <1>5, <2>3, MutexParts
  <1>26. OverlapOK' /\ halted' = "no"
    BY <1>5 DEF Inv, OverlapOK
  <1> QED
    BY <1>15, <1>22, <1>23, <1>24, <1>25, <1>26 DEF Inv

\* The running thread goes on to c outside its mutex. What it has yet to link stays,
\* but that a thread in the list of all threads is no longer on its way into others.
Finishes(c) ==
    /\ Proceeds(c) /\ c.at \notin Busy /\ call[me].at \in {"unlock", "walk"}
    /\ \A l \in Lists \ {"zombie"} : \A t \in Threads :
          FreshAt(c, l) /\ c.new = t <=> FreshAt(call[me], l) /\ call[me].new = t
    /\ \A t \in Threads : FreshAt(c, "zombie") /\ c.new = t => FreshAt(call[me], "zombie") /\ call[me].new = t
    /\ call[me].new # NULL /\ FreshAt(call[me], "zombie") => status[call[me].new] = "Ready"

\* Nobody is linked or forgotten at the end of a call.
LEMMA FinishSets ==
    ASSUME Inv, NEW c, Finishes(c), allocated' = allocated, NEW t \in Threads
    PROVE  /\ t \in Unlinked("all")' <=> t \in Unlinked("all")
           /\ t \in Unlinked("ready")' <=> t \in Unlinked("ready")
           /\ t \in Unlinked("zombie")' => t \in Unlinked("zombie")
           /\ t \in Unlinked("zombie") => t \in Unlinked("zombie")' \/ status[t] = "Ready"
  <1>1. ASSUME NEW l \in Lists
        PROVE  /\ t \in Unlinked(l)' <=> Makes(l, t) \/ (FreshAt(c, l) /\ c.new = t)
               /\ t \in Unlinked(l) <=> Makes(l, t) \/ (FreshAt(call[me], l) /\ call[me].new = t)
    BY ProceedsUnlinked DEF Finishes
  <1>2. t # NULL
    BY CreateAssumption
  <1> QED
    BY <1>1, <1>2, ListNames DEF Finishes

\* What a release leaves of calls: nobody begins to insert or to walk.
LEMMA FinishOthers ==
    ASSUME Inv, NEW c, Finishes(c), allocated' = allocated, NEW l \in Lists
    PROVE  /\ \A v \in Adding(l)' : v # me /\ v \in Adding(l) /\ call'[v] = call[v]
           /\ \A v \in Walking(l)' : v # me /\ v \in Walking(l) /\ call'[v] = call[v]
           /\ \A v \in Storing(l) : v \in Storing(l)'
           /\ l = "zombie" => Storing(l) = {} /\ Adding(l) = {}
  <1>1. /\ call'[me] = c /\ \A v \in Threads : v # me => call'[v] = call[v]
        /\ allocated \subseteq Threads
    BY ProceedsCalls DEF Finishes, Inv, StatusOK
  <1>2. c.at \notin Busy /\ call[me].at \in {"unlock", "walk"}
    BY DEF Finishes
  <1>3. l = "zombie" => Storing(l) = {} /\ Adding(l) = {}
    BY DEF Storing, Adding, Inv, CallsOK, FrameOK
  <1> QED
    BY <1>1, <1>2, <1>3 DEF Adding, Walking, Storing, Busy

\* mutex_release() when no thread waits keeps the invariant.
LEMMA FreeInv ==
    ASSUME Inv, NEW c, Finishes(c),
           mutex[Guard(call[me].list)].waiters = <<>>,
           mutex' = [mutex EXCEPT ![Guard(call[me].list)].owner = NULL],
           NEW done \in SUBSET {me}, overlap' = [overlap EXCEPT !.astray = @ \ done],
           UNCHANGED <<current_thread, status, allocated, links, tid, next_tid, halted>>
    PROVE  Inv'
  <1>1. me \in allocated /\ me \in Threads /\ allocated \subseteq Threads
    BY RunningThread DEF Inv, StatusOK
  <1>2. /\ call'[me] = c /\ \A v \in Threads : v # me => call'[v] = call[v]
        /\ c.at \notin Busy /\ call[me].at \in {"unlock", "walk"} /\ Proceeds(c)
    BY ProceedsCalls DEF Finishes
  <1>3. /\ overlap'.tid = overlap.tid /\ overlap'.astray = overlap.astray \ done /\ OverlapOK'
    BY DEF Inv, OverlapOK
  <1>4. StatusOK' /\ CallsOK' /\ FreshOK' /\ TidOK'
    <2>1. Wakes
      BY <1>3 DEF Wakes, Inv, StatusOK
    <2> QED
      BY <1>2, <2>1, ProceedsRest
  <1>5. ListsOK'
    <2>1. ASSUME NEW m \in Lists PROVE Belongs(m)' = Belongs(m)
      <3>1. ASSUME NEW t \in Threads PROVE t \in Belongs(m)' <=> t \in Belongs(m)
        BY FinishSets, BelongsIs
      <3>2. \A t : (t \in Belongs(m) \/ t \in Belongs(m)') => t \in Threads
        BY <1>1, BelongsIs
      <3> QED
        BY <3>1, <3>2
    <2>2. ASSUME NEW m \in Lists
          PROVE  Members(links', m) = Belongs(m)' /\ Path(links', m) /\ (Storing(m)' # {} \/ First(links', m, NULL))
      BY <2>1, MembersAre, FinishOthers
    <2>3. /\ \A t, u \in Members(links', "zombie") : t = u
          /\ links' \in LinkTables
      BY DEF Inv, ListsOK
    <2> QED
      BY <2>2, <2>3, ListsNext
  <1>6. AddOK'
    <2> SUFFICES ASSUME NEW m \in Lists, NEW v \in Adding(m)'
                 PROVE  AdderOK(links', m, call'[v]) /\ (m = "ready" => v = current_thread')
      BY DEF AddOK, First, Node, AdderOK
    <2>1. v \in Adding(m) /\ call'[v] = call[v]
      BY FinishOthers
    <2> QED
      BY <2>1, AddersWere DEF Inv, AddOK
  <1>7. WalkOK'
    <2> SUFFICES ASSUME NEW m \in Lists, NEW t \in Walking(m)' \ overlap'.astray
                 PROVE  /\ call'[t].count \in Places
                        /\ call'[t].reg = Walk(links', m)[call'[t].count]
                        /\ \A i \in Places : i < call'[t].count =>
                              Walk(links', m)[i] # NULL /\ tid'[Walk(links', m)[i]] # call'[t].seek
      BY DEF WalkOK, Walk, Node, Places
    <2>1. t # me /\ t \in Walking(m) /\ call'[t] = call[t]
      BY FinishOthers
    <2>2. t \notin overlap.astray
      BY <1>3, <2>1
    <2> QED
      BY <2>1, <2>2 DEF Inv, WalkOK
  <1>8. MutexOK'
    <2>1. MutexIs(mutex, allocated, call, status)
      BY MutexParts DEF Inv
    <2>2. mutex[Guard(call[me].list)].owner = me /\ Guard(call[me].list) \in Nodes
      BY <1>2, RunningThread DEF Busy, Guard, Node, Nodes
    <2>3. Frees(mutex, allocated, call, Guard(call[me].list), me, mutex', call')
      BY <1>1, <1>2, <2>2 DEF Frees
    <2>4. MutexIs(mutex', allocated, call', status)
      BY <1>1, <2>1, <2>3, MutexFreed
    <2> QED
      BY <2>4, MutexParts
  <1> QED
    BY <1>3, <1>4, <1>5, <1>6, <1>7, <1>8 DEF Inv

\* mutex_release() gives mutex m to its first waiter h, which becomes ready.
Wakens(m, h, done) ==
    /\ m = Guard(call[me].list) /\ mutex[m].waiters # <<>> /\ h = Head(mutex[m].waiters)
    /\ mutex' = [mutex EXCEPT ![m] = [owner |-> Head(@.waiters), waiters |-> Tail(@.waiters)]]
    /\ status' = [status EXCEPT ![h] = "Ready"]
    /\ links' = thread_list_add(links, "ready", h)
    /\ overlap' = [Disturb(links') EXCEPT !.astray = @ \ done]

\* This keeps the invariant, unless it tears the ready list.
LEMMA GiveInv ==
    ASSUME Inv, NEW c, Finishes(c), NEW m, NEW h, NEW done \in SUBSET {me}, Wakens(m, h, done),
           overlap'.torn = {},
           UNCHANGED <<current_thread, allocated, tid, next_tid, halted>>
    PROVE  Inv'
  <1>1. /\ me \in allocated /\ me \in Threads /\ allocated \subseteq Threads
        /\ status \in [Threads -> {"Ready", "Running", "Blocked", "Zombie"}]
        /\ status[Idle] \in {"Ready", "Running"}
    BY RunningThread DEF Inv, StatusOK
  <1>2. /\ call'[me] = c /\ \A v \in Threads : v # me => call'[v] = call[v]
        /\ c.at \notin Busy /\ call[me].at \in {"unlock", "walk"} /\ Proceeds(c)
    BY ProceedsCalls DEF Finishes
  <1>3. mutex[m].owner = me /\ m \in Nodes
    BY <1>2, RunningThread DEF Busy, Guard, Node, Nodes, Wakens
  <1>4. MutexIs(mutex, allocated, call, status)
    BY MutexParts DEF Inv
  <1>5. h \in Range(mutex[m].waiters)
    <2>1. mutex[m].waiters \in Seq(Threads) /\ IsInjective(mutex[m].waiters)
      BY <1>3 DEF Inv, MutexOK
    <2> QED
      BY <2>1, TailList DEF Wakens
  <1>6. h \in allocated /\ h \in Threads /\ status[h] = "Blocked" /\ h # Idle
    BY <1>1, <1>3, <1>5 DEF Inv, MutexOK
  <1>7. /\ status'[h] = "Ready" /\ \A v \in Threads : v # h => status'[v] = status[v]
        /\ status' \in [Threads -> {"Ready", "Running", "Blocked", "Zombie"}]
    BY <1>1, <1>6 DEF Wakens
  <1>8. MutexOK'
    <2>1. Gives(mutex, allocated, call, status, m, me, h, mutex', call', status')
      BY <1>1, <1>2, <1>3, <1>7 DEF Gives, Wakens
    <2>2. MutexIs(mutex', allocated, call', status')
      BY <1>1, <1>4, <2>1, MutexGiven
    <2> QED
      BY <2>2, MutexParts
  <1>9. PICK d : d = Disturb(links')
    OBVIOUS
  <1>10. /\ d \in [torn : SUBSET Lists, astray : SUBSET Threads, tid : BOOLEAN]
         /\ d.tid = overlap.tid
    BY <1>1, <1>9, Disturbed DEF Inv
  <1>11. /\ overlap' = [d EXCEPT !.astray = @ \ done]
         /\ overlap'.tid = overlap.tid /\ overlap'.astray = d.astray \ done /\ overlap'.torn = d.torn
         /\ OverlapOK'
    <2>1. overlap' = [d EXCEPT !.astray = @ \ done]
      BY <1>9 DEF Wakens
    <2> QED
      BY <1>10, <2>1 DEF OverlapOK
  <1>12. \A l \in Lists : Adding(l) # {} => Walk(links', l) = Walk(links, l)
    BY <1>9, <1>11, NotTorn DEF Inv
  <1>13. \A l \in Lists : \A t \in Walking(l) : t \notin d.astray =>
            Walk(links', l) = Walk(links, l) /\ t \notin overlap.astray
    <2>1. d.astray = overlap.astray \cup UNION {Walking(l) : l \in {o \in Lists : Changed(links', o)}}
      BY <1>9 DEF Disturb, Inv, OverlapOK
    <2> QED
      BY <2>1 DEF Changed
  <1>14. StatusOK' /\ CallsOK' /\ FreshOK' /\ TidOK'
    <2>1. \A t \in Threads : status'[t] = status[t] \/ (status[t] = "Blocked" /\ status'[t] = "Ready")
      BY <1>6, <1>7
    <2>2. Wakes
      BY <1>7, <1>11, <2>1 DEF Wakes
    <2> QED
      BY <1>2, <2>2, ProceedsRest
  <1> DEFINE R == Members(links, "ready")
             Z == Members(links, "zombie")
  <1>15. /\ R = Belongs("ready") /\ Z = Belongs("zombie") /\ links \in LinkTables
         /\ Members(links, "all") = Belongs("all") /\ Path(links, "all")
         /\ Path(links, "ready") /\ Path(links, "zombie")
         /\ \A l \in Lists : Storing(l) = {} => First(links, l, NULL)
    BY MembersAre, ListNames
  <1>16. h \notin R \cup Z
    BY <1>6, <1>15, BelongsIs
  <1>17. PICK k : k = links'
    OBVIOUS
  <1>18. ASSUME Adding("ready") = {}
         PROVE  LocalOK(k, R \cup {h}, Z) /\ AllSame(links, k)
    <2>1. Storing("ready") = {} /\ Storing("zombie") = {}
      BY <1>18, StoringAdds, FinishOthers, ListNames
    <2>2. R \cap Z = {}
      BY <1>15, BelongsIs
    <2>3. LocalOK(links, R, Z)
      BY <1>15, <2>1, <2>2, ListNames DEF LocalOK
    <2>4. k = thread_list_add(links, "ready", h)
      BY <1>17 DEF Wakens
    <2> HIDE DEF R, Z
    <2> QED
      BY <1>6, <1>16, <2>3, <2>4, AddLocal
  <1>19. Adding("ready") = {}
    <2> SUFFICES ASSUME Adding("ready") # {} PROVE FALSE
      OBVIOUS
    <2>1. Walk(links', "ready") = Walk(links, "ready")
      BY <1>12, ListNames
    <2>2. links'.head["ready"] = links.head["ready"]
      BY <2>1, HeadChanges
    <2>3. links'.head["ready"] = h
      <3>1. thread_list_add(links, "ready", h).head = [links.head EXCEPT !["ready"] = h]
        BY <1>6, <1>15, AddIsPushed, ListNames
      <3>2. links.head \in [Lists -> Addr]
        BY <1>15 DEF LinkTables
      <3> QED
        BY <3>1, <3>2, ListNames DEF Wakens
    <2>4. h # NULL
      BY <1>6, CreateAssumption
    <2>5. h \in Members(links, "ready")
      BY <1>15, <2>2, <2>3, <2>4, SoundWalk, ListNames
    <2> QED
      BY <1>16, <2>5
  <1>20. /\ k \in LinkTables
         /\ Path(k, "ready") /\ First(k, "ready", NULL) /\ Members(k, "ready") = R \cup {h}
         /\ Path(k, "zombie") /\ First(k, "zombie", NULL) /\ Members(k, "zombie") = Z
         /\ Untouched(links, k, "all") /\ k.next["all"] = links.next["all"] /\ k.prev["all"] = links.prev["all"]
    BY <1>18, <1>19 DEF LocalOK, AllSame
  <1>21. ASSUME NEW l \in Lists
         PROVE  Belongs(l)' = IF l = "ready" THEN Belongs("ready") \cup {h} ELSE Belongs(l)
    <2>1. h \notin Unlinked("ready")
      BY <1>1, <1>6, UnlinkedNew, ListNames DEF Inv
    <2>2. \A t : (t \in Belongs(l)' \/ t \in Belongs(l)) => t \in Threads
      BY <1>1, BelongsIs
    <2>3. ASSUME NEW t \in Threads
          PROVE  /\ t \in Unlinked("all")' <=> t \in Unlinked("all")
                 /\ t \in Unlinked("ready")' <=> t \in Unlinked("ready")
                 /\ t \in Unlinked("zombie")' => t \in Unlinked("zombie")
                 /\ t \in Unlinked("zombie") => t \in Unlinked("zombie")' \/ status[t] = "Ready"
      BY FinishSets
    <2>4. CASE l = "all"
      <3>1. ASSUME NEW t \in Threads PROVE t \in Belongs("all")' <=> t \in Belongs("all")
        BY <2>3, BelongsIs
      <3> QED
        BY <2>2, <2>4, <3>1
    <2>5. CASE l = "zombie"
      <3>1. ASSUME NEW t \in Threads PROVE t \in Belongs("zombie")' <=> t \in Belongs("zombie")
        <4>1. status'[t] = "Zombie" <=> status[t] = "Zombie"
          BY <1>6, <1>7
        <4> QED
          BY <2>3, <4>1, BelongsIs
      <3> QED
        BY <2>2, <2>5, <3>1
    <2>6. CASE l = "ready"
      <3>1. ASSUME NEW t \in Threads PROVE t \in Belongs("ready")' <=> t \in Belongs("ready") \/ t = h
        <4>1. status'[t] = "Ready" <=> status[t] = "Ready" \/ t = h
          BY <1>6, <1>7
        <4> QED
          BY <1>6, <2>1, <2>3, <4>1, BelongsIs
      <3> QED
        BY <1>6, <2>2, <2>6, <3>1
    <2> QED
      BY <2>4, <2>5, <2>6, ListNames
  <1>22. ListsOK'
    <2>1. /\ Members(k, "all") = Belongs("all")' /\ Path(k, "all")
          /\ Storing("all") = {} => First(k, "all", NULL)
      BY <1>15, <1>20, <1>21, ListNames DEF Untouched
    <2>2. /\ Members(k, "ready") = Belongs("ready")' /\ Members(k, "zombie") = Belongs("zombie")'
      BY <1>15, <1>20, <1>21, ListNames
    <2>3. Storing("all") # {} => Storing("all")' # {}
      BY FinishOthers, ListNames
    <2>4. \A t, u \in Members(k, "zombie") : t = u
      <3>1. \A t, u \in Z : t = u
        BY DEF Inv, ListsOK
      <3> QED
        BY <1>20, <3>1
    <2>5. ASSUME NEW l \in Lists
          PROVE  Members(k, l) = Belongs(l)' /\ Path(k, l) /\ (Storing(l)' # {} \/ First(k, l, NULL))
      BY <1>20, <2>1, <2>2, <2>3, ListNames
    <2> QED
      BY <1>17, <1>20, <2>4, <2>5, ListsNext
  <1>23. AddOK'
    <2> SUFFICES ASSUME NEW l \in Lists, NEW v \in Adding(l)'
                 PROVE  AdderOK(links', l, call'[v]) /\ (l = "ready" => v = current_thread')
      BY DEF AddOK, First, Node, AdderOK
    <2>1. v \in Adding(l) /\ call'[v] = call[v] /\ l = "all"
      BY <1>19, FinishOthers, ListNames
    <2>2. AdderOK(links, "all", call[v])
      BY <2>1, AddersWere
    <2>3. k.head["all"] = links.head["all"]
      BY <1>20, HeadChanges DEF Untouched
    <2>4. AdderOK(k, "all", call[v])
      BY <1>20, <2>2, <2>3, ListNames DEF AdderOK, Untouched
    <2> QED
      BY <1>17, <2>1, <2>4
  <1>24. WalkOK'
    <2> SUFFICES ASSUME NEW l \in Lists, NEW t \in Walking(l)' \ overlap'.astray
                 PROVE  /\ call'[t].count \in Places
                        /\ call'[t].reg = Walk(links', l)[call'[t].count]
                        /\ \A i \in Places : i < call'[t].count =>
                              Walk(links', l)[i] # NULL /\ tid'[Walk(links', l)[i]] # call'[t].seek
      BY DEF WalkOK, Walk, Node, Places
    <2>1. t # me /\ t \in Walking(l) /\ call'[t] = call[t]
      BY FinishOthers
    <2>2. t \notin d.astray
      BY <1>11, <2>1
    <2>3. Walk(links', l) = Walk(links, l) /\ t \notin overlap.astray
      BY <1>13, <2>1, <2>2
    <2> QED
      BY <2>1, <2>3 DEF Inv, WalkOK
  <1>25. halted' = "no"
    BY DEF Inv
  <1> QED
    BY <1>8, <1>11, <1>14, <1>22, <1>23, <1>24, <1>25 DEF Inv

\* Calls change that neither hold a mutex nor wait for one; threads may be added.
LEMMA MutexMoves ==
    ASSUME NEW q, NEW A, NEW c, NEW s, MutexIs(q, A, c, s), A \subseteq Threads,
           NEW A2, A2 \subseteq Threads, NEW c2, NEW s2,
           \A v \in A : c[v].at \in Busy => v \in A2 /\ c2[v] = c[v],
           \A v \in A2 : c2[v].at \in Busy => v \in A /\ c2[v] = c[v],
           \A v \in Threads : s2[v] = "Blocked" <=> s[v] = "Blocked"
    PROVE  MutexIs(q, A2, c2, s2)
  <1>1. ASSUME NEW m \in Nodes PROVE GuardOK(q[m], m, A2, c2, s2)
    <2>1. GuardOK(q[m], m, A, c, s)
      BY DEF MutexIs
    <2>2. "load" \in Busy
      BY DEF Busy
    <2>3. ASSUME q[m].owner # NULL
          PROVE  q[m].owner \in A2 /\ c2[q[m].owner].at \in Busy /\ Guard(c2[q[m].owner].list) = m
      BY <2>1, <2>3 DEF GuardOK
    <2>4. ASSUME NEW t \in Range(q[m].waiters)
          PROVE  t \in A2 /\ c2[t].at = "load" /\ Guard(c2[t].list) = m /\ s2[t] = "Blocked"
      BY <2>1, <2>2, <2>4 DEF GuardOK
    <2> QED
      BY <2>1, <2>3, <2>4 DEF GuardOK
  <1>2. \A v \in A2 : c2[v].at \in Busy =>
          v = q[Guard(c2[v].list)].owner \/ v \in Range(q[Guard(c2[v].list)].waiters)
    BY DEF MutexIs
  <1>3. \A t \in Threads : s2[t] = "Blocked" => \E m \in Nodes : t \in Range(q[m].waiters)
    BY DEF MutexIs
  <1> QED
    BY <1>1, <1>2, <1>3 DEF MutexIs

\* What kcalloc() gives out is no thread that runs or waits.
LEMMA Unallocated ==
    ASSUME Inv, NEW t \in Threads, t \notin allocated
    PROVE  status[t] \in {"Ready", "Zombie"} /\ t \notin {Idle, Main, me}
  <1>1. /\ me \in allocated /\ {Idle, Main} \subseteq allocated
        /\ \A u \in Threads : u # me => status[u] \in {"Ready", "Blocked", "Zombie"}
    BY RunningThread DEF Inv, StatusOK
  <1>2. status[t] # "Blocked"
    BY DEF Inv, MutexOK
  <1> QED
    BY <1>1, <1>2

\* The new thread is in no list, and its creator holds the number it is to get.
LEMMA ReadTidInv ==
    ASSUME Inv, NEW t \in Threads, ReadTid(t)
    PROVE  Inv'
  <1>1. /\ me \in allocated /\ me # Idle /\ me \in Threads /\ allocated \subseteq Threads
        /\ call[me].at = "client" /\ call[me].new = NULL /\ NULL \notin Threads
        /\ \A l \in Lists : me \notin Unlinked(l)
    BY RunningThread, CreateAssumption DEF ReadTid, At, Inv, StatusOK, FrameOK
  <1>2. t \notin allocated /\ t \notin {Idle, Main, me} /\ status[t] \in {"Ready", "Zombie"}
    BY Unallocated DEF ReadTid
  <1>3. PICK c : c = [Idling EXCEPT !.at = "tid", !.new = t, !.reg = next_tid]
    OBVIOUS
  <1>4. /\ allocated' = allocated \cup {t}
        /\ call' = [call EXCEPT ![me] = c, ![t] = Idling]
        /\ overlap' = [overlap EXCEPT !.tid = @ \/ \E u \in allocated : call[u].at = "tid"]
        /\ UNCHANGED <<current_thread, status, links, mutex, tid, next_tid, halted>>
        /\ next_tid <= MaxTid
    BY <1>3 DEF ReadTid
  <1>5. next_tid \in 2..MaxTid /\ next_tid \in Nat
    <2>1. next_tid \in 2..(MaxTid + 1) /\ MaxTid \in Nat
      BY CreateAssumption DEF Inv, TidOK
    <2> QED
      BY <1>4, <2>1
  <1>6. /\ c.at = "tid" /\ c.new = t /\ c.reg = next_tid
        /\ c \in Frames /\ FrameOK(c)
    BY <1>3, <1>5 DEF Idling, Frames, Points, Addr, FrameOK
  <1>7. Idling \in Frames /\ Idling.at = "client" /\ Idling.new = NULL /\ FrameOK(Idling)
    BY DEF Idling, Frames, Points, Addr, FrameOK
  <1>8. call \in [Threads -> Frames] /\ call[Idle].at = "client"
    BY DEF Inv, CallsOK
  <1>9. /\ call'[me] = c /\ call'[t] = Idling /\ \A v \in Threads : v # me /\ v # t => call'[v] = call[v]
        /\ call' \in [Threads -> Frames]
    BY <1>1, <1>2, <1>4, <1>6, <1>7, <1>8
  <1>10. StatusOK'
    BY <1>2, <1>4 DEF Inv, StatusOK
  <1>11. CallsOK'
    <2>1. ASSUME NEW v \in allocated' PROVE FrameOK(call'[v]) /\ (status'[v] = "Zombie" => call'[v].at = "client")
      <3>1. CASE v = me
        BY <1>4, <1>6, <1>9, <3>1, RunningThread
      <3>2. CASE v = t
        BY <1>7, <1>9, <3>2
      <3>3. CASE v # me /\ v # t
        <4>1. v \in allocated /\ call'[v] = call[v]
          BY <1>1, <1>4, <1>9, <3>3
        <4> QED
          BY <1>4, <4>1 DEF Inv, CallsOK
      <3> QED
        BY <3>1, <3>2, <3>3
    <2>2. \A v \in allocated' : FrameOK(call[v])' /\ (status'[v] = "Zombie" => call'[v].at = "client")
      BY <2>1 DEF FrameOK
    <2>3. call'[Idle].at = "client"
      BY <1>1, <1>2, <1>8, <1>9, CreateAssumption
    <2> QED
      BY <1>9, <2>2, <2>3 DEF CallsOK
  <1>12. ASSUME NEW v \in allocated', call'[v].new # NULL, v # me
         PROVE  v \in allocated /\ call'[v] = call[v]
    BY <1>1, <1>4, <1>7, <1>9, <1>12
  <1>13. ASSUME NEW v \in allocated, call[v].new # NULL, Fresh(v, "ready") PROVE call[v].new # t
    BY <1>2, <1>13 DEF Inv, FreshOK, NewOK
  <1>14. FreshOK'
    <2>1. ASSUME NEW v \in allocated' PROVE NewOK(v)'
      <3> SUFFICES ASSUME call'[v].new # NULL, Fresh(v, "ready")'
                   PROVE  /\ call'[v].new \in allocated' \ {Idle, Main}
                          /\ call'[call'[v].new].at = "client"
                          /\ status'[call'[v].new] \in {"Ready", "Zombie"}
                          /\ call'[v].at # "tid" => status'[call'[v].new] = "Ready"
        BY DEF NewOK
      <3>1. CASE v = me
        BY <1>2, <1>4, <1>6, <1>7, <1>9, <3>1
      <3>2. CASE v # me
        <4>1. PICK n : n = call[v].new
          OBVIOUS
        <4>2. v \in allocated /\ call'[v] = call[v] /\ n # NULL /\ call'[v].new = n
          BY <1>12, <3>2, <4>1
        <4>3. Fresh(v, "ready")
          BY <4>2 DEF Fresh
        <4>4. /\ n \in allocated \ {Idle, Main} /\ call[n].at = "client"
              /\ status[n] \in {"Ready", "Zombie"}
              /\ call[v].at # "tid" => status[n] = "Ready"
          BY <4>1, <4>2, <4>3 DEF Inv, FreshOK, NewOK
        <4>5. n \in Threads /\ n # me /\ n # t
          BY <1>1, <1>2, <4>4, RunningThread
        <4> QED
          BY <1>4, <1>9, <4>2, <4>4, <4>5
      <3> QED
        BY <3>1, <3>2
    <2>2. ASSUME NEW u \in allocated', NEW v \in allocated', call'[v].new # NULL, call'[u].new = call'[v].new,
                 Fresh(u, "ready")', Fresh(v, "ready")'
          PROVE  u = v
      <3>1. ASSUME NEW x \in allocated', x # me, call'[x].new # NULL, Fresh(x, "ready")'
            PROVE  x \in allocated /\ call'[x] = call[x] /\ Fresh(x, "ready") /\ call'[x].new # t
        <4>1. x \in allocated /\ call'[x] = call[x]
          BY <1>12, <3>1
        <4>2. Fresh(x, "ready")
          BY <3>1, <4>1 DEF Fresh
        <4> QED
          BY <1>13, <3>1, <4>1, <4>2
      <3>2. CASE u = me /\ v # me
        BY <1>6, <1>9, <2>2, <3>1, <3>2
      <3>3. CASE v = me /\ u # me
        BY <1>6, <1>9, <2>2, <3>1, <3>3
      <3>4. CASE u # me /\ v # me
        BY <2>2, <3>1, <3>4 DEF Inv, FreshOK
      <3> QED
        BY <3>2, <3>3, <3>4
    <2> QED
      BY <2>1, <2>2 DEF FreshOK
  <1>15. MutexOK'
    <2>1. MutexIs(mutex, allocated, call, status)
      BY MutexParts DEF Inv
    <2>2. /\ allocated' \subseteq Threads
          /\ \A v \in allocated : call[v].at \in Busy => v \in allocated' /\ call'[v] = call[v]
          /\ \A v \in allocated' : call'[v].at \in Busy => v \in allocated /\ call'[v] = call[v]
      BY <1>1, <1>2, <1>4, <1>6, <1>7, <1>9 DEF Busy
    <2>3. MutexIs(mutex, allocated', call', status)
      BY <1>1, <2>1, <2>2, MutexMoves
    <2> QED
      BY <1>4, <2>3, MutexParts
  <1>16. \A l \in Lists : /\ Storing(l) \subseteq Storing(l)'
                          /\ \A v \in Adding(l)' : v \in Adding(l) /\ call'[v] = call[v]
                          /\ \A v \in Walking(l)' : v \in Walking(l) /\ call'[v] = call[v]
    BY <1>1, <1>2, <1>4, <1>6, <1>7, <1>9 DEF Storing, Adding, Walking
  <1>17. ASSUME NEW l \in Lists PROVE Belongs(l)' = Belongs(l)
    <2>1. ASSUME NEW u \in allocated
          PROVE  u \in Unlinked(l)' <=> u \in Unlinked(l)
      <3>1. u \in Threads /\ u # t /\ u # NULL
        BY <1>1, <1>2
      <3>2. u \in Unlinked(l)' <=> \E v \in allocated' : Fresh(v, l)' /\ call'[v].new = u
        BY DEF Unlinked, Fresh
      <3>3. u \in Unlinked(l) <=> \E v \in allocated : Fresh(v, l) /\ call[v].new = u
        BY <3>1, UnlinkedIs
      <3>4. ASSUME NEW v \in allocated', Fresh(v, l)', call'[v].new = u
            PROVE  v \in allocated /\ Fresh(v, l) /\ call[v].new = u
        <4>1. v # me
          BY <1>6, <1>9, <3>1, <3>4
        <4>2. v \in allocated /\ call'[v] = call[v]
          BY <1>12, <3>1, <3>4, <4>1
        <4> QED
          BY <3>4, <4>2 DEF Fresh
      <3>5. ASSUME NEW v \in allocated, Fresh(v, l), call[v].new = u
            PROVE  v \in allocated' /\ Fresh(v, l)' /\ call'[v].new = u
        <4>1. v # me /\ v # t /\ v \in Threads
          BY <1>1, <1>2, <3>1, <3>5
        <4>2. call'[v] = call[v]
          BY <1>9, <4>1
        <4> QED
          BY <1>4, <3>5, <4>2 DEF Fresh
      <3> QED
        BY <3>2, <3>3, <3>4, <3>5
    <2>2. t \in Unlinked(l)'
      <3>1. t \in Unlinked(l)' <=> \E v \in allocated' : Fresh(v, l)' /\ call'[v].new = t
        BY DEF Unlinked, Fresh
      <3>2. PICK x : x = me
        OBVIOUS
      <3>3. x \in allocated' /\ call'[x].at = "tid" /\ call'[x].new = t
        BY <1>1, <1>4, <1>6, <1>9, <3>2
      <3>4. Fresh(x, l)'
        BY <3>3 DEF Fresh
      <3> QED
        BY <3>1, <3>3, <3>4
    <2>3. \A u : u \in Belongs(l)' <=> u \in Belongs(l)
      BY <1>2, <1>4, <2>1, <2>2, BelongsIs
    <2> QED
      BY <2>3
  <1>18. ListsOK'
    <2>1. ASSUME NEW l \in Lists
          PROVE  Members(links', l) = Belongs(l)' /\ Path(links', l) /\ (Storing(l)' # {} \/ First(links', l, NULL))
      BY <1>4, <1>16, <1>17, MembersAre
    <2>2. /\ \A u, v \in Members(links', "zombie") : u = v
          /\ links' \in LinkTables
      BY <1>4 DEF Inv, ListsOK
    <2> QED
      BY <2>1, <2>2, ListsNext
  <1>19. AddOK'
    <2> SUFFICES ASSUME NEW l \in Lists, NEW v \in Adding(l)'
                 PROVE  AdderOK(links', l, call'[v]) /\ (l = "ready" => v = current_thread')
      BY DEF AddOK, First, Node, AdderOK
    <2>1. v \in Adding(l) /\ call'[v] = call[v]
      BY <1>16
    <2> QED
      BY <1>4, <2>1, AddersWere DEF Inv, AddOK
  <1>20. overlap'.astray = overlap.astray /\ OverlapOK'
         /\ (overlap'.tid <=> overlap.tid \/ \E u \in allocated : call[u].at = "tid")
    <2>1. overlap \in [torn : SUBSET Lists, astray : SUBSET Threads, tid : BOOLEAN]
      BY DEF Inv, OverlapOK
    <2>2. PICK b : b = (overlap.tid \/ \E u \in allocated : call[u].at = "tid")
      OBVIOUS
    <2>3. overlap' = [overlap EXCEPT !.tid = b] /\ b \in BOOLEAN
      BY <1>4, <2>2
    <2>4. overlap'.astray = overlap.astray /\ OverlapOK' /\ overlap'.tid = b
      BY <2>1, <2>3 DEF OverlapOK
    <2> QED
      BY <2>2, <2>4
  <1>21. WalkOK'
    <2> SUFFICES ASSUME NEW l \in Lists, NEW u \in Walking(l)' \ overlap'.astray
                 PROVE  /\ call'[u].count \in Places
                        /\ call'[u].reg = Walk(links', l)[call'[u].count]
                        /\ \A i \in Places : i < call'[u].count =>
                              Walk(links', l)[i] # NULL /\ tid'[Walk(links', l)[i]] # call'[u].seek
      BY DEF WalkOK, Walk, Node, Places
    <2>1. u \in Walking(l) /\ call'[u] = call[u] /\ u \notin overlap.astray
      BY <1>16, <1>20
    <2>2. links' = links /\ tid' = tid
      BY <1>4
    <2>3. /\ call[u].count \in Places
          /\ call[u].reg = Walk(links, l)[call[u].count]
          /\ \A i \in Places : i < call[u].count => Walk(links, l)[i] # NULL /\ tid[Walk(links, l)[i]] # call[u].seek
      BY <2>1 DEF Inv, WalkOK
    <2> QED
      BY <2>1, <2>2, <2>3
  <1>22. TidOK'
    <2>1. \A v \in allocated' : call'[v].at = "tid" => v = me \/ (v \in allocated /\ call[v].at = "tid" /\ call'[v] = call[v])
      BY <1>1, <1>4, <1>7, <1>9
    <2>2. \A v \in allocated' : call'[v].at = "tid" => call'[v].reg \in 2..MaxTid
      BY <1>5, <1>6, <1>9, <2>1 DEF Inv, TidOK
    <2>3. ASSUME ~overlap'.tid
          PROVE  /\ \A v \in allocated' : call'[v].at = "tid" => call'[v].reg = next_tid'
                 /\ \A u, v \in allocated' : call'[u].at = "tid" /\ call'[v].at = "tid" => u = v
                 /\ \A u \in Numbered' : tid'[u] < next_tid'
                 /\ \A u, v \in Numbered' : tid'[u] = tid'[v] => u = v
      <3>1. ~overlap.tid /\ \A u \in allocated : call[u].at # "tid"
        BY <1>20, <2>3
      <3>2. \A v \in allocated' : call'[v].at = "tid" => v = me
        BY <2>1, <3>1
      <3>3. \A u \in Numbered' : u \in allocated /\ u \in Numbered
        <4>1. \A u \in Numbered' : u \in allocated' /\ u # t
          BY <1>1, <1>4, <1>6, <1>9 DEF Numbered
        <4> QED
          BY <1>4, <3>1, <4>1 DEF Numbered
      <3> QED
        BY <1>4, <1>6, <1>9, <3>1, <3>2, <3>3 DEF Inv, TidOK
    <2> QED
      BY <1>4, <2>2, <2>3 DEF Inv, TidOK
  <1> QED
    BY <1>4, <1>10, <1>11, <1>14, <1>15, <1>18, <1>19, <1>20, <1>21, <1>22 DEF Inv

\* The new thread gets its number and its state; no list links it yet.
LEMMA WriteTidInv ==
    ASSUME Inv, WriteTid
    PROVE  Inv'
  <1>1. /\ me \in allocated /\ me # Idle /\ me \in Threads /\ allocated \subseteq Threads
        /\ call[me].at = "tid" /\ NULL \notin Threads
        /\ FrameOK(call[me]) /\ call[me] \in Frames
    BY RunningThread, CreateAssumption DEF WriteTid, At, Inv, StatusOK
  <1>2. PICK n : n = call[me].new
    OBVIOUS
  <1>3. PICK r : r = call[me].reg
    OBVIOUS
  <1>4. PICK c : c = [call[me] EXCEPT !.at = "lock", !.list = "all", !.reg = NULL]
    OBVIOUS
  <1>5. /\ next_tid' = r + 1 /\ tid' = [tid EXCEPT ![n] = r] /\ status' = [status EXCEPT ![n] = "Ready"]
        /\ links' = [links EXCEPT !.next = [o \in DOMAIN @ |-> [@[o] EXCEPT ![n] = NULL]],
                                  !.prev = [o \in DOMAIN @ |-> [@[o] EXCEPT ![n] = NULL]]]
        /\ call' = [call EXCEPT ![me] = c]
        /\ UNCHANGED <<current_thread, allocated, mutex, halted, overlap>>
    BY <1>2, <1>3, <1>4 DEF WriteTid, Goto
  <1>6. \A l : Fresh(me, l)
    BY <1>1 DEF Fresh
  <1>7. /\ n \in Threads /\ n # NULL
        /\ n \in allocated /\ n \notin {Idle, Main} /\ call[n].at = "client" /\ status[n] \in {"Ready", "Zombie"}
    <2>1. n \in Threads /\ n # NULL
      BY <1>1, <1>2 DEF FrameOK
    <2> QED
      BY <1>1, <1>2, <1>6, <2>1 DEF Inv, FreshOK, NewOK
  <1>8. n # me
    BY <1>1, <1>7
  <1>9. \A l \in Lists : n \in Unlinked(l) /\ n \notin Belongs(l) /\ n \notin Members(links, l)
    <2>1. \A l \in Lists : n \in Unlinked(l)
      BY <1>1, <1>2, <1>6, <1>7, UnlinkedIs
    <2> QED
      BY <2>1, BelongsIs, MembersAre
  <1>10. r \in 2..MaxTid /\ MaxTid \in Nat
    BY <1>1, <1>3, CreateAssumption DEF Inv, TidOK
  \* Nobody else makes the same thread.
  <1>11. ASSUME NEW v \in allocated, v # me, NEW l \in Lists, Fresh(v, l) PROVE call[v].new # n
    <2> SUFFICES ASSUME call[v].new = n PROVE FALSE
      OBVIOUS
    <2>1. FrameOK(call[v]) /\ call[v] \in Frames
      BY <1>1 DEF Inv, CallsOK
    <2>2. Fresh(v, "ready")
      BY <1>7, <1>11, <2>1, FreshReady
    <2> QED
      BY <1>1, <1>2, <1>6, <1>7, <1>11, <2>2 DEF Inv, FreshOK
  <1>12. /\ c.at = "lock" /\ c.list = "all" /\ c.new = n /\ c \in Frames /\ FrameOK(c)
    BY <1>1, <1>2, <1>4, <1>7 DEF Frames, Points, Lists, Addr, FrameOK
  <1>13. call \in [Threads -> Frames] /\ call[Idle].at = "client"
         /\ status \in [Threads -> {"Ready", "Running", "Blocked", "Zombie"}]
    BY DEF Inv, CallsOK, StatusOK
  <1>14. /\ call'[me] = c /\ \A v \in Threads : v # me => call'[v] = call[v]
         /\ call' \in [Threads -> Frames]
    BY <1>1, <1>5, <1>12, <1>13
  <1>15. /\ status'[n] = "Ready" /\ \A v \in Threads : v # n => status'[v] = status[v]
         /\ status' \in [Threads -> {"Ready", "Running", "Blocked", "Zombie"}]
    BY <1>5, <1>7, <1>13
  <1>16. /\ tid'[n] = r /\ \A v \in Threads : v # n => tid'[v] = tid[v]
         /\ tid' \in [Threads -> 0..MaxTid]
    <2>1. tid \in [Threads -> 0..MaxTid] /\ r \in 0..MaxTid
      BY <1>10 DEF Inv, TidOK
    <2> QED
      BY <1>5, <1>7, <2>1
  <1>17. links \in LinkTables
    BY MembersAre, ListNames
  <1>18. /\ links' \in LinkTables /\ links'.head = links.head
         /\ \A o \in Nodes : \A u \in Threads : u # n =>
               links'.next[o][u] = links.next[o][u] /\ links'.prev[o][u] = links.prev[o][u]
    <2>1. PICK p : p = [o \in Nodes |-> [links.prev[o] EXCEPT ![n] = NULL]]
      OBVIOUS
    <2>2. PICK q : q = [o \in Nodes |-> [links.next[o] EXCEPT ![n] = NULL]]
      OBVIOUS
    <2>3. /\ links.prev \in [Nodes -> [Threads -> Addr]] /\ links.next \in [Nodes -> [Threads -> Addr]]
          /\ DOMAIN links.prev = Nodes /\ DOMAIN links.next = Nodes /\ NULL \in Addr
      BY <1>17 DEF LinkTables, Addr
    <2>4. p \in [Nodes -> [Threads -> Addr]] /\ \A o \in Nodes : \A u \in Threads : u # n => p[o][u] = links.prev[o][u]
      BY <1>7, <2>1, <2>3
    <2>5. q \in [Nodes -> [Threads -> Addr]] /\ \A o \in Nodes : \A u \in Threads : u # n => q[o][u] = links.next[o][u]
      BY <1>7, <2>2, <2>3
    <2>6. links' = [links EXCEPT !.next = q, !.prev = p]
      BY <1>5, <2>1, <2>2, <2>3
    <2>7. links'.prev = p /\ links'.next = q /\ links'.head = links.head /\ links' \in LinkTables
      BY <1>17, <2>4, <2>5, <2>6 DEF LinkTables
    <2> QED
      BY <2>4, <2>5, <2>7
  <1> HIDE <1>5
  <1>19. /\ UNCHANGED <<current_thread, allocated, mutex, halted, overlap>> /\ next_tid' = r + 1
    BY <1>5
  <1>20. ASSUME NEW l \in Lists PROVE Untouched(links, links', l)
    <2>1. \A u \in Members(links, l) : u \in Threads /\ u # n
      BY <1>9, MembersAre
    <2>2. Node(l) \in Nodes
      BY NodeOfList
    <2>3. \A u \in Members(links, l) : /\ links'.next[Node(l)][u] = links.next[Node(l)][u]
                                       /\ links'.prev[Node(l)][u] = links.prev[Node(l)][u]
      BY <1>18, <2>1, <2>2
    <2> QED
      BY <1>17, <1>18, <2>3, UntouchedIf
  <1>21. StatusOK'
    <2>1. current_thread' = me /\ \A u \in Threads : status[u] = "Running" <=> u = me
      BY <1>19 DEF Inv, StatusOK, me
    <2>2. \A u \in Threads : status'[u] = "Running" <=> u = current_thread'
      BY <1>7, <1>8, <1>15, <2>1
    <2>3. status'[Idle] = status[Idle] /\ status'[Main] = status[Main]
      BY <1>7, <1>15, CreateAssumption
    <2> QED
      BY <1>15, <1>19, <2>2, <2>3 DEF Inv, StatusOK
  <1>22. CallsOK'
    <2>1. ASSUME NEW v \in allocated PROVE FrameOK(call'[v]) /\ (status'[v] = "Zombie" => call'[v].at = "client")
      <3>1. v \in Threads /\ (status'[v] = "Zombie" => status[v] = "Zombie")
        BY <1>1, <1>15
      <3>2. CASE v = me
        BY <1>12, <1>14, <3>1, <3>2, RunningThread
      <3>3. CASE v # me
        BY <1>14, <3>1, <3>3 DEF Inv, CallsOK
      <3> QED
        BY <3>2, <3>3
    <2>2. \A v \in allocated' : FrameOK(call[v])' /\ (status'[v] = "Zombie" => call'[v].at = "client")
      BY <1>19, <2>1 DEF FrameOK
    <2>3. call'[Idle].at = "client"
      BY <1>1, <1>13, <1>14, CreateAssumption
    <2> QED
      BY <1>14, <2>2, <2>3 DEF CallsOK
  <1>23. ASSUME NEW v \in allocated, v # me
         PROVE  call'[v] = call[v] /\ \A l \in Lists : Fresh(v, l)' <=> Fresh(v, l)
    BY <1>1, <1>14, <1>23 DEF Fresh
  <1>24. FreshOK'
    <2>1. ASSUME NEW v \in allocated' PROVE NewOK(v)'
      <3> SUFFICES ASSUME call'[v].new # NULL, Fresh(v, "ready")'
                   PROVE  /\ call'[v].new \in allocated' \ {Idle, Main}
                          /\ call'[call'[v].new].at = "client"
                          /\ status'[call'[v].new] \in {"Ready", "Zombie"}
                          /\ call'[v].at # "tid" => status'[call'[v].new] = "Ready"
        BY DEF NewOK
      <3>1. CASE v = me
        BY <1>7, <1>8, <1>12, <1>14, <1>15, <1>19, <3>1
      <3>2. CASE v # me
        <4>1. PICK x : x = call[v].new
          OBVIOUS
        <4>2. v \in allocated /\ call'[v] = call[v] /\ Fresh(v, "ready") /\ x # NULL
          BY <1>19, <1>23, <3>2, <4>1, ListNames
        <4>3. /\ x \in allocated \ {Idle, Main} /\ call[x].at = "client"
              /\ status[x] \in {"Ready", "Zombie"}
              /\ call[v].at # "tid" => status[x] = "Ready"
          BY <4>1, <4>2 DEF Inv, FreshOK, NewOK
        <4>4. x # n /\ x # me /\ x \in Threads
          BY <1>1, <1>11, <3>2, <4>1, <4>2, <4>3, ListNames
        <4> QED
          BY <1>14, <1>15, <1>19, <4>1, <4>2, <4>3, <4>4
      <3> QED
        BY <3>1, <3>2
    <2>2. ASSUME NEW u \in allocated', NEW v \in allocated', call'[v].new # NULL, call'[u].new = call'[v].new,
                 Fresh(u, "ready")', Fresh(v, "ready")'
          PROVE  u = v
      <3>1. u \in allocated /\ v \in allocated
        BY <1>19
      <3>2. CASE u = me /\ v # me
        BY <1>11, <1>12, <1>14, <1>23, <2>2, <3>1, <3>2, ListNames
      <3>3. CASE v = me /\ u # me
        BY <1>11, <1>12, <1>14, <1>23, <2>2, <3>1, <3>3, ListNames
      <3>4. CASE u # me /\ v # me
        <4>1. /\ call[v].new # NULL /\ call[u].new = call[v].new /\ Fresh(u, "ready") /\ Fresh(v, "ready")
          BY <1>23, <2>2, <3>1, <3>4, ListNames
        <4> QED
          BY <3>1, <4>1 DEF Inv, FreshOK
      <3> QED
        BY <3>2, <3>3, <3>4
    <2> QED
      BY <2>1, <2>2 DEF FreshOK
  <1>25. MutexOK'
    <2>1. MutexIs(mutex, allocated, call, status)
      BY MutexParts DEF Inv
    <2>2. /\ \A v \in allocated : call[v].at \in Busy => v \in allocated /\ call'[v] = call[v]
          /\ \A v \in allocated : call'[v].at \in Busy => v \in allocated /\ call'[v] = call[v]
      BY <1>1, <1>12, <1>14 DEF Busy
    <2>3. \A v \in Threads : status'[v] = "Blocked" <=> status[v] = "Blocked"
      BY <1>7, <1>15
    <2>4. MutexIs(mutex, allocated, call', status')
      BY <1>1, <2>1, <2>2, <2>3, MutexMoves
    <2> QED
      BY <1>19, <2>4, MutexParts
  <1>26. ASSUME NEW l \in Lists PROVE Belongs(l)' = Belongs(l)
    <2>1. ASSUME NEW u \in allocated PROVE u \in Unlinked(l)' <=> u \in Unlinked(l)
      <3>1. u \in Threads
        BY <1>1
      <3>2. u \in Unlinked(l)' <=> \E v \in allocated' : FreshAt(call'[v], l) /\ call'[v].new = u
        BY DEF Unlinked, FreshAt
      <3>3. u \in Unlinked(l) <=> \E v \in allocated : FreshAt(call[v], l) /\ call[v].new = u
        BY DEF Unlinked, FreshAt
      <3>4. ASSUME NEW v \in allocated
            PROVE  FreshAt(call'[v], l) /\ call'[v].new = u <=> FreshAt(call[v], l) /\ call[v].new = u
        <4>1. CASE v = me
          <5>1. FreshAt(c, l) /\ FreshAt(call[me], l)
            BY <1>1, <1>12 DEF FreshAt
          <5> QED
            BY <1>2, <1>12, <1>14, <4>1, <5>1
        <4>2. CASE v # me
          BY <1>23, <4>2
        <4> QED
          BY <4>1, <4>2
      <3> QED
        BY <1>19, <3>2, <3>3, <3>4
    <2>2. ASSUME NEW u PROVE u \in Belongs(l)' <=> u \in Belongs(l)
      <3>1. CASE u = n
        <4>1. n \in Unlinked(l)'
          BY <1>7, <1>9, <2>1
        <4> QED
          BY <1>9, <3>1, <4>1, BelongsIs
      <3>2. CASE u \in allocated /\ u # n
        <4>1. status'[u] = status[u]
          BY <1>1, <1>15, <3>2
        <4> QED
          BY <1>19, <2>1, <3>2, <4>1, BelongsIs
      <3>3. CASE u \notin allocated
        BY <1>19, <3>3, BelongsIs
      <3> QED
        BY <3>1, <3>2, <3>3
    <2> QED
      BY <2>2
  <1>27. \A l \in Lists : /\ Storing(l) \subseteq Storing(l)'
                          /\ \A v \in Adding(l)' : v \in Adding(l) /\ call'[v] = call[v] /\ v # me
                          /\ \A v \in Walking(l)' : v \in Walking(l) /\ call'[v] = call[v]
    BY <1>1, <1>12, <1>14, <1>19 DEF Storing, Adding, Walking
  <1>28. ListsOK'
    <2>1. ASSUME NEW l \in Lists
          PROVE  Members(links', l) = Belongs(l)' /\ Path(links', l) /\ (Storing(l)' # {} \/ First(links', l, NULL))
      <3>1. /\ Members(links, l) = Belongs(l) /\ Path(links, l) /\ (Storing(l) = {} => First(links, l, NULL))
            /\ Untouched(links, links', l) /\ Storing(l) \subseteq Storing(l)' /\ Belongs(l)' = Belongs(l)
        BY <1>20, <1>26, <1>27, MembersAre
      <3> QED
        BY <3>1 DEF Untouched
    <2>2. \A u, v \in Members(links', "zombie") : u = v
      <3>1. Members(links', "zombie") = Members(links, "zombie")
        BY <1>20, ListNames DEF Untouched
      <3> QED
        BY <3>1 DEF Inv, ListsOK
    <2> QED
      BY <1>18, <2>1, <2>2, ListsNext
  <1>29. AddOK'
    <2> SUFFICES ASSUME NEW l \in Lists, NEW v \in Adding(l)'
                 PROVE  AdderOK(links', l, call'[v]) /\ (l = "ready" => v = current_thread')
      BY DEF AddOK, First, Node, AdderOK
    <2>1. v \in Adding(l) /\ call'[v] = call[v] /\ v # me
      BY <1>27
    <2>2. AdderOK(links, l, call[v]) /\ (l = "ready" => v = current_thread)
      BY <2>1, AddersWere DEF Inv, AddOK
    <2>3. v \in allocated /\ call[v].list = l /\ call[v].at \in {"back", "link", "head"} /\ call[v].new \in Threads
      BY <2>1 DEF Adding, Inv, CallsOK, FrameOK
    <2>4. call[v].new # n
      <3>1. Fresh(v, l)
        BY <2>3 DEF Fresh
      <3> QED
        BY <1>11, <2>1, <2>3, <3>1
    <2>5. Node(l) \in Nodes
      BY NodeOfList
    <2>6. PICK x : x = call[v].new
      OBVIOUS
    <2>7. links'.next[Node(l)][x] = links.next[Node(l)][x] /\ links'.prev[Node(l)][x] = links.prev[Node(l)][x]
      BY <1>18, <2>3, <2>4, <2>5, <2>6
    <2>8. First(links, l, x) => First(links', l, x)
      BY <1>20 DEF Untouched
    <2>9. AdderOK(links', l, call[v])
      BY <1>18, <2>2, <2>6, <2>7, <2>8 DEF AdderOK
    <2> QED
      BY <1>19, <2>1, <2>2, <2>9
  <1>30. WalkOK'
    <2> SUFFICES ASSUME NEW l \in Lists, NEW u \in Walking(l)' \ overlap'.astray
                 PROVE  /\ call'[u].count \in Places
                        /\ call'[u].reg = Walk(links', l)[call'[u].count]
                        /\ \A i \in Places : i < call'[u].count =>
                              Walk(links', l)[i] # NULL /\ tid'[Walk(links', l)[i]] # call'[u].seek
      BY DEF WalkOK, Walk, Node, Places
    <2>1. u \in Walking(l) /\ call'[u] = call[u] /\ u \notin overlap.astray
      BY <1>19, <1>27
    <2>2. Walk(links', l) = Walk(links, l)
      BY <1>20 DEF Untouched
    <2>3. /\ call[u].count \in Places
          /\ call[u].reg = Walk(links, l)[call[u].count]
          /\ \A i \in Places : i < call[u].count => Walk(links, l)[i] # NULL /\ tid[Walk(links, l)[i]] # call[u].seek
      BY <2>1 DEF Inv, WalkOK
    <2>4. \A i \in Places : Walk(links, l)[i] # NULL => tid'[Walk(links, l)[i]] = tid[Walk(links, l)[i]]
      <3>1. \A i \in Places : Walk(links, l)[i] # NULL => Walk(links, l)[i] \in Members(links, l)
        BY MemberAt
      <3>2. \A x \in Members(links, l) : x \in Threads /\ x # n
        BY <1>9, MembersAre
      <3> QED
        BY <1>16, <3>1, <3>2
    <2> QED
      BY <2>1, <2>2, <2>3, <2>4
  <1>31. TidOK'
    <2>1. next_tid' \in 2..(MaxTid + 1)
      BY <1>10, <1>19
    <2>2. \A v \in allocated' : call'[v].at = "tid" => v \in allocated /\ v # me /\ call'[v] = call[v] /\ call[v].at = "tid"
      BY <1>1, <1>12, <1>14, <1>19
    <2>3. \A v \in allocated' : call'[v].at = "tid" => call'[v].reg \in 2..MaxTid
      BY <2>2 DEF Inv, TidOK
    <2>4. ASSUME ~overlap'.tid
          PROVE  /\ \A v \in allocated' : call'[v].at # "tid"
                 /\ \A u \in Numbered' : tid'[u] < next_tid'
                 /\ \A u, v \in Numbered' : tid'[u] = tid'[v] => u = v
      <3>1. ~overlap.tid
        BY <1>19, <2>4
      <3>2. /\ r = next_tid
            /\ \A v \in allocated : call[v].at = "tid" => v = me
            /\ \A u \in Numbered : tid[u] < next_tid
            /\ \A u, v \in Numbered : tid[u] = tid[v] => u = v
        BY <1>1, <1>3, <3>1 DEF Inv, TidOK
      <3>3. \A v \in allocated' : call'[v].at # "tid"
        BY <2>2, <3>2
      <3>4. \A u \in Numbered' : u \in Threads /\ (u = n \/ u \in Numbered)
        BY <1>1, <1>2, <1>19, <3>2 DEF Numbered
      <3>5. \A u \in Threads : tid[u] \in 0..MaxTid
        BY DEF Inv, TidOK
      <3>6. \A u \in Numbered' : tid'[u] = IF u = n THEN r ELSE tid[u]
        BY <1>16, <3>4
      <3>7. ASSUME NEW u \in Numbered' PROVE tid'[u] < next_tid'
        <4>1. CASE u = n
          BY <1>10, <1>19, <3>6, <4>1
        <4>2. CASE u # n
          <5>1. tid[u] < next_tid /\ tid[u] \in Nat /\ tid'[u] = tid[u]
            BY <3>2, <3>4, <3>5, <3>6, <4>2
          <5> QED
            BY <1>10, <1>19, <3>2, <5>1
        <4> QED
          BY <4>1, <4>2
      <3>8. ASSUME NEW u \in Numbered', u # n PROVE tid'[u] # r
        <4>1. tid[u] < r /\ tid[u] \in Nat /\ tid'[u] = tid[u]
          BY <3>2, <3>4, <3>5, <3>6, <3>8
        <4> QED
          BY <1>10, <4>1
      <3>9. ASSUME NEW u \in Numbered', NEW v \in Numbered', tid'[u] = tid'[v] PROVE u = v
        BY <3>2, <3>4, <3>6, <3>8, <3>9
      <3> QED
        BY <3>3, <3>7, <3>9
    <2> QED
      BY <1>16, <2>1, <2>3, <2>4 DEF TidOK
  <1>32. OverlapOK' /\ halted' = "no"
    BY <1>19 DEF Inv, OverlapOK
  <1> QED
    BY <1>21, <1>22, <1>24, <1>25, <1>28, <1>29, <1>30, <1>31, <1>32 DEF Inv

-----------------------------------------------------------------------------
(* Every step keeps the invariant, unless it tears a list *)

\* mutex_release() at the end of a call.
LEMMA ReleaseInv ==
    ASSUME Inv, NEW c, Finishes(c), NEW done \in SUBSET {me}, Release(Guard(call[me].list), c, done),
           UNCHANGED <<tid, next_tid>>, overlap'.torn = {}
    PROVE  Inv'
  <1>1. PICK m : m = Guard(call[me].list)
    OBVIOUS
  <1>2. UNCHANGED <<current_thread, allocated, halted>>
    BY DEF Release
  <1>3. CASE mutex[m].waiters = <<>>
    <2>1. /\ mutex' = [mutex EXCEPT ![m].owner = NULL]
          /\ overlap' = [overlap EXCEPT !.astray = @ \ done]
          /\ UNCHANGED <<status, links>>
      BY <1>1, <1>3 DEF Release
    <2> QED
      BY <1>1, <1>2, <1>3, <2>1, FreeInv
  <1>4. CASE mutex[m].waiters # <<>>
    <2>1. PICK h : h = Head(mutex[m].waiters)
      OBVIOUS
    <2>2. Wakens(m, h, done)
      BY <1>1, <1>4, <2>1 DEF Release, Wakens
    <2> QED
      BY <1>2, <2>2, GiveInv
  <1> QED
    BY <1>3, <1>4

\* A thread in no call.
LEMMA IdlingFrame == Idling \in Frames /\ Idling.at = "client" /\ Idling.new = NULL /\ FrameOK(Idling)
  BY DEF Idling, Frames, Points, Addr, FrameOK

\* The creator leaves the list of all threads and goes for the ready list, or is done.
LEMMA UnlockAddedInv ==
    ASSUME Inv, UnlockAdded, overlap'.torn = {}
    PROVE  Inv'
  <1>1. /\ me \in allocated /\ me # Idle /\ me \in Threads /\ FrameOK(call[me]) /\ call[me] \in Frames
        /\ call[me].at = "unlock" /\ NULL \notin Threads
    BY RunningThread, CreateAssumption DEF UnlockAdded, At
  <1>2. call[me].new \in Threads /\ call[me].list \in {"all", "ready"} /\ call[me].new # NULL
    BY <1>1 DEF FrameOK
  <1>3. PICK c : c = IF call[me].list = "all" THEN [call[me] EXCEPT !.at = "lock", !.list = "ready", !.reg = NULL]
                     ELSE Idling
    OBVIOUS
  <1>4. Release(Guard(call[me].list), c, {}) /\ UNCHANGED <<tid, next_tid>>
    BY <1>3 DEF UnlockAdded
  <1>5. call' = [call EXCEPT ![me] = c]
    BY <1>4 DEF Release, Goto
  <1>6. CASE call[me].list = "all"
    <2>1. c.at = "lock" /\ c.list = "ready" /\ c.new = call[me].new /\ c \in Frames /\ FrameOK(c)
      BY <1>1, <1>2, <1>3, <1>6 DEF Frames, Points, Addr, Lists, FrameOK
    <2>2. FreshAt(call[me], "ready") /\ ~FreshAt(call[me], "all") /\ FreshAt(call[me], "zombie")
      BY <1>1, <1>6 DEF FreshAt
    <2>3. FreshAt(c, "ready") /\ ~FreshAt(c, "all") /\ ~FreshAt(c, "zombie")
      BY <2>1 DEF FreshAt
    <2>4. status[call[me].new] = "Ready"
      <3>1. Fresh(me, "ready")
        BY <1>6 DEF Fresh
      <3> QED
        BY <1>1, <1>2, <3>1 DEF Inv, FreshOK, NewOK
    <2>5. Proceeds(c)
      BY <1>1, <1>5, <2>1, <2>2 DEF Proceeds
    <2>6. Finishes(c)
      BY <1>1, <2>1, <2>2, <2>3, <2>4, <2>5, ListNames DEF Finishes, Busy
    <2> QED
      BY <1>4, <2>6, ReleaseInv
  <1>7. CASE call[me].list # "all"
    <2>1. c.at = "client" /\ c.new = NULL /\ c \in Frames /\ FrameOK(c)
      BY <1>3, <1>7, IdlingFrame
    <2>2. call[me].list = "ready"
      BY <1>2, <1>7
    <2>3. \A l \in Lists : ~FreshAt(call[me], l)
      BY <1>1, <2>2 DEF FreshAt
    <2>4. Proceeds(c)
      BY <1>1, <1>5, <2>1 DEF Proceeds
    <2>5. \A t \in Threads : c.new # t
      BY <1>1, <2>1
    <2>6. Finishes(c)
      BY <1>1, <2>1, <2>3, <2>4, <2>5, ListNames DEF Finishes, Busy
    <2> QED
      BY <1>4, <2>6, ReleaseInv
  <1> QED
    BY <1>6, <1>7

\* A query returns, and releases its mutex.
LEMMA WalkEndInv ==
    ASSUME Inv, WalkEnd, overlap'.torn = {}
    PROVE  Inv'
  <1>1. /\ me \in allocated /\ me # Idle /\ me \in Threads /\ FrameOK(call[me]) /\ call[me] \in Frames
        /\ call[me].at = "walk" /\ NULL \notin Threads
    BY RunningThread, CreateAssumption DEF WalkEnd, At
  <1>2. call[me].new = NULL
    BY <1>1 DEF FrameOK
  <1>3. PICK c : c = Idling
    OBVIOUS
  <1>4. Release(Guard(call[me].list), c, {me}) /\ UNCHANGED <<tid, next_tid>>
    BY <1>3 DEF WalkEnd
  <1>5. call' = [call EXCEPT ![me] = c]
    BY <1>4 DEF Release, Goto
  <1>6. c.at = "client" /\ c.new = NULL /\ c \in Frames /\ FrameOK(c)
    BY <1>3, IdlingFrame
  <1>7. Proceeds(c)
    BY <1>1, <1>5, <1>6 DEF Proceeds
  <1>8. \A t \in Threads : c.new # t /\ call[me].new # t
    BY <1>1, <1>2, <1>6
  <1>9. Finishes(c)
    BY <1>1, <1>2, <1>6, <1>7, <1>8 DEF Finishes, Busy
  <1>10. {me} \in SUBSET {me}
    OBVIOUS
  <1> QED
    BY <1>4, <1>9, <1>10, ReleaseInv

\* mutex_acquire() at the beginning of a call.
LEMMA AcquireInv ==
    ASSUME Inv, NEW c, Moves(c), c.at = "load", call[me].at \in {"client", "lock"},
           Acquire(Guard(c.list), c), UNCHANGED <<tid, next_tid>>, overlap'.torn = {}
    PROVE  Inv'
  <1>1. PICK m : m = Guard(c.list)
    OBVIOUS
  <1>2. m \in Nodes
    BY <1>1 DEF Guard, Node, Nodes
  <1>3. CASE mutex[m].owner = NULL
    <2>1. /\ mutex' = [mutex EXCEPT ![m].owner = me]
          /\ UNCHANGED <<current_thread, status, allocated, links, halted, overlap>>
      BY <1>1, <1>3 DEF Acquire
    <2>2. Quiet /\ links' = links
      BY <2>1 DEF Quiet
    <2> QED
      BY <1>1, <1>2, <1>3, <2>1, <2>2, TakeInv
  <1>4. CASE mutex[m].owner # NULL
    <2>1. /\ mutex' = [mutex EXCEPT ![m].waiters = Append(@, me)]
          /\ isr_IRQ0(links, [status EXCEPT ![me] = "Blocked"])
      BY <1>1, <1>4 DEF Acquire
    <2> QED
      BY <1>1, <1>2, <1>4, <2>1, WaitInv
  <1> QED
    BY <1>3, <1>4

\* thread_create_arg() takes the mutex of the list, or waits for it.
LEMMA LockListInv ==
    ASSUME Inv, LockList, overlap'.torn = {}
    PROVE  Inv'
  <1>1. /\ me # Idle /\ FrameOK(call[me]) /\ call[me] \in Frames /\ call[me].at = "lock"
    BY RunningThread DEF LockList, At
  <1>2. PICK c : c = [call[me] EXCEPT !.at = "load"]
    OBVIOUS
  <1>3. call[me].new \in Threads /\ call[me].list \in {"all", "ready"} /\ call[me].new # NULL
    BY <1>1, CreateAssumption DEF FrameOK
  <1>4. c.at = "load" /\ c.list = call[me].list /\ c.new = call[me].new /\ c \in Frames /\ FrameOK(c)
    BY <1>1, <1>2, <1>3 DEF Frames, Points, Lists, FrameOK
  <1>5. Acquire(Guard(c.list), c) /\ UNCHANGED <<tid, next_tid>>
    BY <1>2, <1>4 DEF LockList
  <1>6. Moves(c)
    BY <1>1, <1>4, <1>5 DEF Moves, Acquire, Goto
  <1> QED
    BY <1>1, <1>4, <1>5, <1>6, AcquireInv

\* A query takes the mutex of its list, or waits for it.
LEMMA QueryInv ==
    ASSUME Inv, NEW l \in Lists, NEW n \in Nat \cup {NULL}, Query(l, n), overlap'.torn = {}
    PROVE  Inv'
  <1>1. /\ me # Idle /\ FrameOK(call[me]) /\ call[me].at = "client"
    BY RunningThread DEF Query, At
  <1>2. PICK c : c = [Idling EXCEPT !.at = "load", !.list = l, !.seek = n]
    OBVIOUS
  <1>3. call[me].new = NULL
    BY <1>1 DEF FrameOK
  <1>4. c.at = "load" /\ c.list = l /\ c.new = NULL /\ c.count = 0 /\ c \in Frames
    BY <1>2 DEF Idling, Frames, Points, Addr
  <1>5. FrameOK(c)
    BY <1>4, CreateAssumption DEF FrameOK
  <1>6. Acquire(Guard(c.list), c) /\ UNCHANGED <<tid, next_tid>>
    BY <1>2, <1>4 DEF Query
  <1>7. Moves(c)
    BY <1>1, <1>3, <1>4, <1>5, <1>6 DEF Moves, Acquire, Goto
  <1> QED
    BY <1>1, <1>4, <1>6, <1>7, AcquireInv

\* The PIT fires, at any point of any call.
LEMMA TimerInterruptInv ==
    ASSUME Inv, TimerInterrupt, overlap'.torn = {}
    PROVE  Inv'
  <1>1. Entered(status) /\ status[me] = "Running"
    BY RunningThread DEF Entered
  <1>2. isr_IRQ0(links, status) /\ UNCHANGED <<mutex, tid, next_tid, call>>
    BY DEF TimerInterrupt
  <1> QED
    BY <1>1, <1>2, InterruptInv

\* A thread ends.
LEMMA ThreadExitInv ==
    ASSUME Inv, ThreadExit, overlap'.torn = {}
    PROVE  Inv'
  <1>1. PICK st : st = [status EXCEPT ![me] = "Zombie"]
    OBVIOUS
  <1>2. /\ isr_IRQ0(links, st) /\ UNCHANGED <<mutex, tid, next_tid, call>>
        /\ me # Main /\ me # Idle /\ call[me].at = "client"
    BY <1>1 DEF ThreadExit, At
  <1>3. Entered(st)
    BY <1>1, <1>2 DEF Entered
  <1>4. st[me] = "Zombie"
    BY <1>1, RunningThread DEF Inv, StatusOK
  <1> QED
    BY <1>2, <1>3, <1>4, InterruptInv

\* What mutex_acquire() does to the history, in every state.
LEMMA AcquireOverlap ==
    ASSUME OverlapOK, allocated \subseteq Threads, NEW m, NEW c, Acquire(m, c)
    PROVE  OverlapOK' /\ allocated' \subseteq Threads /\ overlap.torn \subseteq overlap'.torn
  <1>1. CASE UNCHANGED <<current_thread, status, allocated, links, halted, overlap>>
    BY <1>1 DEF OverlapOK
  <1>2. CASE isr_IRQ0(links, [status EXCEPT ![me] = "Blocked"])
    BY <1>2, OverlapSwitched
  <1> QED
    BY <1>1, <1>2 DEF Acquire

\* As mutex_release() does.
LEMMA ReleaseOverlap ==
    ASSUME OverlapOK, allocated \subseteq Threads, NEW m, NEW c, NEW done, Release(m, c, done)
    PROVE  OverlapOK' /\ allocated' \subseteq Threads /\ overlap.torn \subseteq overlap'.torn
  <1>1. allocated' = allocated
    BY DEF Release
  <1> DEFINE D == [torn : SUBSET Lists, astray : SUBSET Threads, tid : BOOLEAN]
  <1>2. \A o \in D : [o EXCEPT !.astray = @ \ done] \in D /\ [o EXCEPT !.astray = @ \ done].torn = o.torn
    OBVIOUS
  <1>3. CASE overlap' = [overlap EXCEPT !.astray = @ \ done]
    BY <1>1, <1>2, <1>3 DEF OverlapOK
  <1>4. CASE overlap' = [Disturb(links') EXCEPT !.astray = @ \ done]
    <2>1. Disturb(links') \in D /\ overlap.torn \subseteq Disturb(links').torn
      BY Disturbed
    <2> HIDE DEF D
    <2>2. overlap' \in D /\ overlap'.torn = Disturb(links').torn
      BY <1>2, <1>4, <2>1
    <2> QED
      BY <1>1, <2>1, <2>2 DEF OverlapOK, D
  <1> QED
    BY <1>3, <1>4 DEF Release

\* A list that is torn stays so: no step takes back what the history has recorded,
\* in whatever state it is taken.
LEMMA OverlapGrows ==
    ASSUME OverlapOK, allocated \subseteq Threads, Next
    PROVE  OverlapOK' /\ allocated' \subseteq Threads /\ overlap.torn \subseteq overlap'.torn
  <1>1. CASE TimerInterrupt
    BY <1>1, OverlapSwitched DEF TimerInterrupt
  <1>2. CASE ThreadExit
    <2>1. isr_IRQ0(links, [status EXCEPT ![me] = "Zombie"])
      BY <1>2 DEF ThreadExit
    <2> QED
      BY <2>1, OverlapSwitched
  <1>3. ASSUME NEW t \in Threads, ReadTid(t)
        PROVE  OverlapOK' /\ allocated' \subseteq Threads /\ overlap.torn \subseteq overlap'.torn
    <2>1. allocated' = allocated \cup {t}
      BY <1>3 DEF ReadTid
    <2>2. PICK b \in BOOLEAN : overlap' = [overlap EXCEPT !.tid = b]
      BY <1>3 DEF ReadTid, OverlapOK
    <2>3. OverlapOK' /\ overlap'.torn = overlap.torn
      BY <2>2 DEF OverlapOK
    <2> QED
      BY <2>1, <2>3
  <1>4. CASE WriteTid \/ LoadHead \/ StoreBack \/ StoreNode \/ StoreHead \/ WalkNext
    <2>1. UNCHANGED <<allocated, overlap>>
      BY <1>4 DEF WriteTid, LoadHead, StoreBack, StoreNode, StoreHead, WalkNext, Store
    <2> QED
      BY <2>1 DEF OverlapOK
  <1>5. CASE LockList
    <2>1. PICK m, c : Acquire(m, c)
      BY <1>5 DEF LockList
    <2> QED
      BY <2>1, AcquireOverlap
  <1>6. ASSUME NEW l, NEW n, Query(l, n)
        PROVE  OverlapOK' /\ allocated' \subseteq Threads /\ overlap.torn \subseteq overlap'.torn
    <2>1. PICK m, c : Acquire(m, c)
      BY <1>6 DEF Query
    <2> QED
      BY <2>1, AcquireOverlap
  <1>7. CASE UnlockAdded \/ WalkEnd
    <2>1. PICK m, c, done : Release(m, c, done)
      BY <1>7 DEF UnlockAdded, WalkEnd
    <2> QED
      BY <2>1, ReleaseOverlap
  <1> QED
    BY <1>1, <1>2, <1>3, <1>4, <1>5, <1>6, <1>7 DEF Next, thread_count, thread_get_by_tid

\* Every step that tears no list preserves the invariant.
LEMMA NextInv ==
    ASSUME Inv, Next, overlap'.torn = {}
    PROVE  Inv'
  <1>1. ASSUME NEW l \in Lists, thread_count(l) PROVE Inv'
    BY <1>1, QueryInv DEF thread_count
  <1>2. ASSUME NEW n \in Sought, thread_get_by_tid(n) PROVE Inv'
    <2>1. n \in Nat \cup {NULL} /\ "all" \in Lists
      BY CreateAssumption DEF Lists
    <2> QED
      BY <1>2, <2>1, QueryInv DEF thread_get_by_tid
  <1> QED
    BY <1>1, <1>2, TimerInterruptInv, ThreadExitInv, ReadTidInv, WriteTidInv, LockListInv, LoadHeadInv,
       StoreBackInv, StoreNodeInv, StoreHeadInv, UnlockAddedInv, WalkNextInv, WalkEndInv DEF Next

\* As does a step that changes nothing.
LEMMA StutterInv ==
    ASSUME IInv, UNCHANGED vars
    PROVE  IInv'
  BY SMTT(90) DEF IInv, Inv, vars, OverlapOK, StatusOK, CallsOK, FreshOK, NewOK, Fresh, MutexOK, ListsOK, Belongs,
         Unlinked, Storing, AddOK, Adding, WalkOK, Walking, TidOK, Numbered

-----------------------------------------------------------------------------
(* The initial state *)

\* Empty lists.
LEMMA NothingLinked ==
    /\ NoLinks \in LinkTables
    /\ \A l \in Lists : Members(NoLinks, l) = {}
  <1>1. NoLinks \in LinkTables
    BY DEF NoLinks, LinkTables, Nodes, Addr
  <1>2. ASSUME NEW l \in Lists PROVE Members(NoLinks, l) = {}
    <2>1. 0 \in Places /\ Walk(NoLinks, l)[0] = NoLinks.head[l]
      BY WalkStep
    <2>2. NoLinks.head[l] = NULL
      BY DEF NoLinks
    <2>3. ASSUME NEW i \in Places PROVE Walk(NoLinks, l)[i] = NULL
      <3>1. 0 <= i
        BY CountThreads DEF Places
      <3> QED
        BY <2>1, <2>2, <3>1, WalkStaysNull
    <2> QED
      BY <2>3, MemberAt
  <1> QED
    BY <1>1, <1>2

\* thread_main_init() leaves the main and the idle thread in the list of all threads,
\* and the other lists empty.
LEMMA FirstLists ==
    ASSUME Init
    PROVE  /\ links \in LinkTables
           /\ \A l \in Lists : Path(links, l) /\ First(links, l, NULL)
           /\ Members(links, "all") = {Idle, Main}
           /\ Members(links, "ready") = {} /\ Members(links, "zombie") = {}
  <1> DEFINE k1 == thread_list_add(NoLinks, "all", Main)
             k2 == thread_list_add(k1, "all", Idle)
  <1>0. links = k2 /\ Main \in Threads /\ Idle \in Threads /\ Idle # Main
    BY CreateAssumption DEF Init
  <1>1. k1 \in LinkTables /\ Pushed(NoLinks, "all", Main, k1)
    BY <1>0, NothingLinked, ListNames, AddIsPushed
  <1>2. Path(NoLinks, "all")
    BY NothingLinked, ListNames, EmptyUnless
  <1>3. Members(k1, "all") = {Main} /\ Path(k1, "all")
    <2> HIDE DEF k1
    <2>1. Members(NoLinks, "all") = {}
      BY NothingLinked, ListNames
    <2> QED
      BY <1>0, <1>1, <1>2, <2>1, NothingLinked, ListNames, PushPath
  <1>4. \A l \in {"ready", "zombie"} : Members(k1, l) = {}
    <2>1. ASSUME NEW l \in {"ready", "zombie"} PROVE Members(k1, l) = {}
      <3>1. l \in Lists /\ Node(l) # Node("all")
        BY ListNames
      <3>2. Untouched(NoLinks, k1, l)
        BY <1>0, <3>1, NothingLinked, ListNames, OtherNode
      <3> QED
        BY <3>1, <3>2, NothingLinked DEF Untouched
    <2> QED
      BY <2>1
  <1>5. k2 \in LinkTables /\ Pushed(k1, "all", Idle, k2)
    <2> HIDE DEF k1
    <2>1. Idle \notin Members(k1, "all")
      BY <1>0, <1>3
    <2> QED
      BY <1>0, <1>1, <2>1, ListNames, AddIsPushed
  <1>6. Members(k2, "all") = {Main} \cup {Idle} /\ Path(k2, "all") /\ First(k2, "all", NULL)
    <2> HIDE DEF k1, k2
    <2>1. Idle \notin Members(k1, "all")
      BY <1>0, <1>3
    <2> QED
      BY <1>0, <1>1, <1>3, <1>5, <2>1, ListNames, PushPath
  <1>7. \A l \in {"ready", "zombie"} : Members(k2, l) = {}
    <2>1. ASSUME NEW l \in {"ready", "zombie"} PROVE Members(k2, l) = {}
      <3> HIDE DEF k1
      <3>1. l \in Lists /\ Node(l) # Node("all")
        BY ListNames
      <3>2. Untouched(k1, k2, l)
        BY <1>0, <1>1, <3>1, ListNames, OtherNode
      <3> QED
        BY <1>4, <3>1, <3>2 DEF Untouched
    <2> QED
      BY <2>1
  <1>8. \A l \in {"ready", "zombie"} : Path(k2, l) /\ First(k2, l, NULL)
    BY <1>7, EmptyUnless
  <1> HIDE DEF k2
  <1>9. \A l \in Lists : Path(k2, l) /\ First(k2, l, NULL)
    BY <1>6, <1>8, ListNames
  <1> QED
    BY <1>0, <1>5, <1>6, <1>7, <1>9

\* At first no call is under way.
LEMMA NobodyBusy ==
    ASSUME Init
    PROVE  /\ allocated = {Idle, Main} /\ allocated \subseteq Threads
           /\ \A t \in Threads : call[t] = Idling
           /\ \A l, t : t \in Threads => t \notin Unlinked(l)
           /\ \A l : Adding(l) = {} /\ Storing(l) = {} /\ Walking(l) = {}
           /\ Numbered = {Idle, Main}
  <1>1. allocated = {Idle, Main} /\ allocated \subseteq Threads
    BY CreateAssumption DEF Init
  <1>2. \A t \in Threads : call[t] = Idling
    BY DEF Init
  <1>3. Idling.at = "client" /\ Idling.new = NULL
    BY IdlingFrame
  <1>4. ASSUME NEW l, NEW t, t \in Threads PROVE t \notin Unlinked(l)
    <2>1. \A v \in allocated : call[v].new = NULL
      BY <1>1, <1>2, <1>3
    <2>2. t # NULL
      BY <1>4, CreateAssumption
    <2> QED
      BY <1>4, <2>1, <2>2, UnlinkedIs
  <1>5. \A v \in allocated : call[v].at = "client"
    BY <1>1, <1>2, <1>3
  <1>6. \A l : Adding(l) = {} /\ Storing(l) = {} /\ Walking(l) = {}
    BY <1>5 DEF Adding, Storing, Walking
  <1>7. Numbered = {Idle, Main}
    BY <1>1, <1>5 DEF Numbered
  <1> QED
    BY <1>1, <1>2, <1>4, <1>6, <1>7

\* The invariant holds when thread_main_init() returns.
LEMMA InitInv ==
    ASSUME Init
    PROVE  Inv
  <1>0. /\ Main \in Threads /\ Idle \in Threads /\ Idle # Main
        /\ MaxTid \in Nat /\ MaxTid >= 1
    BY CreateAssumption
  <1>1. StatusOK
    BY <1>0, NobodyBusy DEF Init, StatusOK
  <1>2. CallsOK
    <2>1. call \in [Threads -> Frames]
      BY IdlingFrame DEF Init
    <2>2. \A v \in allocated : call[v] = Idling
      BY NobodyBusy
    <2> QED
      BY <1>0, <2>1, <2>2, NobodyBusy, IdlingFrame DEF CallsOK
  <1>3. FreshOK
    <2>1. \A v \in allocated : call[v].new = NULL
      BY NobodyBusy, IdlingFrame
    <2> QED
      BY <2>1 DEF FreshOK, NewOK
  <1>4. MutexOK
    <2>1. \A v \in allocated : call[v].at \notin Busy
      <3>1. \A v \in allocated : call[v].at = "client"
        BY NobodyBusy, IdlingFrame
      <3> QED
        BY <3>1 DEF Busy
    <2>2. \A m \in Nodes : mutex[m] = [owner |-> NULL, waiters |-> <<>>]
      BY DEF Init, Nodes
    <2>3. mutex \in [Nodes -> [owner : Addr, waiters : Seq(Threads)]]
      <3>1. [owner |-> NULL, waiters |-> <<>>] \in [owner : Addr, waiters : Seq(Threads)]
        BY DEF Addr
      <3> QED
        BY <3>1 DEF Init, Nodes
    <2>4. \A t \in Threads : status[t] # "Blocked"
      BY DEF Init
    <2>5. IsInjective(<<>>) /\ Range(<<>>) = {}
      BY DEF IsInjective, Range
    <2>6. \A m \in Nodes : mutex[m].owner = NULL /\ mutex[m].waiters = <<>>
      BY <2>2
    <2> QED
      BY <2>1, <2>3, <2>4, <2>5, <2>6 DEF MutexOK
  <1>5. ListsOK
    <2>1. Belongs("all") = {Idle, Main}
      BY NobodyBusy DEF Belongs
    <2>2. status = [t \in Threads |-> IF t = Main THEN "Running" ELSE "Ready"]
      BY DEF Init
    <2>3. \A t \in allocated : status[t] # "Zombie" /\ (status[t] = "Ready" => t = Idle)
      BY <1>0, <2>2, NobodyBusy
    <2>4. Belongs("ready") = {} /\ Belongs("zombie") = {}
      BY <2>3, BelongsIs
    <2>5. \A l \in Lists : Members(links, l) = Belongs(l)
      BY <2>1, <2>4, FirstLists, ListNames
    <2> QED
      BY <2>5, FirstLists DEF ListsOK
  <1>6. AddOK /\ WalkOK
    BY NobodyBusy DEF AddOK, WalkOK
  <1>7. TidOK
    <2>1. \A v \in allocated : call[v].at # "tid"
      BY NobodyBusy, IdlingFrame
    <2>2. tid[Idle] = 1 /\ tid[Main] = 0 /\ next_tid = 2
      BY <1>0 DEF Init
    <2>3. tid \in [Threads -> 0..MaxTid] /\ next_tid \in 2..(MaxTid + 1)
      BY <1>0 DEF Init
    <2>4. /\ \A t \in Numbered : tid[t] < next_tid
          /\ \A t, u \in Numbered : tid[t] = tid[u] => t = u
      BY <2>2, NobodyBusy
    <2> QED
      BY <2>1, <2>3, <2>4 DEF TidOK
  <1>8. halted = "no" /\ OverlapOK
    BY DEF Init, OverlapOK
  <1> QED
    BY <1>1, <1>2, <1>3, <1>4, <1>5, <1>6, <1>7, <1>8 DEF Inv

-----------------------------------------------------------------------------
(* The theorems *)

\* The inductive invariant: while no list is torn, the kernel has not halted and all of
\* its thread lists, mutexes, calls and numbers fit together.
THEOREM Invariance == Spec => []IInv
  <1>1. Init => IInv
    <2> SUFFICES ASSUME Init PROVE IInv
      OBVIOUS
    <2> QED
      BY InitInv, NobodyBusy DEF IInv, Inv
  <1>2. IInv /\ [Next]_vars => IInv'
    <2> SUFFICES ASSUME IInv, [Next]_vars PROVE IInv'
      OBVIOUS
    <2>1. CASE Next
      <3>1. OverlapOK' /\ allocated' \subseteq Threads /\ overlap.torn \subseteq overlap'.torn
        BY <2>1, OverlapGrows DEF IInv
      <3>2. ASSUME overlap'.torn = {} PROVE Inv'
        <4>1. overlap.torn = {}
          BY <3>1, <3>2
        <4> QED
          BY <2>1, <3>2, <4>1, NextInv DEF IInv
      <3> QED
        BY <3>1, <3>2 DEF IInv
    <2>2. CASE UNCHANGED vars
      BY <2>2, StutterInv
    <2> QED
      BY <2>1, <2>2
  <1> QED
    BY <1>1, <1>2, PTL DEF Spec

\* A walk that stops at NULL after n threads has passed the whole list.
LEMMA WalkCounts ==
    ASSUME NEW k \in LinkTables, NEW l \in Lists, Path(k, l), NEW n \in Places, Walk(k, l)[n] = NULL,
           \A i \in Places : i < n => Walk(k, l)[i] # NULL
    PROVE  /\ \A t \in Members(k, l) : \E i \in Places : i < n /\ Walk(k, l)[i] = t
           /\ Cardinality(Members(k, l)) = n
  <1> DEFINE w == Walk(k, l)
             M == Members(k, l)
             f == [i \in 1..n |-> w[i - 1]]
  <1>0. n \in Nat /\ Places = 0..Cardinality(Threads) /\ Cardinality(Threads) \in Nat
    BY CountThreads DEF Places
  <1>1. ASSUME NEW t \in M PROVE \E i \in Places : i < n /\ w[i] = t
    <2>1. PICK i \in Places : w[i] = t /\ t # NULL
      BY MemberAt
    <2>2. ~(n <= i)
      BY <2>1, WalkStaysNull
    <2> QED
      BY <1>0, <2>1, <2>2
  <1>2. \A i \in Places : i < n => w[i] \in M
    BY MemberAt
  <1>3. \A i, j \in Places : w[i] # NULL /\ w[i] = w[j] => i = j
    BY DEF Path
  <1>4. \A i \in Places : i < n => w[i] # NULL
    OBVIOUS
  <1> HIDE DEF w, M
  <1>5. \A i \in 1..n : i - 1 \in Places /\ i - 1 < n /\ f[i] = w[i - 1]
    BY <1>0
  <1>6. f \in [1..n -> M]
    BY <1>2, <1>5
  <1>7. \A i, j \in 1..n : f[i] = f[j] => i = j
    <2>1. ASSUME NEW i \in 1..n, NEW j \in 1..n, f[i] = f[j] PROVE i = j
      <3>1. w[i - 1] = w[j - 1] /\ w[i - 1] # NULL
        BY <1>4, <1>5, <2>1
      <3>2. i - 1 = j - 1
        BY <1>3, <1>5, <3>1
      <3> QED
        BY <1>0, <3>2
    <2> QED
      BY <2>1
  <1>8. \A t \in M : \E i \in 1..n : f[i] = t
    <2>1. ASSUME NEW t \in M PROVE \E i \in 1..n : f[i] = t
      <3>1. PICK j \in Places : j < n /\ w[j] = t
        BY <1>1 DEF w, M
      <3>2. j + 1 \in 1..n /\ (j + 1) - 1 = j
        BY <1>0, <3>1
      <3>3. f[j + 1] = t
        BY <3>1, <3>2
      <3> QED
        BY <3>2, <3>3
    <2> QED
      BY <2>1
  <1> HIDE DEF f
  <1>9. f \in Bijection(1..n, M)
    BY <1>6, <1>7, <1>8 DEF Bijection, Injection, Surjection, IsInjective
  <1>10. Cardinality(M) = n
    BY <1>0, <1>9, FS_CountingElements DEF ExistsBijection
  <1> QED
    BY <1>1, <1>10 DEF w, M

\* What the invariant says of the queries.
LEMMA QueriesExact ==
    ASSUME Inv
    PROVE  WalksExact
  <1> SUFFICES ASSUME NEW l \in Lists, NEW t \in Walking(l), t \notin overlap.astray
               PROVE  /\ call[t].reg = Walk(links, l)[call[t].count]
                      /\ Found(call[t]) =>
                            IF call[t].seek \in {tid[u] : u \in Members(links, l)}
                            THEN tid[call[t].reg] = call[t].seek
                            ELSE call[t].count = Cardinality(Members(links, l))
    BY DEF WalksExact
  <1> DEFINE w == Walk(links, l)
             n == call[t].count
             s == call[t].seek
             M == Members(links, l)
  <1>1. /\ n \in Places /\ call[t].reg = w[n]
        /\ \A i \in Places : i < n => w[i] # NULL /\ tid[w[i]] # s
    BY DEF Inv, WalkOK
  <1>2. links \in LinkTables /\ Path(links, l)
    BY MembersAre
  <1>3. ASSUME Found(call[t]), w[n] = NULL
        PROVE  n = Cardinality(M) /\ s \notin {tid[u] : u \in M}
    <2>1. \A i \in Places : i < n => w[i] # NULL
      BY <1>1
    <2>2. Cardinality(M) = n /\ \A u \in M : \E i \in Places : i < n /\ w[i] = u
      BY <1>1, <1>2, <1>3, <2>1, WalkCounts
    <2> QED
      BY <1>1, <2>2
  <1>4. ASSUME Found(call[t]), w[n] # NULL
        PROVE  tid[w[n]] = s /\ s \in {tid[u] : u \in M}
    <2>1. w[n] \in M
      BY <1>1, <1>4, MemberAt
    <2>2. tid[w[n]] = s
      BY <1>1, <1>4 DEF Found
    <2> QED
      BY <2>1, <2>2
  <1> HIDE DEF w, n, s, M
  <1> QED
    BY <1>1, <1>3, <1>4 DEF w, n, s, M

\* A thread that is in the list of all threads has got its number.
LEMMA LinkedNumbered ==
    ASSUME Inv
    PROVE  allocated \ Unlinked("all") \subseteq Numbered
  <1> SUFFICES ASSUME NEW t \in allocated, t \notin Unlinked("all"), NEW v \in allocated, call[v].at = "tid"
               PROVE  call[v].new # t
    BY DEF Numbered
  <1>1. t \in Threads
    BY DEF Inv, StatusOK
  <1>2. Fresh(v, "all")
    BY DEF Fresh
  <1> QED
    BY <1>1, <1>2, UnlinkedIs

\* While no list is torn the variables have the values that the code can give them.
LEMMA InvTypeOK == Inv => TypeOK
  <1> SUFFICES ASSUME Inv PROVE TypeOK
    OBVIOUS
  <1>1. links.head \in [Lists -> Threads \cup {NULL}]
    BY DEF Inv, ListsOK, LinkTables, Addr
  <1>2. \A m \in DOMAIN mutex : /\ mutex[m].owner \in allocated \cup {NULL}
                                /\ Range(mutex[m].waiters) \subseteq allocated
    <2>1. DOMAIN mutex = Nodes
      BY DEF Inv, MutexOK
    <2>2. ASSUME NEW m \in Nodes
          PROVE  mutex[m].owner \in allocated \cup {NULL} /\ \A t \in Range(mutex[m].waiters) : t \in allocated
      BY DEF Inv, MutexOK
    <2> QED
      BY <2>1, <2>2
  <1> QED
    BY <1>1, <1>2 DEF Inv, StatusOK, TidOK, TypeOK

\* While no list is torn all lists end, are linked in both directions and are complete.
LEMMA InvSound == Inv => ListsSoundUnlessTorn
  <1> SUFFICES ASSUME Inv, NEW l \in Lists
               PROVE  Ends(links, l) /\ BackLinked(links, l) /\ Members(links, l) = Belongs(l)
    BY DEF ListsSoundUnlessTorn
  <1> QED
    BY MembersAre, SoundWalk

\* While no list is torn and creators did not race, the numbers are distinct.
LEMMA InvTids == Inv => TidsDistinctUnlessRaced
  <1> SUFFICES ASSUME Inv, ~overlap.tid, NEW t \in allocated \ Unlinked("all"), NEW u \in allocated \ Unlinked("all"),
                      tid[t] = tid[u]
               PROVE  t = u
    BY DEF TidsDistinctUnlessRaced
  <1>1. t \in Numbered /\ u \in Numbered
    BY LinkedNumbered
  <1> QED
    BY <1>1 DEF Inv, TidOK

\* For any number of threads, as long as no list is torn: the running thread is
\* allocated, as are owners and waiters of the mutexes, and tids stay within bounds.
THEOREM CreateTypes == Spec => [](overlap.torn = {} => TypeOK)
  <1>1. IInv => (overlap.torn = {} => TypeOK)
    BY InvTypeOK DEF IInv
  <1> QED
    BY <1>1, Invariance, PTL

\* For any number of threads: as long as the timer interrupt and mutex_release() do not
\* come between the stores of an insertion by thread_create_arg(), every list ends, is
\* linked in both directions and holds exactly the threads it is for.
THEOREM ListsSound == Spec => [](overlap.torn = {} => ListsSoundUnlessTorn)
  <1>1. IInv => (overlap.torn = {} => ListsSoundUnlessTorn)
    BY InvSound DEF IInv
  <1> QED
    BY <1>1, Invariance, PTL

\* For any number of threads: no assertion of clean_zombies(), scheduler_next() and
\* schedule() fails and none of their loops runs for ever, unless a list was torn.
THEOREM NeverHalts == Spec => []NoHaltUnlessTorn
  <1>1. IInv => NoHaltUnlessTorn
    BY DEF IInv, Inv, NoHaltUnlessTorn
  <1> QED
    BY <1>1, Invariance, PTL

\* For any number of threads, as long as no list is torn: thread_count() and its kin and
\* thread_get_by_tid() count the whole list, or find the thread with that tid, unless the
\* interrupt changed the list under them.
THEOREM CountsExact == Spec => [](overlap.torn = {} => WalksExact)
  <1>1. IInv => (overlap.torn = {} => WalksExact)
    BY QueriesExact DEF IInv
  <1> QED
    BY <1>1, Invariance, PTL

\* For any number of threads, as long as no list is torn: two threads have the same tid
\* only if two creators read next_tid before either of them stored it.
THEOREM TidsUnique == Spec => [](overlap.torn = {} => TidsDistinctUnlessRaced)
  <1>1. IInv => (overlap.torn = {} => TidsDistinctUnlessRaced)
    BY InvTids DEF IInv
  <1> QED
    BY <1>1, Invariance, PTL
=============================================================================
