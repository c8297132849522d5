----------------------------- MODULE ListLemmas -----------------------------
(***************************************************************************)
(* What the operations on thread lists and wait queues do to the set of    *)
(* threads a list links, and that they link no thread twice. The lists of  *)
(* module Scheduler are sequences; Range(s) is the set a list links and    *)
(* IsInjective(s) says that it links nothing twice.                        *)
(***************************************************************************)
EXTENDS Integers, Sequences, SequencesExt, SequenceTheorems, TLAPS

\* An empty list (a list head that is NULL) links nothing.
LEMMA EmptyList ==
    ASSUME NEW S
    PROVE  /\ <<>> \in Seq(S)
           /\ Range(<<>>) = {}
           /\ IsInjective(<<>>)
           /\ Len(<<>>) = 0
  BY DEF Range, IsInjective

\* A list of one thread links that thread.
LEMMA SingletonList ==
    ASSUME NEW S, NEW x \in S
    PROVE  /\ <<x>> \in Seq(S)
           /\ Range(<<x>>) = {x}
           /\ IsInjective(<<x>>)
           /\ <<x>> # <<>>
  <1>1. <<x>> \in Seq(S) /\ Len(<<x>>) = 1 /\ <<x>>[1] = x /\ DOMAIN <<x>> = {1}
    OBVIOUS
  <1> QED
    BY <1>1 DEF Range, IsInjective

\* The links of a list that is not empty are at the positions 1..Len.
LEMMA ListDomain ==
    ASSUME NEW S, NEW s \in Seq(S)
    PROVE  /\ DOMAIN s = 1..Len(s)
           /\ Len(s) \in Nat
           /\ Range(s) \subseteq S
           /\ Len(s) = 0 <=> s = <<>>
           /\ Range(s) = {} <=> s = <<>>
  <1>1. DOMAIN s = 1..Len(s) /\ Len(s) \in Nat /\ \A i \in 1..Len(s) : s[i] \in S
    BY LenProperties, ElementOfSeq
  <1>2. Len(s) = 0 <=> s = <<>>
    BY EmptySeq
  <1>3. Range(s) \subseteq S
    BY <1>1 DEF Range
  <1>4. s # <<>> => s[1] \in Range(s)
    BY <1>1, <1>2 DEF Range
  <1>5. s = <<>> => Range(s) = {}
    BY <1>1, <1>2 DEF Range
  <1> QED
    BY <1>1, <1>2, <1>3, <1>4, <1>5

\* Putting one list before another (thread_list_add() when the first has one
\* element) unites what they link.
LEMMA ConcatList ==
    ASSUME NEW S, NEW s \in Seq(S), NEW t \in Seq(S),
           IsInjective(s), IsInjective(t), Range(s) \cap Range(t) = {}
    PROVE  /\ s \o t \in Seq(S)
           /\ Range(s \o t) = Range(s) \cup Range(t)
           /\ IsInjective(s \o t)
  <1> DEFINE u == s \o t
  <1>1. /\ u \in Seq(S)
        /\ Len(u) = Len(s) + Len(t)
        /\ \A i \in 1..(Len(s) + Len(t)) :
              u[i] = IF i <= Len(s) THEN s[i] ELSE t[i - Len(s)]
    BY ConcatProperties
  <1>2. /\ DOMAIN s = 1..Len(s) /\ DOMAIN t = 1..Len(t) /\ DOMAIN u = 1..Len(u)
        /\ Len(s) \in Nat /\ Len(t) \in Nat
    BY <1>1, LenProperties
  <1>3. Range(u) = Range(s) \cup Range(t)
    BY RangeConcatenation
  <1>4. ASSUME NEW i \in DOMAIN u, NEW j \in DOMAIN u, u[i] = u[j]
        PROVE  i = j
    <2> USE <1>1, <1>2, <1>4
    <2>1. CASE i <= Len(s) /\ j <= Len(s)
      <3>1. i \in DOMAIN s /\ j \in DOMAIN s /\ s[i] = s[j]
        BY <2>1
      <3> QED
        BY <3>1 DEF IsInjective
    <2>2. CASE i > Len(s) /\ j > Len(s)
      <3>1. i - Len(s) \in DOMAIN t /\ j - Len(s) \in DOMAIN t /\ t[i - Len(s)] = t[j - Len(s)]
        BY <2>2
      <3>2. i - Len(s) = j - Len(s)
        BY <3>1 DEF IsInjective
      <3> QED
        BY <3>2
    <2>3. CASE i <= Len(s) /\ j > Len(s)
      <3>1. i \in DOMAIN s /\ j - Len(s) \in DOMAIN t /\ s[i] = t[j - Len(s)]
        BY <2>3
      <3>2. s[i] \in Range(s) /\ t[j - Len(s)] \in Range(t)
        BY <3>1 DEF Range
      <3> QED
        BY <3>1, <3>2
    <2>4. CASE i > Len(s) /\ j <= Len(s)
      <3>1. j \in DOMAIN s /\ i - Len(s) \in DOMAIN t /\ s[j] = t[i - Len(s)]
        BY <2>4
      <3>2. s[j] \in Range(s) /\ t[i - Len(s)] \in Range(t)
        BY <3>1 DEF Range
      <3> QED
        BY <3>1, <3>2
    <2> QED
      BY <2>1, <2>2, <2>3, <2>4
  <1>5. IsInjective(u)
    BY <1>4 DEF IsInjective
  <1> QED
    BY <1>1, <1>3, <1>5

\* thread_list_add(): a thread that is not yet linked is put at the head.
LEMMA PushList ==
    ASSUME NEW S, NEW s \in Seq(S), NEW x \in S, IsInjective(s), x \notin Range(s)
    PROVE  /\ <<x>> \o s \in Seq(S)
           /\ Range(<<x>> \o s) = Range(s) \cup {x}
           /\ IsInjective(<<x>> \o s)
  <1>1. /\ <<x>> \in Seq(S)
        /\ Range(<<x>>) = {x}
        /\ IsInjective(<<x>>)
    BY SingletonList
  <1> DEFINE p == <<x>>
  <1> HIDE DEF p
  <1>2. p \in Seq(S) /\ Range(p) = {x} /\ IsInjective(p) /\ Range(p) \cap Range(s) = {}
    BY <1>1 DEF p
  <1>3. /\ p \o s \in Seq(S)
        /\ Range(p \o s) = Range(p) \cup Range(s)
        /\ IsInjective(p \o s)
    BY <1>2, ConcatList
  <1> QED
    BY <1>2, <1>3 DEF p

\* wait_queue_append(): a thread that is not yet linked is put at the tail.
LEMMA AppendList ==
    ASSUME NEW S, NEW s \in Seq(S), NEW x \in S
    PROVE  /\ Append(s, x) \in Seq(S)
           /\ Range(Append(s, x)) = Range(s) \cup {x}
           /\ Len(Append(s, x)) = Len(s) + 1
           /\ Append(s, x) # <<>>
           /\ IsInjective(s) /\ x \notin Range(s) => IsInjective(Append(s, x))
  <1> DEFINE u == Append(s, x)
  <1>1. /\ u \in Seq(S)
        /\ Len(u) = Len(s) + 1
        /\ \A i \in 1..Len(s) : u[i] = s[i]
        /\ u[Len(s) + 1] = x
        /\ u # <<>>
    BY AppendProperties
  <1>2. DOMAIN s = 1..Len(s) /\ DOMAIN u = 1..(Len(s) + 1) /\ Len(s) \in Nat
    BY <1>1, LenProperties
  <1> HIDE DEF u
  <1>3. ASSUME NEW y \in Range(u) PROVE y \in Range(s) \cup {x}
    BY <1>1, <1>2 DEF Range
  <1>4. ASSUME NEW y \in Range(s) PROVE y \in Range(u)
    <2>1. PICK i \in 1..Len(s) : s[i] = y
      BY <1>2 DEF Range
    <2>2. i \in DOMAIN u /\ u[i] = y
      BY <1>1, <1>2, <2>1
    <2> QED
      BY <2>2 DEF Range
  <1>5. x \in Range(u)
    BY <1>1, <1>2 DEF Range
  <1>6. Range(u) = Range(s) \cup {x}
    BY <1>3, <1>4, <1>5
  <1>7. ASSUME IsInjective(s), x \notin Range(s) PROVE IsInjective(u)
    <2>1. \A i \in 1..Len(s) : s[i] # x
      BY <1>2, <1>7 DEF Range
    <2>2. \A i, j \in 1..Len(s) : s[i] = s[j] => i = j
      BY <1>2, <1>7 DEF IsInjective
    <2>3. ASSUME NEW i \in DOMAIN u, NEW j \in DOMAIN u, u[i] = u[j] PROVE i = j
      BY <1>1, <1>2, <2>1, <2>2, <2>3
    <2> QED
      BY <2>3 DEF IsInjective
  <1> QED
    BY <1>1, <1>6, <1>7 DEF u

\* wait_queue_popfront(): what is left after the head has been unlinked.
LEMMA TailList ==
    ASSUME NEW S, NEW s \in Seq(S), s # <<>>, IsInjective(s)
    PROVE  /\ Head(s) \in S
           /\ Head(s) \in Range(s)
           /\ Tail(s) \in Seq(S)
           /\ Len(Tail(s)) = Len(s) - 1
           /\ Range(Tail(s)) = Range(s) \ {Head(s)}
           /\ IsInjective(Tail(s))
  <1> DEFINE u == Tail(s)
  <1>1. /\ Head(s) \in S
        /\ u \in Seq(S)
        /\ Len(u) = Len(s) - 1
        /\ \A i \in 1..Len(u) : u[i] = s[i + 1]
    BY HeadTailProperties
  <1>2. /\ DOMAIN s = 1..Len(s)
        /\ DOMAIN u = 1..(Len(s) - 1)
        /\ Len(s) \in Nat
        /\ Len(s) # 0
    BY <1>1, LenProperties, ListDomain
  <1>3. Head(s) = s[1]
    OBVIOUS
  <1>4. \A i, j \in 1..Len(s) : s[i] = s[j] => i = j
    BY <1>2 DEF IsInjective
  <1> HIDE DEF u
  <1>5. Head(s) \in Range(s)
    BY <1>2, <1>3 DEF Range
  <1>6. ASSUME NEW y \in Range(u) PROVE y \in Range(s) /\ y # s[1]
    <2>1. PICK i \in DOMAIN u : u[i] = y
      BY DEF Range
    <2>2. i + 1 \in 1..Len(s) /\ s[i + 1] = y /\ i + 1 # 1
      BY <1>1, <1>2, <2>1
    <2>3. s[i + 1] # s[1]
      BY <1>2, <1>4, <2>2
    <2> QED
      BY <1>2, <2>2, <2>3 DEF Range
  <1>7. ASSUME NEW y \in Range(s), y # s[1] PROVE y \in Range(u)
    <2>1. PICK i \in DOMAIN s : s[i] = y
      BY DEF Range
    <2>2. i # 1
      BY <2>1, <1>7
    <2>3. i - 1 \in 1..(Len(s) - 1) /\ (i - 1) + 1 = i
      BY <1>2, <2>1, <2>2
    <2>4. i - 1 \in DOMAIN u /\ u[i - 1] = y
      BY <1>1, <1>2, <2>1, <2>3
    <2> QED
      BY <2>4 DEF Range
  <1>8. ASSUME NEW i \in DOMAIN u, NEW j \in DOMAIN u, u[i] = u[j] PROVE i = j
    <2>1. i + 1 \in 1..Len(s) /\ j + 1 \in 1..Len(s) /\ s[i + 1] = s[j + 1]
      BY <1>1, <1>2, <1>8
    <2>2. i + 1 = j + 1
      BY <1>4, <2>1
    <2> QED
      BY <1>2, <2>2
  <1>9. IsInjective(u)
    BY <1>8 DEF IsInjective
  <1>10. Range(u) = Range(s) \ {Head(s)}
    BY <1>3, <1>6, <1>7
  <1> QED
    BY <1>1, <1>5, <1>9, <1>10 DEF u

\* The places in a list whose tail has been unlinked.
LEMMA FrontItems ==
    ASSUME NEW S, NEW s \in Seq(S), s # <<>>
    PROVE  /\ Front(s) \in Seq(S)
           /\ Len(s) \in Nat \ {0}
           /\ DOMAIN s = 1..Len(s)
           /\ DOMAIN Front(s) = 1..(Len(s) - 1)
           /\ \A i \in 1..(Len(s) - 1) : Front(s)[i] = s[i]
  <1> DEFINE u == Front(s)
             n == Len(s)
  <1>1. DOMAIN s = 1..n /\ n \in Nat /\ n # 0 /\ \A i \in 1..n : s[i] \in S
    BY LenProperties, ListDomain, ElementOfSeq
  <1>2. \A i \in 1..(n - 1) : s[i] \in S
    BY <1>1
  <1>3. /\ u \in Seq(S)
        /\ Len(u) = IF 1 <= n - 1 THEN (n - 1) - 1 + 1 ELSE 0
        /\ \A i \in 1..((n - 1) - 1 + 1) : u[i] = s[1 + i - 1]
    BY <1>1, <1>2, SubSeqProperties DEF Front
  <1> HIDE DEF u, n
  <1>4. Len(u) = n - 1 /\ \A i \in 1..(n - 1) : u[i] = s[i]
    <2>1. (n - 1) - 1 + 1 = n - 1 /\ \A i \in 1..(n - 1) : 1 + i - 1 = i
      BY <1>1
    <2> QED
      BY <1>1, <1>3, <2>1
  <1>5. DOMAIN u = 1..(n - 1)
    BY <1>3, <1>4, LenProperties
  <1> QED
    BY <1>1, <1>3, <1>4, <1>5 DEF u, n

\* find_ready_thread(): what is left after the tail has been unlinked.
LEMMA FrontList ==
    ASSUME NEW S, NEW s \in Seq(S), s # <<>>, IsInjective(s)
    PROVE  /\ Last(s) \in S
           /\ Last(s) \in Range(s)
           /\ Front(s) \in Seq(S)
           /\ Range(Front(s)) = Range(s) \ {Last(s)}
           /\ IsInjective(Front(s))
  <1> DEFINE u == Front(s)
             n == Len(s)
  <1>1. DOMAIN s = 1..n /\ n \in Nat /\ n # 0 /\ \A i \in 1..n : s[i] \in S
    BY LenProperties, ListDomain, ElementOfSeq
  <1>3. /\ u \in Seq(S)
        /\ DOMAIN u = 1..(n - 1)
        /\ \A i \in 1..(n - 1) : u[i] = s[i]
    BY FrontItems
  <1> HIDE DEF u, n
  <1>6. Last(s) = s[n]
    BY DEF Last, n
  <1>7. \A i, j \in 1..n : s[i] = s[j] => i = j
    BY <1>1 DEF IsInjective
  <1>8. Last(s) \in S /\ Last(s) \in Range(s)
    BY <1>1, <1>6 DEF Range
  <1>9. ASSUME NEW y \in Range(u) PROVE y \in Range(s) /\ y # s[n]
    <2>1. PICK i \in DOMAIN u : u[i] = y
      BY DEF Range
    <2>2. i \in 1..n /\ s[i] = y /\ i # n
      BY <1>1, <1>3, <2>1
    <2>3. s[i] # s[n]
      BY <1>1, <1>7, <2>2
    <2> QED
      BY <1>1, <2>2, <2>3 DEF Range
  <1>10. ASSUME NEW y \in Range(s), y # s[n] PROVE y \in Range(u)
    <2>1. PICK i \in DOMAIN s : s[i] = y
      BY DEF Range
    <2>2. i \in DOMAIN u /\ u[i] = y
      BY <1>1, <1>3, <1>10, <2>1
    <2> QED
      BY <2>2 DEF Range
  <1>11. ASSUME NEW i \in DOMAIN u, NEW j \in DOMAIN u, u[i] = u[j] PROVE i = j
    BY <1>1, <1>3, <1>7, <1>11
  <1>12. IsInjective(u)
    BY <1>11 DEF IsInjective
  <1>13. Range(u) = Range(s) \ {Last(s)}
    BY <1>6, <1>9, <1>10
  <1> QED
    BY <1>3, <1>8, <1>12, <1>13 DEF u

\* Waking a whole queue pushes its threads one by one, which reverses it.
LEMMA ReverseList ==
    ASSUME NEW S, NEW s \in Seq(S), IsInjective(s)
    PROVE  /\ Reverse(s) \in Seq(S)
           /\ Range(Reverse(s)) = Range(s)
           /\ IsInjective(Reverse(s))
  <1> DEFINE u == Reverse(s)
             n == Len(s)
  <1>1. DOMAIN s = 1..n /\ n \in Nat /\ \A i \in 1..n : s[i] \in S
    BY LenProperties, ElementOfSeq
  <1>2. DOMAIN u = 1..n /\ \A i \in 1..n : u[i] = s[n - i + 1]
    BY <1>1 DEF Reverse
  <1>3. u \in Seq(S)
    BY <1>1 DEF Reverse
  <1>4. \A i, j \in 1..n : s[i] = s[j] => i = j
    BY <1>1 DEF IsInjective
  <1> HIDE DEF u, n
  <1>5. ASSUME NEW y \in Range(u) PROVE y \in Range(s)
    <2>1. PICK i \in 1..n : u[i] = y
      BY <1>2 DEF Range
    <2>2. n - i + 1 \in DOMAIN s /\ s[n - i + 1] = y
      BY <1>1, <1>2, <2>1
    <2> QED
      BY <2>2 DEF Range
  <1>6. ASSUME NEW y \in Range(s) PROVE y \in Range(u)
    <2>1. PICK i \in 1..n : s[i] = y
      BY <1>1 DEF Range
    <2>2. n - i + 1 \in 1..n /\ n - (n - i + 1) + 1 = i
      BY <1>1, <2>1
    <2>3. n - i + 1 \in DOMAIN u /\ u[n - i + 1] = y
      BY <1>2, <2>1, <2>2
    <2> QED
      BY <2>3 DEF Range
  <1>7. ASSUME NEW i \in DOMAIN u, NEW j \in DOMAIN u, u[i] = u[j] PROVE i = j
    <2>1. n - i + 1 \in 1..n /\ n - j + 1 \in 1..n /\ s[n - i + 1] = s[n - j + 1]
      BY <1>1, <1>2, <1>7
    <2>2. n - i + 1 = n - j + 1
      BY <1>4, <2>1
    <2> QED
      BY <1>1, <1>2, <2>2
  <1>8. IsInjective(u)
    BY <1>7 DEF IsInjective
  <1>9. Range(u) = Range(s)
    BY <1>5, <1>6
  <1> QED
    BY <1>3, <1>8, <1>9 DEF u
=============================================================================
