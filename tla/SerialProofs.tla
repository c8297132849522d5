---------------------------- MODULE SerialProofs ----------------------------
(***************************************************************************)
(* Theorems about the serial port: for any number of threads that print    *)
(* and read, any text length, buffer size, time-out and word size.         *)
(***************************************************************************)
EXTENDS Serial, ListLemmas, FiniteSetTheorems

-----------------------------------------------------------------------------
(* The inductive invariant *)

\* Where a thread can be, with its local variables.
Calls == [at : {"client", "out", "spin", "read", "unlock"},
          left : 0..Chars, locked : BOOLEAN, end : 0..(Word - 1)]

\* The shape of the variables.
Shapes ==
    /\ current_thread \in Threads \cup {Idle}
    /\ serial_lock \in [owner : Threads \cup {NULL}, waiters : Seq(Threads)]
    /\ timer_ticks \in 0..(Word - 1)
    /\ uart \in [rx : Seq(Nat), loop : BOOLEAN]
    /\ call \in [Threads -> Calls]
    /\ sent \in [by : Threads \cup {NULL}, left : 1..Chars]
    /\ got \in Nat /\ arrived \in Nat
    /\ waited \in [Readers -> 0..MAX_SPIN_TICKS]

\* Every thread is in one place and once there: on the processor, in the ready
\* list or in line for the lock.
Spread(cur, queue, waiters) ==
    /\ cur \in Threads \cup {Idle}
    /\ queue \in Seq(Threads) /\ IsInjective(queue)
    /\ waiters \in Seq(Threads) /\ IsInjective(waiters)
    /\ Range(queue) \cap Range(waiters) = {}
    /\ cur \notin Range(queue) \cup Range(waiters)
    /\ Range(queue) \cup Range(waiters) \cup ({cur} \ {Idle}) = Threads

Queues == Spread(current_thread, ready, serial_lock.waiters)

\* The points of a call between mutex_acquire() and mutex_release().
InCall(c) == c.at \in {"spin", "read", "unlock"} \/ (c.at = "out" /\ c.locked)

\* A call that has not done anything since its mutex_acquire().
Fresh(c) == c.at = "spin" \/ (c.at = "out" /\ c.left = Chars)

\* The owner of the lock and its waiters are the threads inside a synchronized call,
\* and a waiter has not begun.
Guarded(lock, calls) ==
    /\ lock.owner \notin Range(lock.waiters)
    /\ lock.owner = NULL => lock.waiters = <<>>
    /\ \A t \in Threads : InCall(calls[t]) <=> (t = lock.owner \/ t \in Range(lock.waiters))
    /\ \A t \in Range(lock.waiters) : Fresh(calls[t])

\* A text of which some characters are still to come is the owner's, who is about to
\* send the next one; otherwise an owner that prints is at one end of its text.
Whole(last, lock, calls) ==
    /\ last.left > 1 =>
          /\ lock.owner = last.by /\ last.by \in Threads
          /\ calls[last.by].at = "out"
          /\ calls[last.by].left = last.left - 1
    /\ last.left = 1 =>
          \A t \in Threads : t = lock.owner /\ calls[t].at = "out" => calls[t].left \in {0, Chars}

\* The bytes in the buffer are newer than the last one read, oldest first, and there
\* is one for whoever has seen that there is.
Buffered(rx, last, newest) ==
    /\ Len(rx) <= Fifo
    /\ \A i \in 1..Len(rx) : last < rx[i] /\ rx[i] <= newest
    /\ \A i, j \in 1..Len(rx) : i < j => rx[i] < rx[j]

Promised == \A t \in Threads : call[t].at = "read" => uart.rx # <<>>

\* The lock and the texts, as one fact.
LockOK == Guarded(serial_lock, call) /\ Whole(sent, serial_lock, call)

\* The buffer, as one fact: the bytes, and who knows of them.
BufferOK == Buffered(uart.rx, got, arrived) /\ got <= arrived /\ Promised

\* Whoever waits for a time that did not wrap has waited MAX_SPIN_TICKS, or has
\* the rest of them before it.
Watch(c, time, ticks) ==
    /\ c.at = "spin" /\ c.end >= MAX_SPIN_TICKS =>
          ticks = MAX_SPIN_TICKS \/ time + MAX_SPIN_TICKS - ticks = c.end
    /\ c.at \in {"client", "out"} => ticks = 0

\* Only readers are in io_serial_nextinb().
OnlyReaders == \A t \in Threads : call[t].at \in {"spin", "read", "unlock"} => t \in Readers

Watches ==
    /\ OnlyReaders
    /\ \A t \in Readers : Watch(call[t], timer_ticks, waited[t])

IInv ==
    /\ Shapes
    /\ Queues
    /\ LockOK
    /\ BufferOK
    /\ Watches

-----------------------------------------------------------------------------
(* Where the threads are *)

\* The processor is given to the oldest ready thread.
LEMMA SpreadSwitch ==
    ASSUME NEW q, NEW w, Spread(Idle, q, w), q # <<>>
    PROVE  Spread(Head(q), Tail(q), w)
  <1>1. /\ Head(q) \in Threads /\ Head(q) \in Range(q)
        /\ Tail(q) \in Seq(Threads) /\ Range(Tail(q)) = Range(q) \ {Head(q)}
        /\ IsInjective(Tail(q))
    BY TailList DEF Spread
  <1>2. Idle \notin Threads
    BY SerialAssumption
  <1> QED
    BY <1>1, <1>2 DEF Spread

\* The interrupted thread goes to the end of the ready list.
LEMMA SpreadBehind ==
    ASSUME NEW c, NEW q, NEW w, Spread(c, q, w), c # Idle
    PROVE  Spread(Idle, Append(q, c), w)
  <1>1. c \in Threads /\ Idle \notin Threads
    BY SerialAssumption DEF Spread
  <1>2. /\ Append(q, c) \in Seq(Threads) /\ Range(Append(q, c)) = Range(q) \cup {c}
        /\ IsInjective(Append(q, c))
    BY <1>1, AppendList DEF Spread
  <1> QED
    BY <1>1, <1>2 DEF Spread

\* A thread that has to wait for the lock goes to the end of the line.
LEMMA SpreadWait ==
    ASSUME NEW c, NEW q, NEW w, Spread(c, q, w), c # Idle
    PROVE  Spread(Idle, q, Append(w, c))
  <1>1. c \in Threads /\ Idle \notin Threads
    BY SerialAssumption DEF Spread
  <1>2. /\ Append(w, c) \in Seq(Threads) /\ Range(Append(w, c)) = Range(w) \cup {c}
        /\ IsInjective(Append(w, c))
    BY <1>1, AppendList DEF Spread
  <1> QED
    BY <1>1, <1>2 DEF Spread

\* mutex_release() makes the first waiter ready.
LEMMA SpreadRelease ==
    ASSUME NEW c, NEW q, NEW w, Spread(c, q, w), w # <<>>
    PROVE  Spread(c, Append(q, Head(w)), Tail(w))
  <1>1. /\ Head(w) \in Threads /\ Head(w) \in Range(w)
        /\ Tail(w) \in Seq(Threads) /\ Range(Tail(w)) = Range(w) \ {Head(w)}
        /\ IsInjective(Tail(w))
    BY TailList DEF Spread
  <1>2. /\ Append(q, Head(w)) \in Seq(Threads)
        /\ Range(Append(q, Head(w))) = Range(q) \cup {Head(w)}
        /\ IsInjective(Append(q, Head(w)))
    BY <1>1, AppendList DEF Spread
  <1>3. /\ c \notin Range(w)
        /\ Range(q) \cap Range(w) = {}
        /\ Range(q) \cup Range(w) \cup ({c} \ {Idle}) = Threads
        /\ c \notin Range(q) /\ c \in Threads \cup {Idle}
    BY DEF Spread
  <1>4. (Range(q) \cup {Head(w)}) \cap (Range(w) \ {Head(w)}) = {}
    BY <1>3
  <1>5. c \notin (Range(q) \cup {Head(w)}) \cup (Range(w) \ {Head(w)})
    BY <1>1, <1>3
  <1>6. (Range(q) \cup {Head(w)}) \cup (Range(w) \ {Head(w)}) = Range(q) \cup Range(w)
    BY <1>1
  <1> QED
    BY <1>1, <1>2, <1>3, <1>4, <1>5, <1>6 DEF Spread

\* What remains when the processor is taken from a thread is spread again.
LEMMA SwitchSpreads ==
    ASSUME NEW q, NEW w, Spread(Idle, q, w), Switch(q), serial_lock'.waiters = w
    PROVE  Queues'
  <1>1. CASE q = <<>>
    BY <1>1 DEF Switch, Queues
  <1>2. CASE q # <<>>
    <2>1. Spread(Head(q), Tail(q), w)
      BY <1>2, SpreadSwitch
    <2> QED
      BY <1>2, <2>1 DEF Switch, Queues
  <1> QED
    BY <1>1, <1>2

\* Every entry of IRQ0 leaves each thread in one place.
LEMMA IrqSpreads ==
    ASSUME Queues, isr_IRQ0(TRUE), UNCHANGED serial_lock
    PROVE  Queues'
  <1> PICK c : c = current_thread
    OBVIOUS
  <1> PICK q : q = ready
    OBVIOUS
  <1> PICK w : w = serial_lock.waiters
    OBVIOUS
  <1>1. Spread(c, q, w) /\ serial_lock'.waiters = w
    BY DEF Queues
  <1>2. CASE c = Idle
    <2>1. Switch(q)
      BY <1>2 DEF isr_IRQ0, Behind, me
    <2> QED
      BY <1>1, <1>2, <2>1, SwitchSpreads
  <1>3. CASE c # Idle
    <2>1. Switch(Append(q, c))
      BY <1>3 DEF isr_IRQ0, Behind, me
    <2>2. Spread(Idle, Append(q, c), w)
      BY <1>1, <1>3, SpreadBehind
    <2> QED
      BY <1>1, <2>1, <2>2, SwitchSpreads
  <1> QED
    BY <1>2, <1>3

\* So does mutex_acquire().
LEMMA AcquireSpreads ==
    ASSUME Shapes, Queues, NEW c, Acquire(c), me # Idle
    PROVE  Queues'
  <1>1. CASE serial_lock.owner = NULL
    <2>1. serial_lock'.waiters = serial_lock.waiters
      BY <1>1 DEF Acquire, Shapes
    <2> QED
      BY <1>1, <2>1 DEF Acquire, Queues
  <1>2. CASE serial_lock.owner # NULL
    <2> PICK t : t = current_thread
      OBVIOUS
    <2> PICK q : q = ready
      OBVIOUS
    <2> PICK w : w = serial_lock.waiters
      OBVIOUS
    <2>1. serial_lock'.waiters = Append(w, t)
      BY <1>2 DEF Acquire, Shapes, me
    <2>2. Switch(q)
      BY <1>2 DEF Acquire, isr_IRQ0, Behind
    <2>3. Spread(Idle, q, Append(w, t))
      BY SpreadWait DEF Queues, me
    <2> QED
      BY <2>1, <2>2, <2>3, SwitchSpreads
  <1> QED
    BY <1>1, <1>2

\* And mutex_release().
LEMMA ReleaseSpreads ==
    ASSUME Shapes, Queues, Release, UNCHANGED current_thread
    PROVE  Queues'
  <1>1. CASE serial_lock.waiters = <<>>
    <2>1. serial_lock'.waiters = serial_lock.waiters /\ ready' = ready
      BY <1>1 DEF Release, Shapes
    <2> QED
      BY <2>1 DEF Queues
  <1>2. CASE serial_lock.waiters # <<>>
    <2> PICK t : t = current_thread
      OBVIOUS
    <2> PICK q : q = ready
      OBVIOUS
    <2> PICK w : w = serial_lock.waiters
      OBVIOUS
    <2>1. serial_lock'.waiters = Tail(w) /\ ready' = Append(q, Head(w)) /\ current_thread' = t
      BY <1>2 DEF Release
    <2>2. Spread(t, Append(q, Head(w)), Tail(w))
      BY <1>2, SpreadRelease DEF Queues
    <2> QED
      BY <2>1, <2>2 DEF Queues
  <1> QED
    BY <1>1, <1>2

\* No step loses a thread or puts it in two places.
LEMMA QueuesNext ==
    ASSUME Shapes, Queues, [Next]_vars
    PROVE  Queues'
  <1>1. CASE TimerInterrupt \/ Spin
    BY <1>1, IrqSpreads DEF TimerInterrupt, Spin
  <1>2. CASE Printf \/ NextInb
    <2>1. me # Idle /\ \E c : Acquire(c)
      BY <1>2, Zenon DEF Printf, NextInb, Begin, At
    <2> QED
      BY <2>1, AcquireSpreads
  <1>3. CASE TimedOut \/ ReadEnd
    BY <1>3, ReleaseSpreads DEF TimedOut, ReadEnd
  <1>4. CASE PrintEnd
    <2>1. CASE call[me].locked
      BY <1>4, <2>1, ReleaseSpreads DEF PrintEnd
    <2>2. CASE ~call[me].locked
      BY <1>4, <2>2 DEF PrintEnd, Queues
    <2> QED
      BY <2>1, <2>2
  <1>5. CASE UNCHANGED <<current_thread, ready, serial_lock>>
    BY <1>5 DEF Queues
  <1> QED
    BY <1>1, <1>2, <1>3, <1>4, <1>5 DEF Next, Step, vars, ByteArrives, SetLoopback,
       UnsafePrintf, PrintfDisabled, OutChar, DataReady, ReadByte

-----------------------------------------------------------------------------
(* The shape of the state *)

\* The calls that a thread can begin, and the one that it is in when it is away.
LEMMA CallShapes ==
    /\ Away \in Calls
    /\ [Away EXCEPT !.at = "out", !.left = Chars, !.locked = TRUE] \in Calls
    /\ [Away EXCEPT !.at = "out", !.left = Chars] \in Calls
    /\ [Away EXCEPT !.at = "read"] \in Calls
    /\ [Away EXCEPT !.at = "unlock"] \in Calls
    /\ \A e \in 0..(Word - 1) : [Away EXCEPT !.at = "spin", !.end = e] \in Calls
  <1>1. Chars \in Nat \ {0} /\ Word \in Nat /\ Word > 0
    BY SerialAssumption
  <1>2. /\ 0 \in 0..Chars /\ Chars \in 0..Chars /\ 0 \in 0..(Word - 1)
    BY <1>1
  <1>3. Away \in Calls
    BY <1>2 DEF Away, Calls
  <1>4. [Away EXCEPT !.at = "out", !.left = Chars, !.locked = TRUE] \in Calls
    BY <1>2, <1>3 DEF Calls
  <1>5. [Away EXCEPT !.at = "out", !.left = Chars] \in Calls
    BY <1>2, <1>3 DEF Calls
  <1>6. [Away EXCEPT !.at = "read"] \in Calls /\ [Away EXCEPT !.at = "unlock"] \in Calls
    BY <1>3 DEF Calls
  <1>7. ASSUME NEW e \in 0..(Word - 1)
        PROVE  [Away EXCEPT !.at = "spin", !.end = e] \in Calls
    BY <1>3 DEF Calls
  <1> QED
    BY <1>3, <1>4, <1>5, <1>6, <1>7

\* A call that has sent one more character.
LEMMA NextChar ==
    ASSUME NEW c \in Calls, c.left > 0
    PROVE  LET d == [c EXCEPT !.left = @ - 1]
           IN  d \in Calls /\ d.at = c.at /\ d.locked = c.locked /\ d.left = c.left - 1
  <1>1. c.left \in 0..Chars /\ Chars \in Nat
    BY SerialAssumption DEF Calls
  <1>2. c.left - 1 \in 0..Chars
    BY <1>1
  <1> QED
    BY <1>2 DEF Calls

\* A thread that goes on at a possible point leaves call a function of such points.
LEMMA GotoShape ==
    ASSUME Shapes, NEW c \in Calls, Goto(c), me # Idle
    PROVE  call' \in [Threads -> Calls]
  BY DEF Shapes, Goto, me

\* A tick keeps the counters in their ranges.
LEMMA TickShape ==
    ASSUME Shapes, Tick
    PROVE  /\ timer_ticks' \in 0..(Word - 1)
           /\ waited' \in [Readers -> 0..MAX_SPIN_TICKS]
  <1>1. Word \in Nat \ {0} /\ MAX_SPIN_TICKS \in Nat
    BY SerialAssumption
  <1>2. timer_ticks' \in 0..(Word - 1)
    BY <1>1 DEF Shapes, Tick
  <1>3. ASSUME NEW t \in Readers
        PROVE  (IF call'[t].at = "spin" /\ waited[t] < MAX_SPIN_TICKS THEN waited[t] + 1
                ELSE waited[t]) \in 0..MAX_SPIN_TICKS
    BY <1>1 DEF Shapes
  <1> QED
    BY <1>2, <1>3 DEF Tick

\* mutex_acquire() keeps the shape of what it changes.
LEMMA AcquireShape ==
    ASSUME Shapes, NEW c \in Calls, Acquire(c), me # Idle
    PROVE  /\ serial_lock' \in [owner : Threads \cup {NULL}, waiters : Seq(Threads)]
           /\ call' \in [Threads -> Calls]
           /\ timer_ticks' \in 0..(Word - 1)
           /\ waited' \in [Readers -> 0..MAX_SPIN_TICKS]
  <1>0. me \in Threads
    BY DEF Shapes, me
  <1>1. call' \in [Threads -> Calls]
    BY GotoShape DEF Acquire
  <1>2. CASE serial_lock.owner = NULL
    BY <1>0, <1>1, <1>2 DEF Acquire, Shapes
  <1>3. CASE serial_lock.owner # NULL
    <2>1. serial_lock' = [serial_lock EXCEPT !.waiters = Append(@, me)] /\ Tick
      BY <1>3 DEF Acquire, isr_IRQ0
    <2>2. Append(serial_lock.waiters, me) \in Seq(Threads)
      BY <1>0 DEF Shapes
    <2> QED
      BY <1>1, <2>1, <2>2, TickShape DEF Shapes
  <1> QED
    BY <1>2, <1>3

\* And mutex_release().
LEMMA ReleaseShape ==
    ASSUME Shapes, Release
    PROVE  serial_lock' \in [owner : Threads \cup {NULL}, waiters : Seq(Threads)]
  <1>1. serial_lock.waiters \in Seq(Threads)
    BY DEF Shapes
  <1>2. CASE serial_lock.waiters = <<>>
    BY <1>2 DEF Release, Shapes
  <1>3. CASE serial_lock.waiters # <<>>
    <2>1. Head(serial_lock.waiters) \in Threads /\ Tail(serial_lock.waiters) \in Seq(Threads)
      BY <1>1, <1>3
    <2> QED
      BY <1>3, <2>1 DEF Release
  <1> QED
    BY <1>2, <1>3

\* A byte that comes in keeps the shape of the buffer.
LEMMA ReceiveShape ==
    ASSUME Shapes, NEW n \in Nat
    PROVE  Receive(n) \in [rx : Seq(Nat), loop : BOOLEAN]
  <1>1. uart.rx \in Seq(Nat) /\ Append(uart.rx, n) \in Seq(Nat)
    BY DEF Shapes
  <1> QED
    BY <1>1 DEF Receive, Shapes

\* Every step keeps the shape of the state.
LEMMA ShapesNext ==
    ASSUME Shapes, Queues, [Next]_vars
    PROVE  Shapes'
  <1>0. /\ current_thread' \in Threads \cup {Idle}
        /\ Chars \in Nat \ {0} /\ Word \in Nat \ {0} /\ MAX_SPIN_TICKS \in Nat \ {0}
    BY QueuesNext, SerialAssumption DEF Queues, Spread
  <1>1. CASE TimerInterrupt \/ Spin
    BY <1>0, <1>1, TickShape DEF TimerInterrupt, Spin, isr_IRQ0, Shapes
  <1>2. CASE ByteArrives
    <2>1. arrived + 1 \in Nat
      BY DEF Shapes
    <2>2. uart' \in [rx : Seq(Nat), loop : BOOLEAN]
      BY <1>2, <2>1, ReceiveShape DEF ByteArrives
    <2> QED
      BY <1>0, <1>2, <2>1, <2>2 DEF ByteArrives, Shapes
  <1>3. CASE \E b \in BOOLEAN : SetLoopback(b)
    BY <1>0, <1>3 DEF SetLoopback, Shapes
  <1>4. CASE Printf
    BY <1>0, <1>4, AcquireShape, CallShapes DEF Printf, Begin, At, Shapes
  <1>5. CASE UnsafePrintf
    BY <1>0, <1>5, GotoShape, CallShapes DEF UnsafePrintf, Begin, At, Shapes
  <1>6. CASE PrintfDisabled
    BY <1>0, <1>6 DEF PrintfDisabled, Shapes
  <1>7. CASE NextInb
    <2>1. EndTicks \in 0..(Word - 1)
      BY <1>0 DEF EndTicks, Shapes
    <2>2. [Away EXCEPT !.at = "spin", !.end = EndTicks] \in Calls
      BY <2>1, CallShapes
    <2> QED
      BY <1>0, <1>7, <2>2, AcquireShape DEF NextInb, At, Shapes
  <1>8. CASE OutChar
    <2>0. me \in Threads /\ me # Idle
      BY <1>8 DEF OutChar, At, Shapes, me
    <2>1. call[me] \in Calls /\ call[me].left \in 1..Chars
      BY <1>0, <1>8, <2>0 DEF OutChar, Shapes, Calls
    <2>2. [call[me] EXCEPT !.left = @ - 1] \in Calls
      BY <2>1, NextChar
    <2>3. call' \in [Threads -> Calls]
      BY <1>8, <2>0, <2>2, GotoShape DEF OutChar
    <2>4. sent' \in [by : Threads \cup {NULL}, left : 1..Chars]
      BY <1>8, <2>0, <2>1 DEF OutChar, io_serial_outb, Sent, Shapes
    <2>5. arrived' \in Nat /\ uart' \in [rx : Seq(Nat), loop : BOOLEAN]
      <3>1. arrived + 1 \in Nat
        BY DEF Shapes
      <3> QED
        BY <1>8, <3>1, ReceiveShape DEF OutChar, io_serial_outb, Shapes
    <2> QED
      BY <1>0, <1>8, <2>3, <2>4, <2>5 DEF OutChar, Shapes
  <1>9. CASE PrintEnd
    <2>1. serial_lock' \in [owner : Threads \cup {NULL}, waiters : Seq(Threads)]
      BY <1>9, ReleaseShape DEF PrintEnd, Shapes
    <2>2. call' \in [Threads -> Calls]
      BY <1>9, GotoShape, CallShapes DEF PrintEnd, At
    <2> QED
      BY <1>0, <1>9, <2>1, <2>2 DEF PrintEnd, Shapes
  <1>10. CASE TimedOut \/ ReadEnd
    <2>1. serial_lock' \in [owner : Threads \cup {NULL}, waiters : Seq(Threads)]
      BY <1>10, ReleaseShape DEF TimedOut, ReadEnd
    <2>2. call' \in [Threads -> Calls]
      BY <1>10, GotoShape, CallShapes DEF TimedOut, ReadEnd, Over, At
    <2>3. waited' \in [Readers -> 0..MAX_SPIN_TICKS]
      BY <1>0, <1>10 DEF TimedOut, ReadEnd, Shapes
    <2> QED
      BY <1>0, <1>10, <2>1, <2>2, <2>3 DEF TimedOut, ReadEnd, Shapes
  <1>11. CASE DataReady
    BY <1>0, <1>11, GotoShape, CallShapes DEF DataReady, Over, At, Shapes
  <1>12. CASE ReadByte
    <2>1. call' \in [Threads -> Calls]
      BY <1>12, GotoShape, CallShapes DEF ReadByte, At
    <2>2. uart.rx \in Seq(Nat)
      BY DEF Shapes
    <2>3. CASE uart.rx = <<>>
      BY <1>0, <1>12, <2>1, <2>3 DEF ReadByte, Shapes
    <2>4. CASE uart.rx # <<>>
      <3>1. Head(uart.rx) \in Nat /\ Tail(uart.rx) \in Seq(Nat)
        BY <2>2, <2>4
      <3> QED
        BY <1>0, <1>12, <2>1, <2>4, <3>1 DEF ReadByte, Shapes
    <2> QED
      BY <2>3, <2>4
  <1>13. CASE UNCHANGED vars
    BY <1>13 DEF vars, Shapes
  <1> QED
    BY <1>1, <1>2, <1>3, <1>4, <1>5, <1>6, <1>7, <1>8, <1>9, <1>10, <1>11, <1>12, <1>13
    DEF Next, Step

-----------------------------------------------------------------------------
(* Who has the lock *)

\* The fields of the calls that a thread can begin.
LEMMA CallFields ==
    /\ ~InCall(Away) /\ Away.at = "client"
    /\ LET c == [Away EXCEPT !.at = "out", !.left = Chars, !.locked = TRUE]
       IN  InCall(c) /\ Fresh(c) /\ c.at = "out"
    /\ LET c == [Away EXCEPT !.at = "out", !.left = Chars] IN ~InCall(c) /\ c.at = "out"
    /\ LET c == [Away EXCEPT !.at = "read"] IN InCall(c) /\ c.at = "read"
    /\ LET c == [Away EXCEPT !.at = "unlock"] IN InCall(c) /\ c.at = "unlock"
    /\ \A e : LET c == [Away EXCEPT !.at = "spin", !.end = e]
             IN  InCall(c) /\ Fresh(c) /\ c.at = "spin" /\ c.end = e
  BY DEF Away, InCall, Fresh

\* A thread on the processor that is inside a synchronized call owns the lock, and
\* one that is not does not.
LEMMA RunnerOwns ==
    ASSUME Shapes, Queues, Guarded(serial_lock, call), me # Idle
    PROVE  /\ me \in Threads
           /\ me \notin Range(serial_lock.waiters)
           /\ InCall(call[me]) <=> serial_lock.owner = me
  BY DEF Shapes, Queues, Spread, Guarded, me

Locks == [owner : Threads \cup {NULL}, waiters : Seq(Threads)]

\* Taking a free lock.
LEMMA TakeFree ==
    ASSUME NEW k \in Locks, NEW f \in [Threads -> Calls], NEW s, Guarded(k, f), Whole(s, k, f),
           s \in [by : Threads \cup {NULL}, left : 1..Chars],
           NEW t \in Threads, NEW c \in Calls, InCall(c), Fresh(c), k.owner = NULL
    PROVE  /\ Guarded([k EXCEPT !.owner = t], [f EXCEPT ![t] = c])
           /\ Whole(s, [k EXCEPT !.owner = t], [f EXCEPT ![t] = c])
  <1> DEFINE l == [k EXCEPT !.owner = t]
             g == [f EXCEPT ![t] = c]
  <1>1. k.waiters = <<>> /\ Range(k.waiters) = {}
    BY EmptyList DEF Guarded
  <1>2. l.owner = t /\ l.waiters = <<>> /\ Range(l.waiters) = {} /\ t # NULL
    BY <1>1, SerialAssumption DEF Locks
  <1>3. g[t] = c /\ \A u \in Threads \ {t} : g[u] = f[u] /\ ~InCall(f[u])
    BY <1>1, SerialAssumption DEF Guarded
  <1> HIDE DEF l, g
  <1>4. Guarded(l, g)
    BY <1>2, <1>3 DEF Guarded
  <1>5. s.left = 1
    BY SerialAssumption DEF Whole
  <1>6. Whole(s, l, g)
    BY <1>2, <1>3, <1>5 DEF Whole, Fresh
  <1> QED
    BY <1>4, <1>6 DEF l, g

\* Joining the line.
LEMMA JoinLine ==
    ASSUME NEW k \in Locks, NEW f \in [Threads -> Calls], NEW s, Guarded(k, f), Whole(s, k, f),
           NEW t \in Threads, NEW c \in Calls, InCall(c), Fresh(c), k.owner # NULL, ~InCall(f[t])
    PROVE  /\ Guarded([k EXCEPT !.waiters = Append(@, t)], [f EXCEPT ![t] = c])
           /\ Whole(s, [k EXCEPT !.waiters = Append(@, t)], [f EXCEPT ![t] = c])
  <1> DEFINE l == [k EXCEPT !.waiters = Append(@, t)]
             g == [f EXCEPT ![t] = c]
  <1>1. l.owner = k.owner /\ l.waiters = Append(k.waiters, t)
    BY DEF Locks
  <1>2. Range(l.waiters) = Range(k.waiters) \cup {t} /\ Range(k.waiters) \subseteq Threads
    BY <1>1, AppendList, ListDomain DEF Locks
  <1>3. g[t] = c /\ \A u \in Threads \ {t} : g[u] = f[u]
    OBVIOUS
  <1>4. t # k.owner /\ t \notin Range(k.waiters)
    BY DEF Guarded
  <1> HIDE DEF l, g
  <1>5. Guarded(l, g)
    BY <1>1, <1>2, <1>3, <1>4 DEF Guarded
  <1>6. Whole(s, l, g)
    BY <1>1, <1>3, <1>4 DEF Whole
  <1> QED
    BY <1>5, <1>6 DEF l, g

\* The lock after mutex_release().
Freed(k) == IF k.waiters = <<>> THEN [k EXCEPT !.owner = NULL]
            ELSE [owner |-> Head(k.waiters), waiters |-> Tail(k.waiters)]

\* Leaving: the first waiter has not sent a character yet.
LEMMA LeaveLine ==
    ASSUME NEW k \in Locks, NEW f \in [Threads -> Calls], NEW s, Guarded(k, f), Whole(s, k, f),
           s \in [by : Threads \cup {NULL}, left : 1..Chars], IsInjective(k.waiters),
           NEW t \in Threads, t = k.owner, f[t].at # "out" \/ f[t].left = 0
    PROVE  /\ Guarded(Freed(k), [f EXCEPT ![t] = Away])
           /\ Whole(s, Freed(k), [f EXCEPT ![t] = Away])
  <1> DEFINE l == Freed(k)
             g == [f EXCEPT ![t] = Away]
  <1>1. g[t] = Away /\ \A u \in Threads \ {t} : g[u] = f[u]
    OBVIOUS
  <1>2. ~InCall(Away) /\ NULL \notin Threads /\ Chars \in Nat \ {0}
    BY CallFields, SerialAssumption
  <1>3. s.left = 1
    <2>1. s.left \in 1..Chars /\ f[t].left \in 0..Chars
      BY DEF Calls
    <2> QED
      BY <1>2, <2>1 DEF Whole
  <1>4. t \notin Range(k.waiters) /\ Range(k.waiters) \subseteq Threads
    BY ListDomain DEF Guarded, Locks
  <1>5. CASE k.waiters = <<>>
    <2>1. l.owner = NULL /\ l.waiters = <<>> /\ Range(l.waiters) = {} /\ Range(k.waiters) = {}
      BY <1>5, EmptyList DEF Freed, Locks
    <2> HIDE DEF l, g
    <2>2. Guarded(l, g)
      BY <1>1, <1>2, <2>1 DEF Guarded
    <2>3. Whole(s, l, g)
      BY <1>2, <1>3, <2>1 DEF Whole
    <2> QED
      BY <2>2, <2>3 DEF l, g
  <1>6. CASE k.waiters # <<>>
    <2>1. /\ Head(k.waiters) \in Range(k.waiters)
          /\ Range(Tail(k.waiters)) = Range(k.waiters) \ {Head(k.waiters)}
      BY <1>6, TailList DEF Locks
    <2>2. l.owner = Head(k.waiters) /\ l.waiters = Tail(k.waiters)
      BY <1>6 DEF Freed
    <2> HIDE DEF l, g
    <2>3. Guarded(l, g)
      BY <1>1, <1>2, <1>4, <2>1, <2>2 DEF Guarded
    <2>4. Whole(s, l, g)
      <3>1. Fresh(g[l.owner]) /\ l.owner \in Threads
        BY <1>1, <1>4, <2>1, <2>2 DEF Guarded
      <3> QED
        BY <1>3, <3>1 DEF Whole, Fresh
    <2> QED
      BY <2>3, <2>4 DEF l, g
  <1> QED
    BY <1>5, <1>6

\* Going on inside a call, or outside every synchronized one.
LEMMA MoveOn ==
    ASSUME NEW k \in Locks, NEW f \in [Threads -> Calls], Guarded(k, f),
           NEW t \in Threads, NEW c \in Calls, InCall(c) <=> InCall(f[t]), t \notin Range(k.waiters)
    PROVE  Guarded(k, [f EXCEPT ![t] = c])
  <1> DEFINE g == [f EXCEPT ![t] = c]
  <1>1. g[t] = c /\ \A u \in Threads \ {t} : g[u] = f[u]
    OBVIOUS
  <1>2. Range(k.waiters) \subseteq Threads
    BY ListDomain DEF Locks
  <1> HIDE DEF g
  <1>3. Guarded(k, g)
    BY <1>1, <1>2 DEF Guarded
  <1> QED
    BY <1>3 DEF g

\* mutex_acquire() by a thread that is not in a synchronized call.
LEMMA AcquireLock ==
    ASSUME Shapes, Queues, LockOK, NEW c \in Calls, InCall(c), Fresh(c), Acquire(c),
           me # Idle, ~InCall(call[me]), UNCHANGED sent
    PROVE  LockOK'
  <1> PICK t : t = me
    OBVIOUS
  <1> PICK k : k = serial_lock
    OBVIOUS
  <1> PICK f : f = call
    OBVIOUS
  <1> PICK s : s = sent
    OBVIOUS
  <1>1. /\ k \in Locks /\ f \in [Threads -> Calls] /\ t \in Threads
        /\ s \in [by : Threads \cup {NULL}, left : 1..Chars]
        /\ Guarded(k, f) /\ Whole(s, k, f) /\ ~InCall(f[t])
    BY DEF Shapes, Locks, LockOK, me
  <1>2. call' = [f EXCEPT ![t] = c] /\ sent' = s
    BY DEF Acquire, Goto
  <1>3. CASE k.owner = NULL
    <2>1. serial_lock' = [k EXCEPT !.owner = t]
      BY <1>3 DEF Acquire
    <2>2. /\ Guarded([k EXCEPT !.owner = t], [f EXCEPT ![t] = c])
          /\ Whole(s, [k EXCEPT !.owner = t], [f EXCEPT ![t] = c])
      BY <1>1, <1>3, TakeFree
    <2> QED
      BY <1>2, <2>1, <2>2 DEF LockOK
  <1>4. CASE k.owner # NULL
    <2>1. serial_lock' = [k EXCEPT !.waiters = Append(@, t)]
      BY <1>4 DEF Acquire
    <2>2. /\ Guarded([k EXCEPT !.waiters = Append(@, t)], [f EXCEPT ![t] = c])
          /\ Whole(s, [k EXCEPT !.waiters = Append(@, t)], [f EXCEPT ![t] = c])
      BY <1>1, <1>4, JoinLine
    <2> QED
      BY <1>2, <2>1, <2>2 DEF LockOK
  <1> QED
    BY <1>3, <1>4

\* mutex_release() by a thread that has sent its whole text, or none.
LEMMA ReleaseLock ==
    ASSUME Shapes, Queues, LockOK, Release, Goto(Away), me # Idle, InCall(call[me]),
           call[me].at # "out" \/ call[me].left = 0, UNCHANGED sent
    PROVE  LockOK'
  <1> PICK t : t = me
    OBVIOUS
  <1> PICK k : k = serial_lock
    OBVIOUS
  <1> PICK f : f = call
    OBVIOUS
  <1> PICK s : s = sent
    OBVIOUS
  <1>1. /\ k \in Locks /\ f \in [Threads -> Calls] /\ t \in Threads /\ t = k.owner
        /\ s \in [by : Threads \cup {NULL}, left : 1..Chars] /\ IsInjective(k.waiters)
        /\ Guarded(k, f) /\ Whole(s, k, f) /\ (f[t].at # "out" \/ f[t].left = 0)
    BY RunnerOwns DEF Shapes, Locks, LockOK, Queues, Spread
  <1>2. call' = [f EXCEPT ![t] = Away] /\ sent' = s /\ serial_lock' = Freed(k)
    BY DEF Release, Freed, Goto
  <1>3. Guarded(Freed(k), [f EXCEPT ![t] = Away]) /\ Whole(s, Freed(k), [f EXCEPT ![t] = Away])
    BY <1>1, LeaveLine
  <1> QED
    BY <1>2, <1>3 DEF LockOK

\* A thread that goes on without touching the lock, and that is not in the middle of
\* a synchronized text.
LEMMA GoOnLock ==
    ASSUME Shapes, Queues, LockOK, NEW c \in Calls, Goto(c), me # Idle,
           InCall(c) <=> InCall(call[me]),
           ~InCall(c) \/ (call[me].at # "out" /\ c.at # "out"),
           UNCHANGED <<sent, serial_lock>>
    PROVE  LockOK'
  <1> PICK t : t = me
    OBVIOUS
  <1>1. /\ t \in Threads /\ t \notin Range(serial_lock.waiters)
        /\ InCall(call[t]) <=> serial_lock.owner = t
        /\ call' = [call EXCEPT ![t] = c] /\ call \in [Threads -> Calls] /\ serial_lock \in Locks
    BY RunnerOwns DEF LockOK, Goto, Shapes, Locks
  <1>2. Guarded(serial_lock, [call EXCEPT ![t] = c])
    BY <1>1, MoveOn DEF LockOK
  <1>3. Whole(sent, serial_lock, [call EXCEPT ![t] = c])
    <2>1. \A u \in Threads \ {t} : [call EXCEPT ![t] = c][u] = call[u]
      BY <1>1
    <2>2. [call EXCEPT ![t] = c][t] = c
      BY <1>1
    <2> QED
      BY <1>1, <2>1, <2>2 DEF Whole, LockOK
  <1> QED
    BY <1>1, <1>2, <1>3 DEF LockOK

\* A character goes out.
LEMMA OutCharLock ==
    ASSUME Shapes, Queues, LockOK, OutChar
    PROVE  LockOK'
  <1> PICK t : t = me
    OBVIOUS
  <1> DEFINE c == [call[t] EXCEPT !.left = @ - 1]
             g == [call EXCEPT ![t] = c]
  <1>1. /\ t \in Threads /\ t \notin Range(serial_lock.waiters)
        /\ InCall(call[t]) <=> serial_lock.owner = t
        /\ call \in [Threads -> Calls] /\ serial_lock \in Locks
        /\ call[t].at = "out" /\ call[t].left > 0
    BY RunnerOwns DEF LockOK, Shapes, Locks, OutChar, At
  <1>2. call' = g /\ serial_lock' = serial_lock
    BY DEF OutChar, Goto
  <1>3. call[t] \in Calls /\ call[t].left \in 1..Chars /\ Chars \in Nat \ {0}
    BY <1>1, SerialAssumption DEF Calls
  <1>4. /\ c \in Calls /\ c.at = "out" /\ c.locked = call[t].locked /\ c.left = call[t].left - 1
    BY <1>1, <1>3, NextChar
  <1>5. g[t] = c /\ \A u \in Threads \ {t} : g[u] = call[u]
    BY <1>1
  <1>6. Guarded(serial_lock, g)
    BY <1>1, <1>4, MoveOn DEF LockOK, InCall
  <1> HIDE DEF c, g
  <1>7. CASE call[t].locked
    <2>1. sent' = Sent(t, call[t].left) /\ serial_lock.owner = t
      BY <1>1, <1>7 DEF OutChar, io_serial_outb, InCall
    <2>2. Whole(Sent(t, call[t].left), serial_lock, g)
      BY <1>1, <1>3, <1>4, <1>5, <2>1 DEF Whole, Sent
    <2> QED
      BY <1>2, <1>6, <2>1, <2>2 DEF LockOK
  <1>8. CASE ~call[t].locked
    <2>1. sent' = sent /\ serial_lock.owner # t
      BY <1>1, <1>8 DEF OutChar, io_serial_outb, InCall
    <2>2. Whole(sent, serial_lock, g)
      BY <1>5, <2>1 DEF Whole, LockOK
    <2> QED
      BY <1>2, <1>6, <2>1, <2>2 DEF LockOK
  <1> QED
    BY <1>7, <1>8

\* Every step keeps the lock with those who are inside, and their texts whole.
LEMMA LockNext ==
    ASSUME Shapes, Queues, LockOK, [Next]_vars
    PROVE  LockOK'
  <1>1. CASE Printf
    <2>1. ~InCall(call[me]) /\ me # Idle
      BY <1>1 DEF Printf, Begin, At, InCall
    <2> QED
      BY <1>1, <2>1, AcquireLock, CallShapes, CallFields DEF Printf
  <1>2. CASE NextInb
    <2>1. ~InCall(call[me]) /\ me # Idle
      BY <1>2 DEF NextInb, At, InCall
    <2>2. EndTicks \in 0..(Word - 1)
      BY SerialAssumption DEF EndTicks, Shapes
    <2> QED
      BY <1>2, <2>1, <2>2, AcquireLock, CallShapes, CallFields DEF NextInb
  <1>3. CASE UnsafePrintf
    <2>1. ~InCall(call[me]) /\ me # Idle
      BY <1>3 DEF UnsafePrintf, Begin, At, InCall
    <2> QED
      BY <1>3, <2>1, GoOnLock, CallShapes, CallFields DEF UnsafePrintf
  <1>4. CASE OutChar
    BY <1>4, OutCharLock
  <1>5. CASE PrintEnd
    <2>1. call[me].at = "out" /\ call[me].left = 0 /\ me # Idle
      BY <1>5 DEF PrintEnd, At
    <2>2. CASE call[me].locked
      BY <1>5, <2>1, <2>2, ReleaseLock DEF PrintEnd, InCall
    <2>3. CASE ~call[me].locked
      BY <1>5, <2>1, <2>3, GoOnLock, CallShapes, CallFields DEF PrintEnd, InCall
    <2> QED
      BY <2>2, <2>3
  <1>6. CASE TimedOut \/ ReadEnd
    BY <1>6, ReleaseLock DEF TimedOut, ReadEnd, Over, At, InCall
  <1>7. CASE DataReady
    <2>1. InCall(call[me]) /\ call[me].at # "out" /\ me # Idle
      BY <1>7 DEF DataReady, Over, At, InCall
    <2> QED
      BY <1>7, <2>1, GoOnLock, CallShapes, CallFields DEF DataReady
  <1>8. CASE ReadByte
    <2>1. InCall(call[me]) /\ call[me].at # "out" /\ me # Idle
      BY <1>8 DEF ReadByte, At, InCall
    <2> QED
      BY <1>8, <2>1, GoOnLock, CallShapes, CallFields DEF ReadByte
  <1>9. CASE UNCHANGED <<serial_lock, call, sent>>
    BY <1>9 DEF LockOK
  <1> QED
    BY <1>1, <1>2, <1>3, <1>4, <1>5, <1>6, <1>7, <1>8, <1>9
    DEF Next, Step, vars, TimerInterrupt, ByteArrives, SetLoopback, PrintfDisabled, Spin

-----------------------------------------------------------------------------
(* What is in the buffer *)

\* A byte that comes in is newer than all the others; it may find no place.
LEMMA ReceiveByte ==
    ASSUME NEW rx \in Seq(Nat), NEW g \in Nat, NEW n \in Nat, Buffered(rx, g, n), g <= n
    PROVE  /\ Buffered(rx, g, n + 1)
           /\ Len(rx) < Fifo => Buffered(Append(rx, n + 1), g, n + 1)
  <1> DEFINE r == Append(rx, n + 1)
  <1>1. Fifo \in Nat /\ Len(rx) \in Nat
    BY SerialAssumption
  <1>2. /\ Len(r) = Len(rx) + 1
        /\ \A i \in 1..Len(rx) : r[i] = rx[i] /\ rx[i] \in Nat
        /\ r[Len(rx) + 1] = n + 1
    OBVIOUS
  <1>3. Buffered(rx, g, n + 1)
    BY <1>1, <1>2 DEF Buffered
  <1>4. ASSUME Len(rx) < Fifo PROVE Buffered(r, g, n + 1)
    <2> HIDE DEF r
    <2>1. \A i \in 1..Len(r) : i \in 1..Len(rx) \/ i = Len(rx) + 1
      BY <1>1, <1>2
    <2>2. Len(r) <= Fifo
      BY <1>1, <1>2, <1>4
    <2>3. \A i \in 1..Len(r) : g < r[i] /\ r[i] <= n + 1
      BY <1>2, <2>1, SMTT(30) DEF Buffered
    <2>4. \A i, j \in 1..Len(r) : i < j => r[i] < r[j]
      <3> SUFFICES ASSUME NEW i \in 1..Len(r), NEW j \in 1..Len(r), i < j
                   PROVE  r[i] < r[j]
        OBVIOUS
      <3>1. i \in 1..Len(rx)
        BY <1>1, <1>2
      <3> QED
        BY <1>2, <2>1, <3>1 DEF Buffered
    <2> QED
      BY <2>2, <2>3, <2>4 DEF Buffered
  <1> QED
    BY <1>3, <1>4

\* The byte that is read is older than those that stay, and newer than the last one.
LEMMA TakeByte ==
    ASSUME NEW rx \in Seq(Nat), NEW g \in Nat, NEW n \in Nat, Buffered(rx, g, n), rx # <<>>
    PROVE  /\ Buffered(Tail(rx), Head(rx), n)
           /\ Head(rx) > g /\ Head(rx) \in Nat /\ Head(rx) <= n
  <1> DEFINE r == Tail(rx)
  <1>1. Len(rx) \in Nat \ {0} /\ Fifo \in Nat
    BY SerialAssumption
  <1>2. /\ Len(r) = Len(rx) - 1
        /\ \A i \in 1..Len(r) : r[i] = rx[i + 1] /\ i + 1 \in 1..Len(rx)
        /\ Head(rx) = rx[1] /\ 1 \in 1..Len(rx)
        /\ \A i \in 1..Len(rx) : rx[i] \in Nat
    BY <1>1
  <1> HIDE DEF r
  <1>3. Len(r) <= Fifo
    BY <1>1, <1>2 DEF Buffered
  <1>4. ASSUME NEW i \in 1..Len(r) PROVE Head(rx) < r[i] /\ r[i] <= n
    <2>1. r[i] = rx[i + 1] /\ i + 1 \in 1..Len(rx) /\ 1 < i + 1
      BY <1>2
    <2> QED
      BY <1>2, <2>1 DEF Buffered
  <1>5. ASSUME NEW i \in 1..Len(r), NEW j \in 1..Len(r), i < j PROVE r[i] < r[j]
    <2>1. /\ r[i] = rx[i + 1] /\ i + 1 \in 1..Len(rx)
          /\ r[j] = rx[j + 1] /\ j + 1 \in 1..Len(rx)
          /\ i + 1 < j + 1
      BY <1>2, <1>5
    <2> QED
      BY <2>1 DEF Buffered
  <1>6. Buffered(r, Head(rx), n)
    BY <1>3, <1>4, <1>5 DEF Buffered
  <1> QED
    BY <1>2, <1>6 DEF Buffered, r

\* A byte from the line or from the loopback.
LEMMA ReceiveBuffer ==
    ASSUME Shapes, BufferOK, uart' = Receive(arrived + 1), arrived' = arrived + 1,
           UNCHANGED got
    PROVE  /\ Buffered(uart.rx, got, arrived)' /\ got' <= arrived'
           /\ uart.rx # <<>> => uart'.rx # <<>>
  <1> PICK rx : rx = uart.rx
    OBVIOUS
  <1> PICK g : g = got
    OBVIOUS
  <1> PICK n : n = arrived
    OBVIOUS
  <1>1. rx \in Seq(Nat) /\ g \in Nat /\ n \in Nat /\ Buffered(rx, g, n) /\ g <= n
    BY DEF Shapes, BufferOK
  <1>2. /\ Buffered(rx, g, n + 1)
        /\ Len(rx) < Fifo => Buffered(Append(rx, n + 1), g, n + 1)
    BY <1>1, ReceiveByte
  <1>3. uart'.rx = IF Len(rx) < Fifo THEN Append(rx, n + 1) ELSE rx
    BY DEF Receive, Shapes
  <1>4. got' = g /\ arrived' = n + 1
    OBVIOUS
  <1>5. Append(rx, n + 1) # <<>>
    <2>1. rx \in Seq(Nat) /\ n + 1 \in Nat
      BY <1>1
    <2> QED
      BY <2>1, AppendList
  <1>6. Buffered(uart'.rx, g, n + 1)
    <2>1. CASE Len(rx) < Fifo
      BY <1>2, <1>3, <2>1, Zenon
    <2>2. CASE ~(Len(rx) < Fifo)
      BY <1>2, <1>3, <2>2, Zenon
    <2> QED
      BY <2>1, <2>2
  <1>7. Buffered(uart'.rx, got', arrived')
    BY <1>4, <1>6, Zenon
  <1>8. got' <= arrived'
    BY <1>1, <1>4
  <1>9. rx # <<>> => uart'.rx # <<>>
    BY <1>3, <1>5
  <1> QED
    BY <1>7, <1>8, <1>9

\* A thread that goes on elsewhere than at the read promises nothing.
LEMMA PromiseKept ==
    ASSUME Shapes, Promised, NEW c, Goto(c), c.at # "read" \/ uart.rx # <<>>, me # Idle,
           uart.rx # <<>> => uart'.rx # <<>>
    PROVE  Promised'
  <1>1. me \in Threads /\ call' = [call EXCEPT ![me] = c] /\ call \in [Threads -> Calls]
    BY DEF Shapes, Goto, me
  <1>2. \A t \in Threads : call'[t].at = "read" => uart'.rx # <<>>
    BY <1>1 DEF Promised
  <1> QED
    BY <1>2 DEF Promised

\* Every step keeps the buffer in order.
LEMMA BufferNext ==
    ASSUME Shapes, Queues, LockOK, BufferOK, [Next]_vars
    PROVE  BufferOK'
  <1>1. CASE ByteArrives
    <2>1. uart.rx # <<>> => uart'.rx # <<>>
      BY <1>1, ReceiveBuffer DEF ByteArrives
    <2> QED
      BY <1>1, <2>1, ReceiveBuffer DEF ByteArrives, BufferOK, Promised
  <1>2. CASE \E b \in BOOLEAN : SetLoopback(b)
    <2>1. uart'.rx = uart.rx
      BY <1>2 DEF SetLoopback, Shapes
    <2> QED
      BY <1>2, <2>1 DEF SetLoopback, BufferOK, Promised
  <1>3. ASSUME NEW c, c.at # "read", Goto(c), me # Idle, UNCHANGED <<uart, got, arrived>>
        PROVE  BufferOK'
    BY <1>3, PromiseKept DEF BufferOK
  <1>4. CASE Printf \/ UnsafePrintf \/ NextInb
    <2>1. /\ UNCHANGED <<uart, got, arrived>> /\ me # Idle
          /\ \E c : c.at # "read" /\ Goto(c)
      BY <1>4, CallFields DEF Printf, UnsafePrintf, NextInb, Begin, At, Acquire
    <2> QED
      BY <1>3, <2>1
  <1>5. CASE PrintEnd \/ TimedOut \/ ReadEnd
    <2>1. UNCHANGED <<uart, got, arrived>> /\ me # Idle /\ Goto(Away) /\ Away.at # "read"
      BY <1>5, CallFields DEF PrintEnd, TimedOut, ReadEnd, Over, At
    <2> QED
      BY <1>3, <2>1
  <1>6. CASE OutChar
    <2>1. /\ me # Idle /\ UNCHANGED got /\ me \in Threads
          /\ Goto([call[me] EXCEPT !.left = @ - 1])
          /\ call[me].at = "out"
      BY <1>6 DEF OutChar, At, Shapes, me
    <2>2. [call[me] EXCEPT !.left = @ - 1].at # "read"
      BY <2>1 DEF Shapes, Calls
    <2>3. CASE UNCHANGED <<uart, arrived>>
      BY <1>3, <2>1, <2>2, <2>3
    <2>4. CASE uart' = Receive(arrived + 1) /\ arrived' = arrived + 1
      <3>1. Buffered(uart.rx, got, arrived)' /\ got' <= arrived'
        BY <2>1, <2>4, ReceiveBuffer
      <3>2. uart.rx # <<>> => uart'.rx # <<>>
        BY <2>1, <2>4, ReceiveBuffer
      <3> QED
        BY <2>1, <2>2, <3>1, <3>2, PromiseKept DEF BufferOK
    <2> QED
      BY <1>6, <2>3, <2>4 DEF OutChar, io_serial_outb
  <1>7. CASE DataReady
    <2>1. /\ uart.rx # <<>> /\ UNCHANGED <<uart, got, arrived>> /\ me # Idle
          /\ \E c : Goto(c)
      BY <1>7 DEF DataReady, Over, At
    <2> QED
      BY <2>1, PromiseKept DEF BufferOK
  <1>8. CASE ReadByte
    <2> PICK rx : rx = uart.rx
      OBVIOUS
    <2> PICK g : g = got
      OBVIOUS
    <2> PICK n : n = arrived
      OBVIOUS
    <2>1. me # Idle /\ me \in Threads /\ call[me].at = "read"
      BY <1>8 DEF ReadByte, At, Shapes, me
    <2>2. rx \in Seq(Nat) /\ g \in Nat /\ n \in Nat /\ Buffered(rx, g, n) /\ rx # <<>>
      BY <2>1 DEF Shapes, BufferOK, Promised
    <2>3. got' = Head(rx) /\ uart'.rx = Tail(rx) /\ arrived' = n
      BY <1>8, <2>2 DEF ReadByte, Shapes
    <2>4. Buffered(Tail(rx), Head(rx), n) /\ Head(rx) <= n
      BY <2>2, TakeByte
    <2>5. \A t \in Threads : call[t].at = "read" => t = serial_lock.owner
      BY DEF LockOK, Guarded, InCall, Fresh
    <2>6. \A t \in Threads : call'[t].at # "read"
      <3>1. call' = [call EXCEPT ![me] = [Away EXCEPT !.at = "unlock"]]
        BY <1>8 DEF ReadByte, Goto
      <3>2. [Away EXCEPT !.at = "unlock"].at # "read"
        BY CallFields
      <3>3. call \in [Threads -> Calls]
        BY DEF Shapes
      <3> QED
        BY <2>1, <2>5, <3>1, <3>2, <3>3
    <2> QED
      BY <2>3, <2>4, <2>6 DEF BufferOK, Promised
  <1>9. CASE UNCHANGED <<uart, got, arrived, call>>
    BY <1>9 DEF BufferOK, Promised
  <1> QED
    BY <1>1, <1>2, <1>4, <1>5, <1>6, <1>7, <1>8, <1>9
    DEF Next, Step, vars, TimerInterrupt, PrintfDisabled, Spin

-----------------------------------------------------------------------------
(* How long a reader waits *)

\* A tick brings the end of the time-out nearer by one.
LEMMA TickWatch ==
    ASSUME NEW c \in Calls, NEW time \in 0..(Word - 1), NEW k \in 0..MAX_SPIN_TICKS,
           Watch(c, time, k)
    PROVE  Watch(c, (time + 1) % Word,
                 IF c.at = "spin" /\ k < MAX_SPIN_TICKS THEN k + 1 ELSE k)
  <1> DEFINE k1 == IF c.at = "spin" /\ k < MAX_SPIN_TICKS THEN k + 1 ELSE k
  <1>1. Word \in Nat \ {0} /\ MAX_SPIN_TICKS \in Nat \ {0} /\ c.end \in 0..(Word - 1)
    BY SerialAssumption DEF Calls
  <1>2. ASSUME c.at = "spin", c.end >= MAX_SPIN_TICKS
        PROVE  k1 = MAX_SPIN_TICKS \/ ((time + 1) % Word) + MAX_SPIN_TICKS - k1 = c.end
    <2>1. CASE k = MAX_SPIN_TICKS
      BY <1>1, <2>1
    <2>2. CASE k < MAX_SPIN_TICKS
      <3>1. time + MAX_SPIN_TICKS - k = c.end
        BY <1>1, <1>2, <2>2 DEF Watch
      <3>2. time + 1 < Word
        BY <1>1, <2>2, <3>1
      <3>3. (time + 1) % Word = time + 1
        BY <1>1, <3>2
      <3>4. k1 = k + 1
        BY <1>2, <2>2
      <3> QED
        BY <1>1, <3>1, <3>3, <3>4
    <2> QED
      BY <1>1, <2>1, <2>2
  <1>3. ASSUME c.at \in {"client", "out"} PROVE k1 = 0
    BY <1>3 DEF Watch
  <1> HIDE DEF k1
  <1>4. Watch(c, (time + 1) % Word, k1)
    BY <1>2, <1>3 DEF Watch
  <1> QED
    BY <1>4 DEF k1

\* The time-out that io_serial_nextinb() computes is MAX_SPIN_TICKS away, or wrapped.
LEMMA StartWatch ==
    ASSUME NEW time \in 0..(Word - 1)
    PROVE  Watch([Away EXCEPT !.at = "spin", !.end = (time + MAX_SPIN_TICKS) % Word], time, 0)
  <1> DEFINE e == (time + MAX_SPIN_TICKS) % Word
  <1>1. Word \in Nat \ {0} /\ MAX_SPIN_TICKS \in Nat \ {0} /\ Word > MAX_SPIN_TICKS
    BY SerialAssumption
  <1>2. e >= MAX_SPIN_TICKS => time + MAX_SPIN_TICKS = e
    <2>1. CASE time + MAX_SPIN_TICKS < Word
      BY <1>1, <2>1
    <2>2. CASE time + MAX_SPIN_TICKS >= Word
      <3>1. e = time + MAX_SPIN_TICKS - Word
        BY <1>1, <2>2
      <3> QED
        BY <1>1, <3>1
    <2> QED
      BY <1>1, <2>1, <2>2
  <1>3. /\ [Away EXCEPT !.at = "spin", !.end = e].at = "spin"
        /\ [Away EXCEPT !.at = "spin", !.end = e].end = e
    BY CallFields
  <1> HIDE DEF e
  <1>4. Watch([Away EXCEPT !.at = "spin", !.end = e], time, 0)
    BY <1>1, <1>2, <1>3 DEF Watch
  <1> QED
    BY <1>4 DEF e

\* Every entry of IRQ0 moves all the watches.
LEMMA TickWatches ==
    ASSUME Shapes, call' \in [Threads -> Calls], Tick,
           \A t \in Readers : Watch(call'[t], timer_ticks, waited[t])
    PROVE  \A t \in Readers : Watch(call'[t], timer_ticks', waited'[t])
  <1> SUFFICES ASSUME NEW t \in Readers PROVE Watch(call'[t], timer_ticks', waited'[t])
    OBVIOUS
  <1>1. call'[t] \in Calls /\ timer_ticks \in 0..(Word - 1) /\ waited[t] \in 0..MAX_SPIN_TICKS
    BY DEF Shapes, Threads
  <1> PICK c : c = call'[t]
    OBVIOUS
  <1> PICK time : time = timer_ticks
    OBVIOUS
  <1> PICK k : k = waited[t]
    OBVIOUS
  <1>2. Watch(c, (time + 1) % Word, IF c.at = "spin" /\ k < MAX_SPIN_TICKS THEN k + 1 ELSE k)
    BY <1>1, TickWatch
  <1>3. /\ timer_ticks' = (time + 1) % Word
        /\ waited'[t] = IF c.at = "spin" /\ k < MAX_SPIN_TICKS THEN k + 1 ELSE k
    BY DEF Tick
  <1> QED
    BY <1>2, <1>3, Zenon

\* A thread that goes on at c, when c fits its watch.
LEMMA GoOnWatches ==
    ASSUME Shapes, Watches, NEW c \in Calls, Goto(c), me # Idle,
           c.at \in {"spin", "read", "unlock"} => me \in Readers,
           me \in Readers => Watch(c, timer_ticks, waited[me])
    PROVE  /\ OnlyReaders'
           /\ \A t \in Readers : Watch(call'[t], timer_ticks, waited[t])
  <1>1. /\ me \in Threads /\ call' = [call EXCEPT ![me] = c] /\ call \in [Threads -> Calls]
        /\ Readers \subseteq Threads
    BY DEF Shapes, Goto, me, Threads
  <1>2. OnlyReaders'
    BY <1>1 DEF Watches, OnlyReaders
  <1>3. ASSUME NEW t \in Readers PROVE Watch(call'[t], timer_ticks, waited[t])
    <2>1. CASE t = me
      <3>1. call'[t] = c
        BY <1>1, <2>1
      <3> QED
        BY <2>1, <3>1, Zenon
    <2>2. CASE t # me
      <3>1. call'[t] = call[t]
        BY <1>1, <2>2
      <3>2. Watch(call[t], timer_ticks, waited[t])
        BY DEF Watches
      <3> QED
        BY <3>1, <3>2, Zenon
    <2> QED
      BY <2>1, <2>2
  <1> QED
    BY <1>2, <1>3

\* mutex_acquire() moves the watches when it has to wait.
LEMMA AcquireWatches ==
    ASSUME Shapes, Watches, NEW c \in Calls, Acquire(c), me # Idle,
           c.at \in {"spin", "read", "unlock"} => me \in Readers,
           me \in Readers => Watch(c, timer_ticks, waited[me])
    PROVE  Watches'
  <1>1. Goto(c)
    BY DEF Acquire
  <1>2. OnlyReaders' /\ \A t \in Readers : Watch(call'[t], timer_ticks, waited[t])
    BY <1>1, GoOnWatches
  <1>3. CASE UNCHANGED <<timer_ticks, waited>>
    BY <1>2, <1>3 DEF Watches
  <1>4. CASE Tick
    <2>1. call' \in [Threads -> Calls]
      BY <1>1, GotoShape
    <2>2. \A t \in Readers : Watch(call'[t], timer_ticks', waited'[t])
      BY <1>2, <1>4, <2>1, TickWatches
    <2> QED
      BY <1>2, <2>2 DEF Watches
  <1> QED
    BY <1>3, <1>4 DEF Acquire, isr_IRQ0

\* A reader that returns is no longer waiting.
LEMMA ReturnWatches ==
    ASSUME Shapes, Watches, Goto(Away), me \in Readers, me # Idle,
           waited' = [waited EXCEPT ![me] = 0], UNCHANGED timer_ticks
    PROVE  Watches'
  <1>1. /\ me \in Threads /\ call' = [call EXCEPT ![me] = Away] /\ call \in [Threads -> Calls]
        /\ Readers \subseteq Threads /\ waited \in [Readers -> 0..MAX_SPIN_TICKS]
        /\ Away.at = "client"
    BY CallFields DEF Shapes, Goto, me, Threads
  <1>2. OnlyReaders'
    BY <1>1 DEF Watches, OnlyReaders
  <1>3. ASSUME NEW t \in Readers PROVE Watch(call'[t], timer_ticks', waited'[t])
    <2>1. CASE t = me
      <3>1. call'[t].at = "client" /\ waited'[t] = 0
        BY <1>1, <2>1
      <3> QED
        BY <3>1 DEF Watch
    <2>2. CASE t # me
      <3>1. call'[t] = call[t] /\ waited'[t] = waited[t] /\ timer_ticks' = timer_ticks
        BY <1>1, <2>2
      <3>2. Watch(call[t], timer_ticks, waited[t])
        BY DEF Watches
      <3> QED
        BY <3>1, <3>2, Zenon
    <2> QED
      BY <2>1, <2>2
  <1> QED
    BY <1>2, <1>3 DEF Watches

\* Every step keeps the watches right.
LEMMA WatchesNext ==
    ASSUME Shapes, Watches, [Next]_vars
    PROVE  Watches'
  <1>0. ASSUME NEW c, c.at \in {"client", "out"}, call[me].at \in {"client", "out"}
        PROVE  me \in Readers => Watch(c, timer_ticks, waited[me])
    BY <1>0 DEF Watches, Watch
  <1>1. CASE TimerInterrupt \/ Spin
    <2>1. /\ call' = call /\ Tick /\ call' \in [Threads -> Calls]
      BY <1>1 DEF TimerInterrupt, Spin, isr_IRQ0, Shapes
    <2>2. \A t \in Readers : Watch(call'[t], timer_ticks, waited[t])
      BY <2>1 DEF Watches
    <2>3. \A t \in Readers : Watch(call'[t], timer_ticks', waited'[t])
      BY <2>1, <2>2, TickWatches
    <2> QED
      BY <2>1, <2>3 DEF Watches, OnlyReaders
  <1>2. CASE Printf
    <2> DEFINE c == [Away EXCEPT !.at = "out", !.left = Chars, !.locked = TRUE]
    <2>1. c \in Calls /\ c.at = "out" /\ Acquire(c) /\ me # Idle /\ call[me].at = "client"
      BY <1>2, CallShapes, CallFields DEF Printf, Begin, At
    <2> HIDE DEF c
    <2>2. me \in Readers => Watch(c, timer_ticks, waited[me])
      BY <1>0, <2>1
    <2> QED
      BY <2>1, <2>2, AcquireWatches
  <1>3. CASE NextInb
    <2> DEFINE c == [Away EXCEPT !.at = "spin", !.end = EndTicks]
    <2>1. EndTicks \in 0..(Word - 1)
      BY SerialAssumption DEF EndTicks, Shapes
    <2>2. c \in Calls /\ Acquire(c) /\ me # Idle /\ me \in Readers /\ call[me].at = "client"
      BY <1>3, <2>1, CallShapes DEF NextInb, At
    <2>3. Watch(c, timer_ticks, 0)
      BY StartWatch DEF EndTicks, Shapes
    <2>4. waited[me] = 0
      BY <2>2 DEF Watches, Watch
    <2> HIDE DEF c
    <2>5. Watch(c, timer_ticks, waited[me])
      BY <2>3, <2>4, Zenon
    <2> QED
      BY <2>2, <2>5, AcquireWatches
  <1>4. ASSUME NEW c \in Calls, c.at \in {"client", "out"}, Goto(c), me # Idle,
               call[me].at \in {"client", "out"}, UNCHANGED <<timer_ticks, waited>>
        PROVE  Watches'
    <2>1. me \in Readers => Watch(c, timer_ticks, waited[me])
      BY <1>0, <1>4
    <2>2. OnlyReaders' /\ \A t \in Readers : Watch(call'[t], timer_ticks, waited[t])
      BY <1>4, <2>1, GoOnWatches
    <2> QED
      BY <1>4, <2>2 DEF Watches
  <1>5. CASE UnsafePrintf \/ PrintEnd
    <2>1. /\ \E c \in Calls : c.at \in {"client", "out"} /\ Goto(c)
          /\ me # Idle /\ call[me].at \in {"client", "out"}
          /\ UNCHANGED <<timer_ticks, waited>>
      BY <1>5, CallShapes, CallFields DEF UnsafePrintf, PrintEnd, Begin, At
    <2> QED
      BY <1>4, <2>1
  <1>6. CASE OutChar
    <2>1. /\ me # Idle /\ me \in Threads /\ UNCHANGED <<timer_ticks, waited>>
          /\ Goto([call[me] EXCEPT !.left = @ - 1])
          /\ call[me].at = "out" /\ call[me].left > 0
      BY <1>6 DEF OutChar, At, Shapes, me
    <2>2. call[me] \in Calls
      BY <2>1 DEF Shapes
    <2> QED
      BY <1>4, <2>1, <2>2, NextChar
  <1>7. CASE TimedOut \/ ReadEnd
    <2>1. /\ Goto(Away) /\ waited' = [waited EXCEPT ![me] = 0] /\ UNCHANGED timer_ticks
          /\ me # Idle /\ me \in Threads /\ call[me].at \in {"spin", "unlock"}
      BY <1>7 DEF TimedOut, ReadEnd, Over, At, Shapes, me
    <2>2. me \in Readers
      BY <2>1 DEF Watches, OnlyReaders
    <2> QED
      BY <2>1, <2>2, ReturnWatches
  <1>8. CASE DataReady \/ ReadByte
    <2>1. /\ \E c \in Calls : c.at \in {"read", "unlock"} /\ Goto(c)
          /\ me # Idle /\ me \in Threads /\ call[me].at \in {"spin", "read"}
          /\ UNCHANGED <<timer_ticks, waited>>
      BY <1>8, CallShapes, CallFields DEF DataReady, ReadByte, Over, At, Shapes, me
    <2>2. me \in Readers
      BY <2>1 DEF Watches, OnlyReaders
    <2> PICK c \in Calls : c.at \in {"read", "unlock"} /\ Goto(c)
      BY <2>1
    <2>3. Watch(c, timer_ticks, waited[me])
      BY DEF Watch
    <2>4. OnlyReaders' /\ \A t \in Readers : Watch(call'[t], timer_ticks, waited[t])
      BY <2>1, <2>2, <2>3, GoOnWatches
    <2> QED
      BY <2>1, <2>4 DEF Watches
  <1>9. CASE UNCHANGED <<call, timer_ticks, waited>>
    BY <1>9 DEF Watches, OnlyReaders
  <1> QED
    BY <1>1, <1>2, <1>3, <1>5, <1>6, <1>7, <1>8, <1>9
    DEF Next, Step, vars, ByteArrives, SetLoopback, PrintfDisabled

-----------------------------------------------------------------------------
(* The theorems *)

\* The ready list of the first state holds every thread: it is as long as there are
\* threads, and has none twice.
LEMMA InitQueues == Init => Queues
  <1> SUFFICES ASSUME Init PROVE Queues
    OBVIOUS
  <1> DEFINE n == Cardinality(Threads)
  <1>1. IsFiniteSet(Threads) /\ n \in Nat /\ Idle \notin Threads
    BY SerialAssumption, FS_CardinalityType
  <1>2. IsFiniteSet(1..n) /\ Cardinality(1..n) = n
    BY <1>1, FS_Interval
  <1>3. ready \in [1..n -> Threads] /\ IsInjective(ready)
    BY DEF Init
  <1> PICK q : q = ready
    OBVIOUS
  <1>4. q \in Injection(1..n, Threads)
    BY <1>3 DEF Injection, IsInjective
  <1>5. q \in Surjection(1..n, Threads)
    BY <1>1, <1>2, <1>4, FS_Injection
  <1>6. Range(q) = Threads
    BY <1>3, <1>5 DEF Surjection, Range
  <1>7. q \in Seq(Threads)
    BY <1>1, <1>3
  <1>8. current_thread = Idle /\ serial_lock.waiters = <<>>
    BY DEF Init
  <1> HIDE DEF n
  <1> QED
    BY <1>1, <1>3, <1>6, <1>7, <1>8, EmptyList DEF Queues, Spread

\* The invariant holds at the start.
LEMMA InitInv == Init => IInv
  <1> SUFFICES ASSUME Init PROVE IInv
    OBVIOUS
  <1>0. /\ Chars \in Nat \ {0} /\ Word \in Nat \ {0} /\ MAX_SPIN_TICKS \in Nat \ {0}
        /\ Fifo \in Nat
    BY SerialAssumption
  <1>1. call = [t \in Threads |-> Away] /\ Away \in Calls /\ Away.at = "client" /\ ~InCall(Away)
    BY CallShapes, CallFields DEF Init
  <1>2. Queues
    BY InitQueues
  <1>3. Shapes
    BY <1>0, <1>1, EmptyList DEF Init, Shapes
  <1>4. LockOK
    <2>1. /\ serial_lock.owner = NULL /\ serial_lock.waiters = <<>> /\ Range(serial_lock.waiters) = {}
          /\ sent.left = 1 /\ NULL \notin Threads
      BY EmptyList, SerialAssumption DEF Init
    <2>2. Guarded(serial_lock, call)
      BY <1>1, <2>1 DEF Guarded
    <2>3. Whole(sent, serial_lock, call)
      BY <1>1, <2>1 DEF Whole
    <2> QED
      BY <2>2, <2>3 DEF LockOK
  <1>5. BufferOK
    <2>1. Len(uart.rx) = 0 /\ got = 0 /\ arrived = 0
      BY EmptyList DEF Init
    <2>2. Buffered(uart.rx, got, arrived)
      BY <1>0, <2>1 DEF Buffered
    <2> QED
      BY <1>1, <2>1, <2>2 DEF BufferOK, Promised
  <1>6. Watches
    BY <1>1 DEF Init, Watches, Watch, OnlyReaders, Threads
  <1> QED
    BY <1>2, <1>3, <1>4, <1>5, <1>6 DEF IInv

\* And every step keeps it.
LEMMA NextInv == IInv /\ [Next]_vars => IInv'
  <1> SUFFICES ASSUME IInv, [Next]_vars PROVE IInv'
    OBVIOUS
  <1>0. Shapes /\ Queues /\ LockOK /\ BufferOK /\ Watches
    BY DEF IInv
  <1>1. Shapes' /\ Queues'
    BY <1>0, ShapesNext, QueuesNext
  <1>2. LockOK'
    BY <1>0, LockNext
  <1>3. BufferOK'
    BY <1>0, BufferNext
  <1>4. Watches'
    BY <1>0, WatchesNext
  <1> QED
    BY <1>1, <1>2, <1>3, <1>4 DEF IInv

\* The invariant is inductive.
THEOREM SerialInvariant == Spec => []IInv
  BY InitInv, NextInv, PTL DEF Spec

\* Printing and reading never lose a thread, never have it in two places and never
\* leave one waiting for a free lock; buffer and counters stay in their ranges.
THEOREM SerialTypeCorrect == Spec => []TypeOK
  <1>1. IInv => TypeOK
    <2> SUFFICES ASSUME IInv PROVE TypeOK
      OBVIOUS
    <2> PICK c : c = current_thread
      OBVIOUS
    <2> PICK q : q = ready
      OBVIOUS
    <2> PICK w : w = serial_lock.waiters
      OBVIOUS
    <2>1. Spread(c, q, w)
      BY DEF IInv, Queues
    <2>2. ToSet(q) = Range(q) /\ ToSet(w) = Range(w)
      BY DEF ToSet, Range
    <2>3. IsInjective(Append(q \o w, c))
      <3> DEFINE S == Threads \cup {Idle}
      <3>1. /\ q \in Seq(S) /\ w \in Seq(S) /\ c \in S
            /\ IsInjective(q) /\ IsInjective(w) /\ Range(q) \cap Range(w) = {}
            /\ c \notin Range(q) \cup Range(w)
        BY <2>1 DEF Spread
      <3> HIDE DEF S
      <3>2. q \o w \in Seq(S) /\ Range(q \o w) = Range(q) \cup Range(w) /\ IsInjective(q \o w)
        BY <3>1, ConcatList
      <3> PICK u : u = q \o w
        OBVIOUS
      <3>3. IsInjective(Append(u, c))
        BY <3>1, <3>2, AppendList
      <3> QED
        BY <3>3
    <2>4. /\ current_thread \in Threads \cup {Idle}
          /\ timer_ticks \in 0..(Word - 1)
          /\ \A t \in Threads : call[t].left \in 0..Chars /\ call[t].end \in 0..(Word - 1)
      BY DEF IInv, Shapes, Calls
    <2>5. Len(uart.rx) <= Fifo
      BY DEF IInv, BufferOK, Buffered
    <2>6. serial_lock.owner = NULL => serial_lock.waiters = <<>>
      BY DEF IInv, LockOK, Guarded
    <2>7. ToSet(q) \cup ToSet(w) \cup ({c} \ {Idle}) = Threads
      BY <2>1, <2>2 DEF Spread
    <2> QED
      BY <2>3, <2>4, <2>5, <2>6, <2>7 DEF TypeOK, me
  <1> QED
    BY <1>1, SerialInvariant, PTL

\* For any number of printing and reading threads and any text: the characters of one
\* synchronized call go out with no other synchronized character between them.
THEOREM TextsNotTorn == Spec => SynchronizedNotTorn
  <1> DEFINE Sends == sent' # sent => sent' = IF sent.left > 1 THEN Sent(sent.by, sent.left - 1)
                                              ELSE Sent(me, Chars)
  <1>1. IInv /\ [Next]_vars => [Sends]_vars
    <2> SUFFICES ASSUME IInv, [Next]_vars, sent' # sent PROVE Sends
      OBVIOUS
    <2>1. OutChar
      BY DEF Next, Step, vars, TimerInterrupt, ByteArrives, SetLoopback, Printf, UnsafePrintf,
         PrintfDisabled, NextInb, Spin, PrintEnd, TimedOut, DataReady, ReadByte, ReadEnd
    <2>2. /\ sent' = Sent(me, call[me].left) /\ call[me].locked
          /\ call[me].at = "out" /\ call[me].left > 0 /\ me # Idle
      BY <2>1 DEF OutChar, io_serial_outb, At
    <2>3. me \in Threads /\ serial_lock.owner = me
      BY <2>2, RunnerOwns DEF IInv, LockOK, InCall
    <2>4. CASE sent.left > 1
      <3>1. sent.by = me /\ call[me].left = sent.left - 1
        BY <2>3, <2>4 DEF IInv, LockOK, Whole
      <3> QED
        BY <2>2, <2>4, <3>1
    <2>5. CASE ~(sent.left > 1)
      <3>1. sent.left = 1
        BY <2>5, SerialAssumption DEF IInv, Shapes
      <3>2. call[me].left \in {0, Chars}
        BY <2>2, <2>3, <3>1 DEF IInv, LockOK, Whole
      <3>3. call[me].left = Chars
        BY <2>2, <3>2
      <3> QED
        BY <2>2, <2>5, <3>3
    <2> QED
      BY <2>4, <2>5
  <1> QED
    BY <1>1, SerialInvariant, PTL DEF Spec, SynchronizedNotTorn

\* Every byte that io_serial_nextinb() returns is one that came in after the bytes
\* returned before it, with any number of readers and any buffer.
THEOREM BytesGenuine == Spec => ReadsGenuine
  <1> DEFINE Reads == \A t \in Readers :
                         call[t].at = "read" /\ call'[t].at = "unlock" => got' > got
  <1>1. IInv /\ [Next]_vars => [Reads]_vars
    <2> SUFFICES ASSUME IInv, [Next]_vars, NEW t \in Readers,
                        call[t].at = "read", call'[t].at = "unlock"
                 PROVE  got' > got
      OBVIOUS
    <2>0. t \in Threads /\ call \in [Threads -> Calls]
      BY DEF Threads, IInv, Shapes
    <2>1. ASSUME NEW c, Goto(c), c.at # "unlock", me # Idle PROVE FALSE
      <3>1. me \in Threads /\ call' = [call EXCEPT ![me] = c]
        BY <2>1 DEF IInv, Shapes, me, Goto
      <3> QED
        BY <2>0, <2>1, <3>1
    <2>2. call' # call
      BY <2>0
    <2>3. ~Printf /\ ~UnsafePrintf /\ ~NextInb /\ ~DataReady
      BY <2>1, CallFields DEF Printf, UnsafePrintf, NextInb, DataReady, Begin, Over, At, Acquire
    <2>4. ~PrintEnd /\ ~TimedOut /\ ~ReadEnd
      BY <2>1, CallFields DEF PrintEnd, TimedOut, ReadEnd, Over, At
    <2>5. ~OutChar
      <3> SUFFICES ASSUME OutChar PROVE FALSE
        OBVIOUS
      <3>1. /\ me # Idle /\ me \in Threads /\ Goto([call[me] EXCEPT !.left = @ - 1])
            /\ call[me].at = "out"
        BY DEF OutChar, At, IInv, Shapes, me
      <3>2. [call[me] EXCEPT !.left = @ - 1].at # "unlock"
        BY <2>0, <3>1 DEF Calls
      <3> QED
        BY <2>1, <3>1, <3>2
    <2>6. ReadByte
      BY <2>2, <2>3, <2>4, <2>5 DEF Next, Step, vars, TimerInterrupt, ByteArrives, SetLoopback,
         PrintfDisabled, Spin
    <2> PICK rx : rx = uart.rx
      OBVIOUS
    <2> PICK g : g = got
      OBVIOUS
    <2> PICK n : n = arrived
      OBVIOUS
    <2>7. rx \in Seq(Nat) /\ g \in Nat /\ n \in Nat /\ Buffered(rx, g, n) /\ rx # <<>>
      BY <2>0 DEF IInv, Shapes, BufferOK, Promised
    <2>8. got' = Head(rx)
      BY <2>6, <2>7 DEF ReadByte
    <2>9. Head(rx) > g
      BY <2>7, TakeByte
    <2> QED
      BY <2>8, <2>9
  <1> QED
    BY <1>1, SerialInvariant, PTL DEF Spec, ReadsGenuine

\* A reader waits MAX_SPIN_TICKS before it gives up, for any word size and time-out, unless
\* the sum timer_ticks + MAX_SPIN_TICKS wrapped.
THEOREM TimeoutNotEarly == Spec => NoEarlyTimeoutUnlessWrapped
  <1> DEFINE Waits == \A t \in Readers :
                         call[t].at = "spin" /\ call'[t].at = "client" =>
                             call[t].end < MAX_SPIN_TICKS \/ waited[t] >= MAX_SPIN_TICKS
  <1>1. IInv /\ [Next]_vars => [Waits]_vars
    <2> SUFFICES ASSUME IInv, [Next]_vars, NEW t \in Readers,
                        call[t].at = "spin", call'[t].at = "client",
                        ~(call[t].end < MAX_SPIN_TICKS)
                 PROVE  waited[t] >= MAX_SPIN_TICKS
      OBVIOUS
    <2>0. /\ t \in Threads /\ call \in [Threads -> Calls] /\ call[t].end \in 0..(Word - 1)
          /\ timer_ticks \in 0..(Word - 1) /\ waited[t] \in 0..MAX_SPIN_TICKS
          /\ MAX_SPIN_TICKS \in Nat /\ Word \in Nat
      BY SerialAssumption DEF Threads, IInv, Shapes, Calls
    <2>1. ASSUME NEW c, Goto(c), me # Idle, call[me].at # "spin" PROVE FALSE
      <3>1. me \in Threads /\ call' = [call EXCEPT ![me] = c] /\ me # t
        BY <2>1 DEF IInv, Shapes, me, Goto
      <3> QED
        BY <2>0, <3>1
    <2>2. call' # call
      OBVIOUS
    <2>3. ~Printf /\ ~UnsafePrintf /\ ~NextInb /\ ~OutChar /\ ~PrintEnd /\ ~ReadByte /\ ~ReadEnd
      BY <2>1 DEF Printf, UnsafePrintf, NextInb, Begin, At, Acquire, OutChar, PrintEnd,
         ReadByte, ReadEnd
    <2>4. TimedOut \/ DataReady
      BY <2>2, <2>3 DEF Next, Step, vars, TimerInterrupt, ByteArrives, SetLoopback,
         PrintfDisabled, Spin
    <2>5. me = t
      <3>1. me # Idle /\ \E c : Goto(c)
        BY <2>4 DEF TimedOut, DataReady, Over, At
      <3> QED
        BY <2>0, <3>1 DEF Goto
    <2>6. timer_ticks >= call[t].end
      BY <2>4, <2>5 DEF TimedOut, DataReady, Over
    <2>7. Watch(call[t], timer_ticks, waited[t])
      BY DEF IInv, Watches
    <2>8. waited[t] = MAX_SPIN_TICKS \/ timer_ticks + MAX_SPIN_TICKS - waited[t] = call[t].end
      BY <2>0, <2>7 DEF Watch
    <2> QED
      BY <2>0, <2>6, <2>8
  <1> QED
    BY <1>1, SerialInvariant, PTL DEF Spec, NoEarlyTimeoutUnlessWrapped

=============================================================================
