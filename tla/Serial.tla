------------------------------- MODULE Serial -------------------------------
(***************************************************************************)
(* A serial port, its lock, and the threads that print to it and read from *)
(* it (src/src/io/io.c, src/include/alienos/io/io.h).                      *)
(*                                                                         *)
(* A printed text is Chars characters, whatever they are; module Format is *)
(* about which ones. The lock is its owner and a line of waiters, which is *)
(* what module Synch shows mutexes to be (FifoLock). The scheduler is its  *)
(* ready list, oldest thread first: every entry of IRQ0, by the PIT or by  *)
(* a thread that yields, is a tick and gives the processor away.           *)
(***************************************************************************)
EXTENDS Integers, FiniteSets, Sequences, SequencesExt

CONSTANTS Idle,
          Readers,    \* threads that call io_serial_nextinb()
          Writers,    \* threads that print
          NULL,
          Chars,      \* the characters of a text
          Word,       \* timer_ticks counts modulo Word
          MAX_SPIN_TICKS,
          Fifo,       \* bytes in the receive buffer of the UART
          MaxBytes    \* bound: the bytes that are received

Threads == Readers \cup Writers

ASSUME SerialAssumption ==
    /\ IsFiniteSet(Threads)
    /\ Idle \notin Threads /\ NULL \notin Threads \cup {Idle}
    /\ {Chars, MAX_SPIN_TICKS, Fifo} \subseteq Nat \ {0}
    /\ Word \in Nat /\ Word > MAX_SPIN_TICKS
    /\ MaxBytes \in Nat

VARIABLES current_thread,
          ready,        \* the ready list, oldest first
          serial_lock,  \* owner and waiters
          timer_ticks,
          uart,         \* the receive buffer and the loopback bit of the modem control register
          call,         \* where each thread is, with its local variables
          sent,         \* history: the last character that a synchronized call sent, and its thread
          got,          \* history: what io_serial_nextinb() read last
          arrived,      \* history: the number of bytes that came in
          waited,       \* history: ticks since a reader's call began, up to MAX_SPIN_TICKS
          halted        \* a kernel_assert() failed

vars == <<current_thread, ready, serial_lock, timer_ticks, uart, call, sent, got, arrived, waited, halted>>

me == current_thread

Away == [at |-> "client", left |-> 0, locked |-> FALSE, end |-> 0]

At(point) == ~halted /\ me # Idle /\ call[me].at = point

Goto(c) == call' = [call EXCEPT ![me] = c]

-----------------------------------------------------------------------------
(* IRQ0 and the lock *)

\* The queue that is left once the interrupted thread is put at its end.
Behind(stays) == IF stays /\ me # Idle THEN Append(ready, me) ELSE ready

Switch(queue) ==
    IF queue = <<>> THEN current_thread' = Idle /\ ready' = <<>>
    ELSE current_thread' = Head(queue) /\ ready' = Tail(queue)

Tick ==
    /\ timer_ticks' = (timer_ticks + 1) % Word
    /\ waited' = [t \in Readers |->
                      IF call'[t].at = "spin" /\ waited[t] < MAX_SPIN_TICKS THEN waited[t] + 1
                      ELSE waited[t]]

isr_IRQ0(stays) == Tick /\ Switch(Behind(stays))

\* mutex_acquire(): the thread goes on at c, at once or when it has been given the lock.
Acquire(c) ==
    /\ Goto(c)
    /\ IF serial_lock.owner = NULL
       THEN /\ serial_lock' = [serial_lock EXCEPT !.owner = me]
            /\ UNCHANGED <<current_thread, ready, timer_ticks, waited>>
       ELSE /\ serial_lock' = [serial_lock EXCEPT !.waiters = Append(@, me)]
            /\ isr_IRQ0(FALSE)

\* Mutant: the waiter stays in line.
Release_keeps ==
    /\ serial_lock' = IF serial_lock.waiters = <<>> THEN [serial_lock EXCEPT !.owner = NULL]
                      ELSE [serial_lock EXCEPT !.owner = Head(serial_lock.waiters)]
    /\ ready' = IF serial_lock.waiters = <<>> THEN ready ELSE Append(ready, Head(serial_lock.waiters))

\* mutex_release(): the first waiter is the owner, and ready.
Release ==
    /\ serial_lock' = IF serial_lock.waiters = <<>> THEN [serial_lock EXCEPT !.owner = NULL]
                      ELSE [owner |-> Head(serial_lock.waiters), waiters |-> Tail(serial_lock.waiters)]
    /\ ready' = IF serial_lock.waiters = <<>> THEN ready ELSE Append(ready, Head(serial_lock.waiters))

-----------------------------------------------------------------------------
(* The UART *)

\* A byte that comes in when the buffer is full is lost.
Receive(n) == [uart EXCEPT !.rx = IF Len(@) < Fifo THEN Append(@, n) ELSE @]

\* A byte from the line. In loopback mode the line is disconnected.
ByteArrives ==
    /\ ~halted
    /\ ~uart.loop
    /\ arrived < MaxBytes
    /\ arrived' = arrived + 1
    /\ uart' = Receive(arrived + 1)
    /\ UNCHANGED <<current_thread, ready, serial_lock, timer_ticks, call, sent, got, waited, halted>>

\* What the history keeps: whose text it is no longer matters at its end.
Sent(t, left) == [by |-> IF left = 1 THEN NULL ELSE t, left |-> left]

\* io_serial_outb(): in loopback mode what is sent is received.
io_serial_outb ==
    /\ sent' = IF call[me].locked THEN Sent(me, call[me].left) ELSE sent
    /\ IF uart.loop /\ arrived < MaxBytes
       THEN arrived' = arrived + 1 /\ uart' = Receive(arrived + 1)
       ELSE UNCHANGED <<arrived, uart>>

\* io_serial_set_loopback()
SetLoopback(b) ==
    /\ At("client")
    /\ uart' = [uart EXCEPT !.loop = b]
    /\ UNCHANGED <<current_thread, ready, serial_lock, timer_ticks, call, sent, got, arrived, waited, halted>>

-----------------------------------------------------------------------------
(* Printing *)

\* The PIT fires. What its handler prints (unsafe_printf() in clean_zombies() and at
\* the first tick) goes out at once and without the lock.
TimerInterrupt ==
    /\ ~halted
    /\ UNCHANGED <<serial_lock, uart, call, sent, got, arrived, halted>>
    /\ isr_IRQ0(TRUE)

Begin == At("client") /\ me \in Writers

\* Mutant: the lock is only taken when it is free.
Printf_try ==
    /\ Begin
    /\ Goto([Away EXCEPT !.at = "out", !.left = Chars, !.locked = TRUE])
    /\ serial_lock' = IF serial_lock.owner = NULL THEN [serial_lock EXCEPT !.owner = me] ELSE serial_lock
    /\ UNCHANGED <<current_thread, ready, timer_ticks, uart, sent, got, arrived, waited, halted>>

\* io_serial_printf(), io_serial_outstr(), io_serial_outint(), io_serial_outbool().
Printf ==
    /\ Begin
    /\ Acquire([Away EXCEPT !.at = "out", !.left = Chars, !.locked = TRUE])
    /\ UNCHANGED <<uart, sent, got, arrived, halted>>

\* io_serial_unsafe_printf() with interrupts enabled, as thread_create_arg() calls it.
UnsafePrintf ==
    /\ Begin
    /\ Goto([Away EXCEPT !.at = "out", !.left = Chars])
    /\ UNCHANGED <<current_thread, ready, serial_lock, timer_ticks, uart, sent, got, arrived, waited, halted>>

\* io_serial_printf() with interrupts disabled prints without the lock, and panics.
PrintfDisabled ==
    /\ Begin
    /\ halted' = TRUE
    /\ UNCHANGED <<current_thread, ready, serial_lock, timer_ticks, uart, call, sent, got, arrived, waited>>

\* io_writestr() and its like give one character at a time to the port.
OutChar ==
    /\ At("out")
    /\ call[me].left > 0
    /\ io_serial_outb
    /\ Goto([call[me] EXCEPT !.left = @ - 1])
    /\ UNCHANGED <<current_thread, ready, serial_lock, timer_ticks, got, waited, halted>>

PrintEnd ==
    /\ At("out")
    /\ call[me].left = 0
    /\ IF call[me].locked THEN Release ELSE UNCHANGED <<serial_lock, ready>>
    /\ Goto(Away)
    /\ UNCHANGED <<current_thread, timer_ticks, uart, sent, got, arrived, waited, halted>>

-----------------------------------------------------------------------------
(* Reading: io_serial_nextinb() *)

\* Mutant: the time-out begins one tick early.
EndTicks_short == (timer_ticks + MAX_SPIN_TICKS - 1) % Word

EndTicks == (timer_ticks + MAX_SPIN_TICKS) % Word

\* The time-out is counted from before the lock is acquired.
NextInb ==
    /\ At("client")
    /\ me \in Readers
    /\ Acquire([Away EXCEPT !.at = "spin", !.end = EndTicks])
    /\ UNCHANGED <<uart, sent, got, arrived, halted>>

\* The loop yields until the time is over, whether or not a byte has come.
Spin ==
    /\ At("spin")
    /\ timer_ticks < call[me].end
    /\ UNCHANGED <<serial_lock, uart, call, sent, got, arrived, halted>>
    /\ isr_IRQ0(TRUE)

Over == At("spin") /\ timer_ticks >= call[me].end

\* Mutant: the early return leaves the port locked.
TimedOut_locked ==
    /\ Over
    /\ uart.rx = <<>>
    /\ Goto(Away)
    /\ UNCHANGED <<current_thread, ready, serial_lock, timer_ticks, uart, sent, got, arrived, waited, halted>>

TimedOut ==
    /\ Over
    /\ uart.rx = <<>>
    /\ Release
    /\ Goto(Away)
    /\ waited' = [waited EXCEPT ![me] = 0]
    /\ UNCHANGED <<current_thread, timer_ticks, uart, sent, got, arrived, halted>>

\* Mutant: the port is unlocked as soon as a byte is known to be there.
DataReady_unlocked ==
    /\ Over
    /\ uart.rx # <<>>
    /\ Release
    /\ Goto([Away EXCEPT !.at = "read"])
    /\ UNCHANGED <<current_thread, timer_ticks, uart, sent, got, arrived, waited, halted>>

DataReady ==
    /\ Over
    /\ uart.rx # <<>>
    /\ Goto([Away EXCEPT !.at = "read"])
    /\ UNCHANGED <<current_thread, ready, serial_lock, timer_ticks, uart, sent, got, arrived, waited, halted>>

\* io_serial_inb(): a buffer without a byte would give an old one again.
ReadByte ==
    /\ At("read")
    /\ got' = IF uart.rx = <<>> THEN got ELSE Head(uart.rx)
    /\ uart' = [uart EXCEPT !.rx = IF @ = <<>> THEN @ ELSE Tail(@)]
    /\ Goto([Away EXCEPT !.at = "unlock"])
    /\ UNCHANGED <<current_thread, ready, serial_lock, timer_ticks, sent, arrived, waited, halted>>

ReadEnd ==
    /\ At("unlock")
    /\ Release
    /\ Goto(Away)
    /\ waited' = [waited EXCEPT ![me] = 0]
    /\ UNCHANGED <<current_thread, timer_ticks, uart, sent, got, arrived, halted>>

-----------------------------------------------------------------------------
Init ==
    /\ current_thread = Idle
    /\ ready \in {q \in [1..Cardinality(Threads) -> Threads] : IsInjective(q)}
    /\ serial_lock = [owner |-> NULL, waiters |-> <<>>]
    /\ timer_ticks = 0
    /\ uart = [rx |-> <<>>, loop |-> FALSE]
    /\ call = [t \in Threads |-> Away]
    /\ sent = [by |-> NULL, left |-> 1] /\ got = 0 /\ arrived = 0
    /\ waited = [t \in Readers |-> 0]
    /\ halted = FALSE

\* The steps of a call that has begun, up to its return.
Step == OutChar \/ PrintEnd \/ TimedOut \/ DataReady \/ ReadByte \/ ReadEnd

Next ==
    \/ TimerInterrupt
    \/ ByteArrives
    \/ \E b \in BOOLEAN : SetLoopback(b)
    \/ Printf
    \/ UnsafePrintf
    \/ PrintfDisabled
    \/ NextInb
    \/ Spin
    \/ Step

Spec == Init /\ [][Next]_vars

\* The PIT does not stop, and a thread that is given the processor again and again
\* gets on with what it is doing. Nothing is asked of clients or of the line.
FairSpec ==
    /\ Spec
    /\ WF_vars(TimerInterrupt)
    /\ \A t \in Threads : SF_vars(me = t /\ Step)

-----------------------------------------------------------------------------
(* Properties *)

TypeOK ==
    /\ current_thread \in Threads \cup {Idle}
    /\ IsInjective(Append(ready \o serial_lock.waiters, me))
    /\ ToSet(ready) \cup ToSet(serial_lock.waiters) \cup ({me} \ {Idle}) = Threads
    /\ timer_ticks \in 0..(Word - 1)
    /\ Len(uart.rx) <= Fifo
    /\ \A t \in Threads : call[t].left \in 0..Chars /\ call[t].end \in 0..(Word - 1)
    /\ serial_lock.owner = NULL => serial_lock.waiters = <<>>

\* "Print format to a serial port. Synchronized internally.": the characters of one
\* call of a synchronized function go out together; only unsynchronized texts
\* (unsafe_printf()) can come in between.
SynchronizedNotTorn ==
    [][sent' # sent => sent' = IF sent.left > 1 THEN Sent(sent.by, sent.left - 1) ELSE Sent(me, Chars)]_vars

\* Concurrent calls of io_serial_nextinb() return bytes that really came in, each to
\* one caller and in the order of arrival: nobody reads a buffer that another reader
\* has emptied between the check and the read.
ReadsGenuine ==
    [][\A t \in Readers : call[t].at = "read" /\ call'[t].at = "unlock" => got' > got]_vars

\* "Spins until we receive a byte or we reach max iterations" (io.h:167): a call of
\* io_serial_nextinb() that returns without a byte has waited MAX_SPIN_TICKS, however
\* long of that it had to wait for the lock, unless the sum that it computed wrapped (and
\* is therefore smaller than MAX_SPIN_TICKS). Nothing is said of a call that returns one.
NoEarlyTimeoutUnlessWrapped ==
    [][\A t \in Readers :
          call[t].at = "spin" /\ call'[t].at = "client" =>
              call[t].end < MAX_SPIN_TICKS \/ waited[t] >= MAX_SPIN_TICKS]_vars

\* The reader that has the lock waits for a tick count so close to the wrap that it
\* may not be on the processor between that tick and the wrap.
MayMiss(r) ==
    serial_lock.owner = r /\ call[r].at = "spin" /\ call[r].end > Word - Cardinality(Threads)

\* Every call on the port returns, although readers hold its lock while they wait,
\* unless a reader can miss the end of its time-out, or the kernel panics.
CallsReturn ==
    \A t \in Threads :
        call[t].at # "client" ~> (call[t].at = "client" \/ halted \/ \E r \in Readers : MayMiss(r))
=============================================================================
