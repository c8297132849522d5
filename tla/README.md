# AlienOS: a TLA+ model

AlienOS is a small 32-bit x86 kernel. It runs on one processor, without virtual
memory and without user mode. This directory models it from the first
instruction to the running system: boot, the descriptor tables and the
interrupt controller, the timer, threads and the scheduler, the
synchronization primitives, the kernel heap, the serial port, formatted output
and the terminal. The modules are checked with TLC on small instances; the
central safety properties of the scheduler, thread creation, the
synchronization primitives, the heap, the interrupt controller and the serial
port are proved with TLAPS for every instance.

Source paths below are relative to `src/`.

## Inventory

| Part | State | Operations | What makes it correct |
|---|---|---|---|
| Threads and scheduler (`src/kernel/thread.c`, `src/cpu/cpu.c`) | `current_thread`, each thread's status, wake-up time and blocker, the ready, sleeping, zombie and all-threads lists | `thread_create*`, `thread_yield`, `thread_sleep`, `thread_exit`, `thread_unblock`, `thread_timer_tick`, `scheduler_next`, queries | every thread is in exactly the list its status names; round robin without starvation; sleepers wake, not early; no assertion fails |
| Synchronization (`src/kernel/synch.c`) | count and wait queue of a semaphore; holder and recursion count of a mutex; wait queue of a condition variable | `semaphore_*`, `mutex_*`, `condvar_*` | mutual exclusion, FIFO hand-over, the count says how many wait, no lost waiter |
| Timer (`src/io/timer.c`) | `timer_ticks` | `timer_callback`, PIT programming | the tick counter wraps without harm; the two bytes of a count belong together |
| Interrupt entry (`src/io/interruptasm.s`) | saved stack pointers | `isr_IRQ0`, wrappers | the switch is atomic; an end of interrupt is sent each time |
| Interrupt controller (`src/io/interrupt.c`) | request, in-service and mask registers of two 8259s; IDT | `pic_remap`, `irq_set_mask`, `irq_clear_mask`, `irq_handler`, `pic_eoi`, `pic_check_spurious` | every interrupt that begins is ended once, on the right chips; unmasked lines are served; a mask has the bits its drivers asked for |
| Heap (`src/kernel/kmalloc.c`) | the memory, the free list, the end of the heap, statistics | `kmalloc`, `kcalloc`, `krealloc`, `kfree`, `kmalloc_init` | blocks tile the heap; free blocks are sorted and coalesced; contents are kept; statistics balance |
| Serial port and printing (`src/io/io.c`) | a lock per port, the UART | `io_serial_*`, `printf`, `io_printf` | output of one synchronized call is not torn; bytes are read once and in order; reads time out; every conversion prints what is meant |
| Terminal (`src/io/terminal.c`) | cursor, colour, screen buffer | `terminal_*` | the cursor stays on the screen |
| GDT (`src/mem`) | six descriptors, the segment and task registers | `gdt_init` and its assembly | flat segments, loaded before they are used |
| Boot and panic (`src/kernel/kernel.c`, `bootasm.s`) | the processor's registers | `_start`, `kernel_main`, `kernel_assert`, `kernel_panic` | nothing is used before it is set up |
| String library (`libc`), keyboard stub, in-kernel tests | none | | |

How they interact. Threads call the synchronization primitives, which run with
interrupts disabled and give the processor away with `thread_yield()`, that is,
with the same vector (0x20) that the PIT raises. `isr_IRQ0` saves the thread,
calls `timer_callback()` (which wakes sleepers), sends an end of interrupt,
calls `scheduler_next()` (which reaps zombies through `kfree()` and picks the
next thread) and resumes it. The heap and the serial port protect themselves
with mutexes. Nothing else is shared between the processor and itself: there is
one processor, so the interleavings that matter are those of threads cut by
the timer, and of the timer with code that left interrupts enabled.

Hard behaviours: the window between a release and the resumption of the waiter
it was handed to; `thread_sleep()`, `mutex_try_acquire()` and
`thread_create_arg()`, which run with interrupts enabled; one list node shared
by all lists; the wrap of the tick counter; heap work inside the timer
interrupt; sequences of split, merge and resize in the heap; spurious
interrupts and the software-raised timer vector. `PROJECT.json` lists them as
hazards, each at its line.

## Modules

* **Scheduler** models `thread.c` and the timer interrupt. The lists are
  sequences with their head first. `isr_IRQ0(st, ready, on, asserts)` is the
  whole interrupt; it is entered with the statuses, ready list and blockers as
  the interrupted operation left them, so that an operation that blocks is one
  step up to and including the switch. `pc` says where a thread continues.
  `panic` is raised by a failed assertion and stops everything.
  `thread_timer_tick` and `InOrder` give what the walk of the list leaves: the
  elements that stay or go, in their order.
* **Synch** extends it with `synch.c`. One action per operation, split where
  the code enables interrupts: `MutexTry`/`MutexTryOwn`, `CondVarWait` followed
  by the acquire actions, `MutexBlock`/`MutexGranted` where the thread is away
  in between. `held` is the clients' own record of what they acquired; the
  kernel does not have it, and mutual exclusion is stated on it.
* **FifoLock** is what a mutex promises: a line in which threads enter one at a
  time in the order of arrival. Synch implements it under the mapping in
  `Line` (the owner, followed by the wait queue).
* **SleepClock** adds to Synch a stopwatch per thread that does not wrap.
* **ThreadCreate** models what Scheduler leaves out of `thread.c`: creation,
  thread ids, the reaping of zombies and the queries, with the lists as the
  heads and the `next` and `prev` pointers they are. `thread_create_arg()` and
  the queries run with interrupts enabled, so they are one step per load and
  store; the timer interrupt, and what runs with interrupts disabled, is one
  step. Mutexes are lines of waiters, as FifoLock says they are.
* **Reaper** models the one place where an interrupt handler can block:
  `clean_zombies()` calls `kfree()`, which takes the heap's mutex on behalf of
  the interrupted thread. Every thread has a stack of interrupt frames, and
  `esp` is the frame that `thread_t.esp` points to. If the interrupted thread
  has the mutex itself, `kfree()` goes on (the mutex is recursive); `disturbed`
  says that this thread was walking through the free list, and then an
  assertion may fail when its walk ends.
* **KMalloc** models `kmalloc.c`. Memory maps aligned addresses to a header or
  a client's value, so that overwritten headers and lost contents would show.
  The operators on the free list take a heap to a heap, as the functions of the
  same names do. `free_list_lock` lets one call be under way at a time (`call`
  has its local variables), but interrupts are enabled inside, and the timer
  interrupt of the thread that has the lock may free blocks as well: `Reap`. So
  a call is made of steps, `FindBlock`, `TakeBlock`, `GrowBlock`, `FindPlace`,
  `LinkBlock`, `MarkBlock`, `ZeroBlock`, `CopyBlock`, `FreeOld`: one for each
  walk through the list, one for the stores that use what the walk found, and
  one for each thing done besides. `torn` says that `Reap` has come between a
  walk and its stores.
  `live` is the clients' record of what they were given and what they stored;
  `mmap` is the boot loader's memory map, from which `kmalloc_init()` takes the
  limit of the heap.
* **Pic** models `interrupt.c` and two external 8259 chips, with registers as
  sets of lines. `serving` is the handler that runs.
* **Serial** models a serial port with its lock: synchronized and
  unsynchronized printing, reading with a time-out, and the loopback test, one
  step per port access, cut by the timer. The scheduler is its ready list.
* **Format** has the conversions of `io_printf()` as operators from a format
  and its arguments to the characters written, with words of `Bits` bits and
  digit buffers of the code's length.
* **Terminal** models `terminal.c`: every load and store of the cursor is a
  step, and several threads write texts from Format at once. `Meant` and `Place` are the
  references: what a numeral is, and where a character belongs on the screen,
  computed without digit buffers and without a cursor.
* **Boot** models the machine: the processor's registers, both 8259s with
  their initialization sequence, channel 0 of the 8254, and the kernel's
  functions as the sequences of instructions by which they touch any of these.
  `eip` is what is left to execute. It goes from `_start` through
  `kernel_main()` (segments, interrupt descriptors, controllers, timer, first
  thread) to the idle loop; then Main and a second thread keep calling the
  timer's and the mask functions while interrupts push and pop their frames.
* **MCSynch**, **MCThreadCreate**, **MCKMalloc**, **MCTerminal** name the model
  values, the symmetry, the view and the state constraints.
* **ListLemmas**, **SynchProofs**, **SynchRefinement**, **SynchOrderProofs**,
  **ThreadCreateProofs**, **PicProofs**, **SerialProofs**, **KMallocProofs** hold
  lemmas and theorems.

How they fit together. Synch extends Scheduler, SleepClock extends Synch.
Synch implements FifoLock, and FifoLock's view of a mutex (an owner and a line)
is what ThreadCreate, Serial and Reaper use for theirs. Terminal extends
Format. Pic treats acknowledgement and masking of all lines in whole steps;
Boot treats three lines instruction by instruction.

Operators named as mutants (`..._no_eoi`, `DueStrict`, ...) are variants of the
definition that follows them, with a bug someone could write; no specification
uses them. They document what each property is able to see.

What the models assume of clients: only the holder of a mutex releases it or
waits with it, no thread exits holding a mutex, and heap clients pass only
pointers they were given and write only what they asked for.

What the models leave out of the modelled functions: debug printing
(`thread_sleep()` and others call `printf()`, which takes the lock of the
serial port; the name `KernelLock` in `blocked_on` stands for such internal
locks). Scheduler's threads do not use the heap, so the lock that `kfree()`
takes in `clean_zombies()` is always free there; Reaper is about the other
case. In Boot the expression at `timer.c:137` is evaluated from left to right,
which C leaves open, and the one-instruction shadow of `sti` and non-maskable
interrupts are left out.

### History variables and constraints

Some code is safe only as long as two things do not happen at once, and its
properties say so. ThreadCreate keeps in `overlap` which lists were changed
while an insertion was under way (`torn`), which walks were overtaken by a
change of their list (`astray`), and whether two creators were inside
`next_tid++` (`tid`); Terminal keeps in `raced` whether two threads were in
`terminal_putchar()` at once; KMalloc keeps in `torn` whether the interrupt
came between a walk and its stores. These variables only record: no step
depends on them. The properties named `...UnlessTorn`, `...UnlessRaced`, and
those of KMalloc but HeapInRam, exempt exactly these cases, and the runs stop
exploring beyond them (`Intact`, `OneByOne`, `MCIntact`), because nothing is
claimed of what follows. How the torn cases go wrong is shown by the runs
ThreadTorn and KMallocReentered, which have no constraint.

## Runs

In SynchMutex, where safety is checked, the workers A and B are interchangeable,
and so are the two mutexes, hence the symmetry set; SynchFair and the other
liveness runs have none.

| Run | Instance | Distinct states | Shows |
|---|---|---|---|
| SynchMutex | idle, main, A, B; 2 mutexes, depth 2, 1 condition variable, 1 semaphore up to 1 | 119 k | no assertion fails, every thread in one list, counts, mutual exclusion, round robin (NoOvertaking), and that a mutex implements FifoLock |
| SynchFair | module SleepClock; idle, main, A; 1 mutex, 1 condition variable, counter modulo 4, sleeps of 3 | 117 k | under FairClockSpec: ReadyRuns, HandedOverIsTaken, and SleepersWake across the wrap; no early wake-up unless the sum wrapped |
| ThreadCreate | idle, main, 3 slots for thread_t (interchangeable), tids up to 4; main and A ask for counts and for tid 3 | 244 k | pointers form the lists they should, no failed assertion, exact walks, distinct tids, each unless overtaken |
| KMalloc | alignment and header 2, pages of 8, at most 2 pages, two memory maps, sizes 0, 1, 5, at most 3 blocks | 472 k | tiling, heap inside RAM, coalescing, contents, sizes, call and byte counts, no assertion, at every step of a call and whatever the interrupt frees between two steps, unless between a walk and its stores |
| PicService | devices on 0, 1, 8, 9, drivers on these and the cascade | 1.9 k | ServiceEnds, TimerServed under FairSpec |
| Serial | readers R1 and R2, of which R1 also prints, and writer W; texts of 2 characters, counter modulo 6, time-out 1, buffer of 1 byte, 2 bytes received | 262 k | synchronized texts are whole, bytes read once and in order, no early time-out unless wrapped; under FairSpec every call returns |
| Terminal | 2 threads, 2 by 2 screen, words of 5 bits, at most 2 items | 187 k | every conversion prints what is meant, and the screen shows it, wrapped at both ends |
| Boot | Main on line 1, T on line 3, reload 513, counts 258 and 772 | 40 k | nothing is used before it is set up, threads keep their registers, counts and masks are whole; under FairSpec the timer ticks for ever |

The bounds. Three preemptible threads are the least with which a mutex has a
holder, a thread in the hand-over window and one that tries to barge in, and
with which a wait queue has an order. Depth 2 is the least that recursion
needs. Word 1 in SynchMutex makes the tick counter constant: no
operation there looks at it. The counter modulo 4 wraps many times in the
reachable states; a sleep of 3 is the shortest that can be cut short, because
the interrupt that puts a thread to sleep and the first one that looks at it
already make two. SynchFair has one worker less, for the cost of liveness
checking without symmetry; main and A still contend for the mutex. Its ready
list has at most one thread more than the processor, so that NoOvertaking, which
needs two, belongs to SynchMutex; that sleepers keep the order too is proved.

With pages of four words and sizes that take one, two and four words with their
header the heap is split, merged on both sides, grown in place, moved, extended
and exhausted (`heap.halt = "oom"`), and with three blocks the interrupt has two
to free while a call works on the third; that the heap halts when it is exhausted is
why the run does not check for deadlock. MCView identifies states that differ
only in words that are neither headers of blocks nor written by a client, or in
the byte statistics: no step depends on them, and no property of that run does
(BytesCounted is about the difference that a step makes). BytesCounted makes an
exception for blocks that `krealloc()` resizes in place.

Three slots allow a creator to be overtaken by another creator and by a thread
that exits and is reaped, and a freed slot to be used again; tid 4 lets every
slot be used twice. In Serial the counter is
even, as 2^32 is: a reader that alternates with one other thread sees every
second tick only, and with an odd counter it would see the others after a turn.
CallsReturn exempts a reader whose time-out ends so close to the wrap that all
its looks can fall beside it.
Its run does not check for deadlock because a failed assertion stops the
machine. A screen of 2 by 2 has a last column, a last row and a scroll within
two items; 5-bit words have a smallest int (-16) whose numeral takes all of the
digit buffer. The counts 258 and 772 have two different, unequal bytes each, so
that bytes of two counts cannot be mistaken for one. Boot does not check for
deadlock: a kernel that was not started by a multiboot loader halts.

Four runs show where the code does not do what its own comments say:

* ThreadTorn (`thread.c:355`; `thread.h:54`, "Synchronized internally"): a
  creator is preempted inside its insertion in the ready list, after it has
  loaded the head and before it stores the new one. Meanwhile the interrupt
  puts other threads at the head. The creator, running again, stores a head
  whose successor is the one it loaded: a thread that was inserted in between is
  ready and in no list.
* ReaperStale (`thread.c:142`; `thread.h:20`): `kfree()` in the timer interrupt
  blocks because another thread is in the allocator. The interrupt nested in
  the first stores its own stack pointer, and when the first goes on it
  switches away without storing it again: the thread's saved stack pointer
  names a frame that has been popped.
* KMallocReentered (`kmalloc.c:191`; `kmalloc.c:61`, "Lock access to free
  list", and `kmalloc.h:61`, "Synchronized internally"): the interrupted thread
  has the allocator's lock itself, and `kfree()` in its timer interrupt goes on,
  between a walk of that thread through the free list and the stores that
  follow. In the trace a `kfree()` has found its place at the end of the list,
  the interrupt frees two blocks, one of which goes behind that place, and the
  assertion that the place is still the end fails. The same may happen to
  `km_find()` and to `krealloc()` (`kmalloc.c:406`).
* PicCascade (`interrupt.c:302`; `interrupt.c:300`): the start-up mask unmasks
  line 0 rather than the cascade, so no slave line is ever served.
### Known limits of the code, described and not run

* A sleep across the wrap of `timer_ticks` ends at once (`thread.c:386`);
  SleepsLongEnoughUnlessWrapped exempts it.
* `condvar_wait()` with a recursively held mutex keeps it (`synch.c:217`).
* `blocked_on` (`thread.h:44`, "Pointer to synchronization primitive this thread
  is blocked on") still names a mutex taken long ago while the thread waits on a
  semaphore (`synch.c:74`, `:147`), and names the heap's lock in a waiter for a
  mutex or condition variable when `kfree()` in the interrupt has written it
  there. `thread_debug_synch_dependencies()` prints what it says.
* `io_serial_nextinb()` waits its whole time-out even if a byte is there
  (`io.c:83`, against `io.h:167`): no property asks for that, and
  NoEarlyTimeoutUnlessWrapped is about calls that return without a byte.
* KMalloc represents an interrupt in the middle of a walk, or in the middle of
  the stores that follow it, by one between the two. What becomes of a free list
  that was disturbed is not claimed, beyond that the heap stays in RAM; when a
  call is to store into a block that has been merged away meanwhile the model
  stops (`heap.halt = "stale"`).
* The statistics are changed by `+=` on memory (`kmalloc.c:322`, `:451`), which is
  one instruction only if the compiler makes it one; in KMalloc it is.
* A request near the largest `size_t` wraps and gets one header
  (`kmalloc.c:313`), and `nelems * elemsize` is not checked (`kmalloc.c:340`).
* `krealloc()` in place does not enter the difference in the statistics
  (`kmalloc.c:383`, `:412`): the leak check of `kmalloc_test.c` would fail.
* `pic_read_isr()` swaps the two bytes (`interrupt.c:231`, `:254`): with a
  device on line 7 a real interrupt looks spurious. There is none.
* Near the wrap of the counter `io_serial_nextinb()` can skip its wait, or miss
  its end for another turn (`io.c:83`).
* Two creators can be given the same tid (`thread.c:290`).
* `thread_get_by_tid()` follows NULL when there is no such thread
  (`thread.c:483`).
* A thread that exits and blocks in the handler comes back from
  `thread_exit()` (`thread.c:246`).
* The cursor of the terminal is not protected, and `terminal.h` does not say
  that it is.
* `timer.h:15` speaks of 10 ms per tick; the reload value makes it 1 ms.
* `SegmentDC_ConformLoose` is 0 (`gdt.h:45`), and the TSS limit is given with
  page granularity (`gdt.c:141`): neither is ever used.

### Fairness

FairSpec of Synch (FairClockSpec of SleepClock) asks for weak fairness of the timer interrupt, which the PIT
raises for ever (mode 3) and which is enabled whenever interrupts are, and of
`MutexGranted`, the few instructions a resumed thread executes with interrupts
still disabled. Nothing is asked of clients: a thread may hold a mutex for
ever, and ReadyRuns holds all the same. FairSpec of Pic asks that the processor
takes a pending interrupt when interrupts are enabled (an acknowledge cycle of
either kind) and that handlers return; no fairness is asked of devices.
DriverServed is refuted under the same fairness, with the request pending for
ever.

FairSpec of Serial asks for weak fairness of the timer, and for strong fairness
of the steps of each thread inside a call: a thread that gets the processor
again and again executes instructions again and again, however the timer
falls. It asks nothing of clients outside of calls or of the line. FairSpec of
Boot asks that the processor executes (weak), that it takes interrupts it is
offered again and again (strong: the offer is withdrawn whenever interrupts are
disabled), and that the PIT goes on raising line 0 (weak). TicksForever exempts a
kernel that returned to `_start` because its loader's magic number was wrong.

## Proofs

**SynchProofs** proves, for every finite set of threads, all sets of
semaphores, mutexes and condition variables and every word size:

* `TypeCorrect`: `Spec => []TypeOK`
* `NeverPanics`: `Spec => []NoPanic`
* `AlwaysLinkedOnce`: `Spec => []LinkedOnce`
* `CountAlwaysQueueLength`: `Spec => []CountIsQueueLength`
* `AlwaysMutualExclusion`: `Spec => []MutualExclusion`

They follow from one inductive invariant, `IInv` (end of module Synch). None of
the properties is inductive alone. LinkedOnce needs to know that the thread on
the processor is running or just about to sleep (`CurrentOK`), otherwise the
switch could put it in two lists. NoPanic needs LinkedOnce: the assertions ask
that a thread found in a list has the matching status. MutualExclusion needs to
know that the mutex has at most one *owner*, which is the holder, or a thread
whose `semaphore_down()` has succeeded and that has yet to write the holder
field (`Owns`), and that there is one exactly when the count is not positive
(`OwnerOK`); that in turn needs the count to be the length of the queue, and a
queued thread to be one that continues inside `mutex_acquire()` of that very
mutex (`WaitersOK`).

The parts about lists take the statuses and the ready list as parameters,
because `isr_IRQ0` begins in the middle of an operation. One lemma about
`isr_IRQ0` says: if the lists agree with the statuses on entry, they agree
after the switch. The lemma for each action brings its operation to that point.
`ListLemmas` has the facts about appending, reversing, removing and reordering
sequences without repetition.

**SynchRefinement** proves `MutexRefinesFifoLock`:
`Spec => ImplementsFifoLock`. The line of a mutex is its owner followed by its
wait queue. `LineFacts`, which follows from `IInv`, says what the refinement
mapping yields in each state; then every action is shown to map to a step of
FifoLock or to a stutter. A `mutex_release()` that hands the mutex to a waiter
is the abstract release; the waiter's own write of the holder field, which may
come much later, is the abstract entry.

**SynchOrderProofs** proves two action properties on top of `IInv`:

* `RoundRobin`: `Spec => NoOvertaking`. Pushing at the head of the ready list,
  taking its tail, and `isr_IRQ0` doing both and waking sleepers in between,
  leave the order of those already in it.
* `NeverWokenEarly`: `ClockSpec => SleepsLongEnoughUnlessWrapped`. The
  invariant `ClockOK` relates the absolute wake-up time that the code compares
  with `timer_ticks` to the count of interrupts still to come.

**ThreadCreateProofs** proves, for any number of threads, and whatever is
created, exits, waits and is counted between two stores of a call:

* `CreateTypes`: `Spec => [](overlap.torn = {} => TypeOK)`
* `ListsSound`: `Spec => [](overlap.torn = {} => ListsSoundUnlessTorn)`
* `NeverHalts`: `Spec => []NoHaltUnlessTorn`
* `CountsExact`: `Spec => [](overlap.torn = {} => WalksExact)`
* `TidsUnique`: `Spec => [](overlap.torn = {} => TidsDistinctUnlessRaced)`

The condition `overlap.torn = {}` is the state constraint of the run
(`Intact`). It cannot be left out: once a list has been torn, an interrupt that
follows its pointers can spoil lists in which nothing was under way, and without
the constraint TLC finds such a state (the run ThreadTorn is how it begins).
`NoHaltUnlessTorn` has the condition in itself.

The inductive invariant `IInv` says that, unless a list is torn, nothing has
halted and `Inv` holds. Soundness of the lists is far from inductive. In the
middle of an insertion the old head already points back to a thread that is not
in the list (`Storing`), so the pointers are as they should be only between
insertions, and what each insertion has loaded and stored must be known
(`AddOK`). An insertion goes on with the head it has loaded: that this is still
the head needs the mutex against other creators (`MutexOK`) and the history
against the interrupt. What is inserted must not be linked yet, nor be freed
or given to another creator meanwhile (`FreshOK`). The interrupt needs the
statuses to be what the lists say, and the thread it interrupts to be the only
running one (`StatusOK`); it frees dead threads, so those must be in no call
(`CallsOK`). A query needs the same mutex, and that it has not passed the
thread it seeks (`WalkOK`).

A list is described by the walk from its head, which is a recursive function;
that it ends, that it meets each thread once, and what `thread_list_add()` and
`thread_list_remove()` make of it, is proved by looking at the least place at
which it would fail. On top of that one lemma says what `isr_IRQ0()` does to
sound lists, another what giving a mutex away does, and there is one for each
load and store. TLC checked `IInv` on the instance of the run ThreadCreate
before it was proved.

**SerialProofs** proves, for any number of threads that print and read, any
length of text, size of the receive buffer, time-out and word size:

* `SerialTypeCorrect`: `Spec => []TypeOK`
* `TextsNotTorn`: `Spec => SynchronizedNotTorn`
* `BytesGenuine`: `Spec => ReadsGenuine`
* `TimeoutNotEarly`: `Spec => NoEarlyTimeoutUnlessWrapped`

from the inductive invariant `IInv` of that module. Its parts: every thread is
in exactly one place, on the processor, in the ready list or in line for the
lock (`Queues`), since otherwise one release could let two threads go on; the
lock's owner and waiters are exactly the threads inside a synchronized call,
waiters have not begun theirs, and a text with characters still to come is the
owner's, who sends the next one (`LockOK`); the buffer holds increasing bytes
newer than the last one read, and is not empty for a reader that has seen a
byte in it (`BufferOK`, which is where the two port accesses of a reader need
the lock); and the ticks a reader has waited, with those left until its end
time, make up the time-out unless the end time wrapped (`Watches`).

**KMallocProofs** proves, for every alignment, page size, memory map, set of
values and number of blocks:

* `HeapTypeCorrect`: `Spec => []TypeOK`
* `NoAssertFails`: `Spec => []NoAssert`
* `HeapNeverTorn`: `Spec => []BlocksTile`
* `HeapStaysInRam`: `Spec => []HeapInRam`
* `FreeListMerged`: `Spec => []FreeListCoalesced`
* `ContentsSurvive`: `Spec => []ContentsKept`
* `BlocksLargeEnough`: `Spec => []AtLeastAsked`

All but `HeapStaysInRam` have the hypothesis `SizesFit` (module KMalloc): no sum
computed from a client's size overflows. It is needed: `kmalloc.c:313` and
`:340` do not check for it, and the block given for a size that wraps is too
small. MCKMalloc has TLC evaluate it on the run's sizes. And their properties
claim nothing from the moment on at which the interrupt has come between a walk
and its stores; that it comes anywhere else, between the removal of a block and
its marking or between the copying and the freeing of `krealloc()`, does no
harm, and this is the larger part of the proof. `HeapStaysInRam` has no such
exception. It rests on `MapAssumption`: the kernel is in available memory, and
its region is listed before any above the last address. Without that order the
search would stop at a region whose low 32 bits look right.

The six follow from one inductive invariant, `IInv` (module KMallocProofs). Its
first part is about the heap: the blocks that clients have, those of the free
list and the one that a call has taken out or is to put back (`Pends`) tile the
heap, only the first are marked, the list is sorted and merged, and every block
holds what its client's record says (`Tiles`, `HeapOK`, `Entry`, `Agrees`). The
second (`CallOK`) says, for each step that a call can be at, what it relies on
from the steps before: that the block found is still in the list, behind the
neighbour that was found with it (`Found`), that the remainder has its header
inside the block it is cut from (`Cutting`), that the place is still the place
(`Between`). None of the properties is inductive alone. That contents are kept
needs the tiling, since otherwise a header could be written into a payload; the
tiling needs the free list sorted and merged, since `km_insert()` looks only at
the two neighbours in the list; the assertion of `krealloc()` that finds
the free block behind the one it grows needs the tiling again, because what is
there is known to be a header only by it; and that the interrupt's `kfree()`
does not merge a block that was taken and not yet marked needs the pending block
in the tiling.

The proof goes up in layers. Inserting, removing and merging in a chain of
intervals is done without memory. For the free list these become facts about
the headers in memory and the bytes the list covers, for the whole heap facts
about tilings: a block leaves the list, goes to it, is added at the end, is
joined with the next, is cut in two. Each says which blocks it leaves alone, to
the last word (`Keeps`), so that the steps of the calls are compositions of
these facts, and so that what a call has found out survives the interrupt.
`HeapStaysInRam` has an invariant of its own, `RamInv`, which is about the end
of the heap and the sizes that calls ask for only.

**PicProofs** proves `PicTypeCorrect` for all lines, and `ServiceAlwaysEnds`
(`Spec => []ServiceEnds`) under the assumption that no device is on line 7 or
15. The assumption is needed: on line 7 the
byte swap of `pic_read_isr()` makes a real interrupt look spurious, and it is
never ended. The
inductive invariant `InService` says which lines are in service for each
handler that can be running.

The assumptions the proofs use are `ThreadsAssumption`, `WordAssumption`,
`SynchAssumption`, `CreateAssumption`, `SerialAssumption`, `HeapAssumption`, `MapAssumption` and
`LinesAssumption`; the other modules have assumptions of the same kind, and TLC
evaluates all of them. `HeapAssumption` has the divisibility of the sizes that
`kmalloc.h` and `kmalloc.c` define, room for the first page behind the kernel,
and that a header can be told from a client's value, which is what the magic
number in its padding is for.

Only model-checked: the liveness properties (ReadyRuns, HandedOverIsTaken,
SleepersWake, TimerServed, CallsReturn, TicksForever), because liveness under
fairness and ENABLED are beyond the prover; BytesCounted, whose sum over the
blocks is a fold and would need induction over it; the conversions and the
terminal, where what is meant by a numeral or a format is an induction over
digits and texts; and the boot, whose instance is almost the machine itself:
two threads and the lines they use, with only reload values and counts as
parameters.

## Not modelled

* The keyboard driver is a stub without code.
* The string library: sequential copies and comparisons without shared state.
* The in-kernel unit tests. What their leak check relies on is BytesCounted.
* `thread_debug_synch_dependencies()` and the other debug output: they print
  and change nothing. What the first follows may be stale (see the known limits).
* `pic_read_irr()`, which nothing calls, the values that the initialization of
  the serial port writes for speed and framing, and the fields of the multiboot
  information other than the memory map and the magic number.

## Plan

What the plan had is done. Left for later: theorems about the boot, of which
ContextKept (a thread finds its registers again after an interrupt) says most.
