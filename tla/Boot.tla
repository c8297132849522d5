-------------------------------- MODULE Boot --------------------------------
(***************************************************************************)
(* From the boot loader to the running system: _start and kernel_main()    *)
(* (bootasm.s, kernel.c), the descriptor tables (gdt.c, gdtasm.s, the end  *)
(* of interrupt.c), the programming of the interrupt controllers and of    *)
(* the timer chip (interrupt.c, timer.c), the first frame of a thread and  *)
(* the entry and the exit of an interrupt (thread.c, interruptasm.s).      *)
(*                                                                         *)
(* A word of the machine is the set of its bits that are 1. A function of  *)
(* the kernel is the sequence of the instructions by which it meets the    *)
(* hardware or another component; eip is what is left to execute. Memory   *)
(* that only the kernel sees is filled in one step. Processor and chips    *)
(* are external.                                                           *)
(*                                                                         *)
(* When the kernel is up, Main and a thread it creates call the timer's    *)
(* functions and change the mask of one line each.                         *)
(***************************************************************************)
EXTENDS Integers, Sequences, FiniteSets, FiniteSetsExt, TLC

CONSTANTS Main, T,     \* the boot thread, and the thread it creates
          MainLine, TLine, \* the line whose mask each of the two changes;
                           \* the device at MainLine raises its line
          Reloads,     \* bound: the values passed to timer_set_reload()
          Counts,      \* bound: what the timer chip may have counted down to
          NULL

Threads == {Main, T}
Line(t) == IF t = Main THEN MainLine ELSE TLine

ASSUME BootAssumption ==
    /\ Main # T /\ MainLine # TLine /\ {MainLine, TLine} \subseteq {1, 3, 4, 5, 6}
    /\ Reloads \cup Counts \subseteq 0..65535
    /\ NULL \notin Threads

VARIABLES cpu,      \* eip, eflags, segment and general registers; tr, gdtr and idtr
          halt,     \* why the processor has stopped: "no", "panic", "fault", "return"
          pic,      \* the two chips: offset, stage, imr, irr, isr
          pit,      \* channel 0: mode, low byte, reload value, latch, byte order
          done,     \* the tables that are filled, the components that are initialised
          current_thread, ready_threads,
          stack,    \* of each thread, from its base to its esp
          count     \* what timer_read_count() has returned last

vars == <<cpu, halt, pic, pit, done, current_thread, ready_threads, stack, count>>
kernelVars == <<done, current_thread, ready_threads, stack, count>>

-----------------------------------------------------------------------------
(* Words *)

Bits(n) == {b \in 0..15 : (n \div 2^b) % 2 = 1}
Value(w) == MapThenSumSet(LAMBDA b : 2^b, w)
Shl(w, n) == {b + n : b \in w}
Shr(w, n) == {b - n : b \in {c \in w : c >= n}}
Byte == 0..7

EFLAGS_IF == 9
EFLAGS_DEFAULT == {1, EFLAGS_IF}
Enabled == EFLAGS_IF \in cpu.eflags

GPRs == {"eax", "ecx", "edx", "ebx", "ebp", "esi", "edi"}
DataSegs == {"ds", "es", "fs", "gs"}

-----------------------------------------------------------------------------
(* Segment descriptors and gates *)

SegmentNull == 0
SegmentKernelCode == 1
SegmentKernelData == 2
SegmentUserCode == 3
SegmentUserData == 4
SegmentTaskState == 5

TableIndex_GDT == 0
SystemSegmentType_32bit_Available == 9
InterruptType_32bit_Interrupt == 14

segselector_init(segment, table_index, privilege) ==
    Bits(privilege) \cup Shl(Bits(table_index), 2) \cup Shl(Bits(segment), 3)

\* dc and accessed are 0 throughout: SegmentDC_ConformLoose is 0 as well.
gdt_initseg_access(present, dpl, executable, rw) ==
    Shl(Bits(present), 7) \cup Shl(Bits(dpl), 5) \cup {4} \cup Shl(Bits(executable), 3) \cup Shl(Bits(rw), 1)

gdt_initsyseg_access(present, dpl, type) == Shl(Bits(present), 7) \cup Shl(Bits(dpl), 5) \cup Bits(type)

gdt_init_flags(g, size) == Shl(Bits(g), 3) \cup (IF size = 2 THEN {1} ELSE Shl(Bits(size), 2))

gdt_insert(seg) ==
    << (seg.limit \cap (0..15)) \cup Shl(seg.base \cap (0..15), 16),
       (Shr(seg.base, 16) \cap Byte) \cup Shl(seg.access \cap Byte, 8) \cup (seg.limit \cap (16..19))
         \cup Shl(seg.flags \cap (0..3), 20) \cup (seg.base \cap (24..31)) >>

\* Where the linker has put the task state, and sizeof (tss) - 1.
TssBase == {5, 13, 16, 20}
TssLimit == Bits(103)

Flat(dpl, executable) ==
    gdt_insert([base |-> {}, limit |-> 0..19, access |-> gdt_initseg_access(1, dpl, executable, 1),
                flags |-> gdt_init_flags(1, 1)])

gdt ==
    [s \in 0..5 |->
       CASE s = SegmentNull       -> <<{}, {}>>
         [] s = SegmentKernelCode -> Flat(0, 1)
         [] s = SegmentKernelData -> Flat(0, 0)
         [] s = SegmentUserCode   -> Flat(3, 1)
         [] s = SegmentUserData   -> Flat(3, 0)
         [] s = SegmentTaskState  ->
              gdt_insert([base |-> TssBase, limit |-> TssLimit,
                          access |-> gdt_initsyseg_access(1, 0, SystemSegmentType_32bit_Available),
                          flags |-> gdt_init_flags(1, 1)])]

\* The address of the entry point that reports interrupt number n.
Isr(n) == Shl(Bits(n), 12) \cup {4, 20}
ISR_ERR == 255
ISR_IRQ0 == 32
ISR_SYS == 128

fill_entry(offset, selector, type, privilege, present) ==
    << (offset \cap (0..15)) \cup Shl(selector, 16),
       Shl(Bits(type) \cap (0..3), 8) \cup Shl(Bits(privilege) \cap {0, 1}, 13) \cup Shl(Bits(present), 15)
         \cup (offset \cap (16..31)) >>

KernelCode == segselector_init(SegmentKernelCode, TableIndex_GDT, 0)
KernelData == segselector_init(SegmentKernelData, TableIndex_GDT, 0)

fill_interrupt(n) == fill_entry(Isr(n), KernelCode, InterruptType_32bit_Interrupt, 0, 1)

\* The exceptions and interrupts that have an entry point of their own.
Named == (0..14) \cup (16..21) \cup (28..30) \cup (32..47)

idt ==
    [v \in 0..255 |->
       IF v = ISR_SYS THEN fill_entry(Isr(ISR_SYS), KernelCode, InterruptType_32bit_Interrupt, 3, 1)
       ELSE IF v \in Named THEN fill_interrupt(v) ELSE fill_interrupt(ISR_ERR)]

-----------------------------------------------------------------------------
(* How the processor reads them *)

Descriptor(selector) == gdt[Value(Shr(selector, 3))]
Base(d) == Shr(d[1], 16) \cup Shl(d[2] \cap Byte, 16) \cup (d[2] \cap (24..31))
Limit(d) == (d[1] \cap (0..15)) \cup (d[2] \cap (16..19))
Access(d) == Shr(d[2], 8) \cap Byte
Flags(d) == Shr(d[2], 20) \cap (0..3)
Ring(d) == Shr(Access(d), 5) \cap {0, 1}

\* In ring 0: a present segment of that ring that can be executed, or written.
IsKernelSegment(selector, kind) ==
    LET access == Access(Descriptor(selector))
    IN  /\ {1, 4, 7} \subseteq access
        /\ Ring(Descriptor(selector)) = {}
        /\ (3 \in access) = (kind = "code")

Loadable(selector, kind) == cpu.gdtr /\ "gdt" \in done /\ IsKernelSegment(selector, kind)

\* The numbers of the entry points that interrupt vector v leads to.
EntryPoint ==
    [v \in 0..255 |->
       {n \in 0..255 : /\ 15 \in idt[v][2]
                       /\ Shr(idt[v][2], 8) \cap (0..3) = Bits(InterruptType_32bit_Interrupt)
                       /\ IsKernelSegment(Shr(idt[v][1], 16), "code")
                       /\ (idt[v][1] \cap (0..15)) \cup (idt[v][2] \cap (16..31)) = Isr(n)}]

\* Empty if the processor faults on the way.
Entered(v) == IF cpu.gdtr /\ cpu.idtr /\ {"gdt", "idt"} \subseteq done THEN EntryPoint[v] ELSE {}

-----------------------------------------------------------------------------
(* The kernel's functions *)

PIC1_COMMAND == 32
PIC1_DATA == 33
PIC2_COMMAND == 160
PIC2_DATA == 161
CHANNEL0_DATA_PORT == 64
COMMAND_PORT == 67

Out(port, w) == <<"out", port, w>>
In(port) == <<"in", port>>
Op(name) == <<name>>
Initialise(component) == <<"init", component>>
Use(component) == <<"use", component>>

io_serial_init == <<Initialise("serial")>>

gdt_init == <<Initialise("gdt"), Op("lgdt"), Op("reload_segments"), Op("ltr")>>

\* ICW1 (with ICW4), ICW2, ICW3, ICW4 (8086 mode) and the masks, to both chips.
pic_remap(offset1, offset2) ==
    << Out(PIC1_COMMAND, {0, 4}), Out(PIC2_COMMAND, {0, 4}),
       Out(PIC1_DATA, Bits(offset1)), Out(PIC2_DATA, Bits(offset2)),
       Out(PIC1_DATA, {2}), Out(PIC2_DATA, Bits(2)),
       Out(PIC1_DATA, {0}), Out(PIC2_DATA, {0}),
       Out(PIC1_DATA, 1..7), Out(PIC2_DATA, 0..7) >>

idt_init == <<Initialise("idt"), Op("lidt")>> \o pic_remap(32, 40)

\* The lines here are the master's. The byte read is in eax.
irq_set_mask(l) == <<Op("disable"), In(PIC1_DATA), <<"out or", PIC1_DATA, {l}>>, Op("restore")>>

\* Mutant: interrupts stay enabled between the read and the write.
irq_clear_mask_enabled(l) == <<In(PIC1_DATA), <<"out and not", PIC1_DATA, {l}>>>>

irq_clear_mask(l) ==
    <<Op("disable"), In(PIC1_DATA), <<"out and not", PIC1_DATA, {l}>>, Op("restore")>>

command_init(channel, access, mode, encoding) ==
    Shl(Bits(channel), 6) \cup Shl(Bits(access), 4) \cup Shl(Bits(mode), 1) \cup Bits(encoding)

\* AccessMode_BothBytes, OperatingMode_Mode3, EncodingMode_Binary.
SetReload(w) ==
    << Out(COMMAND_PORT, command_init(0, 3, 3, 0)),
       Out(CHANNEL0_DATA_PORT, w \cap Byte), Out(CHANNEL0_DATA_PORT, Shr(w, 8) \cap Byte) >>

\* PIT_CLOCK_HZ / TIMER_FREQ_HZ
Divisor == 1193182 \div 1000

timer_init ==
    <<Op("disable")>> \o SetReload(Bits(Divisor)) \o irq_clear_mask(0) \o <<Op("restore")>>

\* Mutant: interrupts stay enabled between the two bytes.
timer_set_reload_enabled(n) == SetReload(Bits(n))

timer_set_reload(n) == <<Op("disable")>> \o SetReload(Bits(n)) \o <<Op("restore")>>

\* AccessMode_LatchCount. The compiler evaluates the operands of | from left
\* to right: the first byte read is the lower one.
timer_read_count ==
    << Op("disable"), Out(COMMAND_PORT, command_init(0, 0, 0, 0)),
       In(CHANNEL0_DATA_PORT), Op("push"), In(CHANNEL0_DATA_PORT), Op("join"), Op("restore") >>

thread_main_init == <<Use("heap"), Initialise("threads")>>

\* Mutant: the timer is started, and interrupts enabled, before there are threads.
kernel_main_early ==
    io_serial_init \o gdt_init \o idt_init \o <<Initialise("heap"), Initialise("terminal")>>
    \o timer_init \o <<Op("sti")>> \o thread_main_init
    \o <<Op("printf"), Use("terminal"), Op("assert disable"), Op("assert enable"), Op("unit_tests"), Op("printf")>>

kernel_main ==
    io_serial_init \o gdt_init \o idt_init \o <<Initialise("heap"), Initialise("terminal")>>
    \o timer_init \o thread_main_init
    \o <<Op("sti"), Op("printf"), Use("terminal"), Op("assert disable"), Op("assert enable"),
         Op("unit_tests"), Op("printf")>>

cpu_idle_loop == <<Op("sti"), Op("hlt"), Op("cli"), Op("int")>>

-----------------------------------------------------------------------------
(* The chips *)

Chip(port) == IF port \in {PIC1_COMMAND, PIC1_DATA} THEN "master" ELSE "slave"

\* A word with bit 4 on the command port starts the initialisation, three
\* words follow on the data port; later words there are masks.
PicOut(port, w) ==
    pic' = [pic EXCEPT ![Chip(port)] =
       IF port \in {PIC1_COMMAND, PIC2_COMMAND}
       THEN [@ EXCEPT !.stage = 2, !.imr = {}, !.irr = {}, !.isr = {}]
       ELSE CASE @.stage = 2 -> [@ EXCEPT !.offset = w, !.stage = 3]
              [] @.stage = 3 -> [@ EXCEPT !.stage = 4]
              [] @.stage = 4 -> [@ EXCEPT !.stage = 0]
              [] @.stage = 0 -> [@ EXCEPT !.imr = w]]

\* A command either latches the count, unless a latched one is still unread,
\* or prepares the channel for a reload value.
PitOut(port, w) ==
    IF port = COMMAND_PORT
    THEN IF w \cap {4, 5} = {}
         THEN \E n \in Counts : pit' = [pit EXCEPT !.latch = IF @ = NULL THEN Bits(n) ELSE @]
         ELSE pit' = [pit EXCEPT !.mode = Shr(w, 1) \cap (0..2), !.write = "low", !.read = "low", !.latch = NULL]
    ELSE IF pit.write = "low" THEN pit' = [pit EXCEPT !.low = w, !.write = "high"]
    ELSE pit' = [pit EXCEPT !.reload = pit.low \cup Shl(w, 8), !.low = {}, !.write = "low"]

\* The byte that the channel gives, of the latched or else of the running count.
PitByte(w) == IF pit.read = "low" THEN w \cap Byte ELSE Shr(w, 8) \cap Byte

\* The line that the master signals to the processor.
Signalled ==
    LET chip == pic["master"]
        urgent == {l \in chip.irr \ chip.imr : \A s \in chip.isr : l < s}
    IN  {l \in urgent : chip.stage = 0 /\ \A k \in urgent : l <= k}

Raise(l) ==
    /\ l \notin pic["master"].irr
    /\ pic' = [pic EXCEPT !["master"].irr = @ \cup {l}]
    /\ UNCHANGED <<cpu, halt, pit, kernelVars>>

-----------------------------------------------------------------------------
(* Execution. Each action executes the instruction at eip. *)

At(op) ==
    /\ halt = "no"
    /\ cpu.eip # <<>>
    /\ Head(cpu.eip)[1] = op

Arg(i) == Head(cpu.eip)[i]
Step(c) == cpu' = [c EXCEPT !.eip = Tail(@)]
Stop(why) == halt' = why /\ UNCHANGED <<cpu, pic, pit, done, current_thread, ready_threads, stack, count>>

\* _start: interrupts are disabled before kernel_main() is called, and again
\* when it returns.
Start(magic) ==
    /\ At("_start")
    /\ cpu' = [cpu EXCEPT !.eip = IF magic THEN kernel_main ELSE <<>>, !.eflags = @ \ {EFLAGS_IF}]
    /\ halt' = IF magic THEN "no" ELSE "return"
    /\ UNCHANGED <<pic, pit, kernelVars>>

\* gdtr_init() and idtr_init()
LoadTables ==
    /\ \/ At("lgdt") /\ Step([cpu EXCEPT !.gdtr = TRUE])
       \/ At("lidt") /\ Step([cpu EXCEPT !.idtr = TRUE])
    /\ UNCHANGED <<halt, pic, pit, kernelVars>>

reload_segments ==
    /\ At("reload_segments")
    /\ IF Loadable({3}, "code") /\ Loadable({4}, "data")
       THEN /\ Step([cpu EXCEPT !.cs = {3}, !.seg = [s \in DataSegs |-> {4}]])
            /\ UNCHANGED <<halt, pic, pit, kernelVars>>
       ELSE Stop("fault")

tss_flush ==
    LET selector == segselector_init(SegmentTaskState, TableIndex_GDT, 0)
    IN  /\ At("ltr")
        /\ IF /\ cpu.gdtr /\ "gdt" \in done
              /\ Access(Descriptor(selector)) = Bits(128 + SystemSegmentType_32bit_Available)
           THEN Step([cpu EXCEPT !.tr = selector]) /\ UNCHANGED <<halt, pic, pit, kernelVars>>
           ELSE Stop("fault")

io_outb ==
    /\ At("out")
    /\ IF Arg(2) \in {COMMAND_PORT, CHANNEL0_DATA_PORT}
       THEN PitOut(Arg(2), Arg(3)) /\ pic' = pic
       ELSE PicOut(Arg(2), Arg(3)) /\ pit' = pit
    /\ Step(cpu)
    /\ UNCHANGED <<halt, kernelVars>>

\* The mask of a chip, changed by one bit and written back.
WriteMask ==
    /\ \/ At("out or") /\ PicOut(Arg(2), cpu.gpr["eax"] \cup Arg(3))
       \/ At("out and not") /\ PicOut(Arg(2), cpu.gpr["eax"] \ Arg(3))
    /\ Step(cpu)
    /\ UNCHANGED <<halt, pit, kernelVars>>

io_inb ==
    /\ At("in")
    /\ \/ /\ Arg(2) = PIC1_DATA
          /\ Step([cpu EXCEPT !.gpr["eax"] = pic["master"].imr])
          /\ pit' = pit
       \/ /\ Arg(2) = CHANNEL0_DATA_PORT
          /\ \E w \in (IF pit.latch = NULL THEN {Bits(n) : n \in Counts} ELSE {pit.latch}) :
                Step([cpu EXCEPT !.gpr["eax"] = PitByte(w)])
          /\ pit' = [pit EXCEPT !.read = IF @ = "low" THEN "high" ELSE "low",
                                !.latch = IF pit.read = "low" THEN @ ELSE NULL]
    /\ UNCHANGED <<halt, pic, kernelVars>>

\* The two bytes of timer_read_count(), the first one kept on the stack.
JoinBytes ==
    /\ \/ /\ At("push")
          /\ stack' = [stack EXCEPT ![current_thread] = Append(@, cpu.gpr["eax"])]
          /\ count' = count
       \/ /\ At("join")
          /\ LET s == stack[current_thread]
             IN  /\ stack' = [stack EXCEPT ![current_thread] = SubSeq(s, 1, Len(s) - 1)]
                 /\ count' = s[Len(s)] \cup Shl(cpu.gpr["eax"], 8)
    /\ Step(cpu)
    /\ UNCHANGED <<halt, pic, pit, done, current_thread, ready_threads>>

\* The boot stack becomes the stack of the main thread.
Self == IF current_thread = NULL THEN Main ELSE current_thread

interrupt_disable ==
    /\ At("disable")
    /\ stack' = [stack EXCEPT ![Self] = Append(@, cpu.eflags \cap {EFLAGS_IF})]
    /\ Step([cpu EXCEPT !.eflags = @ \ {EFLAGS_IF}])
    /\ UNCHANGED <<halt, pic, pit, done, current_thread, ready_threads, count>>

\* The end of the function, whose caller does not rely on eax.
interrupt_restore ==
    /\ At("restore")
    /\ LET s == stack[Self]
       IN  /\ stack' = [stack EXCEPT ![Self] = SubSeq(s, 1, Len(s) - 1)]
           /\ Step([cpu EXCEPT !.eflags = (@ \ {EFLAGS_IF}) \cup s[Len(s)], !.gpr["eax"] = {}])
    /\ UNCHANGED <<halt, pic, pit, done, current_thread, ready_threads, count>>

SetFlag ==
    /\ \/ At("sti") /\ Step([cpu EXCEPT !.eflags = @ \cup {EFLAGS_IF}])
       \/ At("cli") /\ Step([cpu EXCEPT !.eflags = @ \ {EFLAGS_IF}])
    /\ UNCHANGED <<halt, pic, pit, kernelVars>>

\* kernel_main() checks that interrupts are enabled, disables and enables them.
AssertFlag ==
    \/ /\ At("assert disable")
       /\ IF Enabled THEN /\ Step([cpu EXCEPT !.eflags = @ \ {EFLAGS_IF}])
                          /\ UNCHANGED <<halt, pic, pit, kernelVars>>
          ELSE Stop("panic")
    \/ /\ At("assert enable")
       /\ IF ~Enabled THEN /\ Step([cpu EXCEPT !.eflags = @ \cup {EFLAGS_IF}])
                           /\ UNCHANGED <<halt, pic, pit, kernelVars>>
          ELSE Stop("panic")

\* A table is filled, or a component has been initialised.
InitComponent ==
    /\ At("init")
    /\ done' = done \cup {Arg(2)}
    /\ current_thread' = IF Arg(2) = "threads" THEN Main ELSE current_thread
    /\ Step(cpu)
    /\ UNCHANGED <<halt, pic, pit, ready_threads, stack, count>>

\* The allocation of the main thread needs a heap, terminal_printf() a screen.
UseComponent ==
    /\ At("use")
    /\ IF Arg(2) \in done THEN Step(cpu) /\ UNCHANGED <<halt, pic, pit, kernelVars>>
       ELSE Stop("fault")

\* printf() takes the lock of the port: interrupts are to be enabled, and
\* there is to be a current thread.
printf ==
    /\ At("printf")
    /\ IF {"serial", "threads"} \subseteq done /\ Enabled
       THEN Step(cpu) /\ UNCHANGED <<halt, pic, pit, kernelVars>>
       ELSE Stop("panic")

-----------------------------------------------------------------------------
(* Interrupts and threads *)

\* What the timer interrupt leaves on the stack of the thread it interrupts.
Frame(eip) ==
    LET r == cpu.gpr
        s == cpu.seg
    IN  << cpu.eflags, cpu.cs, eip, r["eax"], r["ecx"], r["edx"], r["ebx"], r["ebp"], r["esi"], r["edi"],
           s["ds"], s["es"], s["fs"], s["gs"] >>

\* What internal_thread_init() puts there for a thread that has not run: the
\* argument and the address of thread_exit(), and a frame, in its own order.
NewStack(entry) ==
    << {}, {0} >> \o << EFLAGS_DEFAULT, KernelCode, entry, {}, {}, {}, {}, {}, {}, {},
                        KernelData, KernelData, KernelData, KernelData >>

\* Mutant: ebp and esi are swapped.
Restored_swapped(s) ==
    LET n == Len(s)
    IN  [cpu EXCEPT !.seg = ("gs" :> s[n] @@ "fs" :> s[n-1] @@ "es" :> s[n-2] @@ "ds" :> s[n-3]),
                    !.gpr = ("edi" :> s[n-4] @@ "ebp" :> s[n-5] @@ "esi" :> s[n-6] @@ "ebx" :> s[n-7]
                             @@ "edx" :> s[n-8] @@ "ecx" :> s[n-9] @@ "eax" :> s[n-10]),
                    !.eip = s[n-11], !.cs = s[n-12], !.eflags = s[n-13]]

\* The registers that isr_IRQ0 takes from the stack of the next thread.
Restored(s) ==
    LET n == Len(s)
    IN  [cpu EXCEPT !.seg = ("gs" :> s[n] @@ "fs" :> s[n-1] @@ "es" :> s[n-2] @@ "ds" :> s[n-3]),
                    !.gpr = ("edi" :> s[n-4] @@ "esi" :> s[n-5] @@ "ebp" :> s[n-6] @@ "ebx" :> s[n-7]
                             @@ "edx" :> s[n-8] @@ "ecx" :> s[n-9] @@ "eax" :> s[n-10]),
                    !.eip = s[n-11], !.cs = s[n-12], !.eflags = s[n-13]]

\* An end of interrupt for the master: its most urgent line in service.
EndOfInterrupt(service) == {l \in service : \E k \in service : k < l}

\* Mutant: the interrupt is not ended.
isr_IRQ0_no_eoi(eip, chip) ==
    LET next   == IF ready_threads = <<>> THEN current_thread ELSE Head(ready_threads)
        stacks == [stack EXCEPT ![current_thread] = @ \o Frame(eip)]
    IN  /\ stack' = [stacks EXCEPT ![next] = SubSeq(@, 1, Len(@) - 14)]
        /\ cpu' = Restored(stacks[next])
        /\ pic' = [pic EXCEPT !["master"] = chip]
        /\ current_thread' = next
        /\ ready_threads' = IF ready_threads = <<>> THEN <<>> ELSE Append(Tail(ready_threads), current_thread)
        /\ UNCHANGED <<halt, pit, done, count>>

\* The next thread is the one that has been ready longest, or the same one.
isr_IRQ0(eip, chip) ==
    LET next   == IF ready_threads = <<>> THEN current_thread ELSE Head(ready_threads)
        stacks == [stack EXCEPT ![current_thread] = @ \o Frame(eip)]
        after  == Restored(stacks[next])
    IN  IF Loadable(after.cs, "code") /\ \A s \in DataSegs : Loadable(after.seg[s], "data")
        THEN /\ stack' = [stacks EXCEPT ![next] = SubSeq(@, 1, Len(@) - 14)]
             /\ cpu' = after
             /\ pic' = [pic EXCEPT !["master"] = [chip EXCEPT !.isr = EndOfInterrupt(@)]]
             /\ current_thread' = next
             /\ ready_threads' = IF ready_threads = <<>> THEN <<>>
                                 ELSE Append(Tail(ready_threads), current_thread)
             /\ UNCHANGED <<halt, pit, done, count>>
        ELSE Stop("fault")

\* A request that the chip withdrew: only lines 7 and 15. pic_read_isr() has the slave's
\* lines in bits 0 to 7 and the master's above them.
pic_check_spurious(irq, chip) == irq \in {7, 15} /\ irq \notin Shl(chip.isr, 8) \cup pic["slave"].isr

\* isr_wrapper, interrupt_handler() and irq_handler(): the registers are saved and
\* restored, and lines 1 to 15 acknowledged. Other numbers are a panic.
isr_wrapper(n, chip) ==
    LET irq      == n - 32
        spurious == pic_check_spurious(irq, chip)
    IN  IF irq \in 1..15
        THEN /\ pic' = [pic EXCEPT
                  !["master"] = IF spurious /\ irq = 7 THEN chip
                                ELSE [chip EXCEPT !.isr = EndOfInterrupt(@)],
                  !["slave"].isr = IF irq >= 8 /\ ~spurious THEN EndOfInterrupt(@) ELSE @]
             /\ UNCHANGED <<cpu, halt, pit, kernelVars>>
        ELSE Stop("panic")

\* Interrupt number n is entered; the processor goes on at eip. Without a
\* current thread the timer interrupt works on the memory at address 0.
Dispatch(n, eip, chip) ==
    IF n # ISR_IRQ0 THEN isr_wrapper(n, chip)
    ELSE IF current_thread = NULL THEN Stop("fault")
    ELSE isr_IRQ0(eip, chip)

\* The processor acknowledges a request before the instruction at eip, or
\* while it is halted.
Interrupt ==
    /\ halt = "no" /\ Enabled
    /\ \E l \in Signalled :
          LET chip    == [pic["master"] EXCEPT !.irr = @ \ {l}, !.isr = @ \cup {l}]
              entered == Entered(Value(chip.offset) + l)
              eip     == IF At("hlt") THEN Tail(cpu.eip) ELSE cpu.eip
          IN  IF entered = {} THEN Stop("fault")
              ELSE \E n \in entered : Dispatch(n, eip, chip)

thread_yield ==
    /\ At("int")
    /\ IF Entered(ISR_IRQ0) = {} THEN Stop("fault")
       ELSE \E n \in Entered(ISR_IRQ0) : Dispatch(n, Tail(cpu.eip), pic["master"])

\* unit_tests(): the main thread creates a thread and calls the functions of
\* the timer and of the interrupt controller, as the new thread does.
CreateThread ==
    /\ At("unit_tests")
    /\ stack[T] = <<>> /\ ready_threads = <<>> /\ current_thread = Main
    /\ stack' = [stack EXCEPT ![T] = NewStack(<<>>)]
    /\ ready_threads' = <<T>>
    /\ UNCHANGED <<cpu, halt, pic, pit, done, current_thread, count>>

AtClient == halt = "no" /\ IF current_thread = T THEN cpu.eip = <<>> ELSE At("unit_tests")

Call ==
    /\ AtClient
    /\ \E body \in {timer_set_reload(n) : n \in Reloads} \cup
                   {timer_read_count, irq_set_mask(Line(current_thread)), irq_clear_mask(Line(current_thread))} :
          cpu' = [cpu EXCEPT !.eip = body \o @]
    /\ UNCHANGED <<halt, pic, pit, kernelVars>>

EndTests ==
    /\ At("unit_tests")
    /\ Step(cpu)
    /\ UNCHANGED <<halt, pic, pit, kernelVars>>

\* cpu_idle_loop(), again and again.
Idle ==
    /\ halt = "no" /\ current_thread = Main /\ cpu.eip = <<>>
    /\ cpu' = [cpu EXCEPT !.eip = cpu_idle_loop]
    /\ UNCHANGED <<halt, pic, pit, kernelVars>>

-----------------------------------------------------------------------------

\* As a multiboot loader leaves the machine: interrupts disabled, no usable
\* descriptor tables, the controllers set up for the BIOS, the timer running.
Init ==
    /\ cpu = [eip |-> <<Op("_start")>>, eflags |-> {1}, cs |-> {}, tr |-> {}, gdtr |-> FALSE, idtr |-> FALSE,
              seg |-> [s \in DataSegs |-> {}],
              gpr |-> ("eax" :> {0} @@ "ecx" :> {1} @@ "edx" :> {2} @@ "ebx" :> {3}
                       @@ "ebp" :> {4} @@ "esi" :> {5} @@ "edi" :> {6})]
    /\ halt = "no"
    /\ \E masked \in {{}, 0..7} :
          pic = [c \in {"master", "slave"} |->
                   [offset |-> IF c = "master" THEN Bits(8) ELSE Bits(112),
                    stage |-> 0, imr |-> masked, irr |-> {}, isr |-> {}]]
    /\ pit = [mode |-> {0, 1}, low |-> {}, reload |-> {}, latch |-> NULL, write |-> "low", read |-> "low"]
    /\ done = {}
    /\ current_thread = NULL
    /\ ready_threads = <<>>
    /\ stack = [t \in Threads |-> <<>>]
    /\ count = NULL

Execute ==
    \/ \E magic \in BOOLEAN : Start(magic)
    \/ LoadTables \/ reload_segments \/ tss_flush
    \/ io_outb \/ io_inb \/ WriteMask \/ JoinBytes
    \/ interrupt_disable \/ interrupt_restore \/ SetFlag \/ AssertFlag
    \/ InitComponent \/ UseComponent \/ printf
    \/ thread_yield \/ CreateThread \/ Call \/ EndTests \/ Idle

Next ==
    \/ \E l \in {0, MainLine} : Raise(l)
    \/ Interrupt
    \/ Execute

Spec == Init /\ [][Next]_vars

\* The processor executes; it acknowledges a request that finds interrupts
\* enabled again and again; the timer chip goes on raising its line.
FairSpec == Spec /\ WF_vars(Execute) /\ SF_vars(Interrupt) /\ WF_vars(Raise(0))

-----------------------------------------------------------------------------
(* Properties *)

\* gdt_init(): the processor reads from the packed descriptors the segments
\* that were meant: flat, 4 GiB, of two rings; and the task state.
FlatSegments ==
    /\ \A s \in {SegmentKernelCode, SegmentKernelData, SegmentUserCode, SegmentUserData} :
          /\ Base(gdt[s]) = {} /\ Limit(gdt[s]) = 0..19 /\ Flags(gdt[s]) = {2, 3}
          /\ Ring(gdt[s]) = IF s \in {SegmentUserCode, SegmentUserData} THEN {0, 1} ELSE {}
          /\ 3 \in Access(gdt[s]) <=> s \in {SegmentKernelCode, SegmentUserCode}
    /\ Base(gdt[SegmentTaskState]) = TssBase /\ Limit(gdt[SegmentTaskState]) = TssLimit

\* The order of kernel_main(): no selector is loaded before its descriptor, no
\* interrupt taken before there are a gate, a vector of its own and a thread
\* for it, and no synchronized function called before the threads are there
\* or while interrupts are disabled. Once loaded, the table of segments is
\* what gdt_init() means it to be.
BootsSafely ==
    /\ halt \in {"no", "return"}
    /\ cpu.gdtr => FlatSegments

\* isr_IRQ0 and internal_thread_init(): a thread goes on with the registers it
\* was interrupted with, on its own stack, and begins with interrupts enabled
\* and with the kernel's segments.
ContextKept ==
    current_thread # NULL =>
      /\ cpu.cs = KernelCode /\ \A s \in DataSegs : cpu.seg[s] = KernelData
      /\ \A r \in GPRs \ {"eax"} :
            cpu.gpr[r] = IF current_thread = T THEN {}
                         ELSE Bits(2 ^ (CHOOSE i \in 1..6 : <<"ecx", "edx", "ebx", "ebp", "esi", "edi">>[i] = r))
      /\ AtClient => stack[current_thread] = IF current_thread = T THEN <<{}, {0}>> ELSE <<>>
      /\ AtClient => Enabled

\* timer_set_reload(), timer_read_count(): the two bytes of a value are never
\* parted, whatever thread calls which function when.
CounterWhole ==
    /\ pit.reload \in {Bits(n) : n \in {0, Divisor} \cup Reloads}
    /\ count \in {NULL} \cup {Bits(n) : n \in Counts}
    /\ AtClient => pit.write = "low" /\ pit.read = "low" /\ pit.latch = NULL

\* irq_set_mask(), irq_clear_mask(): a step changes the mask bit of one line
\* at most, of the current thread's own line once the kernel is up. A read
\* and a write that another thread's come between would lose the other's bit.
MasksOwn ==
    [][current_thread # NULL /\ halt = "no" =>
         \A l \in 0..7 : (l \in pic["master"].imr) # (l \in pic'["master"].imr) =>
                           l = Line(current_thread)]_vars

\* Under FairSpec: started by a multiboot loader, the kernel takes timer
\* interrupts for ever: preemption and time-outs depend on it.
TicksForever == []<>(halt = "return") \/ []<><<Interrupt /\ 0 \in Signalled>>_vars
=============================================================================
