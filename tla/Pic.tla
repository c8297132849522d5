-------------------------------- MODULE Pic --------------------------------
(***************************************************************************)
(* Hardware interrupts: the kernel's use of the two cascaded 8259 chips    *)
(* (src/src/io/interrupt.c, isr_IRQ0 in src/src/io/interruptasm.s).        *)
(* Lines 0..7 are the master's, 8..15 the slave's; the slave is wired to   *)
(* line 2 of the master. Registers are sets of lines.                      *)
(*                                                                         *)
(* The chips themselves are external: fixed priorities, fully nested mode, *)
(* a non-specific end of interrupt ends the most urgent line in service.   *)
(* Every gate of the IDT is an interrupt gate and no handler enables       *)
(* interrupts, so handlers do not nest.                                    *)
(***************************************************************************)
EXTENDS Integers, FiniteSets

CONSTANTS Lines,     \* the lines that devices raise
          Driven,    \* the lines whose mask bit drivers change
          None

IRQ_PIT == 0
IRQ_CASCADE == 2
IRQ_SPURIOUS_MASTER == 7
IRQ_SPURIOUS_SLAVE == 15

ASSUME LinesAssumption ==
    /\ Lines \subseteq (0..15) \ {IRQ_CASCADE}
    /\ Driven \subseteq 0..15
    /\ None \notin 0..15

VARIABLES irr,      \* interrupt request registers
          isr,      \* in-service registers
          imr,      \* interrupt mask registers
          serving   \* the interrupt whose handler is running, or None

vars == <<irr, isr, imr, serving>>

Master(S) == {l \in S : l < 8}
Slave(S)  == {l \in S : l >= 8}

-----------------------------------------------------------------------------
(* The chips *)

\* The most urgent line of S.
First(S) == {l \in S : \A k \in S : l <= k}

\* The requests that a chip signals: not masked, more urgent than any it serves.
Urgent(requests, service) ==
    {l \in requests \ imr : \A s \in service : l < s}

SlaveInt == Urgent(Slave(irr), Slave(isr))
MasterInt == Urgent(Master(irr) \cup (IF SlaveInt # {} THEN {IRQ_CASCADE} ELSE {}), Master(isr))

\* OCW2_EOI sent to the chip that has the lines in `service'.
EndOfInterrupt(service) == isr \ First(service)

Raise(l) ==
    /\ l \notin irr
    /\ irr' = irr \cup {l}
    /\ UNCHANGED <<isr, imr, serving>>

\* The processor, interrupts enabled, acknowledges the most urgent request.
Acknowledge ==
    /\ serving = None
    /\ \E l \in First(MasterInt) :
          \E q \in (IF l = IRQ_CASCADE THEN First(SlaveInt) ELSE {l}) :
             /\ irr' = irr \ {q}
             /\ isr' = isr \cup {l, q}
             /\ serving' = q
    /\ UNCHANGED imr

\* The only request is withdrawn before it is acknowledged: the chip that
\* raised it answers with its last line, which it does not put in service. A
\* request of the slave leaves line 2 of the master in service.
AcknowledgeSpurious ==
    /\ serving = None
    /\ Cardinality(MasterInt) = 1
    /\ \/ /\ IRQ_CASCADE \notin MasterInt
          /\ irr' = irr \ MasterInt
          /\ isr' = isr
          /\ serving' = IRQ_SPURIOUS_MASTER
       \/ /\ IRQ_CASCADE \in MasterInt
          /\ Cardinality(SlaveInt) = 1
          /\ irr' = irr \ SlaveInt
          /\ isr' = isr \cup {IRQ_CASCADE}
          /\ serving' = IRQ_SPURIOUS_SLAVE
    /\ UNCHANGED imr

-----------------------------------------------------------------------------
(* The kernel *)

\* The two status bytes in one word, the master's in the upper half.
pic_read_isr == {l + 8 : l \in Master(isr)} \cup {l - 8 : l \in Slave(isr)}

pic_check_spurious(irq) ==
    irq \in {IRQ_SPURIOUS_MASTER, IRQ_SPURIOUS_SLAVE} /\ irq \notin pic_read_isr

\* Mutant: the slave is not told.
pic_eoi_master_only(irq) == EndOfInterrupt(Master(isr))

\* The in-service registers after the end of an interrupt that was not spurious.
pic_eoi(irq) ==
    IF irq >= 8 THEN EndOfInterrupt(Slave(isr)) \cap EndOfInterrupt(Master(isr))
    ELSE EndOfInterrupt(Master(isr))

\* Every interrupt but the timer's: interrupt_handler() and irq_handler().
irq_handler ==
    /\ serving \notin {None, IRQ_PIT}
    /\ isr' = IF ~pic_check_spurious(serving) THEN pic_eoi(serving)
              ELSE IF serving = IRQ_SPURIOUS_SLAVE THEN EndOfInterrupt(Master(isr))
              ELSE isr
    /\ serving' = None
    /\ UNCHANGED <<irr, imr>>

\* Mutant: the timer interrupt is not ended.
isr_IRQ0_no_eoi ==
    /\ serving = IRQ_PIT
    /\ serving' = None
    /\ UNCHANGED <<irr, isr, imr>>

\* The timer interrupt always tells the master, whose turn it must be.
isr_IRQ0 ==
    /\ serving = IRQ_PIT
    /\ isr' = EndOfInterrupt(Master(isr))
    /\ serving' = None
    /\ UNCHANGED <<irr, imr>>

\* thread_yield() raises the same vector without a request: its end of
\* interrupt is sent although no interrupt has begun.
Yield ==
    /\ serving = None
    /\ isr' = EndOfInterrupt(Master(isr))
    /\ UNCHANGED <<irr, imr, serving>>

\* Mutant: the bit is written to the other chip.
irq_set_mask_other_chip(l) ==
    /\ serving = None
    /\ imr' = imr \cup {l + 8}
    /\ UNCHANGED <<irr, isr, serving>>

irq_set_mask(l) ==
    /\ serving = None
    /\ imr' = imr \cup {l}
    /\ UNCHANGED <<irr, isr, serving>>

irq_clear_mask(l) ==
    /\ serving = None
    /\ imr' = imr \ {l}
    /\ UNCHANGED <<irr, isr, serving>>

\* pic_remap() leaves all lines masked but one.
Init ==
    /\ irr = {}
    /\ isr = {}
    /\ imr = (0..15) \ {IRQ_PIT}
    /\ serving = None

Next ==
    \/ \E l \in Lines : Raise(l)
    \/ Acknowledge
    \/ AcknowledgeSpurious
    \/ irq_handler
    \/ isr_IRQ0
    \/ Yield
    \/ \E l \in Driven : irq_set_mask(l) \/ irq_clear_mask(l)

Spec == Init /\ [][Next]_vars

\* The processor takes interrupts when it may, and handlers return.
FairSpec == Spec /\ WF_vars(Acknowledge \/ AcknowledgeSpurious)
                 /\ WF_vars(irq_handler) /\ WF_vars(isr_IRQ0)

-----------------------------------------------------------------------------
(* Properties *)

TypeOK ==
    /\ irr \subseteq Lines
    /\ isr \subseteq 0..15
    /\ imr \subseteq 0..15
    /\ serving \in (0..15) \cup {None}

\* A handler ends exactly the interrupts its acknowledgement began, on both
\* chips, spurious ones included: between two handlers nothing is in service.
\* A line that stayed in service would shut out itself and all less urgent
\* ones; and the end of interrupt that thread_yield() sends ends nothing.
ServiceEnds == serving = None => isr = {}

\* What is in service, for each interrupt that can be running: the inductive
\* strengthening of ServiceEnds (PicProofs).
InService ==
    /\ serving \in {None, IRQ_SPURIOUS_MASTER} => isr = {}
    /\ serving = IRQ_SPURIOUS_SLAVE => isr = {IRQ_CASCADE}
    /\ serving \in 0..6 => serving # IRQ_CASCADE /\ isr = {serving}
    /\ serving \in 8..14 => isr = {IRQ_CASCADE, serving}

\* Under FairSpec: a timer interrupt that is requested and not masked is taken,
\* whatever the other devices do. Preemption depends on it (Scheduler).
TimerServed ==
    IRQ_PIT \in irr /\ IRQ_PIT \notin imr ~> IRQ_PIT \notin irr \/ IRQ_PIT \in imr

\* "Unmask Interrupt Mask Register for cascade (IRQ2). Other interrupts will be
\* renabled when the respective driver is initialized." (pic_remap()). Under
\* FairSpec: the driver of a single slave line that clears its mask is served.
DriverServed ==
    \A l \in Slave(Lines) : l \in irr /\ l \notin imr ~> l \notin irr \/ l \in imr
=============================================================================
