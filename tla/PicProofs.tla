----------------------------- MODULE PicProofs -----------------------------
(* Every handler ends what its acknowledgement began, on any set of lines  *)
(* that has neither of the two lines on which spurious interrupts arrive.  *)
EXTENDS Pic, TLAPS

\* Names for the numbers of the special lines.
LEMMA Numbers ==
    /\ IRQ_PIT = 0 /\ IRQ_CASCADE = 2 /\ IRQ_SPURIOUS_MASTER = 7 /\ IRQ_SPURIOUS_SLAVE = 15
  BY DEF IRQ_PIT, IRQ_CASCADE, IRQ_SPURIOUS_MASTER, IRQ_SPURIOUS_SLAVE

\* Every register keeps its type.
THEOREM PicTypeCorrect == Spec => []TypeOK
  <1>1. Init => TypeOK
    BY Numbers DEF Init, TypeOK
  <1>2. TypeOK /\ [Next]_vars => TypeOK'
    <2> SUFFICES ASSUME TypeOK, [Next]_vars PROVE TypeOK'
      OBVIOUS
    <2> USE DEF TypeOK
    <2>1. CASE \E l \in Lines : Raise(l)
      BY <2>1 DEF Raise
    <2>2. CASE Acknowledge
      <3>1. SlaveInt \subseteq 0..15 /\ MasterInt \subseteq 0..15
        <4>1. SlaveInt \subseteq irr /\ MasterInt \subseteq irr \cup {IRQ_CASCADE}
          BY DEF SlaveInt, MasterInt, Urgent, Slave, Master
        <4>2. irr \cup {IRQ_CASCADE} \subseteq 0..15
          BY Numbers, LinesAssumption
        <4> QED
          BY <4>1, <4>2
      <3> QED
        BY <2>2, <3>1, Numbers DEF Acknowledge, First
    <2>3. CASE AcknowledgeSpurious
      <3>1. irr' \subseteq irr /\ imr' = imr
        BY <2>3 DEF AcknowledgeSpurious
      <3>2. isr' \subseteq isr \cup {2} /\ serving' \in {7, 15}
        BY <2>3, Numbers DEF AcknowledgeSpurious
      <3> QED
        BY <3>1, <3>2
    <2>4. CASE irq_handler
      BY <2>4 DEF irq_handler, pic_eoi, EndOfInterrupt
    <2>5. CASE isr_IRQ0 \/ Yield
      BY <2>5 DEF isr_IRQ0, Yield, EndOfInterrupt
    <2>6. CASE \E l \in Driven : irq_set_mask(l) \/ irq_clear_mask(l)
      BY <2>6, LinesAssumption DEF irq_set_mask, irq_clear_mask
    <2>7. CASE UNCHANGED vars
      BY <2>7 DEF vars
    <2> QED
      BY <2>1, <2>2, <2>3, <2>4, <2>5, <2>6, <2>7 DEF Next
  <1> QED
    BY <1>1, <1>2, PTL DEF Spec

\* Without devices on lines 7 and 15, which spurious interrupts use, every step
\* keeps what is in service in agreement with the handler that runs.
LEMMA InServiceStep ==
    ASSUME Lines \cap {IRQ_SPURIOUS_MASTER, IRQ_SPURIOUS_SLAVE} = {},
           TypeOK, InService, [Next]_vars
    PROVE  InService'
  <1> USE Numbers, LinesAssumption
  <1>1. CASE (\E l \in Lines : Raise(l)) \/ UNCHANGED vars
    BY <1>1 DEF Raise, InService, vars
  <1>2. CASE Acknowledge
    <2>0. PICK l \in First(MasterInt) :
            \E q \in (IF l = IRQ_CASCADE THEN First(SlaveInt) ELSE {l}) :
               isr' = isr \cup {l, q} /\ serving' = q
      BY <1>2 DEF Acknowledge
    <2>1. PICK q \in (IF l = IRQ_CASCADE THEN First(SlaveInt) ELSE {l}) :
            isr' = isr \cup {l, q} /\ serving' = q
      BY <2>0
    <2>2. isr = {}
      BY <1>2 DEF Acknowledge, InService
    <2>3. l \in MasterInt /\ (l = IRQ_CASCADE => q \in SlaveInt) /\ (l # IRQ_CASCADE => q = l)
      BY <2>1 DEF First
    <2>4. SlaveInt \subseteq Slave(irr) /\ MasterInt \subseteq Master(irr) \cup {IRQ_CASCADE}
      BY DEF SlaveInt, MasterInt, Urgent
    <2>5. /\ l = 2 => q \in 8..14
          /\ l # 2 => q = l /\ l \in 0..6
      BY <2>3, <2>4 DEF TypeOK, Slave, Master
    <2> QED
      BY <2>1, <2>2, <2>5 DEF InService
  <1>3. CASE AcknowledgeSpurious
    BY <1>3 DEF AcknowledgeSpurious, InService
  <1>4. CASE irq_handler
    <2>1. serving \in (0..15) \ {0} /\ serving' = None /\ None \notin 0..15
      BY <1>4 DEF irq_handler, TypeOK
    <2>2. CASE serving = 7
      <3>1. isr = {}
        BY <2>2 DEF InService
      <3>2. isr' = {}
        BY <1>4, <2>2, <3>1 DEF irq_handler, pic_eoi, EndOfInterrupt
      <3> QED
        BY <2>1, <3>2 DEF InService
    <2>3. CASE serving = 15
      <3>1. isr = {2}
        BY <2>3 DEF InService
      <3>2. First(Master(isr)) = {2}
        BY <3>1 DEF First, Master
      <3>3. EndOfInterrupt(Master(isr)) = {}
        BY <3>1, <3>2 DEF EndOfInterrupt
      <3>4. isr' = {}
        BY <1>4, <2>3, <3>3 DEF irq_handler, pic_eoi
      <3> QED
        BY <2>1, <3>4 DEF InService
    <2>4. CASE serving \in 1..6
      <3>1. isr = {serving}
        BY <2>4 DEF InService
      <3>2. First(Master(isr)) = {serving}
        BY <2>4, <3>1 DEF First, Master
      <3>3. isr' = {}
        BY <1>4, <2>4, <3>1, <3>2 DEF irq_handler, pic_check_spurious, pic_eoi, EndOfInterrupt
      <3> QED
        BY <2>1, <3>3 DEF InService
    <2>5. CASE serving \in 8..14
      <3>1. isr = {2, serving}
        BY <2>5 DEF InService
      <3>2. First(Master(isr)) = {2} /\ First(Slave(isr)) = {serving}
        BY <2>5, <3>1 DEF First, Master, Slave
      <3>3. isr' = {}
        BY <1>4, <2>5, <3>1, <3>2 DEF irq_handler, pic_check_spurious, pic_eoi, EndOfInterrupt
      <3> QED
        BY <2>1, <3>3 DEF InService
    <2> QED
      BY <2>1, <2>2, <2>3, <2>4, <2>5
  <1>5. CASE isr_IRQ0
    <2>1. serving = 0 /\ isr = {0} /\ serving' = None /\ None \notin 0..15
      BY <1>5 DEF isr_IRQ0, InService
    <2>2. First(Master(isr)) = {0}
      BY <2>1 DEF First, Master
    <2>3. isr' = {}
      BY <1>5, <2>1, <2>2 DEF isr_IRQ0, EndOfInterrupt
    <2> QED
      BY <2>1, <2>3 DEF InService
  <1>6. CASE Yield
    <2>1. isr = {} /\ serving = None /\ serving' = None /\ isr' = {}
      BY <1>6 DEF Yield, InService, EndOfInterrupt
    <2> QED
      BY <2>1 DEF InService
  <1>7. CASE \E l \in Driven : irq_set_mask(l) \/ irq_clear_mask(l)
    BY <1>7 DEF irq_set_mask, irq_clear_mask, InService
  <1> QED
    BY <1>1, <1>2, <1>3, <1>4, <1>5, <1>6, <1>7 DEF Next

\* Between two handlers nothing is in service, for any devices and drivers as
\* long as no device uses lines 7 and 15: the end of interrupt is never sent
\* too often, too rarely or to the wrong chip.
THEOREM ServiceAlwaysEnds ==
    ASSUME Lines \cap {IRQ_SPURIOUS_MASTER, IRQ_SPURIOUS_SLAVE} = {}
    PROVE  Spec => []ServiceEnds
  <1>1. Init => InService
    BY Numbers, LinesAssumption DEF Init, InService
  <1>2. TypeOK /\ InService /\ [Next]_vars => InService'
    BY InServiceStep
  <1>3. InService => ServiceEnds
    BY DEF InService, ServiceEnds
  <1> QED
    BY <1>1, <1>2, <1>3, PicTypeCorrect, PTL DEF Spec
=============================================================================
