-------------------------------- MODULE Pic --------------------------------
(***************************************************************************)
(* The two 8259 interrupt controllers as pic_remap() of                    *)
(* munux-os/kernel/interrupts/idt.c programs them: fixed priorities, the   *)
(* slave on line 2 of the master, edge triggered, non-specific EOI.  The   *)
(* chips are external; a line is its number 0..15, and line l interrupts   *)
(* with vector 32 + l.                                                     *)
(***************************************************************************)
EXTENDS Integers, FiniteSetsExt

VARIABLES
    irr,    \* lines that request an interrupt
    isr,    \* lines in service
    imr     \* lines that are masked

pic == <<irr, isr, imr>>

Master == 0 .. 7
Slave == 8 .. 15
CASCADE == 2

\* pic_remap(): 0xF8 for the master, 0xFF for the slave.
pic_remap == imr = (3 .. 7) \cup Slave

\* The lines of a chip that request and are not held back by the mask or by a
\* line in service of the same or a higher priority.
Above(lines, serving) == {l \in lines \ imr : \A s \in serving : l < s}
SlaveRequests == Above(irr \cap Slave, isr \cap Slave)
MasterRequests ==
    Above((irr \cap Master) \cup (IF SlaveRequests # {} THEN {CASCADE} ELSE {}),
          isr \cap Master)

\* The INT pin.
INT == MasterRequests # {}

\* The line the CPU is told when it acknowledges.
Granted == IF Min(MasterRequests) = CASCADE THEN Min(SlaveRequests) ELSE Min(MasterRequests)

\* The lines line l keeps in service.
InService(l) == IF l \in Slave THEN {l, CASCADE} ELSE {l}

Acknowledge ==
    /\ isr' = isr \cup InService(Granted)
    /\ irr' = irr \ {Granted}
    /\ UNCHANGED imr

\* A non-specific EOI ends the service of the chip's highest line.
EOI(serving, chip) ==
    IF serving \cap chip = {} THEN serving ELSE serving \ {Min(serving \cap chip)}
=============================================================================
