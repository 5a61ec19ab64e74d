----------------------------- MODULE Interrupts -----------------------------
(***************************************************************************)
(* The interrupt path of the kernel: the devices raise lines, the 8259s    *)
(* (module Pic) choose one, the CPU takes it between two instructions of   *)
(* the thread, and irq_handler() of munux-os/kernel/interrupts/idt.c calls *)
(* the driver (modules Timer, Mouse, and the keyboard, of which only the   *)
(* read of port 0x60 matters here) and sends the EOI.                      *)
(*                                                                         *)
(* The stubs disable interrupts until the iret, so irq_handler() is one    *)
(* step; devices go on raising lines between it and the acknowledge.  The  *)
(* thread calls timer_wait() and mouse_init() with interrupts enabled, and *)
(* takes no step while an interrupt can be taken.                          *)
(***************************************************************************)
EXTENDS Pic, Timer, Mouse

CONSTANTS
    Others,     \* lines of devices that have no driver
    Opened,     \* lines that are unmasked after boot
    OpensFirst  \* TRUE: line 12 may be unmasked before mouse_init() is over

ASSUME InterruptsAssumption ==
    /\ Others \subseteq (Master \cup Slave) \ {0, 1, CASCADE, 12}
    /\ Opened \subseteq Master \cup Slave
    /\ OpensFirst \in BOOLEAN

VARIABLES
    vector,             \* the interrupt being handled, 0 when none
    interrupt_handlers, \* the vectors that have a handler
    raised              \* lines that were raised since the thread last ran

port == <<config, answer, driver, place, mouse>>
vars == <<pic, timer, obuf, port, vector, interrupt_handlers, raised>>
cpu == <<vector, interrupt_handlers>>

-----------------------------------------------------------------------------
(* The devices (external).  Handlers take microseconds and devices         *)
(* milliseconds, so a line is raised once between two steps of the thread. *)

Raise(l, enabled) ==
    /\ l \notin raised
    /\ irr' = IF enabled THEN irr \cup {l} ELSE irr
    /\ raised' = raised \cup {l}
    /\ UNCHANGED <<isr, imr>>

raise_timer == Raise(0, TRUE) /\ UNCHANGED <<timer, obuf, port, cpu>>

\* A key: Enter.
raise_key ==
    /\ init_pc \in {"none", "done"} \/ "typing" \in MouseFaults
    /\ Empty /\ ~Bit(config, KBD_OFF)
    /\ obuf' = [of |-> "key", value |-> 28]
    /\ Raise(1, Bit(config, KBD_INT))
    /\ UNCHANGED <<timer, port, cpu>>

raise_mouse ==
    /\ (\E p \in Packets : MouseByte(p)) \/ MouseAck
    /\ Raise(12, Bit(config, AUX_INT))
    /\ UNCHANGED <<timer, cpu>>

\* Some controllers raise the keyboard's line for an answer of their own.
raise_config ==
    /\ ConfigReply
    /\ \E raises \in BOOLEAN : Raise(1, raises /\ Bit(config, KBD_INT))
    /\ UNCHANGED <<timer, cpu>>

raise_other(l) == Raise(l, TRUE) /\ UNCHANGED <<timer, obuf, port, cpu>>

\* Whoever connects a device opens its line; no driver of this kernel does.
unmask(l) ==
    /\ l \in imr
    /\ l = 12 => OpensFirst \/ init_pc = "done"
    /\ imr' = imr \ {l}
    /\ UNCHANGED <<irr, isr, timer, obuf, port, cpu, raised>>

-----------------------------------------------------------------------------
(* The CPU.                                                                *)

Entered(v) ==
    /\ vector' = v
    /\ wait' = TimerWakes
    /\ UNCHANGED <<timer_ticks, obuf, port, interrupt_handlers, raised>>

take_irq ==
    /\ vector = 0 /\ INT
    /\ Acknowledge
    /\ Entered(32 + Granted)

\* A request that vanished before the acknowledge: the chip answers with its
\* lowest line and puts nothing in service.
take_spurious_master ==
    /\ vector = 0 /\ ~INT
    /\ Entered(39)
    /\ UNCHANGED pic

\* On the slave, after the master has put line 2 in service.
take_spurious_slave ==
    /\ vector = 0 /\ ~INT
    /\ ~(Slave \subseteq imr)
    /\ isr' = isr \cup {CASCADE}
    /\ Entered(47)
    /\ UNCHANGED <<irr, imr>>

\* inb(0x60): the byte counts as read, and the request of its line is gone.
ReadPort ==
    /\ obuf' = [obuf EXCEPT !.of = "none"]
    /\ irr' = irr \ {1, 12}

\* What the registered handler does.
Handler ==
    \/ vector = 32 /\ timer_callback /\ UNCHANGED <<irr, obuf, port>>
    \/ vector = 33 /\ ReadPort /\ UNCHANGED <<timer, port>>
    \/ /\ vector = 44 /\ vector \in interrupt_handlers
       /\ ReadPort /\ mouse_handler(obuf.value)
       /\ UNCHANGED <<timer, config, answer, place, mouse>>
    \/ vector \notin interrupt_handlers /\ UNCHANGED <<irr, timer, obuf, port>>

Return == vector' = 0 /\ UNCHANGED <<imr, interrupt_handlers, raised>>

\* Mutant: a spurious interrupt of the slave is ignored.
spurious_slave_ignored ==
    /\ vector = 47 /\ 15 \notin isr
    /\ Return
    /\ UNCHANGED <<irr, isr, timer, obuf, port>>

\* irq_handler(): vector 39 or 47 without its bit in service; the master still
\* waits for the EOI of line 2.
irq_handler_spurious_master ==
    /\ vector = 39 /\ 7 \notin isr
    /\ Return
    /\ UNCHANGED <<irr, isr, timer, obuf, port>>

irq_handler_spurious_slave ==
    /\ vector = 47 /\ 15 \notin isr
    /\ isr' = EOI(isr, Master)
    /\ Return
    /\ UNCHANGED <<irr, timer, obuf, port>>

\* Mutant: irq > 40.
irq_handler_above_40 ==
    /\ vector # 0 /\ ~(vector = 39 /\ 7 \notin isr) /\ ~(vector = 47 /\ 15 \notin isr)
    /\ Handler
    /\ isr' = EOI(IF vector > 40 THEN EOI(isr, Slave) ELSE isr, Master)
    /\ Return

\* irq_handler(): the handler, then the EOIs.
irq_handler ==
    /\ vector # 0 /\ ~(vector = 39 /\ 7 \notin isr) /\ ~(vector = 47 /\ 15 \notin isr)
    /\ Handler
    /\ isr' = EOI(IF vector >= 40 THEN EOI(isr, Slave) ELSE isr, Master)
    /\ Return

-----------------------------------------------------------------------------
(* The thread.                                                             *)

Runs == vector = 0 /\ ~INT /\ raised' = {}

\* An instruction at the ports that was under way when a line was raised.
InsIsUnderWay == vector = 0 /\ UNCHANGED raised

thread_waits ==
    /\ Runs /\ init_pc \in {"none", "done"}
    /\ (\E n \in Waits : timer_wait(n)) \/ timer_wait_check \/ timer_wait_hlt
    /\ UNCHANGED <<pic, obuf, port, cpu>>

register_interrupt_handler(n) == interrupt_handlers' = interrupt_handlers \cup {n}

thread_connects_mouse ==
    /\ Runs /\ wait = NoWait
    /\ \/ mouse_init /\ register_interrupt_handler(44)
       \/ (mouse_init_ask \/ mouse_write \/ mouse_init_reset) /\ UNCHANGED interrupt_handlers
    /\ UNCHANGED <<pic, timer, vector>>

\* The byte that a poll has seen may be gone, or be another one, when the port is read.
thread_polls_mouse ==
    /\ InsIsUnderWay /\ wait = NoWait
    /\ mouse_wait_read
    /\ UNCHANGED <<pic, timer, cpu>>

thread_reads_mouse ==
    /\ InsIsUnderWay /\ wait = NoWait
    /\ mouse_read /\ ReadPort
    /\ UNCHANGED <<isr, imr, timer, cpu>>

\* Anything else the thread does.
thread_runs ==
    /\ Runs /\ wait = NoWait
    /\ UNCHANGED <<pic, timer, obuf, port, cpu>>

Init ==
    /\ pic_remap /\ irr = {} /\ isr = {}
    /\ timer_init
    /\ MouseInit
    /\ vector = 0 /\ interrupt_handlers = {32, 33} /\ raised = {}

Devices ==
    \/ raise_timer \/ raise_key \/ raise_mouse \/ raise_config
    \/ \E l \in Others : raise_other(l)
Cpu ==
    \/ take_irq \/ irq_handler_spurious_master \/ irq_handler_spurious_slave \/ irq_handler
Ports == thread_polls_mouse \/ thread_reads_mouse
Thread == thread_waits \/ thread_connects_mouse \/ thread_runs

Next ==
    \/ Devices
    \/ \E l \in Opened : unmask(l)
    \/ take_spurious_master \/ take_spurious_slave
    \/ Cpu \/ Thread \/ Ports

Spec == Init /\ [][Next]_vars

\* The CPU takes what is requested and finishes its handlers, the thread runs
\* when there is nothing to take, and the PIT ticks for ever.  Nothing is
\* assumed of the other devices.
FairSpec ==
    /\ Spec
    /\ WF_vars(Cpu) /\ WF_vars(Thread) /\ WF_vars(raise_timer)
    /\ WF_vars(thread_waits /\ wait # NoWait)

-----------------------------------------------------------------------------
(* Properties                                                              *)

TypeOK ==
    /\ irr \subseteq Master \cup Slave /\ isr \subseteq Master \cup Slave
    /\ imr \subseteq Master \cup Slave /\ raised \subseteq Master \cup Slave
    /\ timer_ticks \in 0 .. (TICKS - 1)
    /\ wait.pc \in {"none", "check", "hlt", "halted"}
    /\ mouse_cycle \in 0 .. 2
    /\ mouse_byte \in [0 .. 2 -> -128 .. 127]
    /\ obuf \in [of : {"none", "key", "config", "ack", "mouse"}, value : 0 .. 255]
    /\ config \in 0 .. 255
    /\ vector \in {0} \cup 32 .. 47

\* Nothing stays in service after its handler: while the thread runs no line is
\* in service, and during a handler only the lines of that interrupt are.  A
\* line left in service would hold back every line below it for ever.
InServiceIsHandled ==
    isr \subseteq (IF vector = 0 THEN {} ELSE InService(vector - 32))

\* The mouse's cycle stays inside its packet, and the in-service lines are those
\* of the handler that runs.
ServiceIsSound == TypeOK /\ InServiceIsHandled

\* The three bytes of a packet stay together: the driver has stored those bytes
\* of the packet that were sent and are not in the output buffer, in order,
\* whatever keys, spurious interrupts and interrupts of other lines came between.
PacketsStayWhole ==
    reporting =>
        /\ mouse_cycle = (sent - (IF obuf.of = "mouse" THEN 1 ELSE 0)) % 3
        /\ \A i \in 0 .. (mouse_cycle - 1) : mouse_byte[i] % 256 = Bytes(packet)[i + 1]

\* mouse_init() changes two bits of the controller's configuration byte, the mouse's clock
\* and interrupt, and leaves the keyboard's as the firmware set them, though it reads the
\* byte at the port where everybody's bytes arrive.
ConfigIsKept ==
    LET enabled == Clear(CONFIG, AUX_OFF)
    IN  config \in {CONFIG, enabled, Set(enabled, AUX_INT)}

\* timer_wait(n) returns after n ticks, or one more when a tick falls between
\* the comparison and the hlt; interrupts of other devices do not end it early.
WaitIsExact ==
    [][wait # NoWait /\ wait' = NoWait =>
          wait.elapsed \in wait.ticks .. (wait.ticks + 1)]_vars

\* Every request of an open line is served, whatever its priority, after
\* spurious interrupts and interrupts without a driver.
EveryLineIsServed ==
    \A l \in {0, 1, 12} \cup Others : (l \in irr \ imr) ~> (l \notin irr)

\* "Extende sinal se negativo": the position moves by what the mouse reported.
\* It does not when a movement is small and negative: the byte is already
\* signed, and is extended a second time.
MovesAreExact ==
    [][mouse_cycle = 2 /\ mouse_cycle' = 0 =>
          mouse_state'.x = (mouse_state.x + packet.dx) % POS]_vars

\* mouse_init(), "Habilita interrupcoes": what the mouse sends is read.  It is not
\* while line 12 is masked, and the byte keeps the keyboard's out of port 0x60.
PortIsRead == (obuf.of = "mouse") ~> (obuf.of # "mouse")
=============================================================================
