-------------------------- MODULE InterruptsProofs --------------------------
(***************************************************************************)
(* The interrupt path of Interrupts, for any set of lines, any packets and *)
(* any length of wait: what is in service, the ticks of timer_wait(), the  *)
(* bytes of a mouse packet and the exchanges of mouse_init().  And the     *)
(* critical sections of IrqMutex, for any locks, any lines and any number  *)
(* of lock() calls.  The two modules share no name; each half of this one  *)
(* is about its own.                                                       *)
(***************************************************************************)
EXTENDS Interrupts, IrqMutex, SequenceTheorems, WellFoundedInduction,
        NaturalsInduction, TLAPS

Lines == Master \cup Slave

-----------------------------------------------------------------------------
(* The invariants.                                                         *)

\* Line 2 is the slave's: nothing else requests on it.
PicInv ==
    /\ irr \subseteq Lines /\ isr \subseteq Lines /\ imr \subseteq Lines /\ raised \subseteq Lines
    /\ vector \in {0} \cup 32 .. 47
    /\ CASCADE \notin irr
    /\ InServiceIsHandled

TimerType ==
    /\ timer_ticks \in 0 .. (TICKS - 1)
    /\ wait \in [pc : {"none", "check", "hlt", "halted"},
                 ticks : Nat, end_tick : Nat, elapsed : Nat]

MouseType ==
    /\ mouse_cycle \in 0 .. 2 /\ mouse_byte \in [0 .. 2 -> -128 .. 127]
    /\ obuf \in [of : {"none", "key", "config", "ack", "mouse"}, value : 0 .. 255]
    /\ config \in 0 .. 255
    /\ sent \in 1 .. 3 /\ packet \in Packets

ServiceInv == PicInv /\ TimerType /\ MouseType

\* The ticks of the PIT that have come and are not counted yet.
Coming == IF 0 \in irr \/ vector = 32 THEN 1 ELSE 0

\* A tick is raised once between two steps of the thread, so the counter is at most one
\* past the end of the wait, and only if the tick came after the comparison.
WaitInv ==
    /\ 0 \notin imr
    /\ 0 \in irr \/ vector = 32 => 0 \in raised
    /\ ~(0 \in irr /\ vector = 32)
    /\ wait.pc = "none" => wait = NoWait
    /\ wait # NoWait =>
          /\ timer_ticks = (wait.end_tick - wait.ticks) + wait.elapsed
          /\ wait.ticks <= wait.end_tick /\ wait.end_tick + 1 < TICKS
          /\ wait.pc = "hlt" =>
                /\ wait.elapsed + Coming <= wait.ticks
                /\ 0 \notin raised => wait.elapsed < wait.ticks
          /\ wait.pc # "hlt" =>
                /\ wait.elapsed + Coming <= wait.ticks + 1
                /\ 0 \notin raised => wait.elapsed <= wait.ticks

\* Line 12 is closed, and no interrupt of it is handled, until mouse_init() is over; line 1
\* is open.
InitInv ==
    /\ init_pc \in {"none", "send", "poll", "read", "reset", "done"}
    /\ exchange \in {"config", "defaults", "stream"}
    /\ init_pc = "none" => exchange = "config"
    /\ init_pc \in {"reset", "done"} => exchange = "stream"
    /\ init_pc # "done" => 12 \in imr /\ vector # 44
    /\ init_pc # "none" => 44 \in interrupt_handlers
    /\ 33 \in interrupt_handlers /\ 1 \notin imr

\* Whose byte is at port 0x60 is told by the line that requests or is handled, and a key
\* does not stay there.
PortInv ==
    /\ 1 \in irr \/ vector = 33 => obuf.of \in {"key", "config"}
    /\ 12 \in irr \/ vector = 44 => obuf.of \in {"ack", "mouse"}
    /\ obuf.of = "key" => 1 \in irr \/ vector = 33

\* The configuration byte after each part of mouse_init().
ConfigInv ==
    config = IF exchange # "config" THEN Set(Clear(CONFIG, AUX_OFF), AUX_INT)
             ELSE IF init_pc \in {"poll", "read"} THEN Clear(CONFIG, AUX_OFF) ELSE CONFIG

\* A poll ends only when its answer has come, and nobody else takes it: except the
\* keyboard's handler the configuration byte, which the port then tells again.
ExchangeInv ==
    /\ init_pc \notin {"poll", "read"} => answer = "none" /\ obuf.of \notin {"ack", "config"}
    /\ init_pc = "send" => obuf.of = "none"
    /\ init_pc \in {"poll", "read"} /\ exchange = "config" =>
          \/ init_pc = "poll" /\ answer = "config" /\ obuf.of = "none"
          \/ answer = "none" /\ obuf.of \in {"none", "config"} /\ obuf.value = config
    /\ init_pc \in {"poll", "read"} /\ exchange # "config" =>
          \/ init_pc = "poll" /\ answer = "ack" /\ obuf.of = "none"
          \/ answer = "none" /\ obuf.of = "ack"
    /\ obuf.of = "key" => init_pc \in {"none", "done"}

\* What the driver holds of a packet and what is on the way make a packet.
PacketInv ==
    /\ reporting = (exchange = "stream" /\ init_pc # "send")
    /\ ~reporting \/ init_pc \in {"poll", "read"} =>
          sent = 3 /\ mouse_cycle = 0 /\ obuf.of # "mouse"
    /\ obuf.of = "mouse" => obuf.value = Bytes(packet)[sent]
    /\ PacketsStayWhole

-----------------------------------------------------------------------------
(* The controllers.                                                        *)

LEMMA Remainder ==
    ASSUME NEW x \in Nat, NEW n \in Nat \ {0}
    PROVE  x % n \in 0 .. (n - 1) /\ (x < n => x % n = x)
OBVIOUS

\* A set of lines has a lowest one.
LEMMA MinFacts ==
    ASSUME NEW S, S \subseteq Nat, S # {}
    PROVE  Min(S) \in S /\ \A x \in S : Min(S) <= x
<1>1. PICK s \in S : \A t \in S : ~ (<<t, s>> \in OpToRel(<, Nat))
  BY NatLessThanWellFounded, WFMin
<1>2. ASSUME NEW t \in S
      PROVE  s <= t
  <2>1. ~ (t < s)
    BY <1>1 DEF OpToRel
  <2> QED
    BY <2>1
<1> QED
  BY <1>2 DEF Min

\* An EOI to a chip with at most one line in service.
LEMMA EOIFacts ==
    ASSUME NEW S, NEW chip, NEW l \in Nat, S \cap chip \subseteq {l}
    PROVE  EOI(S, chip) = S \ (chip \cap {l})
<1>1. CASE S \cap chip = {}
  BY <1>1 DEF EOI
<1>2. CASE S \cap chip # {}
  <2>1. S \cap chip = {l}
    BY <1>2
  <2>2. Min({l}) = l
    BY MinFacts
  <2> QED
    BY <1>2, <2>1, <2>2 DEF EOI
<1> QED
  BY <1>1, <1>2

\* The line that the CPU is told is one that requests and is not masked.
LEMMA GrantedFacts ==
    ASSUME irr \subseteq Lines, CASCADE \notin irr, INT
    PROVE  Granted \in Lines /\ Granted \in irr \ imr
<1>1. MasterRequests # {} /\ MasterRequests \subseteq Master
  BY DEF INT, MasterRequests, Above, Master, CASCADE
<1>2. Min(MasterRequests) \in MasterRequests
  <2>1. MasterRequests \subseteq Nat
    BY <1>1 DEF Master
  <2> QED
    BY <1>1, <2>1, MinFacts
<1>3. SlaveRequests \subseteq (irr \cap Slave) \ imr
  BY DEF SlaveRequests, Above
<1>4. CASE Min(MasterRequests) = CASCADE
  <2>1. SlaveRequests # {}
    BY <1>2, <1>4 DEF MasterRequests, Above
  <2>2. Min(SlaveRequests) \in SlaveRequests
    BY <1>3, <2>1, MinFacts DEF Slave
  <2> QED
    BY <1>3, <1>4, <2>2 DEF Granted, Lines
<1>5. CASE Min(MasterRequests) # CASCADE
  <2>1. Min(MasterRequests) \in (irr \cap Master) \ imr
    BY <1>2, <1>5 DEF MasterRequests, Above
  <2> QED
    BY <1>5, <2>1 DEF Granted, Lines
<1> QED
  BY <1>4, <1>5

\* Nothing is in service and nothing is asked for: a line of the master that is open does
\* not ask.
LEMMA QuietFacts ==
    ASSUME ~INT, isr = {}, NEW l \in {0, 1}, l \notin imr
    PROVE  l \notin irr
BY DEF INT, MasterRequests, Above, Master

\* What the handler of a vector leaves in service.
LEMMA ServedFacts ==
    ASSUME NEW v \in 32 .. 47, NEW S, S \subseteq InService(v - 32)
    PROVE  EOI(IF v >= 40 THEN EOI(S, Slave) ELSE S, Master) = {}
<1>1. CASE v >= 40
  <2>1. S \subseteq {v - 32, 2} /\ v - 32 \in Slave /\ v - 32 \in Nat
    BY <1>1 DEF InService, Slave, CASCADE
  <2>2. S \cap Slave \subseteq {v - 32}
    BY <2>1 DEF Slave
  <2>3. EOI(S, Slave) = S \ (Slave \cap {v - 32})
    BY <2>1, <2>2, EOIFacts
  <2>4. EOI(S, Slave) \subseteq {2}
    BY <2>1, <2>3
  <2>5. EOI(EOI(S, Slave), Master) = EOI(S, Slave) \ (Master \cap {2})
    BY <2>4, EOIFacts
  <2> QED
    BY <1>1, <2>4, <2>5 DEF Master
<1>2. CASE v < 40
  <2>1. S \subseteq {v - 32} /\ v - 32 \in Master /\ v - 32 \in Nat /\ ~(v >= 40)
    BY <1>2 DEF InService, Slave, Master
  <2>2. S \cap Master \subseteq {v - 32}
    BY <2>1
  <2>3. EOI(S, Master) = S \ (Master \cap {v - 32})
    BY <2>1, <2>2, EOIFacts
  <2> QED
    BY <2>1, <2>3
<1> QED
  BY <1>1, <1>2

-----------------------------------------------------------------------------
(* What is in service.                                                     *)

LEMMA ServiceSound == ServiceInv => ServiceIsSound
BY DEF ServiceInv, PicInv, TimerType, MouseType, ServiceIsSound, TypeOK, Lines

LEMMA LowByte ==
    ASSUME NEW x \in Int
    PROVE  x % 256 \in 0 .. 255
OBVIOUS

LEMMA BytesFacts ==
    ASSUME NEW p \in Packets
    PROVE  \A i \in 1 .. 3 : Bytes(p)[i] \in 0 .. 255
<1>1. p.buttons \in 0 .. 7 /\ p.dx \in -256 .. 255 /\ p.dy \in -256 .. 255
  BY MouseAssumption
<1>2. p.dx % 256 \in 0 .. 255 /\ p.dy % 256 \in 0 .. 255
  <2>1. p.dx \in Int /\ p.dy \in Int
    BY <1>1
  <2> QED
    BY <2>1, LowByte
<1>3. p.buttons + (IF p.dx < 0 THEN 16 ELSE 0) + (IF p.dy < 0 THEN 32 ELSE 0) \in 0 .. 255
  BY <1>1
<1> QED
  BY <1>2, <1>3 DEF Bytes

\* A byte kept in an int8_t is the byte it was.
LEMMA Int8Facts ==
    ASSUME NEW b \in 0 .. 255
    PROVE  int8(b) \in -128 .. 127 /\ int8(b) % 256 = b
BY DEF int8

\* A bit of a byte is set or cleared.
LEMMA BitFacts ==
    ASSUME NEW b \in 0 .. 255
    PROVE  Set(b, AUX_INT) \in 0 .. 255 /\ Clear(b, AUX_OFF) \in 0 .. 255
<1>1. Bit(b, AUX_INT) \/ b < 254
  BY DEF Bit, AUX_INT
<1>2. Bit(b, AUX_OFF) => b >= 32
  BY DEF Bit, AUX_OFF
<1> QED
  BY <1>1, <1>2 DEF Set, Clear, AUX_INT, AUX_OFF

LEMMA ServiceInit == Init => ServiceInv
<1> SUFFICES ASSUME Init
             PROVE  ServiceInv
  OBVIOUS
<1>1. PicInv
  BY DEF Init, pic_remap, PicInv, Lines, Master, Slave, InServiceIsHandled
<1>2. TimerType
  BY TimerAssumption DEF Init, timer_init, NoWait, TimerType
<1>3. MouseType
  BY MouseAssumption DEF Init, MouseInit, MouseType
<1> QED
  BY <1>1, <1>2, <1>3 DEF ServiceInv

\* The timer's part of every step.
LEMMA TimerSteps ==
    ASSUME TimerType,
           \/ UNCHANGED timer \/ (wait' = TimerWakes /\ UNCHANGED timer_ticks)
           \/ timer_callback \/ (\E n \in Waits : timer_wait(n))
           \/ timer_wait_check \/ timer_wait_hlt
    PROVE  TimerType'
<1>0. TICKS \in Nat \ {0} /\ Waits \subseteq Nat
  BY TimerAssumption
<1>1. CASE UNCHANGED timer
  BY <1>1 DEF timer, TimerType
<1>2. CASE wait' = TimerWakes /\ UNCHANGED timer_ticks
  BY <1>2 DEF TimerWakes, TimerType
<1>3. CASE timer_callback
  <2>1. timer_ticks + 1 \in Nat /\ (timer_ticks + 1) % TICKS \in 0 .. (TICKS - 1)
    BY <1>0, Remainder DEF TimerType
  <2> QED
    BY <1>3, <2>1 DEF timer_callback, TimerType
<1>4. ASSUME NEW n \in Waits, timer_wait(n)
      PROVE  TimerType'
  <2>1. timer_ticks + n \in Nat /\ (timer_ticks + n) % TICKS \in 0 .. (TICKS - 1)
    BY <1>0, Remainder DEF TimerType
  <2>2. (timer_ticks + n) % TICKS \in Nat /\ n \in Nat
    BY <1>0, <2>1
  <2> QED
    BY <1>4, <2>2 DEF timer_wait, TimerType
<1>5. CASE timer_wait_check
  BY <1>5 DEF timer_wait_check, NoWait, TimerType
<1>6. CASE timer_wait_hlt
  BY <1>6 DEF timer_wait_hlt, TimerType
<1> QED
  BY <1>1, <1>2, <1>3, <1>4, <1>5, <1>6

\* The mouse's part of every step; a byte that is read leaves port 0x60 empty.
LEMMA MouseSteps ==
    ASSUME MouseType,
           \/ UNCHANGED <<obuf, config, driver, mouse>>
           \/ obuf' = [of |-> "key", value |-> 28] /\ UNCHANGED <<config, driver, mouse>>
           \/ ReadPort /\ UNCHANGED <<config, driver, mouse>>
           \/ ReadPort /\ mouse_handler(obuf.value) /\ UNCHANGED <<config, mouse>>
           \/ (\E p \in Packets : MouseByte(p)) \/ MouseAck \/ ConfigReply
           \/ mouse_init \/ mouse_init_ask \/ mouse_write \/ mouse_init_reset
           \/ mouse_wait_read \/ (mouse_read /\ ReadPort)
    PROVE  MouseType'
<1>0. /\ obuf \in [of : {"none", "key", "config", "ack", "mouse"}, value : 0 .. 255]
      /\ obuf.value \in 0 .. 255 /\ config \in 0 .. 255
      /\ ReadPort => /\ obuf' \in [of : {"none", "key", "config", "ack", "mouse"},
                                   value : 0 .. 255]
                     /\ obuf'.of = "none"
  BY DEF MouseType, ReadPort
<1>1. CASE UNCHANGED <<obuf, config, driver, mouse>>
  BY <1>1 DEF MouseType, driver, mouse
<1>2. CASE \/ obuf' = [of |-> "key", value |-> 28] /\ UNCHANGED <<config, driver, mouse>>
           \/ ReadPort /\ UNCHANGED <<config, driver, mouse>>
  BY <1>0, <1>2 DEF MouseType, driver, mouse
<1>3. CASE ReadPort /\ mouse_handler(obuf.value) /\ UNCHANGED <<config, mouse>>
  <2>1. int8(obuf.value) \in -128 .. 127
    BY <1>0, Int8Facts
  <2>2. /\ mouse_byte' = [mouse_byte EXCEPT ![mouse_cycle] = int8(obuf.value)]
        /\ mouse_cycle' = (mouse_cycle + 1) % 3
    BY <1>3 DEF mouse_handler
  <2>3. mouse_byte' \in [0 .. 2 -> -128 .. 127] /\ mouse_cycle' \in 0 .. 2
    BY <2>1, <2>2 DEF MouseType
  <2> QED
    BY <1>0, <1>3, <2>3 DEF MouseType, mouse
<1>4. ASSUME NEW p \in Packets, MouseByte(p)
      PROVE  MouseType'
  <2>1. \A i \in 1 .. 3 : Bytes(p)[i] \in 0 .. 255
    BY BytesFacts
  <2>2. PICK lost \in 0 .. 1 : LET at == (IF sent = 3 THEN 1 ELSE sent + 1) + lost
                               IN  /\ at <= 3
                                   /\ sent' = at
                                   /\ obuf' = [of |-> "mouse", value |-> Bytes(p)[at]]
    BY <1>4 DEF MouseByte, Losses
  <2>3. sent' \in 1 .. 3
    BY <2>2 DEF MouseType
  <2>4. obuf' = [of |-> "mouse", value |-> Bytes(p)[sent']]
    BY <2>2
  <2> QED
    BY <1>4, <2>1, <2>3, <2>4 DEF MouseType, MouseByte, driver
<1>5. CASE MouseAck \/ ConfigReply
  BY <1>0, <1>5 DEF MouseType, MouseAck, ConfigReply, driver, mouse
<1>6. CASE mouse_init \/ mouse_write \/ mouse_init_reset \/ mouse_wait_read
  BY <1>6 DEF MouseType, mouse_init, mouse_write, mouse_init_reset, mouse_wait_read, driver, mouse
<1>7. CASE mouse_init_ask
  BY <1>0, <1>7, BitFacts DEF MouseType, mouse_init_ask, driver, mouse
<1>8. CASE mouse_read /\ ReadPort
  <2>1. config' \in 0 .. 255
    BY <1>0, <1>8, BitFacts DEF mouse_read
  <2> QED
    BY <1>0, <1>8, <2>1 DEF MouseType, mouse_read, driver, mouse
<1> QED
  BY <1>1, <1>2, <1>3, <1>4, <1>5, <1>6, <1>7, <1>8

\* A step of a device: a line begins to request.
LEMMA RaiseSteps ==
    ASSUME PicInv, NEW l \in Lines \ {CASCADE}, NEW on, Raise(l, on),
           UNCHANGED cpu
    PROVE  PicInv'
BY DEF PicInv, Raise, cpu, InServiceIsHandled

\* The steps that take an interrupt.
LEMMA TakeSteps ==
    ASSUME PicInv, take_irq \/ take_spurious_master \/ take_spurious_slave
    PROVE  PicInv'
<1>0. vector = 0 /\ isr = {}
  BY DEF take_irq, take_spurious_master, take_spurious_slave, PicInv, InServiceIsHandled
<1>1. CASE take_irq
  <2>1. Granted \in Lines
    BY <1>1, GrantedFacts DEF take_irq, PicInv
  <2>2. /\ isr' = InService(Granted) /\ irr' \subseteq irr /\ imr' = imr
        /\ vector' = 32 + Granted /\ raised' = raised
    BY <1>0, <1>1 DEF take_irq, Acknowledge, Entered
  <2>3. vector' \in 32 .. 47 /\ vector' - 32 = Granted /\ InService(Granted) \subseteq Lines
    BY <2>1, <2>2 DEF Lines, Master, Slave, InService, CASCADE
  <2>4. InServiceIsHandled'
    BY <2>2, <2>3 DEF InServiceIsHandled
  <2> QED
    BY <2>2, <2>3, <2>4 DEF PicInv
<1>2. CASE take_spurious_master
  BY <1>0, <1>2 DEF take_spurious_master, Entered, pic, PicInv, InServiceIsHandled
<1>3. CASE take_spurious_slave
  <2>1. isr' = {2} /\ vector' = 47 /\ UNCHANGED <<irr, imr, raised>>
    BY <1>0, <1>3 DEF take_spurious_slave, Entered, CASCADE
  <2>2. InServiceIsHandled'
    BY <2>1 DEF InServiceIsHandled, InService, Slave, CASCADE
  <2>3. isr' \subseteq Lines
    BY <2>1 DEF Lines, Master, Slave
  <2> QED
    BY <2>1, <2>2, <2>3 DEF PicInv
<1> QED
  BY <1>1, <1>2, <1>3

\* The steps that end one: nothing is left in service.
LEMMA HandlerSteps ==
    ASSUME PicInv, irq_handler_spurious_master \/ irq_handler_spurious_slave \/ irq_handler
    PROVE  PicInv' /\ isr' = {}
<1>0. vector \in 32 .. 47 /\ isr \subseteq InService(vector - 32)
  BY DEF PicInv, InServiceIsHandled, irq_handler_spurious_master, irq_handler_spurious_slave,
         irq_handler
<1>1. vector' = 0 /\ imr' = imr /\ raised' = raised /\ irr' \subseteq irr
  BY DEF irq_handler_spurious_master, irq_handler_spurious_slave, irq_handler, Return,
         Handler, ReadPort
<1>2. isr' = {}
  <2>1. CASE irq_handler_spurious_master
    BY <1>0, <2>1 DEF irq_handler_spurious_master, InService, Slave
  <2>2. CASE irq_handler_spurious_slave
    <3>1. vector = 47 /\ isr \subseteq {2} /\ isr' = EOI(isr, Master)
      BY <1>0, <2>2 DEF irq_handler_spurious_slave, InService, Slave, CASCADE
    <3>2. EOI(isr, Master) = isr \ (Master \cap {2})
      <4>1. isr \cap Master \subseteq {2} /\ 2 \in Nat
        BY <3>1
      <4> QED
        BY <4>1, EOIFacts
    <3>3. 2 \in Master
      BY DEF Master
    <3> QED
      BY <3>1, <3>2, <3>3
  <2>3. CASE irq_handler
    BY <1>0, <2>3, ServedFacts DEF irq_handler
  <2> QED
    BY <2>1, <2>2, <2>3
<1> QED
  BY <1>1, <1>2 DEF PicInv, InServiceIsHandled

\* A step of the thread.
LEMMA ThreadSteps ==
    ASSUME PicInv, Thread
    PROVE  PicInv' /\ vector = 0 /\ vector' = 0 /\ isr = {} /\ isr' = {} /\ raised' = {}
<1>1. /\ vector = 0 /\ raised' = {} /\ vector' = 0 /\ UNCHANGED <<isr, imr>>
      /\ irr' \subseteq irr
  <2>1. CASE thread_waits
    BY <2>1 DEF thread_waits, Runs, pic, cpu
  <2>2. CASE thread_connects_mouse
    BY <2>2 DEF thread_connects_mouse, Runs, pic
  <2>3. CASE thread_runs
    BY <2>3 DEF thread_runs, Runs, pic, cpu
  <2> QED
    BY <2>1, <2>2, <2>3 DEF Thread
<1>2. isr = {}
  BY <1>1 DEF PicInv, InServiceIsHandled
<1> QED
  BY <1>1, <1>2 DEF PicInv, InServiceIsHandled

\* Its instructions at the ports.
LEMMA PortSteps ==
    ASSUME PicInv, Ports
    PROVE  /\ PicInv' /\ vector = 0 /\ irr' \subseteq irr /\ irr \subseteq irr' \cup {1, 12}
           /\ UNCHANGED <<isr, imr, raised, timer, cpu>>
<1>1. /\ vector = 0 /\ irr' \subseteq irr /\ irr \subseteq irr' \cup {1, 12}
      /\ UNCHANGED <<isr, imr, raised, timer, cpu>>
  BY DEF Ports, thread_polls_mouse, thread_reads_mouse, InsIsUnderWay, ReadPort, pic
<1>2. PicInv'
  BY <1>1 DEF PicInv, InServiceIsHandled, cpu
<1> QED
  BY <1>1, <1>2

LEMMA ServiceStep == ServiceInv /\ [Next]_vars => ServiceInv'
<1> SUFFICES ASSUME ServiceInv, [Next]_vars
             PROVE  ServiceInv'
  OBVIOUS
<1>0. PicInv /\ TimerType /\ MouseType
  BY DEF ServiceInv
<1>1. ASSUME UNCHANGED timer
      PROVE  TimerType'
  BY <1>0, <1>1 DEF TimerType, timer
<1>2. ASSUME UNCHANGED <<obuf, port>>
      PROVE  MouseType'
  BY <1>0, <1>2, MouseSteps DEF port
<1>3. CASE raise_timer
  <2>1. PicInv'
    <3>1. 0 \in Lines \ {CASCADE}
      BY DEF Lines, Master, CASCADE
    <3>2. Raise(0, TRUE) /\ UNCHANGED cpu
      BY <1>3, Zenon DEF raise_timer
    <3> QED
      BY <1>0, <3>1, <3>2, RaiseSteps
  <2> QED
    BY <1>1, <1>2, <1>3, <2>1 DEF raise_timer, ServiceInv
<1>4. CASE raise_key
  <2>1. PicInv'
    BY <1>0, <1>4, RaiseSteps DEF raise_key, Lines, Master, CASCADE
  <2>2. MouseType'
    BY <1>0, <1>4, MouseSteps DEF raise_key, port
  <2> QED
    BY <1>1, <1>4, <2>1, <2>2 DEF raise_key, ServiceInv
<1>5. CASE raise_mouse
  <2>1. PicInv'
    BY <1>0, <1>5, RaiseSteps DEF raise_mouse, Lines, Slave, CASCADE
  <2>2. MouseType'
    BY <1>0, <1>5, MouseSteps DEF raise_mouse
  <2> QED
    BY <1>1, <1>5, <2>1, <2>2 DEF raise_mouse, ServiceInv
<1>12. CASE raise_config
  <2>1. PicInv'
    BY <1>0, <1>12, RaiseSteps DEF raise_config, Lines, Master, CASCADE
  <2>2. MouseType'
    BY <1>0, <1>12, MouseSteps DEF raise_config
  <2> QED
    BY <1>1, <1>12, <2>1, <2>2 DEF raise_config, ServiceInv
<1>6. ASSUME NEW l \in Others, raise_other(l)
      PROVE  ServiceInv'
  <2>1. PicInv'
    BY <1>0, <1>6, RaiseSteps, InterruptsAssumption DEF raise_other, Lines
  <2> QED
    BY <1>1, <1>2, <1>6, <2>1 DEF raise_other, ServiceInv
<1>7. ASSUME NEW l \in Opened, unmask(l)
      PROVE  ServiceInv'
  <2>1. PicInv'
    BY <1>0, <1>7 DEF unmask, PicInv, InServiceIsHandled, cpu
  <2> QED
    BY <1>1, <1>2, <1>7, <2>1 DEF unmask, ServiceInv
<1>8. CASE take_irq \/ take_spurious_master \/ take_spurious_slave
  <2>1. PicInv'
    BY <1>0, <1>8, TakeSteps
  <2>2. wait' = TimerWakes /\ UNCHANGED <<timer_ticks, obuf, port>>
    BY <1>8 DEF take_irq, take_spurious_master, take_spurious_slave, Entered
  <2> QED
    BY <1>0, <1>2, <2>1, <2>2, TimerSteps DEF ServiceInv
<1>9. CASE irq_handler_spurious_master \/ irq_handler_spurious_slave \/ irq_handler
  <2>1. PicInv'
    BY <1>0, <1>9, HandlerSteps
  <2>2. CASE irq_handler_spurious_master \/ irq_handler_spurious_slave
    <3>1. UNCHANGED <<timer, obuf, port>>
      BY <2>2 DEF irq_handler_spurious_master, irq_handler_spurious_slave
    <3> QED
      BY <1>1, <1>2, <2>1, <3>1 DEF ServiceInv
  <2>3. CASE irq_handler
    <3>1. \/ timer_callback /\ UNCHANGED <<obuf, port>>
          \/ ReadPort /\ UNCHANGED <<timer, port>>
          \/ ReadPort /\ mouse_handler(obuf.value) /\ UNCHANGED <<timer, config, mouse>>
          \/ UNCHANGED <<timer, obuf, port>>
      BY <2>3 DEF irq_handler, Handler
    <3>2. TimerType'
      BY <1>0, <1>1, <3>1, TimerSteps
    <3>3. MouseType'
      BY <1>0, <1>2, <3>1, MouseSteps DEF port
    <3> QED
      BY <2>1, <3>2, <3>3 DEF ServiceInv
  <2> QED
    BY <1>9, <2>2, <2>3
<1>10. CASE Thread
  <2>1. PicInv'
    BY <1>0, <1>10, ThreadSteps
  <2>2. TimerType'
    <3>1. \/ UNCHANGED timer
          \/ (\E n \in Waits : timer_wait(n)) \/ timer_wait_check \/ timer_wait_hlt
      BY <1>10 DEF Thread, thread_waits, thread_connects_mouse, thread_runs
    <3> QED
      BY <1>0, <1>1, <3>1, TimerSteps
  <2>3. MouseType'
    <3>1. \/ UNCHANGED <<obuf, port>>
          \/ mouse_init \/ mouse_init_ask \/ mouse_write \/ mouse_init_reset
      BY <1>10 DEF Thread, thread_waits, thread_connects_mouse, thread_runs
    <3> QED
      BY <1>0, <1>2, <3>1, MouseSteps
  <2> QED
    BY <2>1, <2>2, <2>3 DEF ServiceInv
<1>13. CASE Ports
  <2>1. PicInv' /\ UNCHANGED timer
    BY <1>0, <1>13, PortSteps
  <2>2. MouseType'
    BY <1>0, <1>13, MouseSteps DEF Ports, thread_polls_mouse, thread_reads_mouse
  <2> QED
    BY <1>1, <2>1, <2>2 DEF ServiceInv
<1>11. CASE UNCHANGED vars
  <2>1. UNCHANGED <<pic, timer, obuf, port, vector, raised>>
    BY <1>11 DEF vars
  <2>2. PicInv'
    BY <1>0, <2>1 DEF PicInv, InServiceIsHandled, pic
  <2> QED
    BY <1>1, <1>2, <2>1, <2>2 DEF ServiceInv
<1> QED
  BY <1>3, <1>4, <1>5, <1>6, <1>7, <1>8, <1>9, <1>10, <1>11, <1>12, <1>13
     DEF Next, Devices, Cpu

\* irq_handler() leaves no line in service behind it, whatever was raised, masked, spurious
\* or without a driver: the EOIs it sends are those that the controllers wait for.  A line
\* left in service would hold back every line below it.
THEOREM NothingStaysInService == Spec => []ServiceIsSound
BY ServiceInit, ServiceStep, ServiceSound, PTL DEF Spec

-----------------------------------------------------------------------------
(* timer_wait().                                                           *)

LEMMA WaitInit == Init => WaitInv
BY DEF Init, pic_remap, timer_init, WaitInv, Slave

\* A step that neither brings nor counts a tick.
LEMMA WaitQuiet ==
    ASSUME WaitInv, imr' \subseteq imr, 0 \in irr' <=> 0 \in irr, vector' = 32 <=> vector = 32,
           0 \in raised' <=> 0 \in raised, UNCHANGED timer
    PROVE  WaitInv'
<1>1. wait' = wait /\ timer_ticks' = timer_ticks /\ Coming' = Coming
  BY DEF timer, Coming
<1> HIDE DEF Coming
<1> QED
  BY <1>1 DEF WaitInv

\* The PIT raises its line, which it does once between two steps of the thread.
LEMMA WaitRaised ==
    ASSUME ServiceInv, WaitInv, raise_timer
    PROVE  WaitInv'
<1>1. /\ wait' = wait /\ timer_ticks' = timer_ticks /\ vector' = vector /\ imr' = imr
      /\ 0 \notin raised /\ 0 \in raised' /\ 0 \in irr'
  BY DEF raise_timer, Raise, timer, cpu
<1>2. vector # 32 /\ Coming = 0 /\ Coming' = 1
  BY <1>1 DEF WaitInv, Coming
<1> HIDE DEF Coming
<1> QED
  BY <1>1, <1>2 DEF WaitInv, ServiceInv, TimerType

\* The CPU takes an interrupt: a tick that had come is now being handled.
LEMMA WaitTaken ==
    ASSUME ServiceInv, WaitInv, take_irq \/ take_spurious_master \/ take_spurious_slave
    PROVE  WaitInv'
<1>1. /\ wait' = TimerWakes /\ timer_ticks' = timer_ticks /\ raised' = raised /\ imr' = imr
      /\ vector = 0
  BY DEF take_irq, take_spurious_master, take_spurious_slave, Entered, Acknowledge, pic
<1>2. (0 \in irr' \/ vector' = 32 <=> 0 \in irr) /\ ~(0 \in irr' /\ vector' = 32)
  <2>1. CASE take_irq
    <3>1. Granted \in Lines /\ Granted \in irr
      BY <2>1, GrantedFacts DEF take_irq, ServiceInv, PicInv
    <3>2. irr' = irr \ {Granted} /\ vector' = 32 + Granted
      BY <2>1 DEF take_irq, Acknowledge, Entered
    <3>3. vector' = 32 <=> Granted = 0
      BY <3>1, <3>2 DEF Lines, Master, Slave
    <3> QED
      BY <3>1, <3>2, <3>3
  <2>2. CASE take_spurious_master \/ take_spurious_slave
    BY <2>2 DEF take_spurious_master, take_spurious_slave, Entered, pic
  <2> QED
    BY <2>1, <2>2
<1>3. Coming' = Coming
  BY <1>1, <1>2 DEF Coming
<1>4. /\ wait'.ticks = wait.ticks /\ wait'.end_tick = wait.end_tick
      /\ wait'.elapsed = wait.elapsed
      /\ wait'.pc = IF wait.pc = "halted" THEN "check" ELSE wait.pc
      /\ wait.pc = "none" => wait' = wait
  BY <1>1 DEF TimerWakes, ServiceInv, TimerType
<1>5. wait'.pc = "hlt" <=> wait.pc = "hlt"
  BY <1>4
<1>6. wait'.pc = "none" <=> wait.pc = "none"
  BY <1>4
<1>7. wait' # NoWait => wait # NoWait
  BY <1>4, <1>6 DEF NoWait
<1> HIDE DEF Coming
<1> QED
  BY <1>1, <1>2, <1>3, <1>4, <1>5, <1>6, <1>7 DEF WaitInv

\* The handler counts the tick.
LEMMA WaitCounted ==
    ASSUME ServiceInv, WaitInv,
           irq_handler_spurious_master \/ irq_handler_spurious_slave \/ irq_handler
    PROVE  WaitInv' /\ (wait # NoWait => wait' # NoWait)
<1>1. vector' = 0 /\ imr' = imr /\ raised' = raised /\ (0 \in irr' <=> 0 \in irr)
  BY DEF irq_handler_spurious_master, irq_handler_spurious_slave, irq_handler, Return,
         Handler, ReadPort
<1>2. CASE UNCHANGED timer
  <2>1. wait' = wait /\ timer_ticks' = timer_ticks
    BY <1>2 DEF timer
  <2>2. Coming' <= Coming /\ Coming' \in {0, 1} /\ Coming \in {0, 1}
    BY <1>1 DEF Coming
  <2> HIDE DEF Coming
  <2> QED
    BY <1>1, <2>1, <2>2 DEF WaitInv, ServiceInv, TimerType
<1>3. CASE vector = 32 /\ timer_callback
  <2>1. 0 \notin irr /\ 0 \in raised /\ Coming = 1 /\ Coming' = 0
    BY <1>1, <1>3 DEF WaitInv, Coming
  <2>2. CASE wait = NoWait
    BY <1>1, <1>3, <2>1, <2>2 DEF timer_callback, WaitInv
  <2>3. CASE wait # NoWait
    <3> HIDE DEF Coming
    <3>1. /\ wait' = [wait EXCEPT !.elapsed = @ + 1]
          /\ timer_ticks' = (timer_ticks + 1) % TICKS
      BY <1>3, <2>3 DEF timer_callback
    <3>2. /\ wait.pc \in {"check", "hlt", "halted"} /\ wait.ticks \in Nat
          /\ wait.end_tick \in Nat /\ wait.elapsed \in Nat /\ timer_ticks \in Nat
      BY <2>3 DEF WaitInv, ServiceInv, TimerType
    <3>3. /\ timer_ticks = (wait.end_tick - wait.ticks) + wait.elapsed
          /\ wait.ticks <= wait.end_tick /\ wait.end_tick + 1 < TICKS
          /\ wait.pc = "hlt" => wait.elapsed + 1 <= wait.ticks
          /\ wait.pc # "hlt" => wait.elapsed + 1 <= wait.ticks + 1
      BY <2>1, <2>3 DEF WaitInv
    <3>4. timer_ticks + 1 < TICKS /\ timer_ticks + 1 \in Nat
      BY <3>2, <3>3, TimerAssumption
    <3>5. timer_ticks' = timer_ticks + 1
      BY <3>1, <3>4, Remainder, TimerAssumption
    <3>6. /\ wait'.pc = wait.pc /\ wait'.ticks = wait.ticks /\ wait'.end_tick = wait.end_tick
          /\ wait'.elapsed = wait.elapsed + 1
      BY <3>1 DEF ServiceInv, TimerType
    <3>7. wait' # NoWait
      BY <3>2, <3>6 DEF NoWait
    <3>8. /\ timer_ticks' = (wait'.end_tick - wait'.ticks) + wait'.elapsed
          /\ wait'.pc = "hlt" => wait'.elapsed + Coming' <= wait'.ticks
          /\ wait'.pc # "hlt" => wait'.elapsed + Coming' <= wait'.ticks + 1
      BY <2>1, <3>2, <3>3, <3>5, <3>6
    <3> QED
      BY <1>1, <2>1, <3>2, <3>3, <3>6, <3>7, <3>8 DEF WaitInv
  <2> QED
    BY <2>2, <2>3
<1> QED
  BY <1>2, <1>3 DEF irq_handler_spurious_master, irq_handler_spurious_slave, irq_handler, Handler

\* The action that WaitIsExact forbids to be otherwise.
ExactEnd ==
    wait # NoWait /\ wait' = NoWait => wait.elapsed \in wait.ticks .. (wait.ticks + 1)

\* The thread runs when no tick has come: it compares the counter as it is.
LEMMA WaitThread ==
    ASSUME ~WrapsTicks, ServiceInv, WaitInv, Thread
    PROVE  WaitInv' /\ ExactEnd
<1>1. vector = 0 /\ vector' = 0 /\ isr = {} /\ raised' = {}
  BY ThreadSteps DEF ServiceInv
<1>2. imr' = imr /\ irr' \subseteq irr /\ ~INT
  BY DEF Thread, thread_waits, thread_connects_mouse, thread_runs, Runs, pic
<1>3. 0 \notin irr /\ 0 \notin irr'
  BY <1>1, <1>2, QuietFacts DEF WaitInv
<1>4. Coming = 0 /\ Coming' = 0
  BY <1>1, <1>3 DEF Coming
<1> HIDE DEF Coming
<1>5. /\ wait.ticks \in Nat /\ wait.end_tick \in Nat /\ wait.elapsed \in Nat
      /\ timer_ticks \in Nat
  BY TimerAssumption DEF ServiceInv, TimerType
<1>6. CASE wait = NoWait /\ UNCHANGED timer
  BY <1>1, <1>2, <1>3, <1>6 DEF WaitInv, ExactEnd, timer
<1>7. ASSUME NEW n \in Waits, timer_wait(n)
      PROVE  WaitInv' /\ ExactEnd
  <2>1. /\ wait = NoWait /\ timer_ticks + n + 1 < TICKS /\ timer_ticks' = timer_ticks
        /\ wait' = [pc |-> "check", ticks |-> n, end_tick |-> (timer_ticks + n) % TICKS,
                    elapsed |-> 0]
    BY <1>7 DEF timer_wait
  <2>2. n \in Nat /\ TICKS \in Nat \ {0} /\ timer_ticks + n \in Nat
    BY <1>5, TimerAssumption
  <2>3. (timer_ticks + n) % TICKS = timer_ticks + n
    <3>1. timer_ticks + n < TICKS
      BY <1>5, <2>1, <2>2
    <3> QED
      BY <2>2, <3>1, Remainder
  <2>4. /\ wait'.pc = "check" /\ wait'.ticks = n /\ wait'.end_tick = timer_ticks + n
        /\ wait'.elapsed = 0
    BY <2>1, <2>3
  <2> QED
    BY <1>1, <1>2, <1>3, <1>4, <1>5, <2>1, <2>2, <2>4 DEF WaitInv, ExactEnd
<1>8. CASE timer_wait_check
  <2>1. wait # NoWait /\ wait.pc = "check" /\ timer_ticks' = timer_ticks
    BY <1>8 DEF timer_wait_check, NoWait
  <2>2. /\ timer_ticks = (wait.end_tick - wait.ticks) + wait.elapsed
        /\ wait.ticks <= wait.end_tick /\ wait.end_tick + 1 < TICKS
        /\ wait.elapsed <= wait.ticks + 1
    BY <1>4, <1>5, <2>1 DEF WaitInv
  <2>3. CASE timer_ticks < wait.end_tick
    <3>1. /\ wait'.pc = "hlt" /\ wait'.ticks = wait.ticks /\ wait'.end_tick = wait.end_tick
          /\ wait'.elapsed = wait.elapsed
      BY <1>8, <2>3 DEF timer_wait_check, ServiceInv, TimerType
    <3>2. wait.elapsed < wait.ticks /\ wait' # NoWait
      BY <1>5, <2>2, <2>3, <3>1 DEF NoWait
    <3> QED
      BY <1>1, <1>2, <1>3, <1>4, <1>5, <2>1, <2>2, <3>1, <3>2 DEF WaitInv, ExactEnd
  <2>4. CASE ~(timer_ticks < wait.end_tick)
    <3>1. wait' = NoWait
      BY <1>8, <2>4 DEF timer_wait_check
    <3>2. wait.elapsed \in wait.ticks .. (wait.ticks + 1)
      BY <1>5, <2>2, <2>4
    <3> QED
      BY <1>1, <1>2, <1>3, <3>1, <3>2 DEF WaitInv, ExactEnd
  <2> QED
    BY <2>3, <2>4
<1>9. CASE timer_wait_hlt
  <2>1. wait # NoWait /\ wait.pc = "hlt" /\ timer_ticks' = timer_ticks
    BY <1>9 DEF timer_wait_hlt, NoWait
  <2>2. /\ wait'.pc = "halted" /\ wait'.ticks = wait.ticks /\ wait'.end_tick = wait.end_tick
        /\ wait'.elapsed = wait.elapsed
    BY <1>9 DEF timer_wait_hlt, ServiceInv, TimerType
  <2>3. /\ timer_ticks = (wait.end_tick - wait.ticks) + wait.elapsed
        /\ wait.ticks <= wait.end_tick /\ wait.end_tick + 1 < TICKS
        /\ wait.elapsed <= wait.ticks
    BY <1>4, <1>5, <2>1 DEF WaitInv
  <2>4. wait' # NoWait
    BY <2>2 DEF NoWait
  <2> QED
    BY <1>1, <1>2, <1>3, <1>4, <1>5, <2>1, <2>2, <2>3, <2>4 DEF WaitInv, ExactEnd
<1> QED
  BY <1>6, <1>7, <1>8, <1>9
     DEF Thread, thread_waits, thread_connects_mouse, thread_runs

LEMMA WaitStep ==
    ASSUME ~WrapsTicks, ServiceInv, WaitInv, [Next]_vars
    PROVE  WaitInv' /\ ExactEnd
<1>1. CASE raise_timer
  BY <1>1, WaitRaised DEF raise_timer, timer, ExactEnd
<1>2. ASSUME NEW l \in Lines \ {0}, NEW on, Raise(l, on), UNCHANGED <<timer, cpu>>
      PROVE  WaitInv' /\ ExactEnd
  <2>1. WaitInv'
    BY <1>2, WaitQuiet DEF Raise, cpu
  <2> QED
    BY <1>2, <2>1 DEF timer, ExactEnd
<1>3. CASE raise_key
  BY <1>2, <1>3 DEF raise_key, Lines, Master
<1>4. CASE raise_mouse
  BY <1>2, <1>4 DEF raise_mouse, Lines, Slave
<1>11. CASE raise_config
  BY <1>2, <1>11 DEF raise_config, Lines, Master
<1>5. ASSUME NEW l \in Others, raise_other(l)
      PROVE  WaitInv' /\ ExactEnd
  BY <1>2, <1>5, InterruptsAssumption DEF raise_other, Lines
<1>6. ASSUME NEW l \in Opened, unmask(l)
      PROVE  WaitInv' /\ ExactEnd
  <2>1. WaitInv'
    BY <1>6, WaitQuiet DEF unmask, cpu
  <2> QED
    BY <1>6, <2>1 DEF unmask, timer, ExactEnd
<1>7. CASE take_irq \/ take_spurious_master \/ take_spurious_slave
  <2>1. wait' = TimerWakes
    BY <1>7 DEF take_irq, take_spurious_master, take_spurious_slave, Entered
  <2>2. wait'.pc # "none" \/ wait.pc = "none"
    BY <2>1 DEF TimerWakes, ServiceInv, TimerType
  <2>3. ExactEnd
    BY <2>2 DEF ExactEnd, NoWait, WaitInv
  <2> QED
    BY <1>7, <2>3, WaitTaken
<1>8. CASE irq_handler_spurious_master \/ irq_handler_spurious_slave \/ irq_handler
  BY <1>8, WaitCounted DEF ExactEnd
<1>9. CASE Thread
  BY <1>9, WaitThread
<1>12. CASE Ports
  <2>1. /\ 0 \in irr' <=> 0 \in irr
        /\ UNCHANGED <<imr, raised, timer, vector>>
    BY <1>12, PortSteps DEF ServiceInv, cpu
  <2>2. WaitInv'
    BY <2>1, WaitQuiet
  <2> QED
    BY <2>1, <2>2 DEF timer, ExactEnd
<1>10. CASE UNCHANGED vars
  <2>1. WaitInv'
    BY <1>10, WaitQuiet DEF vars, pic
  <2> QED
    BY <1>10, <2>1 DEF vars, timer, ExactEnd
<1> QED
  BY <1>1, <1>3, <1>4, <1>5, <1>6, <1>7, <1>8, <1>9, <1>10, <1>11, <1>12
     DEF Next, Devices, Cpu

\* timer_wait(n) returns after n ticks, or after n + 1 when a tick falls between its
\* comparison and the hlt, as long as the counter does not wrap around: for every n, and
\* whatever interrupts of other devices wake the thread.
THEOREM WaitsAreExact ==
    ASSUME ~WrapsTicks
    PROVE  Spec => WaitIsExact
<1>1. ServiceInv /\ WaitInv /\ [Next]_vars => WaitInv'
  BY WaitStep
<1>2. ServiceInv /\ WaitInv /\ [Next]_vars
         => [wait # NoWait /\ wait' = NoWait =>
                wait.elapsed \in wait.ticks .. (wait.ticks + 1)]_vars
  BY WaitStep DEF ExactEnd
<1> QED
  BY <1>1, <1>2, ServiceInit, ServiceStep, WaitInit, PTL DEF Spec, WaitIsExact

-----------------------------------------------------------------------------
(* mouse_init() and the packets of the mouse.                              *)

MouseInv == InitInv /\ PortInv /\ ConfigInv /\ ExchangeInv /\ PacketInv

\* mouse_init() leaves the keyboard's interrupt enabled, and has started the mouse's clock.
LEMMA ConfigFacts ==
    LET enabled == Clear(CONFIG, AUX_OFF)
        last == Set(enabled, AUX_INT)
    IN  /\ Bit(CONFIG, KBD_INT) /\ Bit(enabled, KBD_INT) /\ Bit(last, KBD_INT)
        /\ ~Bit(last, AUX_OFF)
<1> DEFINE enabled == Clear(CONFIG, AUX_OFF)
<1>0. CONFIG \in 0 .. 255 /\ Bit(CONFIG, KBD_INT)
  BY MouseAssumption
<1>1. enabled \in 0 .. 255 /\ Bit(enabled, KBD_INT) /\ ~Bit(enabled, AUX_OFF)
  BY <1>0 DEF Clear, Bit, KBD_INT, AUX_OFF
<1>2. Bit(Set(enabled, AUX_INT), KBD_INT) /\ ~Bit(Set(enabled, AUX_INT), AUX_OFF)
  <2> HIDE DEF enabled
  <2> QED
    BY <1>1 DEF Set, Bit, KBD_INT, AUX_OFF, AUX_INT
<1> QED
  BY <1>0, <1>1, <1>2

LEMMA ConfigKeeps ==
    ASSUME ConfigInv
    PROVE  /\ ConfigIsKept /\ Bit(config, KBD_INT)
           /\ exchange # "config" => ~Bit(config, AUX_OFF)
BY ConfigFacts DEF ConfigInv, ConfigIsKept

LEMMA PacketInit == Init => MouseInv
<1> SUFFICES ASSUME Init
             PROVE  MouseInv
  OBVIOUS
<1>1. InitInv /\ PortInv
  BY DEF Init, pic_remap, MouseInit, InitInv, PortInv, Slave
<1>2. ConfigInv /\ ExchangeInv /\ PacketInv
  BY DEF Init, MouseInit, ConfigInv, ExchangeInv, PacketInv, PacketsStayWhole
<1> QED
  BY <1>1, <1>2 DEF MouseInv

\* A step that leaves the port alone.
LEMMA PacketQuiet ==
    ASSUME MouseInv, UNCHANGED <<obuf, port, interrupt_handlers>>,
           imr' \subseteq imr, init_pc # "done" => 12 \in imr',
           1 \in irr' \/ vector' = 33 <=> 1 \in irr \/ vector = 33,
           12 \in irr' \/ vector' = 44 => 12 \in irr \/ vector = 44,
           init_pc # "done" => vector' # 44
    PROVE  MouseInv'
<1>1. UNCHANGED <<obuf, config, answer, mouse_cycle, mouse_byte, init_pc, exchange, packet, sent,
                  reporting, interrupt_handlers>>
  BY DEF port, driver, place, mouse
<1>2. InitInv' /\ PortInv'
  BY <1>1 DEF MouseInv, InitInv, PortInv
<1>3. ConfigInv' /\ ExchangeInv'
  BY <1>1 DEF MouseInv, ConfigInv, ExchangeInv
<1>4. PacketInv'
  BY <1>1 DEF MouseInv, PacketInv, PacketsStayWhole
<1> QED
  BY <1>2, <1>3, <1>4 DEF MouseInv

\* A byte that is not the mouse's comes or goes: the packets are as they were.
LEMMA PacketKept ==
    ASSUME PacketInv, obuf.of # "mouse", obuf'.of # "mouse", UNCHANGED <<driver, place, mouse>>
    PROVE  PacketInv'
<1>1. UNCHANGED <<mouse_cycle, mouse_byte, init_pc, exchange, packet, sent, reporting>>
  BY DEF driver, place, mouse
<1>2. PacketsStayWhole'
  BY <1>1 DEF PacketInv, PacketsStayWhole
<1> QED
  BY <1>1, <1>2 DEF PacketInv

\* A key comes when mouse_init() does not run.
LEMMA PacketKey ==
    ASSUME MouseFaults = {}, MouseInv, raise_key
    PROVE  MouseInv'
<1>1. /\ init_pc \in {"none", "done"} /\ obuf.of = "none" /\ obuf'.of = "key"
      /\ UNCHANGED <<config, answer, driver, place, mouse>>
      /\ UNCHANGED <<init_pc, exchange, imr, vector, interrupt_handlers>>
  BY DEF raise_key, Empty, Raise, port, place, cpu
<1>2. irr' = irr \cup {1}
  <2>1. Bit(config, KBD_INT)
    BY ConfigKeeps DEF MouseInv
  <2> QED
    BY <2>1 DEF raise_key, Raise
<1>3. InitInv' /\ PortInv'
  BY <1>1, <1>2 DEF MouseInv, InitInv, PortInv
<1>4. ConfigInv' /\ ExchangeInv'
  BY <1>1 DEF MouseInv, ConfigInv, ExchangeInv
<1>5. PacketInv'
  BY <1>1, PacketKept DEF MouseInv
<1> QED
  BY <1>3, <1>4, <1>5 DEF MouseInv

\* The controller tells its configuration byte, or the mouse acknowledges.
LEMMA PacketAnswer ==
    ASSUME MouseFaults = {}, MouseInv, raise_config \/ (raise_mouse /\ MouseAck)
    PROVE  MouseInv'
<1>1. UNCHANGED <<config, driver, place, mouse, imr, vector, interrupt_handlers, init_pc, exchange>>
  BY DEF raise_config, raise_mouse, ConfigReply, MouseAck, Raise, place, cpu
<1>2. obuf.of = "none" /\ answer' = "none" /\ init_pc = "poll"
  BY DEF raise_config, raise_mouse, ConfigReply, MouseAck, Empty, MouseInv, ExchangeInv
<1>3. \/ /\ exchange = "config" /\ obuf' = [of |-> "config", value |-> config]
         /\ irr' \subseteq irr \cup {1}
      \/ exchange # "config" /\ obuf'.of = "ack" /\ irr' \subseteq irr \cup {12}
  BY <1>2 DEF raise_config, raise_mouse, ConfigReply, MouseAck, Raise, MouseInv, ExchangeInv
<1>4. InitInv' /\ PortInv'
  BY <1>1, <1>2, <1>3 DEF MouseInv, InitInv, PortInv
<1>5. ConfigInv' /\ ExchangeInv'
  BY <1>1, <1>2, <1>3 DEF MouseInv, ConfigInv, ExchangeInv
<1>6. PacketInv'
  BY <1>1, <1>2, <1>3, PacketKept DEF MouseInv
<1> QED
  BY <1>4, <1>5, <1>6 DEF MouseInv

\* A byte of the mouse reaches the output buffer: the next one of the packet.
LEMMA PacketSent ==
    ASSUME MouseFaults = {}, MouseType, MouseInv, raise_mouse, NEW p \in Packets, MouseByte(p)
    PROVE  MouseInv'
<1>1. /\ reporting /\ answer # "ack" /\ obuf.of = "none" /\ (sent < 3 => p = packet) /\ packet' = p
      /\ sent' = (IF sent = 3 THEN 1 ELSE sent + 1)
      /\ obuf' = [of |-> "mouse", value |-> Bytes(packet')[sent']]
      /\ UNCHANGED <<config, answer, mouse_cycle, mouse_byte, init_pc, exchange, reporting>>
  BY DEF MouseByte, Losses, driver, place, MouseType, Empty
<1>2. init_pc \in {"reset", "done"} /\ exchange = "stream"
  BY <1>1 DEF MouseInv, PacketInv, ExchangeInv, InitInv
<1>3. irr' \subseteq irr \cup {12} /\ UNCHANGED <<imr, vector, interrupt_handlers>>
  BY DEF raise_mouse, Raise, cpu
<1>4. sent \in 1 .. 3 /\ mouse_cycle = sent % 3
  BY <1>1 DEF MouseInv, PacketInv, PacketsStayWhole, MouseType
<1>5. mouse_cycle' = (sent' - 1) % 3
  BY <1>1, <1>4
<1>6. ASSUME NEW i \in 0 .. (mouse_cycle' - 1)
      PROVE  mouse_byte'[i] % 256 = Bytes(packet')[i + 1]
  <2>1. sent < 3 /\ i \in 0 .. (mouse_cycle - 1) /\ packet' = packet
    BY <1>1, <1>4, <1>6
  <2> QED
    BY <1>1, <2>1 DEF MouseInv, PacketInv, PacketsStayWhole
<1>7. obuf'.of = "mouse" /\ obuf'.value = Bytes(packet')[sent']
  BY <1>1
<1>8. PacketsStayWhole'
  BY <1>5, <1>6, <1>7 DEF PacketsStayWhole
<1>9. PacketInv'
  BY <1>1, <1>2, <1>7, <1>8 DEF MouseInv, PacketInv
<1>10. InitInv' /\ PortInv'
  BY <1>1, <1>2, <1>3, <1>7 DEF MouseInv, InitInv, PortInv
<1>11. ConfigInv' /\ ExchangeInv'
  BY <1>1, <1>2, <1>7 DEF MouseInv, ConfigInv, ExchangeInv
<1> QED
  BY <1>9, <1>10, <1>11 DEF MouseInv

\* The keyboard's handler takes the byte: its own, or the configuration byte, which the
\* port tells again.
LEMMA PacketKeyRead ==
    ASSUME MouseType, MouseInv, irq_handler, vector = 33
    PROVE  MouseInv'
<1>1. /\ ReadPort /\ vector' = 0
      /\ UNCHANGED <<config, answer, driver, place, mouse, imr, interrupt_handlers>>
      /\ UNCHANGED <<init_pc, exchange>>
  BY DEF irq_handler, Handler, Return, port, place, MouseInv, InitInv
<1>2. obuf'.of = "none" /\ obuf'.value = obuf.value /\ irr' = irr \ {1, 12}
  BY <1>1 DEF ReadPort, MouseType
<1>3. obuf.of \in {"key", "config"}
  BY DEF MouseInv, PortInv
<1>4. InitInv' /\ PortInv'
  BY <1>1, <1>2 DEF MouseInv, InitInv, PortInv
<1>5. ConfigInv' /\ ExchangeInv'
  BY <1>1, <1>2, <1>3 DEF MouseInv, ConfigInv, ExchangeInv
<1>6. PacketInv'
  BY <1>1, <1>2, <1>3, PacketKept DEF MouseInv
<1> QED
  BY <1>4, <1>5, <1>6 DEF MouseInv

\* The mouse's handler stores the byte where it belongs.
LEMMA PacketStored ==
    ASSUME MouseType, MouseInv, irq_handler, vector = 44
    PROVE  MouseInv'
<1>0. init_pc = "done" /\ exchange = "stream" /\ reporting /\ 44 \in interrupt_handlers
  BY DEF MouseInv, InitInv, PacketInv
<1>1. /\ ReadPort /\ mouse_handler(obuf.value) /\ vector' = 0
      /\ UNCHANGED <<config, answer, imr, interrupt_handlers>>
      /\ UNCHANGED <<init_pc, exchange, packet, sent, reporting>>
  <2>1. /\ ReadPort /\ mouse_handler(obuf.value) /\ UNCHANGED <<config, answer, place, mouse>>
        /\ Return
    BY <1>0 DEF irq_handler, Handler
  <2> QED
    BY <2>1 DEF Return, place, mouse
<1>2. obuf.of = "mouse"
  BY <1>0 DEF MouseInv, PortInv, ExchangeInv
<1>3. obuf'.of = "none" /\ irr' = irr \ {1, 12}
  BY <1>1 DEF ReadPort, MouseType
<1>4. /\ mouse_byte' = [mouse_byte EXCEPT ![mouse_cycle] = int8(obuf.value)]
      /\ mouse_cycle' = (mouse_cycle + 1) % 3
  BY <1>1 DEF mouse_handler
<1>5. sent \in 1 .. 3 /\ mouse_cycle = (sent - 1) % 3
  BY <1>0, <1>2 DEF MouseInv, PacketInv, PacketsStayWhole, MouseType
<1>6. mouse_cycle = sent - 1 /\ mouse_cycle' = sent % 3
  BY <1>4, <1>5
<1>7. int8(obuf.value) % 256 = Bytes(packet)[sent]
  BY <1>2, Int8Facts DEF MouseType, MouseInv, PacketInv
<1>8. ASSUME NEW i \in 0 .. (mouse_cycle' - 1)
      PROVE  mouse_byte'[i] % 256 = Bytes(packet')[i + 1]
  <2>1. i \in 0 .. mouse_cycle /\ i \in 0 .. 2 /\ mouse_cycle \in 0 .. 2
    BY <1>5, <1>6, <1>8
  <2>2. CASE i = mouse_cycle
    <3>1. mouse_byte'[i] = int8(obuf.value) /\ i + 1 = sent
      BY <1>4, <1>5, <1>6, <2>1, <2>2 DEF MouseType
    <3> QED
      BY <1>1, <1>7, <3>1
  <2>3. CASE i # mouse_cycle
    <3>1. i \in 0 .. (mouse_cycle - 1) /\ mouse_byte'[i] = mouse_byte[i]
      BY <1>4, <2>1, <2>3 DEF MouseType
    <3> QED
      BY <1>0, <1>1, <3>1 DEF MouseInv, PacketInv, PacketsStayWhole
  <2> QED
    BY <2>2, <2>3
<1>9. mouse_cycle' = (sent' - 0) % 3
  BY <1>1, <1>5, <1>6
<1>10. PacketsStayWhole'
  BY <1>3, <1>8, <1>9 DEF PacketsStayWhole
<1>11. PacketInv'
  BY <1>0, <1>1, <1>3, <1>10 DEF MouseInv, PacketInv
<1>12. InitInv' /\ PortInv'
  BY <1>0, <1>1, <1>3 DEF MouseInv, InitInv, PortInv
<1>13. ConfigInv' /\ ExchangeInv'
  BY <1>0, <1>1, <1>3 DEF MouseInv, ConfigInv, ExchangeInv
<1> QED
  BY <1>11, <1>12, <1>13 DEF MouseInv

\* mouse_init() sends a command, or resets the state: nothing requests at that moment.
LEMMA PacketConnects ==
    ASSUME MouseFaults = {}, MouseType, MouseInv, PicInv, thread_connects_mouse
    PROVE  MouseInv'
<1>1. /\ vector = 0 /\ vector' = 0 /\ UNCHANGED <<irr, imr, obuf>> /\ ~INT /\ isr = {}
      /\ UNCHANGED <<mouse_cycle, mouse_byte, packet>>
      /\ interrupt_handlers \subseteq interrupt_handlers'
  BY DEF thread_connects_mouse, Runs, pic, register_interrupt_handler, mouse_init, mouse_init_ask,
         mouse_write, mouse_init_reset, driver, mouse, PicInv, InServiceIsHandled
<1>2. 1 \notin irr /\ obuf.of # "key"
  BY <1>1, QuietFacts DEF MouseInv, InitInv, PortInv
<1>3. PortInv'
  BY <1>1, <1>2 DEF MouseInv, PortInv
<1>4. CASE mouse_init /\ register_interrupt_handler(44)
  <2>1. /\ init_pc = "none" /\ exchange = "config" /\ init_pc' = "send" /\ exchange' = "config"
        /\ UNCHANGED <<config, answer, sent, reporting>> /\ 44 \in interrupt_handlers'
    BY <1>4 DEF mouse_init, register_interrupt_handler, mouse, MouseInv, InitInv
  <2>2. obuf.of = "none" /\ ~reporting /\ sent = 3 /\ mouse_cycle = 0
    <3>1. ~reporting
      BY <2>1 DEF MouseInv, PacketInv
    <3> QED
      BY <1>2, <2>1, <3>1 DEF MouseType, MouseInv, ExchangeInv, PacketInv
  <2> QED
    BY <1>1, <1>3, <2>1, <2>2
       DEF MouseInv, InitInv, ConfigInv, ExchangeInv, PacketInv, PacketsStayWhole
<1>5. CASE mouse_init_ask /\ UNCHANGED interrupt_handlers
  <2>1. /\ init_pc = "send" /\ exchange = "config" /\ init_pc' = "poll" /\ exchange' = "config"
        /\ config' = Clear(config, AUX_OFF) /\ answer' = "config"
        /\ UNCHANGED <<sent, reporting, interrupt_handlers>>
    BY <1>5 DEF mouse_init_ask, mouse
  <2>2. obuf.of = "none" /\ ~reporting /\ sent = 3 /\ mouse_cycle = 0 /\ config = CONFIG
    <3>1. ~reporting
      BY <2>1 DEF MouseInv, PacketInv
    <3> QED
      BY <2>1, <3>1 DEF MouseInv, ExchangeInv, PacketInv, ConfigInv
  <2> QED
    BY <1>1, <1>3, <2>1, <2>2
       DEF MouseInv, InitInv, ConfigInv, ExchangeInv, PacketInv, PacketsStayWhole
<1>6. CASE mouse_write /\ UNCHANGED interrupt_handlers
  <2>1. /\ init_pc = "send" /\ exchange # "config" /\ init_pc' = "poll" /\ exchange' = exchange
        /\ config' = config /\ answer' = "ack" /\ sent' = 3 /\ reporting' = (exchange = "stream")
        /\ UNCHANGED interrupt_handlers
    BY <1>6 DEF mouse_write
  <2>2. obuf.of = "none" /\ mouse_cycle = 0
    <3>1. ~reporting
      BY <2>1 DEF MouseInv, PacketInv
    <3> QED
      BY <2>1, <3>1 DEF MouseInv, ExchangeInv, PacketInv
  <2>3. InitInv' /\ ConfigInv' /\ ExchangeInv'
    BY <1>1, <2>1, <2>2 DEF MouseInv, InitInv, ConfigInv, ExchangeInv
  <2>4. PacketInv'
    BY <1>1, <2>1, <2>2 DEF PacketInv, PacketsStayWhole
  <2> QED
    BY <1>3, <2>3, <2>4 DEF MouseInv
<1>7. CASE mouse_init_reset /\ UNCHANGED interrupt_handlers
  <2>1. /\ init_pc = "reset" /\ init_pc' = "done" /\ exchange' = exchange
        /\ UNCHANGED <<config, answer, sent, reporting, interrupt_handlers>>
    BY <1>7 DEF mouse_init_reset, mouse
  <2>2. InitInv' /\ ConfigInv' /\ ExchangeInv'
    BY <1>1, <2>1 DEF MouseInv, InitInv, ConfigInv, ExchangeInv
  <2>3. PacketInv'
    BY <1>1, <2>1 DEF MouseInv, InitInv, PacketInv, PacketsStayWhole
  <2> QED
    BY <1>3, <2>2, <2>3 DEF MouseInv
<1> QED
  BY <1>4, <1>5, <1>6, <1>7 DEF thread_connects_mouse

\* It polls, and reads the port: the byte is the answer.
LEMMA PacketReads ==
    ASSUME MouseFaults = {}, MouseType, MouseInv, Ports
    PROVE  MouseInv'
<1>1. /\ vector = 0 /\ UNCHANGED <<imr, vector, interrupt_handlers>>
      /\ UNCHANGED <<answer, mouse_cycle, mouse_byte, packet, sent, reporting>>
  BY DEF Ports, thread_polls_mouse, thread_reads_mouse, InsIsUnderWay, cpu, pic,
         mouse_wait_read, mouse_read, driver, mouse
<1>2. CASE thread_polls_mouse
  <2>1. /\ init_pc = "poll" /\ init_pc' = "read" /\ exchange' = exchange
        /\ UNCHANGED <<irr, obuf, config>> /\ (obuf.of # "none" \/ NoAnswer)
    BY <1>2 DEF thread_polls_mouse, mouse_wait_read, pic, Empty
  <2>2. answer = "none"
    <3>1. exchange # "config" => ~Bit(config, AUX_OFF)
      BY ConfigKeeps DEF MouseInv
    <3> QED
      BY <2>1, <3>1 DEF NoAnswer, MouseInv, ExchangeInv, InitInv
  <2>3. InitInv' /\ PortInv' /\ ConfigInv'
    BY <1>1, <2>1 DEF MouseInv, InitInv, PortInv, ConfigInv
  <2>4. ExchangeInv'
    BY <1>1, <2>1, <2>2 DEF MouseInv, ExchangeInv
  <2>5. PacketInv'
    BY <1>1, <2>1 DEF MouseInv, PacketInv, PacketsStayWhole
  <2> QED
    BY <2>3, <2>4, <2>5 DEF MouseInv
<1>3. CASE thread_reads_mouse
  <2>1. /\ init_pc = "read" /\ obuf'.of = "none" /\ irr' = irr \ {1, 12}
        /\ config' = (IF exchange = "config" THEN Set(obuf.value, AUX_INT) ELSE config)
        /\ init_pc' = (IF exchange = "stream" THEN "reset" ELSE "send")
        /\ exchange' = (IF exchange = "config" THEN "defaults" ELSE "stream")
    BY <1>3 DEF thread_reads_mouse, mouse_read, ReadPort, MouseType
  <2>2. answer = "none" /\ (exchange = "config" => obuf.value = config)
    BY <2>1 DEF MouseInv, ExchangeInv, InitInv
  <2>3. sent = 3 /\ mouse_cycle = 0
    BY <2>1 DEF MouseInv, PacketInv
  <2>4. InitInv' /\ PortInv'
    BY <1>1, <2>1 DEF MouseInv, InitInv, PortInv
  <2>5. ConfigInv'
    BY <2>1, <2>2 DEF MouseInv, ConfigInv
  <2>6. ExchangeInv'
    BY <1>1, <2>1, <2>2 DEF ExchangeInv
  <2>7. PacketInv'
    BY <1>1, <2>1, <2>3 DEF MouseInv, InitInv, PacketInv, PacketsStayWhole
  <2> QED
    BY <2>4, <2>5, <2>6, <2>7 DEF MouseInv
<1> QED
  BY <1>2, <1>3 DEF Ports

\* Who raised, took and handled what.
LEMMA PacketStep ==
    ASSUME MouseFaults = {}, ~OpensFirst, ServiceInv, MouseInv, [Next]_vars
    PROVE  MouseInv'
<1>0. /\ MouseType /\ PicInv /\ 33 \in interrupt_handlers
      /\ init_pc # "done" => 12 \in imr /\ vector # 44
  BY DEF ServiceInv, MouseInv, InitInv
\* A line that is not the keyboard's or the mouse's.
<1>1. ASSUME NEW l, l \notin {1, 12}, Raise(l, TRUE), UNCHANGED <<obuf, port, cpu>>
      PROVE  MouseInv'
  <2>1. irr' = irr \cup {l} /\ UNCHANGED <<imr, vector, interrupt_handlers>>
    BY <1>1 DEF Raise, cpu
  <2> QED
    BY <1>0, <1>1, <2>1, PacketQuiet
<1>2. CASE raise_timer
  <2>1. Raise(0, TRUE) /\ UNCHANGED <<obuf, port, cpu>>
    BY <1>2, Zenon DEF raise_timer
  <2>2. 0 \notin {1, 12}
    OBVIOUS
  <2> QED
    BY <1>1, <2>1, <2>2
<1>3. ASSUME NEW l \in Others, raise_other(l)
      PROVE  MouseInv'
  <2>1. Raise(l, TRUE) /\ UNCHANGED <<obuf, port, cpu>>
    BY <1>3, Zenon DEF raise_other
  <2>2. l \notin {1, 12}
    BY <1>3, InterruptsAssumption
  <2> QED
    BY <1>1, <2>1, <2>2
<1>4. CASE raise_mouse
  BY <1>0, <1>4, PacketSent, PacketAnswer DEF raise_mouse
<1>5. ASSUME NEW l \in Opened, unmask(l)
      PROVE  MouseInv'
  <2>1. /\ imr' = imr \ {l} /\ (l = 12 => init_pc = "done")
        /\ UNCHANGED <<irr, obuf, port, vector, interrupt_handlers>>
    BY <1>5 DEF unmask, cpu
  <2> QED
    BY <1>0, <2>1, PacketQuiet
<1>6. CASE take_irq
  <2>1. Granted \in Lines /\ Granted \in irr \ imr
    BY <1>0, <1>6, GrantedFacts DEF take_irq, PicInv
  <2>2. /\ irr' = irr \ {Granted} /\ vector' = 32 + Granted /\ vector = 0
        /\ UNCHANGED <<imr, obuf, port, interrupt_handlers>>
    BY <1>6 DEF take_irq, Acknowledge, Entered
  <2>3. (vector' = 33 <=> Granted = 1) /\ (vector' = 44 <=> Granted = 12)
    BY <2>1, <2>2 DEF Lines, Master, Slave
  <2> QED
    BY <1>0, <2>1, <2>2, <2>3, PacketQuiet
<1>7. CASE take_spurious_master \/ take_spurious_slave
  <2>1. /\ UNCHANGED <<irr, imr, obuf, port, interrupt_handlers>>
        /\ vector = 0 /\ vector' \in {39, 47}
    BY <1>7 DEF take_spurious_master, take_spurious_slave, Entered, pic
  <2> QED
    BY <1>0, <2>1, PacketQuiet
<1>8. CASE irq_handler_spurious_master \/ irq_handler_spurious_slave
  <2>1. /\ UNCHANGED <<irr, imr, obuf, port, interrupt_handlers>>
        /\ vector \in {39, 47} /\ vector' = 0
    BY <1>8 DEF irq_handler_spurious_master, irq_handler_spurious_slave, Return
  <2> QED
    BY <1>0, <2>1, PacketQuiet
<1>9. CASE irq_handler
  <2>1. CASE vector \notin {33, 44}
    <3>1. /\ UNCHANGED <<irr, imr, obuf, port, interrupt_handlers>>
          /\ vector' = 0
      BY <1>9, <2>1 DEF irq_handler, Handler, Return
    <3> QED
      BY <1>0, <2>1, <3>1, PacketQuiet
  <2> QED
    BY <1>0, <1>9, <2>1, PacketKeyRead, PacketStored
<1>10. CASE thread_waits \/ thread_runs \/ UNCHANGED vars
  <2>1. UNCHANGED <<irr, imr, obuf, port, vector, interrupt_handlers>>
    BY <1>10 DEF thread_waits, thread_runs, pic, cpu, vars
  <2> QED
    BY <1>0, <2>1, PacketQuiet
<1>11. CASE raise_key
  BY <1>11, PacketKey
<1>12. CASE raise_config
  BY <1>12, PacketAnswer
<1>13. CASE thread_connects_mouse
  BY <1>0, <1>13, PacketConnects
<1>14. CASE Ports
  BY <1>0, <1>14, PacketReads
<1> QED
  BY <1>2, <1>3, <1>4, <1>5, <1>6, <1>7, <1>8, <1>9, <1>10, <1>11, <1>12, <1>13, <1>14
     DEF Next, Devices, Cpu, Thread

\* When no byte is lost, line 12 is opened after mouse_init() and this is called once, no key
\* is pressed while it runs and every answer comes before its poll gives up, the three bytes
\* of every packet stay together in mouse_byte[]: whatever keys share port 0x60 with the
\* mouse, whoever reads the configuration byte first, and whatever spurious and other
\* interrupts come between two bytes.
THEOREM PacketsAreWhole ==
    ASSUME MouseFaults = {}, ~OpensFirst
    PROVE  Spec => []PacketsStayWhole
<1>1. ServiceInv /\ MouseInv /\ [Next]_vars => MouseInv'
  BY PacketStep
<1>2. MouseInv => PacketsStayWhole
  BY DEF MouseInv, PacketInv
<1> QED
  BY <1>1, <1>2, ServiceInit, ServiceStep, PacketInit, PTL DEF Spec

\* Under the same conditions mouse_init() writes back the configuration byte that the
\* firmware left, with the mouse's clock started and its interrupt enabled: the byte that it
\* takes from port 0x60 for the configuration is no key and no acknowledgement, also when
\* the keyboard's handler has read it before.
THEOREM ConfigKept ==
    ASSUME MouseFaults = {}, ~OpensFirst
    PROVE  Spec => []ConfigIsKept
<1>1. ServiceInv /\ MouseInv /\ [Next]_vars => MouseInv'
  BY PacketStep
<1>2. MouseInv => ConfigIsKept
  BY ConfigKeeps DEF MouseInv
<1> QED
  BY <1>1, <1>2, ServiceInit, ServiceStep, PacketInit, PTL DEF Spec

-----------------------------------------------------------------------------
(***************************************************************************)
(* The lock that masks interrupts.                                         *)
(***************************************************************************)

\* The EFLAGS.IF of the running context outside its critical sections.
own == IF depth = 1 THEN top.entryIF ELSE 0

\* A context that is not running was interrupted with interrupts enabled, or
\* made a system call: it holds nothing.
PreemptedInv ==
    depth = 2 =>
        /\ frames[1].guards = << >>
        /\ frames[1].pc \in {"run", "cli"}
        /\ top.entryIF = frames[1].entryIF
        /\ frames[1].pc = "cli" => frames[1].flags = frames[1].entryIF

\* The flag the running context sees, and the flags it has saved.
FlagInv ==
    /\ top.guards = << >> /\ top.pc \in {"run", "cli"} => IF_flag = own
    /\ top.guards # << >> \/ top.pc \in {"acquire", "restore"} => IF_flag = 0
    /\ top.pc # "run" => top.flags = IF top.guards = << >> THEN own ELSE 0

\* How the guards of the running context nest.
GuardInv ==
    /\ Len(top.guards) <= 2
    /\ top.guards # << >> => top.guards[1].flags = own
    /\ Len(top.guards) = 2 =>
          /\ top.guards[1].mutex \in OuterLocks
          /\ top.guards[2].mutex = HEAP /\ top.guards[2].flags = 0
    /\ top.pc \in {"cli", "acquire"} => MayLock(top, top.mutex)

LockInv == \A l \in Locks : 
    l \in locked <=> \E k \in DOMAIN top.guards : top.guards[k].mutex = l

MutexIInv == MutexTypeOK /\ NoReentrancy /\ PreemptedInv /\ FlagInv /\ GuardInv /\ LockInv

-----------------------------------------------------------------------------
(* What a step does to the stack of contexts.                              *)

\* A sequence that has a length is not the empty one.
LEMMA NonEmpty ==
    ASSUME NEW s, Len(s) # 0
    PROVE  s # << >>
BY EmptySeq

\* All but the last element of a sequence.
LEMMA FrontProperties ==
    ASSUME NEW G, NEW gs \in Seq(G), gs # << >>
    PROVE  /\ Len(gs) \in Nat \ {0}
           /\ SubSeq(gs, 1, Len(gs) - 1) \in Seq(G)
           /\ Len(SubSeq(gs, 1, Len(gs) - 1)) = Len(gs) - 1
           /\ \A k \in 1 .. (Len(gs) - 1) : SubSeq(gs, 1, Len(gs) - 1)[k] = gs[k]
<1>1. Len(gs) \in Nat \ {0}
  BY EmptySeq
<1> DEFINE n == Len(gs) - 1
<1>2. n \in Nat /\ \A k \in 1 .. n : gs[k] \in G
  BY <1>1, ElementOfSeq
<1> HIDE DEF n
<1>3. /\ SubSeq(gs, 1, n) \in Seq(G)
      /\ Len(SubSeq(gs, 1, n)) = IF 1 <= n THEN n - 1 + 1 ELSE 0
      /\ \A i \in 1 .. n - 1 + 1 : SubSeq(gs, 1, n)[i] = gs[1 + i - 1]
  BY <1>2, SubSeqProperties
<1>4. Len(SubSeq(gs, 1, n)) = n /\ \A i \in 1 .. n : SubSeq(gs, 1, n)[i] = gs[i]
  BY <1>2, <1>3
<1> QED
  BY <1>1, <1>3, <1>4 DEF n

\* The running context is a frame of the stack.
LEMMA TopFacts ==
    ASSUME MutexTypeOK
    PROVE  /\ depth \in Nat \ {0}
           /\ top \in FrameType
           /\ DOMAIN frames = 1 .. depth
           /\ \A n \in 1 .. depth : frames[n] \in FrameType
<1>1. /\ Len(frames) \in Nat \ {0} /\ DOMAIN frames = 1 .. Len(frames)
      /\ \A n \in 1 .. Len(frames) : frames[n] \in FrameType
  BY EmptySeq, LenProperties, ElementOfSeq DEF MutexTypeOK
<1> QED
  BY <1>1 DEF depth, top

\* An instruction of the running context changes its frame only.
LEMMA RunFacts ==
    ASSUME MutexTypeOK, NEW f \in FrameType, Run(f)
    PROVE  /\ frames' \in Seq(FrameType) /\ frames' # << >>
           /\ depth' = depth /\ top' = f
           /\ \A n \in 1 .. (depth - 1) : frames'[n] = frames[n]
<1>1. Len(frames) \in Nat \ {0}
  BY EmptySeq DEF MutexTypeOK
<1>2. /\ frames' \in Seq(FrameType) /\ Len(frames') = Len(frames)
      /\ \A j \in 1 .. Len(frames) :
            frames'[j] = IF j = Len(frames) THEN f ELSE frames[j]
  BY <1>1, ExceptSeq DEF MutexTypeOK, Run
<1>3. frames' # << >>
  BY <1>1, <1>2, EmptySeq
<1> QED
  BY <1>1, <1>2, <1>3 DEF depth, top

\* Entering a handler puts a frame on top.
LEMMA PushFacts ==
    ASSUME MutexTypeOK, NEW f \in FrameType, frames' = Append(frames, f)
    PROVE  /\ frames' \in Seq(FrameType) /\ frames' # << >>
           /\ depth' = depth + 1 /\ top' = f
           /\ \A n \in 1 .. depth : frames'[n] = frames[n]
<1>1. Len(frames) \in Nat \ {0}
  BY EmptySeq DEF MutexTypeOK
<1>2. /\ frames' \in Seq(FrameType) /\ Len(frames') = Len(frames) + 1
      /\ \A j \in 1 .. Len(frames) : frames'[j] = frames[j]
      /\ frames'[Len(frames) + 1] = f
  BY <1>1, AppendProperties DEF MutexTypeOK
<1>3. frames' # << >>
  BY <1>1, <1>2, EmptySeq
<1> QED
  BY <1>1, <1>2, <1>3 DEF depth, top

\* iret takes the frame off.
LEMMA PopFacts ==
    ASSUME MutexTypeOK, depth > 1, frames' = SubSeq(frames, 1, Len(frames) - 1)
    PROVE  /\ frames' \in Seq(FrameType) /\ frames' # << >>
           /\ depth' = depth - 1 /\ top' = frames[depth - 1]
           /\ \A n \in 1 .. (depth - 1) : frames'[n] = frames[n]
<1> DEFINE rest == SubSeq(frames, 1, Len(frames) - 1)
<1>1. Len(frames) \in Nat /\ Len(frames) > 1
  BY EmptySeq DEF MutexTypeOK, depth
<1>2. /\ rest \in Seq(FrameType) /\ Len(rest) = Len(frames) - 1
      /\ \A j \in 1 .. (Len(frames) - 1) : rest[j] = frames[j]
  BY FrontProperties DEF MutexTypeOK
<1> HIDE DEF rest
<1>3. rest # << >>
  BY <1>1, <1>2, NonEmpty
<1>4. frames' = rest
  BY DEF rest
<1>5. depth' = Len(rest) /\ top' = rest[Len(rest)]
  BY <1>4 DEF depth, top
<1>6. Len(rest) = depth - 1 /\ rest[Len(rest)] = frames[depth - 1]
  BY <1>1, <1>2 DEF depth
<1>7. \A n \in 1 .. (depth - 1) : rest[n] = frames[n]
  BY <1>2 DEF depth
<1> QED
  BY <1>2, <1>3, <1>4, <1>5, <1>6, <1>7, Zenon

\* A fresh frame is well typed.
LEMMA FreshFrame ==
    ASSUME IrqMutexAssumption, NEW b \in {0, 1}
    PROVE  Frame(b) \in FrameType
BY EmptySeq DEF Frame, FrameType, Locks, IrqMutexAssumption

-----------------------------------------------------------------------------
(* The invariant.                                                          *)

\* The initial state satisfies it: one frame, no guard, no lock, IF off.
LEMMA InitIInv == MutexInit => MutexIInv
<1> SUFFICES ASSUME MutexInit PROVE MutexIInv
  OBVIOUS
<1>1. Frame(0) \in FrameType
  BY FreshFrame, IrqMutexAssumption
<1>2. MutexTypeOK
  BY <1>1 DEF MutexInit, MutexTypeOK
<1>3. depth = 1 /\ top = Frame(0) /\ top.guards = << >>
      /\ top.pc = "run" /\ top.entryIF = 0
  BY DEF MutexInit, depth, top, Frame
<1>4. NoReentrancy /\ PreemptedInv
  BY <1>3 DEF NoReentrancy, PreemptedInv
<1>5. FlagInv
  BY <1>3 DEF FlagInv, own, MutexInit
<1>6. GuardInv
  BY <1>3 DEF GuardInv, MayLock
<1>7. LockInv
  BY <1>3 DEF LockInv, MutexInit
<1> QED
  BY <1>2, <1>4, <1>5, <1>6, <1>7 DEF MutexIInv

\* Every step preserves it.
LEMMA NextIInv == MutexIInv /\ [MutexNext]_mutexVars => MutexIInv'
<1> SUFFICES ASSUME MutexIInv, [MutexNext]_mutexVars PROVE MutexIInv'
  OBVIOUS
<1> USE IrqMutexAssumption
<1>0. /\ MutexTypeOK /\ NoReentrancy /\ PreemptedInv /\ FlagInv /\ GuardInv /\ LockInv
      /\ depth \in {1, 2} /\ top \in FrameType
  BY TopFacts DEF MutexIInv, NoReentrancy
<1>1. ASSUME NEW l \in Locks, irq_save_pushf(l) PROVE MutexIInv'
  <2> DEFINE c == top.calls + 1
             f == [top EXCEPT !.pc = "cli", !.mutex = l, !.flags = IF_flag,
                              !.calls = c]
  <2>1. c \in 0 .. MAX_CALLS /\ Run(f)
    BY <1>0, <1>1 DEF irq_save_pushf, FrameType
  <2> HIDE DEF c
  <2>2. /\ f \in FrameType /\ f.pc = "cli" /\ f.mutex = l /\ f.flags = IF_flag
        /\ f.guards = top.guards /\ f.entryIF = top.entryIF
    BY <1>0, <2>1 DEF FrameType, MutexTypeOK
  <2> HIDE DEF f
  <2>3. /\ MutexTypeOK' /\ depth' = depth /\ top' = f
        /\ \A n \in 1 .. (depth - 1) : frames'[n] = frames[n]
    BY <1>0, <1>1, <2>1, <2>2, RunFacts DEF irq_save_pushf, MutexTypeOK
  <2>4. NoReentrancy' /\ PreemptedInv'
    BY <1>0, <2>2, <2>3 DEF NoReentrancy, PreemptedInv
  <2>5. FlagInv'
    BY <1>0, <1>1, <2>2, <2>3 DEF irq_save_pushf, FlagInv, own
  <2>6. GuardInv'
    BY <1>0, <1>1, <2>2, <2>3 DEF irq_save_pushf, GuardInv, MayLock, own
  <2>7. LockInv'
    BY <1>0, <1>1, <2>2, <2>3 DEF irq_save_pushf, LockInv
  <2> QED
    BY <2>3, <2>4, <2>5, <2>6, <2>7 DEF MutexIInv
<1>2. ASSUME irq_save_cli PROVE MutexIInv'
  <2> DEFINE f == [top EXCEPT !.pc = "acquire"]
  <2>1. Run(f)
    BY <1>2 DEF irq_save_cli
  <2>2. /\ f \in FrameType /\ f.pc = "acquire" /\ f.mutex = top.mutex
        /\ f.flags = top.flags /\ f.guards = top.guards /\ f.entryIF = top.entryIF
    BY <1>0, <1>2 DEF FrameType, MutexTypeOK, irq_save_cli
  <2> HIDE DEF f
  <2>3. /\ MutexTypeOK' /\ depth' = depth /\ top' = f
        /\ \A n \in 1 .. (depth - 1) : frames'[n] = frames[n]
    BY <1>0, <1>2, <2>1, <2>2, RunFacts DEF irq_save_cli, MutexTypeOK
  <2>4. NoReentrancy' /\ PreemptedInv'
    BY <1>0, <2>2, <2>3 DEF NoReentrancy, PreemptedInv
  <2>5. FlagInv'
    BY <1>0, <1>2, <2>2, <2>3 DEF irq_save_cli, FlagInv, own
  <2>6. GuardInv'
    BY <1>0, <1>2, <2>2, <2>3 DEF irq_save_cli, GuardInv, MayLock, own
  <2>7. LockInv'
    BY <1>0, <1>2, <2>2, <2>3 DEF irq_save_cli, LockInv
  <2> QED
    BY <2>3, <2>4, <2>5, <2>6, <2>7 DEF MutexIInv
<1>3. ASSUME acquire PROVE MutexIInv'
  <2> DEFINE g == [mutex |-> top.mutex, flags |-> top.flags]
             held == Append(top.guards, g)
             f == [top EXCEPT !.pc = "run", !.guards = held]
  <2>1. Run(f)
    BY <1>3 DEF acquire
  <2>2. g \in [mutex : Locks, flags : {0, 1}]
        /\ top.guards \in Seq([mutex : Locks, flags : {0, 1}])
    BY <1>0 DEF FrameType
  <2>3. /\ held \in Seq([mutex : Locks, flags : {0, 1}]) /\ held # << >>
        /\ Len(top.guards) \in Nat /\ Len(held) = Len(top.guards) + 1
        /\ \A k \in 1 .. Len(top.guards) : held[k] = top.guards[k]
        /\ held[Len(top.guards) + 1] = g
        /\ DOMAIN held = 1 .. Len(held)
        /\ DOMAIN top.guards = 1 .. Len(top.guards)
    BY <2>2, AppendProperties, LenProperties
  <2>4. g.mutex = top.mutex /\ g.flags = top.flags
    OBVIOUS
  <2> HIDE DEF g, held
  <2>5. /\ f \in FrameType /\ f.pc = "run" /\ f.guards = held
        /\ f.entryIF = top.entryIF
    BY <1>0, <2>3 DEF FrameType
  <2> HIDE DEF f
  <2>6. /\ MutexTypeOK' /\ depth' = depth /\ top' = f
        /\ \A n \in 1 .. (depth - 1) : frames'[n] = frames[n]
    BY <1>0, <1>3, <2>1, <2>5, RunFacts DEF acquire, MutexTypeOK, FrameType
  <2>7. NoReentrancy' /\ PreemptedInv'
    BY <1>0, <2>5, <2>6 DEF NoReentrancy, PreemptedInv
  <2>8. FlagInv'
    BY <1>0, <1>3, <2>3, <2>5, <2>6 DEF acquire, FlagInv, own
  <2>9. \/ top.guards = << >> /\ Len(top.guards) = 0
        \/ /\ Len(top.guards) = 1 /\ top.guards[1].mutex \in OuterLocks
           /\ top.mutex = HEAP
    BY <1>0, <1>3 DEF acquire, GuardInv, MayLock
  <2>10. GuardInv'
    <3>1. CASE top.guards = << >> /\ Len(top.guards) = 0
      <4>1. held[1].flags = own
        BY <1>0, <1>3, <2>3, <2>4, <3>1 DEF acquire, FlagInv
      <4>2. Len(f.guards) = 1 /\ f.guards[1].flags = own /\ f.pc = "run"
        BY <2>3, <2>5, <3>1, <4>1
      <4>3. own' = own
        BY <2>5, <2>6 DEF own
      <4> QED
        BY <2>6, <4>2, <4>3 DEF GuardInv
    <3>2. CASE Len(top.guards) = 1
      <4>1. held[1] = top.guards[1] /\ held[2] = g /\ top.guards # << >>
        BY <2>3, <3>2, NonEmpty
      <4>2. held[1].flags = own /\ g.flags = 0
        BY <1>0, <1>3, <2>4, <4>1 DEF acquire, GuardInv, FlagInv
      <4>3. /\ Len(f.guards) = 2 /\ f.guards[1].flags = own /\ f.pc = "run"
            /\ f.guards[1].mutex \in OuterLocks
            /\ f.guards[2].mutex = HEAP /\ f.guards[2].flags = 0
        BY <2>3, <2>4, <2>5, <2>9, <3>2, <4>1, <4>2
      <4>4. own' = own
        BY <2>5, <2>6 DEF own
      <4> QED
        BY <2>6, <4>3, <4>4 DEF GuardInv
    <3> QED
      BY <2>9, <3>1, <3>2
  <2>11. LockInv'
    <3>1. \A l : (\E k \in DOMAIN held : held[k].mutex = l) <=>
                 l = top.mutex \/ \E k \in DOMAIN top.guards : top.guards[k].mutex = l
      BY <2>3, <2>4, SMTT(30)
    <3>2. /\ locked' = locked \cup {top.mutex}
          /\ \A l \in Locks :
                l \in locked <=> \E k \in DOMAIN top.guards : top.guards[k].mutex = l
      BY <1>0, <1>3, Zenon DEF acquire, LockInv
    <3>3. \A l \in Locks : l \in locked' <=> \E k \in DOMAIN held : held[k].mutex = l
      BY <3>1, <3>2, Zenon
    <3>4. top'.guards = held
      BY <2>5, <2>6, Zenon
    <3> QED
      BY <3>3, <3>4, Zenon DEF LockInv
  <2> QED
    BY <2>6, <2>7, <2>8, <2>10, <2>11 DEF MutexIInv
<1>4. ASSUME release PROVE MutexIInv'
  <2> DEFINE g == Innermost(top)
             rest == SubSeq(top.guards, 1, Len(top.guards) - 1)
             f == [top EXCEPT !.pc = "restore", !.flags = g.flags,
                              !.guards = rest, !.calls = CallsAfterDrop(top)]
  <2>1. Run(f)
    BY <1>4 DEF release
  <2>2. /\ top.guards \in Seq([mutex : Locks, flags : {0, 1}])
        /\ CallsAfterDrop(top) \in 0 .. MAX_CALLS
    BY <1>0 DEF FrameType, CallsAfterDrop
  <2>3. /\ Len(top.guards) \in {1, 2} /\ DOMAIN top.guards = 1 .. Len(top.guards)
        /\ \A k \in 1 .. Len(top.guards) :
              top.guards[k] \in [mutex : Locks, flags : {0, 1}]
    <3>1. top.guards # << >> /\ Len(top.guards) <= 2
      BY <1>0, <1>4 DEF release, GuardInv
    <3>2. Len(top.guards) \in Nat \ {0}
      BY <2>2, <3>1, FrontProperties
    <3>3. /\ DOMAIN top.guards = 1 .. Len(top.guards)
          /\ \A k \in 1 .. Len(top.guards) :
                top.guards[k] \in [mutex : Locks, flags : {0, 1}]
      BY <2>2, LenProperties, ElementOfSeq
    <3>4. \A n \in Nat \ {0} : n <= 2 => n \in {1, 2}
      OBVIOUS
    <3>5. Len(top.guards) \in {1, 2}
      BY <3>1, <3>2, <3>4, Zenon
    <3> QED
      BY <3>3, <3>5
  <2>4. /\ g = top.guards[Len(top.guards)] /\ g.flags \in {0, 1}
        /\ g.mutex \in Locks
    BY <2>3 DEF Innermost
  <2>5. /\ rest \in Seq([mutex : Locks, flags : {0, 1}])
        /\ Len(rest) = Len(top.guards) - 1
        /\ \A k \in 1 .. (Len(top.guards) - 1) : rest[k] = top.guards[k]
    <3>1. top.guards # << >>
      BY <1>4 DEF release
    <3> QED
      BY <2>2, <3>1, FrontProperties
  <2>6. /\ DOMAIN rest = 1 .. Len(rest) /\ (Len(rest) = 0 => rest = << >>)
        /\ (Len(rest) # 0 => rest # << >>)
    BY <2>5, LenProperties, EmptySeq, NonEmpty
  <2> HIDE DEF g, rest
  <2>7. /\ f \in FrameType /\ f.pc = "restore" /\ f.guards = rest
        /\ f.flags = g.flags /\ f.entryIF = top.entryIF
    BY <1>0, <2>2, <2>4, <2>5 DEF FrameType
  <2> HIDE DEF f
  <2>8. /\ MutexTypeOK' /\ depth' = depth /\ top' = f
        /\ \A n \in 1 .. (depth - 1) : frames'[n] = frames[n]
    BY <1>0, <1>4, <2>1, <2>7, RunFacts DEF release, MutexTypeOK
  <2>9. NoReentrancy' /\ PreemptedInv'
    BY <1>0, <2>7, <2>8 DEF NoReentrancy, PreemptedInv
  <2>10. FlagInv'
    <3>1. IF_flag = 0 /\ UNCHANGED IF_flag
      BY <1>0, <1>4 DEF release, FlagInv
    <3>2. g.flags = IF rest = << >> THEN own ELSE 0
      BY <1>0, <1>4, <2>3, <2>4, <2>5, <2>6 DEF release, GuardInv
    <3> QED
      BY <2>7, <2>8, <3>1, <3>2 DEF FlagInv, own
  <2>11. GuardInv'
    BY <1>0, <1>4, <2>3, <2>5, <2>6, <2>7, <2>8 DEF release, GuardInv, own
  <2>12. LockInv'
    <3>1. \A l \in Locks : (\E k \in DOMAIN rest : rest[k].mutex = l) <=>
              /\ \E k \in DOMAIN top.guards : top.guards[k].mutex = l
              /\ l # g.mutex
      <4>1. CASE Len(top.guards) = 1
        BY <2>3, <2>4, <2>5, <2>6, <4>1
      <4>2. CASE Len(top.guards) = 2
        BY <1>0, <2>3, <2>4, <2>5, <2>6, <4>2 DEF GuardInv
      <4> QED
        BY <2>3, <4>1, <4>2
    <3>2. locked' = locked \ {g.mutex}
      BY <1>4 DEF release, g
    <3> QED
      BY <1>0, <2>7, <2>8, <3>1, <3>2 DEF LockInv
  <2> QED
    BY <2>8, <2>9, <2>10, <2>11, <2>12 DEF MutexIInv
<1>5. ASSUME irq_restore PROVE MutexIInv'
  <2> DEFINE f == [top EXCEPT !.pc = "run"]
  <2>1. Run(f)
    BY <1>5 DEF irq_restore
  <2>2. /\ f \in FrameType /\ f.pc = "run" /\ f.mutex = top.mutex
        /\ f.flags = top.flags /\ f.guards = top.guards /\ f.entryIF = top.entryIF
    BY <1>0, <1>5 DEF FrameType, MutexTypeOK, irq_restore
  <2> HIDE DEF f
  <2>3. /\ MutexTypeOK' /\ depth' = depth /\ top' = f
        /\ \A n \in 1 .. (depth - 1) : frames'[n] = frames[n]
    BY <1>0, <1>5, <2>1, <2>2, RunFacts DEF irq_restore, MutexTypeOK, FrameType
  <2>4. NoReentrancy' /\ PreemptedInv'
    BY <1>0, <2>2, <2>3 DEF NoReentrancy, PreemptedInv
  <2>5. FlagInv'
    BY <1>0, <1>5, <2>2, <2>3 DEF irq_restore, FlagInv, own
  <2>6. GuardInv'
    BY <1>0, <1>5, <2>2, <2>3 DEF irq_restore, GuardInv, MayLock, own
  <2>7. LockInv'
    BY <1>0, <1>5, <2>2, <2>3 DEF irq_restore, LockInv
  <2> QED
    BY <2>3, <2>4, <2>5, <2>6, <2>7 DEF MutexIInv
<1>6. ASSUME sti PROVE MutexIInv'
  <2> DEFINE f == [top EXCEPT !.entryIF = 1]
  <2>1. Run(f)
    BY <1>6 DEF sti
  <2>2. /\ f \in FrameType /\ f.pc = top.pc /\ f.guards = top.guards
        /\ f.entryIF = 1
    BY <1>0 DEF FrameType
  <2> HIDE DEF f
  <2>3. MutexTypeOK' /\ depth' = depth /\ top' = f
    BY <1>0, <1>6, <2>1, <2>2, RunFacts DEF sti, MutexTypeOK
  <2>4. NoReentrancy' /\ PreemptedInv'
    BY <1>6, <2>3 DEF NoReentrancy, PreemptedInv, sti
  <2>5. FlagInv'
    BY <1>6, <2>2, <2>3 DEF sti, FlagInv, own
  <2>6. GuardInv'
    BY <1>0, <1>6, <2>2, <2>3 DEF sti, GuardInv
  <2>7. LockInv'
    BY <1>0, <1>6, <2>2, <2>3 DEF sti, LockInv
  <2> QED
    BY <2>3, <2>4, <2>5, <2>6, <2>7 DEF MutexIInv
<1>7. ASSUME NEW i \in Irqs, irq_common_stub(i) PROVE MutexIInv'
  <2> DEFINE f == Frame(IF_flag)
  <2>1. depth = 1 /\ top.guards = << >> /\ top.pc \in {"run", "cli"}
    BY <1>0, <1>7 DEF irq_common_stub, MustTakeIrq, FlagInv, own, FrameType
  <2>2. /\ f \in FrameType /\ f.pc = "run" /\ f.guards = << >>
        /\ f.entryIF = IF_flag
    BY <1>0, FreshFrame DEF MutexTypeOK, Frame
  <2> HIDE DEF f
  <2>3. /\ frames' = Append(frames, f) /\ UNCHANGED locked /\ IF_flag' = 0
        /\ pending' \subseteq pending
    BY <1>7 DEF irq_common_stub, f
  <2>4. /\ MutexTypeOK' /\ depth' = 2 /\ top' = f /\ frames'[1] = frames[1]
        /\ frames[1] = top
    BY <1>0, <2>1, <2>2, <2>3, PushFacts DEF MutexTypeOK, depth, top
  <2>5. NoReentrancy' /\ PreemptedInv'
    BY <1>0, <2>1, <2>2, <2>4 DEF NoReentrancy, PreemptedInv, FlagInv, own
  <2>6. FlagInv'
    BY <2>2, <2>3, <2>4 DEF FlagInv, own
  <2>7. GuardInv'
    BY <2>2, <2>4 DEF GuardInv, MayLock
  <2>8. LockInv'
    BY <1>0, <2>1, <2>2, <2>3, <2>4 DEF LockInv
  <2> QED
    BY <2>4, <2>5, <2>6, <2>7, <2>8 DEF MutexIInv
<1>8. ASSUME syscall PROVE MutexIInv'
  <2> DEFINE f == Frame(IF_flag)
  <2>1. depth = 1 /\ top.guards = << >> /\ top.pc \in {"run", "cli"}
    BY <1>0, <1>8 DEF syscall
  <2>2. /\ f \in FrameType /\ f.pc = "run" /\ f.guards = << >>
        /\ f.entryIF = IF_flag
    BY <1>0, FreshFrame DEF MutexTypeOK, Frame
  <2> HIDE DEF f
  <2>3. /\ frames' = Append(frames, f) /\ UNCHANGED locked /\ IF_flag' = 0
        /\ pending' \subseteq pending
    BY <1>8 DEF syscall, f
  <2>4. /\ MutexTypeOK' /\ depth' = 2 /\ top' = f /\ frames'[1] = frames[1]
        /\ frames[1] = top
    BY <1>0, <2>1, <2>2, <2>3, PushFacts DEF MutexTypeOK, depth, top
  <2>5. NoReentrancy' /\ PreemptedInv'
    BY <1>0, <2>1, <2>2, <2>4 DEF NoReentrancy, PreemptedInv, FlagInv, own
  <2>6. FlagInv'
    BY <2>2, <2>3, <2>4 DEF FlagInv, own
  <2>7. GuardInv'
    BY <2>2, <2>4 DEF GuardInv, MayLock
  <2>8. LockInv'
    BY <1>0, <2>1, <2>2, <2>3, <2>4 DEF LockInv
  <2> QED
    BY <2>4, <2>5, <2>6, <2>7, <2>8 DEF MutexIInv
<1>9. ASSUME iret PROVE MutexIInv'
  <2>1. depth = 2 /\ top.pc = "run" /\ top.guards = << >>
    BY <1>0, <1>9 DEF iret
  <2>2. /\ MutexTypeOK' /\ depth' = 1 /\ top' = frames[1]
    <3>1. depth > 1 /\ frames' = SubSeq(frames, 1, Len(frames) - 1)
      BY <1>9, <2>1 DEF iret
    <3>2. /\ frames' \in Seq(FrameType) /\ frames' # << >>
          /\ depth' = depth - 1 /\ top' = frames[depth - 1]
      BY <1>0, <3>1, PopFacts
    <3>3. IF_flag' \in {0, 1} /\ locked' \subseteq Locks /\ pending' \subseteq Irqs
      BY <1>0, <1>9 DEF iret, MutexTypeOK, FrameType
    <3> QED
      BY <2>1, <3>2, <3>3 DEF MutexTypeOK
  <2>3. /\ frames[1].guards = << >> /\ frames[1].pc \in {"run", "cli"}
        /\ IF_flag' = frames[1].entryIF
        /\ frames[1].pc = "cli" => frames[1].flags = frames[1].entryIF
    BY <1>0, <1>9, <2>1 DEF iret, PreemptedInv
  <2>4. NoReentrancy' /\ PreemptedInv'
    BY <2>2 DEF NoReentrancy, PreemptedInv
  <2>5. FlagInv'
    BY <2>2, <2>3 DEF FlagInv, own
  <2>6. GuardInv'
    BY <2>2, <2>3 DEF GuardInv, MayLock
  <2>7. LockInv'
    BY <1>0, <1>9, <2>1, <2>2, <2>3 DEF iret, LockInv
  <2> QED
    BY <2>2, <2>4, <2>5, <2>6, <2>7 DEF MutexIInv
<1>10. ASSUME NEW i \in Irqs, raise_irq(i) PROVE MutexIInv'
  BY <1>0, <1>10 DEF raise_irq, MutexIInv, MutexTypeOK, NoReentrancy, PreemptedInv, FlagInv,
     GuardInv, LockInv, own, MayLock, depth, top
<1>11. ASSUME UNCHANGED mutexVars PROVE MutexIInv'
  BY <1>0, <1>11 DEF mutexVars, MutexIInv, MutexTypeOK, NoReentrancy, PreemptedInv, FlagInv,
     GuardInv, LockInv, own, MayLock, depth, top
<1> QED
  BY <1>1, <1>2, <1>3, <1>4, <1>5, <1>6, <1>7, <1>8, <1>9, <1>10, <1>11
  DEF MutexNext, Step

-----------------------------------------------------------------------------
(* The theorems.                                                           *)

\* Every reachable state satisfies the inductive invariant.
THEOREM MutexInvariance == MutexSpec => []MutexIInv
BY InitIInv, NextIInv, PTL DEF MutexSpec

\* The types of the interrupt flag, the locks and the stack of contexts hold
\* through every lock(), drop(), interrupt and iret.
THEOREM MutexTypeCorrect == MutexSpec => []MutexTypeOK
<1>1. MutexIInv => MutexTypeOK
  BY DEF MutexIInv
<1> QED
  BY <1>1, MutexInvariance, PTL

\* sync.rs: interrupts are disabled while any IrqMutex is locked.
THEOREM IrqsOffWhileLocked == MutexSpec => []LockedMeansIrqsOff
<1>1. MutexIInv => LockedMeansIrqsOff
  <2> SUFFICES ASSUME MutexIInv, locked # {} PROVE IF_flag = 0
    BY DEF LockedMeansIrqsOff
  <2>1. PICK l \in Locks : l \in locked
    BY DEF MutexIInv, MutexTypeOK
  <2>2. top.guards # << >>
    BY <2>1 DEF MutexIInv, LockInv
  <2> QED
    BY <2>2 DEF MutexIInv, FlagInv
<1> QED
  BY <1>1, MutexInvariance, PTL

\* sync.rs: only the context that runs holds locks, and a lock is taken
\* exactly while that context holds it: mutual exclusion.
THEOREM MutualExclusion == MutexSpec => []OnlyTheRunningHolds
<1>1. MutexIInv => OnlyTheRunningHolds
  <2> SUFFICES ASSUME MutexIInv PROVE OnlyTheRunningHolds
    OBVIOUS
  <2>1. \A n \in 1 .. (depth - 1) : frames[n].guards = << >>
    BY TopFacts DEF MutexIInv, NoReentrancy, PreemptedInv
  <2>2. \A l \in Locks : l \in locked <=> Holds(depth, l)
    BY DEF MutexIInv, LockInv, Holds, depth, top
  <2> QED
    BY <2>1, <2>2 DEF OnlyTheRunningHolds
<1> QED
  BY <1>1, MutexInvariance, PTL

\* sync.rs: acquire() always finds the lock free, in thread and in interrupt
\* context, so it never spins and cannot deadlock.
THEOREM NoSpin == MutexSpec => []NeverSpins
<1>1. MutexIInv => NeverSpins
  <2> SUFFICES ASSUME MutexIInv, top.pc = "acquire", top.mutex \in locked PROVE FALSE
    BY DEF NeverSpins
  <2>1. /\ top \in FrameType /\ top.mutex \in Locks
        /\ top.guards \in Seq([mutex : Locks, flags : {0, 1}])
    BY TopFacts DEF MutexIInv, FrameType
  <2>2. PICK k \in DOMAIN top.guards : top.guards[k].mutex = top.mutex
    BY <2>1 DEF MutexIInv, LockInv
  <2>3. /\ DOMAIN top.guards = 1 .. Len(top.guards)
        /\ Len(top.guards) = 1 /\ top.guards[1].mutex \in OuterLocks
        /\ top.mutex = HEAP
    BY <2>1, <2>2, LenProperties, EmptySeq DEF MutexIInv, GuardInv, MayLock
  <2>4. k = 1
    BY <2>2, <2>3
  <2> QED
    BY <2>2, <2>3, <2>4, IrqMutexAssumption DEF IrqMutexAssumption
<1> QED
  BY <1>1, MutexInvariance, PTL

\* idt.c: there is never more than one handler over the kernel's thread.
THEOREM HandlersDoNotNest == MutexSpec => []NoReentrancy
<1>1. MutexIInv => NoReentrancy
  BY DEF MutexIInv
<1> QED
  BY <1>1, MutexInvariance, PTL

\* sync.rs, IrqMutex: critical sections exclude interrupts, handlers and each
\* other, and no lock() waits.
THEOREM Exclusion == MutexSpec => []CriticalSectionsExclude
<1>1. /\ LockedMeansIrqsOff /\ OnlyTheRunningHolds /\ NeverSpins /\ NoReentrancy
      => CriticalSectionsExclude
  BY DEF CriticalSectionsExclude
<1> QED
  BY <1>1, IrqsOffWhileLocked, MutualExclusion, NoSpin, HandlersDoNotNest, PTL

\* sync.rs: outside its critical sections a context has the interrupt flag it
\* started with.
THEOREM FlagRestored == MutexSpec => []FlagIsRestored
<1>1. MutexIInv => FlagIsRestored
  BY DEF MutexIInv, FlagInv, FlagIsRestored, own
<1> QED
  BY <1>1, MutexInvariance, PTL
=============================================================================
