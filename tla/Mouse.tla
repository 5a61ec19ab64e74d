------------------------------- MODULE Mouse -------------------------------
(***************************************************************************)
(* The PS/2 mouse driver, munux-os/kernel/drivers/mouse.c, and the 8042    *)
(* controller (external) it shares with the keyboard: one output byte at   *)
(* port 0x60, filled when it is empty, and a configuration byte.  The      *)
(* mouse (external) sends packets of three bytes: status, low byte of dx,  *)
(* low byte of dy.                                                         *)
(*                                                                         *)
(* mouse_init() makes three exchanges through port 0x60: it sends a        *)
(* command, polls the status register, which does not tell whose byte it   *)
(* announces, and reads the port.  The handlers of lines 1 and 12 read the *)
(* same port between these steps.                                          *)
(***************************************************************************)
EXTENDS Integers

CONSTANTS
    Packets,    \* what the mouse reports: buttons, and dx and dy in -256..255
    POS,        \* positions are kept modulo POS (2^32)
    CONFIG,     \* the controller's configuration byte as the firmware leaves it
    MouseFaults \* "lost": a byte is lost; "reinit": mouse_init() is called again;
                \* "typing": a key is pressed during mouse_init(); "late": an answer
                \* takes longer than a poll

\* b & w, and b with w set and cleared, for a single bit w.
Bit(b, w) == (b \div w) % 2 = 1
Set(b, w) == IF Bit(b, w) THEN b ELSE b + w
Clear(b, w) == IF Bit(b, w) THEN b - w ELSE b

\* The bits of the configuration byte: interrupts of the keyboard and of the mouse, and
\* the clocks that are stopped.
KBD_INT == 1
AUX_INT == 2
KBD_OFF == 16
AUX_OFF == 32

ASSUME MouseAssumption ==
    /\ \A p \in Packets : p.buttons \in 0 .. 7 /\ {p.dx, p.dy} \subseteq -256 .. 255
    /\ POS \in Nat \ {0}
    /\ CONFIG \in 0 .. 255 /\ Bit(CONFIG, KBD_INT)
    /\ MouseFaults \subseteq {"lost", "reinit", "typing", "late"}

VARIABLES
    obuf,           \* the output byte: whose it is ("none" once read), its value
    config,         \* the configuration byte
    answer,         \* the answer under way: "config", "ack" of a command, or "none"
    mouse_cycle, mouse_byte, mouse_state,
    init_pc,        \* where the thread is in mouse_init(),
    exchange,       \* and in which exchange: "config", "defaults" (0xF6), "stream" (0xF4)
    packet, sent,   \* the mouse: the packet it sends, and how much is sent,
    reporting       \* whether it has been told to

driver == <<mouse_cycle, mouse_byte, mouse_state>>
place == <<init_pc, exchange>>
mouse == <<packet, sent, reporting>>

-----------------------------------------------------------------------------
(* The controller and the mouse.                                           *)

Empty == obuf.of = "none"

\* The three bytes; bits 4 and 5 of the status are the signs.
Bytes(p) ==
    <<p.buttons + (IF p.dx < 0 THEN 16 ELSE 0) + (IF p.dy < 0 THEN 32 ELSE 0),
      p.dx % 256, p.dy % 256>>

\* How many bytes get lost on the wire before the next one that arrives.
Losses == IF "lost" \in MouseFaults THEN 0 .. 1 ELSE {0}

\* A byte reaches the output buffer; a packet begins when one is over.  A command is
\* acknowledged first.
MouseByte(p) ==
    /\ reporting /\ answer # "ack" /\ Empty /\ ~Bit(config, AUX_OFF)
    /\ sent < 3 => p = packet
    /\ packet' = p
    /\ \E lost \in Losses :
          LET at == (IF sent = 3 THEN 1 ELSE sent + 1) + lost
          IN  /\ at <= 3
              /\ sent' = at
              /\ obuf' = [of |-> "mouse", value |-> Bytes(p)[at]]
    /\ UNCHANGED <<config, answer, driver, place, reporting>>

\* It acknowledges a command.
MouseAck ==
    /\ answer = "ack" /\ Empty /\ ~Bit(config, AUX_OFF)
    /\ obuf' = [of |-> "ack", value |-> 250]
    /\ answer' = "none"
    /\ UNCHANGED <<config, driver, place, mouse>>

\* The controller tells its configuration byte.
ConfigReply ==
    /\ answer = "config" /\ Empty
    /\ obuf' = [of |-> "config", value |-> config]
    /\ answer' = "none"
    /\ UNCHANGED <<config, driver, place, mouse>>

\* No answer comes while a poll lasts.
NoAnswer ==
    \/ answer = "none" \/ (answer = "ack" /\ Bit(config, AUX_OFF))
    \/ "late" \in MouseFaults

-----------------------------------------------------------------------------
(* The driver.                                                             *)

\* A byte kept in an int8_t.
int8(b) == IF b >= 128 THEN b - 256 ELSE b

\* A byte of movement with its sign bit, as the handler decodes it.
Extended(d, negative) == IF d # 0 /\ negative THEN d - 256 ELSE d

\* Mutant: the packet is taken to be over after two bytes.
mouse_handler_short(value) ==
    LET bytes == [mouse_byte EXCEPT ![mouse_cycle] = int8(value)]
        status == bytes[0] % 256
        dx == Extended(bytes[1], Bit(status, 16))
        dy == Extended(bytes[2], Bit(status, 32))
    IN  /\ mouse_byte' = bytes
        /\ mouse_cycle' = (mouse_cycle + 1) % 2
        /\ mouse_state' =
              IF mouse_cycle + 1 < 2 THEN mouse_state
              ELSE [x |-> (mouse_state.x + dx) % POS, y |-> (mouse_state.y - dy) % POS,
                    buttons |-> status % 8]

\* IRQ12, with the byte that was read.
mouse_handler(value) ==
    LET bytes == [mouse_byte EXCEPT ![mouse_cycle] = int8(value)]
        status == bytes[0] % 256
        dx == Extended(bytes[1], Bit(status, 16))
        dy == Extended(bytes[2], Bit(status, 32))
    IN  /\ mouse_byte' = bytes
        /\ mouse_cycle' = (mouse_cycle + 1) % 3
        /\ mouse_state' =
              IF mouse_cycle + 1 < 3 THEN mouse_state
              ELSE [x |-> (mouse_state.x + dx) % POS, y |-> (mouse_state.y - dy) % POS,
                    buttons |-> status % 8]

\* mouse_init(): the handler is registered.
mouse_init ==
    /\ init_pc = "none" \/ (init_pc = "done" /\ "reinit" \in MouseFaults)
    /\ init_pc' = "send" /\ exchange' = "config"
    /\ UNCHANGED <<obuf, config, answer, driver, mouse>>

\* The auxiliary port is enabled (0xA8) and the configuration byte asked for (0x20).
mouse_init_ask ==
    /\ init_pc = "send" /\ exchange = "config"
    /\ init_pc' = "poll"
    /\ config' = Clear(config, AUX_OFF)
    /\ answer' = "config"
    /\ UNCHANGED <<obuf, driver, exchange, mouse>>

\* mouse_write(): 0xF6 stops the reports and 0xF4 starts them; either ends the packet
\* under way.
mouse_write ==
    /\ init_pc = "send" /\ exchange # "config"
    /\ init_pc' = "poll"
    /\ answer' = "ack"
    /\ sent' = 3
    /\ reporting' = (exchange = "stream")
    /\ UNCHANGED <<obuf, config, driver, exchange, packet>>

\* Mutant: the status is looked at once.
mouse_wait_read_once ==
    /\ init_pc = "poll"
    /\ init_pc' = "read"
    /\ UNCHANGED <<obuf, config, answer, driver, exchange, mouse>>

\* mouse_wait_read() ends when there is a byte, whosever it is, or after 100000 turns.
mouse_wait_read ==
    /\ init_pc = "poll"
    /\ ~Empty \/ NoAnswer
    /\ init_pc' = "read"
    /\ UNCHANGED <<obuf, config, answer, driver, exchange, mouse>>

\* inb(0x60), which tells the last byte again when there is no new one.  The
\* configuration byte goes back with the mouse's interrupt enabled (0x60); nobody else
\* writes it.
mouse_read ==
    /\ init_pc = "read"
    /\ config' = IF exchange = "config" THEN Set(obuf.value, AUX_INT) ELSE config
    /\ init_pc' = IF exchange = "stream" THEN "reset" ELSE "send"
    /\ exchange' = IF exchange = "config" THEN "defaults" ELSE "stream"
    /\ UNCHANGED <<answer, driver, mouse>>

\* The state is reset (mouse_cycle is not).
mouse_init_reset ==
    /\ init_pc = "reset"
    /\ init_pc' = "done"
    /\ mouse_state' = [x |-> 0, y |-> 0, buttons |-> 0]
    /\ UNCHANGED <<obuf, config, answer, mouse_cycle, mouse_byte, exchange, mouse>>

MouseInit ==
    /\ obuf = [of |-> "none", value |-> 0]
    /\ config = CONFIG /\ answer = "none"
    /\ mouse_cycle = 0
    /\ mouse_byte = [i \in 0 .. 2 |-> 0]
    /\ mouse_state = [x |-> 0, y |-> 0, buttons |-> 0]
    /\ init_pc = "none" /\ exchange = "config"
    /\ packet \in Packets /\ sent = 3 /\ reporting = FALSE
=============================================================================
