------------------------------ MODULE Keyboard ------------------------------
(***************************************************************************)
(* The PS/2 keyboard driver, munux-os/kernel/drivers/keyboard.c: the IRQ1  *)
(* handler that decodes scancodes and fills the ring buffer, and the       *)
(* kernel thread that empties it with keyboard_getchar() (halting when it  *)
(* is empty) or keyboard_flush().  The timer interrupt matters because it  *)
(* is what wakes a thread that halted just after a key came in.            *)
(*                                                                         *)
(* The handlers run with interrupts disabled (module IrqMutex), so each is *)
(* one step; the thread can be interrupted between any two of its accesses *)
(* to the shared positions, so each access is a step.                      *)
(***************************************************************************)
EXTENDS Integers, Sequences

CONSTANTS
    KEYBOARD_BUFFER_SIZE,
    Letters,        \* keys whose character depends on shift and caps lock
    Symbols,        \* keys whose character depends on shift only
    Silent          \* keys whose table entry is 0, or past the tables

ASSUME KeyboardAssumption == KEYBOARD_BUFFER_SIZE \in Nat \ {0, 1}

VARIABLES
    keyboard_buffer, buffer_read_pos, buffer_write_pos,
    kbd_state,      \* the shift, ctrl, alt and caps bits
    kbd_extended,   \* 1 after an 0xE0 prefix
    prefix_sent,    \* the keyboard has sent 0xE0 and not yet the byte after it
    pc,             \* where the thread is
    ch,             \* the local c of keyboard_getchar()
    delivered       \* the last character keyboard_getchar() returned

ring == <<keyboard_buffer, buffer_read_pos, buffer_write_pos>>
decoder == <<kbd_state, kbd_extended, prefix_sent>>
thread == <<pc, ch, delivered>>
vars == <<ring, decoder, thread>>

-----------------------------------------------------------------------------

\* A scancode: the 0xE0 prefix, or a key with its make (press) or break code.
Modifiers == {"lshift", "rshift", "ctrl", "alt", "caps"}
Keys == Modifiers \cup Letters \cup Symbols \cup Silent
NoChar == <<"none", FALSE>>

\* A character is a key in its plain or its shifted form.
Chars == (Letters \cup Symbols) \X BOOLEAN

\* The tables and the caps lock correction: caps lock inverts shift for
\* letters and does nothing for the other keys; 0 is no character.
translate(key, state) ==
    IF key \in Letters THEN <<key, state.shift # state.caps>>
    ELSE IF key \in Symbols THEN <<key, state.shift>>
    ELSE NoChar

\* Mutant: the full buffer is not recognised.
buffer_put_unchecked(c) ==
    /\ keyboard_buffer' = [keyboard_buffer EXCEPT ![buffer_write_pos] = c]
    /\ buffer_write_pos' = (buffer_write_pos + 1) % KEYBOARD_BUFFER_SIZE
    /\ UNCHANGED buffer_read_pos

\* Adds c unless the buffer is full, in which case c is lost.
keyboard_buffer_put(c) ==
    LET next_pos == (buffer_write_pos + 1) % KEYBOARD_BUFFER_SIZE
    IN  /\ UNCHANGED buffer_read_pos
        /\ IF next_pos # buffer_read_pos
           THEN /\ keyboard_buffer' =
                       [keyboard_buffer EXCEPT ![buffer_write_pos] = c]
                /\ buffer_write_pos' = next_pos
           ELSE UNCHANGED <<keyboard_buffer, buffer_write_pos>>

\* Mutant: the thread goes on sleeping.
Wake_lost == UNCHANGED pc

\* An interrupt ends a halt.
Wake == pc' = IF pc = "halted" THEN "check" ELSE pc

-----------------------------------------------------------------------------
(* IRQ1: keyboard_handler.  prefix_sent follows the keyboard, kbd_extended *)
(* the driver.                                                             *)

\* Mutant: the prefix is ignored.
handler_prefix_ignored ==
    /\ ~prefix_sent
    /\ prefix_sent' = TRUE
    /\ Wake
    /\ UNCHANGED <<ring, kbd_state, kbd_extended, ch, delivered>>

\* The keyboard sends the 0xE0 of an extended key.
keyboard_handler_prefix ==
    /\ ~prefix_sent
    /\ prefix_sent' = TRUE
    /\ kbd_extended' = TRUE
    /\ Wake
    /\ UNCHANGED <<ring, kbd_state, ch, delivered>>

\* A byte while the flag is set, make or break, is ignored.
keyboard_handler_extended(key, pressed) ==
    /\ kbd_extended
    /\ prefix_sent' = FALSE
    /\ kbd_extended' = FALSE
    /\ Wake
    /\ UNCHANGED <<ring, kbd_state, ch, delivered>>

\* What a modifier does to the state bits.
modifier(key, pressed) ==
    CASE key \in {"lshift", "rshift"} -> [kbd_state EXCEPT !.shift = pressed]
      [] key = "ctrl" -> [kbd_state EXCEPT !.ctrl = pressed]
      [] key = "alt"  -> [kbd_state EXCEPT !.alt = pressed]
      [] key = "caps" -> IF pressed THEN [kbd_state EXCEPT !.caps = ~@]
                         ELSE kbd_state

\* A make or break code of a modifier.
keyboard_handler_modifier(key, pressed) ==
    /\ ~kbd_extended
    /\ key \in Modifiers
    /\ prefix_sent' = FALSE
    /\ kbd_state' = modifier(key, pressed)
    /\ Wake
    /\ UNCHANGED <<ring, kbd_extended, ch, delivered>>

\* Any other code: a release does nothing, a press puts the character, if
\* there is one, into the buffer.
keyboard_handler_key(key, pressed) ==
    /\ ~kbd_extended
    /\ key \notin Modifiers
    /\ prefix_sent' = FALSE
    /\ LET ascii == translate(key, kbd_state)
       IN  IF pressed /\ ascii # NoChar THEN keyboard_buffer_put(ascii)
           ELSE UNCHANGED ring
    /\ Wake
    /\ UNCHANGED <<kbd_state, kbd_extended, ch, delivered>>

\* IRQ0: the timer's handler touches nothing of the keyboard's.
timer_irq ==
    /\ Wake
    /\ UNCHANGED <<ring, decoder, ch, delivered>>

-----------------------------------------------------------------------------
(* The thread.                                                             *)

\* keyboard_getchar(): while (read_pos == write_pos).
getchar_check ==
    /\ pc = "check"
    /\ pc' = IF buffer_read_pos = buffer_write_pos THEN "hlt" ELSE "read"
    /\ UNCHANGED <<ring, decoder, ch, delivered>>

\* hlt: the CPU sleeps until the next interrupt.
getchar_hlt ==
    /\ pc = "hlt"
    /\ pc' = "halted"
    /\ UNCHANGED <<ring, decoder, ch, delivered>>

\* Mutant: the position moves before the character is read.
getchar_read_late ==
    /\ pc = "read"
    /\ ch' = keyboard_buffer[(buffer_read_pos + 1) % KEYBOARD_BUFFER_SIZE]
    /\ pc' = "advance"
    /\ UNCHANGED <<ring, decoder, delivered>>

\* c = keyboard_buffer[buffer_read_pos].
getchar_read ==
    /\ pc = "read"
    /\ ch' = keyboard_buffer[buffer_read_pos]
    /\ pc' = "advance"
    /\ UNCHANGED <<ring, decoder, delivered>>

\* The position moves and c is returned; the shell asks for the next one.
getchar_advance ==
    /\ pc = "advance"
    /\ buffer_read_pos' = (buffer_read_pos + 1) % KEYBOARD_BUFFER_SIZE
    /\ delivered' = ch
    /\ pc' = "check"
    /\ UNCHANGED <<keyboard_buffer, buffer_write_pos, decoder, ch>>

\* keyboard_flush(): read_pos = 0 ...
flush_read_pos ==
    /\ pc = "check"
    /\ buffer_read_pos' = 0
    /\ pc' = "flush"
    /\ UNCHANGED <<keyboard_buffer, buffer_write_pos, decoder, ch, delivered>>

\* ... then write_pos = 0; a key between the two is lost.
flush_write_pos ==
    /\ pc = "flush"
    /\ buffer_write_pos' = 0
    /\ pc' = "check"
    /\ UNCHANGED <<keyboard_buffer, buffer_read_pos, decoder, ch, delivered>>

Getchar == getchar_check \/ getchar_hlt \/ getchar_read \/ getchar_advance

Init ==
    /\ keyboard_buffer = [i \in 0 .. (KEYBOARD_BUFFER_SIZE - 1) |-> NoChar]
    /\ buffer_read_pos = 0 /\ buffer_write_pos = 0
    /\ kbd_state = [shift |-> FALSE, ctrl |-> FALSE, alt |-> FALSE,
                    caps |-> FALSE]
    /\ kbd_extended = FALSE /\ prefix_sent = FALSE
    /\ pc = "check" /\ ch = NoChar /\ delivered = NoChar

Next ==
    \/ keyboard_handler_prefix
    \/ \E key \in Keys, pressed \in BOOLEAN :
          \/ keyboard_handler_extended(key, pressed)
          \/ keyboard_handler_modifier(key, pressed)
          \/ keyboard_handler_key(key, pressed)
    \/ timer_irq
    \/ Getchar \/ flush_read_pos \/ flush_write_pos

\* The thread runs whenever it is not halted, and the PIT interrupts at 100 Hz
\* for ever.  Nothing is assumed about the keys.
Fairness == WF_vars(Getchar) /\ WF_vars(flush_write_pos) /\ WF_vars(timer_irq)

Spec == Init /\ [][Next]_vars
FairSpec == Spec /\ Fairness

-----------------------------------------------------------------------------
(* Properties                                                              *)

TypeOK ==
    /\ keyboard_buffer \in [0 .. (KEYBOARD_BUFFER_SIZE - 1) -> Chars \cup {NoChar}]
    /\ buffer_read_pos \in 0 .. (KEYBOARD_BUFFER_SIZE - 1)
    /\ buffer_write_pos \in 0 .. (KEYBOARD_BUFFER_SIZE - 1)
    /\ kbd_state \in [shift : BOOLEAN, ctrl : BOOLEAN, alt : BOOLEAN, caps : BOOLEAN]
    /\ kbd_extended \in BOOLEAN /\ prefix_sent \in BOOLEAN
    /\ pc \in {"check", "hlt", "halted", "read", "advance", "flush"}
    /\ ch \in Chars \cup {NoChar} /\ delivered \in Chars \cup {NoChar}

\* The number of characters between the two positions.
Waiting ==
    (buffer_write_pos - buffer_read_pos) % KEYBOARD_BUFFER_SIZE

\* keyboard_getchar() read a slot that still holds what it read when the
\* position moves on, however many keys came in between: the handler never
\* overwrites the slot being read and never makes the buffer look empty.
ReadSlotStable ==
    pc = "advance" => /\ Waiting > 0
                      /\ ch = keyboard_buffer[buffer_read_pos]
                      /\ ch # NoChar

\* The positions stay inside the ring, and the slot being read is never
\* overwritten or emptied under the reader.
RingIsSound == TypeOK /\ ReadSlotStable

\* "para nao injetar um caractere espurio": the second byte of an extended
\* key never puts a character into the buffer.
ExtendedKeysAreSilent ==
    [][prefix_sent /\ ~prefix_sent' => UNCHANGED <<keyboard_buffer, kbd_state>>]_vars

\* The ring buffer with its two positions and its readers is a bounded queue:
\* first in first out, at most KEYBOARD_BUFFER_SIZE - 1 characters, each
\* delivered once and unchanged.  While a flush is between its two writes the
\* queue counts as empty.
Contents ==
    IF pc = "flush" THEN << >>
    ELSE [i \in 1 .. Waiting |->
             keyboard_buffer[(buffer_read_pos + i - 1) % KEYBOARD_BUFFER_SIZE]]
Queue == INSTANCE BoundedQueue
    WITH queue <- Contents, Capacity <- KEYBOARD_BUFFER_SIZE - 1
IsABoundedQueue == Queue!Spec

\* Whoever waits in keyboard_getchar() gets the character that arrived, even
\* when it arrived between the check and the hlt: the timer ends the halt.
\* (A flush may take the character away.)
EveryKeyIsRead ==
    (Waiting > 0 /\ pc # "flush") ~> (pc = "advance" \/ Waiting = 0)
=============================================================================
