------------------------------- MODULE Serial -------------------------------
(***************************************************************************)
(* The serial driver, munux-os/kernel/drivers/serial.c, with its UART and  *)
(* the terminal at the other end, both external.  The far terminal shows   *)
(* one line: a backspace moves its cursor to the left and erases nothing,  *)
(* a character overwrites what is under the cursor.                        *)
(***************************************************************************)
EXTENDS Integers, Sequences

CONSTANT
    Uarts   \* "works"; "loops": fails the loopback test; "dead": never ready

ASSUME SerialAssumption == Uarts \subseteq {"works", "loops", "dead"}

VARIABLES
    uart,       \* which of them it is
    loopback,   \* serial_init() left it in loopback mode
    thr_empty,  \* the transmitter takes a character
    far         \* the far terminal's line: its text, and the cursor

com1 == <<uart, loopback, thr_empty, far>>

BS == "backspace"
NoFar == [text |-> << >>, cursor |-> 0]

SerialInit ==
    /\ uart \in Uarts
    /\ loopback = FALSE
    /\ thr_empty = (uart # "dead")
    /\ far = NoFar

\* The loopback test fails: serial_init() returns 1 before the normal mode is set.
serial_init ==
    /\ loopback' = (uart # "works")
    /\ UNCHANGED <<uart, thr_empty, far>>

\* What a character does to the far terminal.
Shown(f, c) ==
    CASE c = "\n" -> NoFar
      [] c = BS -> [f EXCEPT !.cursor = IF @ > 0 THEN @ - 1 ELSE 0]
      [] OTHER -> [text |-> IF f.cursor < Len(f.text) THEN [f.text EXCEPT ![f.cursor + 1] = c]
                            ELSE Append(f.text, c),
                   cursor |-> f.cursor + 1]

\* Mutant: the status bit is read the wrong way round.
serial_putchar_inverted(c) ==
    /\ ~thr_empty
    /\ thr_empty' = FALSE
    /\ far' = IF loopback THEN far ELSE Shown(far, c)
    /\ UNCHANGED <<uart, loopback>>

\* It polls until the transmitter is empty, then the character goes out.
serial_putchar(c) ==
    /\ thr_empty
    /\ thr_empty' = FALSE
    /\ far' = IF loopback THEN far ELSE Shown(far, c)
    /\ UNCHANGED <<uart, loopback>>

\* The UART has sent the character.
uart_drains ==
    /\ ~thr_empty /\ uart # "dead"
    /\ thr_empty' = TRUE
    /\ UNCHANGED <<uart, loopback, far>>
=============================================================================
