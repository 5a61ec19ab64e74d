------------------------------ MODULE Terminal ------------------------------
(***************************************************************************)
(* The VGA text terminal of munux-os/kernel/kernel.c, as operators on a    *)
(* screen: its cells, numbered from the top left, and the cursor.  Colours *)
(* are left out.                                                           *)
(***************************************************************************)
EXTENDS Integers, SequencesExt

CONSTANTS VGA_WIDTH, VGA_HEIGHT

ASSUME TerminalAssumption == VGA_WIDTH \in Nat \ {0} /\ VGA_HEIGHT \in Nat \ {0}

CELLS == VGA_WIDTH * VGA_HEIGHT
Blank == " "

\* The cell under the cursor.
Cursor(s) == s.row * VGA_WIDTH + s.column

terminal_clear == [cells |-> [i \in 0 .. (CELLS - 1) |-> Blank], row |-> 0, column |-> 0]

\* Every row moves up, and the last one is blank.
Scrolled(cells) ==
    [i \in 0 .. (CELLS - 1) |->
        IF i + VGA_WIDTH < CELLS THEN cells[i + VGA_WIDTH] ELSE Blank]

NewLine(s) ==
    IF s.row + 1 = VGA_HEIGHT
    THEN [s EXCEPT !.cells = Scrolled(@), !.column = 0]
    ELSE [s EXCEPT !.row = @ + 1, !.column = 0]

\* Mutant: the cursor goes past the last row.
Advanced_unbounded(s) ==
    IF s.column + 1 < VGA_WIDTH THEN [s EXCEPT !.column = @ + 1]
    ELSE [s EXCEPT !.column = 0, !.row = @ + 1]

\* The cursor after a character: the last cell is followed by the first one.
Advanced(s) ==
    IF s.column + 1 < VGA_WIDTH THEN [s EXCEPT !.column = @ + 1]
    ELSE [s EXCEPT !.column = 0, !.row = (@ + 1) % VGA_HEIGHT]

terminal_putchar(s, c) ==
    IF c = "\n" THEN NewLine(s) ELSE Advanced([s EXCEPT !.cells[Cursor(s)] = c])

\* The screen after each of the characters of a text.
Written(s, text) ==
    LET after[i \in 0 .. Len(text)] ==
            IF i = 0 THEN s ELSE terminal_putchar(after[i - 1], text[i])
    IN  after

terminal_writestring(s, text) == Written(s, text)[Len(text)]

\* One cell back, which is erased; nothing happens in the top left corner.
terminal_backspace(s) ==
    LET back == IF s.column > 0 THEN [s EXCEPT !.column = @ - 1]
                ELSE [s EXCEPT !.row = @ - 1, !.column = VGA_WIDTH - 1]
    IN  IF Cursor(s) = 0 THEN s ELSE [back EXCEPT !.cells[Cursor(back)] = Blank]
=============================================================================
