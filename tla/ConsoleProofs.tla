--------------------------- MODULE ConsoleProofs ---------------------------
(***************************************************************************)
(* The console of Console, for screens, lines and alphabets of any size    *)
(* and any UART: the order of the boot, and what the screen and the far    *)
(* terminal show of the line that is being read.                           *)
(***************************************************************************)
EXTENDS Console, SequenceTheorems, WellFoundedInduction, NaturalsInduction, TLAPS

Cells == 0 .. (CELLS - 1)
Screens == [cells : [Cells -> Chars], row : 0 .. (VGA_HEIGHT - 1),
            column : 0 .. (VGA_WIDTH - 1)]

-----------------------------------------------------------------------------
(* The screen                                                              *)

\* A row that is not below another begins no later.
LEMMA Rows ==
    ASSUME NEW a \in Nat, NEW b \in Nat, NEW w \in Nat, a <= b
    PROVE  a * w <= b * w /\ a * w \in Nat
<1>1. PICK d \in Nat : b = a + d
  <2>1. b - a \in Nat /\ b = a + (b - a)
    OBVIOUS
  <2> QED
    BY <2>1
<1>2. b * w = a * w + d * w
  BY <1>1
<1>3. a * w \in Nat /\ d * w \in Nat
  OBVIOUS
<1> QED
  BY <1>2, <1>3

\* The cursor is on the screen, and where the last row and the last column are.
LEMMA CursorFacts ==
    ASSUME NEW r \in 0 .. (VGA_HEIGHT - 1), NEW c \in 0 .. (VGA_WIDTH - 1)
    PROVE  /\ CELLS \in Nat \ {0} /\ r * VGA_WIDTH \in Nat
           /\ r * VGA_WIDTH + c \in Cells
           /\ (r + 1) * VGA_WIDTH = r * VGA_WIDTH + VGA_WIDTH
           /\ r + 1 = VGA_HEIGHT => r * VGA_WIDTH + VGA_WIDTH = CELLS
           /\ r + 1 # VGA_HEIGHT => r * VGA_WIDTH + VGA_WIDTH < CELLS
           /\ r # 0 => r * VGA_WIDTH >= VGA_WIDTH
<1> USE TerminalAssumption
<1>1. (r + 1) * VGA_WIDTH = r * VGA_WIDTH + VGA_WIDTH /\ r * VGA_WIDTH \in Nat
  OBVIOUS
<1>2. CELLS = VGA_HEIGHT * VGA_WIDTH
  BY DEF CELLS
<1>3. r + 1 \in Nat /\ VGA_HEIGHT \in Nat /\ VGA_WIDTH \in Nat /\ r + 1 <= VGA_HEIGHT
  OBVIOUS
<1>4. (r + 1) * VGA_WIDTH <= VGA_HEIGHT * VGA_WIDTH
  BY <1>3, Rows
<1>5. CELLS \in Nat \ {0}
  BY <1>1, <1>2, <1>4
<1>6. r * VGA_WIDTH + c \in Cells
  BY <1>1, <1>2, <1>4, <1>5 DEF Cells
<1>7. r + 1 = VGA_HEIGHT => r * VGA_WIDTH + VGA_WIDTH = CELLS
  BY <1>1, <1>2
<1>8. r + 1 # VGA_HEIGHT => r * VGA_WIDTH + VGA_WIDTH < CELLS
  <2> SUFFICES ASSUME r + 1 # VGA_HEIGHT
               PROVE  r * VGA_WIDTH + VGA_WIDTH < CELLS
    OBVIOUS
  <2>1. r + 2 \in Nat /\ r + 2 <= VGA_HEIGHT
    BY <1>3
  <2>2. (r + 2) * VGA_WIDTH <= VGA_HEIGHT * VGA_WIDTH
    BY <1>3, <2>1, Rows
  <2>3. (r + 2) * VGA_WIDTH = r * VGA_WIDTH + VGA_WIDTH + VGA_WIDTH
    OBVIOUS
  <2> QED
    BY <1>1, <1>2, <2>2, <2>3
<1>9. r # 0 => r * VGA_WIDTH >= VGA_WIDTH
  <2>1. r # 0 => 1 * VGA_WIDTH <= r * VGA_WIDTH
    BY <1>3, Rows
  <2> QED
    BY <2>1
<1> QED
  BY <1>1, <1>5, <1>6, <1>7, <1>8, <1>9

\* A screen's fields.
LEMMA ScreenFacts ==
    ASSUME NEW s \in Screens
    PROVE  /\ s.cells \in [Cells -> Chars]
           /\ s.row \in 0 .. (VGA_HEIGHT - 1) /\ s.column \in 0 .. (VGA_WIDTH - 1)
           /\ Cursor(s) \in Cells /\ Cursor(s) = s.row * VGA_WIDTH + s.column
<1>1. /\ s.cells \in [Cells -> Chars]
      /\ s.row \in 0 .. (VGA_HEIGHT - 1) /\ s.column \in 0 .. (VGA_WIDTH - 1)
  BY DEF Screens
<1>2. s.row * VGA_WIDTH + s.column \in Cells
  BY <1>1, CursorFacts
<1> QED
  BY <1>1, <1>2 DEF Cursor

\* The cursor goes to the next cell, from the last one to the first.
LEMMA AdvancedFacts ==
    ASSUME NEW s \in Screens
    PROVE  /\ Advanced(s) \in Screens /\ Advanced(s).cells = s.cells
           /\ Cursor(Advanced(s)) = IF Cursor(s) + 1 = CELLS THEN 0 ELSE Cursor(s) + 1
<1> USE TerminalAssumption
<1> DEFINE r == s.row
           c == s.column
<1>0. /\ s.cells \in [Cells -> Chars]
      /\ r \in 0 .. (VGA_HEIGHT - 1) /\ c \in 0 .. (VGA_WIDTH - 1)
      /\ Cursor(s) = r * VGA_WIDTH + c
  BY ScreenFacts
<1>1. /\ r * VGA_WIDTH \in Nat /\ (r + 1) * VGA_WIDTH = r * VGA_WIDTH + VGA_WIDTH
      /\ r + 1 = VGA_HEIGHT => r * VGA_WIDTH + VGA_WIDTH = CELLS
      /\ r + 1 # VGA_HEIGHT => r * VGA_WIDTH + VGA_WIDTH < CELLS
      /\ CELLS \in Nat
  BY <1>0, CursorFacts
<1>2. CASE c + 1 < VGA_WIDTH
  <2>1. Advanced(s) = [s EXCEPT !.column = @ + 1]
    BY <1>2 DEF Advanced
  <2>2. /\ Advanced(s) \in Screens /\ Advanced(s).cells = s.cells
        /\ Advanced(s).row = r /\ Advanced(s).column = c + 1
    BY <1>0, <1>2, <2>1 DEF Screens
  <2>3. Cursor(s) + 1 < CELLS
    BY <1>0, <1>1, <1>2
  <2> QED
    BY <1>0, <1>1, <2>2, <2>3 DEF Cursor
<1>3. CASE ~ (c + 1 < VGA_WIDTH)
  <2>0. c + 1 = VGA_WIDTH
    BY <1>0, <1>3
  <2> DEFINE q == (r + 1) % VGA_HEIGHT
  <2>1. Advanced(s) = [s EXCEPT !.column = 0, !.row = q]
    BY <1>3 DEF Advanced
  <2>2. q = IF r + 1 = VGA_HEIGHT THEN 0 ELSE r + 1
    BY <1>0
  <2> HIDE DEF q
  <2>3. /\ Advanced(s) \in Screens /\ Advanced(s).cells = s.cells
        /\ Advanced(s).row = q /\ Advanced(s).column = 0
    <3>1. q \in 0 .. (VGA_HEIGHT - 1)
      BY <1>0, <2>2
    <3> DEFINE t == [s EXCEPT !.column = 0]
    <3>2. t \in Screens /\ t.cells = s.cells /\ t.row = r /\ t.column = 0
      BY <1>0 DEF Screens
    <3>3. Advanced(s) = [t EXCEPT !.row = q]
      BY <2>1
    <3> HIDE DEF t
    <3> QED
      BY <3>1, <3>2, <3>3 DEF Screens
  <2>4. Cursor(Advanced(s)) = q * VGA_WIDTH + 0
    BY <2>3 DEF Cursor
  <2>5. Cursor(s) + 1 = r * VGA_WIDTH + VGA_WIDTH
    BY <1>0, <1>1, <2>0
  <2>6. CASE r + 1 = VGA_HEIGHT
    BY <1>1, <2>2, <2>3, <2>4, <2>5, <2>6
  <2>7. CASE r + 1 # VGA_HEIGHT
    <3>1. Cursor(Advanced(s)) = (r + 1) * VGA_WIDTH
      BY <1>0, <1>1, <2>2, <2>4, <2>7
    <3> QED
      BY <1>1, <2>3, <2>5, <2>7, <3>1
  <2> QED
    BY <2>6, <2>7
<1> QED
  BY <1>2, <1>3

\* A character that is not a newline goes where the cursor was.
LEMMA PutFacts ==
    ASSUME NEW s \in Screens, NEW c \in Chars, c # "\n"
    PROVE  /\ terminal_putchar(s, c) \in Screens
           /\ terminal_putchar(s, c).cells = [s.cells EXCEPT ![Cursor(s)] = c]
           /\ Cursor(terminal_putchar(s, c)) =
                 IF Cursor(s) + 1 = CELLS THEN 0 ELSE Cursor(s) + 1
<1> DEFINE t == [s EXCEPT !.cells[Cursor(s)] = c]
<1>1. s.cells \in [Cells -> Chars] /\ Cursor(s) \in Cells
  BY ScreenFacts
<1>2. t.cells = [s.cells EXCEPT ![Cursor(s)] = c] /\ t.row = s.row /\ t.column = s.column
  BY DEF Screens
<1>3. t \in Screens
  BY <1>1, <1>2 DEF Screens
<1>4. Cursor(t) = Cursor(s)
  BY <1>2 DEF Cursor
<1>5. terminal_putchar(s, c) = Advanced(t)
  BY DEF terminal_putchar
<1> HIDE DEF t
<1> QED
  BY <1>2, <1>3, <1>4, <1>5, AdvancedFacts

\* The screen stays one, whatever is written and erased.
LEMMA ClearFacts == terminal_clear \in Screens
<1>1. 0 \in 0 .. (VGA_HEIGHT - 1) /\ 0 \in 0 .. (VGA_WIDTH - 1)
  BY TerminalAssumption
<1> QED
  BY <1>1 DEF terminal_clear, Screens, Cells, Chars

LEMMA PutTyped ==
    ASSUME NEW s \in Screens, NEW c \in Chars
    PROVE  terminal_putchar(s, c) \in Screens
<1>1. CASE c # "\n"
  BY <1>1, PutFacts
<1>2. CASE c = "\n"
  <2> USE TerminalAssumption
  <2>0. /\ s.cells \in [Cells -> Chars]
        /\ s.row \in 0 .. (VGA_HEIGHT - 1) /\ s.column \in 0 .. (VGA_WIDTH - 1)
        /\ CELLS \in Nat
    BY ScreenFacts, CursorFacts
  <2>1. terminal_putchar(s, c) = NewLine(s)
    BY <1>2 DEF terminal_putchar
  <2>2. CASE s.row + 1 = VGA_HEIGHT
    <3>1. Scrolled(s.cells) \in [Cells -> Chars]
      BY <2>0 DEF Scrolled, Cells, Chars
    <3>2. NewLine(s) = [s EXCEPT !.cells = Scrolled(s.cells), !.column = 0]
      BY <2>2 DEF NewLine
    <3> DEFINE t == [s EXCEPT !.cells = Scrolled(s.cells)]
    <3>3. t \in Screens
      BY <3>1 DEF Screens
    <3>4. NewLine(s) = [t EXCEPT !.column = 0]
      BY <3>2
    <3> HIDE DEF t
    <3> QED
      BY <2>1, <3>3, <3>4 DEF Screens
  <2>3. CASE s.row + 1 # VGA_HEIGHT
    <3> DEFINE t == [s EXCEPT !.row = s.row + 1]
    <3>1. s.row + 1 \in 0 .. (VGA_HEIGHT - 1)
      BY <2>0, <2>3
    <3>2. t \in Screens
      BY <3>1 DEF Screens
    <3>3. NewLine(s) = [t EXCEPT !.column = 0]
      BY <2>3 DEF NewLine
    <3> HIDE DEF t
    <3> QED
      BY <2>1, <3>2, <3>3 DEF Screens
  <2> QED
    BY <2>2, <2>3
<1> QED
  BY <1>1, <1>2

\* A backspace erases the cell before the cursor and goes there, but in the top
\* left corner.
LEMMA BackFacts ==
    ASSUME NEW s \in Screens
    PROVE  LET b == terminal_backspace(s)
           IN  /\ b \in Screens
               /\ Cursor(s) = 0 => b = s
               /\ Cursor(s) # 0 => /\ Cursor(b) = Cursor(s) - 1
                                   /\ b.cells = [s.cells EXCEPT ![Cursor(s) - 1] = Blank]
<1> USE TerminalAssumption
<1>0. /\ s.cells \in [Cells -> Chars]
      /\ s.row \in 0 .. (VGA_HEIGHT - 1) /\ s.column \in 0 .. (VGA_WIDTH - 1)
      /\ Cursor(s) \in Cells /\ Cursor(s) = s.row * VGA_WIDTH + s.column
  BY ScreenFacts
<1>1. CASE Cursor(s) = 0
  BY <1>1 DEF terminal_backspace
<1>2. CASE Cursor(s) # 0
  <2> DEFINE back == IF s.column > 0 THEN [s EXCEPT !.column = @ - 1]
                     ELSE [s EXCEPT !.row = @ - 1, !.column = VGA_WIDTH - 1]
  <2>1. terminal_backspace(s) = [back EXCEPT !.cells[Cursor(back)] = Blank]
    BY <1>2 DEF terminal_backspace
  <2>2. back \in Screens /\ back.cells = s.cells /\ Cursor(back) = Cursor(s) - 1
    <3>1. CASE s.column > 0
      <4>1. /\ back \in Screens /\ back.cells = s.cells
            /\ back.row = s.row /\ back.column = s.column - 1
        BY <1>0, <3>1 DEF Screens
      <4>2. s.row * VGA_WIDTH \in Nat
        BY <1>0
      <4> QED
        BY <1>0, <4>1, <4>2 DEF Cursor
    <3>2. CASE ~ (s.column > 0)
      <4> DEFINE t == [s EXCEPT !.row = s.row - 1]
      <4>1. s.column = 0 /\ s.row # 0
        BY <1>0, <1>2, <3>2
      <4>2. s.row - 1 \in 0 .. (VGA_HEIGHT - 1) /\ VGA_WIDTH - 1 \in 0 .. (VGA_WIDTH - 1)
        BY <1>0, <4>1
      <4>3. t \in Screens /\ t.cells = s.cells /\ t.row = s.row - 1
        BY <4>2 DEF Screens
      <4>4. back = [t EXCEPT !.column = VGA_WIDTH - 1]
        BY <3>2
      <4> HIDE DEF t, back
      <4>5. /\ back \in Screens /\ back.cells = s.cells
            /\ back.row = s.row - 1 /\ back.column = VGA_WIDTH - 1
        BY <4>2, <4>3, <4>4 DEF Screens
      <4>6. (s.row - 1) * VGA_WIDTH = s.row * VGA_WIDTH - VGA_WIDTH
        BY <1>0
      <4>7. s.row * VGA_WIDTH \in Nat
        BY <1>0
      <4> QED
        BY <1>0, <4>1, <4>5, <4>6, <4>7 DEF Cursor
    <3> QED
      BY <3>1, <3>2
  <2> HIDE DEF back
  <2> DEFINE b == [back EXCEPT !.cells[Cursor(back)] = Blank]
  <2>3. /\ b.cells = [s.cells EXCEPT ![Cursor(s) - 1] = Blank]
        /\ b.row = back.row /\ b.column = back.column
    BY <2>2 DEF Screens
  <2>4. b \in Screens
    BY <1>0, <2>2, <2>3 DEF Screens, Chars
  <2>5. Cursor(b) = Cursor(back)
    BY <2>3 DEF Cursor
  <2> QED
    BY <1>2, <2>1, <2>2, <2>3, <2>4, <2>5
<1> QED
  BY <1>1, <1>2

-----------------------------------------------------------------------------
(* Texts on the screen                                                     *)

LEMMA Least ==
    ASSUME NEW T, T \subseteq Nat, T # {}
    PROVE  \E s \in T : \A t \in T : s <= t
<1>1. PICK s \in T : \A t \in T : ~ (<<t, s>> \in OpToRel(<, Nat))
  BY NatLessThanWellFounded, WFMin
<1>2. \A t \in T : ~ (t < s)
  BY <1>1 DEF OpToRel
<1> QED
  BY <1>2

\* f goes through the screens of the first n characters of a text.
Writes(f, n, s, text) ==
    /\ f \in [0 .. n -> Screens]
    /\ f[0] = s
    /\ \A i \in 1 .. n : f[i] = terminal_putchar(f[i - 1], text[i])

LEMMA WritesExist ==
    ASSUME NEW s \in Screens, NEW text \in Seq(Chars), NEW n \in 0 .. Len(text)
    PROVE  \E f : Writes(f, n, s, text)
<1> DEFINE T == {m \in 0 .. Len(text) : ~ \E f : Writes(f, m, s, text)}
<1> SUFFICES ASSUME T # {}
             PROVE  FALSE
  OBVIOUS
<1>0. Len(text) \in Nat /\ T \subseteq Nat
  OBVIOUS
<1>1. PICK m \in T : \A t \in T : m <= t
  BY <1>0, Least
<1>2. CASE m = 0
  <2>1. Writes([i \in 0 .. 0 |-> s], 0, s, text)
    BY DEF Writes
  <2> QED
    BY <1>2, <2>1
<1>3. CASE m # 0
  <2>0. m \in Nat /\ m - 1 \in 0 .. Len(text) /\ m \in 1 .. Len(text) /\ ~ (m <= m - 1)
    BY <1>0, <1>3
  <2>1. m \in Nat /\ m - 1 \in 0 .. Len(text) /\ m \in 1 .. Len(text) /\ m - 1 \notin T
    BY <1>1, <2>0
  <2>2. PICK f : Writes(f, m - 1, s, text)
    BY <2>1
  <2> DEFINE v == terminal_putchar(f[m - 1], text[m])
             g == [i \in 0 .. m |-> IF i = m THEN v ELSE f[i]]
  <2>3. f[m - 1] \in Screens /\ text[m] \in Chars
    BY <2>1, <2>2 DEF Writes
  <2>4. v \in Screens
    BY <2>3, PutTyped
  <2> HIDE DEF v
  <2>5. g \in [0 .. m -> Screens] /\ g[0] = s
    BY <2>1, <2>2, <2>4, <1>3 DEF Writes
  <2>6. ASSUME NEW i \in 1 .. m
        PROVE  g[i] = terminal_putchar(g[i - 1], text[i])
    <3>1. g[i - 1] = f[i - 1]
      BY <2>1
    <3>2. CASE i = m
      BY <2>1, <3>1, <3>2 DEF v
    <3>3. CASE i # m
      BY <2>1, <2>2, <3>1, <3>3 DEF Writes
    <3> QED
      BY <3>2, <3>3
  <2>7. Writes(g, m, s, text)
    BY <2>5, <2>6 DEF Writes
  <2> QED
    BY <2>7
<1> QED
  BY <1>2, <1>3

\* terminal_writestring() puts the characters of a text one after the other.
LEMMA WriteFacts ==
    ASSUME NEW s \in Screens, NEW text \in Seq(Chars)
    PROVE  Writes(Written(s, text), Len(text), s, text)
<1> DEFINE n == Len(text)
           P(f) == f = [i \in 0 .. n |->
                           IF i = 0 THEN s ELSE terminal_putchar(f[i - 1], text[i])]
<1>0. n \in Nat
  OBVIOUS
<1>1. PICK f : Writes(f, n, s, text)
  BY WritesExist
<1> HIDE DEF n
<1>2. P(f)
  BY <1>0, <1>1 DEF Writes
<1>3. Written(s, text) = CHOOSE g : P(g)
  BY DEF Written, n
<1> HIDE DEF P
<1>4. P(Written(s, text))
  BY <1>2, <1>3
<1> DEFINE w == Written(s, text)
<1>5. /\ w = [i \in 0 .. n |-> w[i]]
      /\ \A i \in 0 .. n : w[i] = IF i = 0 THEN s ELSE terminal_putchar(w[i - 1], text[i])
  BY <1>4 DEF P
<1> HIDE DEF w
<1>6. \A i \in 0 .. n : w[i] = f[i]
  <2> DEFINE T == {i \in 0 .. n : w[i] # f[i]}
  <2> SUFFICES ASSUME T # {}
               PROVE  FALSE
    OBVIOUS
  <2>0. T \subseteq Nat
    BY <1>0
  <2>1. PICK i \in T : \A t \in T : i <= t
    BY <2>0, Least
  <2>2. i # 0
    BY <1>0, <1>1, <1>5, <2>1 DEF Writes
  <2>3. i - 1 \in 0 .. n /\ i \in 1 .. n /\ i - 1 \notin T
    BY <1>0, <2>1, <2>2
  <2>4. w[i - 1] = f[i - 1]
    BY <2>3
  <2> QED
    BY <1>1, <1>5, <2>1, <2>2, <2>3, <2>4 DEF Writes
<1>7. w = f
  BY <1>1, <1>5, <1>6 DEF Writes
<1> QED
  BY <1>1, <1>7 DEF w, n

LEMMA WriteTyped ==
    ASSUME NEW s \in Screens, NEW text \in Seq(Chars)
    PROVE  terminal_writestring(s, text) \in Screens
<1>1. Written(s, text) \in [0 .. Len(text) -> Screens]
  BY WriteFacts DEF Writes
<1>2. Len(text) \in 0 .. Len(text)
  OBVIOUS
<1> QED
  BY <1>1, <1>2 DEF terminal_writestring

LEMMA WriteOne ==
    ASSUME NEW s \in Screens, NEW c \in Chars
    PROVE  terminal_writestring(s, <<c>>) = terminal_putchar(s, c)
<1>1. <<c>> \in Seq(Chars) /\ Len(<<c>>) = 1 /\ <<c>>[1] = c
  OBVIOUS
<1>2. Writes(Written(s, <<c>>), 1, s, <<c>>)
  BY <1>1, WriteFacts
<1>3. Written(s, <<c>>)[1] = terminal_putchar(Written(s, <<c>>)[0], c)
  BY <1>1, <1>2 DEF Writes
<1> QED
  BY <1>1, <1>2, <1>3 DEF terminal_writestring, Writes

-----------------------------------------------------------------------------
(* The invariant                                                           *)

Outs == [to : {"vga", "com"}, text : Seq(Chars) \ {<< >>}]

FarType == {f \in [text : Seq(Chars), cursor : Nat] : f.cursor <= Len(f.text)}

TypeInv ==
    /\ screen \in Screens /\ home \in Cells
    /\ todo \in Seq(Outs)
    /\ line \in Seq(Letters) /\ Len(line) < LINE
    /\ pc \in {"call", "check", "prompt", "read", "exec", "panic"}
    /\ stage \in 1 .. 21
    /\ far \in FarType
    /\ uart = "works" => loopback = FALSE

\* What every stage of the boot finds initialised, and that the boot is over
\* when the shell runs.
BootInv ==
    /\ pc \in {"call", "check"} => stage <= 20
    /\ pc \in {"prompt", "read", "exec"} => stage = 21
    /\ stage >= 2 => "screen" \in up
    /\ stage >= 3 => "serial" \in up
    /\ stage >= 4 => "idt" \in up
    /\ stage >= 5 => "memory" \in up
    /\ stage >= 6 => "frames" \in up
    /\ stage >= 7 => "paging" \in up
    /\ stage >= 8 => "heap" \in up
    /\ stage >= 10 => "timer" \in up
    /\ stage >= 11 => "keyboard" \in up
    /\ stage >= 12 => "interrupts" \in up
    /\ stage >= 16 => "vfs" \in up
    /\ stage >= 18 => "disk" \in up
    /\ stage < 3 => \A i \in 1 .. Len(todo) : todo[i].to = "vga"

\* The screen s shows the first n characters of the line l after the prompt in
\* the cell h: the cursor is after them, before the end of the screen or on the
\* other side of it; there it may have stopped in the corner while characters
\* were erased.
Shows(s, h, l, n) ==
    /\ s.cells[h] = ">"
    /\ \/ /\ Cursor(s) = h + 1 + n
          /\ \A i \in 1 .. n : s.cells[h + i] = l[i]
       \/ /\ Cursor(s) < h
          /\ CELLS - h <= LINE
          /\ Cursor(s) <= n
          /\ CELLS - h + Cursor(s) >= 1 + n
          /\ CELLS - h + Cursor(s) = 1 + n =>
                \A i \in 1 .. n : s.cells[(h + i) % CELLS] = l[i]

ScreenShows(n) == Shows(screen, home, line, n)

\* The cursor of the far terminal f is after the prompt and m characters, the
\* first n of which are those of the line l.
Displays(f, l, m, n) ==
    /\ f.cursor = 1 + m
    /\ f.text[1] = ">"
    /\ \A i \in 1 .. n : f.text[1 + i] = l[i]

FarShows(m, n) == uart = "works" => Displays(far, line, m, n)

FarIsEmpty == uart = "works" => far = NoFar

\* The states of the inner loop of shell_run(): the prompt, a character and a
\* backspace on their way to the screen and to COM1.
PromptGoes ==
    \/ todo = klog(Prompt) /\ home = Cursor(screen) /\ line = << >> /\ FarIsEmpty
    \/ todo = Com(Prompt) /\ line = << >> /\ ScreenShows(0) /\ FarIsEmpty

CharGoes ==
    /\ line # << >>
    /\ FarShows(Len(line) - 1, Len(line) - 1)
    /\ \/ todo = klog(<<line[Len(line)]>>) /\ ScreenShows(Len(line) - 1)
       \/ todo = Com(<<line[Len(line)]>>) /\ ScreenShows(Len(line))

BackspaceGoes ==
    todo = Com(<<BS>>) /\ ScreenShows(Len(line)) /\ FarShows(Len(line) + 1, Len(line))

ReadInv ==
    pc = "read" =>
        \/ PromptGoes \/ CharGoes \/ BackspaceGoes
        \/ todo = << >> /\ ScreenShows(Len(line)) /\ FarShows(Len(line), Len(line))

\* The last of these outputs ends in a newline, on COM1.
EndsLine(out) ==
    /\ out # << >>
    /\ LET last == out[Len(out)]
       IN  last.to = "com" /\ last.text[Len(last.text)] = "\n"

\* When the prompt is printed the far terminal is at the beginning of a line.
LineInv ==
    pc \in {"exec", "prompt"} => EndsLine(todo) \/ (todo = << >> /\ FarIsEmpty)

IInv == TypeInv /\ BootInv /\ ReadInv /\ LineInv

-----------------------------------------------------------------------------
(* Output                                                                  *)

LEMMA TextsTyped ==
    /\ Line \in Seq(Chars) \ {<< >>} /\ Text \in Seq(Chars) \ {<< >>}
    /\ Prompt \in Seq(Chars) \ {<< >>} /\ <<"\n">> \in Seq(Chars) \ {<< >>}
    /\ <<"\n">> \o Line \in Seq(Chars) \ {<< >>}
    /\ \A c \in Chars : <<c>> \in Seq(Chars) \ {<< >>}
<1>1. {"t", "\n", ">"} \subseteq Chars
  BY DEF Chars
<1>2. Line \in Seq(Chars) \ {<< >>} /\ Text \in Seq(Chars) \ {<< >>}
      /\ Prompt \in Seq(Chars) \ {<< >>} /\ <<"\n">> \in Seq(Chars) \ {<< >>}
  BY <1>1 DEF Line, Text, Prompt
<1>3. <<"\n">> \o Line \in Seq(Chars) /\ Len(<<"\n">> \o Line) = 3
  BY <1>1 DEF Line
<1>4. <<"\n">> \o Line # << >>
  BY <1>3
<1>5. \A c \in Chars : <<c>> \in Seq(Chars) \ {<< >>}
  OBVIOUS
<1> QED
  BY <1>2, <1>3, <1>4, <1>5

\* What klog() gives to the screen and to COM1.
LEMMA LogTyped ==
    ASSUME NEW text \in Seq(Chars) \ {<< >>}
    PROVE  /\ Vga(text) \in Seq(Outs) /\ Len(Vga(text)) = 1
           /\ Com(text) \in Seq(Outs) /\ Len(Com(text)) = 1
           /\ Vga(text)[1].to = "vga" /\ Vga(text)[1].text = text
           /\ Com(text)[1].to = "com" /\ Com(text)[1].text = text
           /\ klog(text) \in Seq(Outs) /\ Len(klog(text)) = 2
           /\ klog(text)[1] = Vga(text)[1] /\ klog(text)[2] = Com(text)[1]
<1>1. [to |-> "vga", text |-> text] \in Outs /\ [to |-> "com", text |-> text] \in Outs
  BY DEF Outs
<1>2. /\ Vga(text) \in Seq(Outs) /\ Len(Vga(text)) = 1
      /\ Com(text) \in Seq(Outs) /\ Len(Com(text)) = 1
      /\ Vga(text)[1].to = "vga" /\ Vga(text)[1].text = text
      /\ Com(text)[1].to = "com" /\ Com(text)[1].text = text
  BY <1>1 DEF Vga, Com
<1>3. klog(text) = Vga(text) \o Com(text)
  BY DEF klog
<1>4. /\ klog(text) \in Seq(Outs) /\ Len(klog(text)) = 1 + 1
      /\ \A i \in 1 .. 1 + 1 :
            klog(text)[i] = IF i <= 1 THEN Vga(text)[i] ELSE Com(text)[i - 1]
  BY <1>2, <1>3, ConcatProperties
<1> QED
  BY <1>2, <1>4

LEMMA WriteCallTyped == sys_write(Line) \in Seq(Outs)
<1>1. Line \in Seq(Chars) /\ Len(Line) = 2
  BY TextsTyped DEF Line
<1>2. \A i \in 1 .. 4 : (i + 1) \div 2 \in 1 .. 2
  OBVIOUS
<1>3. \A i \in 1 .. 4 : Line[(i + 1) \div 2] \in Chars
  <2>1. \A k \in 1 .. 2 : Line[k] \in Chars
    BY <1>1
  <2> QED
    BY <1>2, <2>1
<1>4. \A i \in 1 .. 4 : <<Line[(i + 1) \div 2]>> \in Seq(Chars) \ {<< >>}
  BY <1>3
<1>5. \A i \in 1 .. 4 : [to |-> IF i % 2 = 1 THEN "vga" ELSE "com",
                         text |-> <<Line[(i + 1) \div 2]>>] \in Outs
  BY <1>4 DEF Outs
<1>6. 2 * Len(Line) = 4
  BY <1>1
<1>7. sys_write(Line) = [i \in 1 .. 4 |-> [to |-> IF i % 2 = 1 THEN "vga" ELSE "com",
                                           text |-> <<Line[(i + 1) \div 2]>>]]
  BY <1>6 DEF sys_write
<1>8. sys_write(Line) \in [1 .. 4 -> Outs]
  BY <1>5, <1>7
<1> QED
  BY <1>8, SeqDef

-----------------------------------------------------------------------------
(* The boot                                                                *)

LEMMA BootIs ==
    /\ Len(Boot) = 20
    /\ Boot[1] = boot_clear /\ Boot[2] = boot_serial /\ Boot[3] = idt_init
    /\ Boot[4] = detect_memory /\ Boot[5] = pmm_init /\ Boot[6] = vmm_init
    /\ Boot[7] = heap_init /\ Boot[8] = rust_heap_smoke /\ Boot[9] = timer_init
    /\ Boot[10] = keyboard_init /\ Boot[11] = sti /\ Boot[12] = boot_selfcheck
    /\ Boot[13] = libk_selfcheck /\ Boot[14] = vfs_selftest /\ Boot[15] = vfs_init
    /\ Boot[16] = syscall_selfcheck /\ Boot[17] = disk_init /\ Boot[18] = bcache_selftest
    /\ Boot[19] = ext2_selftest /\ Boot[20] = no_disk
BY DEF Boot

\* What the stages print.
LEMMA BootPrints ==
    ASSUME NEW k \in 1 .. 20
    PROVE  /\ Boot[k].before \in {<< >>, Vga(Line), klog(Line), sys_write(Line)}
           /\ Boot[k].after \in {<< >>, Vga(Line), klog(Line), klog(Text) \o klog(Line)}
<1> DEFINE Good(s) ==
               /\ s.before \in {<< >>, Vga(Line), klog(Line), sys_write(Line)}
               /\ s.after \in {<< >>, Vga(Line), klog(Line), klog(Text) \o klog(Line)}
<1>1. /\ Good(boot_clear) /\ Good(boot_serial) /\ Good(idt_init) /\ Good(detect_memory)
      /\ Good(pmm_init) /\ Good(vmm_init) /\ Good(heap_init) /\ Good(rust_heap_smoke)
      /\ Good(timer_init) /\ Good(keyboard_init)
  BY DEF Stage, boot_clear, boot_serial, idt_init, detect_memory, pmm_init, vmm_init,
         heap_init, rust_heap_smoke, timer_init, keyboard_init
<1>2. /\ Good(sti) /\ Good(boot_selfcheck) /\ Good(libk_selfcheck) /\ Good(vfs_selftest)
      /\ Good(vfs_init) /\ Good(syscall_selfcheck) /\ Good(disk_init)
      /\ Good(bcache_selftest) /\ Good(ext2_selftest) /\ Good(no_disk)
  BY DEF Stage, sti, boot_selfcheck, libk_selfcheck, vfs_selftest, vfs_init,
         syscall_selfcheck, disk_init, bcache_selftest, ext2_selftest, no_disk
<1> HIDE DEF Good
<1>3. Good(Boot[k])
  <2>1. k \in 1 .. 10 \/ k \in 11 .. 20
    OBVIOUS
  <2>2. CASE k \in 1 .. 10
    BY <1>1, <2>2, BootIs
  <2>3. CASE k \in 11 .. 20
    BY <1>2, <2>3, BootIs
  <2> QED
    BY <2>1, <2>2, <2>3
<1> QED
  BY <1>3 DEF Good

\* What they print before serial_init() does not go to COM1.
LEMMA BootTyped ==
    ASSUME NEW k \in 1 .. 20
    PROVE  /\ Boot[k].before \in Seq(Outs) /\ Boot[k].after \in Seq(Outs)
           /\ k < 3 => /\ \A i \in 1 .. Len(Boot[k].before) : Boot[k].before[i].to = "vga"
                       /\ \A i \in 1 .. Len(Boot[k].after) : Boot[k].after[i].to = "vga"
<1>1. /\ << >> \in Seq(Outs) /\ Vga(Line) \in Seq(Outs)
      /\ klog(Line) \in Seq(Outs) /\ klog(Text) \in Seq(Outs)
  BY TextsTyped, LogTyped
<1>2. klog(Text) \o klog(Line) \in Seq(Outs)
  BY <1>1
<1>3. Boot[k].before \in Seq(Outs) /\ Boot[k].after \in Seq(Outs)
  BY <1>1, <1>2, BootPrints, WriteCallTyped
<1>4. k < 3 => k = 1 \/ k = 2
  OBVIOUS
<1>5. /\ boot_clear.before = << >> /\ boot_clear.after = << >>
      /\ boot_serial.before = << >> /\ boot_serial.after = Vga(Line)
  BY DEF boot_clear, boot_serial, Stage
<1>6. Len(<< >>) = 0 /\ Len(Vga(Line)) = 1 /\ Vga(Line)[1].to = "vga"
  BY TextsTyped, LogTyped
<1>7. CASE k = 1
  BY <1>3, <1>5, <1>6, <1>7, BootIs
<1>8. CASE k = 2
  <2>1. \A i \in 1 .. 1 : Vga(Line)[i].to = "vga"
    BY <1>6
  <2>2. \A i \in 1 .. Len(Boot[k].before) : Boot[k].before[i].to = "vga"
    BY <1>5, <1>6, <1>8, BootIs
  <2>3. \A i \in 1 .. Len(Boot[k].after) : Boot[k].after[i].to = "vga"
    BY <1>5, <1>6, <1>8, <2>1, BootIs
  <2> QED
    BY <1>3, <2>2, <2>3
<1> QED
  BY <1>3, <1>4, <1>7, <1>8

-----------------------------------------------------------------------------
(* What the shell prints                                                   *)

LEMMA LogEndsLine ==
    ASSUME NEW text \in Seq(Chars) \ {<< >>}, text[Len(text)] = "\n"
    PROVE  EndsLine(klog(text))
<1>1. Len(klog(text)) = 2 /\ klog(text)[2].to = "com" /\ klog(text)[2].text = text
  BY LogTyped
<1>2. klog(text) # << >>
  BY <1>1
<1> QED
  BY <1>1, <1>2 DEF EndsLine

LEMMA JoinEndsLine ==
    ASSUME NEW a \in Seq(Outs), NEW b \in Seq(Outs), EndsLine(b)
    PROVE  a \o b \in Seq(Outs) /\ EndsLine(a \o b)
<1>1. b # << >> /\ Len(b) \in Nat \ {0} /\ Len(a) \in Nat
  BY EmptySeq DEF EndsLine
<1>2. /\ a \o b \in Seq(Outs) /\ Len(a \o b) = Len(a) + Len(b)
      /\ \A i \in 1 .. Len(a) + Len(b) :
            (a \o b)[i] = IF i <= Len(a) THEN a[i] ELSE b[i - Len(a)]
  BY ConcatProperties
<1>3. (a \o b)[Len(a \o b)] = b[Len(b)] /\ a \o b # << >>
  BY <1>1, <1>2
<1> QED
  BY <1>2, <1>3 DEF EndsLine

LEMMA LinesEnd ==
    /\ klog(Line) \in Seq(Outs) /\ EndsLine(klog(Line))
    /\ klog(<<"\n">>) \in Seq(Outs) /\ EndsLine(klog(<<"\n">>))
    /\ klog(<<"\n">> \o Line) \in Seq(Outs) /\ EndsLine(klog(<<"\n">> \o Line))
    /\ klog(Text) \in Seq(Outs)
<1>1. /\ klog(Line) \in Seq(Outs) /\ klog(<<"\n">>) \in Seq(Outs) /\ klog(Text) \in Seq(Outs)
      /\ klog(<<"\n">> \o Line) \in Seq(Outs)
  BY TextsTyped, LogTyped
<1>2. Line[Len(Line)] = "\n" /\ <<"\n">>[Len(<<"\n">>)] = "\n"
  BY DEF Line
<1>3. (<<"\n">> \o Line)[Len(<<"\n">> \o Line)] = "\n"
  BY DEF Line
<1> QED
  BY <1>1, <1>2, <1>3, TextsTyped, LogEndsLine

LEMMA LogLineTyped ==
    ASSUME NEW text \in Seq(Chars)
    PROVE  LogLine(text) \in Seq(Outs) /\ EndsLine(LogLine(text))
<1> DEFINE a == IF text = << >> THEN << >> ELSE klog(text)
<1>1. a \in Seq(Outs)
  BY LogTyped
<1>2. LogLine(text) = a \o klog(<<"\n">>)
  BY DEF LogLine
<1> HIDE DEF a
<1> QED
  BY <1>1, <1>2, LinesEnd, JoinEndsLine

\* Every command but clear ends what it prints with a newline.
LEMMA OutputTyped ==
    ASSUME line \in Seq(Letters), NEW command \in Commands
    PROVE  /\ Output(command) \in Seq(Outs)
           /\ command # "clear" => EndsLine(Output(command))
           /\ command = "clear" => Output(command) = << >>
<1>0. line \in Seq(Chars)
  <2>1. Letters \subseteq Chars
    BY DEF Chars
  <2> QED
    BY <2>1, SeqMonotonic
<1>1. CASE command \in {"help", "ticks"}
  BY <1>1, LinesEnd DEF Output
<1>2. CASE command = "about"
  BY <1>2, LinesEnd, JoinEndsLine DEF Output
<1>3. CASE command = "clear"
  BY <1>3 DEF Output
<1>4. CASE command = "echo"
  <2> DEFINE arg == SubSeq(line, ECHO + 1, Len(line))
  <2>1. /\ ECHO + 1 \in Int /\ Len(line) \in Int
        /\ \A i \in (ECHO + 1) .. Len(line) : line[i] \in Chars
    BY <1>0, ConsoleAssumption
  <2>2. arg \in Seq(Chars)
    BY <2>1, SubSeqProperties
  <2>3. Output(command) = LogLine(arg)
    BY <1>4 DEF Output
  <2> HIDE DEF arg
  <2> QED
    BY <1>4, <2>2, <2>3, LogLineTyped
<1>5. CASE command = "unknown"
  <2>1. Output(command) = klog(Text) \o LogLine(line)
    BY <1>5 DEF Output
  <2> QED
    BY <1>0, <1>5, <2>1, LinesEnd, LogLineTyped, JoinEndsLine
<1> QED
  BY <1>1, <1>2, <1>3, <1>4, <1>5 DEF Commands

-----------------------------------------------------------------------------
(* The output that is under way                                            *)

\* What print_vga takes away.
LEMMA VgaPrints ==
    ASSUME TypeInv, print_vga
    PROVE  /\ Head(todo).text \in Seq(Chars) /\ todo' = Tail(todo)
           /\ Tail(todo) \in Seq(Outs)
           /\ screen' \in Screens
<1>1. todo # << >> /\ todo \in Seq(Outs) /\ screen \in Screens
  BY DEF TypeInv, print_vga
<1>2. Head(todo) \in Outs /\ Tail(todo) \in Seq(Outs)
  BY <1>1, HeadTailProperties
<1>3. Head(todo).text \in Seq(Chars)
  BY <1>2 DEF Outs
<1> QED
  BY <1>1, <1>2, <1>3, WriteTyped DEF print_vga

\* What print_com takes away: a character of the first text.
LEMMA ComPrints ==
    ASSUME TypeInv, print_com
    PROVE  /\ Head(todo) \in Outs /\ Head(todo).to = "com"
           /\ Head(todo).text \in Seq(Chars) /\ Head(todo).text # << >>
           /\ Head(Head(todo).text) \in Chars
           /\ todo' \in Seq(Outs)
           /\ Len(Head(todo).text) = 1 => todo' = Tail(todo)
           /\ Len(Head(todo).text) # 1 =>
                 /\ Tail(Head(todo).text) \in Seq(Chars) \ {<< >>}
                 /\ todo' = Com(Tail(Head(todo).text)) \o Tail(todo)
<1> DEFINE text == Head(todo).text
<1>1. todo # << >> /\ todo \in Seq(Outs) /\ Head(todo).to = "com"
  BY DEF TypeInv, print_com
<1>2. Head(todo) \in Outs /\ Tail(todo) \in Seq(Outs)
  BY <1>1, HeadTailProperties
<1>3. text \in Seq(Chars) /\ text # << >>
  BY <1>2 DEF Outs
<1>4. todo' = IF Len(text) = 1 THEN Tail(todo) ELSE Com(Tail(text)) \o Tail(todo)
  BY DEF print_com
<1> HIDE DEF text
<1>5. Head(text) \in Chars /\ Tail(text) \in Seq(Chars) /\ Len(Tail(text)) = Len(text) - 1
  BY <1>3, HeadTailProperties
<1>6. CASE Len(text) = 1
  BY <1>1, <1>2, <1>3, <1>4, <1>5, <1>6 DEF text
<1>7. CASE Len(text) # 1
  <2>0. Len(text) \in Nat \ {0} /\ Len(<< >>) = 0
    BY <1>3, EmptySeq
  <2>1. Tail(text) # << >>
    BY <1>5, <1>7, <2>0
  <2>2. Com(Tail(text)) \in Seq(Outs)
    BY <1>5, <2>1, LogTyped
  <2>3. Com(Tail(text)) \o Tail(todo) \in Seq(Outs)
    BY <1>2, <2>2, ConcatProperties
  <2> QED
    BY <1>1, <1>2, <1>3, <1>4, <1>5, <1>7, <2>1, <2>3 DEF text
<1> QED
  BY <1>6, <1>7

LEMMA NotEmpty ==
    ASSUME NEW s, Len(s) # 0
    PROVE  s # << >>
OBVIOUS

LEMMA LogNotEmpty ==
    ASSUME NEW text \in Seq(Chars) \ {<< >>}
    PROVE  klog(text) # << >> /\ Com(text) # << >>
<1>1. Len(klog(text)) = 2 /\ Len(Com(text)) = 1
  BY LogTyped
<1>2. Len(klog(text)) # 0 /\ Len(Com(text)) # 0
  BY <1>1
<1> QED
  BY <1>2, NotEmpty, Zenon

LEMMA ShownNewline ==
    ASSUME NEW f
    PROVE  Shown(f, "\n") = NoFar
BY DEF Shown, BS

\* What the far terminal makes of a character.
LEMMA ShownTyped ==
    ASSUME NEW f \in FarType, NEW c \in Chars
    PROVE  Shown(f, c) \in FarType
<1>1. f.text \in Seq(Chars) /\ f.cursor \in Nat /\ f.cursor <= Len(f.text) /\ Len(f.text) \in Nat
  BY DEF FarType
<1>2. CASE c = "\n"
  BY <1>2 DEF Shown, NoFar, FarType
<1>3. CASE c = BS
  <2> DEFINE n == IF f.cursor > 0 THEN f.cursor - 1 ELSE 0
  <2>1. Shown(f, c) = [f EXCEPT !.cursor = n]
    BY <1>3 DEF Shown, BS
  <2>2. n \in Nat /\ n <= Len(f.text)
    BY <1>1
  <2> HIDE DEF n
  <2> QED
    BY <1>1, <2>1, <2>2 DEF FarType
<1>4. CASE c # "\n" /\ c # BS
  <2> DEFINE t == IF f.cursor < Len(f.text) THEN [f.text EXCEPT ![f.cursor + 1] = c]
                  ELSE Append(f.text, c)
  <2>1. Shown(f, c) = [text |-> t, cursor |-> f.cursor + 1]
    BY <1>4 DEF Shown
  <2>2. t \in Seq(Chars) /\ f.cursor + 1 <= Len(t)
    <3>1. CASE f.cursor < Len(f.text)
      <4>1. f.cursor + 1 \in 1 .. Len(f.text)
        BY <1>1, <3>1
      <4>2. [f.text EXCEPT ![f.cursor + 1] = c] \in Seq(Chars)
            /\ Len([f.text EXCEPT ![f.cursor + 1] = c]) = Len(f.text)
        BY <1>1, <4>1, ExceptSeq
      <4> QED
        BY <3>1, <4>1, <4>2
    <3>2. CASE ~ (f.cursor < Len(f.text))
      BY <1>1, <3>2
    <3> QED
      BY <3>1, <3>2
  <2> HIDE DEF t
  <2> QED
    BY <1>1, <2>1, <2>2 DEF FarType
<1> QED
  BY <1>2, <1>3, <1>4

-----------------------------------------------------------------------------
(* Types, and the order of the boot                                        *)

LEMMA InitInv == Init => IInv
<1> SUFFICES ASSUME Init
             PROVE  IInv
  OBVIOUS
<1>1. TypeInv
  <2>1. NoFar \in FarType
    BY DEF NoFar, FarType
  <2>2. 0 \in Cells
    BY ClearFacts, CursorFacts, TerminalAssumption DEF Cells, CELLS
  <2> QED
    BY <2>1, <2>2, ClearFacts, ConsoleAssumption DEF Init, SerialInit, TypeInv
<1>2. BootInv /\ ReadInv /\ LineInv
  BY DEF Init, BootInv, ReadInv, LineInv
<1> QED
  BY <1>1, <1>2 DEF IInv

\* The steps that print and wait keep the types.
LEMMA TypeStepPrint ==
    ASSUME TypeInv, print_vga \/ print_com \/ drain
    PROVE  TypeInv'
<1>1. CASE print_vga
  BY <1>1, VgaPrints DEF print_vga, TypeInv, com1
<1>2. CASE print_com
  <2> DEFINE c == Head(Head(todo).text)
  <2>1. c \in Chars /\ todo' \in Seq(Outs)
    BY <1>2, ComPrints
  <2>2. (far' = far \/ far' = Shown(far, c)) /\ uart' = uart /\ loopback' = loopback
    BY <1>2 DEF print_com, serial_putchar
  <2>3. far' \in FarType
    BY <2>1, <2>2, ShownTyped DEF TypeInv
  <2> QED
    BY <1>2, <2>1, <2>2, <2>3 DEF print_com, TypeInv
<1>3. CASE drain
  BY <1>3 DEF drain, uart_drains, TypeInv
<1> QED
  BY <1>1, <1>2, <1>3

\* Where a stage of the boot leads.
LEMMA NextStage ==
    ASSUME stage \in 1 .. 20, stage' \in NextStages
    PROVE  /\ stage' \in 2 .. 21
           /\ stage' = stage + 1 \/ (stage = 17 /\ stage' = 20) \/ (stage = 19 /\ stage' = 21)
<1>1. Len(Boot) = 20
  BY BootIs
<1>2. NextStages = CASE stage = 17 -> {18, 20} [] stage = 19 -> {21} [] OTHER -> {stage + 1}
  BY <1>1 DEF NextStages
<1>3. CASE stage = 17
  BY <1>2, <1>3
<1>4. CASE stage = 19
  BY <1>2, <1>4
<1>5. CASE stage # 17 /\ stage # 19
  BY <1>2, <1>5
<1> QED
  BY <1>3, <1>4, <1>5

\* So do those of the boot,
LEMMA TypeStepBoot ==
    ASSUME TypeInv, BootInv, boot_call \/ boot_return
    PROVE  TypeInv'
<1>0. stage \in 1 .. 20
  BY DEF TypeInv, BootInv, boot_call, boot_return
<1>1. CASE boot_call
  <2>1. todo' \in Seq(Outs) /\ pc' = "check"
    BY <1>0, <1>1, BootTyped DEF boot_call
  <2>2. screen' \in Screens
    BY <1>1, ClearFacts DEF boot_call, TypeInv
  <2>3. far' = far /\ (uart' = "works" => loopback' = FALSE)
    BY <1>1 DEF boot_call, serial_init, com1, TypeInv
  <2> QED
    BY <1>1, <2>1, <2>2, <2>3 DEF boot_call, TypeInv
<1>2. CASE boot_return
  <2>1. stage' \in 1 .. 21
    BY <1>0, <1>2, NextStage DEF boot_return
  <2>2. todo' \in Seq(Outs)
    <3>1. Boot[stage].after \in Seq(Outs)
      BY <1>0, BootTyped
    <3>2. Boot[stage].after \o klog(<<"\n">> \o Line) \in Seq(Outs)
      BY <3>1, LinesEnd, ConcatProperties
    <3> QED
      BY <1>2, <3>1, <3>2 DEF boot_return
  <2>3. pc' \in {"call", "prompt"}
    BY <1>2 DEF boot_return
  <2> QED
    BY <1>2, <2>1, <2>2, <2>3 DEF boot_return, TypeInv, com1
<1> QED
  BY <1>1, <1>2

\* those of kernel_panic()
LEMMA TypeStepPanic ==
    ASSUME TypeInv, kernel_panic
    PROVE  TypeInv'
<1> DEFINE text == <<"\n">> \o Line \o Line
<1>1. text \in Seq(Chars)
  BY TextsTyped, ConcatProperties
<1> HIDE DEF text
<1>2. screen' \in Screens
  BY <1>1, WriteTyped DEF kernel_panic, TypeInv, text
<1> QED
  BY <1>2 DEF kernel_panic, TypeInv, com1

\* The line without its last character.
LEMMA FrontFacts ==
    ASSUME NEW S, NEW s \in Seq(S), s # << >>
    PROVE  /\ Front(s) \in Seq(S) /\ Len(Front(s)) = Len(s) - 1 /\ Len(s) \in Nat \ {0}
           /\ \A i \in 1 .. (Len(s) - 1) : Front(s)[i] = s[i]
<1>1. Len(s) \in Nat \ {0}
  BY EmptySeq
<1> DEFINE n == Len(s) - 1
<1>2. Front(s) = SubSeq(s, 1, n)
  BY DEF Front
<1>3. \A i \in 1 .. (Len(s) - 1) : s[i] \in S
  BY <1>1
<1>4. n \in Nat
  BY <1>1
<1> HIDE DEF n
<1>5. /\ Front(s) \in Seq(S)
      /\ Len(Front(s)) = IF 1 <= n THEN n - 1 + 1 ELSE 0
      /\ \A i \in 1 .. (n - 1 + 1) : Front(s)[i] = s[1 + i - 1]
  BY <1>2, <1>3, <1>4, SubSeqProperties DEF n
<1>6. n - 1 + 1 = n /\ \A i \in 1 .. n : 1 + i - 1 = i
  BY <1>4
<1>7. Len(Front(s)) = n /\ \A i \in 1 .. n : Front(s)[i] = s[i]
  BY <1>4, <1>5, <1>6
<1> QED
  BY <1>1, <1>5, <1>7 DEF n

\* and those of the shell.
LEMMA TypeStepShell ==
    ASSUME TypeInv,
           \/ shell_prompt \/ shell_exec_empty \/ (\E command \in Commands : shell_exec(command))
           \/ shell_newline \/ shell_backspace \/ (\E c \in Letters : shell_char(c))
    PROVE  TypeInv'
<1>1. CASE shell_prompt
  <2>1. todo' \in Seq(Outs) /\ home' \in Cells
    BY <1>1, TextsTyped, LogTyped, ScreenFacts DEF shell_prompt, TypeInv
  <2> QED
    BY <1>1, <2>1, ConsoleAssumption DEF shell_prompt, TypeInv, com1
<1>2. CASE shell_exec_empty
  BY <1>2 DEF shell_exec_empty, TypeInv, com1
<1>3. ASSUME NEW command \in Commands, shell_exec(command)
      PROVE  TypeInv'
  <2>1. todo' \in Seq(Outs) /\ screen' \in Screens
    BY <1>3, OutputTyped, ClearFacts DEF shell_exec, TypeInv
  <2> QED
    BY <1>3, <2>1 DEF shell_exec, TypeInv, com1
<1>4. CASE shell_newline
  BY <1>4, LinesEnd DEF shell_newline, TypeInv, com1
<1>5. CASE shell_backspace
  <2>1. line' \in Seq(Letters) /\ Len(line') < LINE
    BY <1>5, FrontFacts, ConsoleAssumption DEF shell_backspace, TypeInv
  <2>2. todo' \in Seq(Outs) /\ screen' \in Screens
    <3>1. BS \in Chars
      BY DEF Chars
    <3> QED
      BY <1>5, <3>1, TextsTyped, LogTyped, BackFacts DEF shell_backspace, TypeInv
  <2> QED
    BY <1>5, <2>1, <2>2 DEF shell_backspace, TypeInv, com1
<1>6. ASSUME NEW c \in Letters, shell_char(c)
      PROVE  TypeInv'
  <2>1. line' \in Seq(Letters) /\ Len(line') < LINE
    BY <1>6, ConsoleAssumption DEF shell_char, TypeInv
  <2>2. todo' \in Seq(Outs)
    <3>1. c \in Chars
      BY DEF Chars
    <3> QED
      BY <1>6, <3>1, TextsTyped, LogTyped DEF shell_char
  <2> QED
    BY <1>6, <2>1, <2>2 DEF shell_char, TypeInv, com1
<1> QED
  BY <1>1, <1>2, <1>3, <1>4, <1>5, <1>6

LEMMA TypeStep ==
    ASSUME TypeInv, BootInv, [Next]_vars
    PROVE  TypeInv'
<1>1. CASE UNCHANGED vars
  BY <1>1 DEF vars, com1, TypeInv
<1>2. CASE Works
  BY <1>2, TypeStepPrint, TypeStepBoot, TypeStepPanic, TypeStepShell DEF Works, boot_fails
<1>3. CASE Keys
  BY <1>3, TypeStepShell DEF Keys
<1>4. CASE isr_handler \/ drain
  BY <1>4, TypeStepPanic, TypeStepPrint DEF isr_handler
<1> QED
  BY <1>1, <1>2, <1>3, <1>4 DEF Next

\* What the stages initialise.
LEMMA BootGives ==
    /\ "screen" \in Boot[1].gives /\ "serial" \in Boot[2].gives /\ "idt" \in Boot[3].gives
    /\ "memory" \in Boot[4].gives /\ "frames" \in Boot[5].gives /\ "paging" \in Boot[6].gives
    /\ "heap" \in Boot[7].gives /\ "timer" \in Boot[9].gives /\ "keyboard" \in Boot[10].gives
    /\ "interrupts" \in Boot[11].gives /\ "vfs" \in Boot[15].gives /\ "disk" \in Boot[17].gives
BY BootIs DEF Stage, boot_clear, boot_serial, idt_init, detect_memory, pmm_init, vmm_init,
              heap_init, timer_init, keyboard_init, sti, vfs_init, disk_init

\* What they use.
LEMMA BootUses ==
    /\ Boot[1].uses = {} /\ Boot[2].uses = {} /\ Boot[3].uses = {} /\ Boot[4].uses = {}
    /\ Boot[5].uses = {"memory"} /\ Boot[6].uses = {"frames"}
    /\ Boot[7].uses = {"paging", "frames"} /\ Boot[8].uses = {"heap"}
    /\ Boot[9].uses = {"idt"} /\ Boot[10].uses = {"idt"}
    /\ Boot[11].uses = {"idt", "timer", "keyboard"}
    /\ Boot[12].uses = {"timer", "interrupts"}
    /\ Boot[13].uses = {} /\ Boot[14].uses = {"heap"} /\ Boot[15].uses = {"heap"}
    /\ Boot[16].uses = {"idt", "vfs"} /\ Boot[17].uses = {}
    /\ Boot[18].uses = {"heap", "disk"} /\ Boot[19].uses = {"heap", "disk"}
    /\ Boot[20].uses = {}
BY BootIs DEF Stage, boot_clear, boot_serial, idt_init, detect_memory, pmm_init, vmm_init,
              heap_init, rust_heap_smoke, timer_init, keyboard_init, sti, boot_selfcheck,
              libk_selfcheck, vfs_selftest, vfs_init, syscall_selfcheck, disk_init,
              bcache_selftest, ext2_selftest, no_disk

\* What is still to print before serial_init() is for the screen.
LEMMA NoComLeft ==
    ASSUME TypeInv, stage < 3, \A i \in 1 .. Len(todo) : todo[i].to = "vga", print_vga
    PROVE  \A i \in 1 .. Len(todo') : todo'[i].to = "vga"
<1>1. todo \in Seq(Outs) /\ todo # << >> /\ todo' = Tail(todo)
  BY DEF TypeInv, print_vga
<1>2. Len(todo') = Len(todo) - 1 /\ \A i \in 1 .. Len(todo') : todo'[i] = todo[i + 1]
  BY <1>1, HeadTailProperties
<1>3. \A i \in 1 .. Len(todo') : i + 1 \in 1 .. Len(todo)
  BY <1>1, <1>2
<1> QED
  BY <1>2, <1>3

\* The steps that leave the stage alone.
LEMMA BootStepSame ==
    ASSUME TypeInv, BootInv, stage' = stage, up' = up,
           \/ pc' = pc \/ (pc = "call" /\ pc' = "check") \/ pc' = "panic"
           \/ (pc \in {"prompt", "read", "exec"} /\ pc' \in {"prompt", "read", "exec"}),
           stage < 3 => \A i \in 1 .. Len(todo') : todo'[i].to = "vga"
    PROVE  BootInv'
BY DEF BootInv, TypeInv

LEMMA BootStep ==
    ASSUME TypeInv, BootInv, [Next]_vars
    PROVE  BootInv'
<1>0. stage \in 1 .. 21 /\ todo \in Seq(Outs)
  BY DEF TypeInv
<1>1. CASE print_vga
  <2>1. stage < 3 => \A i \in 1 .. Len(todo') : todo'[i].to = "vga"
    BY <1>1, NoComLeft DEF BootInv
  <2>2. stage' = stage /\ up' = up /\ pc' = pc
    BY <1>1 DEF print_vga
  <2> QED
    BY <2>1, <2>2, BootStepSame
<1>2. CASE print_com
  <2>1. ~ (stage < 3)
    <3>1. Head(todo).to = "com" /\ todo # << >>
      BY <1>2 DEF print_com
    <3>2. Head(todo) = todo[1] /\ 1 \in 1 .. Len(todo)
      BY <1>0, <3>1
    <3> QED
      BY <3>1, <3>2 DEF BootInv
  <2>2. stage' = stage /\ up' = up /\ pc' = pc
    BY <1>2 DEF print_com
  <2> QED
    BY <2>1, <2>2, BootStepSame
<1>3. CASE drain \/ UNCHANGED vars
  <2>1. stage' = stage /\ up' = up /\ pc' = pc /\ todo' = todo
    BY <1>3 DEF drain, vars
  <2>2. stage < 3 => \A i \in 1 .. Len(todo') : todo'[i].to = "vga"
    BY <2>1 DEF BootInv
  <2> QED
    BY <2>1, <2>2, BootStepSame
<1>4. CASE boot_call
  <2>1. stage \in 1 .. 20
    BY <1>0, <1>4 DEF boot_call, BootInv
  <2>2. stage' = stage /\ up' = up /\ pc = "call" /\ pc' = "check" /\ todo' = Boot[stage].before
    BY <1>4 DEF boot_call
  <2>3. stage < 3 => \A i \in 1 .. Len(todo') : todo'[i].to = "vga"
    BY <2>1, <2>2, BootTyped
  <2> QED
    BY <2>2, <2>3, BootStepSame
<1>5. CASE boot_return
  <2>1. stage \in 1 .. 20
    BY <1>0, <1>5 DEF boot_return, BootInv
  <2>2. /\ up' = up \cup Boot[stage].gives
        /\ stage' \in 2 .. 21
        /\ stage' = stage + 1 \/ (stage = 17 /\ stage' = 20) \/ (stage = 19 /\ stage' = 21)
    BY <1>5, <2>1, NextStage DEF boot_return
  <2>3. /\ pc' \in {"call", "prompt"} /\ (pc' = "call" <=> stage' <= 20)
        /\ stage' <= 20 => todo' = Boot[stage].after
    BY <1>5, <2>2, BootIs DEF boot_return
  <2>4. /\ pc' \in {"call", "check"} => stage' <= 20
        /\ pc' \in {"prompt", "read", "exec"} => stage' = 21
    BY <2>2, <2>3
  <2>5. /\ stage' >= 2 => "screen" \in up'
        /\ stage' >= 3 => "serial" \in up'
        /\ stage' >= 4 => "idt" \in up'
        /\ stage' >= 5 => "memory" \in up'
        /\ stage' >= 6 => "frames" \in up'
        /\ stage' >= 7 => "paging" \in up'
    BY <2>1, <2>2, BootGives DEF BootInv
  <2>6. /\ stage' >= 8 => "heap" \in up'
        /\ stage' >= 10 => "timer" \in up'
        /\ stage' >= 11 => "keyboard" \in up'
        /\ stage' >= 12 => "interrupts" \in up'
        /\ stage' >= 16 => "vfs" \in up'
        /\ stage' >= 18 => "disk" \in up'
    BY <2>1, <2>2, BootGives DEF BootInv
  <2>7. stage' < 3 => \A i \in 1 .. Len(todo') : todo'[i].to = "vga"
    <3>1. stage' < 3 => stage < 3 /\ stage' <= 20
      BY <2>1, <2>2
    <3> QED
      BY <2>1, <2>3, <3>1, BootTyped
  <2> QED
    BY <2>4, <2>5, <2>6, <2>7 DEF BootInv
<1>6. CASE kernel_panic
  <2>1. stage' = stage /\ up' = up /\ pc' = "panic" /\ todo' = << >>
    BY <1>6 DEF kernel_panic
  <2>2. \A i \in 1 .. Len(todo') : todo'[i].to = "vga"
    BY <2>1
  <2> QED
    BY <2>1, <2>2, BootStepSame
<1>7. CASE \/ shell_prompt \/ shell_exec_empty \/ (\E command \in Commands : shell_exec(command))
           \/ Keys
  <2>1. /\ stage' = stage /\ up' = up
        /\ pc \in {"prompt", "read", "exec"} /\ pc' \in {"prompt", "read", "exec"}
    BY <1>7 DEF shell_prompt, shell_exec_empty, shell_exec, Keys, shell_newline,
                shell_backspace, shell_char, Reading
  <2>2. ~ (stage < 3)
    BY <2>1 DEF BootInv
  <2> QED
    BY <2>1, <2>2, BootStepSame
<1> QED
  BY <1>1, <1>2, <1>3, <1>4, <1>5, <1>6, <1>7
  DEF Next, Works, boot_fails, isr_handler

-----------------------------------------------------------------------------
(* What the screen shows of a line                                         *)

\* A cell that is counted past the end of the screen.
LEMMA Around ==
    \A x \in Nat : x < CELLS + CELLS =>
        x % CELLS = IF x < CELLS THEN x ELSE x - CELLS
<1> SUFFICES ASSUME NEW x \in Nat, x < CELLS + CELLS
             PROVE  x % CELLS = IF x < CELLS THEN x ELSE x - CELLS
  OBVIOUS
<1>1. CELLS \in Nat \ {0}
  BY TerminalAssumption, CursorFacts
<1>2. CASE x < CELLS
  BY <1>1, <1>2
<1>3. CASE ~ (x < CELLS)
  <2>1. x = CELLS + (x - CELLS) /\ x - CELLS \in 0 .. (CELLS - 1)
    BY <1>1, <1>3
  <2> QED
    BY <1>1, <1>3, <2>1
<1> QED
  BY <1>2, <1>3

LEMMA Below ==
    \A y \in Cells : (y - CELLS) % CELLS = y
<1> SUFFICES ASSUME NEW y \in Cells
             PROVE  (y - CELLS) % CELLS = y
  OBVIOUS
<1>1. CELLS \in Nat \ {0}
  BY TerminalAssumption, CursorFacts
<1> QED
  BY <1>1 DEF Cells

LEMMA Sizes == CELLS \in Nat \ {0} /\ LINE \in Nat \ {0} /\ 2 * LINE <= CELLS
<1>1. 0 \in 0 .. (VGA_HEIGHT - 1) /\ 0 \in 0 .. (VGA_WIDTH - 1)
  BY TerminalAssumption
<1> QED
  BY <1>1, ConsoleAssumption, CursorFacts

LEMMA ShowPrompt ==
    ASSUME NEW s \in Screens, NEW l
    PROVE  Shows(terminal_putchar(s, ">"), Cursor(s), l, 0)
<1> DEFINE p == terminal_putchar(s, ">")
           h == Cursor(s)
<1>1. ">" \in Chars /\ ">" # "\n"
  BY DEF Chars
<1>2. h \in Cells /\ s.cells \in [Cells -> Chars]
  BY ScreenFacts
<1>3. p.cells = [s.cells EXCEPT ![h] = ">"] /\ Cursor(p) = IF h + 1 = CELLS THEN 0 ELSE h + 1
  BY <1>1, PutFacts
<1> HIDE DEF p, h
<1>4. p.cells[h] = ">"
  BY <1>2, <1>3
<1>5. CASE h + 1 = CELLS
  <2>1. Cursor(p) = 0 /\ 0 < h /\ CELLS - h <= LINE /\ CELLS - h + 0 >= 1 + 0 /\ 0 <= 0
    BY <1>2, <1>3, <1>5, Sizes DEF Cells
  <2>2. \A i \in 1 .. 0 : p.cells[(h + i) % CELLS] = l[i]
    OBVIOUS
  <2>3. Shows(p, h, l, 0)
    BY <1>4, <2>1, <2>2 DEF Shows
  <2> QED
    BY <2>3 DEF p, h
<1>6. CASE h + 1 # CELLS
  <2>1. Cursor(p) = h + 1 + 0
    BY <1>2, <1>3, <1>6, Sizes DEF Cells
  <2>2. \A i \in 1 .. 0 : p.cells[h + i] = l[i]
    OBVIOUS
  <2>3. Shows(p, h, l, 0)
    BY <1>4, <2>1, <2>2 DEF Shows
  <2> QED
    BY <2>3 DEF p, h
<1> QED
  BY <1>5, <1>6

LEMMA ShowChar ==
    ASSUME NEW s \in Screens, NEW h \in Cells, NEW l, NEW n \in Nat, n + 1 < LINE,
           NEW c \in Letters, l[n + 1] = c, Shows(s, h, l, n)
    PROVE  Shows(terminal_putchar(s, c), h, l, n + 1)
<1> DEFINE p == terminal_putchar(s, c)
           x == Cursor(s)
<1>1. c \in Chars /\ c # "\n"
  BY ConsoleAssumption DEF Chars
<1>2. x \in Cells /\ s.cells \in [Cells -> Chars]
  BY ScreenFacts
<1>3. p.cells = [s.cells EXCEPT ![x] = c] /\ Cursor(p) = IF x + 1 = CELLS THEN 0 ELSE x + 1
  BY <1>1, PutFacts
<1>4. /\ s.cells[h] = ">"
      /\ \/ /\ x = h + 1 + n
            /\ \A i \in 1 .. n : s.cells[h + i] = l[i]
         \/ /\ x < h /\ CELLS - h <= LINE /\ x <= n /\ CELLS - h + x >= 1 + n
            /\ CELLS - h + x = 1 + n => \A i \in 1 .. n : s.cells[(h + i) % CELLS] = l[i]
  BY DEF Shows
<1> SUFFICES /\ p.cells[h] = ">"
             /\ \/ /\ Cursor(p) = h + 1 + (n + 1)
                   /\ \A i \in 1 .. (n + 1) : p.cells[h + i] = l[i]
                \/ /\ Cursor(p) < h /\ CELLS - h <= LINE /\ Cursor(p) <= n + 1
                   /\ CELLS - h + Cursor(p) >= 1 + (n + 1)
                   /\ CELLS - h + Cursor(p) = 1 + (n + 1) =>
                         \A i \in 1 .. (n + 1) : p.cells[(h + i) % CELLS] = l[i]
  BY DEF Shows
<1> HIDE DEF p, x
<1>5. h # x /\ p.cells[h] = ">"
  BY <1>2, <1>3, <1>4 DEF Cells
<1>6. p.cells[x] = c /\ \A y \in Cells \ {x} : p.cells[y] = s.cells[y]
  BY <1>2, <1>3
<1>7. CASE x = h + 1 + n /\ \A i \in 1 .. n : s.cells[h + i] = l[i]
  <2>1. \A i \in 1 .. n : h + i \in Cells \ {x}
    BY <1>2, <1>7, Sizes DEF Cells
  <2>2. \A i \in 1 .. n : p.cells[h + i] = l[i]
    BY <1>6, <1>7, <2>1
  <2>3. p.cells[h + (n + 1)] = l[n + 1] /\ h + (n + 1) = x
    BY <1>6, <1>7 DEF Cells
  <2>4. \A i \in 1 .. (n + 1) : p.cells[h + i] = l[i] /\ h + i \in Cells
    <3>1. \A i \in 1 .. (n + 1) : i \in 1 .. n \/ i = n + 1
      OBVIOUS
    <3> QED
      BY <1>2, <2>1, <2>2, <2>3, <3>1
  <2>5. CASE x + 1 # CELLS
    BY <1>3, <1>5, <1>7, <2>4, <2>5 DEF Cells
  <2>6. CASE x + 1 = CELLS
    <3>1. \A i \in 1 .. (n + 1) : (h + i) % CELLS = h + i
      BY <2>4, Around, Sizes DEF Cells
    <3>2. /\ Cursor(p) = 0 /\ 0 < h /\ CELLS - h <= LINE
          /\ CELLS - h >= 1 + (n + 1)
      BY <1>3, <1>7, <2>6, Sizes DEF Cells
    <3>3. \A i \in 1 .. (n + 1) : p.cells[(h + i) % CELLS] = l[i]
      BY <2>4, <3>1
    <3> QED
      BY <1>5, <3>2, <3>3, Sizes DEF Cells
  <2> QED
    BY <2>5, <2>6
<1>8. CASE /\ x < h /\ CELLS - h <= LINE /\ x <= n /\ CELLS - h + x >= 1 + n
           /\ CELLS - h + x = 1 + n => \A i \in 1 .. n : s.cells[(h + i) % CELLS] = l[i]
  <2>1. x + 1 < h /\ Cursor(p) = x + 1
    BY <1>2, <1>3, <1>8, Sizes DEF Cells
  <2>2. ASSUME CELLS - h + (x + 1) = 1 + (n + 1), NEW i \in 1 .. (n + 1)
        PROVE  p.cells[(h + i) % CELLS] = l[i]
    <3> DEFINE y == h + i
    <3>0. y \in Nat /\ y < CELLS + CELLS /\ y = h + i
      BY <1>8, <2>2, Sizes DEF Cells
    <3> HIDE DEF y
    <3>1. y % CELLS = IF y < CELLS THEN y ELSE y - CELLS
      BY <3>0, Around
    <3> SUFFICES p.cells[y % CELLS] = l[i]
      BY DEF y
    <3>2. CASE i = n + 1
      <4>0. h \in Int /\ x \in Nat /\ CELLS \in Int
        BY <1>2, Sizes DEF Cells
      <4>2. y = CELLS + x
        BY <2>2, <3>0, <3>2, <4>0
      <4>3. ~ (y < CELLS) /\ y - CELLS = x
        BY <4>0, <4>2
      <4>1. y % CELLS = x
        BY <3>1, <4>3
      <4> QED
        BY <1>6, <3>2, <4>1
    <3>3. CASE i \in 1 .. n
      <4>0. x < h
        BY <1>8
      <4> DEFINE z == IF y < CELLS THEN y ELSE y - CELLS
      <4>1. z \in Cells \ {x}
        BY <1>2, <2>2, <3>0, <3>3, <4>0, Sizes DEF Cells
      <4> HIDE DEF z
      <4>2. y % CELLS \in Cells \ {x}
        BY <3>1, <4>1 DEF z
      <4>3. CELLS - h + x = 1 + n
        BY <1>2, <2>2, Sizes DEF Cells
      <4>4. s.cells[y % CELLS] = l[i]
        BY <1>8, <3>3, <4>3 DEF y
      <4> QED
        BY <1>6, <4>2, <4>4
    <3> QED
      BY <3>2, <3>3
  <2>3. CELLS - h + (x + 1) >= 1 + (n + 1) /\ x + 1 <= n + 1
    BY <1>2, <1>8, Sizes DEF Cells
  <2> QED
    BY <1>5, <1>8, <2>1, <2>2, <2>3
<1> QED
  BY <1>4, <1>7, <1>8

LEMMA ShowBack ==
    ASSUME NEW s \in Screens, NEW h \in Cells, NEW l, NEW n \in Nat, n + 1 < LINE,
           Shows(s, h, l, n + 1)
    PROVE  Shows(terminal_backspace(s), h, l, n)
<1> DEFINE p == terminal_backspace(s)
           x == Cursor(s)
<1>2. x \in Cells /\ s.cells \in [Cells -> Chars]
  BY ScreenFacts
<1>3. /\ x = 0 => p = s
      /\ x # 0 => Cursor(p) = x - 1 /\ p.cells = [s.cells EXCEPT ![x - 1] = Blank]
  BY BackFacts
<1>4. /\ s.cells[h] = ">"
      /\ \/ /\ x = h + 1 + (n + 1)
            /\ \A i \in 1 .. (n + 1) : s.cells[h + i] = l[i]
         \/ /\ x < h /\ CELLS - h <= LINE /\ x <= n + 1 /\ CELLS - h + x >= 1 + (n + 1)
            /\ CELLS - h + x = 1 + (n + 1) =>
                  \A i \in 1 .. (n + 1) : s.cells[(h + i) % CELLS] = l[i]
  BY DEF Shows
<1> SUFFICES /\ p.cells[h] = ">"
             /\ \/ /\ Cursor(p) = h + 1 + n
                   /\ \A i \in 1 .. n : p.cells[h + i] = l[i]
                \/ /\ Cursor(p) < h /\ CELLS - h <= LINE /\ Cursor(p) <= n
                   /\ CELLS - h + Cursor(p) >= 1 + n
                   /\ CELLS - h + Cursor(p) = 1 + n =>
                         \A i \in 1 .. n : p.cells[(h + i) % CELLS] = l[i]
  BY DEF Shows
<1>5. CASE x = 0
  <2>1. p = s /\ Cursor(p) = 0
    BY <1>3, <1>5
  <2>2. 0 < h /\ CELLS - h <= LINE /\ CELLS - h >= 1 + (n + 1)
    BY <1>4, <1>5, Sizes DEF Cells
  <2> HIDE DEF p, x
  <2>3. CELLS - h + Cursor(p) >= 1 + n /\ CELLS - h + Cursor(p) # 1 + n
    BY <2>1, <2>2, Sizes DEF Cells
  <2> QED
    BY <1>4, <2>1, <2>2, <2>3
<1>6. CASE x # 0
  <2> HIDE DEF p, x
  <2>1. Cursor(p) = x - 1 /\ x - 1 \in Cells
    BY <1>2, <1>3, <1>6, Sizes DEF Cells
  <2>2. \A y \in Cells \ {x - 1} : p.cells[y] = s.cells[y]
    BY <1>2, <1>3, <1>6
  <2>3. p.cells[h] = ">"
    BY <1>2, <1>4, <2>2 DEF Cells
  <2>4. CASE x = h + 1 + (n + 1) /\ \A i \in 1 .. (n + 1) : s.cells[h + i] = l[i]
    <3>1. \A i \in 1 .. n : h + i \in Cells \ {x - 1} /\ i \in 1 .. (n + 1)
      BY <1>2, <2>4, Sizes DEF Cells
    <3>2. \A i \in 1 .. n : p.cells[h + i] = l[i]
      BY <2>2, <2>4, <3>1
    <3>3. Cursor(p) = h + 1 + n
      BY <2>1, <2>4 DEF Cells
    <3> QED
      BY <2>3, <3>2, <3>3
  <2>5. CASE /\ x < h /\ CELLS - h <= LINE /\ x <= n + 1 /\ CELLS - h + x >= 1 + (n + 1)
             /\ CELLS - h + x = 1 + (n + 1) =>
                   \A i \in 1 .. (n + 1) : s.cells[(h + i) % CELLS] = l[i]
    <3>1. x - 1 < h /\ x - 1 <= n /\ CELLS - h + (x - 1) >= 1 + n
      BY <1>2, <2>5, Sizes DEF Cells
    <3>2. ASSUME CELLS - h + (x - 1) = 1 + n, NEW i \in 1 .. n
          PROVE  p.cells[(h + i) % CELLS] = l[i]
      <4> DEFINE y == h + i
      <4>0. y \in Nat /\ y < CELLS + CELLS /\ y = h + i
        BY <2>5, <3>2, Sizes DEF Cells
      <4> HIDE DEF y
      <4>1. y % CELLS = IF y < CELLS THEN y ELSE y - CELLS
        BY <4>0, Around
      <4> SUFFICES p.cells[y % CELLS] = l[i]
        BY DEF y
      <4> DEFINE z == IF y < CELLS THEN y ELSE y - CELLS
      <4>2. z \in Cells \ {x - 1}
        BY <1>2, <3>1, <3>2, <4>0, Sizes DEF Cells
      <4> HIDE DEF z
      <4>3. y % CELLS \in Cells \ {x - 1}
        BY <4>1, <4>2 DEF z
      <4>4. CELLS - h + x = 1 + (n + 1) /\ i \in 1 .. (n + 1)
        BY <1>2, <3>2, Sizes DEF Cells
      <4>5. s.cells[y % CELLS] = l[i]
        BY <2>5, <4>4 DEF y
      <4> QED
        BY <2>2, <4>3, <4>5
    <3> QED
      BY <2>1, <2>3, <2>5, <3>1, <3>2
  <2> QED
    BY <1>4, <2>4, <2>5
<1> QED
  BY <1>5, <1>6

LEMMA ShowSame ==
    ASSUME NEW s, NEW h, NEW l, NEW k, NEW n \in Nat,
           \A i \in 1 .. n : l[i] = k[i], Shows(s, h, l, n)
    PROVE  Shows(s, h, k, n)
BY DEF Shows

-----------------------------------------------------------------------------
(* What the far terminal shows of a line                                   *)

LEMMA DisplayPrompt ==
    ASSUME NEW l
    PROVE  Displays(Shown(NoFar, ">"), l, 0, 0)
<1>1. Shown(NoFar, ">") = [text |-> Append(<< >>, ">"), cursor |-> 1]
  BY DEF Shown, NoFar, BS
<1>2. Append(<< >>, ">")[1] = ">"
  OBVIOUS
<1> QED
  BY <1>1, <1>2 DEF Displays

LEMMA DisplayChar ==
    ASSUME NEW f \in FarType, NEW l, NEW m \in Nat, NEW c \in Letters, l[m + 1] = c,
           Displays(f, l, m, m)
    PROVE  Displays(Shown(f, c), l, m + 1, m + 1)
<1>0. c # "\n" /\ c # BS /\ c \in Chars
  BY ConsoleAssumption DEF Chars
<1>1. f.text \in Seq(Chars) /\ f.cursor \in Nat /\ f.cursor <= Len(f.text) /\ Len(f.text) \in Nat
  BY DEF FarType
<1>2. f.cursor = 1 + m /\ f.text[1] = ">" /\ \A i \in 1 .. m : f.text[1 + i] = l[i]
  BY DEF Displays
<1> DEFINE t == IF f.cursor < Len(f.text) THEN [f.text EXCEPT ![f.cursor + 1] = c]
                ELSE Append(f.text, c)
<1>3. Shown(f, c) = [text |-> t, cursor |-> f.cursor + 1]
  BY <1>0 DEF Shown
<1>4. t[f.cursor + 1] = c /\ \A i \in 1 .. f.cursor : t[i] = f.text[i]
  <2>1. CASE f.cursor < Len(f.text)
    <3>1. f.cursor + 1 \in 1 .. Len(f.text)
      BY <1>1, <2>1
    <3>2. \A j \in 1 .. Len(f.text) : t[j] = IF j = f.cursor + 1 THEN c ELSE f.text[j]
      BY <1>0, <1>1, <2>1, <3>1, ExceptSeq
    <3>3. \A i \in 1 .. f.cursor : i \in 1 .. Len(f.text) /\ i # f.cursor + 1
      BY <1>1
    <3> HIDE DEF t
    <3> QED
      BY <3>1, <3>2, <3>3
  <2>2. CASE ~ (f.cursor < Len(f.text))
    <3>1. f.cursor = Len(f.text) /\ t = Append(f.text, c)
      BY <1>1, <2>2
    <3> QED
      BY <1>0, <1>1, <3>1
  <2> QED
    BY <2>1, <2>2
<1> HIDE DEF t
<1>5. t[1 + (m + 1)] = l[m + 1] /\ t[1] = ">"
  BY <1>1, <1>2, <1>4
<1>6. \A i \in 1 .. m : t[1 + i] = l[i]
  <2>1. \A i \in 1 .. m : 1 + i \in 1 .. f.cursor
    BY <1>1, <1>2
  <2> QED
    BY <1>2, <1>4, <2>1
<1>7. \A i \in 1 .. (m + 1) : t[1 + i] = l[i]
  <2>1. \A i \in 1 .. (m + 1) : i \in 1 .. m \/ i = m + 1
    OBVIOUS
  <2> QED
    BY <1>5, <1>6, <2>1
<1> QED
  BY <1>2, <1>3, <1>5, <1>7 DEF Displays

LEMMA DisplayBack ==
    ASSUME NEW f \in FarType, NEW l, NEW n \in Nat, Displays(f, l, n + 1, n)
    PROVE  Displays(Shown(f, BS), l, n, n)
<1>1. f.cursor = 1 + (n + 1)
  BY DEF Displays
<1>2. Shown(f, BS) = [f EXCEPT !.cursor = 1 + n]
  <2>1. (IF f.cursor > 0 THEN f.cursor - 1 ELSE 0) = 1 + n
    BY <1>1
  <2> QED
    BY <2>1 DEF Shown, BS
<1>3. Shown(f, BS).cursor = 1 + n /\ Shown(f, BS).text = f.text
  BY <1>2 DEF FarType
<1> QED
  BY <1>3 DEF Displays

-----------------------------------------------------------------------------
(* A character on its way                                                  *)

LEMMA VgaCharPrints ==
    ASSUME TypeInv, NEW c \in Chars, todo = klog(<<c>>), print_vga
    PROVE  todo' = Com(<<c>>) /\ screen' = terminal_putchar(screen, c)
<1> DEFINE k == klog(<<c>>)
<1>1. /\ k \in Seq(Outs) /\ Len(k) = 2 /\ k[1].text = <<c>>
      /\ k[2] = Com(<<c>>)[1] /\ Com(<<c>>) \in Seq(Outs) /\ Len(Com(<<c>>)) = 1
  BY TextsTyped, LogTyped
<1> HIDE DEF k
<1>2. k # << >> /\ Head(k) = k[1]
  BY <1>1
<1>3. Tail(k) \in Seq(Outs) /\ Len(Tail(k)) = 1 /\ Tail(k)[1] = k[2]
  <2> DEFINE a == Tail(k)
  <2>1. a \in Seq(Outs) /\ Len(a) = Len(k) - 1 /\ \A i \in 1 .. Len(a) : a[i] = k[i + 1]
    BY <1>1, <1>2, HeadTailProperties
  <2> HIDE DEF a
  <2>2. Len(a) = 1 /\ 1 \in 1 .. 1 /\ 1 + 1 = 2
    BY <1>1, <2>1
  <2>3. a[1] = k[2]
    BY <2>1, <2>2
  <2> QED
    BY <2>1, <2>2, <2>3 DEF a
<1>4. Tail(k) = Com(<<c>>)
  <2> DEFINE a == Tail(k)
             b == Com(<<c>>)
  <2>1. a \in Seq(Outs) /\ b \in Seq(Outs) /\ Len(a) = 1 /\ Len(b) = 1 /\ a[1] = b[1]
    BY <1>1, <1>3
  <2> HIDE DEF a, b
  <2>2. \A i \in 1 .. Len(a) : a[i] = b[i]
    BY <2>1
  <2>3. a = b
    BY <2>1, <2>2, SeqEqual
  <2> QED
    BY <2>3 DEF a, b
<1>5. todo' = Tail(k) /\ screen' = terminal_writestring(screen, <<c>>)
  BY <1>1, <1>2 DEF print_vga, k
<1> QED
  BY <1>4, <1>5, WriteOne DEF TypeInv

LEMMA ComCharPrints ==
    ASSUME TypeInv, NEW c \in Chars, todo = Com(<<c>>), print_com
    PROVE  todo' = << >> /\ far' = (IF loopback THEN far ELSE Shown(far, c))
<1> DEFINE k == Com(<<c>>)
<1>1. k \in Seq(Outs) /\ Len(k) = 1 /\ k[1].text = <<c>>
  BY TextsTyped, LogTyped
<1> HIDE DEF k
<1>2. k # << >> /\ Head(k) = k[1]
  BY <1>1
<1>3. Tail(k) \in Seq(Outs) /\ Len(Tail(k)) = 0
  BY <1>1, <1>2, HeadTailProperties
<1>4. Tail(k) = << >>
  BY <1>3, EmptySeq
<1>5. Len(<<c>>) = 1 /\ Head(<<c>>) = c
  OBVIOUS
<1>6. Head(todo).text = <<c>>
  BY <1>1, <1>2 DEF k
<1>7. todo' = Tail(k)
  BY <1>5, <1>6, ComPrints DEF k
<1>8. far' = (IF loopback THEN far ELSE Shown(far, c))
  BY <1>5, <1>6 DEF print_com, serial_putchar
<1> QED
  BY <1>4, <1>7, <1>8

\* Which output is first.
LEMMA Firsts ==
    ASSUME NEW text \in Seq(Chars) \ {<< >>}
    PROVE  Head(klog(text)).to = "vga" /\ Head(Com(text)).to = "com"
<1>1. /\ klog(text) \in Seq(Outs) /\ Len(klog(text)) = 2 /\ klog(text)[1].to = "vga"
      /\ Com(text) \in Seq(Outs) /\ Len(Com(text)) = 1 /\ Com(text)[1].to = "com"
  BY LogTyped
<1>2. Head(klog(text)) = klog(text)[1] /\ Head(Com(text)) = Com(text)[1]
  BY <1>1
<1> QED
  BY <1>1, <1>2

-----------------------------------------------------------------------------
(* The shell                                                               *)

\* A character is printed while a line is read.
LEMMA ReadStepVga ==
    ASSUME IInv, print_vga
    PROVE  ReadInv'
<1> SUFFICES ASSUME pc = "read"
             PROVE  ReadInv'
  BY DEF ReadInv, print_vga
<1>0. /\ TypeInv /\ screen \in Screens /\ home \in Cells /\ line \in Seq(Letters)
      /\ Len(line) \in Nat /\ Len(line) < LINE /\ todo # << >> /\ Head(todo).to = "vga"
  BY DEF IInv, TypeInv, print_vga
<1>1. uart' = uart /\ far' = far /\ pc' = pc /\ line' = line /\ home' = home
  BY DEF print_vga, com1
<1>2. CASE todo = klog(Prompt) /\ home = Cursor(screen) /\ line = << >> /\ FarIsEmpty
  <2>1. Prompt = <<">">> /\ ">" \in Chars
    BY DEF Prompt, Chars
  <2>2. todo' = Com(Prompt) /\ screen' = terminal_putchar(screen, ">")
    BY <1>0, <1>2, <2>1, VgaCharPrints
  <2>3. Shows(screen', home, line, 0)
    BY <1>0, <1>2, <2>2, ShowPrompt
  <2> QED
    BY <1>1, <1>2, <2>2, <2>3 DEF ReadInv, PromptGoes, ScreenShows, FarIsEmpty
<1>3. CASE /\ line # << >> /\ FarShows(Len(line) - 1, Len(line) - 1)
           /\ todo = klog(<<line[Len(line)]>>) /\ ScreenShows(Len(line) - 1)
  <2> DEFINE c == line[Len(line)]
             n == Len(line) - 1
  <2>1. c \in Letters /\ n \in Nat /\ n + 1 < LINE /\ n + 1 = Len(line) /\ line[n + 1] = c
    BY <1>0, <1>3, EmptySeq
  <2>2. c \in Chars
    BY <2>1 DEF Chars
  <2>3. todo = klog(<<c>>) /\ Shows(screen, home, line, n)
    BY <1>3 DEF ScreenShows
  <2> HIDE DEF c, n
  <2>4. todo' = Com(<<c>>) /\ screen' = terminal_putchar(screen, c)
    BY <1>0, <2>2, <2>3, VgaCharPrints
  <2>5. Shows(screen', home, line, n + 1)
    BY <1>0, <2>1, <2>3, <2>4, ShowChar
  <2> QED
    BY <1>1, <1>3, <2>1, <2>4, <2>5 DEF ReadInv, CharGoes, ScreenShows, FarShows, c
<1>4. \A text \in Seq(Chars) \ {<< >>} : todo # Com(text)
  BY <1>0, Firsts
<1>5. /\ Prompt \in Seq(Chars) \ {<< >>} /\ <<BS>> \in Seq(Chars) \ {<< >>}
      /\ line # << >> => <<line[Len(line)]>> \in Seq(Chars) \ {<< >>}
  <2>1. BS \in Chars /\ Letters \subseteq Chars
    BY DEF Chars
  <2>2. line # << >> => line[Len(line)] \in Letters
    BY <1>0, EmptySeq
  <2> QED
    BY <2>1, <2>2, TextsTyped
<1>6. ReadInv
  BY DEF IInv
<1> QED
  BY <1>0, <1>2, <1>3, <1>4, <1>5, <1>6 DEF ReadInv, PromptGoes, CharGoes, BackspaceGoes

LEMMA ReadStepCom ==
    ASSUME IInv, print_com
    PROVE  ReadInv'
<1> SUFFICES ASSUME pc = "read"
             PROVE  ReadInv'
  BY DEF ReadInv, print_com
<1>0. /\ TypeInv /\ screen \in Screens /\ home \in Cells /\ line \in Seq(Letters)
      /\ Len(line) \in Nat /\ Len(line) < LINE /\ todo # << >> /\ Head(todo).to = "com"
      /\ far \in FarType /\ (uart = "works" => loopback = FALSE)
  BY DEF IInv, TypeInv, print_com
<1>1. uart' = uart /\ screen' = screen /\ pc' = pc /\ line' = line /\ home' = home
  BY DEF print_com, serial_putchar
<1>8. ASSUME NEW c \in Chars, todo = Com(<<c>>)
      PROVE  todo' = << >> /\ (uart = "works" => far' = Shown(far, c))
  BY <1>0, <1>8, ComCharPrints
<1>2. CASE todo = Com(Prompt) /\ line = << >> /\ ScreenShows(0) /\ FarIsEmpty
  <2>1. Prompt = <<">">> /\ ">" \in Chars
    BY DEF Prompt, Chars
  <2>2. todo' = << >> /\ (uart = "works" => far' = Shown(NoFar, ">"))
    BY <1>2, <1>8, <2>1 DEF FarIsEmpty
  <2>3. uart = "works" => Displays(far', line, 0, 0)
    BY <2>2, DisplayPrompt
  <2>4. Len(line) = 0
    BY <1>2
  <2> QED
    BY <1>1, <1>2, <2>2, <2>3, <2>4 DEF ReadInv, ScreenShows, FarShows
<1>3. CASE /\ line # << >> /\ FarShows(Len(line) - 1, Len(line) - 1)
           /\ todo = Com(<<line[Len(line)]>>) /\ ScreenShows(Len(line))
  <2> DEFINE c == line[Len(line)]
             n == Len(line) - 1
  <2>1. c \in Letters /\ n \in Nat /\ n + 1 = Len(line) /\ line[n + 1] = c
    BY <1>0, <1>3, EmptySeq
  <2>2. c \in Chars
    BY <2>1 DEF Chars
  <2>3. todo = Com(<<c>>) /\ (uart = "works" => Displays(far, line, n, n))
    BY <1>3 DEF FarShows
  <2> HIDE DEF c, n
  <2>4. todo' = << >> /\ (uart = "works" => far' = Shown(far, c))
    BY <1>8, <2>2, <2>3
  <2>5. uart = "works" => Displays(far', line, n + 1, n + 1)
    BY <1>0, <2>1, <2>3, <2>4, DisplayChar
  <2> QED
    BY <1>1, <1>3, <2>1, <2>4, <2>5 DEF ReadInv, ScreenShows, FarShows
<1>4. CASE BackspaceGoes
  <2>1. BS \in Chars
    BY DEF Chars
  <2>2. todo' = << >> /\ (uart = "works" => far' = Shown(far, BS))
    BY <1>4, <1>8, <2>1 DEF BackspaceGoes
  <2>3. uart = "works" => Displays(far', line, Len(line), Len(line))
    BY <1>0, <1>4, <2>2, DisplayBack DEF BackspaceGoes, FarShows
  <2> QED
    BY <1>1, <1>4, <2>2, <2>3 DEF ReadInv, BackspaceGoes, ScreenShows, FarShows
<1>5. \A text \in Seq(Chars) \ {<< >>} : todo # klog(text)
  BY <1>0, Firsts
<1>6. /\ Prompt \in Seq(Chars) \ {<< >>}
      /\ line # << >> => <<line[Len(line)]>> \in Seq(Chars) \ {<< >>}
  <2>1. Letters \subseteq Chars
    BY DEF Chars
  <2>2. line # << >> => line[Len(line)] \in Letters
    BY <1>0, EmptySeq
  <2> QED
    BY <2>1, <2>2, TextsTyped
<1>7. ReadInv
  BY DEF IInv
<1> QED
  BY <1>0, <1>2, <1>3, <1>4, <1>5, <1>6, <1>7 DEF ReadInv, PromptGoes, CharGoes

\* When nothing is left to print, the line is shown.
LEMMA EmptyTodo ==
    ASSUME IInv, pc = "read", todo = << >>
    PROVE  ScreenShows(Len(line)) /\ FarShows(Len(line), Len(line))
<1>0. line \in Seq(Letters)
  BY DEF IInv, TypeInv
<1>1. \A text \in Seq(Chars) \ {<< >>} : << >> # klog(text) /\ << >> # Com(text)
  BY LogNotEmpty, Zenon
<1>2. Prompt \in Seq(Chars) \ {<< >>} /\ <<BS>> \in Seq(Chars) \ {<< >>}
  BY TextsTyped DEF Chars
<1>3. line # << >> => <<line[Len(line)]>> \in Seq(Chars) \ {<< >>}
  <2>1. line # << >> => line[Len(line)] \in Chars
    BY <1>0, EmptySeq DEF Chars
  <2> QED
    BY <2>1
<1>4. ReadInv
  BY DEF IInv
<1> QED
  BY <1>1, <1>2, <1>3, <1>4
  DEF ReadInv, PromptGoes, CharGoes, BackspaceGoes, ScreenShows

\* A key.
LEMMA ReadStepKey ==
    ASSUME IInv, shell_backspace \/ (\E c \in Letters : shell_char(c))
    PROVE  ReadInv'
<1>0. /\ TypeInv /\ screen \in Screens /\ home \in Cells /\ line \in Seq(Letters)
      /\ Len(line) \in Nat /\ Len(line) < LINE
  BY DEF IInv, TypeInv
<1>1. /\ pc = "read" /\ todo = << >> /\ uart' = uart /\ far' = far /\ home' = home
  BY DEF shell_backspace, shell_char, Reading, com1
<1>2. Shows(screen, home, line, Len(line)) /\ FarShows(Len(line), Len(line))
  BY <1>1, EmptyTodo DEF ScreenShows
<1>3. CASE shell_backspace
  <2> DEFINE n == Len(line) - 1
  <2>1. /\ line # << >> /\ line' = Front(line) /\ screen' = terminal_backspace(screen)
        /\ todo' = Com(<<BS>>) /\ pc' = pc
    BY <1>3 DEF shell_backspace
  <2>2. /\ n \in Nat /\ n + 1 = Len(line) /\ n + 1 < LINE /\ Len(line') = n
        /\ \A i \in 1 .. n : line'[i] = line[i]
    BY <1>0, <2>1, FrontFacts
  <2> HIDE DEF n
  <2>3. Shows(screen', home, line, n)
    BY <1>0, <1>2, <2>1, <2>2, ShowBack
  <2>4. Shows(screen', home, line', n)
    BY <2>2, <2>3, ShowSame
  <2>5. uart = "works" => Displays(far, line', n + 1, n)
    <3>1. uart = "works" => Displays(far, line, n + 1, n + 1)
      BY <1>2, <2>2 DEF FarShows
    <3>2. \A i \in 1 .. n : i \in 1 .. (n + 1)
      BY <2>2
    <3> QED
      BY <2>2, <3>1, <3>2 DEF Displays
  <2> QED
    BY <1>1, <2>1, <2>2, <2>4, <2>5 DEF ReadInv, BackspaceGoes, ScreenShows, FarShows
<1>4. ASSUME NEW c \in Letters, shell_char(c)
      PROVE  ReadInv'
  <2> DEFINE n == Len(line)
  <2>1. line' = Append(line, c) /\ screen' = screen /\ todo' = klog(<<c>>) /\ pc' = pc
    BY <1>4 DEF shell_char
  <2>2. /\ n \in Nat /\ Len(line') = n + 1 /\ line' # << >> /\ line'[n + 1] = c
        /\ \A i \in 1 .. n : line'[i] = line[i]
    BY <1>0, <2>1
  <2>3. Shows(screen, home, line, n) /\ (uart = "works" => Displays(far, line, n, n))
    BY <1>2 DEF FarShows
  <2> HIDE DEF n
  <2>4. Shows(screen', home, line', n)
    BY <2>1, <2>2, <2>3, ShowSame
  <2>5. uart = "works" => Displays(far, line', n, n)
    BY <2>2, <2>3 DEF Displays
  <2>6. Len(line') - 1 = n
    BY <2>2
  <2> QED
    BY <1>1, <2>1, <2>2, <2>4, <2>5, <2>6 DEF ReadInv, CharGoes, ScreenShows, FarShows
<1> QED
  BY <1>3, <1>4

LEMMA ReadStep ==
    ASSUME IInv, [Next]_vars
    PROVE  ReadInv'
<1>1. CASE print_vga \/ print_com \/ shell_backspace \/ (\E c \in Letters : shell_char(c))
  BY <1>1, ReadStepVga, ReadStepCom, ReadStepKey
<1>2. CASE shell_prompt
  <2>1. /\ pc = "prompt" /\ todo = << >> /\ todo' = klog(Prompt) /\ line' = << >>
        /\ home' = Cursor(screen) /\ screen' = screen /\ uart' = uart /\ far' = far
    BY <1>2 DEF shell_prompt, com1
  <2>2. FarIsEmpty
    BY <2>1 DEF IInv, LineInv, EndsLine
  <2> QED
    BY <2>1, <2>2 DEF ReadInv, PromptGoes, FarIsEmpty
<1>3. CASE drain \/ UNCHANGED vars
  <2>1. UNCHANGED <<screen, pc, todo, line, home, uart, far>>
    BY <1>3 DEF drain, uart_drains, vars, com1
  <2> QED
    BY <2>1 DEF IInv, ReadInv, PromptGoes, CharGoes, BackspaceGoes, ScreenShows, FarShows,
                FarIsEmpty
<1>4. CASE \/ boot_call \/ boot_return \/ kernel_panic \/ shell_exec_empty \/ shell_newline
           \/ (\E command \in Commands : shell_exec(command))
  <2>1. pc' # "read"
    BY <1>4 DEF boot_call, boot_return, kernel_panic, shell_exec_empty, shell_newline,
                shell_exec
  <2> QED
    BY <2>1 DEF ReadInv
<1> QED
  BY <1>1, <1>2, <1>3, <1>4 DEF Next, Works, Keys, boot_fails, isr_handler

\* Output that ends a line goes on ending it until the newline is out.
LEMMA LineStepPrint ==
    ASSUME IInv, print_vga \/ print_com
    PROVE  LineInv'
<1>0. /\ TypeInv /\ todo \in Seq(Outs) /\ todo # << >> /\ pc' = pc /\ uart' = uart
      /\ uart = "works" => loopback = FALSE
  BY DEF IInv, TypeInv, print_vga, print_com, serial_putchar, com1
<1> SUFFICES ASSUME pc \in {"exec", "prompt"}
             PROVE  EndsLine(todo') \/ (todo' = << >> /\ FarIsEmpty')
  BY <1>0 DEF LineInv
<1>1. EndsLine(todo)
  BY <1>0 DEF IInv, LineInv
<1> DEFINE n == Len(todo)
           last == todo[n]
           tail == Tail(todo)
<1>2. last.to = "com" /\ last.text[Len(last.text)] = "\n"
  BY <1>1 DEF EndsLine
<1>3. n \in Nat \ {0} /\ Head(todo) = todo[1]
  BY <1>0, EmptySeq
<1>4. tail \in Seq(Outs) /\ Len(tail) = n - 1 /\ \A i \in 1 .. (n - 1) : tail[i] = todo[i + 1]
  BY <1>0, HeadTailProperties
<1> HIDE DEF last, tail, n
<1>5. ASSUME n # 1
      PROVE  EndsLine(tail)
  <2>1. n - 1 \in 1 .. (n - 1) /\ (n - 1) + 1 = n
    BY <1>3, <1>5
  <2>2. tail[Len(tail)] = last /\ Len(tail) # 0
    BY <1>3, <1>4, <1>5, <2>1 DEF last
  <2>3. tail # << >>
    BY <2>2
  <2> QED
    BY <1>2, <2>2, <2>3 DEF EndsLine
<1>6. CASE print_vga
  <2>1. n # 1
    BY <1>2, <1>3, <1>6 DEF print_vga, last
  <2>2. todo' = tail
    BY <1>6 DEF print_vga, tail
  <2> QED
    BY <1>5, <2>1, <2>2
<1>7. CASE print_com
  <2> DEFINE text == Head(todo).text
  <2>1. /\ text \in Seq(Chars) /\ text # << >> /\ Head(text) \in Chars
        /\ Len(text) = 1 => todo' = tail
        /\ Len(text) # 1 => /\ Tail(text) \in Seq(Chars) \ {<< >>}
                            /\ todo' = Com(Tail(text)) \o tail
    BY <1>0, <1>7, ComPrints DEF tail
  <2>2. far' = IF loopback THEN far ELSE Shown(far, Head(text))
    BY <1>7 DEF print_com, serial_putchar
  <2>3. n = 1 => text[Len(text)] = "\n"
    BY <1>2, <1>3 DEF last
  <2> HIDE DEF text
  <2>4. Len(text) \in Nat \ {0} /\ Head(text) = text[1]
    BY <2>1, EmptySeq
  <2>5. CASE Len(text) = 1
    <3>1. CASE n = 1
      <4>1. tail = << >>
        BY <1>4, <3>1, EmptySeq
      <4>0. Head(text) = "\n"
        BY <2>3, <2>4, <2>5, <3>1
      <4>2. Shown(far, Head(text)) = NoFar
        BY <4>0, ShownNewline
      <4> QED
        BY <1>0, <2>1, <2>2, <2>5, <4>1, <4>2 DEF FarIsEmpty
    <3>2. CASE n # 1
      BY <1>5, <2>1, <2>5, <3>2
    <3> QED
      BY <3>1, <3>2
  <2>6. CASE Len(text) # 1
    <3> DEFINE com == Com(Tail(text))
    <3>1. /\ com \in Seq(Outs) /\ Len(com) = 1 /\ com[1].to = "com" /\ com[1].text = Tail(text)
          /\ todo' = com \o tail
      BY <2>1, <2>6, LogTyped
    <3>2. CASE n # 1
      <4>1. EndsLine(com \o tail)
        BY <1>4, <1>5, <3>1, <3>2, JoinEndsLine
      <4> QED
        BY <3>1, <4>1
    <3>3. CASE n = 1
      <4>1. tail = << >>
        BY <1>4, <3>3, EmptySeq
      <4>2. com \o tail = com
        BY <3>1, <4>1, ConcatEmptySeq
      <4>3. Tail(text)[Len(Tail(text))] = "\n"
        <5>1. /\ Len(Tail(text)) = Len(text) - 1
              /\ \A i \in 1 .. Len(Tail(text)) : Tail(text)[i] = text[i + 1]
          BY <2>1, HeadTailProperties
        <5>2. Len(text) - 1 \in 1 .. (Len(text) - 1) /\ (Len(text) - 1) + 1 = Len(text)
          <6>1. \A k \in Nat \ {0, 1} : k - 1 \in 1 .. (k - 1) /\ (k - 1) + 1 = k
            OBVIOUS
          <6> QED
            BY <2>4, <2>6, <6>1
        <5>3. Tail(text)[Len(text) - 1] = text[Len(text)]
          BY <5>1, <5>2
        <5> QED
          BY <2>3, <3>3, <5>1, <5>3
      <4> HIDE DEF com
      <4>4. com # << >>
        <5>1. Len(com) # 0
          BY <3>1
        <5> QED
          BY <5>1, NotEmpty, Zenon
      <4>5. EndsLine(com)
        BY <3>1, <4>3, <4>4 DEF EndsLine
      <4> QED
        BY <3>1, <4>2, <4>5
    <3> QED
      BY <3>2, <3>3
  <2> QED
    BY <2>5, <2>6
<1> QED
  BY <1>6, <1>7

LEMMA LineStep ==
    ASSUME IInv, [Next]_vars
    PROVE  LineInv'
<1>0. TypeInv /\ BootInv /\ LineInv /\ line \in Seq(Letters) /\ stage \in 1 .. 21
  BY DEF IInv, TypeInv
<1>1. CASE print_vga \/ print_com
  BY <1>1, LineStepPrint
<1>2. CASE drain \/ UNCHANGED vars
  <2>1. UNCHANGED <<pc, todo, uart, far>>
    BY <1>2 DEF drain, uart_drains, vars, com1
  <2> QED
    BY <1>0, <2>1 DEF LineInv, FarIsEmpty
<1>3. CASE boot_return
  <2>1. stage \in 1 .. 20
    BY <1>0, <1>3 DEF boot_return, BootInv
  <2>2. Boot[stage].after \in Seq(Outs)
    BY <2>1, BootTyped
  <2>3. EndsLine(Boot[stage].after \o klog(<<"\n">> \o Line))
    BY <2>2, LinesEnd, JoinEndsLine
  <2> QED
    BY <1>3, <2>3 DEF boot_return, LineInv
<1>4. CASE shell_newline
  BY <1>4, LinesEnd DEF shell_newline, LineInv
<1>5. CASE shell_exec_empty
  <2>1. FarIsEmpty
    BY <1>0, <1>5 DEF shell_exec_empty, LineInv, EndsLine
  <2> QED
    BY <1>5, <2>1 DEF shell_exec_empty, LineInv, FarIsEmpty, com1
<1>6. ASSUME NEW command \in Commands, shell_exec(command)
      PROVE  LineInv'
  <2>1. FarIsEmpty
    BY <1>0, <1>6 DEF shell_exec, LineInv, EndsLine
  <2>2. FarIsEmpty' /\ todo' = Output(command)
    BY <1>6, <2>1 DEF shell_exec, FarIsEmpty, com1
  <2> QED
    BY <1>0, <2>2, OutputTyped DEF LineInv
<1>7. CASE \/ boot_call \/ kernel_panic \/ shell_prompt \/ shell_backspace
           \/ (\E c \in Letters : shell_char(c))
  <2>1. pc' \notin {"exec", "prompt"}
    BY <1>7 DEF boot_call, kernel_panic, shell_prompt, shell_backspace, shell_char, Reading
  <2> QED
    BY <2>1 DEF LineInv
<1> QED
  BY <1>1, <1>2, <1>3, <1>4, <1>5, <1>6, <1>7 DEF Next, Works, Keys, boot_fails, isr_handler

-----------------------------------------------------------------------------

\* The inductive invariant of the console.
THEOREM Invariance == Spec => []IInv
<1>1. IInv /\ [Next]_vars => IInv'
  BY TypeStep, BootStep, ReadStep, LineStep DEF IInv
<1> QED
  BY <1>1, InitInv, PTL DEF Spec

\* The screen and the line keep their types, and the cursor stays on the screen,
\* whatever is printed, wrapped, scrolled and erased.
THEOREM TypeCorrect == Spec => []TypeOK
<1>1. IInv => TypeOK
  BY BootIs DEF IInv, TypeInv, TypeOK, Screens, Cells
<1> QED
  BY <1>1, Invariance, PTL

\* No stage of kernel_main() uses what a later one initialises, and nothing is
\* sent to COM1 before serial_init().
THEOREM BootOrder == Spec => []BootIsOrdered
<1>1. IInv => BootIsOrdered
  <2> SUFFICES ASSUME IInv
               PROVE  BootIsOrdered
    OBVIOUS
  <2>0. BootInv /\ stage \in 1 .. 21 /\ todo \in Seq(Outs)
    BY DEF IInv, TypeInv
  <2>1. ASSUME pc = "check"
        PROVE  Boot[stage].uses \subseteq up
    <3>0. stage \in 1 .. 20
      BY <2>0, <2>1 DEF BootInv
    <3>1. CASE stage \in {1, 2, 3, 4, 13, 17, 20}
      BY <3>1, BootUses
    <3>2. CASE stage \in {5, 6, 7, 8}
      BY <2>0, <3>2, BootUses DEF BootInv
    <3>3. CASE stage \in {9, 10, 11, 12}
      BY <2>0, <3>3, BootUses DEF BootInv
    <3>4. CASE stage \in {14, 15, 16, 18, 19}
      BY <2>0, <3>4, BootUses DEF BootInv
    <3> QED
      BY <3>0, <3>1, <3>2, <3>3, <3>4
  <2>2. \A i \in 1 .. Len(todo) : todo[i].to = "com" => "serial" \in up
    BY <2>0 DEF BootInv
  <2> QED
    BY <2>1, <2>2 DEF BootIsOrdered
<1> QED
  BY <1>1, Invariance, PTL

\* While a line is read, the prompt stands on the screen, no backspace has
\* erased it, and the screen shows no less than the line, however the output
\* wrapped around the last row.
THEOREM ScreenSoundness == Spec => []ScreenShowsLine
<1>1. IInv => ScreenShowsLine
  <2> SUFFICES ASSUME IInv, Reading
               PROVE  ScreenShowsLine
    BY DEF ScreenShowsLine
  <2> DEFINE n == Len(line)
             x == Cursor(screen)
             d == (x - home) % CELLS
  <2>1. Shows(screen, home, line, n)
    BY EmptyTodo DEF Reading, ScreenShows
  <2>2. n \in Nat /\ home \in Cells /\ x \in Cells /\ n < LINE
    BY ScreenFacts DEF IInv, TypeInv
  <2> SUFFICES /\ d - 1 >= n /\ screen.cells[home] = ">"
               /\ d - 1 = n => \A i \in 1 .. n : screen.cells[(home + i) % CELLS] = line[i]
    BY DEF ScreenShowsLine, Prompt
  <2> HIDE DEF n, x
  <2>3. CASE x = home + 1 + n /\ \A i \in 1 .. n : screen.cells[home + i] = line[i]
    <3>1. x - home = 1 + n /\ 1 + n \in Nat /\ 1 + n < CELLS
      BY <2>2, <2>3, Sizes DEF Cells
    <3>2. d = 1 + n
      BY <3>1, Around, Sizes
    <3>3. ASSUME NEW i \in 1 .. n
          PROVE  (home + i) % CELLS = home + i
      <4> DEFINE y == home + i
      <4>1. y \in Nat /\ y < CELLS
        BY <2>2, <2>3, Sizes DEF Cells
      <4> HIDE DEF y
      <4>2. y % CELLS = y
        BY <4>1, Around, Sizes
      <4> QED
        BY <4>2 DEF y
    <3> HIDE DEF d
    <3> QED
      BY <2>1, <2>2, <2>3, <3>2, <3>3 DEF Shows
  <2>4. CASE x < home
    <3> DEFINE y == CELLS - home + x
    <3>1. y \in 0 .. (CELLS - 1) /\ x - home = y - CELLS
      BY <2>2, <2>4, Sizes DEF Cells
    <3> HIDE DEF y
    <3>2. d = y
      <4>1. (y - CELLS) % CELLS = y
        BY <3>1, Below DEF Cells
      <4> QED
        BY <3>1, <4>1
    <3>3. /\ y >= 1 + n
          /\ y = 1 + n => \A i \in 1 .. n : screen.cells[(home + i) % CELLS] = line[i]
      BY <2>1, <2>2, <2>4 DEF Shows, Cells, x, y
    <3> HIDE DEF d
    <3> QED
      BY <2>1, <2>2, <3>1, <3>2, <3>3, Sizes DEF Shows
  <2> QED
    BY <2>1, <2>3, <2>4 DEF Shows, x
<1> QED
  BY <1>1, Invariance, PTL

\* The far terminal shows, up to its cursor, the prompt and the line as the
\* shell has it, after any keys and any commands before.
THEOREM SerialSoundness == Spec => []SerialShowsLine
<1>1. IInv => SerialShowsLine
  <2> SUFFICES ASSUME IInv, Reading, uart = "works"
               PROVE  SubSeq(far.text, 1, far.cursor) = Prompt \o line
    BY DEF SerialShowsLine
  <2>0. /\ line \in Seq(Letters) /\ Len(line) \in Nat
        /\ far.text \in Seq(Chars) /\ far.cursor \in Nat /\ far.cursor <= Len(far.text)
    BY DEF IInv, TypeInv, FarType
  <2>1. Displays(far, line, Len(line), Len(line))
    BY EmptyTodo DEF Reading, FarShows
  <2> DEFINE n == Len(line)
             a == SubSeq(far.text, 1, far.cursor)
             b == Prompt \o line
  <2>2. far.cursor = 1 + n /\ far.text[1] = ">" /\ \A i \in 1 .. n : far.text[1 + i] = line[i]
    BY <2>1 DEF Displays
  <2>3. a \in Seq(Chars) /\ Len(a) = 1 + n /\ \A i \in 1 .. (1 + n) : a[i] = far.text[i]
    <3>1. \A i \in 1 .. (1 + n) : far.text[i] \in Chars
      BY <2>0, <2>2
    <3>2. /\ a \in Seq(Chars) /\ Len(a) = IF 1 <= 1 + n THEN 1 + n - 1 + 1 ELSE 0
          /\ \A i \in 1 .. (1 + n - 1 + 1) : a[i] = far.text[1 + i - 1]
      BY <2>0, <2>2, <3>1, SubSeqProperties
    <3>3. 1 + n - 1 + 1 = 1 + n /\ 1 <= 1 + n /\ \A i \in 1 .. (1 + n) : 1 + i - 1 = i
      BY <2>0
    <3> HIDE DEF a, n
    <3> QED
      BY <3>2, <3>3
  <2>4. /\ b \in Seq(Chars) /\ Len(b) = 1 + n /\ b[1] = ">"
        /\ \A i \in 1 .. n : b[1 + i] = line[i]
    <3>1. Prompt \in Seq(Chars) /\ Len(Prompt) = 1 /\ Prompt[1] = ">"
      BY TextsTyped DEF Prompt
    <3>2. line \in Seq(Chars)
      <4>1. Letters \subseteq Chars
        BY DEF Chars
      <4> QED
        BY <2>0, <4>1, SeqMonotonic
    <3>3. /\ b \in Seq(Chars) /\ Len(b) = Len(Prompt) + n
          /\ \A i \in 1 .. Len(Prompt) + n :
                b[i] = IF i <= Len(Prompt) THEN Prompt[i] ELSE line[i - Len(Prompt)]
      BY <3>1, <3>2, ConcatProperties
    <3> HIDE DEF b, n
    <3>4. n \in Nat
      BY <2>0 DEF n
    <3>5. \A i \in 1 .. n : 1 + i \in 1 .. (1 + n) /\ ~ (1 + i <= 1) /\ 1 + i - 1 = i
      BY <3>4
    <3> QED
      BY <3>1, <3>3, <3>4, <3>5
  <2>5. n \in Nat
    BY <2>0
  <2> HIDE DEF a, b, n
  <2>6. ASSUME NEW i \in 1 .. (1 + n)
        PROVE  a[i] = b[i]
    <3>1. CASE i = 1
      BY <2>2, <2>3, <2>4, <3>1
    <3>2. CASE i # 1
      <4>1. i - 1 \in 1 .. n /\ 1 + (i - 1) = i
        BY <2>5, <3>2
      <4>2. far.text[1 + (i - 1)] = line[i - 1] /\ b[1 + (i - 1)] = line[i - 1]
        BY <2>2, <2>4, <4>1
      <4> QED
        BY <2>3, <4>1, <4>2
    <3> QED
      BY <3>1, <3>2
  <2>7. a = b
    BY <2>3, <2>4, <2>6, SeqEqual
  <2> QED
    BY <2>7 DEF a, b
<1> QED
  BY <1>1, Invariance, PTL
=============================================================================
