--------------------------- MODULE KeyboardProofs ---------------------------
(***************************************************************************)
(* The safety of Keyboard, for a ring of any size and any keys, and its    *)
(* refinement of BoundedQueue.                                             *)
(***************************************************************************)
EXTENDS Keyboard, SequenceTheorems, TLAPS

N == KEYBOARD_BUFFER_SIZE
Positions == 0 .. (N - 1)
Elems == Chars \cup {NoChar}
Ring == [Positions -> Elems]

\* The position after p; how many characters lie from position r up to
\* position w; where the i-th of them is; and these characters of a ring b.
Succ(p) == (p + 1) % N
Count(r, w) == (w - r) % N
At(r, i) == (r + i - 1) % N
Window(b, r, w) == [i \in 1 .. Count(r, w) |-> b[At(r, i)]]

\* keyboard_getchar() goes on to read only when something waits, and a flush
\* starts with the reading position.
ThreadInv ==
    /\ pc = "read" => buffer_read_pos # buffer_write_pos
    /\ pc = "flush" => buffer_read_pos = 0

\* Every character of the queue is one: the slots between the positions have
\* been written.
ContentsInv == Contents \in Seq(Chars \ {NoChar})

\* The driver's flag follows the keyboard's prefix.
PrefixInv == kbd_extended = prefix_sent

IInv == RingIsSound /\ ThreadInv /\ ContentsInv /\ PrefixInv

-----------------------------------------------------------------------------
(* The ring.                                                               *)

\* The remainder of what lies at most one turn away from the ring.
LEMMA Turn ==
    /\ \A a \in 0 .. (N - 1) : a % N = a
    /\ \A a \in N .. (2 * N - 1) : a % N = a - N
    /\ \A a \in (-N) .. (-1) : a % N = a + N
BY KeyboardAssumption DEF N

\* How many characters lie between two positions.
LEMMA CountFacts ==
    ASSUME NEW r \in Positions, NEW w \in Positions
    PROVE  /\ Count(r, w) = IF r <= w THEN w - r ELSE w - r + N
           /\ Count(r, w) \in 0 .. (N - 1)
           /\ Count(r, w) = 0 <=> r = w
<1>1. CASE r <= w
  <2>1. w - r \in 0 .. (N - 1)
    BY <1>1, KeyboardAssumption DEF Positions, N
  <2> QED
    BY <1>1, <2>1, Turn DEF Count, Positions
<1>2. CASE r > w
  <2>1. w - r \in (-N) .. (-1)
    BY <1>2, KeyboardAssumption DEF Positions, N
  <2>2. Count(r, w) = w - r + N
    BY <2>1, Turn DEF Count
  <2> QED
    BY <1>2, <2>1, <2>2, KeyboardAssumption DEF Positions, N
<1> QED
  BY <1>1, <1>2 DEF Positions

\* The slot after a position, and the slot of the i-th character.
LEMMA SlotFacts ==
    ASSUME NEW r \in Positions
    PROVE  /\ Succ(r) = IF r = N - 1 THEN 0 ELSE r + 1
           /\ Succ(r) \in Positions
           /\ \A i \in 1 .. N :
                 /\ At(r, i) = IF r + i - 1 < N THEN r + i - 1 ELSE r + i - 1 - N
                 /\ At(r, i) \in Positions
<1> USE KeyboardAssumption DEF Positions, N
<1>1. ASSUME NEW i \in 1 .. N
      PROVE  At(r, i) = IF r + i - 1 < N THEN r + i - 1 ELSE r + i - 1 - N
  <2>1. CASE r + i - 1 < N
    <3>1. r + i - 1 \in 0 .. (N - 1)
      BY <2>1
    <3> QED
      BY <2>1, <3>1, Turn DEF At
  <2>2. CASE ~ (r + i - 1 < N)
    <3>1. r + i - 1 \in N .. (2 * N - 1)
      BY <2>2
    <3> QED
      BY <2>2, <3>1, Turn DEF At
  <2> QED
    BY <2>1, <2>2
<1>2. At(r, 2) = IF r + 2 - 1 < N THEN r + 2 - 1 ELSE r + 2 - 1 - N
  BY <1>1
<1>3. At(r, 2) = Succ(r)
  <2>1. r + 2 - 1 = r + 1
    OBVIOUS
  <2> QED
    BY <2>1 DEF At, Succ
<1>4. Succ(r) = IF r = N - 1 THEN 0 ELSE r + 1
  BY <1>2, <1>3
<1> QED
  BY <1>1, <1>4

\* The window is a sequence of the ring's characters.
LEMMA WindowFacts ==
    ASSUME NEW b \in Ring, NEW r \in Positions, NEW w \in Positions
    PROVE  /\ Window(b, r, w) \in Seq(Elems)
           /\ Len(Window(b, r, w)) = Count(r, w)
<1>0. N \in Nat /\ Count(r, w) \in 0 .. (N - 1)
  BY CountFacts, KeyboardAssumption DEF N
<1>1. Count(r, w) \in Nat /\ \A i \in 1 .. Count(r, w) : At(r, i) \in Positions
  <2>1. Count(r, w) \in Nat /\ \A i \in 1 .. Count(r, w) : i \in 1 .. N
    BY <1>0
  <2> QED
    BY <2>1, SlotFacts
<1>2. Window(b, r, w) \in [1 .. Count(r, w) -> Elems]
  BY <1>1 DEF Window, Ring
<1>3. Window(b, r, w) \in Seq(Elems)
  BY <1>1, <1>2, SeqDef
<1>4. Len(Window(b, r, w)) \in Nat /\ 1 .. Len(Window(b, r, w)) = 1 .. Count(r, w)
  BY <1>2, <1>3, LenProperties
<1> QED
  BY <1>1, <1>3, <1>4

\* keyboard_buffer_put() appends a character.
LEMMA WindowPut ==
    ASSUME NEW b \in Ring, NEW r \in Positions, NEW w \in Positions,
           NEW c \in Elems, NEW v \in Positions, v = Succ(w), v # r,
           NEW d \in Ring, d[w] = c, \A k \in Positions \ {w} : d[k] = b[k]
    PROVE  /\ Window(d, r, v) = Append(Window(b, r, w), c)
           /\ Count(r, v) = Count(r, w) + 1
<1>0. v = IF w = N - 1 THEN 0 ELSE w + 1
  BY SlotFacts
<1> DEFINE s == Window(b, r, w)
           t == Window(d, r, v)
<1>2. Count(r, v) = Count(r, w) + 1
  <2>1. Count(r, v) = IF r <= v THEN v - r ELSE v - r + N
    BY CountFacts
  <2>2. Count(r, w) = IF r <= w THEN w - r ELSE w - r + N
    BY CountFacts
  <2> QED
    BY <1>0, <2>1, <2>2, KeyboardAssumption DEF Positions, N
<1>3. /\ s \in Seq(Elems) /\ Len(s) = Count(r, w)
      /\ \A i \in 1 .. Count(r, w) : s[i] = b[At(r, i)]
  <2>1. s \in Seq(Elems) /\ Len(s) = Count(r, w)
    BY WindowFacts
  <2> QED
    BY <2>1 DEF Window
<1>4. /\ t \in Seq(Elems) /\ Len(t) = Count(r, v)
      /\ \A i \in 1 .. Count(r, v) : t[i] = d[At(r, i)]
  <2>1. t \in Seq(Elems) /\ Len(t) = Count(r, v)
    BY WindowFacts
  <2> QED
    BY <2>1 DEF Window
<1> HIDE DEF s, t
<1>5. /\ Append(s, c) \in Seq(Elems) /\ Len(Append(s, c)) = Len(s) + 1
      /\ \A i \in 1 .. Len(s) : Append(s, c)[i] = s[i]
      /\ Append(s, c)[Len(s) + 1] = c
  BY <1>3
<1>6. Count(r, w) \in 0 .. (N - 2) /\ N \in Nat
  BY <1>2, CountFacts, KeyboardAssumption DEF N
<1>7. ASSUME NEW i \in 1 .. Len(t)
      PROVE  t[i] = Append(s, c)[i]
  <2>1. i \in 1 .. N /\ i \in 1 .. Count(r, v)
    BY <1>2, <1>4, <1>6
  <2>2. /\ At(r, i) = IF r + i - 1 < N THEN r + i - 1 ELSE r + i - 1 - N
        /\ At(r, i) \in Positions
    BY <2>1, SlotFacts
  <2>3. Count(r, w) = IF r <= w THEN w - r ELSE w - r + N
    BY CountFacts
  <2>4. CASE i = Len(s) + 1
    <3>1. At(r, i) = w
      <4>1. r + i - 1 = r + Count(r, w)
        BY <1>3, <1>6, <2>4 DEF Positions
      <4> QED
        BY <1>6, <2>2, <2>3, <4>1 DEF Positions
    <3> QED
      BY <1>4, <1>5, <2>1, <2>4, <3>1 DEF Ring
  <2>5. CASE i # Len(s) + 1
    <3>1. i \in 1 .. Count(r, w)
      BY <1>2, <1>3, <1>4, <1>6, <2>1, <2>5
    <3>2. At(r, i) # w
      BY <1>6, <2>2, <2>3, <3>1 DEF Positions
    <3> QED
      BY <1>3, <1>4, <1>5, <2>1, <2>2, <3>1, <3>2 DEF Ring
  <2> QED
    BY <2>4, <2>5
<1>8. t = Append(s, c)
  BY <1>2, <1>3, <1>4, <1>5, <1>7, SeqEqual
<1> QED
  BY <1>2, <1>8 DEF s, t

\* keyboard_getchar() takes the first character.
LEMMA WindowGet ==
    ASSUME NEW b \in Ring, NEW r \in Positions, NEW w \in Positions,
           r # w, NEW q \in Positions, q = Succ(r)
    PROVE  /\ Window(b, r, w) # << >>
           /\ Head(Window(b, r, w)) = b[r]
           /\ Window(b, q, w) = Tail(Window(b, r, w))
<1>0. q = IF r = N - 1 THEN 0 ELSE r + 1
  BY SlotFacts
<1> DEFINE s == Window(b, r, w)
           t == Window(b, q, w)
<1>2. Count(q, w) = Count(r, w) - 1 /\ Count(r, w) \in 1 .. (N - 1) /\ N \in Nat
  <2>1. Count(q, w) = IF q <= w THEN w - q ELSE w - q + N
    BY CountFacts
  <2>2. Count(r, w) = IF r <= w THEN w - r ELSE w - r + N
    BY CountFacts
  <2> QED
    BY <1>0, <2>1, <2>2, KeyboardAssumption DEF Positions, N
<1>3. /\ s \in Seq(Elems) /\ Len(s) = Count(r, w)
      /\ \A i \in 1 .. Count(r, w) : s[i] = b[At(r, i)]
  <2>1. s \in Seq(Elems) /\ Len(s) = Count(r, w)
    BY WindowFacts
  <2> QED
    BY <2>1 DEF Window
<1>4. /\ t \in Seq(Elems) /\ Len(t) = Count(q, w)
      /\ \A i \in 1 .. Count(q, w) : t[i] = b[At(q, i)]
  <2>1. t \in Seq(Elems) /\ Len(t) = Count(q, w)
    BY WindowFacts
  <2> QED
    BY <2>1 DEF Window
<1> HIDE DEF s, t
<1>5. s # << >>
  BY <1>2, <1>3, EmptySeq
<1>6. /\ Tail(s) \in Seq(Elems) /\ Len(Tail(s)) = Len(s) - 1
      /\ \A i \in 1 .. Len(Tail(s)) : Tail(s)[i] = s[i + 1]
  BY <1>3, <1>5, HeadTailProperties
<1>7. ASSUME NEW i \in 1 .. Len(t)
      PROVE  t[i] = Tail(s)[i]
  <2>1. i \in 1 .. Count(q, w) /\ i + 1 \in 1 .. Count(r, w) /\ i \in 1 .. N /\ i + 1 \in 1 .. N
    BY <1>2, <1>4
  <2>2. At(q, i) = IF q + i - 1 < N THEN q + i - 1 ELSE q + i - 1 - N
    BY <2>1, SlotFacts
  <2>3. At(r, i + 1) = IF r + (i + 1) - 1 < N THEN r + (i + 1) - 1
                                ELSE r + (i + 1) - 1 - N
    BY <2>1, SlotFacts
  <2>4. At(q, i) = At(r, i + 1)
    BY <1>0, <1>2, <2>1, <2>2, <2>3 DEF Positions
  <2> QED
    BY <1>2, <1>3, <1>4, <1>6, <2>1, <2>4
<1>8. t = Tail(s)
  BY <1>2, <1>3, <1>4, <1>6, <1>7, SeqEqual
<1>9. Head(s) = b[r]
  <2>1. 1 \in 1 .. Count(r, w) /\ 1 \in 1 .. N
    BY <1>2
  <2>2. At(r, 1) = r
    <3>1. r + 1 - 1 = r /\ r \in 0 .. (N - 1)
      BY <1>2 DEF Positions
    <3> QED
      BY <3>1, Turn DEF At
  <2>3. s[1] = b[r]
    BY <1>3, <2>1, <2>2
  <2> QED
    BY <2>3
<1> QED
  BY <1>5, <1>8, <1>9 DEF s, t

\* Nothing lies between a position and itself.
LEMMA WindowEmpty ==
    ASSUME NEW b \in Ring, NEW r \in Positions
    PROVE  Window(b, r, r) = << >>
<1>1. Window(b, r, r) \in Seq(Elems) /\ Len(Window(b, r, r)) = 0
  BY WindowFacts, CountFacts
<1> QED
  BY <1>1, EmptySeq

-----------------------------------------------------------------------------
(* What the steps do to the queue.                                         *)

\* The types of the ring, in the terms of the lemmas above.
LEMMA RingType ==
    ASSUME TypeOK
    PROVE  /\ keyboard_buffer \in Ring
           /\ buffer_read_pos \in Positions /\ buffer_write_pos \in Positions
           /\ Waiting = Count(buffer_read_pos, buffer_write_pos)
           /\ Contents = IF pc = "flush" THEN << >>
                         ELSE Window(keyboard_buffer, buffer_read_pos, buffer_write_pos)
BY DEF TypeOK, Ring, Elems, Positions, N, Waiting, Count, Contents, Window, At

\* The queue before and after a step.
LEMMA Contents2 ==
    /\ Contents = IF pc = "flush" THEN << >>
                  ELSE Window(keyboard_buffer, buffer_read_pos, buffer_write_pos)
    /\ Contents' = IF pc' = "flush" THEN << >>
                   ELSE Window(keyboard_buffer', buffer_read_pos', buffer_write_pos')
    /\ Waiting = Count(buffer_read_pos, buffer_write_pos)
    /\ Waiting' = Count(buffer_read_pos', buffer_write_pos')
BY DEF Contents, Waiting, Window, Count, At, N

\* An interrupt moves the thread only out of a halt.
LEMMA WakeFacts ==
    ASSUME Wake, TypeOK
    PROVE  /\ pc' \in {"check", "hlt", "halted", "read", "advance", "flush"}
           /\ pc' \in {"read", "advance", "flush"} \/ pc \in {"read", "advance", "flush"}
                 => pc' = pc
BY DEF Wake, TypeOK

\* keyboard_buffer_put() while the thread is anywhere: the slot being read is
\* left alone, and the queue has gained the character or lost nothing.
LEMMA PutStep ==
    ASSUME IInv, NEW c \in Chars \ {NoChar}, keyboard_buffer_put(c), Wake
    PROVE  /\ keyboard_buffer' \in Ring
           /\ buffer_read_pos' = buffer_read_pos /\ buffer_write_pos' \in Positions
           /\ buffer_read_pos # buffer_write_pos =>
                 /\ buffer_read_pos # buffer_write_pos'
                 /\ keyboard_buffer'[buffer_read_pos] = keyboard_buffer[buffer_read_pos]
           /\ \/ Contents' = Contents
              \/ /\ Len(Contents) < N - 1
                 /\ Contents' = Append(Contents, c)
<1> DEFINE b == keyboard_buffer
           r == buffer_read_pos
           w == buffer_write_pos
<1>1. TypeOK /\ b \in Ring /\ r \in Positions /\ w \in Positions
  BY RingType DEF IInv, RingIsSound
<1>2. /\ pc' = "flush" <=> pc = "flush"
  BY <1>1, WakeFacts
<1>3. CASE Succ(w) # r
  <2>1. b' = [b EXCEPT ![w] = c] /\ w' = Succ(w) /\ r' = r
    BY <1>3 DEF keyboard_buffer_put, Succ, N
  <2>2. w' \in Positions /\ b' \in Ring
    BY <1>1, <2>1, SlotFacts DEF Ring, Elems
  <2>3. /\ Window(b', r, w') = Append(Window(b, r, w), c)
        /\ Count(r, w') = Count(r, w) + 1
    <3>1. c \in Elems /\ b'[w] = c /\ \A k \in Positions \ {w} : b'[k] = b[k]
      BY <1>1, <2>1 DEF Ring, Elems
    <3>2. w' = Succ(w) /\ w' # r
      BY <1>3, <2>1
    <3> QED
      BY <1>1, <2>2, <3>1, <3>2, WindowPut
  <2>4. Len(Window(b, r, w)) = Count(r, w) /\ Count(r, w) < N - 1
    <3>1. Count(r, w') \in 0 .. (N - 1) /\ Count(r, w) \in 0 .. (N - 1)
      BY <1>1, <2>2, CountFacts
    <3>2. Count(r, w) < N - 1
      BY <2>3, <3>1, KeyboardAssumption DEF N
    <3> QED
      BY <1>1, <3>2, WindowFacts
  <2>5. \/ Contents' = Contents
        \/ Len(Contents) < N - 1 /\ Contents' = Append(Contents, c)
    BY <1>2, <2>1, <2>3, <2>4, Contents2
  <2>6. r # w => r # w' /\ b'[r] = b[r]
    BY <1>1, <1>3, <2>1 DEF Ring
  <2> QED
    BY <2>1, <2>2, <2>5, <2>6
<1>4. CASE Succ(w) = r
  <2>1. b' = b /\ w' = w /\ r' = r
    BY <1>4 DEF keyboard_buffer_put, Succ, N
  <2> QED
    BY <1>1, <1>2, <2>1, Contents2
<1> QED
  BY <1>3, <1>4

\* A step that leaves the ring, and a flush, alone leaves the queue alone.
LEMMA QuietStep ==
    ASSUME UNCHANGED ring, pc' = "flush" <=> pc = "flush"
    PROVE  Contents' = Contents
BY Contents2 DEF ring

\* The queue of a step, by what happens to it.
Appended == \E c \in Chars \ {NoChar} :
                Len(Contents) < N - 1 /\ Contents' = Append(Contents, c) /\ delivered' = delivered
Taken == Contents # << >> /\ Contents' = Tail(Contents) /\ delivered' = Head(Contents)
Cleared == Contents' = << >> /\ delivered' = delivered
QueueStep == UNCHANGED <<Contents, delivered>> \/ Appended \/ Taken \/ Cleared

\* keyboard_getchar() returns: the first character leaves the queue.
LEMMA AdvanceStep ==
    ASSUME IInv, getchar_advance
    PROVE  Taken /\ buffer_read_pos' \in Positions
<1> DEFINE b == keyboard_buffer
           r == buffer_read_pos
           w == buffer_write_pos
<1>1. /\ b \in Ring /\ r \in Positions /\ w \in Positions
      /\ ch = b[r] /\ Waiting > 0 /\ Waiting = Count(r, w)
  BY RingType DEF IInv, RingIsSound, ReadSlotStable, getchar_advance
<1>2. r # w
  BY <1>1, CountFacts
<1>3. b' = b /\ r' = Succ(r) /\ w' = w /\ delivered' = ch /\ pc = "advance" /\ pc' = "check"
  BY DEF getchar_advance, Succ, N
<1>4. r' \in Positions
  BY <1>1, <1>3, SlotFacts
<1>5. /\ Window(b, r, w) # << >> /\ Head(Window(b, r, w)) = b[r]
      /\ Window(b, r', w) = Tail(Window(b, r, w))
  BY <1>1, <1>2, <1>3, <1>4, WindowGet
<1>6. Contents = Window(b, r, w) /\ Contents' = Window(b, r', w)
  BY <1>3, Contents2
<1> QED
  BY <1>1, <1>3, <1>4, <1>5, <1>6 DEF Taken

\* A modifier key sets the state bits.
LEMMA ModifierType ==
    ASSUME TypeOK, NEW key \in Modifiers, NEW pressed \in BOOLEAN
    PROVE  modifier(key, pressed) \in
               [shift : BOOLEAN, ctrl : BOOLEAN, alt : BOOLEAN, caps : BOOLEAN]
BY DEF TypeOK, Modifiers, modifier

\* The character of a key.
LEMMA TranslateType ==
    ASSUME TypeOK, NEW key
    PROVE  translate(key, kbd_state) = NoChar \/ translate(key, kbd_state) \in Chars
BY DEF TypeOK, translate, Chars

\* A step that leaves the ring alone and moves the thread by Wake only.
LEMMA WakeStep ==
    ASSUME IInv, Wake, UNCHANGED <<ring, ch, delivered>>
    PROVE  /\ UNCHANGED <<Contents, delivered>>
           /\ pc' \in {"check", "hlt", "halted", "read", "advance", "flush"}
           /\ ReadSlotStable' /\ ThreadInv'
<1>1. TypeOK
  BY DEF IInv, RingIsSound
<1>2. /\ pc' \in {"check", "hlt", "halted", "read", "advance", "flush"}
      /\ pc' \in {"read", "advance", "flush"} \/ pc \in {"read", "advance", "flush"}
                 => pc' = pc
  BY <1>1, WakeFacts
<1>3. Contents' = Contents
  BY <1>2, QuietStep
<1> QED
  BY <1>2, <1>3 DEF IInv, RingIsSound, ReadSlotStable, ThreadInv, Waiting, ring

\* Every step keeps the invariant, and does to the queue what BoundedQueue
\* allows.
LEMMA Step == IInv /\ [Next]_vars => /\ TypeOK' /\ ReadSlotStable' /\ ThreadInv' /\ PrefixInv'
                                     /\ QueueStep
<1> SUFFICES ASSUME IInv, [Next]_vars
             PROVE  TypeOK' /\ ReadSlotStable' /\ ThreadInv' /\ PrefixInv' /\ QueueStep
  OBVIOUS
<1> USE DEF QueueStep
<1>0. /\ TypeOK /\ ReadSlotStable /\ ThreadInv /\ ContentsInv /\ PrefixInv
      /\ 0 \in Positions
  BY KeyboardAssumption DEF IInv, RingIsSound, Positions, N
<1>1. CASE keyboard_handler_prefix
  <2>1. Wake /\ UNCHANGED <<ring, ch, delivered>>
    BY <1>1 DEF keyboard_handler_prefix
  <2>2. TypeOK' /\ PrefixInv'
    BY <1>0, <1>1, <2>1, WakeStep DEF keyboard_handler_prefix, TypeOK, PrefixInv, ring
  <2> QED
    BY <2>1, <2>2, WakeStep
<1>2. ASSUME NEW key \in Keys, NEW pressed \in BOOLEAN, keyboard_handler_extended(key, pressed)
      PROVE  TypeOK' /\ ReadSlotStable' /\ ThreadInv' /\ PrefixInv' /\ QueueStep
  <2>1. Wake /\ UNCHANGED <<ring, ch, delivered>>
    BY <1>2 DEF keyboard_handler_extended
  <2>2. TypeOK' /\ PrefixInv'
    BY <1>0, <1>2, <2>1, WakeStep DEF keyboard_handler_extended, TypeOK, PrefixInv, ring
  <2> QED
    BY <2>1, <2>2, WakeStep
<1>3. ASSUME NEW key \in Keys, NEW pressed \in BOOLEAN, keyboard_handler_modifier(key, pressed)
      PROVE  TypeOK' /\ ReadSlotStable' /\ ThreadInv' /\ PrefixInv' /\ QueueStep
  <2>1. Wake /\ UNCHANGED <<ring, ch, delivered>>
    BY <1>3 DEF keyboard_handler_modifier
  <2>2. kbd_state' \in [shift : BOOLEAN, ctrl : BOOLEAN, alt : BOOLEAN, caps : BOOLEAN]
    BY <1>0, <1>3, ModifierType DEF keyboard_handler_modifier
  <2>3. TypeOK' /\ PrefixInv'
    BY <1>0, <1>3, <2>1, <2>2, WakeStep DEF keyboard_handler_modifier, TypeOK, PrefixInv, ring
  <2> QED
    BY <2>1, <2>3, WakeStep
<1>4. ASSUME NEW key \in Keys, NEW pressed \in BOOLEAN, keyboard_handler_key(key, pressed)
      PROVE  TypeOK' /\ ReadSlotStable' /\ ThreadInv' /\ PrefixInv' /\ QueueStep
  <2> DEFINE ascii == translate(key, kbd_state)
  <2>0. Wake /\ UNCHANGED <<ch, delivered, kbd_state, kbd_extended>> /\ prefix_sent' = FALSE
        /\ kbd_extended = FALSE
    BY <1>0, <1>4 DEF keyboard_handler_key, TypeOK
  <2>1. CASE UNCHANGED ring
    <3>1. TypeOK' /\ PrefixInv'
      BY <1>0, <2>0, <2>1, WakeStep DEF TypeOK, PrefixInv, ring
    <3> QED
      BY <2>0, <2>1, <3>1, WakeStep
  <2>2. CASE ascii # NoChar /\ keyboard_buffer_put(ascii)
    <3>1. ascii \in Chars \ {NoChar}
      BY <1>0, <2>2, TranslateType
    <3> HIDE DEF ascii
    <3>2. /\ keyboard_buffer' \in Ring
          /\ buffer_read_pos' = buffer_read_pos /\ buffer_write_pos' \in Positions
          /\ buffer_read_pos # buffer_write_pos =>
                 /\ buffer_read_pos # buffer_write_pos'
                 /\ keyboard_buffer'[buffer_read_pos] = keyboard_buffer[buffer_read_pos]
          /\ \/ Contents' = Contents
             \/ /\ Len(Contents) < N - 1
                /\ Contents' = Append(Contents, ascii)
      BY <2>0, <2>2, <3>1, PutStep
    <3>3. /\ pc' \in {"check", "hlt", "halted", "read", "advance", "flush"}
          /\ pc' \in {"read", "advance", "flush"} \/ pc \in {"read", "advance", "flush"}
                 => pc' = pc
      BY <1>0, <2>0, WakeFacts
    <3>4. TypeOK'
      BY <1>0, <2>0, <3>2, <3>3 DEF TypeOK, Ring, Elems, Positions, N
    <3>5. ReadSlotStable' /\ ThreadInv'
      <4>1. /\ buffer_read_pos \in Positions /\ buffer_write_pos \in Positions
            /\ Waiting = Count(buffer_read_pos, buffer_write_pos)
            /\ Waiting' = Count(buffer_read_pos', buffer_write_pos')
        BY <1>0, RingType, Contents2
      <4>2. /\ Waiting > 0 => buffer_read_pos # buffer_write_pos
            /\ buffer_read_pos' # buffer_write_pos' => Waiting' > 0
        BY <3>2, <4>1, CountFacts
      <4> QED
        BY <1>0, <2>0, <3>2, <3>3, <4>2 DEF ReadSlotStable, ThreadInv
    <3>6. QueueStep
      BY <2>0, <3>1, <3>2 DEF Appended
    <3>7. PrefixInv'
      BY <2>0 DEF PrefixInv
    <3> QED
      BY <3>4, <3>5, <3>6, <3>7
  <2> QED
    BY <1>4, <2>1, <2>2 DEF keyboard_handler_key
<1>5. CASE timer_irq
  <2>1. Wake /\ UNCHANGED <<ring, ch, delivered>>
    BY <1>5 DEF timer_irq
  <2>2. TypeOK' /\ PrefixInv'
    BY <1>0, <1>5, <2>1, WakeStep DEF timer_irq, TypeOK, PrefixInv, ring, decoder
  <2> QED
    BY <2>1, <2>2, WakeStep
<1>6. CASE getchar_check \/ getchar_hlt \/ getchar_read
  <2>1. UNCHANGED <<ring, decoder, delivered>> /\ pc # "flush" /\ pc' # "flush"
    BY <1>6 DEF getchar_check, getchar_hlt, getchar_read
  <2>2. Contents' = Contents /\ Waiting' = Waiting
    BY <2>1, QuietStep DEF Waiting, ring
  <2>3. TypeOK'
    BY <1>0, <1>6 DEF TypeOK, getchar_check, getchar_hlt, getchar_read, ring, decoder
  <2>4. ThreadInv' /\ PrefixInv'
    BY <1>0, <1>6 DEF ThreadInv, PrefixInv, getchar_check, getchar_hlt, getchar_read, ring,
                      decoder
  <2>5. ReadSlotStable'
    <3>1. CASE getchar_check \/ getchar_hlt
      BY <3>1 DEF getchar_check, getchar_hlt, ReadSlotStable
    <3>2. CASE getchar_read
      <4>1. /\ keyboard_buffer \in Ring
            /\ buffer_read_pos \in Positions /\ buffer_write_pos \in Positions
            /\ Contents = Window(keyboard_buffer, buffer_read_pos, buffer_write_pos)
            /\ buffer_read_pos # buffer_write_pos
            /\ Waiting = Count(buffer_read_pos, buffer_write_pos)
        BY <1>0, <3>2, RingType DEF getchar_read, ThreadInv
      <4>2. PICK q \in Positions : q = Succ(buffer_read_pos)
        BY <4>1, SlotFacts
      <4>3. Contents # << >> /\ Head(Contents) = keyboard_buffer[buffer_read_pos]
        BY <4>1, <4>2, WindowGet
      <4>4. Head(Contents) \in Chars \ {NoChar}
        BY <1>0, <4>3, HeadTailProperties DEF ContentsInv
      <4>5. Waiting > 0
        BY <4>1, CountFacts
      <4> QED
        BY <2>2, <3>2, <4>3, <4>4, <4>5 DEF getchar_read, ReadSlotStable, ring
    <3> QED
      BY <1>6, <3>1, <3>2
  <2> QED
    BY <2>1, <2>2, <2>3, <2>4, <2>5
<1>7. CASE getchar_advance
  <2>1. Taken /\ buffer_read_pos' \in Positions
    BY <1>7, AdvanceStep
  <2> QED
    BY <1>0, <1>7, <2>1 DEF getchar_advance, TypeOK, ReadSlotStable, ThreadInv, PrefixInv,
                            decoder, Positions, N
<1>8. CASE flush_read_pos
  <2>1. Contents' = << >> /\ delivered' = delivered
    BY <1>8 DEF flush_read_pos, Contents
  <2> QED
    BY <1>0, <1>8, <2>1 DEF flush_read_pos, TypeOK, ReadSlotStable, ThreadInv, PrefixInv,
                            decoder, Positions, N, Cleared
<1>9. CASE flush_write_pos
  <2>1. Contents' = << >> /\ delivered' = delivered
    <3>1. /\ keyboard_buffer' = keyboard_buffer /\ keyboard_buffer \in Ring
          /\ buffer_read_pos' = 0 /\ buffer_write_pos' = 0 /\ pc' = "check"
      BY <1>0, <1>9, RingType DEF flush_write_pos, ThreadInv
    <3> QED
      BY <1>0, <1>9, <3>1, Contents2, WindowEmpty DEF flush_write_pos
  <2> QED
    BY <1>0, <1>9, <2>1 DEF flush_write_pos, TypeOK, ReadSlotStable, ThreadInv, PrefixInv,
                            decoder, Positions, N, Cleared
<1>10. CASE UNCHANGED vars
  <2>1. UNCHANGED <<ring, decoder, thread>>
    BY <1>10 DEF vars
  <2>2. Contents' = Contents /\ Waiting' = Waiting
    BY <2>1, QuietStep DEF Waiting, ring, thread
  <2> QED
    BY <1>0, <2>1, <2>2 DEF TypeOK, ReadSlotStable, ThreadInv, PrefixInv, ring, decoder, thread
<1> QED
  BY <1>1, <1>2, <1>3, <1>4, <1>5, <1>6, <1>7, <1>8, <1>9, <1>10 DEF Next, Getchar

-----------------------------------------------------------------------------
(* The theorems.                                                           *)

\* The invariant holds of the empty ring.
LEMMA InitInv == Init => IInv /\ Contents = << >>
<1> SUFFICES ASSUME Init
             PROVE  IInv /\ Contents = << >>
  OBVIOUS
<1>0. TypeOK
  <2>1. kbd_state \in [shift : BOOLEAN, ctrl : BOOLEAN, alt : BOOLEAN, caps : BOOLEAN]
    BY Zenon DEF Init
  <2>2. buffer_read_pos \in 0 .. (N - 1) /\ buffer_write_pos \in 0 .. (N - 1)
    BY KeyboardAssumption DEF Init, N
  <2>3. keyboard_buffer \in [0 .. (N - 1) -> Chars \cup {NoChar}]
    BY DEF Init, N
  <2> QED
    BY <2>1, <2>2, <2>3 DEF Init, TypeOK, N
<1>1. TypeOK /\ ReadSlotStable /\ ThreadInv /\ PrefixInv
  BY <1>0 DEF Init, ReadSlotStable, ThreadInv, PrefixInv
<1>2. Contents = << >>
  <2>1. /\ keyboard_buffer \in Ring /\ 0 \in Positions
        /\ Contents = Window(keyboard_buffer, 0, 0)
    BY <1>1, RingType DEF Init
  <2> QED
    BY <2>1, WindowEmpty
<1>3. ContentsInv
  BY <1>2 DEF ContentsInv
<1> QED
  BY <1>1, <1>2, <1>3 DEF IInv, RingIsSound

\* Every step keeps it.
LEMMA NextInv == IInv /\ [Next]_vars => IInv'
<1> SUFFICES ASSUME IInv, [Next]_vars
             PROVE  IInv'
  OBVIOUS
<1>1. QueueStep /\ Contents \in Seq(Chars \ {NoChar})
  BY Step DEF IInv, ContentsInv
<1>2. Contents' \in Seq(Chars \ {NoChar})
  <2>1. CASE Appended
    BY <1>1, <2>1 DEF Appended
  <2>2. CASE Taken
    BY <1>1, <2>2, HeadTailProperties DEF Taken
  <2>3. CASE Cleared
    BY <2>3 DEF Cleared
  <2> QED
    BY <1>1, <2>1, <2>2, <2>3 DEF QueueStep
<1> QED
  BY <1>2, Step DEF IInv, RingIsSound, ContentsInv

\* The inductive invariant of the keyboard driver.
THEOREM Invariance == Spec => []IInv
BY InitInv, NextInv, PTL DEF Spec

\* Whatever keys come in while keyboard_getchar() or keyboard_flush() is under
\* way, the positions stay inside the ring and the slot being read is neither
\* overwritten nor emptied before it is returned.
THEOREM Soundness == Spec => []RingIsSound
<1>1. IInv => RingIsSound
  BY DEF IInv
<1> QED
  BY <1>1, Invariance, PTL

\* The byte after an 0xE0 prefix never puts a character into the ring and
\* never changes a modifier.
THEOREM ExtendedSilence == Spec => ExtendedKeysAreSilent
<1>1. IInv /\ [Next]_vars =>
         [prefix_sent /\ ~prefix_sent' => UNCHANGED <<keyboard_buffer, kbd_state>>]_vars
  <2> SUFFICES ASSUME IInv, Next, prefix_sent, ~prefix_sent'
               PROVE  UNCHANGED <<keyboard_buffer, kbd_state>>
    OBVIOUS
  <2>1. kbd_extended
    BY DEF IInv, PrefixInv
  <2> QED
    BY <2>1 DEF Next, keyboard_handler_prefix, keyboard_handler_extended,
                keyboard_handler_modifier, keyboard_handler_key, timer_irq, Getchar,
                getchar_check, getchar_hlt, getchar_read, getchar_advance, flush_read_pos,
                flush_write_pos, ring, decoder
<1> QED
  BY <1>1, Invariance, PTL DEF Spec, ExtendedKeysAreSilent

\* The ring with its two positions, filled by the handler and emptied by the
\* thread with no lock between them, is a first-in first-out queue of at most
\* KEYBOARD_BUFFER_SIZE - 1 characters.
THEOREM Refinement == Spec => IsABoundedQueue
<1>1. Init => Queue!Init
  BY InitInv DEF Init, Queue!Init
<1>2. IInv /\ [Next]_vars => [Queue!Next]_<<Contents, delivered>>
  <2> SUFFICES ASSUME IInv, [Next]_vars
               PROVE  [Queue!Next]_<<Contents, delivered>>
    OBVIOUS
  <2>1. QueueStep
    BY Step
  <2>2. Appended => Queue!Next
    BY DEF Appended, Queue!Next, Queue!Put, N
  <2>3. Taken => Queue!Next
    BY DEF Taken, Queue!Next, Queue!Get
  <2>4. Cleared => Queue!Next
    BY DEF Cleared, Queue!Next, Queue!Clear
  <2> QED
    BY <2>1, <2>2, <2>3, <2>4 DEF QueueStep
<1> QED
  BY <1>1, <1>2, Invariance, PTL DEF Spec, IsABoundedQueue, Queue!Spec
=============================================================================
