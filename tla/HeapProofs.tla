----------------------------- MODULE HeapProofs -----------------------------
(***************************************************************************)
(* The safety of Heap, for any sizes of the heap, its pages, headers and   *)
(* requests, and its refinement of Allocator.                              *)
(***************************************************************************)
EXTENDS Heap, SequenceTheorems, TLAPS

-----------------------------------------------------------------------------
(* Lists: one element changed, put in or taken out.                        *)

\* The list with element i changed.
LEMMA ChangeFacts ==
    ASSUME NEW S, NEW s \in Seq(S), NEW i \in 1 .. Len(s), NEW e \in S
    PROVE  /\ [s EXCEPT ![i] = e] \in Seq(S)
           /\ Len([s EXCEPT ![i] = e]) = Len(s)
           /\ \A k \in 1 .. Len(s) : [s EXCEPT ![i] = e][k] = IF k = i THEN e ELSE s[k]
BY ExceptSeq

\* Two lists end to end, element by element.
LEMMA ConcatFacts ==
    ASSUME NEW S, NEW s \in Seq(S), NEW t \in Seq(S)
    PROVE  /\ s \o t \in Seq(S)
           /\ Len(s \o t) = Len(s) + Len(t)
           /\ \A k \in 1 .. Len(s) : (s \o t)[k] = s[k]
           /\ \A k \in 1 .. Len(t) : (s \o t)[Len(s) + k] = t[k]
<1> DEFINE m == Len(s)
           n == Len(t)
<1>1. /\ s \o t \in Seq(S)
      /\ Len(s \o t) = m + n
      /\ \A k \in 1 .. m + n : (s \o t)[k] = IF k <= m THEN s[k] ELSE t[k - m]
  BY ConcatProperties, Zenon
<1>0. m \in Nat /\ n \in Nat
  OBVIOUS
<1> HIDE DEF m, n
<1>2. \A k \in 1 .. m : (s \o t)[k] = s[k]
  <2> TAKE k \in 1 .. m
  <2>1. k \in 1 .. m + n /\ k <= m
    BY <1>0
  <2> QED
    BY <1>1, <2>1, Zenon
<1>3. \A k \in 1 .. n : (s \o t)[m + k] = t[k]
  <2> TAKE k \in 1 .. n
  <2>1. m + k \in 1 .. m + n /\ ~(m + k <= m) /\ (m + k) - m = k
    BY <1>0
  <2> QED
    BY <1>1, <2>1, Zenon
<1> QED
  BY <1>1, <1>2, <1>3, Zenon DEF m, n

\* The list with an element put in after element i.
LEMMA InsertFacts ==
    ASSUME NEW S, NEW s \in Seq(S), NEW i \in 1 .. Len(s), NEW e \in S
    PROVE  /\ InsertAt(s, i + 1, e) \in Seq(S)
           /\ Len(InsertAt(s, i + 1, e)) = Len(s) + 1
           /\ \A k \in 1 .. (Len(s) + 1) :
                 /\ k <= i => InsertAt(s, i + 1, e)[k] = s[k]
                 /\ k = i + 1 => InsertAt(s, i + 1, e)[k] = e
                 /\ k > i + 1 => InsertAt(s, i + 1, e)[k] = s[k - 1]
<1> DEFINE n == Len(s)
           a == SubSeq(s, 1, i)
           b == SubSeq(s, i + 1, n)
<1>1. n \in Nat /\ i \in Nat /\ i + 1 \in Nat /\ n - i \in Nat /\ \A k \in 1 .. n : s[k] \in S
  OBVIOUS
<1>2. /\ a \in Seq(S) /\ Len(a) = i /\ \A k \in 1 .. i : a[k] = s[k]
  BY <1>1, SubSeqProperties
<1>3. /\ b \in Seq(S) /\ Len(b) = n - i /\ \A k \in 1 .. (n - i) : b[k] = s[i + k]
  BY <1>1, SubSeqProperties
<1>4. InsertAt(s, i + 1, e) = (a \o <<e>>) \o b
  <2>1. (i + 1) - 1 = i
    OBVIOUS
  <2> QED
    BY <2>1 DEF InsertAt
<1> HIDE DEF a, b
<1> DEFINE c == a \o <<e>>
<1>5. /\ c \in Seq(S) /\ Len(c) = i + 1
      /\ \A k \in 1 .. i : c[k] = s[k]
      /\ c[i + 1] = e
  <2>1. a \in Seq(S) /\ <<e>> \in Seq(S) /\ Len(a) = i /\ Len(<<e>>) = 1 /\ <<e>>[1] = e /\ 1 \in Nat /\ 1 \in 1 .. 1
    BY <1>2
  <2>2. /\ c \in Seq(S) /\ Len(c) = Len(a) + Len(<<e>>)
        /\ \A k \in 1 .. Len(a) : c[k] = a[k]
        /\ \A k \in 1 .. Len(<<e>>) : c[Len(a) + k] = <<e>>[k]
    BY <2>1, ConcatFacts
  <2> HIDE DEF c
  <2> QED
    BY <2>1, <2>2, <1>2
<1> HIDE DEF c
<1> DEFINE r == c \o b
<1>6. /\ r \in Seq(S) /\ Len(r) = (i + 1) + (n - i)
      /\ \A k \in 1 .. (i + 1) : r[k] = c[k]
      /\ \A k \in 1 .. (n - i) : r[(i + 1) + k] = b[k]
  <2> DEFINE p == i + 1
             q == n - i
  <2>1. c \in Seq(S) /\ b \in Seq(S) /\ p \in Nat /\ q \in Nat /\ Len(c) = p /\ Len(b) = q
    BY <1>1, <1>3, <1>5
  <2> HIDE DEF p, q, n
  <2>2. /\ c \o b \in Seq(S) /\ Len(c \o b) = Len(c) + Len(b)
        /\ \A k \in 1 .. Len(c) : (c \o b)[k] = c[k]
        /\ \A k \in 1 .. Len(b) : (c \o b)[Len(c) + k] = b[k]
    <3>1. c \in Seq(S) /\ b \in Seq(S)
      BY <2>1
    <3> QED
      BY ONLY <3>1, ConcatFacts, SMT
  <2> QED
    BY <2>1, <2>2, Zenon DEF p, q
<1>7. InsertAt(s, i + 1, e) = r
  BY <1>4 DEF c
<1> HIDE DEF r
<1>8. ASSUME NEW k \in 1 .. (n + 1)
      PROVE  (k <= i => r[k] = s[k]) /\ (k = i + 1 => r[k] = e) /\ (k > i + 1 => r[k] = s[k - 1])
  <2>1. CASE k <= i
    BY <1>1, <1>5, <1>6, <2>1
  <2>2. CASE k = i + 1
    BY <1>1, <1>5, <1>6, <2>2
  <2>3. CASE k > i + 1
    <3> DEFINE j == k - (i + 1)
    <3>1. j \in 1 .. (n - i) /\ (i + 1) + j = k /\ i + j = k - 1
      BY <1>1, <2>3
    <3>2. r[(i + 1) + j] = b[j] /\ b[j] = s[i + j]
      BY <3>1, <1>3, <1>6, Zenon
    <3> QED
      BY <1>1, <2>3, <3>1, <3>2
  <2> QED
    BY <1>1, <2>1, <2>2, <2>3
<1>9. Len(r) = n + 1
  BY <1>1, <1>6
<1> QED
  BY <1>6, <1>7, <1>8, <1>9, Zenon

\* The list without the element after element i.
LEMMA RemoveFacts ==
    ASSUME NEW S, NEW s \in Seq(S), NEW i \in 1 .. (Len(s) - 1)
    PROVE  /\ RemoveAt(s, i + 1) \in Seq(S)
           /\ Len(RemoveAt(s, i + 1)) = Len(s) - 1
           /\ \A k \in 1 .. (Len(s) - 1) :
                 RemoveAt(s, i + 1)[k] = IF k <= i THEN s[k] ELSE s[k + 1]
<1> DEFINE n == Len(s)
           a == SubSeq(s, 1, i)
           b == SubSeq(s, i + 2, n)
<1>1. n \in Nat /\ i \in Nat /\ n - i - 1 \in Nat /\ \A k \in 1 .. n : s[k] \in S
  OBVIOUS
<1>2. /\ a \in Seq(S) /\ Len(a) = i /\ \A k \in 1 .. i : a[k] = s[k]
  BY <1>1, SubSeqProperties
<1>3. /\ b \in Seq(S) /\ Len(b) = n - i - 1 /\ \A k \in 1 .. (n - i - 1) : b[k] = s[i + 1 + k]
  BY <1>1, SubSeqProperties
<1>4. RemoveAt(s, i + 1) = a \o b
  <2>1. (i + 1) - 1 = i /\ (i + 1) + 1 = i + 2
    OBVIOUS
  <2> QED
    BY <2>1 DEF RemoveAt
<1> HIDE DEF a, b
<1> DEFINE r == a \o b
<1>5. /\ r \in Seq(S) /\ Len(r) = i + (n - i - 1)
      /\ \A k \in 1 .. i : r[k] = a[k]
      /\ \A k \in 1 .. (n - i - 1) : r[i + k] = b[k]
  <2> DEFINE q == n - i - 1
  <2>1. a \in Seq(S) /\ b \in Seq(S) /\ i \in Nat /\ q \in Nat /\ Len(a) = i /\ Len(b) = q
    BY <1>1, <1>2, <1>3
  <2> HIDE DEF q, n
  <2>2. /\ a \o b \in Seq(S) /\ Len(a \o b) = Len(a) + Len(b)
        /\ \A k \in 1 .. Len(a) : (a \o b)[k] = a[k]
        /\ \A k \in 1 .. Len(b) : (a \o b)[Len(a) + k] = b[k]
    <3>1. a \in Seq(S) /\ b \in Seq(S)
      BY <2>1
    <3> QED
      BY ONLY <3>1, ConcatFacts, SMT
  <2> QED
    BY <2>1, <2>2, Zenon DEF q
<1>6. RemoveAt(s, i + 1) = r
  BY <1>4
<1> HIDE DEF r
<1>7. ASSUME NEW k \in 1 .. (n - 1)
      PROVE  r[k] = IF k <= i THEN s[k] ELSE s[k + 1]
  <2>1. CASE k <= i
    BY <1>1, <1>2, <1>5, <2>1
  <2>2. CASE k > i
    <3> DEFINE j == k - i
    <3>1. j \in 1 .. (n - i - 1) /\ i + j = k /\ i + 1 + j = k + 1
      BY <1>1, <2>2
    <3>2. r[i + j] = b[j] /\ b[j] = s[i + 1 + j]
      BY <3>1, <1>3, <1>5, Zenon
    <3> QED
      BY <1>1, <2>2, <3>1, <3>2
  <2> QED
    BY <1>1, <2>1, <2>2
<1>8. Len(r) = n - 1
  BY <1>1, <1>5
<1> QED
  BY <1>5, <1>6, <1>7, <1>8, Zenon

-----------------------------------------------------------------------------
(* Multiples, and what align_up() returns.                                 *)

Multiple(x, a) == x % a = 0

\* The quotient of a multiple.
LEMMA Quotient ==
    ASSUME NEW x \in Int, NEW a \in Nat \ {0}
    PROVE  Multiple(x, a) <=> \E k \in Int : x = a * k
<1>1. ASSUME NEW k \in Int, x = a * k
      PROVE  x % a = 0
  BY <1>1
<1>2. x = a * (x \div a) + (x % a) /\ x \div a \in Int
  OBVIOUS
<1>3. ASSUME x % a = 0
      PROVE  \E k \in Int : x = a * k
  <2>1. x = a * (x \div a)
    BY <1>2, <1>3
  <2> WITNESS x \div a \in Int
  <2> QED
    BY <2>1
<1> QED
  BY <1>1, <1>3 DEF Multiple

LEMMA MultipleSum ==
    ASSUME NEW x \in Int, NEW y \in Int, NEW a \in Nat \ {0},
           Multiple(x, a), Multiple(y, a)
    PROVE  Multiple(x + y, a)
<1> PICK k \in Int : x = a * k
  BY Quotient
<1> PICK l \in Int : y = a * l
  BY Quotient
<1>1. x + y = a * (k + l) /\ k + l \in Int /\ x + y \in Int
  OBVIOUS
<1> QED
  BY <1>1, Quotient

LEMMA MultipleTransitive ==
    ASSUME NEW x \in Int, NEW b \in Nat \ {0}, NEW a \in Nat \ {0},
           Multiple(x, b), Multiple(b, a)
    PROVE  Multiple(x, a)
<1> PICK k \in Int : x = b * k
  BY Quotient
<1>2. b \in Int
  OBVIOUS
<1> PICK l \in Int : b = a * l
  BY <1>2, Quotient
<1>1. x = a * (l * k) /\ l * k \in Int
  OBVIOUS
<1> QED
  BY <1>1, Quotient

\* align_up() rounds up to a multiple, by less than the alignment.
LEMMA AlignUp ==
    ASSUME NEW v \in Nat, NEW a \in Nat \ {0}
    PROVE  /\ align_up(v, a) \in Nat
           /\ v <= align_up(v, a) /\ align_up(v, a) < v + a
           /\ Multiple(align_up(v, a), a)
<1> DEFINE r == (-v) % a
           q == (-v) \div a
<1>1. -v \in Int /\ r \in 0 .. (a - 1) /\ q \in Int /\ -v = a * q + r
  OBVIOUS
<1> HIDE DEF r, q
<1>2. v + r = a * (-q) /\ -q \in Int
  BY <1>1
<1>3. align_up(v, a) = v + r
  BY DEF align_up, r
<1>4. v + r \in Nat /\ v <= v + r /\ v + r < v + a
  BY <1>1
<1>5. Multiple(v + r, a)
  BY <1>2, <1>4, Quotient
<1> QED
  BY <1>3, <1>4, <1>5

\* What the other proofs use of the constants.
LEMMA Consts ==
    /\ HEADER_SIZE \in Nat \ {0} /\ SPLIT_SLACK \in Nat
    /\ DEFAULT_ALIGN \in Nat \ {0} /\ WORD \in Nat \ {0} /\ PAGE_SIZE \in Nat \ {0}
    /\ HEAP_START \in Nat \ {0}
    /\ HEAP_INITIAL_SIZE \in Nat /\ HEAP_INITIAL_SIZE > HEADER_SIZE
    /\ HEAP_MAX_SIZE \in Nat /\ HEAP_MAX_SIZE >= HEAP_INITIAL_SIZE
    /\ Sizes \subseteq Nat /\ Aligns \subseteq Nat
    /\ Multiple(HEADER_SIZE, DEFAULT_ALIGN) /\ Multiple(PAGE_SIZE, DEFAULT_ALIGN)
    /\ Multiple(HEAP_START, DEFAULT_ALIGN) /\ Multiple(HEAP_INITIAL_SIZE, DEFAULT_ALIGN)
<1>1. Sizes \subseteq Nat /\ Aligns \subseteq Nat
  <2>1. USIZE_MAX \in Nat /\ Sizes \subseteq 0 .. USIZE_MAX /\ Aligns \subseteq 0 .. USIZE_MAX
    BY HeapAssumption, Zenon
  <2> QED
    BY <2>1
<1> QED
  BY <1>1, HeapAssumption, LayoutAssumption, Zenon DEF Multiple

-----------------------------------------------------------------------------
(* What holds of a list of headers in a heap that ends at e.               *)

Sorted(s) == \A i, j \in 1 .. Len(s) : i < j => BlockEnd(s[i]) <= s[j].addr

Inside(s, e) ==
    \A i \in 1 .. Len(s) : HEAP_START <= s[i].addr /\ BlockEnd(s[i]) <= e

OnWords(s) == \A i \in 1 .. Len(s) : Multiple(s[i].addr, DEFAULT_ALIGN)

Sound(s, e) ==
    /\ s \in Seq(Block) /\ Len(s) > 0
    /\ Sorted(s) /\ Inside(s, e) /\ OnWords(s)

\* No two free neighbours, the pairs that start at K excepted.
CoalescedBut(s, K) ==
    \A i \in 1 .. (Len(s) - 1) : i \in K \/ ~s[i].is_free \/ ~s[i + 1].is_free

\* The blocks in use.
Used(s) == {s[i] : i \in {j \in 1 .. Len(s) : ~s[j].is_free}}

\* A block's fields, and where it ends.
LEMMA BlockFields ==
    ASSUME NEW b \in Block
    PROVE  /\ b.addr \in Nat /\ b.size \in Nat /\ b.is_free \in BOOLEAN
           /\ HEADER_SIZE \in Nat /\ HEADER_SIZE > 0
           /\ payload_of(b) \in Nat /\ payload_of(b) = b.addr + HEADER_SIZE
           /\ BlockEnd(b) \in Nat /\ BlockEnd(b) = b.addr + HEADER_SIZE + b.size
<1>1. HEADER_SIZE \in Nat /\ HEADER_SIZE > 0
  BY Consts
<1> QED
  BY <1>1 DEF Block, payload_of, BlockEnd

\* The same of a block of a list.
LEMMA BlockFacts ==
    ASSUME NEW s \in Seq(Block), NEW i \in 1 .. Len(s)
    PROVE  /\ s[i] \in Block
           /\ s[i].addr \in Nat /\ s[i].size \in Nat /\ s[i].is_free \in BOOLEAN
           /\ HEADER_SIZE \in Nat /\ HEADER_SIZE > 0
           /\ payload_of(s[i]) \in Nat /\ payload_of(s[i]) = s[i].addr + HEADER_SIZE
           /\ BlockEnd(s[i]) \in Nat /\ BlockEnd(s[i]) = s[i].addr + HEADER_SIZE + s[i].size
<1>1. s[i] \in Block
  OBVIOUS
<1> QED
  BY <1>1, BlockFields, Zenon

\* List m is list s with block i + 1 absorbed by block i.
Absorbed(s, i, m) ==
    /\ m \in Seq(Block) /\ Len(m) = Len(s) - 1
    /\ \A k \in 1 .. (Len(s) - 1) : k < i => m[k] = s[k]
    /\ \A k \in 1 .. (Len(s) - 1) : k > i => m[k] = s[k + 1]
    /\ m[i].addr = s[i].addr /\ m[i].is_free
    /\ BlockEnd(s[i]) + HEADER_SIZE + s[i + 1].size = BlockEnd(m[i])

Merges(s, i) == i < Len(s) /\ s[i].is_free /\ s[i + 1].is_free

LEMMA MergeAbsorbs ==
    ASSUME NEW s \in Seq(Block), NEW i \in 1 .. Len(s), Merges(s, i)
    PROVE  Absorbed(s, i, merge_with_next_if_free(s, i))
<1> DEFINE m == merge_with_next_if_free(s, i)
           z == s[i].size + HEADER_SIZE + s[i + 1].size
           b == [s[i] EXCEPT !.size = z]
           t == [s EXCEPT ![i] = b]
<1>1. Len(s) \in Nat /\ i \in Nat /\ i + 1 \in 1 .. Len(s) /\ i \in 1 .. (Len(s) - 1)
  BY DEF Merges
<1>2. s[i] \in Block /\ s[i + 1] \in Block /\ s[i].is_free
  BY <1>1 DEF Merges
<1>3. m = RemoveAt(t, i + 1)
  BY Zenon DEF merge_with_next_if_free, Merges
<1>11. /\ s[i].size \in Nat /\ s[i + 1].size \in Nat /\ HEADER_SIZE \in Nat /\ s[i].addr \in Nat
       /\ BlockEnd(s[i]) = s[i].addr + HEADER_SIZE + s[i].size
  BY <1>2, BlockFields, Zenon
<1>4. z \in Nat
  BY <1>11
<1> HIDE DEF m, z
<1>5. b \in Block /\ b.addr = s[i].addr /\ b.is_free = s[i].is_free /\ b.size = z
  BY <1>2, <1>4 DEF Block
<1> HIDE DEF b
<1>6. /\ t \in Seq(Block) /\ Len(t) = Len(s)
      /\ \A k \in 1 .. Len(s) : t[k] = IF k = i THEN b ELSE s[k]
  BY <1>5, ChangeFacts
<1> HIDE DEF t
<1>7. /\ m \in Seq(Block) /\ Len(m) = Len(t) - 1
      /\ \A k \in 1 .. (Len(t) - 1) : m[k] = IF k <= i THEN t[k] ELSE t[k + 1]
  <2>1. i \in 1 .. (Len(t) - 1)
    BY <1>1, <1>6
  <2> QED
    BY <1>3, <1>6, <2>1, RemoveFacts, Zenon
<1>8. /\ \A k \in 1 .. (Len(s) - 1) : k < i => m[k] = s[k]
      /\ m[i] = b
      /\ \A k \in 1 .. (Len(s) - 1) : k > i => m[k] = s[k + 1]
  <2>1. ASSUME NEW k \in 1 .. (Len(s) - 1)
        PROVE  /\ m[k] = IF k <= i THEN t[k] ELSE t[k + 1]
               /\ k \in 1 .. Len(s) /\ k + 1 \in 1 .. Len(s)
    BY <1>1, <1>6, <1>7
  <2> QED
    BY <1>1, <1>6, <2>1
<1>9. BlockEnd(s[i]) + HEADER_SIZE + s[i + 1].size = BlockEnd(b)
  <2>1. BlockEnd(b) = b.addr + HEADER_SIZE + b.size
    BY <1>5, BlockFields, Zenon
  <2> QED
    BY <1>5, <1>11, <2>1 DEF z
<1> QED
  BY <1>2, <1>5, <1>6, <1>7, <1>8, <1>9 DEF Absorbed, m

\* A block that absorbs its free successor keeps the list sorted, in bounds
\* and on whole words, and no block in use is touched.
LEMMA AbsorbedSound ==
    ASSUME NEW s, NEW e \in Nat, Sound(s, e), NEW i \in 1 .. Len(s), Merges(s, i),
           NEW m, Absorbed(s, i, m)
    PROVE  Sound(m, e) /\ Used(m) = Used(s)
<1>0. s \in Seq(Block) /\ Len(s) \in Nat /\ i \in Nat /\ Len(m) = Len(s) - 1 /\ m \in Seq(Block)
  BY DEF Sound, Absorbed
<1>1. i + 1 \in 1 .. Len(s) /\ i \in 1 .. Len(m)
  BY <1>0 DEF Merges
<1>2. BlockEnd(s[i]) <= s[i + 1].addr
  BY <1>0, <1>1 DEF Sound, Sorted
<1>3. BlockEnd(m[i]) <= BlockEnd(s[i + 1]) /\ m[i].addr = s[i].addr
  <2>1. s[i] \in Block /\ s[i + 1] \in Block
    BY <1>0, <1>1
  <2>2. /\ BlockEnd(s[i]) \in Nat /\ s[i + 1].addr \in Nat /\ s[i + 1].size \in Nat /\ HEADER_SIZE \in Nat
        /\ BlockEnd(s[i + 1]) = s[i + 1].addr + HEADER_SIZE + s[i + 1].size
    BY <2>1, BlockFields, Zenon
  <2>3. m[i].addr = s[i].addr /\ BlockEnd(s[i]) + HEADER_SIZE + s[i + 1].size = BlockEnd(m[i])
    BY DEF Absorbed
  <2> QED
    BY <1>2, <2>2, <2>3
<1> DEFINE f(k) == IF k <= i THEN k ELSE k + 1
           g(k) == IF k < i THEN k ELSE k + 1
\* Block k of m starts where block f(k) of s starts, and ends where block g(k) does
\* at the latest.
<1>4. ASSUME NEW k \in 1 .. Len(m)
      PROVE  /\ f(k) \in 1 .. Len(s) /\ m[k].addr = s[f(k)].addr
             /\ g(k) \in 1 .. Len(s) /\ BlockEnd(m[k]) <= BlockEnd(s[g(k)])
             /\ m[k].addr \in Nat /\ BlockEnd(m[k]) \in Nat
             /\ s[f(k)].addr \in Nat /\ BlockEnd(s[g(k)]) \in Nat
  <2>1. f(k) \in 1 .. Len(s) /\ g(k) \in 1 .. Len(s)
    BY <1>0
  <2>2. s[f(k)] \in Block /\ s[g(k)] \in Block /\ m[k] \in Block
    BY <1>0, <2>1
  <2>3. /\ m[k].addr \in Nat /\ BlockEnd(m[k]) \in Nat
        /\ s[f(k)].addr \in Nat /\ BlockEnd(s[g(k)]) \in Nat
    BY <2>2, BlockFields
  <2>4. CASE k = i
    BY <1>0, <1>3, <2>1, <2>3, <2>4
  <2>5. CASE k # i
    <3>1. m[k] = s[f(k)] /\ f(k) = g(k)
      BY <1>0, <2>5 DEF Absorbed
    <3> QED
      BY <2>1, <2>3, <3>1
  <2> QED
    BY <2>4, <2>5
<1>5. Sorted(m)
  <2> SUFFICES ASSUME NEW j \in 1 .. Len(m), NEW k \in 1 .. Len(m), j < k
               PROVE  BlockEnd(m[j]) <= m[k].addr
    BY DEF Sorted
  <2>1. g(j) < f(k)
    BY <1>0
  <2>2. BlockEnd(s[g(j)]) <= s[f(k)].addr
    BY <1>4, <2>1 DEF Sound, Sorted
  <2>3. /\ BlockEnd(m[j]) <= BlockEnd(s[g(j)]) /\ m[k].addr = s[f(k)].addr
        /\ BlockEnd(m[j]) \in Nat /\ BlockEnd(s[g(j)]) \in Nat
        /\ m[k].addr \in Nat
    BY <1>4, Zenon
  <2> HIDE DEF f, g
  <2> QED
    BY <2>2, <2>3
<1>6. Inside(m, e) /\ OnWords(m)
  <2> SUFFICES ASSUME NEW k \in 1 .. Len(m)
               PROVE  HEAP_START <= m[k].addr /\ BlockEnd(m[k]) <= e /\ Multiple(m[k].addr, DEFAULT_ALIGN)
    BY DEF Inside, OnWords
  <2>1. HEAP_START <= s[f(k)].addr /\ BlockEnd(s[g(k)]) <= e /\ Multiple(s[f(k)].addr, DEFAULT_ALIGN)
    BY <1>4, Zenon DEF Sound, Inside, OnWords
  <2> HIDE DEF f, g
  <2> QED
    BY <1>4, <2>1
<1>7. Used(m) = Used(s)
  <2>1. ASSUME NEW k \in 1 .. Len(m), ~m[k].is_free
        PROVE  m[k] \in Used(s)
    BY <1>0, <2>1 DEF Absorbed, Used
  <2>2. ASSUME NEW k \in 1 .. Len(s), ~s[k].is_free
        PROVE  s[k] \in Used(m)
    <3> DEFINE j == IF k < i THEN k ELSE k - 1
    <3>1. k # i /\ k # i + 1
      BY <2>2 DEF Merges
    <3>2. j \in 1 .. Len(m) /\ m[j] = s[k]
      <4>1. CASE k < i
        BY <1>0, <1>1, <4>1 DEF Absorbed
      <4>2. CASE k > i + 1
        <5>1. k - 1 \in 1 .. (Len(s) - 1) /\ k - 1 > i /\ (k - 1) + 1 = k /\ j = k - 1
          BY <1>0, <1>1, <4>2
        <5>2. m[k - 1] = s[(k - 1) + 1]
          BY <5>1, Zenon DEF Absorbed
        <5> QED
          BY <1>0, <5>1, <5>2
      <4> QED
        BY <1>0, <3>1, <4>1, <4>2
    <3> HIDE DEF j
    <3> QED
      BY <2>2, <3>2 DEF Used
  <2> QED
    BY <2>1, <2>2 DEF Used
<1> QED
  BY <1>0, <1>1, <1>5, <1>6, <1>7 DEF Sound

\* Once the pair at i is merged, it is no exception any more: the block after
\* the absorbed one was in use, or its pair would have been an exception too.
LEMMA AbsorbedCoalesced ==
    ASSUME NEW s \in Seq(Block), NEW i \in 1 .. Len(s), Merges(s, i),
           NEW m, Absorbed(s, i, m), NEW j \in Int, j < i, CoalescedBut(s, {j, i})
    PROVE  CoalescedBut(m, {j})
<1>0. Len(s) \in Nat /\ i \in Nat /\ Len(m) = Len(s) - 1 /\ i < Len(s)
  BY DEF Absorbed, Merges
<1>1. /\ \A k \in 1 .. (Len(s) - 1) : k < i => m[k] = s[k]
      /\ \A k \in 1 .. (Len(s) - 1) : k > i => m[k] = s[k + 1]
      /\ s[i].is_free /\ s[i + 1].is_free
  BY DEF Absorbed, Merges
<1>2. \A k \in 1 .. (Len(s) - 1) : k = j \/ k = i \/ ~s[k].is_free \/ ~s[k + 1].is_free
  BY DEF CoalescedBut
<1> SUFFICES ASSUME NEW k \in 1 .. (Len(m) - 1), k # j
             PROVE  ~m[k].is_free \/ ~m[k + 1].is_free
  BY DEF CoalescedBut
<1>3. k \in 1 .. (Len(s) - 1) /\ k + 1 \in 1 .. (Len(s) - 1)
  BY <1>0
<1>4. CASE k + 1 < i
  BY <1>0, <1>1, <1>2, <1>3, <1>4
<1>5. CASE k + 1 = i
  <2>1. ~s[k].is_free /\ m[k] = s[k]
    BY <1>0, <1>1, <1>2, <1>3, <1>5
  <2> QED
    BY <2>1
<1>6. CASE k >= i
  <2>1. m[k + 1] = s[(k + 1) + 1] /\ (k > i => m[k] = s[k + 1])
    BY <1>0, <1>1, <1>3, <1>6
  <2>2. ~s[k + 1].is_free \/ ~s[(k + 1) + 1].is_free
    BY <1>0, <1>2, <1>3, <1>6
  <2>3. CASE k = i
    BY <1>1, <2>1, <2>2, <2>3
  <2>4. CASE k > i
    BY <2>1, <2>2, <2>4
  <2> QED
    BY <1>0, <1>6, <2>3, <2>4
<1> QED
  BY <1>0, <1>4, <1>5, <1>6

\* All that merge_with_next_if_free() does.
LEMMA MergeFacts ==
    ASSUME NEW s, NEW e \in Nat, Sound(s, e), NEW i \in 1 .. Len(s), NEW j \in Int, j < i
    PROVE  /\ Sound(merge_with_next_if_free(s, i), e)
           /\ Used(merge_with_next_if_free(s, i)) = Used(s)
           /\ Len(merge_with_next_if_free(s, i)) >= i
           /\ CoalescedBut(s, {j, i}) => CoalescedBut(merge_with_next_if_free(s, i), {j})
<1> DEFINE m == merge_with_next_if_free(s, i)
<1>0. s \in Seq(Block) /\ Len(s) \in Nat /\ i \in Nat
  BY DEF Sound
<1>1. CASE Merges(s, i)
  <2>1. Absorbed(s, i, m)
    BY <1>0, <1>1, MergeAbsorbs
  <2> HIDE DEF m
  <2>2. Sound(m, e) /\ Used(m) = Used(s)
    BY <1>1, <2>1, AbsorbedSound
  <2>3. Len(m) >= i
    BY <1>0, <1>1, <2>1 DEF Absorbed, Merges
  <2>4. CoalescedBut(s, {j, i}) => CoalescedBut(m, {j})
    BY <1>0, <1>1, <2>1, AbsorbedCoalesced
  <2> QED
    BY <2>2, <2>3, <2>4 DEF m
<1>2. CASE ~Merges(s, i)
  <2>1. m = s
    BY <1>2, Zenon DEF merge_with_next_if_free, Merges
  <2> HIDE DEF m
  <2>2. CoalescedBut(s, {j, i}) => CoalescedBut(s, {j})
    BY <1>0, <1>2 DEF CoalescedBut, Merges
  <2> QED
    BY <1>0, <2>1, <2>2 DEF m
<1> QED
  BY <1>1, <1>2

\* No two blocks start at one address.
LEMMA AddrUnique ==
    ASSUME NEW s, NEW e, Sound(s, e), NEW i \in 1 .. Len(s), NEW j \in 1 .. Len(s),
           s[i].addr = s[j].addr
    PROVE  i = j
<1>0. s \in Seq(Block) /\ Len(s) \in Nat
  BY DEF Sound
<1>1. ASSUME NEW k \in 1 .. Len(s), NEW l \in 1 .. Len(s), k < l
      PROVE  s[k].addr # s[l].addr
  <2>1. /\ s[k].addr \in Nat /\ s[k].size \in Nat /\ s[l].addr \in Nat
        /\ HEADER_SIZE \in Nat /\ HEADER_SIZE > 0
        /\ BlockEnd(s[k]) = s[k].addr + HEADER_SIZE + s[k].size
    BY <1>0, BlockFacts, Zenon
  <2>2. BlockEnd(s[k]) <= s[l].addr
    BY <1>1 DEF Sound, Sorted
  <2> QED
    BY <2>1, <2>2
<1> QED
  BY <1>0, <1>1

\* The list with block i marked free.
LEMMA FreedFacts ==
    ASSUME NEW s, NEW e, Sound(s, e), CoalescedBut(s, {}), NEW i \in 1 .. Len(s), ~s[i].is_free
    PROVE  LET t == [s EXCEPT ![i] = [s[i] EXCEPT !.is_free = TRUE]]
           IN  Sound(t, e) /\ Len(t) = Len(s) /\ Used(t) = Used(s) \ {s[i]} /\ CoalescedBut(t, {i - 1, i})
<1> DEFINE b == [s[i] EXCEPT !.is_free = TRUE]
           t == [s EXCEPT ![i] = b]
<1>0. s \in Seq(Block) /\ Len(s) \in Nat /\ i \in Nat /\ Len(s) > 0
  BY DEF Sound
<1>1. s[i] \in Block
  BY <1>0
<1>2. b \in Block /\ b.addr = s[i].addr /\ b.size = s[i].size /\ b.is_free
  BY <1>1 DEF Block
<1>3. BlockEnd(b) = BlockEnd(s[i])
  BY <1>2 DEF BlockEnd
<1> HIDE DEF b
<1>4. /\ t \in Seq(Block) /\ Len(t) = Len(s)
      /\ \A k \in 1 .. Len(s) : t[k] = IF k = i THEN b ELSE s[k]
  BY <1>0, <1>2, ChangeFacts
<1> HIDE DEF t
<1>5. \A k \in 1 .. Len(s) : t[k].addr = s[k].addr /\ BlockEnd(t[k]) = BlockEnd(s[k])
  BY <1>2, <1>3, <1>4
<1>6. Sorted(t) /\ Inside(t, e) /\ OnWords(t)
  BY <1>4, <1>5 DEF Sound, Sorted, Inside, OnWords
<1>7. Used(t) = Used(s) \ {s[i]}
  <2>1. ASSUME NEW k \in 1 .. Len(s), s[k] = s[i]
        PROVE  k = i
    BY <2>1, AddrUnique
  <2>2. ASSUME NEW k \in 1 .. Len(t), ~t[k].is_free
        PROVE  t[k] \in Used(s) \ {s[i]}
    BY <1>2, <1>4, <2>1, <2>2 DEF Used
  <2>3. ASSUME NEW k \in 1 .. Len(s), ~s[k].is_free, s[k] # s[i]
        PROVE  s[k] \in Used(t)
    BY <1>4, <2>3 DEF Used
  <2> QED
    BY <2>2, <2>3 DEF Used
<1>8. CoalescedBut(t, {i - 1, i})
  <2> SUFFICES ASSUME NEW k \in 1 .. (Len(t) - 1), k # i - 1, k # i
               PROVE  ~t[k].is_free \/ ~t[k + 1].is_free
    BY DEF CoalescedBut
  <2>1. k \in 1 .. Len(s) /\ k + 1 \in 1 .. Len(s) /\ k + 1 # i /\ k \in 1 .. (Len(s) - 1)
    BY <1>0, <1>4
  <2>2. t[k] = s[k] /\ t[k + 1] = s[k + 1]
    BY <1>4, <2>1
  <2> QED
    BY <2>1, <2>2 DEF CoalescedBut
<1> QED
  BY <1>0, <1>4, <1>6, <1>7, <1>8 DEF Sound, t, b

\* All that deallocate() does to the list: the block is out of use, and the
\* two merges are enough to coalesce it.
LEMMA DeallocateFacts ==
    ASSUME NEW s, NEW e \in Nat, Sound(s, e), CoalescedBut(s, {}),
           NEW i \in 1 .. Len(s), ~s[i].is_free
    PROVE  /\ Sound(deallocate(s, i), e)
           /\ CoalescedBut(deallocate(s, i), {})
           /\ Used(deallocate(s, i)) = Used(s) \ {s[i]}
<1> DEFINE t == [s EXCEPT ![i] = [s[i] EXCEPT !.is_free = TRUE]]
           m == merge_with_next_if_free(t, i)
           r == merge_with_next_if_free(m, i - 1)
<1>0. s \in Seq(Block) /\ Len(s) \in Nat /\ i \in Int
  BY DEF Sound
<1>1. deallocate(s, i) = IF i - 1 = 0 THEN m ELSE r
  BY Zenon DEF deallocate, find_predecessor
<1>2. Sound(t, e) /\ Len(t) = Len(s) /\ Used(t) = Used(s) \ {s[i]} /\ CoalescedBut(t, {i - 1, i})
  BY FreedFacts, Zenon
<1> HIDE DEF t
<1>3. Sound(m, e) /\ Used(m) = Used(t) /\ Len(m) >= i /\ CoalescedBut(m, {i - 1})
  <2>1. i \in 1 .. Len(t) /\ i - 1 \in Int /\ i - 1 < i
    BY <1>0, <1>2
  <2> QED
    BY <1>2, <2>1, MergeFacts, Zenon
<1> HIDE DEF m
<1>4. CASE i - 1 = 0
  <2>1. CoalescedBut(m, {})
    BY <1>3, <1>4 DEF CoalescedBut
  <2> QED
    BY <1>1, <1>2, <1>3, <1>4, <2>1
<1>5. CASE i - 1 # 0
  <2>1. i - 1 \in 1 .. Len(m) /\ 0 \in Int /\ 0 < i - 1
    <3>1. Len(m) \in Nat
      BY <1>3 DEF Sound
    <3> QED
      BY <1>0, <1>3, <1>5, <3>1
  <2>2. CoalescedBut(m, {0, i - 1})
    BY <1>3 DEF CoalescedBut
  <2>3. Sound(r, e) /\ Used(r) = Used(m) /\ CoalescedBut(r, {0})
    BY <1>3, <2>1, <2>2, MergeFacts, Zenon
  <2> HIDE DEF r
  <2>4. CoalescedBut(r, {})
    BY <2>3 DEF CoalescedBut
  <2> QED
    BY <1>1, <1>2, <1>3, <1>5, <2>3, <2>4
<1> QED
  BY <1>4, <1>5

\* The list with free block i taken: cut if worthwhile, then marked in use.
Taken(s, i, needed) ==
    LET list == split_if_worthwhile(s, i, needed)
    IN  [list EXCEPT ![i] = [@ EXCEPT !.is_free = FALSE]]

\* List t is list s with block i in use and its rest, a free block, after it.
Cut(s, i, needed, t) ==
    /\ t \in Seq(Block) /\ Len(t) = Len(s) + 1
    /\ \A k \in 1 .. (Len(s) + 1) : k < i => t[k] = s[k]
    /\ \A k \in 1 .. (Len(s) + 1) : k > i + 1 => t[k] = s[k - 1]
    /\ t[i].addr = s[i].addr /\ t[i].size = needed /\ ~t[i].is_free
    /\ t[i + 1].addr = s[i].addr + HEADER_SIZE + needed
    /\ t[i + 1].is_free /\ BlockEnd(t[i + 1]) = BlockEnd(s[i])

Splits(s, i, needed) == s[i].size > needed + MIN_SPLIT_REMAINDER

LEMMA SplitCuts ==
    ASSUME NEW s \in Seq(Block), NEW i \in 1 .. Len(s), NEW needed \in Nat,
           Splits(s, i, needed)
    PROVE  Cut(s, i, needed, Taken(s, i, needed))
<1> DEFINE n == Len(s)
           z == s[i].size - needed - HEADER_SIZE
           p == payload_of(s[i]) + needed
           rest == [addr |-> p, size |-> z, is_free |-> TRUE]
           b == [s[i] EXCEPT !.size = needed]
           c == [b EXCEPT !.is_free = FALSE]
           u == [s EXCEPT ![i] = b]
           v == InsertAt(u, i + 1, rest)
           t == [v EXCEPT ![i] = c]
<1>1. n \in Nat /\ i \in Nat /\ i \in 1 .. n /\ s[i] \in Block
  OBVIOUS
<1>2. /\ s[i].size \in Nat /\ s[i].addr \in Nat /\ HEADER_SIZE \in Nat /\ SPLIT_SLACK \in Nat
      /\ BlockEnd(s[i]) = s[i].addr + HEADER_SIZE + s[i].size
      /\ payload_of(s[i]) = s[i].addr + HEADER_SIZE
  BY <1>1, BlockFields, Consts, Zenon
<1>3. p \in Nat /\ z \in Nat /\ p = s[i].addr + HEADER_SIZE + needed /\ p + HEADER_SIZE + z = BlockEnd(s[i])
  <2> DEFINE sz == s[i].size
             ad == s[i].addr
  <2>1. sz \in Nat /\ ad \in Nat /\ sz > needed + HEADER_SIZE + SPLIT_SLACK
    BY <1>2 DEF Splits, MIN_SPLIT_REMAINDER
  <2>2. /\ z = sz - needed - HEADER_SIZE /\ p = (ad + HEADER_SIZE) + needed
        /\ BlockEnd(s[i]) = ad + HEADER_SIZE + sz
    BY <1>2
  <2> HIDE DEF sz, ad, z, p
  <2>3. p \in Nat /\ z \in Nat /\ p = ad + HEADER_SIZE + needed /\ p + HEADER_SIZE + z = BlockEnd(s[i])
    BY <1>2, <2>1, <2>2
  <2> QED
    BY <2>3 DEF ad
<1>4. split_if_worthwhile(s, i, needed) = v
  <2>1. ~(s[i].size <= needed + MIN_SPLIT_REMAINDER)
    BY <1>2 DEF Splits, MIN_SPLIT_REMAINDER
  <2> QED
    BY <2>1, Zenon DEF split_if_worthwhile
<1> HIDE DEF p, z
<1>5. /\ rest \in Block /\ rest.addr = p /\ rest.is_free /\ BlockEnd(rest) = BlockEnd(s[i])
  BY <1>3 DEF Block, BlockEnd
<1> HIDE DEF rest
<1>6. b \in Block /\ b.addr = s[i].addr /\ b.size = needed
  BY <1>1 DEF Block
<1> HIDE DEF b
<1>7. c \in Block /\ c.addr = s[i].addr /\ c.size = needed /\ ~c.is_free
  BY <1>6 DEF Block
<1> HIDE DEF c
<1>8. /\ u \in Seq(Block) /\ Len(u) = n
      /\ \A k \in 1 .. n : u[k] = IF k = i THEN b ELSE s[k]
  BY <1>1, <1>6, ChangeFacts
<1> HIDE DEF u
<1>9. /\ v \in Seq(Block) /\ Len(v) = n + 1
      /\ \A k \in 1 .. (n + 1) :
            (k <= i => v[k] = u[k]) /\ (k = i + 1 => v[k] = rest) /\ (k > i + 1 => v[k] = u[k - 1])
  <2>1. i \in 1 .. Len(u) /\ u \in Seq(Block) /\ rest \in Block
    BY <1>5, <1>8
  <2>2. /\ v \in Seq(Block) /\ Len(v) = Len(u) + 1
        /\ \A k \in 1 .. (Len(u) + 1) :
              (k <= i => v[k] = u[k]) /\ (k = i + 1 => v[k] = rest) /\ (k > i + 1 => v[k] = u[k - 1])
    <3>1. v = InsertAt(u, i + 1, rest)
      OBVIOUS
    <3> HIDE DEF v
    <3>2. /\ InsertAt(u, i + 1, rest) \in Seq(Block)
          /\ Len(InsertAt(u, i + 1, rest)) = Len(u) + 1
      BY ONLY <2>1, InsertFacts
    <3>3. \A k \in 1 .. (Len(u) + 1) :
             /\ k <= i => InsertAt(u, i + 1, rest)[k] = u[k]
             /\ k = i + 1 => InsertAt(u, i + 1, rest)[k] = rest
             /\ k > i + 1 => InsertAt(u, i + 1, rest)[k] = u[k - 1]
      BY ONLY <2>1, InsertFacts
    <3> QED
      BY <3>1, <3>2, <3>3, Zenon
  <2> QED
    BY <1>8, <2>2, Zenon
<1>10. v[i] = b
  BY <1>1, <1>8, <1>9
<1>11. Taken(s, i, needed) = t
  <2>1. Taken(s, i, needed) = [v EXCEPT ![i] = [v[i] EXCEPT !.is_free = FALSE]]
    BY <1>4, Zenon DEF Taken
  <2> QED
    BY <1>10, <2>1 DEF c
<1> HIDE DEF v
<1>12. /\ t \in Seq(Block) /\ Len(t) = n + 1
       /\ \A k \in 1 .. (n + 1) : t[k] = IF k = i THEN c ELSE v[k]
  <2>1. i \in 1 .. Len(v)
    BY <1>1, <1>9
  <2> QED
    BY <1>7, <1>9, <2>1, ChangeFacts
<1> HIDE DEF t, n
<1>13. /\ \A k \in 1 .. (n + 1) : k < i => t[k] = s[k]
       /\ \A k \in 1 .. (n + 1) : k > i + 1 => t[k] = s[k - 1]
       /\ t[i] = c /\ t[i + 1] = rest
  <2>1. ASSUME NEW k \in 1 .. (n + 1), k < i
        PROVE  t[k] = s[k]
    <3>1. k \in 1 .. n /\ k # i /\ k <= i
      BY <1>1, <2>1
    <3> QED
      BY <1>8, <1>9, <1>12, <3>1, Zenon
  <2>2. ASSUME NEW k \in 1 .. (n + 1), k > i + 1
        PROVE  t[k] = s[k - 1]
    <3>1. k - 1 \in 1 .. n /\ k - 1 # i /\ ~(k <= i) /\ k # i + 1 /\ k # i
      BY <1>1, <2>2
    <3>2. t[k] = v[k] /\ v[k] = u[k - 1] /\ u[k - 1] = s[k - 1]
      BY <1>8, <1>9, <1>12, <2>2, <3>1
    <3> QED
      BY <3>2
  <2>3. t[i] = c /\ t[i + 1] = rest
    BY <1>1, <1>9, <1>12
  <2> QED
    BY <2>1, <2>2, <2>3
<1> QED
  BY <1>3, <1>5, <1>7, <1>11, <1>12, <1>13 DEF Cut, n

\* List t has one block more in use than list s: nb, of at least `needed`
\* bytes, which starts where no block of s in use does.
Gains(s, t, e, nb, needed) ==
    /\ Sound(t, e) /\ CoalescedBut(t, {})
    /\ nb \in Block /\ ~nb.is_free /\ nb.size >= needed
    /\ Used(t) = Used(s) \cup {nb}
    /\ \A u \in Used(s) : u.addr # nb.addr

\* A cut keeps the list sorted, in bounds, on whole words and coalesced.
LEMMA CutFacts ==
    ASSUME NEW s, NEW e \in Nat, Sound(s, e), CoalescedBut(s, {}), NEW i \in 1 .. Len(s),
           NEW needed \in Nat, Multiple(needed, DEFAULT_ALIGN), s[i].is_free, Splits(s, i, needed),
           NEW t, Cut(s, i, needed, t)
    PROVE  Gains(s, t, e, t[i], needed) /\ t[i].addr = s[i].addr
<1>0. /\ s \in Seq(Block) /\ Len(s) \in Nat /\ i \in Nat
      /\ t \in Seq(Block) /\ Len(t) = Len(s) + 1
      /\ HEADER_SIZE \in Nat /\ HEADER_SIZE > 0 /\ HEAP_START \in Nat
  BY Consts DEF Sound, Cut
<1>1. i \in 1 .. Len(t) /\ i + 1 \in 1 .. Len(t)
  BY <1>0
<1>2. s[i] \in Block /\ t[i] \in Block /\ t[i + 1] \in Block
  BY <1>0, <1>1
<1>3. /\ BlockEnd(t[i]) = t[i + 1].addr /\ BlockEnd(t[i + 1]) = BlockEnd(s[i])
      /\ t[i + 1].addr = s[i].addr + HEADER_SIZE + needed
      /\ t[i].addr = s[i].addr /\ s[i].addr \in Nat
      /\ t[i + 1].addr \in Nat /\ BlockEnd(s[i]) \in Nat /\ BlockEnd(t[i]) <= BlockEnd(s[i])
  <2>1. /\ t[i].addr = s[i].addr /\ t[i].size = needed
        /\ t[i + 1].addr = s[i].addr + HEADER_SIZE + needed
        /\ BlockEnd(t[i + 1]) = BlockEnd(s[i])
    BY DEF Cut
  <2>2. /\ BlockEnd(t[i]) = t[i].addr + HEADER_SIZE + t[i].size
        /\ BlockEnd(t[i + 1]) = t[i + 1].addr + HEADER_SIZE + t[i + 1].size
        /\ t[i + 1].addr \in Nat /\ t[i + 1].size \in Nat /\ BlockEnd(s[i]) \in Nat /\ s[i].addr \in Nat
    BY <1>2, BlockFields, Zenon
  <2> QED
    BY <1>0, <2>1, <2>2, SMTT(30)
<1> DEFINE h(k) == IF k <= i THEN k ELSE k - 1
\* Block k of t lies within block h(k) of s.
<1>4. ASSUME NEW k \in 1 .. Len(t)
      PROVE  /\ h(k) \in 1 .. Len(s)
             /\ s[h(k)].addr \in Nat /\ BlockEnd(s[h(k)]) \in Nat
             /\ t[k].addr \in Nat /\ BlockEnd(t[k]) \in Nat
             /\ s[h(k)].addr <= t[k].addr /\ BlockEnd(t[k]) <= BlockEnd(s[h(k)])
             /\ k # i /\ k # i + 1 => t[k] = s[h(k)]
  <2>1. h(k) \in 1 .. Len(s)
    BY <1>0
  <2>2. /\ s[h(k)].addr \in Nat /\ BlockEnd(s[h(k)]) \in Nat
        /\ t[k].addr \in Nat /\ BlockEnd(t[k]) \in Nat
    BY <1>0, <2>1, BlockFacts, Zenon
  <2>3. CASE k = i
    BY <1>0, <1>3, <2>1, <2>2, <2>3
  <2>4. CASE k = i + 1
    <3>1. h(k) = i
      BY <1>0, <2>4
    <3> QED
      BY <1>0, <1>3, <2>1, <2>2, <2>4, <3>1
  <2>5. CASE k # i /\ k # i + 1
    <3>1. t[k] = s[h(k)]
      BY <1>0, <2>5 DEF Cut
    <3> HIDE DEF h
    <3> QED
      BY <2>1, <2>2, <3>1
  <2> QED
    BY <2>3, <2>4, <2>5
<1>5. Sorted(t)
  <2> SUFFICES ASSUME NEW j \in 1 .. Len(t), NEW k \in 1 .. Len(t), j < k
               PROVE  BlockEnd(t[j]) <= t[k].addr
    BY DEF Sorted
  <2>1. CASE j = i /\ k = i + 1
    BY <1>3, <2>1
  <2>2. CASE ~(j = i /\ k = i + 1)
    <3>1. h(j) < h(k)
      BY <1>0, <2>2
    <3>2. BlockEnd(s[h(j)]) <= s[h(k)].addr
      BY <1>4, <3>1 DEF Sound, Sorted
    <3>3. /\ BlockEnd(t[j]) \in Nat /\ BlockEnd(s[h(j)]) \in Nat /\ BlockEnd(t[j]) <= BlockEnd(s[h(j)])
          /\ t[k].addr \in Nat /\ s[h(k)].addr \in Nat /\ s[h(k)].addr <= t[k].addr
      BY <1>4, Zenon
    <3> HIDE DEF h
    <3> QED
      BY <3>2, <3>3
  <2> QED
    BY <2>1, <2>2
<1>6. Inside(t, e)
  <2> SUFFICES ASSUME NEW k \in 1 .. Len(t)
               PROVE  HEAP_START <= t[k].addr /\ BlockEnd(t[k]) <= e
    BY DEF Inside
  <2>1. HEAP_START <= s[h(k)].addr /\ BlockEnd(s[h(k)]) <= e
    BY <1>4, Zenon DEF Sound, Inside
  <2>2. /\ BlockEnd(t[k]) \in Nat /\ BlockEnd(s[h(k)]) \in Nat /\ BlockEnd(t[k]) <= BlockEnd(s[h(k)])
        /\ t[k].addr \in Nat /\ s[h(k)].addr \in Nat /\ s[h(k)].addr <= t[k].addr
    BY <1>4, Zenon
  <2> HIDE DEF h
  <2> QED
    BY <1>0, <2>1, <2>2, SMTT(30)
<1>7. OnWords(t)
  <2> SUFFICES ASSUME NEW k \in 1 .. Len(t)
               PROVE  Multiple(t[k].addr, DEFAULT_ALIGN)
    BY DEF OnWords
  <2>1. Multiple(s[h(k)].addr, DEFAULT_ALIGN) /\ Multiple(s[i].addr, DEFAULT_ALIGN)
    BY <1>4, Zenon DEF Sound, OnWords
  <2>2. CASE k # i + 1
    <3>1. k # i => t[k] = s[h(k)]
      BY <1>4, <2>2, Zenon
    <3>2. k = i => h(k) = k
      BY <1>0
    <3> HIDE DEF h
    <3>3. t[k].addr = s[h(k)].addr
      BY <1>3, <3>1, <3>2, Zenon
    <3> QED
      BY <2>1, <3>3, Zenon
  <2>3. CASE k = i + 1
    <3>0. /\ Multiple(HEADER_SIZE, DEFAULT_ALIGN) /\ DEFAULT_ALIGN \in Nat \ {0}
      BY Consts, Zenon
    <3>4. s[i].addr \in Int /\ HEADER_SIZE \in Int /\ needed \in Int /\ s[i].addr + HEADER_SIZE \in Int
      BY <1>0, <1>3
    <3>1. Multiple(s[i].addr + HEADER_SIZE, DEFAULT_ALIGN)
      BY <2>1, <3>0, <3>4, MultipleSum, Zenon
    <3>2. Multiple((s[i].addr + HEADER_SIZE) + needed, DEFAULT_ALIGN)
      BY <3>0, <3>1, <3>4, MultipleSum, Zenon
    <3> QED
      BY <1>3, <2>3, <3>2
  <2> QED
    BY <2>2, <2>3
<1>8. Sound(t, e)
  BY <1>0, <1>5, <1>6, <1>7 DEF Sound
<1>9. CoalescedBut(t, {})
  <2> SUFFICES ASSUME NEW k \in 1 .. (Len(t) - 1)
               PROVE  ~t[k].is_free \/ ~t[k + 1].is_free
    BY DEF CoalescedBut
  <2>1. ~t[i].is_free
    BY DEF Cut
  <2>2. CASE k = i \/ k + 1 = i
    BY <2>1, <2>2
  <2>3. CASE k = i + 1
    <3>1. i \in 1 .. (Len(s) - 1) /\ t[k + 1] = s[i + 1]
      <4>1. k + 1 \in 1 .. (Len(s) + 1) /\ k + 1 > i + 1 /\ (k + 1) - 1 = i + 1 /\ i \in 1 .. (Len(s) - 1)
        BY <1>0, <2>3
      <4>2. t[k + 1] = s[(k + 1) - 1]
        BY <4>1, Zenon DEF Cut
      <4> QED
        BY <4>1, <4>2
    <3> QED
      BY <3>1 DEF CoalescedBut
  <2>4. CASE k # i /\ k + 1 # i /\ k # i + 1
    <3>1. /\ k \in 1 .. Len(t) /\ k + 1 \in 1 .. Len(t) /\ k + 1 # i + 1
          /\ h(k) \in 1 .. (Len(s) - 1) /\ h(k + 1) = h(k) + 1
      BY <1>0, <2>4
    <3>2. t[k] = s[h(k)] /\ t[k + 1] = s[h(k + 1)]
      BY <1>4, <2>4, <3>1
    <3> HIDE DEF h
    <3> QED
      BY <3>1, <3>2 DEF CoalescedBut
  <2> QED
    BY <2>2, <2>3, <2>4
<1>10. Used(t) = Used(s) \cup {t[i]}
  <2>0. ~t[i].is_free /\ t[i + 1].is_free
    BY DEF Cut
  <2>1. ASSUME NEW k \in 1 .. Len(t), ~t[k].is_free
        PROVE  t[k] \in Used(s) \cup {t[i]}
    <3>1. CASE k = i
      BY <3>1
    <3>2. CASE k # i
      <4>1. h(k) \in 1 .. Len(s) /\ t[k] = s[h(k)]
        BY <1>4, <2>0, <2>1, <3>2
      <4> HIDE DEF h
      <4> QED
        BY <2>1, <4>1 DEF Used
    <3> QED
      BY <3>1, <3>2
  <2>2. ASSUME NEW k \in 1 .. Len(s), ~s[k].is_free
        PROVE  s[k] \in Used(t)
    <3> DEFINE j == IF k < i THEN k ELSE k + 1
    <3>1. k # i
      BY <2>2
    <3>2. j \in 1 .. Len(t) /\ j # i /\ j # i + 1 /\ h(j) = k
      BY <1>0, <3>1
    <3>3. t[j] = s[k]
      BY <1>4, <3>2
    <3> HIDE DEF j, h
    <3> QED
      BY <2>2, <3>2, <3>3 DEF Used
  <2> HIDE DEF h
  <2>3. t[i] \in Used(t)
    BY <1>1, <2>0 DEF Used
  <2> QED
    BY <2>1, <2>2, <2>3 DEF Used
<1>11. \A u \in Used(s) : u.addr # t[i].addr
  BY <1>3, AddrUnique DEF Used
<1> QED
  BY <1>2, <1>3, <1>8, <1>9, <1>10, <1>11 DEF Cut, Gains

\* A free block that is taken whole.
LEMMA WholeFacts ==
    ASSUME NEW s, NEW e \in Nat, Sound(s, e), CoalescedBut(s, {}), NEW i \in 1 .. Len(s),
           NEW needed \in Nat, s[i].is_free, s[i].size >= needed
    PROVE  LET c == [s[i] EXCEPT !.is_free = FALSE]
               t == [s EXCEPT ![i] = c]
           IN  Gains(s, t, e, c, needed) /\ c.addr = s[i].addr
<1> DEFINE c == [s[i] EXCEPT !.is_free = FALSE]
           t == [s EXCEPT ![i] = c]
<1>0. s \in Seq(Block) /\ Len(s) \in Nat /\ i \in Nat /\ Len(s) > 0
  BY DEF Sound
<1>1. s[i] \in Block
  BY <1>0
<1>2. c \in Block /\ c.addr = s[i].addr /\ c.size = s[i].size /\ ~c.is_free
  BY <1>1 DEF Block
<1>3. BlockEnd(c) = BlockEnd(s[i])
  BY <1>2 DEF BlockEnd
<1> HIDE DEF c
<1>4. /\ t \in Seq(Block) /\ Len(t) = Len(s)
      /\ \A k \in 1 .. Len(s) : t[k] = IF k = i THEN c ELSE s[k]
  BY <1>0, <1>2, ChangeFacts
<1> HIDE DEF t
<1>5. \A k \in 1 .. Len(s) : t[k].addr = s[k].addr /\ BlockEnd(t[k]) = BlockEnd(s[k])
  BY <1>2, <1>3, <1>4
<1>6. Sorted(t) /\ Inside(t, e) /\ OnWords(t)
  BY <1>4, <1>5 DEF Sound, Sorted, Inside, OnWords
<1>7. Used(t) = Used(s) \cup {c}
  <2>1. ASSUME NEW k \in 1 .. Len(t), ~t[k].is_free
        PROVE  t[k] \in Used(s) \cup {c}
    BY <1>4, <2>1 DEF Used
  <2>2. ASSUME NEW k \in 1 .. Len(s), ~s[k].is_free
        PROVE  s[k] \in Used(t)
    BY <1>4, <2>2 DEF Used
  <2>3. c \in Used(t)
    BY <1>2, <1>4 DEF Used
  <2> QED
    BY <2>1, <2>2, <2>3 DEF Used
<1>8. CoalescedBut(t, {})
  <2> SUFFICES ASSUME NEW k \in 1 .. (Len(t) - 1)
               PROVE  ~t[k].is_free \/ ~t[k + 1].is_free
    BY DEF CoalescedBut
  <2>1. k \in 1 .. Len(s) /\ k + 1 \in 1 .. Len(s) /\ k \in 1 .. (Len(s) - 1)
    BY <1>0, <1>4
  <2>2. ~s[k].is_free \/ ~s[k + 1].is_free
    BY <2>1 DEF CoalescedBut
  <2> QED
    BY <1>2, <1>4, <2>1, <2>2
<1>9. \A u \in Used(s) : u.addr # c.addr
  BY <1>2, AddrUnique DEF Used
<1>10. Sound(t, e)
  BY <1>0, <1>4, <1>6 DEF Sound
<1> QED
  BY <1>2, <1>7, <1>8, <1>9, <1>10 DEF Gains, t, c

\* All that the loop of allocate() does to the list.
LEMMA TakenFacts ==
    ASSUME NEW s, NEW e \in Nat, Sound(s, e), CoalescedBut(s, {}), NEW i \in 1 .. Len(s),
           NEW needed \in Nat, Multiple(needed, DEFAULT_ALIGN), Fits(s[i], needed)
    PROVE  \E nb \in Block : /\ Gains(s, Taken(s, i, needed), e, nb, needed)
                            /\ nb.addr = s[i].addr
<1>0. s \in Seq(Block) /\ s[i].is_free /\ s[i].size >= needed
  BY DEF Sound, Fits
<1>1. CASE Splits(s, i, needed)
  <2> DEFINE t == Taken(s, i, needed)
  <2>1. Cut(s, i, needed, t)
    BY <1>0, <1>1, SplitCuts
  <2> HIDE DEF t
  <2>2. Gains(s, t, e, t[i], needed) /\ t[i].addr = s[i].addr
    BY <1>0, <1>1, <2>1, CutFacts
  <2>3. t[i] \in Block
    BY <2>2 DEF Gains
  <2> QED
    BY <2>2, <2>3 DEF t
<1>2. CASE ~Splits(s, i, needed)
  <2> DEFINE c == [s[i] EXCEPT !.is_free = FALSE]
             t == [s EXCEPT ![i] = c]
  <2>1. s[i].size <= needed + MIN_SPLIT_REMAINDER
    <3>1. HEADER_SIZE \in Nat /\ SPLIT_SLACK \in Nat
      BY Consts, Zenon
    <3>2. s[i].size \in Nat
      BY <1>0, BlockFacts, Zenon
    <3> QED
      BY <1>2, <3>1, <3>2 DEF Splits, MIN_SPLIT_REMAINDER
  <2>2. split_if_worthwhile(s, i, needed) = s
    BY <2>1, Zenon DEF split_if_worthwhile
  <2>3. Taken(s, i, needed) = t
    BY <2>2, Zenon DEF Taken
  <2>4. Gains(s, t, e, c, needed) /\ c.addr = s[i].addr
    BY <1>0, WholeFacts, Zenon
  <2> HIDE DEF t, c
  <2>5. c \in Block
    BY <2>4 DEF Gains
  <2> QED
    BY <2>3, <2>4, <2>5
<1> QED
  BY <1>1, <1>2

\* A block in use put after the last one, where the heap ended.
LEMMA AppendedFacts ==
    ASSUME NEW s, NEW e \in Nat, Sound(s, e), CoalescedBut(s, {}), Multiple(e, DEFAULT_ALIGN),
           NEW needed \in Nat, NEW f \in Nat, e + HEADER_SIZE + needed <= f, HEAP_START <= e
    PROVE  LET nb == [addr |-> e, size |-> needed, is_free |-> FALSE]
           IN  Gains(s, Append(s, nb), f, nb, needed)
<1> DEFINE n == Len(s)
           nb == [addr |-> e, size |-> needed, is_free |-> FALSE]
           t == Append(s, nb)
<1>0. s \in Seq(Block) /\ n \in Nat /\ n > 0 /\ HEADER_SIZE \in Nat /\ HEADER_SIZE > 0 /\ HEAP_START \in Nat
  <2>1. HEADER_SIZE \in Nat \ {0} /\ HEAP_START \in Nat \ {0}
    BY Consts, Zenon
  <2> QED
    BY <2>1 DEF Sound
<1>1. /\ nb \in Block /\ nb.addr = e /\ nb.size = needed /\ ~nb.is_free
      /\ BlockEnd(nb) = e + HEADER_SIZE + needed
  BY DEF Block, BlockEnd
<1> HIDE DEF nb
<1>2. /\ t \in Seq(Block) /\ Len(t) = n + 1 /\ t[n + 1] = nb
      /\ \A k \in 1 .. n : t[k] = s[k]
  BY <1>0, <1>1
<1> HIDE DEF t
<1>3. ASSUME NEW k \in 1 .. n
      PROVE  /\ s[k].addr \in Nat /\ s[k].size \in Nat /\ BlockEnd(s[k]) \in Nat
             /\ BlockEnd(s[k]) = s[k].addr + HEADER_SIZE + s[k].size
             /\ HEAP_START <= s[k].addr /\ BlockEnd(s[k]) <= e
             /\ Multiple(s[k].addr, DEFAULT_ALIGN)
  BY <1>0, BlockFacts, Zenon DEF Sound, Inside, OnWords
<1>4. Sorted(t)
  <2> SUFFICES ASSUME NEW j \in 1 .. Len(t), NEW k \in 1 .. Len(t), j < k
               PROVE  BlockEnd(t[j]) <= t[k].addr
    BY DEF Sorted
  <2>1. j \in 1 .. n /\ t[j] = s[j]
    BY <1>0, <1>2
  <2>2. CASE k = n + 1
    BY <1>1, <1>2, <1>3, <2>1, <2>2
  <2>3. CASE k # n + 1
    <3>1. k \in 1 .. n /\ t[k] = s[k]
      BY <1>0, <1>2, <2>3
    <3> QED
      BY <2>1, <3>1 DEF Sound, Sorted
  <2> QED
    BY <2>2, <2>3
<1>5. Inside(t, f) /\ OnWords(t)
  <2> SUFFICES ASSUME NEW k \in 1 .. Len(t)
               PROVE  HEAP_START <= t[k].addr /\ BlockEnd(t[k]) <= f /\ Multiple(t[k].addr, DEFAULT_ALIGN)
    BY DEF Inside, OnWords
  <2>1. CASE k = n + 1
    BY <1>0, <1>1, <1>2, <2>1
  <2>2. CASE k # n + 1
    <3>1. k \in 1 .. n /\ t[k] = s[k]
      BY <1>0, <1>2, <2>2
    <3>2. BlockEnd(s[k]) \in Nat /\ HEAP_START <= s[k].addr /\ BlockEnd(s[k]) <= e /\ Multiple(s[k].addr, DEFAULT_ALIGN)
      BY <1>3, <3>1, Zenon
    <3> QED
      BY <1>0, <3>1, <3>2
  <2> QED
    BY <2>1, <2>2
<1>6. CoalescedBut(t, {})
  <2> SUFFICES ASSUME NEW k \in 1 .. (Len(t) - 1)
               PROVE  ~t[k].is_free \/ ~t[k + 1].is_free
    BY DEF CoalescedBut
  <2>1. CASE k = n
    BY <1>1, <1>2, <2>1
  <2>2. CASE k # n
    <3>1. k \in 1 .. (n - 1) /\ t[k] = s[k] /\ t[k + 1] = s[k + 1]
      BY <1>0, <1>2, <2>2
    <3> QED
      BY <3>1 DEF CoalescedBut
  <2> QED
    BY <2>1, <2>2
<1>7. Used(t) = Used(s) \cup {nb}
  <2>1. ASSUME NEW k \in 1 .. Len(t), ~t[k].is_free
        PROVE  t[k] \in Used(s) \cup {nb}
    BY <1>0, <1>2, <2>1 DEF Used
  <2>2. ASSUME NEW k \in 1 .. Len(s), ~s[k].is_free
        PROVE  s[k] \in Used(t)
    <3>1. k \in 1 .. Len(t) /\ t[k] = s[k]
      BY <1>0, <1>2
    <3> QED
      BY <2>2, <3>1 DEF Used
  <2>3. nb \in Used(t)
    <3>1. n + 1 \in 1 .. Len(t)
      BY <1>0, <1>2
    <3> QED
      BY <1>1, <1>2, <3>1 DEF Used
  <2> QED
    BY <2>1, <2>2, <2>3 DEF Used
<1>8. \A u \in Used(s) : u.addr # nb.addr
  <2> SUFFICES ASSUME NEW k \in 1 .. n
               PROVE  s[k].addr # nb.addr
    BY DEF Used
  <2>1. /\ s[k].addr \in Nat /\ s[k].size \in Nat
        /\ BlockEnd(s[k]) = s[k].addr + HEADER_SIZE + s[k].size /\ BlockEnd(s[k]) <= e
    BY <1>3, Zenon
  <2> QED
    BY <1>0, <1>1, <2>1
<1>9. Sound(t, f)
  BY <1>0, <1>2, <1>4, <1>5 DEF Sound
<1>10. Gains(s, t, f, nb, needed)
  BY <1>1, <1>6, <1>7, <1>8, <1>9 DEF Gains
<1> QED
  BY <1>10 DEF t, nb

-----------------------------------------------------------------------------
(* The inductive invariant.                                                *)

\* The list, and the two ends of the heap.
ListInv ==
    /\ Sound(blocks, end) /\ CoalescedBut(blocks, {})
    /\ end = heap_end /\ HEAP_START <= end /\ end <= max
    /\ Multiple(end, DEFAULT_ALIGN)

\* The allocations L and the blocks in use U: one block each, and room in it.
Matched(U, L) ==
    /\ \A a \in L : \E u \in U : payload_of(u) = a.base
    /\ \A u \in U : \E a \in L : payload_of(u) = a.base
    /\ \A a, b \in L : a.base = b.base => a = b

Roomy(U, L) ==
    \A a \in L, u \in U : payload_of(u) = a.base =>
        a.ptr + a.size <= BlockEnd(u) /\ a.base <= Low(a)

LiveInv ==
    /\ Matched(Used(blocks), live) /\ Roomy(Used(blocks), live)
    /\ \A a \in live :
          Multiple(a.ptr, a.align) /\ a.size > 0 /\ (~a.aligned => a.ptr = a.base)

IInv == TypeOK /\ ListInv /\ LiveInv

\* The blocks in use are blocks.
LEMMA UsedFacts ==
    ASSUME NEW s \in Seq(Block), NEW u \in Used(s)
    PROVE  /\ u \in Block /\ ~u.is_free /\ \E i \in 1 .. Len(s) : s[i] = u
           /\ u.addr \in Nat /\ u.size \in Nat /\ HEADER_SIZE \in Nat /\ HEADER_SIZE > 0
           /\ payload_of(u) = u.addr + HEADER_SIZE
           /\ BlockEnd(u) = u.addr + HEADER_SIZE + u.size
<1> PICK i \in 1 .. Len(s) : s[i] = u /\ ~u.is_free
  BY DEF Used
<1>1. u \in Block
  OBVIOUS
<1> QED
  BY <1>1, BlockFields, Zenon

LEMMA InitInv == Init => IInv
<1> SUFFICES ASSUME Init
             PROVE  IInv
  OBVIOUS
<1> DEFINE b == [addr |-> HEAP_START, size |-> HEAP_INITIAL_SIZE - HEADER_SIZE, is_free |-> TRUE]
<1>0. /\ HEADER_SIZE \in Nat \ {0} /\ HEAP_START \in Nat \ {0}
      /\ HEAP_INITIAL_SIZE \in Nat /\ HEAP_INITIAL_SIZE > HEADER_SIZE
      /\ HEAP_MAX_SIZE \in Nat /\ HEAP_MAX_SIZE >= HEAP_INITIAL_SIZE
      /\ DEFAULT_ALIGN \in Nat \ {0}
      /\ Multiple(HEAP_START, DEFAULT_ALIGN) /\ Multiple(HEAP_INITIAL_SIZE, DEFAULT_ALIGN)
  BY Consts, Zenon
<1>1. blocks = <<b>> /\ end = HEAP_START + HEAP_INITIAL_SIZE /\ heap_end = end /\ live = {} /\ panicked = FALSE
  BY DEF Init
<1>2. b \in Block /\ b.addr = HEAP_START /\ b.is_free /\ BlockEnd(b) = end
  BY <1>0, <1>1 DEF Block, BlockEnd
<1> HIDE DEF b
<1>3. blocks \in Seq(Block) /\ Len(blocks) = 1 /\ blocks[1] = b
  BY <1>1, <1>2
<1>4. end \in Nat /\ HEAP_START <= end /\ end <= max
  BY <1>0, <1>1 DEF max
<1>5. Multiple(end, DEFAULT_ALIGN)
  <2>1. HEAP_START \in Int /\ HEAP_INITIAL_SIZE \in Int
    BY <1>0
  <2> QED
    BY <1>0, <1>1, <2>1, MultipleSum, Zenon
<1>6. Sound(blocks, end) /\ CoalescedBut(blocks, {}) /\ Used(blocks) = {}
  BY <1>0, <1>2, <1>3, <1>4 DEF Sound, Sorted, Inside, OnWords, CoalescedBut, Used
<1>7. ListInv
  BY <1>1, <1>4, <1>5, <1>6 DEF ListInv
<1>8. LiveInv
  BY <1>1, <1>6, Zenon DEF LiveInv, Matched, Roomy
<1>9. TypeOK
  BY <1>1, <1>3, <1>4 DEF TypeOK
<1> QED
  BY <1>7, <1>8, <1>9 DEF IInv

-----------------------------------------------------------------------------
(* allocate(): one block more in use, at the address that is returned.     *)

LEMMA AllocateFacts ==
    ASSUME IInv, NEW size \in Nat, NEW base, allocate(size, base)
    PROVE  /\ blocks' \in Seq(Block) /\ blocks' # << >> /\ end' \in Nat /\ heap_end' \in Nat
           /\ ListInv'
           /\ \E nb \in Block : Gains(blocks, blocks', end', nb, size) /\ payload_of(nb) = base
<1> DEFINE needed == align_up(size, DEFAULT_ALIGN)
<1>0. /\ HEADER_SIZE \in Nat \ {0} /\ HEAP_START \in Nat \ {0} /\ DEFAULT_ALIGN \in Nat \ {0}
      /\ PAGE_SIZE \in Nat \ {0} /\ HEAP_MAX_SIZE \in Nat /\ Multiple(PAGE_SIZE, DEFAULT_ALIGN)
  BY Consts, Zenon
<1>1. /\ needed \in Nat /\ needed >= size /\ Multiple(needed, DEFAULT_ALIGN)
  BY <1>0, AlignUp
<1>2. /\ base = BaseFor(needed)
      /\ TakeFirstFit(needed) \/ grow_and_attach(needed)
  BY DEF allocate
<1> HIDE DEF needed
<1>3. /\ blocks \in Seq(Block) /\ end \in Nat /\ heap_end = end
      /\ Sound(blocks, end) /\ CoalescedBut(blocks, {}) /\ HEAP_START <= end /\ end <= max
      /\ Multiple(end, DEFAULT_ALIGN) /\ Len(blocks) \in Nat /\ DOMAIN blocks = 1 .. Len(blocks)
  BY DEF IInv, TypeOK, ListInv
<1>4. ASSUME NEW nb \in Block, end' \in Nat, Gains(blocks, blocks', end', nb, needed), payload_of(nb) = base,
             end' = heap_end', HEAP_START <= end', end' <= max, Multiple(end', DEFAULT_ALIGN)
      PROVE  /\ blocks' \in Seq(Block) /\ blocks' # << >> /\ end' \in Nat /\ heap_end' \in Nat
             /\ ListInv'
             /\ \E x \in Block : Gains(blocks, blocks', end', x, size) /\ payload_of(x) = base
  <2>1. nb.size >= size /\ nb.size >= needed
    <3>1. nb.size \in Nat /\ nb.size >= needed
      BY <1>4, BlockFields DEF Gains
    <3> QED
      BY <1>1, <3>1
  <2>2. Gains(blocks, blocks', end', nb, size)
    BY <1>4, <2>1 DEF Gains
  <2>3. max' = max
    BY DEF max
  <2>4. ListInv'
    BY <1>4, <2>3 DEF ListInv, Gains, Sound, Sorted, Inside, OnWords, CoalescedBut
  <2>5. blocks' \in Seq(Block) /\ blocks' # << >>
    BY <1>4 DEF Gains, Sound
  <2> QED
    BY <1>4, <2>2, <2>4, <2>5
<1>5. CASE TakeFirstFit(needed)
  <2> PICK i \in DOMAIN blocks :
        /\ Fits(blocks[i], needed)
        /\ \A j \in 1 .. (i - 1) : ~Fits(blocks[j], needed)
        /\ blocks' = Taken(blocks, i, needed)
        /\ end' = end /\ heap_end' = heap_end
    BY <1>5 DEF TakeFirstFit, Taken
  <2> DEFINE First(k) == Fits(blocks[k], needed) /\ \A j \in 1 .. (k - 1) : ~Fits(blocks[j], needed)
  <2>1. CanFit(needed)
    BY DEF CanFit
  <2>2. base = payload_of(blocks[CHOOSE k \in DOMAIN blocks : First(k)])
    BY <1>2, <2>1 DEF BaseFor
  <2>3. ASSUME NEW k \in DOMAIN blocks, First(k)
        PROVE  k = i
    <3>1. First(i) /\ i \in Int /\ k \in Int /\ i > 0 /\ k > 0
      BY <1>3
    <3>2. ~(k < i) /\ ~(i < k)
      BY <2>3, <3>1
    <3> QED
      BY <3>1, <3>2
  <2>4. First(i)
    OBVIOUS
  <2> HIDE DEF First
  <2>5. base = payload_of(blocks[i])
    BY <2>2, <2>3, <2>4
  <2> PICK nb \in Block : Gains(blocks, blocks', end, nb, needed) /\ nb.addr = blocks[i].addr
    BY <1>1, <1>3, TakenFacts
  <2>6. payload_of(nb) = base
    BY <2>5 DEF payload_of
  <2> QED
    BY <1>3, <1>4, <2>6
<1>6. CASE grow_and_attach(needed)
  <2> DEFINE required == needed + HEADER_SIZE
             g == align_up(required, PAGE_SIZE)
             nb == [addr |-> end, size |-> needed, is_free |-> FALSE]
  <2>1. /\ ~CanFit(needed) /\ blocks' = Append(blocks, nb)
        /\ end' = munux_c_heap_grow(required) /\ heap_end' = munux_c_heap_grow(required)
        /\ munux_c_heap_grow(required) # 0
    BY <1>6 DEF grow_and_attach, Grows
  <2>2. g \in Nat /\ required <= g /\ Multiple(g, PAGE_SIZE) /\ required \in Nat
    <3>1. required \in Nat
      BY <1>0, <1>1
    <3> QED
      BY <1>0, <3>1, AlignUp
  <2>3. end' = end + g /\ end' <= max /\ heap_end' = end'
    <3> HIDE DEF required
    <3>1. max \in Nat
      BY <1>0 DEF max
    <3>2. munux_c_heap_grow(required) = IF heap_end + g > max THEN 0 ELSE heap_end + g
      BY DEF munux_c_heap_grow
    <3> HIDE DEF g
    <3> QED
      BY <1>3, <2>1, <2>2, <3>1, <3>2
  <2> HIDE DEF g
  <2>4. Multiple(end', DEFAULT_ALIGN)
    <3>1. g \in Int /\ end \in Int
      BY <1>3, <2>2
    <3>2. Multiple(g, DEFAULT_ALIGN)
      BY <1>0, <2>2, <3>1, MultipleTransitive, Zenon
    <3> QED
      BY <1>0, <1>3, <2>3, <3>1, <3>2, MultipleSum, Zenon
  <2>5. end' \in Nat /\ end + HEADER_SIZE + needed <= end' /\ HEAP_START <= end'
    BY <1>0, <1>1, <1>3, <2>2, <2>3
  <2>6. Gains(blocks, Append(blocks, nb), end', nb, needed)
    BY <1>1, <1>3, <2>5, AppendedFacts, Zenon
  <2>7. nb \in Block /\ payload_of(nb) = end + HEADER_SIZE
    BY <1>1, <1>3 DEF Block, payload_of
  <2>8. base = end + HEADER_SIZE
    BY <1>2, <2>1 DEF BaseFor
  <2> HIDE DEF nb
  <2> QED
    BY <1>4, <2>1, <2>3, <2>4, <2>5, <2>6, <2>7, <2>8
<1> QED
  BY <1>2, <1>5, <1>6

\* A client gets an allocation in the block that was gained.
LEMMA LiveGains ==
    ASSUME IInv, NEW nb \in Block, NEW size, Gains(blocks, blocks', end', nb, size),
           NEW a \in LiveRecord, live' = live \cup {a}, a.base = payload_of(nb),
           a.ptr + a.size <= BlockEnd(nb), a.base <= Low(a), Multiple(a.ptr, a.align), a.size > 0,
           ~a.aligned => a.ptr = a.base
    PROVE  LiveInv'
<1> DEFINE U == Used(blocks)
           V == Used(blocks')
<1>1. blocks \in Seq(Block) /\ Matched(U, live) /\ Roomy(U, live)
  BY DEF IInv, TypeOK, LiveInv
<1>2. V = U \cup {nb} /\ \A u \in U : u.addr # nb.addr
  BY DEF Gains
<1>3. \A u \in U : payload_of(u) # payload_of(nb)
  <2> TAKE u \in U
  <2>1. u.addr \in Nat /\ HEADER_SIZE \in Nat /\ payload_of(u) = u.addr + HEADER_SIZE
    BY <1>1, UsedFacts, Zenon
  <2>2. nb.addr \in Nat /\ payload_of(nb) = nb.addr + HEADER_SIZE
    BY BlockFields, Zenon
  <2> QED
    BY <1>2, <2>1, <2>2
<1> HIDE DEF U, V
<1>4. \A b \in live : b.base # payload_of(nb)
  BY <1>1, <1>3 DEF Matched
<1>5. Matched(V, live')
  BY <1>1, <1>2, <1>4, Zenon DEF Matched
<1>6. Roomy(V, live')
  BY <1>1, <1>2, <1>3, <1>4, Zenon DEF Roomy
<1>7. \A b \in live' : Multiple(b.ptr, b.align) /\ b.size > 0 /\ (~b.aligned => b.ptr = b.base)
  BY Zenon DEF IInv, LiveInv
<1> QED
  BY <1>5, <1>6, <1>7 DEF LiveInv, V

\* A client gives an allocation back, and its block is in use no more.
LEMMA LiveLoses ==
    ASSUME IInv, NEW a \in live, NEW u \in Used(blocks), payload_of(u) = a.base,
           live' = live \ {a}, Used(blocks') = Used(blocks) \ {u}
    PROVE  LiveInv'
<1> DEFINE U == Used(blocks)
           V == Used(blocks')
<1>1. blocks \in Seq(Block) /\ Matched(U, live) /\ Roomy(U, live) /\ Sound(blocks, end)
  BY DEF IInv, TypeOK, LiveInv, ListInv
<1>2. \A w \in U : payload_of(w) = payload_of(u) => w = u
  <2> SUFFICES ASSUME NEW w \in U, payload_of(w) = payload_of(u)
               PROVE  w = u
    OBVIOUS
  <2>1. /\ w.addr \in Nat /\ u.addr \in Nat /\ HEADER_SIZE \in Nat
        /\ payload_of(w) = w.addr + HEADER_SIZE /\ payload_of(u) = u.addr + HEADER_SIZE
        /\ \E i \in 1 .. Len(blocks) : blocks[i] = w
        /\ \E i \in 1 .. Len(blocks) : blocks[i] = u
    BY <1>1, UsedFacts, Zenon
  <2>2. w.addr = u.addr
    BY <2>1
  <2> QED
    BY <1>1, <2>1, <2>2, AddrUnique
<1>3. V = U \ {u} /\ u \in U
  OBVIOUS
<1> HIDE DEF U, V
<1>4. Matched(V, live')
  <2>1. ASSUME NEW b \in live'
        PROVE  \E w \in V : payload_of(w) = b.base
    <3>1. b \in live /\ b.base # a.base
      BY <1>1 DEF Matched
    <3> QED
      BY <1>1, <1>3, <3>1 DEF Matched
  <2>2. ASSUME NEW w \in V
        PROVE  \E b \in live' : payload_of(w) = b.base
    <3>1. w \in U /\ payload_of(w) # a.base
      BY <1>2, <1>3
    <3> QED
      BY <1>1, <3>1 DEF Matched
  <2>3. \A b, c \in live' : b.base = c.base => b = c
    BY <1>1 DEF Matched
  <2> QED
    BY <2>1, <2>2, <2>3 DEF Matched
<1>5. Roomy(V, live')
  BY <1>1, <1>3, Zenon DEF Roomy
<1>6. \A b \in live' : Multiple(b.ptr, b.align) /\ b.size > 0 /\ (~b.aligned => b.ptr = b.base)
  BY Zenon DEF IInv, LiveInv
<1> QED
  BY <1>4, <1>5, <1>6 DEF LiveInv, V

\* The block that munux_rs_free() finds is the one in use behind the pointer.
LEMMA FreeStep ==
    ASSUME IInv, NEW a \in live, NEW i \in DOMAIN blocks, blocks[i].addr = a.base - HEADER_SIZE,
           blocks' = deallocate(blocks, i), live' = live \ {a},
           UNCHANGED <<end, heap_end, panicked>>
    PROVE  IInv'
<1>0. /\ blocks \in Seq(Block) /\ end \in Nat /\ DOMAIN blocks = 1 .. Len(blocks)
      /\ Sound(blocks, end) /\ CoalescedBut(blocks, {}) /\ live \subseteq LiveRecord
      /\ Matched(Used(blocks), live)
  BY DEF IInv, TypeOK, ListInv, LiveInv
<1>1. PICK u \in Used(blocks) : payload_of(u) = a.base
  BY <1>0 DEF Matched
<1>2. /\ u.addr \in Nat /\ HEADER_SIZE \in Nat /\ ~u.is_free
      /\ payload_of(u) = u.addr + HEADER_SIZE
      /\ \E j \in 1 .. Len(blocks) : blocks[j] = u
  BY <1>0, UsedFacts, Zenon
<1>3. blocks[i].addr = u.addr
  BY <1>1, <1>2
<1>4. blocks[i] = u
  BY <1>0, <1>2, <1>3, AddrUnique
<1>5. /\ Sound(blocks', end) /\ CoalescedBut(blocks', {}) /\ Used(blocks') = Used(blocks) \ {u}
  BY <1>0, <1>2, <1>4, DeallocateFacts
<1>6. LiveInv'
  BY <1>1, <1>5, LiveLoses
<1>7. ListInv'
  <2>1. max' = max
    BY DEF max
  <2> QED
    BY <1>5, <2>1 DEF ListInv, IInv, Sound, Sorted, Inside, OnWords, CoalescedBut
<1>8. TypeOK'
  BY <1>0, <1>5 DEF TypeOK, IInv, Sound
<1> QED
  BY <1>6, <1>7, <1>8 DEF IInv

-----------------------------------------------------------------------------
(* One lemma for each entry point.                                         *)

\* What allocate() puts into place, and a new allocation in it.
LEMMA AllocStep ==
    ASSUME IInv, NEW size \in Nat, NEW base, allocate(size, base), UNCHANGED panicked,
           NEW a \in LiveRecord, live' = live \cup {a}, a.base = base,
           a.ptr + a.size <= base + size, a.base <= Low(a), Multiple(a.ptr, a.align), a.size > 0,
           ~a.aligned => a.ptr = a.base
    PROVE  IInv'
<1>1. /\ blocks' \in Seq(Block) /\ blocks' # << >> /\ end' \in Nat /\ heap_end' \in Nat /\ ListInv'
      /\ \E nb \in Block : Gains(blocks, blocks', end', nb, size) /\ payload_of(nb) = base
  BY AllocateFacts, Zenon
<1> PICK nb \in Block : Gains(blocks, blocks', end', nb, size) /\ payload_of(nb) = base
  BY <1>1
<1>2. a.ptr + a.size <= BlockEnd(nb)
  <2>1. /\ nb.addr \in Nat /\ nb.size \in Nat /\ HEADER_SIZE \in Nat
        /\ BlockEnd(nb) = nb.addr + HEADER_SIZE + nb.size /\ payload_of(nb) = nb.addr + HEADER_SIZE
    BY BlockFields, Zenon
  <2>2. nb.size >= size
    BY DEF Gains
  <2>3. a.ptr \in Nat /\ a.size \in Nat
    BY DEF LiveRecord
  <2> QED
    BY <2>1, <2>2, <2>3
<1>3. LiveInv'
  BY <1>2, LiveGains
<1>4. TypeOK'
  BY <1>1 DEF TypeOK, IInv
<1> QED
  BY <1>1, <1>3, <1>4 DEF IInv

\* Where allocate() puts the payload is a multiple of DEFAULT_ALIGN.
LEMMA BaseFacts ==
    ASSUME IInv, NEW size \in Nat, NEW base, allocate(size, base)
    PROVE  base \in Nat /\ Multiple(base, DEFAULT_ALIGN)
<1> PICK nb \in Block : Gains(blocks, blocks', end', nb, size) /\ payload_of(nb) = base
  BY AllocateFacts, Zenon
<1>1. nb.addr \in Nat /\ HEADER_SIZE \in Nat /\ payload_of(nb) = nb.addr + HEADER_SIZE
  BY BlockFields, Zenon
<1>2. Multiple(nb.addr, DEFAULT_ALIGN)
  <2>1. nb \in Used(blocks') /\ Sound(blocks', end')
    BY DEF Gains
  <2> QED
    BY <2>1 DEF Used, Sound, OnWords
<1>3. DEFAULT_ALIGN \in Nat \ {0} /\ Multiple(HEADER_SIZE, DEFAULT_ALIGN)
  BY Consts, Zenon
<1>4. nb.addr \in Int /\ HEADER_SIZE \in Int
  BY <1>1
<1>5. Multiple(nb.addr + HEADER_SIZE, DEFAULT_ALIGN)
  BY <1>2, <1>3, <1>4, MultipleSum, Zenon
<1>6. base = nb.addr + HEADER_SIZE /\ base \in Nat
  BY <1>1
<1> QED
  BY <1>5, <1>6

LEMMA AllocInv ==
    ASSUME IInv, NEW size \in Sizes, alloc(size)
    PROVE  IInv'
<1> DEFINE base == BaseFor(align_up(size, DEFAULT_ALIGN))
           a == Allocation(base, size, DEFAULT_ALIGN, base, FALSE)
<1>1. size \in Nat /\ DEFAULT_ALIGN \in Nat
  BY Consts
<1>2. allocate(size, base) /\ live' = live \cup {a} /\ UNCHANGED panicked /\ size # 0
  BY DEF alloc, allocate
<1>3. base \in Nat /\ Multiple(base, DEFAULT_ALIGN)
  BY <1>1, <1>2, BaseFacts
<1> HIDE DEF base
<1>4. /\ a \in LiveRecord /\ a.base = base /\ a.ptr = base /\ a.size = size /\ a.align = DEFAULT_ALIGN
      /\ Low(a) = base
  BY <1>1, <1>3 DEF Allocation, LiveRecord, Low
<1> HIDE DEF a
<1>5. a.ptr + a.size <= base + size /\ a.base <= Low(a) /\ a.size > 0
  BY <1>1, <1>2, <1>3, <1>4
<1> QED
  BY <1>1, <1>2, <1>3, <1>4, <1>5, AllocStep

LEMMA AllocAlignedInv ==
    ASSUME IInv, NEW size \in Sizes, NEW align \in Aligns, alloc_aligned(size, align)
    PROVE  IInv'
<1> DEFINE total == TotalFor(size, align)
           ea == EffectiveAlign(align)
           base == BaseFor(align_up(total, DEFAULT_ALIGN))
           ptr == align_up(base + WORD, ea)
           a == Allocation(ptr, size, align, base, TRUE)
<1>1. /\ size \in Nat /\ align \in Nat /\ DEFAULT_ALIGN \in Nat \ {0} /\ WORD \in Nat \ {0}
  BY Consts
<1>2. /\ allocate(total, base) /\ live' = live \cup {a} /\ UNCHANGED panicked
      /\ size # 0 /\ IsPowerOfTwo(align)
  BY DEF alloc_aligned, AlignedProceeds
<1>3. align \in Nat \ {0} /\ (align < DEFAULT_ALIGN => Multiple(DEFAULT_ALIGN, align))
  <2>1. align > 0 /\ (align < DEFAULT_ALIGN => DEFAULT_ALIGN % align = 0)
    BY <1>2, AlignAssumption, Zenon
  <2> QED
    BY <1>1, <2>1 DEF Multiple
<1>4. /\ ea \in Nat \ {0} /\ Multiple(ea, align)
  <2>1. CASE align < DEFAULT_ALIGN
    BY <1>1, <1>3, <2>1 DEF EffectiveAlign
  <2>2. CASE ~(align < DEFAULT_ALIGN)
    <3>1. ea = align /\ align = align * 1 /\ 1 \in Int /\ align \in Int
      BY <1>1, <2>2 DEF EffectiveAlign
    <3>2. Multiple(align, align)
      BY <1>3, <3>1, Quotient
    <3> QED
      BY <1>3, <3>1, <3>2
  <2> QED
    BY <2>1, <2>2
<1>5. total \in Nat /\ total = size + ea + WORD
  BY <1>1, <1>4 DEF TotalFor
<1>6. base \in Nat
  BY <1>2, <1>5, BaseFacts
<1> HIDE DEF total, ea, base
<1>7. /\ ptr \in Nat /\ base + WORD <= ptr /\ ptr < base + WORD + ea /\ Multiple(ptr, ea)
  <2>1. base + WORD \in Nat
    BY <1>1, <1>6
  <2> QED
    BY <1>4, <2>1, AlignUp
<1>8. Multiple(ptr, align)
  <2>1. ptr \in Int
    BY <1>7
  <2> QED
    BY <1>3, <1>4, <1>7, <2>1, MultipleTransitive, Zenon
<1> HIDE DEF ptr
<1>9. /\ a \in LiveRecord /\ a.base = base /\ a.ptr = ptr /\ a.size = size /\ a.align = align
      /\ a.aligned /\ Low(a) = ptr - WORD
  BY <1>1, <1>6, <1>7 DEF Allocation, LiveRecord, Low
<1> HIDE DEF a
<1>10. a.ptr + a.size <= base + total /\ a.base <= Low(a) /\ a.size > 0
  BY <1>1, <1>2, <1>4, <1>5, <1>6, <1>7, <1>9
<1> QED
  BY <1>2, <1>5, <1>8, <1>9, <1>10, AllocStep

LEMMA FreeInv ==
    ASSUME IInv, NEW a \in live, dealloc(a) \/ dealloc_aligned(a)
    PROVE  IInv'
<1>1. PICK i \in DOMAIN blocks :
         /\ blocks[i].addr = a.base - HEADER_SIZE /\ blocks' = deallocate(blocks, i)
         /\ live' = live \ {a} /\ UNCHANGED <<end, heap_end, panicked>>
  BY Zenon DEF dealloc, dealloc_aligned, IInv, LiveInv
<1> QED
  BY <1>1, FreeStep

LEMMA QuietInv ==
    ASSUME IInv, UNCHANGED <<blocks, end, heap_end, live>>, panicked' \in BOOLEAN
    PROVE  IInv'
<1>1. TypeOK'
  BY DEF IInv, TypeOK
<1>2. ListInv'
  BY DEF IInv, ListInv, Sound, Sorted, Inside, OnWords, CoalescedBut, max
<1>3. LiveInv'
  BY DEF IInv, LiveInv, Matched, Roomy, Used, Low
<1> QED
  BY <1>1, <1>2, <1>3 DEF IInv

LEMMA NextInv == IInv /\ [Next]_vars => IInv'
<1> SUFFICES ASSUME IInv, [Next]_vars
             PROVE  IInv'
  OBVIOUS
<1>1. CASE UNCHANGED vars
  BY <1>1, QuietInv DEF vars, IInv, TypeOK
<1>2. ASSUME NEW size \in Sizes, alloc(size)
      PROVE  IInv'
  BY <1>2, AllocInv
<1>3. ASSUME NEW size \in Sizes, alloc_null(size) \/ alloc_panic(size)
      PROVE  IInv'
  BY <1>3, QuietInv DEF alloc_null, alloc_panic, vars, IInv, TypeOK
<1>4. ASSUME NEW size \in Sizes, NEW align \in Aligns, alloc_aligned(size, align)
      PROVE  IInv'
  BY <1>4, AllocAlignedInv
<1>5. ASSUME NEW size \in Sizes, NEW align \in Aligns,
             alloc_aligned_null(size, align) \/ alloc_aligned_panic(size, align)
      PROVE  IInv'
  BY <1>5, QuietInv DEF alloc_aligned_null, alloc_aligned_panic, vars, IInv, TypeOK
<1>6. ASSUME NEW a \in live, dealloc(a) \/ dealloc_aligned(a)
      PROVE  IInv'
  BY <1>6, FreeInv
<1> QED
  BY <1>1, <1>2, <1>3, <1>4, <1>5, <1>6 DEF Next

-----------------------------------------------------------------------------
(* The theorems.                                                           *)

\* The inductive invariant: the list is sorted, in bounds, coalesced and on
\* whole words, and each allocation has the used block with its payload
\* address to itself and fits in it, after every call of heap.rs.
THEOREM Invariance == Spec => []IInv
<1>1. Init => IInv
  BY InitInv
<1>2. IInv /\ [Next]_vars => IInv'
  BY NextInv
<1> QED
  BY <1>1, <1>2, PTL DEF Spec

\* Types: the list is never empty and no address or size is negative, so no
\* subtraction of heap.rs (b.size - requested - HEADER_SIZE) wraps.
THEOREM TypeCorrect == Spec => []TypeOK
<1>1. IInv => TypeOK
  BY DEF IInv
<1> QED
  BY <1>1, Invariance, PTL

\* What the walks of heap.rs rely on: sorted, in bounds, fully coalesced.
THEOREM ListSoundness == Spec => []ListIsSound
<1>1. ASSUME IInv
      PROVE  ListIsSound
  <2>1. /\ blocks \in Seq(Block) /\ DOMAIN blocks = 1 .. Len(blocks) /\ ListInv
    BY <1>1 DEF IInv, TypeOK
  <2>2. Ordered
    BY <2>1 DEF Ordered, ListInv, Sound, Sorted
  <2>3. InsideHeap
    BY <2>1 DEF InsideHeap, ListInv, Sound, Inside
  <2>4. Coalesced
    BY <2>1 DEF Coalesced, ListInv, CoalescedBut
  <2> QED
    BY <2>2, <2>3, <2>4 DEF ListIsSound
<1> QED
  BY <1>1, Invariance, PTL

\* The bytes of an allocation, with its back-pointer word, in the block that
\* is behind it.
LEMMA Placement ==
    ASSUME IInv, NEW a \in live
    PROVE  \E i \in 1 .. Len(blocks) :
              /\ ~blocks[i].is_free /\ payload_of(blocks[i]) = a.base
              /\ a.base <= Low(a) /\ a.ptr + a.size <= BlockEnd(blocks[i])
<1>1. PICK u \in Used(blocks) : payload_of(u) = a.base
  BY DEF IInv, LiveInv, Matched
<1>2. PICK i \in 1 .. Len(blocks) : blocks[i] = u /\ ~u.is_free
  BY DEF Used
<1>3. a.base <= Low(a) /\ a.ptr + a.size <= BlockEnd(u)
  BY <1>1 DEF IInv, LiveInv, Roomy
<1> QED
  BY <1>1, <1>2, <1>3

\* The numbers in an allocation.
LEMMA LiveFacts ==
    ASSUME IInv, NEW a \in live
    PROVE  /\ a.ptr \in Nat /\ a.size \in Nat /\ a.align \in Nat /\ a.base \in Nat /\ a.size > 0
           /\ Low(a) \in Int /\ Low(a) <= a.ptr /\ WORD \in Nat
<1>1. WORD \in Nat /\ a \in LiveRecord /\ a.size > 0
  BY Consts DEF IInv, TypeOK, LiveInv
<1> QED
  BY <1>1 DEF LiveRecord, Low

\* Allocations in different blocks share no byte.
LEMMA Apart ==
    ASSUME IInv, NEW a \in live, NEW b \in live, a # b
    PROVE  a.ptr + a.size <= Low(b) \/ b.ptr + b.size <= Low(a)
<1>1. PICK i \in 1 .. Len(blocks) :
         /\ ~blocks[i].is_free /\ payload_of(blocks[i]) = a.base
         /\ a.base <= Low(a) /\ a.ptr + a.size <= BlockEnd(blocks[i])
  BY Placement
<1>2. PICK j \in 1 .. Len(blocks) :
         /\ ~blocks[j].is_free /\ payload_of(blocks[j]) = b.base
         /\ b.base <= Low(b) /\ b.ptr + b.size <= BlockEnd(blocks[j])
  BY Placement
<1>3. blocks \in Seq(Block) /\ Len(blocks) \in Nat /\ Sorted(blocks) /\ a.base # b.base
  BY DEF IInv, TypeOK, ListInv, Sound, LiveInv, Matched
<1>4. /\ a.ptr \in Nat /\ a.size \in Nat /\ Low(a) \in Int
      /\ b.ptr \in Nat /\ b.size \in Nat /\ Low(b) \in Int
  BY LiveFacts, Zenon
<1>5. /\ blocks[i].addr \in Nat /\ blocks[j].addr \in Nat /\ HEADER_SIZE \in Nat
      /\ BlockEnd(blocks[i]) \in Nat /\ BlockEnd(blocks[j]) \in Nat
      /\ payload_of(blocks[i]) = blocks[i].addr + HEADER_SIZE
      /\ payload_of(blocks[j]) = blocks[j].addr + HEADER_SIZE
  BY <1>3, BlockFacts, Zenon
<1>6. i < j \/ j < i
  BY <1>1, <1>2, <1>3
<1>7. CASE i < j
  <2>1. BlockEnd(blocks[i]) <= blocks[j].addr
    BY <1>3, <1>7 DEF Sorted
  <2>2. blocks[j].addr <= Low(b)
    BY <1>2, <1>4, <1>5, SMTT(30)
  <2>3. a.ptr + a.size <= blocks[j].addr
    BY <1>1, <1>4, <1>5, <2>1, SMTT(30)
  <2>4. a.ptr + a.size <= Low(b)
    BY <1>4, <1>5, <2>2, <2>3, SMTT(30)
  <2> QED
    BY <2>4
<1>8. CASE j < i
  <2>1. BlockEnd(blocks[j]) <= blocks[i].addr
    BY <1>3, <1>8 DEF Sorted
  <2>2. blocks[i].addr <= Low(a)
    BY <1>1, <1>4, <1>5, SMTT(30)
  <2> QED
    BY <1>2, <1>4, <1>5, <2>1, <2>2
<1> QED
  BY <1>6, <1>7, <1>8

\* No header lies over an allocation or its back-pointer word.
LEMMA ClearOfHeaders ==
    ASSUME IInv, NEW a \in live, NEW i \in 1 .. Len(blocks)
    PROVE  a.ptr + a.size <= blocks[i].addr \/ payload_of(blocks[i]) <= Low(a)
<1>1. PICK j \in 1 .. Len(blocks) :
         /\ ~blocks[j].is_free /\ payload_of(blocks[j]) = a.base
         /\ a.base <= Low(a) /\ a.ptr + a.size <= BlockEnd(blocks[j])
  BY Placement
<1>2. blocks \in Seq(Block) /\ Len(blocks) \in Nat /\ Sorted(blocks)
  BY DEF IInv, TypeOK, ListInv, Sound
<1>3. a.ptr \in Nat /\ a.size \in Nat /\ Low(a) \in Int
  BY LiveFacts, Zenon
<1>4. /\ blocks[i].addr \in Nat /\ blocks[j].addr \in Nat /\ HEADER_SIZE \in Nat
      /\ blocks[i].size \in Nat /\ BlockEnd(blocks[j]) \in Nat
      /\ BlockEnd(blocks[i]) = blocks[i].addr + HEADER_SIZE + blocks[i].size
      /\ payload_of(blocks[i]) = blocks[i].addr + HEADER_SIZE
      /\ payload_of(blocks[j]) = blocks[j].addr + HEADER_SIZE
  BY <1>2, BlockFacts, Zenon
<1>5. CASE i = j
  BY <1>1, <1>5
<1>6. CASE i < j
  <2>1. BlockEnd(blocks[i]) <= blocks[j].addr
    BY <1>2, <1>6 DEF Sorted
  <2> QED
    BY <1>1, <1>3, <1>4, <2>1
<1>7. CASE j < i
  <2>1. BlockEnd(blocks[j]) <= blocks[i].addr
    BY <1>2, <1>7 DEF Sorted
  <2> QED
    BY <1>1, <1>3, <1>4, <2>1, SMTT(30)
<1> QED
  BY <1>2, <1>5, <1>6, <1>7

\* The SAFETY comments of allocate_aligned(), for every sequence of calls: each
\* allocation has a used block of its own, and its payload and back-pointer word
\* are aligned as asked, inside the block, and clear of all else.
THEOREM AllocationSoundness == Spec => []AllocationsAreSound
<1>1. ASSUME IInv
      PROVE  AllocationsAreSound
  <2>1. /\ blocks \in Seq(Block) /\ DOMAIN blocks = 1 .. Len(blocks) /\ LiveInv
    BY <1>1 DEF IInv, TypeOK
  <2>2. Ownership
    <3>1. ASSUME NEW a \in live
          PROVE  \E i \in DOMAIN blocks : Backs(blocks[i], a)
      BY <1>1, <2>1, Placement DEF Backs
    <3>2. ASSUME NEW i \in DOMAIN blocks, ~blocks[i].is_free
          PROVE  \E a \in live : Backs(blocks[i], a)
      <4>1. blocks[i] \in Used(blocks)
        BY <2>1, <3>2 DEF Used
      <4> QED
        BY <2>1, <3>2, <4>1 DEF LiveInv, Matched, Backs
    <3>3. \A a, b \in live : a.base = b.base => a = b
      BY <2>1 DEF LiveInv, Matched
    <3> QED
      BY <3>1, <3>2, <3>3 DEF Ownership
  <2>3. Contained
    <3> SUFFICES ASSUME NEW a \in live, NEW i \in DOMAIN blocks, Backs(blocks[i], a)
                 PROVE  a.ptr + a.size <= BlockEnd(blocks[i]) /\ a.base <= Low(a)
      BY DEF Contained
    <3>1. blocks[i] \in Used(blocks)
      BY <2>1 DEF Used, Backs
    <3> QED
      BY <2>1, <3>1 DEF LiveInv, Roomy, Backs
  <2>4. MetadataSafe
    BY <1>1, <2>1, Apart, ClearOfHeaders, Zenon DEF MetadataSafe
  <2>5. AlignedAsAsked
    BY <2>1 DEF AlignedAsAsked, LiveInv, Multiple
  <2> QED
    BY <2>2, <2>3, <2>4, <2>5 DEF AllocationsAreSound
<1> QED
  BY <1>1, Invariance, PTL

-----------------------------------------------------------------------------
(* Refinement of Allocator.                                                *)

Region(a) == [ptr |-> a.ptr, size |-> a.size, align |-> a.align]

\* What clients see of two allocations is apart, and within the heap.
RegionInv ==
    /\ \A a \in live : /\ a.size > 0 /\ a.ptr % a.align = 0
                       /\ HEAP_START <= a.ptr /\ a.ptr + a.size <= max
    /\ \A a, b \in live : a # b =>
          /\ a.ptr + a.size <= b.ptr \/ b.ptr + b.size <= a.ptr
          /\ Region(a) # Region(b)

LEMMA RegionFacts == IInv => RegionInv
<1> SUFFICES ASSUME IInv
             PROVE  RegionInv
  OBVIOUS
<1>1. ASSUME NEW a \in live
      PROVE  /\ a.size > 0 /\ a.ptr % a.align = 0
             /\ HEAP_START <= a.ptr /\ a.ptr + a.size <= max
  <2>1. PICK i \in 1 .. Len(blocks) :
           /\ ~blocks[i].is_free /\ payload_of(blocks[i]) = a.base
           /\ a.base <= Low(a) /\ a.ptr + a.size <= BlockEnd(blocks[i])
    BY Placement
  <2>2. /\ blocks \in Seq(Block) /\ HEAP_START <= blocks[i].addr /\ BlockEnd(blocks[i]) <= end
        /\ end \in Nat /\ end <= max
    BY DEF IInv, TypeOK, ListInv, Sound, Inside
  <2>3. /\ blocks[i].addr \in Nat /\ HEADER_SIZE \in Nat /\ BlockEnd(blocks[i]) \in Nat
        /\ payload_of(blocks[i]) = blocks[i].addr + HEADER_SIZE
    BY <2>2, BlockFacts, Zenon
  <2>4. /\ a.ptr \in Nat /\ a.size \in Nat /\ a.base \in Nat /\ Low(a) \in Int /\ Low(a) <= a.ptr
    BY LiveFacts, Zenon
  <2>5. HEAP_START \in Nat /\ max \in Nat
    <3>1. HEAP_START \in Nat \ {0} /\ HEAP_MAX_SIZE \in Nat
      BY Consts, Zenon
    <3> QED
      BY <3>1 DEF max
  <2>6. a.size > 0 /\ a.ptr % a.align = 0
    BY DEF IInv, LiveInv, Multiple
  <2>7. HEAP_START <= a.ptr
    BY <2>1, <2>2, <2>3, <2>4, <2>5
  <2>8. a.ptr + a.size <= max
    BY <2>1, <2>2, <2>3, <2>4, <2>5
  <2> QED
    BY <2>6, <2>7, <2>8
<1>2. ASSUME NEW a \in live, NEW b \in live, a # b
      PROVE  /\ a.ptr + a.size <= b.ptr \/ b.ptr + b.size <= a.ptr
             /\ Region(a) # Region(b)
  <2>1. a.ptr + a.size <= Low(b) \/ b.ptr + b.size <= Low(a)
    BY <1>2, Apart
  <2>2. /\ a.ptr \in Nat /\ a.size \in Nat /\ a.size > 0 /\ Low(a) \in Int /\ Low(a) <= a.ptr
        /\ b.ptr \in Nat /\ b.size \in Nat /\ b.size > 0 /\ Low(b) \in Int /\ Low(b) <= b.ptr
    BY LiveFacts, Zenon
  <2>3. a.ptr + a.size <= b.ptr \/ b.ptr + b.size <= a.ptr
    BY <2>1, <2>2
  <2>4. a.ptr # b.ptr
    BY <2>2, <2>3
  <2>5. Region(a).ptr = a.ptr /\ Region(b).ptr = b.ptr
    BY DEF Region
  <2> QED
    BY <2>3, <2>4, <2>5
<1> QED
  BY <1>1, <1>2 DEF RegionInv

\* A step that adds an allocation hands out a region.
LEMMA AllocateRefines ==
    ASSUME RegionInv', NEW a, live' = live \cup {a}
    PROVE  Abstract!Allocate \/ UNCHANGED Regions
<1>1. CASE a \in live
  <2>1. live' = live
    BY <1>1
  <2> QED
    BY <2>1 DEF Regions
<1>2. CASE a \notin live
  <2> DEFINE r == Region(a)
             R == {Region(b) : b \in live}
             Q == {Region(b) : b \in live'}
  <2>1. Regions = R /\ Regions' = Q
    BY DEF Regions, Region
  <2>2. /\ \A b \in live' : /\ b.size > 0 /\ b.ptr % b.align = 0
                            /\ HEAP_START <= b.ptr /\ b.ptr + b.size <= max
        /\ \A b, c \in live' : b # c =>
                 /\ b.ptr + b.size <= c.ptr \/ c.ptr + c.size <= b.ptr
                 /\ Region(b) # Region(c)
    BY DEF RegionInv, max
  <2>3. r \in Q \ R /\ Q = R \cup {r}
    BY <1>2, <2>2
  <2>4. /\ r.size > 0 /\ r.ptr % r.align = 0 /\ HEAP_START <= r.ptr /\ r.ptr + r.size <= max
    BY <2>2 DEF Region
  <2>5. \A s \in R : r.ptr + r.size <= s.ptr \/ s.ptr + s.size <= r.ptr
    <3> SUFFICES ASSUME NEW b \in live
                 PROVE  r.ptr + r.size <= Region(b).ptr \/ Region(b).ptr + Region(b).size <= r.ptr
      OBVIOUS
    <3>1. b # a /\ a \in live' /\ b \in live'
      BY <1>2
    <3>2. a.ptr + a.size <= b.ptr \/ b.ptr + b.size <= a.ptr
      BY <2>2, <3>1
    <3>3. r.ptr = a.ptr /\ r.size = a.size /\ Region(b).ptr = b.ptr /\ Region(b).size = b.size
      BY DEF Region
    <3> QED
      BY <3>2, <3>3
  <2> HIDE DEF r, R, Q
  <2> QED
    BY <2>1, <2>3, <2>4, <2>5 DEF Abstract!Allocate, Abstract!InArena, Abstract!Disjoint
<1> QED
  BY <1>1, <1>2

\* A step that frees an allocation releases its region, and no other.
LEMMA ReleaseRefines ==
    ASSUME RegionInv, NEW a \in live, live' = live \ {a}
    PROVE  Abstract!Release
<1> DEFINE r == Region(a)
           R == {Region(b) : b \in live}
           Q == {Region(b) : b \in live'}
<1>1. Regions = R /\ Regions' = Q
  BY DEF Regions, Region
<1>2. \A b \in live : b # a => Region(b) # Region(a)
  BY DEF RegionInv
<1>3. r \in R /\ Q = R \ {r}
  BY <1>2
<1> HIDE DEF r, R, Q
<1> QED
  BY <1>1, <1>3 DEF Abstract!Release

\* The heap implements the allocator its clients assume: a region handed out is
\* aligned, within the heap and apart from every region in use, and it stays
\* until it is freed.
THEOREM Refinement == Spec => ImplementsAllocator
<1>1. Init => Abstract!Init
  BY DEF Init, Abstract!Init, Regions
<1>2. RegionInv /\ RegionInv' /\ [Next]_vars => [Abstract!Allocate \/ Abstract!Release]_Regions
  <2> SUFFICES ASSUME RegionInv, RegionInv', [Next]_vars
               PROVE  Abstract!Allocate \/ Abstract!Release \/ UNCHANGED Regions
    OBVIOUS
  <2>1. ASSUME live' = live
        PROVE  UNCHANGED Regions
    BY <2>1 DEF Regions
  <2>2. ASSUME NEW size \in Sizes, alloc(size)
        PROVE  Abstract!Allocate \/ UNCHANGED Regions
    BY <2>2, AllocateRefines DEF alloc
  <2>3. ASSUME NEW size \in Sizes, NEW align \in Aligns, alloc_aligned(size, align)
        PROVE  Abstract!Allocate \/ UNCHANGED Regions
    BY <2>3, AllocateRefines DEF alloc_aligned
  <2>4. ASSUME NEW a \in live, dealloc(a) \/ dealloc_aligned(a)
        PROVE  Abstract!Release
    <3>1. live' = live \ {a}
      BY <2>4 DEF dealloc, dealloc_aligned
    <3> QED
      BY <3>1, ReleaseRefines
  <2>5. \/ UNCHANGED live
        \/ \E size \in Sizes : alloc(size)
        \/ \E size \in Sizes, align \in Aligns : alloc_aligned(size, align)
        \/ \E a \in live : dealloc(a) \/ dealloc_aligned(a)
    BY Zenon DEF Next, vars, alloc_null, alloc_panic, alloc_aligned_null, alloc_aligned_panic
  <2> QED
    BY <2>1, <2>2, <2>3, <2>4, <2>5
<1> QED
  BY <1>1, <1>2, Invariance, RegionFacts, PTL DEF Spec, ImplementsAllocator, Abstract!Spec
=============================================================================
