---------------------------- MODULE MemoryProofs ----------------------------
(***************************************************************************)
(* The safety of Memory, for any amount of memory, any size of the tables  *)
(* and of the heap, and any pages of the other kernel code.                *)
(***************************************************************************)
EXTENDS Memory, FiniteSetTheorems, NaturalsInduction, TLAPS

\* The frames pmm_init() and vmm_init() took, for good.
Low == 0 .. (FIRST_FREE - 1)
IdentityFrames == {IdentityTable(d) : d \in 0 .. (IDENTITY_TABLES - 1)}
Pages == (0 .. HEAP_MAX_PAGE) \cup UserPages

\* What is held is in use, and the frames of the boot are nobody's.
BitmapInv == Low \subseteq used /\ held \subseteq used \ Low

\* The identity region keeps its tables; every other table is a frame of its
\* own, or frame 0, which a failed allocation left there.
DirInv ==
    /\ \A d \in Tables : d < IDENTITY_TABLES => dir[d] = IdentityTable(d)
    /\ \A d \in Tables :
          ~(d < IDENTITY_TABLES) => dir[d] \in {NONE, 0} \cup (used \ (held \cup Low))
    /\ \A d, e \in Tables : dir[d] = dir[e] /\ dir[d] \notin {NONE, 0} => d = e

\* The tables of the identity region are as vmm_init() wrote them, the others
\* hold frames, and a frame that is no table has never been written as one.
TablesInv ==
    /\ \A p \in 0 .. (IDENTITY_PAGES - 1) : pt[IdentityTable(pd_index(p))][pt_index(p)] = p
    /\ \A f \in Frames \ IdentityFrames : pt[f] \in [Indices -> Entry]
    /\ \A f \in Frames \ TableFrames : pt[f] = ZeroTable

\* Pages of the heap have frames, in nobody else's hands ...
HeapInv ==
    TablesAreFrames =>
        \A v \in HeapPages :
            /\ Translate(v) \in Frames
            /\ Translate(v) # 0 =>
                  /\ Translate(v) \in used \ (held \cup TableFrames \cup Low)
                  /\ \A w \in HeapPages \ {v} : Translate(w) # Translate(v)

\* ... and other kernel code maps what it holds.
UserInv == TablesAreFrames => \A v \in UserPages : Translate(v) \in held \cup {NONE}

IInv ==
    /\ TypeOK /\ CounterMatchesBitmap /\ BitmapInv /\ DirInv /\ TablesInv
    /\ HeapInv /\ UserInv /\ UnmappedIsNotCached

-----------------------------------------------------------------------------
(* Sizes and indices.                                                      *)

\* Quotient and remainder.
LEMMA DivMod ==
    ASSUME NEW a \in Nat, NEW d \in Nat \ {0}
    PROVE  a = d * (a \div d) + (a % d) /\ a \div d \in Nat /\ a % d \in 0 .. (d - 1)
OBVIOUS

\* Products of naturals.
LEMMA Products ==
    ASSUME NEW a \in Nat, NEW b \in Nat, NEW c \in Nat
    PROVE  /\ a * b \in Nat /\ a * b = b * a
           /\ b < c => a * b + a <= a * c
           /\ b <= c => a * b <= a * c
OBVIOUS

\* The words of the bitmap hold every frame that exists.
LEMMA BitmapSize == BITMAP_BITS \in Nat /\ TOTAL_FRAMES \in Nat /\ TOTAL_FRAMES <= BITMAP_BITS
<1>0. /\ HasMemInfo \in BOOLEAN /\ MEM_UPPER \in Nat /\ LOW_KIB \in Nat /\ FALLBACK_KIB \in Nat
      /\ WRAP_KIB \in Nat \ {0} /\ PAGE_KIB \in Nat \ {0} /\ BITS_PER_WORD \in Nat \ {0}
  BY MemoryAssumption
<1>1. detect_memory \in Nat
  <2>1. (LOW_KIB + MEM_UPPER) % WRAP_KIB \in Nat
    BY <1>0, DivMod
  <2> QED
    BY <1>0, <2>1 DEF detect_memory
<1>2. TOTAL_FRAMES \in Nat
  BY <1>0, <1>1, DivMod DEF TOTAL_FRAMES
<1> DEFINE a == TOTAL_FRAMES + BITS_PER_WORD - 1
           q == a \div BITS_PER_WORD
           r == a % BITS_PER_WORD
<1>3. a \in Nat
  BY <1>0, <1>2
<1>4. a = BITS_PER_WORD * q + r /\ q \in Nat /\ r \in 0 .. (BITS_PER_WORD - 1)
  BY <1>0, <1>3, DivMod
<1>5. BITMAP_BITS = q * BITS_PER_WORD
  BY DEF BITMAP_BITS
<1> HIDE DEF q, r
<1>6. BITMAP_BITS = BITS_PER_WORD * q /\ BITMAP_BITS \in Nat
  BY <1>0, <1>4, <1>5, Products
<1>7. TOTAL_FRAMES + BITS_PER_WORD - 1 = BITMAP_BITS + r
  BY <1>4, <1>6
<1> QED
  BY <1>0, <1>2, <1>4, <1>6, <1>7

\* The sizes, without the arithmetic they come from.
LEMMA Sizes ==
    /\ BITMAP_BITS \in Nat /\ FIRST_FREE \in Nat /\ IDENTITY_PAGES \in Nat
    /\ IDENTITY_TABLES \in Nat \ {0} /\ PT_ENTRIES \in Nat \ {0}
    /\ RESERVED_FRAMES \in Nat \ {0} /\ PD_FRAME = RESERVED_FRAMES
    /\ FIRST_FREE = RESERVED_FRAMES + 1 + IDENTITY_TABLES
    /\ FIRST_FREE <= BITMAP_BITS /\ FIRST_FREE <= IDENTITY_PAGES
    /\ HEAP_START_PAGE \in Nat /\ HEAP_INITIAL_PAGES \in Nat /\ HEAP_MAX_PAGE \in Nat
    /\ HEAP_START_PAGE + HEAP_INITIAL_PAGES <= HEAP_MAX_PAGE
    /\ BITMAP_BITS <= HEAP_START_PAGE /\ IDENTITY_PAGES <= HEAP_START_PAGE
    /\ UserPages \subseteq Nat /\ \A v \in UserPages : v >= HEAP_MAX_PAGE
<1>1. /\ IDENTITY_TABLES \in Nat \ {0} /\ PT_ENTRIES \in Nat \ {0}
      /\ RESERVED_FRAMES \in Nat \ {0} /\ HEAP_MAX_PAGES \in Nat /\ HEAP_START_PAGE \in Nat
      /\ FIRST_FREE <= TOTAL_FRAMES
  BY MemoryAssumption
<1>2. IDENTITY_PAGES \in Nat
  BY <1>1, Products DEF IDENTITY_PAGES
<1>3. FIRST_FREE \in Nat /\ HEAP_MAX_PAGE \in Nat
  BY <1>1 DEF FIRST_FREE, PD_FRAME, HEAP_MAX_PAGE
<1>4. FIRST_FREE <= BITMAP_BITS
  BY <1>1, <1>3, BitmapSize
<1> QED
  BY <1>1, <1>2, <1>3, <1>4, BitmapSize, MemoryAssumption DEF FIRST_FREE, PD_FRAME, HEAP_MAX_PAGE

\* A page is one entry of one table, and no other page is.
LEMMA PageSlots ==
    /\ \A v \in Nat : pd_index(v) \in Nat /\ pt_index(v) \in Indices
    /\ \A v, w \in Nat : pd_index(v) = pd_index(w) /\ pt_index(v) = pt_index(w) => v = w
    /\ \A v \in Nat : pd_index(v) < IDENTITY_TABLES <=> v < IDENTITY_PAGES
    /\ \A v \in Pages : pd_index(v) \in Tables
<1>0. PT_ENTRIES \in Nat \ {0} /\ IDENTITY_TABLES \in Nat
  BY Sizes
<1>1. ASSUME NEW v \in Nat
      PROVE  /\ v = PT_ENTRIES * pd_index(v) + pt_index(v)
             /\ pd_index(v) \in Nat /\ pt_index(v) \in 0 .. (PT_ENTRIES - 1)
  BY <1>0, DivMod DEF pd_index, pt_index
<1>2. ASSUME NEW v \in Nat, NEW w \in Nat, pd_index(v) = pd_index(w), pt_index(v) = pt_index(w)
      PROVE  v = w
  BY <1>1, <1>2
<1>3. ASSUME NEW v \in Nat
      PROVE  pd_index(v) < IDENTITY_TABLES <=> v < IDENTITY_PAGES
  <2> DEFINE d == pd_index(v)
             i == pt_index(v)
  <2>1. v = PT_ENTRIES * d + i /\ d \in Nat /\ i \in 0 .. (PT_ENTRIES - 1)
    BY <1>1
  <2> HIDE DEF d, i
  <2>2. IDENTITY_PAGES = PT_ENTRIES * IDENTITY_TABLES /\ IDENTITY_PAGES \in Nat
    BY <1>0, Products, Sizes DEF IDENTITY_PAGES
  <2>3. PT_ENTRIES * d \in Nat
    BY <1>0, <2>1, Products
  <2>4. d < IDENTITY_TABLES => PT_ENTRIES * d + PT_ENTRIES <= PT_ENTRIES * IDENTITY_TABLES
    BY <1>0, <2>1, Products
  <2>5. IDENTITY_TABLES <= d => PT_ENTRIES * IDENTITY_TABLES <= PT_ENTRIES * d
    BY <1>0, <2>1, Products
  <2> DEFINE x == PT_ENTRIES * d
             y == PT_ENTRIES * IDENTITY_TABLES
  <2>6. /\ v = x + i /\ x \in Nat /\ IDENTITY_PAGES = y /\ y \in Nat
        /\ d < IDENTITY_TABLES => x + PT_ENTRIES <= y
        /\ IDENTITY_TABLES <= d => y <= x
    BY <2>1, <2>2, <2>3, <2>4, <2>5
  <2> HIDE DEF x, y
  <2>7. d < IDENTITY_TABLES <=> v < IDENTITY_PAGES
    BY <1>0, <2>1, <2>6
  <2> QED
    BY <2>7 DEF d
<1>4. \A v \in Pages : pd_index(v) \in Tables
  BY DEF Pages, Tables
<1> QED
  BY <1>1, <1>2, <1>3, <1>4 DEF Indices

-----------------------------------------------------------------------------
(* pmm.c.                                                                  *)

\* A non-empty set of frames has a lowest one.
LEMMA Minimum ==
    ASSUME NEW T, T \subseteq Nat, T # {}
    PROVE  \E s \in T : \A t \in T : s <= t
<1>1. PICK s \in T : \A t \in T : ~ (<<t, s>> \in OpToRel(<, Nat))
  BY NatLessThanWellFounded, WFMin
<1>2. \A t \in T : ~ (t < s)
  BY <1>1 DEF OpToRel
<1> QED
  BY <1>2

\* There are finitely many frames, and 0 is one.
LEMMA FramesFinite ==
    /\ IsFiniteSet(Frames) /\ Frames \subseteq Nat /\ 0 \in Frames
    /\ NONE \notin Frames /\ NONE # 0
    /\ Low \subseteq Frames /\ IdentityFrames \subseteq Low /\ PD_FRAME \in Low
    /\ 0 \in Low /\ 0 \notin IdentityFrames /\ PD_FRAME # 0 /\ NONE # PD_FRAME
    /\ \A d \in Nat : d < IDENTITY_TABLES => IdentityTable(d) \in IdentityFrames
<1>1. IsFiniteSet(Frames)
  BY FS_Interval, Sizes DEF Frames
<1>2. ASSUME NEW d \in 0 .. (IDENTITY_TABLES - 1)
      PROVE  IdentityTable(d) \in Low /\ IdentityTable(d) # 0
  BY Sizes DEF IdentityTable, Low
<1>3. IdentityFrames \subseteq Low /\ 0 \notin IdentityFrames
  BY <1>2 DEF IdentityFrames
<1>4. /\ Frames \subseteq Nat /\ 0 \in Frames /\ NONE \notin Frames /\ NONE # 0
      /\ Low \subseteq Frames /\ PD_FRAME \in Low /\ 0 \in Low /\ PD_FRAME # 0 /\ NONE # PD_FRAME
  BY Sizes DEF Frames, Low, NONE
<1>5. \A d \in Nat : d < IDENTITY_TABLES => IdentityTable(d) \in IdentityFrames
  BY Sizes DEF IdentityFrames
<1> QED
  BY <1>1, <1>3, <1>4, <1>5

\* pmm_alloc_frame(): a frame whose bit was clear, counted, or 0.
LEMMA AllocFacts ==
    ASSUME NEW u, u \subseteq Frames, NEW n, n = Cardinality(u), 0 \in u
    PROVE  /\ FrameFrom(u) \in Frames
           /\ FrameFrom(u) \notin u \/ FrameFrom(u) = 0
           /\ Marked(u) = u \cup {FrameFrom(u)}
           /\ Counted(u, n) = Cardinality(Marked(u))
           /\ Marked(u) \subseteq Frames
<1>1. CASE FreeFrames(u) = {}
  BY <1>1, FramesFinite DEF FrameFrom, Marked, Counted
<1>2. CASE FreeFrames(u) # {}
  <2>1. FreeFrames(u) \subseteq Nat
    BY FramesFinite DEF FreeFrames
  <2>2. \E f \in FreeFrames(u) : \A g \in FreeFrames(u) : f <= g
    BY <1>2, <2>1, Minimum
  <2>3. find_free_frame(u) \in FreeFrames(u)
    BY <2>2 DEF find_free_frame
  <2>4. FrameFrom(u) = find_free_frame(u) /\ Marked(u) = u \cup {find_free_frame(u)}
        /\ Counted(u, n) = n + 1
    BY <1>2 DEF FrameFrom, Marked, Counted
  <2>5. find_free_frame(u) \in Frames /\ find_free_frame(u) \notin u
    BY <2>3 DEF FreeFrames
  <2>6. IsFiniteSet(u)
    BY FramesFinite, FS_Subset
  <2>7. Cardinality(u \cup {find_free_frame(u)}) = Cardinality(u) + 1
    BY <2>5, <2>6, FS_AddElement
  <2> QED
    BY <2>4, <2>5, <2>7
<1> QED
  BY <1>1, <1>2

-----------------------------------------------------------------------------
(* vmm.c.                                                                  *)

\* The frames that hold a table, or 0, seen from one entry of the directory.
LEMMA DirFacts ==
    ASSUME IInv, NEW d \in Tables
    PROVE  /\ dir[d] \in Frames \cup {NONE}
           /\ dir[d] # NONE => dir[d] \in used
           /\ dir[d] # NONE => dir[d] \in TableFrames
           /\ ~(d < IDENTITY_TABLES) => dir[d] \notin IdentityFrames
           /\ d < IDENTITY_TABLES => dir[d] \in IdentityFrames
           /\ dir[d] \notin held
<1>1. /\ used \subseteq Frames /\ Low \subseteq used /\ held \subseteq used \ Low
      /\ d < IDENTITY_TABLES => dir[d] = IdentityTable(d)
      /\ ~(d < IDENTITY_TABLES) => dir[d] \in {NONE, 0} \cup (used \ (held \cup Low))
  BY DEF IInv, TypeOK, BitmapInv, DirInv
<1>2. d \in Nat
  <2>1. \A v \in (0 .. HEAP_MAX_PAGE) \cup UserPages : v \in Nat
    BY Sizes
  <2> QED
    BY <2>1, PageSlots DEF Tables
<1>3. d < IDENTITY_TABLES => dir[d] \in IdentityFrames
  BY <1>1, <1>2, FramesFinite
<1>4. dir[d] \in TableFrames
  BY DEF TableFrames
<1> QED
  BY <1>1, <1>3, <1>4, FramesFinite

\* A table, seen from the pages: where vmm_map_page() writes the entry of v.
MapsInto(table, v, f, u) ==
    /\ table \in Frames \ IdentityFrames
    /\ dir' = [dir EXCEPT ![pd_index(v)] = table]
    /\ \/ dir[pd_index(v)] = NONE /\ (table \notin u \/ table = 0)
       \/ dir[pd_index(v)] = table
    /\ \/ fault' = TRUE /\ pt' = pt
       \/ /\ fault' = FALSE
          /\ \E old \in [Indices -> Entry] :
                /\ old = IF dir[pd_index(v)] = NONE THEN ZeroTable ELSE pt[table]
                /\ pt' = [pt EXCEPT ![table] = [old EXCEPT ![pt_index(v)] = f]]

\* vmm_map_page() finds such a table, and the counter stays exact.
LEMMA MapEffect ==
    ASSUME IInv, NEW v \in Pages, v >= HEAP_START_PAGE, NEW f \in Frames,
           NEW u, used \subseteq u, u \subseteq Frames, NEW n, n = Cardinality(u),
           vmm_map_page(v, f, u, n)
    PROVE  \E table : /\ MapsInto(table, v, f, u)
                      /\ used' = u \cup {table}
                      /\ used' \subseteq Frames
                      /\ used_frames' = Cardinality(used')
<1> DEFINE d == pd_index(v)
           table == IF dir[d] = NONE THEN FrameFrom(u) ELSE dir[d]
           old == IF dir[d] = NONE THEN ZeroTable ELSE pt[table]
<1>1. /\ used' = (IF dir[d] = NONE THEN Marked(u) ELSE u)
      /\ used_frames' = (IF dir[d] = NONE THEN Counted(u, n) ELSE n)
      /\ dir' = [dir EXCEPT ![d] = table]
      /\ fault' = (Translate(table) # table)
      /\ pt' = IF fault' THEN pt ELSE [pt EXCEPT ![table] = [old EXCEPT ![pt_index(v)] = f]]
  BY DEF vmm_map_page
<1>2. d \in Tables /\ ~(d < IDENTITY_TABLES)
  <2>1. v \in Nat /\ ~(v < IDENTITY_PAGES)
    BY Sizes DEF Pages
  <2> QED
    BY <2>1, PageSlots
<1>3. 0 \in u /\ IdentityFrames \subseteq u
  BY FramesFinite DEF IInv, BitmapInv
<1>4. /\ FrameFrom(u) \in Frames /\ (FrameFrom(u) \notin u \/ FrameFrom(u) = 0)
      /\ Marked(u) = u \cup {FrameFrom(u)} /\ Counted(u, n) = Cardinality(Marked(u))
      /\ Marked(u) \subseteq Frames
  BY <1>3, AllocFacts
<1>5. /\ dir[d] \in Frames \cup {NONE} /\ (dir[d] # NONE => dir[d] \in used)
      /\ dir[d] \notin IdentityFrames
  BY <1>2, DirFacts
<1> HIDE DEF d
<1>6. table \in Frames \ IdentityFrames
  BY <1>3, <1>4, <1>5, FramesFinite
<1>7. used' = u \cup {table} /\ used' \subseteq Frames /\ used_frames' = Cardinality(used')
  BY <1>1, <1>4, <1>5
<1>8. \/ dir[d] = NONE /\ (table \notin u \/ table = 0)
      \/ dir[d] = table
  BY <1>4
<1> HIDE DEF table
<1>9. old \in [Indices -> Entry]
  BY <1>6 DEF IInv, TablesInv, ZeroTable, Entry
<1>10. old = IF dir[d] = NONE THEN ZeroTable ELSE pt[table]
  OBVIOUS
<1> HIDE DEF old
<1>11. \/ fault' = TRUE /\ pt' = pt
       \/ fault' = FALSE /\ pt' = [pt EXCEPT ![table] = [old EXCEPT ![pt_index(v)] = f]]
  BY <1>1
<1>12. MapsInto(table, v, f, u)
  BY <1>1, <1>6, <1>8, <1>9, <1>10, <1>11 DEF MapsInto, d
<1> QED
  BY <1>7, <1>12


TableType == [Indices -> 0 .. (BITMAP_BITS + IDENTITY_PAGES) \cup {NONE}]

\* Entries of tables fit their type.
LEMMA EntryFits == [Indices -> Entry] \subseteq TableType /\ ZeroTable \in [Indices -> Entry]
<1>1. Entry \subseteq 0 .. (BITMAP_BITS + IDENTITY_PAGES) \cup {NONE}
  BY Sizes DEF Entry, Frames
<1> QED
  BY <1>1 DEF TableType, ZeroTable, Entry

\* What a mapping leaves of the directory and the tables, and what it makes of
\* every page when no table is frame 0: the page that is mapped gets its frame,
\* unless the write faults, and no other page changes.
LEMMA MapKeeps ==
    ASSUME IInv, NEW v \in Pages, v >= HEAP_START_PAGE, NEW f \in Frames,
           NEW u, used \subseteq u, u \subseteq Frames, NEW table, MapsInto(table, v, f, u),
           used' = u \cup {table}, held' = held
    PROVE  /\ dir' \in [Tables -> Entry] /\ pt' \in [Frames -> TableType] /\ fault' \in BOOLEAN
           /\ BitmapInv' /\ DirInv' /\ TablesInv'
           /\ TableFrames' \subseteq TableFrames \cup {table}
           /\ table \in TableFrames \/ table \notin u \/ table = 0
           /\ TablesAreFrames' =>
                 /\ TablesAreFrames /\ table # 0
                 /\ \A w \in Pages :
                       Translate(w)' = IF w = v /\ ~fault' THEN f ELSE Translate(w)
<1> DEFINE d == pd_index(v)
           x == pt_index(v)
<1>0. /\ table \in Frames \ IdentityFrames /\ dir' = [dir EXCEPT ![d] = table]
      /\ \/ dir[d] = NONE /\ (table \notin u \/ table = 0)
         \/ dir[d] = table
  BY DEF MapsInto
<1>1. PICK old \in [Indices -> Entry] :
          /\ ~fault' => old = IF dir[d] = NONE THEN ZeroTable ELSE pt[table]
          /\ \/ fault' = TRUE /\ pt' = pt
             \/ fault' = FALSE /\ pt' = [pt EXCEPT ![table] = [old EXCEPT ![x] = f]]
  <2>1. CASE fault' = TRUE /\ pt' = pt
    BY <2>1, EntryFits
  <2>2. CASE ~(fault' = TRUE /\ pt' = pt)
    BY <2>2 DEF MapsInto
  <2> QED
    BY <2>1, <2>2
<1>2. /\ v \in Nat /\ d \in Tables /\ ~(d < IDENTITY_TABLES) /\ x \in Indices
      /\ \A w \in Pages : w \in Nat /\ pd_index(w) \in Tables /\ pt_index(w) \in Indices
      /\ \A w \in Pages : pd_index(w) = d /\ pt_index(w) = x => w = v
  <2>1. \A w \in Pages : w \in Nat
    BY Sizes DEF Pages
  <2>2. ~(v < IDENTITY_PAGES)
    BY <2>1, Sizes
  <2> QED
    BY <2>1, <2>2, PageSlots
<1> DEFINE new == [old EXCEPT ![x] = f]
<1>3. new \in [Indices -> Entry] /\ new[x] = f /\ \A j \in Indices : j # x => new[j] = old[j]
  BY <1>1, <1>2 DEF Entry
<1>4. /\ dir \in [Tables -> Entry] /\ pt \in [Frames -> TableType]
      /\ Low \subseteq used /\ held \subseteq used \ Low /\ used \subseteq Frames
  BY DEF IInv, TypeOK, BitmapInv, TableType
<1>5. \/ fault' = TRUE /\ pt' = pt
      \/ fault' = FALSE /\ pt' = [pt EXCEPT ![table] = new]
  BY <1>1
<1> HIDE DEF new, d, x
<1>6. /\ DOMAIN pt' = Frames
      /\ \A g \in Frames \ {table} : pt'[g] = pt[g]
      /\ pt'[table] = IF fault' THEN pt[table] ELSE new
      /\ fault' \in BOOLEAN
      /\ pt' \in [Frames -> TableType]
  <2>1. new \in TableType
    BY <1>3, EntryFits
  <2> QED
    BY <1>0, <1>4, <1>5, <2>1
<1>7. /\ dir' \in [Tables -> Entry] /\ dir'[d] = table
      /\ \A e \in Tables : e # d => dir'[e] = dir[e]
  BY <1>0, <1>2, <1>4 DEF Entry
<1>8. BitmapInv'
  BY <1>4 DEF BitmapInv, Low
<1>9. \A e \in Tables : dir[e] # NONE => dir[e] \in used /\ dir[e] \in u
  BY DirFacts
<1>10. DirInv'
  <2>1. \A e \in Tables : e < IDENTITY_TABLES => dir'[e] = IdentityTable(e)
    BY <1>2, <1>7 DEF IInv, DirInv
  <2>2. \A e \in Tables :
            ~(e < IDENTITY_TABLES) => dir'[e] \in {NONE, 0} \cup (used' \ (held' \cup Low))
    <3>1. table \in {NONE, 0} \cup (used' \ (held' \cup Low))
      BY <1>0, <1>2, <1>4 DEF IInv, DirInv
    <3>2. \A e \in Tables : ~(e < IDENTITY_TABLES) =>
              dir[e] \in {NONE, 0} \cup (used' \ (held' \cup Low))
      BY DEF IInv, DirInv
    <3> QED
      BY <1>7, <3>1, <3>2
  <2>3. ASSUME NEW e \in Tables, NEW g \in Tables, dir'[e] = dir'[g], dir'[e] \notin {NONE, 0}
        PROVE  e = g
    <3>1. CASE e # d /\ g # d
      BY <1>7, <2>3, <3>1 DEF IInv, DirInv
    <3>2. ASSUME NEW h \in Tables, h # d, dir[h] = table, table # 0, table # NONE
          PROVE  FALSE
      BY <1>0, <1>2, <1>9, <3>2 DEF IInv, DirInv
    <3> QED
      BY <1>7, <2>3, <3>1, <3>2
  <2> QED
    BY <2>1, <2>2, <2>3 DEF DirInv, Low
<1>11. TableFrames' \subseteq TableFrames \cup {table}
  BY <1>7 DEF TableFrames
<1>12. \A g \in TableFrames : g \in TableFrames' \/ g = NONE
  <2>1. \A e \in Tables : dir[e] \in TableFrames' \/ dir[e] = NONE
    <3>1. CASE dir[d] = table
      BY <1>7, <3>1 DEF TableFrames
    <3>2. CASE dir[d] = NONE
      BY <1>7, <3>2 DEF TableFrames
    <3> QED
      BY <1>0, <3>1, <3>2
  <2> QED
    BY <2>1 DEF TableFrames
<1>13. table \in TableFrames' /\ NONE \notin Frames
  BY <1>2, <1>7, FramesFinite DEF TableFrames
<1>14. TablesInv'
  <2>1. \A p \in 0 .. (IDENTITY_PAGES - 1) : pt'[IdentityTable(pd_index(p))][pt_index(p)] = p
    <3> SUFFICES ASSUME NEW p \in 0 .. (IDENTITY_PAGES - 1)
                 PROVE  pt'[IdentityTable(pd_index(p))] = pt[IdentityTable(pd_index(p))]
      BY DEF IInv, TablesInv
    <3>1. p \in Nat /\ p < IDENTITY_PAGES
      BY Sizes
    <3>2. pd_index(p) \in Nat /\ pd_index(p) < IDENTITY_TABLES
      BY <3>1, PageSlots
    <3>3. IdentityTable(pd_index(p)) \in IdentityFrames
      BY <3>2, FramesFinite
    <3> QED
      BY <1>0, <1>6, <3>3, FramesFinite
  <2>2. \A g \in Frames \ IdentityFrames : pt'[g] \in [Indices -> Entry]
    BY <1>0, <1>3, <1>6 DEF IInv, TablesInv
  <2>3. \A g \in Frames \ TableFrames' : pt'[g] = ZeroTable
    <3> SUFFICES ASSUME NEW g \in Frames \ TableFrames'
                 PROVE  pt'[g] = ZeroTable
      OBVIOUS
    <3>1. g \notin TableFrames /\ g # table
      BY <1>12, <1>13
    <3> QED
      BY <1>6, <3>1 DEF IInv, TablesInv
  <2> QED
    BY <2>1, <2>2, <2>3 DEF TablesInv, Frames, IdentityFrames
<1>15. table \in TableFrames \/ table \notin u \/ table = 0
  BY <1>0, <1>2 DEF TableFrames
<1>16. ASSUME TablesAreFrames'
       PROVE  /\ TablesAreFrames /\ table # 0
              /\ \A w \in Pages : Translate(w)' = IF w = v /\ ~fault' THEN f ELSE Translate(w)
  <2>1. table # 0 /\ TablesAreFrames
    <3>1. \A e \in Tables : dir'[e] # 0
      BY <1>16 DEF TablesAreFrames
    <3> QED
      BY <1>0, <1>2, <1>7, <3>1, FramesFinite DEF TablesAreFrames
  <2>2. table # NONE /\ (dir[d] = NONE => pt[table] = ZeroTable)
    <3>1. dir[d] = NONE => table \notin TableFrames
      <4> SUFFICES ASSUME dir[d] = NONE, table \in TableFrames
                   PROVE  FALSE
        OBVIOUS
      <4>1. table \notin u /\ PD_FRAME \in u
        BY <1>0, <1>4, <1>13, <2>1, FramesFinite
      <4>2. PICK e \in Tables : dir[e] = table
        BY <4>1 DEF TableFrames
      <4> QED
        BY <1>0, <1>9, <1>13, <4>1, <4>2
    <3> QED
      BY <1>0, <1>13, <3>1 DEF IInv, TablesInv
  <2>3. ASSUME NEW w \in Pages
        PROVE  Translate(w)' = IF w = v /\ ~fault' THEN f ELSE Translate(w)
    <3> DEFINE e == pd_index(w)
               j == pt_index(w)
    <3>1. e \in Tables /\ j \in Indices /\ (e = d /\ j = x => w = v) /\ (w = v => e = d /\ j = x)
      BY <1>2 DEF d, x
    <3>2. /\ Translate(w)' = IF dir'[e] = NONE THEN NONE ELSE pt'[dir'[e]][j]
          /\ Translate(w) = IF dir[e] = NONE THEN NONE ELSE pt[dir[e]][j]
      BY DEF Translate
    <3> HIDE DEF e, j
    <3>3. CASE e # d
      <4>1. dir'[e] = dir[e] /\ w # v
        BY <1>7, <3>1, <3>3
      <4>2. dir[e] # NONE => dir[e] # table /\ dir[e] \in Frames
        BY <1>0, <1>2, <1>4, <1>9, <2>1, <2>2, <3>1, <3>3 DEF IInv, DirInv
      <4> QED
        BY <1>6, <3>2, <4>1, <4>2
    <3>4. CASE e = d
      <4>1. Translate(w)' = pt'[table][j]
        BY <1>7, <2>2, <3>2, <3>4
      <4>2. Translate(w) = pt[table][j]
        <5>1. CASE dir[d] = NONE
          BY <2>2, <3>1, <3>2, <3>4, <5>1 DEF ZeroTable
        <5>2. CASE dir[d] = table
          BY <2>2, <3>2, <3>4, <5>2
        <5> QED
          BY <1>0, <5>1, <5>2
      <4>3. ~fault' => old = pt[table]
        BY <1>1, <2>2
      <4>4. CASE fault'
        BY <1>6, <4>1, <4>2, <4>4
      <4>5. CASE ~fault'
        BY <1>3, <1>6, <3>1, <3>4, <4>1, <4>2, <4>3, <4>5
      <4> QED
        BY <4>4, <4>5
    <3> QED
      BY <3>3, <3>4
  <2> QED
    BY <2>1, <2>3
<1> QED
  BY <1>6, <1>7, <1>8, <1>10, <1>11, <1>14, <1>15, <1>16


-----------------------------------------------------------------------------
(* The steps.                                                              *)

\* The type invariant, in the terms of this module, and where the pages are.
LEMMA Types ==
    /\ TypeOK <=>
          /\ used \subseteq Frames /\ used_frames \in Nat /\ dir \in [Tables -> Entry]
          /\ pt \in [Frames -> TableType] /\ tlb \subseteq [page : UserPages, frame : Frames]
          /\ held \subseteq Frames /\ heap_end \in HEAP_START_PAGE .. HEAP_MAX_PAGE
          /\ va \in HEAP_START_PAGE .. heap_end /\ fault \in BOOLEAN
    /\ TypeOK => /\ HeapPages \subseteq Pages /\ UserPages \subseteq Pages
                 /\ HeapPages \cap UserPages = {}
                 /\ va \in Pages /\ va \notin HeapPages /\ va >= HEAP_START_PAGE
                 /\ \A v \in UserPages : v >= HEAP_START_PAGE
                 /\ \A v \in HeapPages : v >= HEAP_START_PAGE
<1>1. TypeOK <=>
          /\ used \subseteq Frames /\ used_frames \in Nat /\ dir \in [Tables -> Entry]
          /\ pt \in [Frames -> TableType] /\ tlb \subseteq [page : UserPages, frame : Frames]
          /\ held \subseteq Frames /\ heap_end \in HEAP_START_PAGE .. HEAP_MAX_PAGE
          /\ va \in HEAP_START_PAGE .. heap_end /\ fault \in BOOLEAN
  BY DEF TypeOK, TableType
<1>2. ASSUME TypeOK
      PROVE  /\ HeapPages \subseteq Pages /\ UserPages \subseteq Pages
             /\ HeapPages \cap UserPages = {}
             /\ va \in Pages /\ va \notin HeapPages /\ va >= HEAP_START_PAGE
             /\ \A v \in UserPages : v >= HEAP_START_PAGE
             /\ \A v \in HeapPages : v >= HEAP_START_PAGE
  <2>1. heap_end \in Nat /\ va \in Nat /\ va <= heap_end /\ heap_end <= HEAP_MAX_PAGE
        /\ HEAP_START_PAGE <= va
    BY <1>2, Sizes DEF TypeOK
  <2>2. \A v \in HeapPages : v \in Nat /\ v >= HEAP_START_PAGE /\ v < va
    BY <2>1, Sizes DEF HeapPages
  <2>3. \A v \in UserPages : v \in Nat /\ v >= HEAP_MAX_PAGE /\ v >= HEAP_START_PAGE
    BY <2>1, Sizes
  <2> QED
    BY <2>1, <2>2, <2>3, Sizes DEF Pages
<1> QED
  BY <1>1, <1>2

\* Steps that touch no table leave every page as it was.
LEMMA SameTables ==
    ASSUME UNCHANGED <<dir, pt>>
    PROVE  /\ TableFrames' = TableFrames /\ (TablesAreFrames' <=> TablesAreFrames)
           /\ \A w : Translate(w)' = Translate(w)
BY DEF TableFrames, TablesAreFrames, Translate

\* What boot leaves.
LEMMA InitInv ==
    ASSUME Init
    PROVE  IInv
<1>1. /\ used = Low /\ used_frames = FIRST_FREE /\ tlb = {} /\ held = {}
      /\ heap_end = HEAP_START_PAGE + HEAP_INITIAL_PAGES /\ va = HEAP_START_PAGE
      /\ fault = FALSE /\ HeapPages = {}
  BY Sizes DEF Init, PagingReady, Low, HeapPages
<1>2. /\ \A d \in Tables : d \in Nat
      /\ \A p \in Nat : p < IDENTITY_PAGES => p \in Pages
  <2>1. \A v \in (0 .. HEAP_MAX_PAGE) \cup UserPages : v \in Nat
    BY Sizes
  <2> QED
    BY <2>1, PageSlots, Sizes DEF Tables, Pages
<1>3. /\ dir = [d \in Tables |-> IF d < IDENTITY_TABLES THEN IdentityTable(d) ELSE NONE]
      /\ pt = [f \in Frames |->
                  [i \in Indices |-> IF f \in IdentityFrames
                                     THEN (f - IdentityTable(0)) * PT_ENTRIES + i ELSE NONE]]
  BY DEF Init, PagingReady, IdentityFrames
<1>4. dir \in [Tables -> Entry]
  <2>1. \A d \in Tables : d < IDENTITY_TABLES => IdentityTable(d) \in Frames
    BY <1>2, FramesFinite
  <2> QED
    BY <1>3, <2>1 DEF Entry
<1>5. \A f \in Frames \ IdentityFrames : pt[f] = ZeroTable /\ pt[f] \in [Indices -> Entry]
  BY <1>3, EntryFits DEF ZeroTable
<1>6. ASSUME NEW d \in Nat, d < IDENTITY_TABLES, NEW j \in Indices
      PROVE  /\ pt[IdentityTable(d)][j] = PT_ENTRIES * d + j
             /\ PT_ENTRIES * d + j \in 0 .. (IDENTITY_PAGES - 1)
  <2>0. /\ IDENTITY_TABLES \in Nat /\ PT_ENTRIES \in Nat \ {0} /\ RESERVED_FRAMES \in Nat
        /\ PD_FRAME = RESERVED_FRAMES /\ IDENTITY_PAGES \in Nat
    BY Sizes
  <2>1. IdentityTable(d) \in Frames /\ IdentityTable(d) \in IdentityFrames
    BY <1>6, FramesFinite
  <2>2. IdentityTable(d) - IdentityTable(0) = d
    BY <2>0 DEF IdentityTable
  <2>3. d * PT_ENTRIES = PT_ENTRIES * d /\ PT_ENTRIES * d \in Nat
        /\ PT_ENTRIES * d + PT_ENTRIES <= PT_ENTRIES * IDENTITY_TABLES
        /\ IDENTITY_PAGES = PT_ENTRIES * IDENTITY_TABLES
    BY <1>6, <2>0, Products DEF IDENTITY_PAGES
  <2>4. pt[IdentityTable(d)][j] = d * PT_ENTRIES + j
    BY <1>3, <2>1, <2>2
  <2> DEFINE y == PT_ENTRIES * d
             z == PT_ENTRIES * IDENTITY_TABLES
  <2>5. y \in Nat /\ y + PT_ENTRIES <= z /\ IDENTITY_PAGES = z
    BY <2>3
  <2> HIDE DEF y, z
  <2>6. j \in 0 .. (PT_ENTRIES - 1)
    BY DEF Indices
  <2>7. y + j \in 0 .. (IDENTITY_PAGES - 1)
    BY <2>0, <2>5, <2>6
  <2> QED
    BY <2>3, <2>4, <2>7 DEF y
<1>7. pt \in [Frames -> TableType]
  <2>1. \A f \in Frames \ IdentityFrames : pt[f] \in TableType
    BY <1>5, EntryFits
  <2>2. ASSUME NEW f \in IdentityFrames
        PROVE  pt[f] \in TableType
    <3>1. PICK d \in 0 .. (IDENTITY_TABLES - 1) : f = IdentityTable(d)
      BY DEF IdentityFrames
    <3>2. d \in Nat /\ d < IDENTITY_TABLES
      BY Sizes
    <3>3. f \in Frames /\ DOMAIN pt[f] = Indices /\ pt[f] = [j \in Indices |-> pt[f][j]]
      BY <1>3, FramesFinite
    <3>4. \A j \in Indices : pt[f][j] \in 0 .. (BITMAP_BITS + IDENTITY_PAGES)
      <4> SUFFICES ASSUME NEW j \in Indices
                   PROVE  pt[f][j] \in 0 .. (BITMAP_BITS + IDENTITY_PAGES)
        OBVIOUS
      <4>1. pt[f][j] \in 0 .. (IDENTITY_PAGES - 1)
        BY <1>6, <3>1, <3>2
      <4> QED
        BY <4>1, Sizes
    <3> QED
      BY <3>3, <3>4 DEF TableType
  <2>3. DOMAIN pt = Frames /\ pt = [f \in Frames |-> pt[f]]
    BY <1>3
  <2> QED
    BY <2>1, <2>2, <2>3
<1>8. IsFiniteSet(Low) /\ Cardinality(Low) = FIRST_FREE
  BY FS_Interval, Sizes DEF Low
<1>9. TypeOK
  <2>1. heap_end \in HEAP_START_PAGE .. HEAP_MAX_PAGE /\ va \in HEAP_START_PAGE .. heap_end
    BY <1>1, Sizes
  <2>2. used \subseteq Frames /\ used_frames \in Nat
    BY <1>1, Sizes, FramesFinite
  <2>3. fault \in BOOLEAN /\ tlb \subseteq [page : UserPages, frame : Frames] /\ held \subseteq Frames
    BY <1>1
  <2> QED
    BY <1>4, <1>7, <2>1, <2>2, <2>3, Types
<1>10. CounterMatchesBitmap /\ BitmapInv
  BY <1>1, <1>8 DEF CounterMatchesBitmap, BitmapInv
<1>11. DirInv
  <2>1. ASSUME NEW d \in Tables, NEW e \in Tables, dir[d] = dir[e], dir[d] \notin {NONE, 0}
        PROVE  d = e
    <3>1. d < IDENTITY_TABLES /\ e < IDENTITY_TABLES /\ IdentityTable(d) = IdentityTable(e)
      BY <1>3, <2>1
    <3>2. d \in Nat /\ e \in Nat
      BY <1>2
    <3> QED
      BY <3>1, <3>2, Sizes DEF IdentityTable
  <2> QED
    BY <1>3, <2>1 DEF DirInv
<1>12. TablesInv
  <2>1. ASSUME NEW p \in 0 .. (IDENTITY_PAGES - 1)
        PROVE  pt[IdentityTable(pd_index(p))][pt_index(p)] = p
    <3>1. p \in Nat /\ p < IDENTITY_PAGES
      BY Sizes
    <3>2. pd_index(p) \in Nat /\ pd_index(p) < IDENTITY_TABLES /\ pt_index(p) \in Indices
      BY <3>1, PageSlots
    <3>3. p = PT_ENTRIES * pd_index(p) + pt_index(p)
      BY <3>1, DivMod, Sizes DEF pd_index, pt_index
    <3> QED
      BY <1>6, <3>2, <3>3
  <2>2. IdentityFrames \subseteq TableFrames
    <3>1. ASSUME NEW d \in 0 .. (IDENTITY_TABLES - 1)
          PROVE  IdentityTable(d) \in TableFrames
      <4> DEFINE p == PT_ENTRIES * d + 0
      <4>1. d \in Nat /\ d < IDENTITY_TABLES /\ 0 \in Indices
        BY Sizes DEF Indices
      <4>2. p \in 0 .. (IDENTITY_PAGES - 1)
        BY <1>6, <4>1
      <4>3. p \in Nat /\ p < IDENTITY_PAGES
        BY <4>2, Sizes
      <4>4. PT_ENTRIES * d \in Nat /\ PT_ENTRIES \in Nat \ {0}
        BY <4>1, Products, Sizes
      <4>5. pd_index(p) = d
        BY <4>1, <4>4 DEF pd_index
      <4>6. d \in Tables
        BY <1>2, <4>3, <4>5, PageSlots
      <4> QED
        BY <1>3, <4>1, <4>6 DEF TableFrames
    <3> QED
      BY <3>1 DEF IdentityFrames
  <2> QED
    BY <1>5, <2>1, <2>2 DEF TablesInv
<1>13. HeapInv /\ UnmappedIsNotCached
  BY <1>1 DEF HeapInv, UnmappedIsNotCached
<1>14. UserInv
  <2> SUFFICES ASSUME NEW v \in UserPages
               PROVE  Translate(v) = NONE
    BY DEF UserInv
  <2>1. v \in Nat /\ ~(v < IDENTITY_PAGES) /\ v \in Pages
    BY Sizes DEF Pages
  <2>2. pd_index(v) \in Tables /\ ~(pd_index(v) < IDENTITY_TABLES)
    BY <2>1, PageSlots
  <2> QED
    BY <1>3, <2>2 DEF Translate
<1> QED
  BY <1>9, <1>10, <1>11, <1>12, <1>13, <1>14 DEF IInv

\* A growth moves heap_end only.
LEMMA HeapGrow ==
    ASSUME IInv, NEW pages \in GrowthSizes, munux_c_heap_grow(pages)
    PROVE  IInv'
<1>1. /\ heap_end + pages <= HEAP_MAX_PAGE /\ heap_end' = heap_end + pages
      /\ UNCHANGED <<used, used_frames, dir, pt, tlb, held, va, fault>> /\ pages \in Nat
  BY MemoryAssumption DEF munux_c_heap_grow
<1>2. TypeOK'
  BY <1>1, Sizes DEF IInv, TypeOK, Frames, Tables, Entry, Indices
<1>3. /\ TableFrames' = TableFrames /\ (TablesAreFrames' <=> TablesAreFrames)
      /\ \A w : Translate(w)' = Translate(w)
  BY <1>1, SameTables
<1>4. HeapPages' = HeapPages
  BY <1>1 DEF HeapPages
<1> QED
  BY <1>1, <1>2, <1>3, <1>4
     DEF IInv, CounterMatchesBitmap, BitmapInv, DirInv, TablesInv, HeapInv, UserInv,
         UnmappedIsNotCached


\* A frame changes hands between the bitmap and other kernel code.
LEMMA Handed ==
    ASSUME IInv, UNCHANGED <<dir, pt, tlb, heap_end, va, fault>>, NEW f \in Frames \ Low,
           \/ f \notin used /\ used' = used \cup {f} /\ held' = held \cup {f}
           \/ /\ f \in held /\ \A v \in UserPages : Translate(v) # f
              /\ used' = used \ {f} /\ held' = held \ {f},
           used_frames' = Cardinality(used')
    PROVE  IInv'
<1>1. /\ TypeOK /\ used \subseteq Frames /\ held \subseteq used \ Low /\ Low \subseteq used
      /\ CounterMatchesBitmap /\ DirInv /\ TablesInv /\ HeapInv /\ UserInv /\ UnmappedIsNotCached
  BY DEF IInv, TypeOK, BitmapInv
<1>2. /\ TableFrames' = TableFrames /\ (TablesAreFrames' <=> TablesAreFrames)
      /\ \A w : Translate(w)' = Translate(w)
  BY SameTables
<1>3. HeapPages' = HeapPages
  BY DEF HeapPages
<1>4. used' \subseteq Frames /\ held' \subseteq used' \ Low /\ Low \subseteq used'
  BY <1>1
<1>5. TypeOK' /\ CounterMatchesBitmap'
  <2>1. IsFiniteSet(used')
    BY <1>4, FramesFinite, FS_Subset
  <2>2. used_frames' \in Nat
    BY <2>1, FS_CardinalityType
  <2>3. held' \subseteq Frames
    BY <1>4
  <2> QED
    BY <1>1, <1>4, <2>2, <2>3
       DEF TypeOK, CounterMatchesBitmap, Frames, Tables, Entry, Indices
<1>6. BitmapInv'
  BY <1>4 DEF BitmapInv, Low
<1>7. \A g \in used \ held : g \in used' \ held' \/ g \in Low
  BY <1>1
<1>8. DirInv'
  <2>1. \A d \in Tables : dir[d] \in used \ (held \cup Low) => dir[d] \in used' \ (held' \cup Low)
    BY <1>7
  <2> QED
    BY <1>1, <2>1 DEF DirInv, Low
<1>9. TablesInv'
  BY <1>1, <1>2 DEF TablesInv
<1>10. HeapInv'
  <2>1. \A v \in HeapPages : Translate(v) \in used \ (held \cup TableFrames \cup Low) =>
            Translate(v) \in used' \ (held' \cup TableFrames \cup Low)
    BY <1>7
  <2> QED
    BY <1>1, <1>2, <1>3, <2>1 DEF HeapInv, Frames, Low
<1>11. UserInv'
  BY <1>1, <1>2 DEF UserInv
<1>12. UnmappedIsNotCached'
  BY <1>1, <1>2 DEF UnmappedIsNotCached
<1> QED
  BY <1>5, <1>6, <1>8, <1>9, <1>10, <1>11, <1>12 DEF IInv

\* pmm_alloc_frame() for other kernel code.
LEMMA AllocFrame ==
    ASSUME IInv, pmm_alloc_frame
    PROVE  IInv'
<1>1. /\ FrameFrom(used) # 0 /\ held' = held \cup {FrameFrom(used)} /\ used' = Marked(used)
      /\ used_frames' = Counted(used, used_frames)
      /\ UNCHANGED <<dir, pt, tlb, heap_end, va, fault>>
  BY DEF pmm_alloc_frame
<1>2. used \subseteq Frames /\ used_frames = Cardinality(used) /\ 0 \in used /\ Low \subseteq used
  BY FramesFinite DEF IInv, TypeOK, CounterMatchesBitmap, BitmapInv
<1>3. /\ FrameFrom(used) \in Frames /\ FrameFrom(used) \notin used
      /\ Marked(used) = used \cup {FrameFrom(used)}
      /\ Counted(used, used_frames) = Cardinality(Marked(used))
  BY <1>1, <1>2, AllocFacts
<1> QED
  BY <1>1, <1>2, <1>3, Handed

\* pmm_free_frame().
LEMMA FreeFrame ==
    ASSUME IInv, NEW f \in held, pmm_free_frame(f)
    PROVE  IInv'
<1>1. /\ \A v \in UserPages : Translate(v) # f
      /\ held' = held \ {f} /\ used' = used \ {f}
      /\ used_frames' = IF used_frames > 0 THEN used_frames - 1 ELSE used_frames
      /\ UNCHANGED <<dir, pt, tlb, heap_end, va, fault>>
  BY DEF pmm_free_frame
<1>2. used \subseteq Frames /\ used_frames = Cardinality(used) /\ f \in used /\ f \in Frames \ Low
  BY DEF IInv, TypeOK, CounterMatchesBitmap, BitmapInv
<1>3. IsFiniteSet(used)
  BY <1>2, FramesFinite, FS_Subset
<1>4. Cardinality(used \ {f}) = Cardinality(used) - 1 /\ IsFiniteSet(used \ {f})
  BY <1>2, <1>3, FS_RemoveElement
<1>5. Cardinality(used) \in Nat /\ Cardinality(used \ {f}) \in Nat
  BY <1>3, <1>4, FS_CardinalityType
<1>6. used_frames' = Cardinality(used')
  <2>1. used_frames > 0
    BY <1>2, <1>4, <1>5
  <2> QED
    BY <1>1, <1>2, <1>4, <2>1
<1> QED
  BY <1>1, <1>2, <1>6, Handed

\* One turn of map_heap_range(): two frames are taken, one for the page and,
\* when there is none, one for its table.
LEMMA MapHeap ==
    ASSUME IInv, map_heap_range
    PROVE  IInv'
<1> DEFINE f == FrameFrom(used)
           u == Marked(used)
           n == Counted(used, used_frames)
<1>1. /\ va < heap_end /\ vmm_map_page(va, f, u, n) /\ va' = (IF fault' THEN va ELSE va + 1)
      /\ UNCHANGED <<tlb, held, heap_end>>
  BY DEF map_heap_range
<1>2. /\ TypeOK /\ used \subseteq Frames /\ held \subseteq used \ Low /\ Low \subseteq used
      /\ used_frames = Cardinality(used) /\ 0 \in used
      /\ HeapInv /\ UserInv /\ UnmappedIsNotCached
  BY FramesFinite DEF IInv, TypeOK, BitmapInv, CounterMatchesBitmap
<1>3. /\ f \in Frames /\ (f \notin used \/ f = 0) /\ u = used \cup {f} /\ n = Cardinality(u)
      /\ u \subseteq Frames
  BY <1>2, AllocFacts
<1>4. /\ HeapPages \subseteq Pages /\ UserPages \subseteq Pages /\ HeapPages \cap UserPages = {}
      /\ va \in Pages /\ va \notin HeapPages /\ va >= HEAP_START_PAGE
      /\ va \in HEAP_START_PAGE .. heap_end /\ heap_end \in HEAP_START_PAGE .. HEAP_MAX_PAGE
  BY <1>2, Types
<1> HIDE DEF f, u, n
<1>5. PICK table : /\ MapsInto(table, va, f, u) /\ used' = u \cup {table}
                   /\ used' \subseteq Frames /\ used_frames' = Cardinality(used')
  BY <1>1, <1>3, <1>4, MapEffect
<1>6. /\ dir' \in [Tables -> Entry] /\ pt' \in [Frames -> TableType] /\ fault' \in BOOLEAN
      /\ BitmapInv' /\ DirInv' /\ TablesInv'
      /\ TableFrames' \subseteq TableFrames \cup {table}
      /\ table \in TableFrames \/ table \notin u \/ table = 0
      /\ TablesAreFrames' =>
            /\ TablesAreFrames /\ table # 0
            /\ \A w \in Pages : Translate(w)' = IF w = va /\ ~fault' THEN f ELSE Translate(w)
  <2>1. used \subseteq u /\ u \subseteq Frames /\ held' = held /\ f \in Frames
    BY <1>1, <1>3
  <2>2. MapsInto(table, va, f, u) /\ used' = u \cup {table} /\ va \in Pages /\ va >= HEAP_START_PAGE
    BY <1>4, <1>5
  <2> QED
    BY <2>1, <2>2, MapKeeps
<1>7. va' \in HEAP_START_PAGE .. heap_end /\ HeapPages' = HeapPages \cup (IF fault' THEN {} ELSE {va})
  <2>1. CASE fault'
    BY <1>1, <1>4, <2>1 DEF HeapPages
  <2>2. CASE ~fault'
    <3>1. va' = va + 1
      BY <1>1, <2>2
    <3>2. va' \in HEAP_START_PAGE .. heap_end /\ HeapPages' = HeapPages \cup {va}
      BY <1>1, <1>4, <3>1, Sizes DEF HeapPages
    <3> QED
      BY <2>2, <3>2
  <2> QED
    BY <2>1, <2>2
<1>8. TypeOK' /\ CounterMatchesBitmap'
  <2>1. IsFiniteSet(used')
    BY <1>5, FramesFinite, FS_Subset
  <2>2. used_frames' \in Nat
    BY <1>5, <2>1, FS_CardinalityType
  <2>3. /\ tlb' \subseteq [page : UserPages, frame : Frames] /\ held' \subseteq Frames
        /\ heap_end' \in HEAP_START_PAGE .. HEAP_MAX_PAGE
        /\ va' \in HEAP_START_PAGE .. heap_end'
    BY <1>1, <1>2, <1>4, <1>7, Types
  <2> QED
    BY <1>5, <1>6, <2>2, <2>3
       DEF TypeOK, TableType, CounterMatchesBitmap, Frames, Tables, Entry, Indices
<1>9. ASSUME TablesAreFrames'
      PROVE  f \notin TableFrames \/ f = 0
  <2>1. \A d \in Tables : dir[d] \in used \/ dir[d] = NONE
    BY DirFacts
  <2> QED
    BY <1>2, <1>3, <2>1, FramesFinite DEF TableFrames
<1>10. HeapInv'
  <2> SUFFICES ASSUME TablesAreFrames', NEW v \in HeapPages'
               PROVE  /\ Translate(v)' \in Frames
                      /\ Translate(v)' # 0 =>
                            /\ Translate(v)' \in used' \ (held \cup TableFrames' \cup Low)
                            /\ \A w \in HeapPages' \ {v} : Translate(w)' # Translate(v)'
    BY <1>1 DEF HeapInv, Frames, Low
  <2>1. \A w \in Pages : Translate(w)' = IF w = va /\ ~fault' THEN f ELSE Translate(w)
    BY <1>6
  <2>2. \A w \in HeapPages : /\ Translate(w)' = Translate(w) /\ Translate(w) \in Frames
                             /\ Translate(w) # 0 =>
                                   Translate(w) \in used \ (held \cup TableFrames \cup Low)
    BY <1>2, <1>4, <1>6, <2>1 DEF HeapInv
  <2>3. table # 0 /\ TablesAreFrames
    BY <1>6
  <2>4. CASE v \in HeapPages
    <3>1. Translate(v)' # 0 => Translate(v)' \in used' \ (held \cup TableFrames' \cup Low)
      BY <1>3, <1>5, <1>6, <2>2, <2>3, <2>4
    <3>2. ASSUME NEW w \in HeapPages' \ {v}, Translate(v)' # 0
          PROVE  Translate(w)' # Translate(v)'
      <4>1. CASE w \in HeapPages
        BY <1>2, <2>2, <2>3, <2>4, <3>2, <4>1 DEF HeapInv
      <4>2. CASE w \notin HeapPages
        <5>1. w = va /\ ~fault'
          BY <1>7, <3>2, <4>2
        <5>2. Translate(w)' = f
          BY <1>4, <2>1, <5>1
        <5> QED
          BY <1>3, <2>2, <2>4, <3>2, <5>2
      <4> QED
        BY <4>1, <4>2
    <3> QED
      BY <2>2, <2>4, <3>1, <3>2
  <2>5. CASE v \notin HeapPages
    <3>1. v = va /\ ~fault'
      BY <1>7, <2>5
    <3>2. Translate(v)' = f
      BY <1>4, <2>1, <3>1
    <3>3. f # 0 => f \in used' \ (held \cup TableFrames' \cup Low)
      BY <1>2, <1>3, <1>5, <1>6, <1>9, <2>3
    <3>4. \A w \in HeapPages' \ {v} : w \in HeapPages
      BY <1>7, <3>1
    <3> QED
      BY <1>3, <2>2, <3>2, <3>3, <3>4
  <2> QED
    BY <2>4, <2>5
<1>11. UserInv' /\ UnmappedIsNotCached'
  <2> SUFFICES ASSUME TablesAreFrames'
               PROVE  /\ \A v \in UserPages : Translate(v)' \in held \cup {NONE}
                      /\ \A e \in tlb : Translate(e.page)' # NONE
    BY <1>1 DEF UserInv, UnmappedIsNotCached
  <2>1. \A w \in Pages : Translate(w)' = IF w = va /\ ~fault' THEN f ELSE Translate(w)
    BY <1>6
  <2>2. TablesAreFrames /\ f # NONE
    BY <1>3, <1>6, FramesFinite
  <2>3. \A v \in UserPages : v # va
    <3>1. \A v \in UserPages : v \in Nat /\ v >= HEAP_MAX_PAGE
      BY Sizes
    <3> QED
      BY <1>1, <1>4, <3>1, Sizes
  <2>4. \A e \in tlb : e.page \in UserPages /\ e.page \in Pages
    BY <1>2, <1>4 DEF TypeOK
  <2> QED
    BY <1>2, <1>4, <2>1, <2>2, <2>3, <2>4 DEF UserInv, UnmappedIsNotCached
<1> QED
  BY <1>6, <1>8, <1>10, <1>11 DEF IInv


\* vmm_map_page() of a frame that the caller holds.
LEMMA MapUser ==
    ASSUME IInv, NEW v \in UserPages, NEW f \in held, map_page(v, f)
    PROVE  IInv'
<1>1. /\ vmm_map_page(v, f, used, used_frames)
      /\ UNCHANGED <<tlb, held, heap_end, va>>
  BY DEF map_page
<1>2. /\ TypeOK /\ used \subseteq Frames /\ held \subseteq used \ Low /\ Low \subseteq used
      /\ used_frames = Cardinality(used) /\ held \subseteq Frames
      /\ HeapInv /\ UserInv /\ UnmappedIsNotCached
  BY DEF IInv, TypeOK, BitmapInv, CounterMatchesBitmap
<1>3. /\ HeapPages \subseteq Pages /\ UserPages \subseteq Pages /\ HeapPages \cap UserPages = {}
      /\ v \in Pages /\ v >= HEAP_START_PAGE /\ f \in Frames
  BY <1>2, Types
<1>4. PICK table : /\ MapsInto(table, v, f, used) /\ used' = used \cup {table}
                   /\ used' \subseteq Frames /\ used_frames' = Cardinality(used')
  BY <1>1, <1>2, <1>3, MapEffect
<1>5. /\ dir' \in [Tables -> Entry] /\ pt' \in [Frames -> TableType] /\ fault' \in BOOLEAN
      /\ BitmapInv' /\ DirInv' /\ TablesInv'
      /\ TableFrames' \subseteq TableFrames \cup {table}
      /\ table \in TableFrames \/ table \notin used \/ table = 0
      /\ TablesAreFrames' =>
            /\ TablesAreFrames /\ table # 0
            /\ \A w \in Pages : Translate(w)' = IF w = v /\ ~fault' THEN f ELSE Translate(w)
  <2>1. used \subseteq used /\ used \subseteq Frames /\ held' = held /\ f \in Frames
    BY <1>1, <1>2, <1>3
  <2> QED
    BY <1>3, <1>4, <2>1, MapKeeps
<1>6. HeapPages' = HeapPages
  BY <1>1 DEF HeapPages
<1>7. TypeOK' /\ CounterMatchesBitmap'
  <2>1. IsFiniteSet(used')
    BY <1>4, FramesFinite, FS_Subset
  <2>2. used_frames' \in Nat
    BY <1>4, <2>1, FS_CardinalityType
  <2>3. /\ tlb' \subseteq [page : UserPages, frame : Frames] /\ held' \subseteq Frames
        /\ heap_end' \in HEAP_START_PAGE .. HEAP_MAX_PAGE
        /\ va' \in HEAP_START_PAGE .. heap_end'
    BY <1>1, <1>2, Types
  <2> QED
    BY <1>4, <1>5, <2>2, <2>3
       DEF TypeOK, TableType, CounterMatchesBitmap, Frames, Tables, Entry, Indices
<1>8. HeapInv'
  <2> SUFFICES ASSUME TablesAreFrames', NEW p \in HeapPages
               PROVE  /\ Translate(p)' \in Frames
                      /\ Translate(p)' # 0 =>
                            /\ Translate(p)' \in used' \ (held \cup TableFrames' \cup Low)
                            /\ \A w \in HeapPages \ {p} : Translate(w)' # Translate(p)'
    BY <1>1, <1>6 DEF HeapInv, Frames, Low
  <2>1. TablesAreFrames /\ table # 0 /\ \A w \in HeapPages : Translate(w)' = Translate(w)
    BY <1>3, <1>5
  <2>2. /\ Translate(p) \in Frames
        /\ Translate(p) # 0 => /\ Translate(p) \in used \ (held \cup TableFrames \cup Low)
                               /\ \A w \in HeapPages \ {p} : Translate(w) # Translate(p)
    BY <1>2, <2>1 DEF HeapInv
  <2>3. Translate(p) # 0 => Translate(p) \in used' \ (held \cup TableFrames' \cup Low)
    BY <1>4, <1>5, <2>1, <2>2
  <2> QED
    BY <2>1, <2>2, <2>3
<1>9. UserInv' /\ UnmappedIsNotCached'
  <2> SUFFICES ASSUME TablesAreFrames'
               PROVE  /\ \A w \in UserPages : Translate(w)' \in held \cup {NONE}
                      /\ \A e \in tlb : Translate(e.page)' # NONE
    BY <1>1 DEF UserInv, UnmappedIsNotCached
  <2>1. \A w \in Pages : Translate(w)' = IF w = v /\ ~fault' THEN f ELSE Translate(w)
    BY <1>5
  <2>2. TablesAreFrames /\ f # NONE
    BY <1>3, <1>5, FramesFinite
  <2>3. \A e \in tlb : e.page \in Pages
    BY <1>2, <1>3 DEF TypeOK
  <2> QED
    BY <1>2, <1>3, <2>1, <2>2, <2>3 DEF UserInv, UnmappedIsNotCached
<1> QED
  BY <1>5, <1>7, <1>8, <1>9 DEF IInv

\* vmm_unmap_page(): one entry is cleared and flushed.
LEMMA UnmapUser ==
    ASSUME IInv, NEW v \in UserPages, vmm_unmap_page(v)
    PROVE  IInv'
<1> DEFINE d == pd_index(v)
           x == pt_index(v)
           table == dir[d]
           new == [pt[table] EXCEPT ![x] = NONE]
<1>1. /\ table # NONE /\ pt' = [pt EXCEPT ![table] = new]
      /\ tlb' = {e \in tlb : e.page # v}
      /\ UNCHANGED <<used, used_frames, dir, held, heap_end, va, fault>>
  BY DEF vmm_unmap_page
<1>2. /\ TypeOK /\ pt \in [Frames -> TableType] /\ TablesInv /\ DirInv
      /\ HeapInv /\ UserInv /\ UnmappedIsNotCached
      /\ tlb \subseteq [page : UserPages, frame : Frames]
  BY Types DEF IInv
<1>3. /\ HeapPages \subseteq Pages /\ UserPages \subseteq Pages /\ HeapPages \cap UserPages = {}
      /\ v \in Pages /\ v >= HEAP_START_PAGE
  BY <1>2, Types
<1>4. /\ d \in Tables /\ ~(d < IDENTITY_TABLES) /\ x \in Indices
      /\ \A w \in Pages : pd_index(w) \in Tables /\ pt_index(w) \in Indices
      /\ \A w \in Pages : pd_index(w) = d /\ pt_index(w) = x => w = v
  <2>1. \A w \in Pages : w \in Nat
    BY Sizes DEF Pages
  <2>2. ~(v < IDENTITY_PAGES)
    BY <1>3, <2>1, Sizes
  <2> QED
    BY <1>3, <2>1, <2>2, PageSlots
<1>5. table \in Frames \ IdentityFrames /\ table \in TableFrames
  BY <1>1, <1>4, DirFacts
<1>6. pt[table] \in [Indices -> Entry]
  BY <1>2, <1>5 DEF TablesInv
<1>7. /\ new \in [Indices -> Entry] /\ new[x] = NONE
      /\ \A j \in Indices : j # x => new[j] = pt[table][j]
  BY <1>4, <1>6 DEF Entry
<1> HIDE DEF new, d, x
<1>8. /\ pt' \in [Frames -> TableType] /\ pt'[table] = new
      /\ \A g \in Frames \ {table} : pt'[g] = pt[g]
  BY <1>1, <1>2, <1>5, <1>7, EntryFits
<1>9. TableFrames' = TableFrames /\ (TablesAreFrames' <=> TablesAreFrames) /\ HeapPages' = HeapPages
  BY <1>1 DEF TableFrames, TablesAreFrames, HeapPages
<1>10. TypeOK'
  <2>1. tlb' \subseteq [page : UserPages, frame : Frames]
    BY <1>1, <1>2
  <2> QED
    BY <1>1, <1>2, <1>8, <2>1 DEF TypeOK, TableType, Frames, Tables, Entry, Indices
<1>11. CounterMatchesBitmap' /\ BitmapInv' /\ DirInv'
  BY <1>1 DEF IInv, CounterMatchesBitmap, BitmapInv, DirInv, Low
<1>12. TablesInv'
  <2>1. \A p \in 0 .. (IDENTITY_PAGES - 1) : pt'[IdentityTable(pd_index(p))][pt_index(p)] = p
    <3> SUFFICES ASSUME NEW p \in 0 .. (IDENTITY_PAGES - 1)
                 PROVE  pt'[IdentityTable(pd_index(p))] = pt[IdentityTable(pd_index(p))]
      BY <1>2 DEF TablesInv
    <3>1. p \in Nat /\ p < IDENTITY_PAGES
      BY Sizes
    <3>2. pd_index(p) \in Nat /\ pd_index(p) < IDENTITY_TABLES
      BY <3>1, PageSlots
    <3>3. IdentityTable(pd_index(p)) \in IdentityFrames
      BY <3>2, FramesFinite
    <3> HIDE DEF table
    <3> QED
      BY <1>5, <1>8, <3>3, FramesFinite
  <2>2. \A g \in Frames \ IdentityFrames : pt'[g] \in [Indices -> Entry]
    BY <1>2, <1>7, <1>8 DEF TablesInv
  <2>3. \A g \in Frames \ TableFrames' : pt'[g] = ZeroTable
    BY <1>2, <1>5, <1>8, <1>9 DEF TablesInv
  <2> QED
    BY <2>1, <2>2, <2>3 DEF TablesInv, Frames, IdentityFrames
<1>13. ASSUME TablesAreFrames, NEW w \in Pages
       PROVE  Translate(w)' = IF w = v THEN NONE ELSE Translate(w)
  <2> DEFINE e == pd_index(w)
             j == pt_index(w)
  <2>1. e \in Tables /\ j \in Indices /\ (e = d /\ j = x => w = v) /\ (w = v => e = d /\ j = x)
    BY <1>4 DEF d, x
  <2>2. /\ Translate(w)' = IF dir[e] = NONE THEN NONE ELSE pt'[dir[e]][j]
        /\ Translate(w) = IF dir[e] = NONE THEN NONE ELSE pt[dir[e]][j]
    BY <1>1 DEF Translate
  <2> HIDE DEF e, j
  <2>3. CASE e # d
    <3>1. dir[e] # NONE => dir[e] # table /\ dir[e] \in Frames
      BY <1>1, <1>2, <1>4, <1>13, <2>1, <2>3, DirFacts DEF DirInv, TablesAreFrames
    <3> QED
      BY <1>8, <2>1, <2>2, <2>3, <3>1
  <2>4. CASE e = d
    BY <1>1, <1>7, <1>8, <2>1, <2>2, <2>4
  <2> QED
    BY <2>3, <2>4
<1>14. HeapInv'
  <2>1. TablesAreFrames => \A w \in HeapPages : Translate(w)' = Translate(w)
    BY <1>3, <1>13
  <2> QED
    BY <1>1, <1>2, <1>9, <2>1 DEF HeapInv, Frames, Low
<1>15. UserInv'
  BY <1>1, <1>2, <1>3, <1>9, <1>13 DEF UserInv
<1>16. UnmappedIsNotCached'
  <2>1. \A e \in tlb' : e \in tlb /\ e.page # v /\ e.page \in Pages
    BY <1>1, <1>2, <1>3
  <2> QED
    BY <1>2, <1>9, <1>13, <2>1 DEF UnmappedIsNotCached
<1> QED
  BY <1>10, <1>11, <1>12, <1>14, <1>15, <1>16 DEF IInv

\* The CPU caches a translation.
LEMMA Access ==
    ASSUME IInv, NEW v \in UserPages, access(v)
    PROVE  IInv'
<1>1. /\ Translate(v) # NONE /\ tlb' = tlb \cup {[page |-> v, frame |-> Translate(v)]}
      /\ UNCHANGED <<used, used_frames, dir, pt, held, heap_end, va, fault>>
  BY DEF access
<1>2. /\ TableFrames' = TableFrames /\ (TablesAreFrames' <=> TablesAreFrames)
      /\ \A w : Translate(w)' = Translate(w)
  BY <1>1, SameTables
<1>3. HeapPages' = HeapPages
  BY <1>1 DEF HeapPages
<1>4. Translate(v) \in Frames
  <2>1. v \in Nat /\ v \in Pages /\ ~(v < IDENTITY_PAGES)
    BY Sizes DEF Pages
  <2>2. pd_index(v) \in Tables /\ ~(pd_index(v) < IDENTITY_TABLES) /\ pt_index(v) \in Indices
    BY <2>1, PageSlots
  <2>3. dir[pd_index(v)] # NONE
    BY <1>1 DEF Translate
  <2>4. dir[pd_index(v)] \in Frames \ IdentityFrames
    BY <2>2, <2>3, DirFacts
  <2>5. pt[dir[pd_index(v)]] \in [Indices -> Entry]
    BY <2>4 DEF IInv, TablesInv
  <2> QED
    BY <1>1, <2>2, <2>3, <2>5 DEF Translate, Entry
<1>5. TypeOK'
  <2>1. tlb' \subseteq [page : UserPages, frame : Frames]
    BY <1>1, <1>4 DEF IInv, TypeOK
  <2> QED
    BY <1>1, <2>1 DEF IInv, TypeOK, Frames, Tables, Entry, Indices
<1>6. UnmappedIsNotCached'
  <2>1. \A e \in tlb' : e \in tlb \/ e.page = v
    BY <1>1
  <2> QED
    BY <1>1, <1>2, <2>1 DEF IInv, UnmappedIsNotCached
<1> QED
  BY <1>1, <1>2, <1>3, <1>5, <1>6
     DEF IInv, CounterMatchesBitmap, BitmapInv, DirInv, TablesInv, HeapInv, UserInv


\* Every step keeps the invariant.
LEMMA NextInv ==
    ASSUME IInv, [Next]_vars
    PROVE  IInv'
<1>1. CASE UNCHANGED vars
  <2>1. UNCHANGED <<used, used_frames, dir, pt, tlb, held, heap_end, va, fault>>
    BY <1>1 DEF vars
  <2>2. /\ TableFrames' = TableFrames /\ (TablesAreFrames' <=> TablesAreFrames)
        /\ \A w : Translate(w)' = Translate(w)
    BY <2>1, SameTables
  <2>3. HeapPages' = HeapPages
    BY <2>1 DEF HeapPages
  <2> QED
    BY <2>1, <2>2, <2>3
       DEF IInv, TypeOK, CounterMatchesBitmap, BitmapInv, DirInv, TablesInv, HeapInv, UserInv,
           UnmappedIsNotCached
<1> QED
  BY <1>1, HeapGrow, MapHeap, AllocFrame, FreeFrame, MapUser, UnmapUser, Access DEF Next

\* The inductive invariant of the bitmap, the tables and the heap's pages.
THEOREM Invariance == Spec => []IInv
<1>1. Init => IInv
  BY InitInv
<1>2. IInv /\ [Next]_vars => IInv'
  BY NextInv
<1> QED
  BY <1>1, <1>2, PTL DEF Spec

\* Frames stay within the words of the bitmap, entries within the page tables,
\* and the heap within HEAP_MAX.
THEOREM TypeCorrect == Spec => []TypeOK
<1>1. IInv => TypeOK
  BY DEF IInv
<1> QED
  BY <1>1, Invariance, PTL

\* used_frames of pmm.c counts the bits that are set, on every path.
THEOREM CounterExact == Spec => []CounterMatchesBitmap
<1>1. IInv => CounterMatchesBitmap
  BY DEF IInv
<1> QED
  BY <1>1, Invariance, PTL

\* No frame is shared among the pages of the heap, the page tables and the
\* callers of pmm_alloc_frame(), but for frame 0, which vmm.c and heap.c take
\* for a frame when pmm_alloc_frame() has none left.
THEOREM Ownership == Spec => []FramesHaveOneOwner
<1>1. ASSUME IInv
      PROVE  HeapFramesAreOwned
  <2> SUFFICES ASSUME TablesAreFrames, NEW v \in HeapPages, Translate(v) # 0
               PROVE  /\ Translate(v) \in used \ (held \cup TableFrames)
                      /\ Translate(v) >= RESERVED_FRAMES
                      /\ \A w \in (HeapPages \cup UserPages) \ {v} : Translate(w) # Translate(v)
    BY DEF HeapFramesAreOwned
  <2>1. /\ Translate(v) \in Frames
        /\ Translate(v) \in used \ (held \cup TableFrames \cup Low)
        /\ \A w \in HeapPages \ {v} : Translate(w) # Translate(v)
    BY <1>1 DEF IInv, HeapInv
  <2>2. \A w \in UserPages : Translate(w) \in held \cup {NONE}
    BY <1>1 DEF IInv, UserInv
  <2>3. Translate(v) # NONE /\ Translate(v) \in Nat
    BY <2>1, FramesFinite
  <2>4. Translate(v) >= RESERVED_FRAMES
    BY <2>1, <2>3, Sizes DEF Low
  <2> QED
    BY <2>1, <2>2, <2>3, <2>4
<1>2. ASSUME IInv
      PROVE  TablesAreOwned
  BY <1>2, DirFacts DEF TablesAreOwned
<1>3. IInv => FramesHaveOneOwner
  BY <1>1, <1>2 DEF FramesHaveOneOwner
<1> QED
  BY <1>3, Invariance, PTL

\* vmm_map_page() never takes a page from the identity region or from the heap,
\* and vmm_unmap_page() leaves nothing of the page in the TLB.
THEOREM AddressSpace == Spec => []AddressSpaceStands
<1>1. ASSUME IInv, NEW p \in 0 .. (IDENTITY_PAGES - 1)
      PROVE  Translate(p) = p
  <2>1. p \in Nat /\ p < IDENTITY_PAGES /\ p \in Pages
    BY Sizes DEF Pages
  <2>2. pd_index(p) \in Tables /\ pd_index(p) < IDENTITY_TABLES
    BY <2>1, PageSlots
  <2>3. dir[pd_index(p)] = IdentityTable(pd_index(p)) /\ dir[pd_index(p)] # NONE
    BY <1>1, <2>2, DirFacts, FramesFinite DEF IInv, DirInv
  <2> QED
    BY <1>1, <2>3 DEF Translate, IInv, TablesInv
<1>2. ASSUME IInv
      PROVE  HeapIsMapped
  BY <1>2, FramesFinite DEF HeapIsMapped, IInv, HeapInv
<1>3. IInv => AddressSpaceStands
  BY <1>1, <1>2 DEF AddressSpaceStands, IdentityStands, IInv
<1> QED
  BY <1>3, Invariance, PTL

=============================================================================
