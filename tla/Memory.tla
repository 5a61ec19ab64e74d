------------------------------- MODULE Memory -------------------------------
(***************************************************************************)
(* Physical frames, page tables and the pages of the heap:                 *)
(* munux-os/kernel/memory/pmm.c, vmm.c and the mapping part of heap.c.     *)
(*                                                                         *)
(* Addresses are counted in pages.  The frame bitmap is the set `used` of  *)
(* frames whose bit is set, over every bit of the words the code scans.    *)
(* A page table is the content of a frame, so two directory entries that   *)
(* name the same frame share one table; the kernel writes a table at its   *)
(* physical address, so a table that is not identity-mapped faults.        *)
(*                                                                         *)
(* The state begins after pmm_init() and vmm_init(), with heap_init()      *)
(* about to map the first heap pages.  The loop of map_heap_range() runs   *)
(* one page a step; nothing else runs in between, because a growth happens *)
(* under the heap's IrqMutex and boot is sequential.                       *)
(***************************************************************************)
EXTENDS Integers, FiniteSets

CONSTANTS
    HasMemInfo, MEM_UPPER,  \* the boot loader's mem_upper, in KiB, if it gave one
    LOW_KIB, FALLBACK_KIB,  \* 1 MiB, and MEM_FALLBACK_BYTES
    WRAP_KIB, PAGE_KIB,     \* 2^32 bytes, and PAGE_SIZE
    BITMAP_ROOM,        \* the bits of the page at BITMAP_BASE_ADDR
    BITS_PER_WORD,      \* 32
    RESERVED_FRAMES,    \* KERNEL_RESERVED / PAGE_SIZE
    PT_ENTRIES,         \* 1024
    IDENTITY_TABLES,    \* page tables of the 8 MiB that are identity-mapped
    HEAP_START_PAGE, HEAP_INITIAL_PAGES, HEAP_MAX_PAGES,
    GrowthSizes,        \* the growths, in pages, that the allocator asks for
    UserPages           \* virtual pages other kernel code maps and unmaps

\* detect_memory() of kernel.c, in KiB: 32-bit arithmetic, and at least the
\* fallback.
detect_memory ==
    LET total == (LOW_KIB + MEM_UPPER) % WRAP_KIB
    IN  IF HasMemInfo /\ total >= FALLBACK_KIB THEN total ELSE FALLBACK_KIB

\* pmm_init(): mem_size / PAGE_SIZE.
TOTAL_FRAMES == detect_memory \div PAGE_KIB

\* The bits of the bitmap_words() words that are cleared and scanned.
BITMAP_BITS ==
    ((TOTAL_FRAMES + BITS_PER_WORD - 1) \div BITS_PER_WORD) * BITS_PER_WORD
Frames == 0 .. (BITMAP_BITS - 1)
IDENTITY_PAGES == IDENTITY_TABLES * PT_ENTRIES
HEAP_MAX_PAGE == HEAP_START_PAGE + HEAP_MAX_PAGES

\* The frames vmm_init() takes: the directory, then one table per 4 MiB.
PD_FRAME == RESERVED_FRAMES
IdentityTable(d) == PD_FRAME + 1 + d
FIRST_FREE == PD_FRAME + 1 + IDENTITY_TABLES

ASSUME MemoryAssumption ==
    /\ HasMemInfo \in BOOLEAN
    /\ {MEM_UPPER, LOW_KIB, FALLBACK_KIB, BITMAP_ROOM} \subseteq Nat
    /\ {WRAP_KIB, PAGE_KIB, BITS_PER_WORD} \subseteq Nat \ {0}
    /\ PT_ENTRIES \in Nat \ {0} /\ IDENTITY_TABLES \in Nat \ {0}
    /\ RESERVED_FRAMES \in Nat \ {0}
    /\ FIRST_FREE <= TOTAL_FRAMES /\ FIRST_FREE <= IDENTITY_PAGES
    /\ HEAP_START_PAGE \in Nat /\ HEAP_INITIAL_PAGES \in Nat
    /\ HEAP_MAX_PAGES \in Nat /\ HEAP_INITIAL_PAGES <= HEAP_MAX_PAGES
    /\ BITMAP_BITS <= HEAP_START_PAGE /\ IDENTITY_PAGES <= HEAP_START_PAGE
    /\ GrowthSizes \subseteq Nat \ {0}
    /\ UserPages \subseteq Nat
    /\ \A v \in UserPages : v >= HEAP_MAX_PAGE

VARIABLES
    used,           \* the frames whose bit is set in frame_bitmap
    used_frames,    \* the counter beside the bitmap
    dir,            \* the page directory: the table's frame, or NONE
    pt,             \* the content of each frame, read as a page table
    tlb,            \* the translations of UserPages the CPU has cached
    held,           \* frames pmm_alloc_frame() gave to other kernel code
    heap_end,       \* heap_end of heap.c
    va,             \* the page map_heap_range() maps next
    fault           \* a page fault has raised kernel_panic

vars == <<used, used_frames, dir, pt, tlb, held, heap_end, va, fault>>

-----------------------------------------------------------------------------
(* pmm.c                                                                   *)

NONE == -1      \* an entry without PAGE_PRESENT

\* find_free_frame(): the lowest clear bit, FRAMES_NOT_FOUND when none is.
FreeFrames(u) == Frames \ u
find_free_frame(u) == CHOOSE f \in FreeFrames(u) : \A g \in FreeFrames(u) : f <= g

\* What pmm_alloc_frame() returns: 0 doubles as "out of memory".
FrameFrom(u) == IF FreeFrames(u) = {} THEN 0 ELSE find_free_frame(u)

\* Mutant: the frame is handed out but its bit stays clear.
Marked_not_at_all(u) == u

\* The bitmap after pmm_alloc_frame().
Marked(u) == IF FreeFrames(u) = {} THEN u ELSE u \cup {find_free_frame(u)}

\* used_frames after pmm_alloc_frame().
Counted(u, n) == IF FreeFrames(u) = {} THEN n ELSE n + 1

-----------------------------------------------------------------------------
(* vmm.c                                                                   *)

\* virtual_addr >> 22 and (virtual_addr >> 12) & 0x3FF.
pd_index(v) == v \div PT_ENTRIES
pt_index(v) == v % PT_ENTRIES

Tables == {pd_index(v) : v \in (0 .. HEAP_MAX_PAGE) \cup UserPages}
Indices == 0 .. (PT_ENTRIES - 1)
ZeroTable == [i \in Indices |-> NONE]

\* The frame behind a virtual page, NONE when it is not mapped.
Translate(v) ==
    IF dir[pd_index(v)] = NONE THEN NONE ELSE pt[dir[pd_index(v)]][pt_index(v)]

\* vmm_get_physical_address(): 0 both for "not mapped" and for frame 0.
vmm_get_physical_address(v) == IF Translate(v) = NONE THEN 0 ELSE Translate(v)

\* Mutant: the table is cleared on every mapping, not only on the first.
vmm_map_page_clears(v, f, u, n) ==
    LET d     == pd_index(v)
        table == IF dir[d] = NONE THEN FrameFrom(u) ELSE dir[d]
    IN  /\ used' = IF dir[d] = NONE THEN Marked(u) ELSE u
        /\ used_frames' = IF dir[d] = NONE THEN Counted(u, n) ELSE n
        /\ dir' = [dir EXCEPT ![d] = table]
        /\ fault' = (Translate(table) # table)
        /\ pt' = IF fault' THEN pt
                 ELSE [pt EXCEPT ![table] = [ZeroTable EXCEPT ![pt_index(v)] = f]]

\* vmm_map_page() of page v to frame f, from bitmap u and counter n.  A missing
\* table is allocated, entered in the directory and cleared; then the entry is
\* written.  Both go through the table's physical address.
vmm_map_page(v, f, u, n) ==
    LET d     == pd_index(v)
        table == IF dir[d] = NONE THEN FrameFrom(u) ELSE dir[d]
        old   == IF dir[d] = NONE THEN ZeroTable ELSE pt[table]
    IN  /\ used' = IF dir[d] = NONE THEN Marked(u) ELSE u
        /\ used_frames' = IF dir[d] = NONE THEN Counted(u, n) ELSE n
        /\ dir' = [dir EXCEPT ![d] = table]
        /\ fault' = (Translate(table) # table)
        /\ pt' = IF fault' THEN pt
                 ELSE [pt EXCEPT ![table] = [old EXCEPT ![pt_index(v)] = f]]

\* What vmm_init() leaves, and heap_init() up to its loop.
PagingReady ==
    /\ dir = [d \in Tables |->
                 IF d < IDENTITY_TABLES THEN IdentityTable(d) ELSE NONE]
    /\ pt = [f \in Frames |->
                [i \in Indices |->
                    IF f \in {IdentityTable(d) : d \in 0 .. (IDENTITY_TABLES - 1)}
                    THEN (f - IdentityTable(0)) * PT_ENTRIES + i
                    ELSE NONE]]
    /\ tlb = {}
    /\ held = {}
    /\ heap_end = HEAP_START_PAGE + HEAP_INITIAL_PAGES
    /\ va = HEAP_START_PAGE
    /\ fault = FALSE

\* pmm_init() reserves the low frames, then vmm_init() takes its own.
Init ==
    /\ used = 0 .. (FIRST_FREE - 1)
    /\ used_frames = FIRST_FREE
    /\ PagingReady

-----------------------------------------------------------------------------
(* heap.c                                                                  *)

\* Mutant: the limit is compared with the old end, not with the new one.
heap_grow_checks_old_end(pages) ==
    /\ va = heap_end
    /\ heap_end <= HEAP_MAX_PAGE
    /\ heap_end' = heap_end + pages
    /\ UNCHANGED <<used, used_frames, dir, pt, tlb, held, va, fault>>

\* munux_c_heap_grow(), up to its call of map_heap_range(heap_end, new_end).
munux_c_heap_grow(pages) ==
    /\ va = heap_end
    /\ heap_end + pages <= HEAP_MAX_PAGE
    /\ heap_end' = heap_end + pages
    /\ UNCHANGED <<used, used_frames, dir, pt, tlb, held, va, fault>>

\* One turn of the loop of map_heap_range(): the frame is not checked.
map_heap_range ==
    /\ va < heap_end
    /\ vmm_map_page(va, FrameFrom(used), Marked(used), Counted(used, used_frames))
    /\ va' = IF fault' THEN va ELSE va + 1
    /\ UNCHANGED <<tlb, held, heap_end>>

-----------------------------------------------------------------------------
(* Other kernel code, which frees what it allocated and unmaps what it     *)
(* mapped, and touches only the pages it has.                              *)

\* pmm_alloc_frame() by a caller that checks for 0.
pmm_alloc_frame ==
    /\ va = heap_end
    /\ FrameFrom(used) # 0
    /\ held' = held \cup {FrameFrom(used)}
    /\ used' = Marked(used)
    /\ used_frames' = Counted(used, used_frames)
    /\ UNCHANGED <<dir, pt, tlb, heap_end, va, fault>>

\* Mutant: the counter is left as it was.
pmm_free_frame_uncounted(f) ==
    /\ va = heap_end
    /\ f \in held
    /\ \A v \in UserPages : Translate(v) # f
    /\ held' = held \ {f}
    /\ used' = used \ {f}
    /\ UNCHANGED <<used_frames, dir, pt, tlb, heap_end, va, fault>>

\* pmm_free_frame() of a frame that is no longer mapped.
pmm_free_frame(f) ==
    /\ va = heap_end
    /\ f \in held
    /\ \A v \in UserPages : Translate(v) # f
    /\ held' = held \ {f}
    /\ used' = used \ {f}
    /\ used_frames' = IF used_frames > 0 THEN used_frames - 1 ELSE used_frames
    /\ UNCHANGED <<dir, pt, tlb, heap_end, va, fault>>

\* vmm_map_page() of a frame the caller holds.  Nothing is flushed.
map_page(v, f) ==
    /\ va = heap_end
    /\ f \in held
    /\ vmm_map_page(v, f, used, used_frames)
    /\ UNCHANGED <<tlb, held, heap_end, va>>

\* vmm_unmap_page(): clears the entry and flushes it with invlpg.  The table
\* stays, even when it is empty.
vmm_unmap_page(v) ==
    /\ va = heap_end
    /\ dir[pd_index(v)] # NONE
    /\ pt' = [pt EXCEPT ![dir[pd_index(v)]][pt_index(v)] = NONE]
    /\ tlb' = {e \in tlb : e.page # v}
    /\ UNCHANGED <<used, used_frames, dir, held, heap_end, va, fault>>

\* The CPU (external) walks the tables for a page and caches what it finds.
access(v) ==
    /\ va = heap_end
    /\ Translate(v) # NONE
    /\ \A e \in tlb : e.page # v
    /\ tlb' = tlb \cup {[page |-> v, frame |-> Translate(v)]}
    /\ UNCHANGED <<used, used_frames, dir, pt, held, heap_end, va, fault>>

Next ==
    /\ ~fault
    /\ \/ \E pages \in GrowthSizes : munux_c_heap_grow(pages)
       \/ map_heap_range
       \/ pmm_alloc_frame
       \/ \E f \in held : pmm_free_frame(f)
       \/ \E v \in UserPages : (\E f \in held : map_page(v, f))
                               \/ vmm_unmap_page(v) \/ access(v)

Spec == Init /\ [][Next]_vars

-----------------------------------------------------------------------------
(* Properties                                                              *)

Entry == Frames \cup {NONE}

TypeOK ==
    /\ used \subseteq Frames
    /\ used_frames \in Nat
    /\ dir \in [Tables -> Entry]
    /\ pt \in [Frames -> [Indices -> 0 .. (BITMAP_BITS + IDENTITY_PAGES) \cup {NONE}]]
    /\ tlb \subseteq [page : UserPages, frame : Frames]
    /\ held \subseteq Frames
    /\ heap_end \in HEAP_START_PAGE .. HEAP_MAX_PAGE
    /\ va \in HEAP_START_PAGE .. heap_end
    /\ fault \in BOOLEAN

\* The counter and the bitmap are two records of the same thing, updated by
\* different statements on every path of pmm.c, and never disagree.
CounterMatchesBitmap == used_frames = Cardinality(used)

\* The pages that map_heap_range() has mapped.
HeapPages == HEAP_START_PAGE .. (va - 1)

\* The frames the page-table structure itself occupies.
TableFrames == {dir[d] : d \in Tables} \cup {PD_FRAME}

\* No page table came from a failed allocation.
TablesAreFrames == \A d \in Tables : dir[d] # 0

\* The page-table structure survives whatever is mapped: the identity region,
\* through which vmm.c writes every table, still maps each page to itself.
IdentityStands ==
    \A p \in 0 .. (IDENTITY_PAGES - 1) : Translate(p) = p

\* While page tables are frames of their own, every page up to the point that
\* the growth has reached is mapped.
HeapIsMapped ==
    TablesAreFrames => \A v \in HeapPages : Translate(v) # NONE

\* A page that has been unmapped cannot be reached through a stale entry of
\* the TLB.  (Two tables on frame 0 would clear each other's entries.)
UnmappedIsNotCached ==
    TablesAreFrames => \A e \in tlb : Translate(e.page) # NONE

\* Mapping one page, in an old table or in a new one, never takes away another,
\* and unmapping one leaves no way to it.
AddressSpaceStands == IdentityStands /\ HeapIsMapped /\ UnmappedIsNotCached

\* A heap page's frame is its own: no other page has it, it holds no table, no
\* other owner has it and its bit is set.  Frame 0, the mark of a failed
\* allocation, is the only exception.
HeapFramesAreOwned ==
    TablesAreFrames =>
        \A v \in HeapPages :
            LET f == Translate(v)
            IN  f # 0 =>
                  /\ f \in used \ (held \cup TableFrames)
                  /\ f >= RESERVED_FRAMES
                  /\ \A w \in (HeapPages \cup UserPages) \ {v} : Translate(w) # f

\* Tables are never handed out: a frame that holds a table is in use and in
\* nobody else's hands.
TablesAreOwned ==
    \A d \in Tables : dir[d] \notin {NONE, 0} => dir[d] \in used \ held

\* No frame has two owners among the heap's pages, the page tables and the
\* callers of pmm_alloc_frame(), whatever is freed and allocated again.
FramesHaveOneOwner == HeapFramesAreOwned /\ TablesAreOwned

\* What heap.c says of growth ("Maps additional pages and returns the new heap
\* end (0 on failure)"): a growth that did not fail is backed by real frames.
GrowthIsBacked == \A v \in HeapPages : vmm_get_physical_address(v) # 0

\* What API.md says of pmm_alloc_frame ("ou 0 se nao houver memoria
\* disponivel"): only frames that exist are handed out.
OnlyRealFrames == used \subseteq 0 .. (TOTAL_FRAMES - 1)

\* What MEMORY.md says of growth ("ate um limite maximo (256MB)"): the heap
\* reaches its maximum, or runs out of frames, without a page fault.
GrowthNeverFaults == ~fault

\* What MEMORY.md says of the TLB ("Quando um mapeamento muda, a entrada
\* correspondente da TLB precisa ser invalidada"): no entry is stale.
TlbIsCoherent == \A e \in tlb : e.frame = Translate(e.page)

\* What pmm.c says of the bitmap ("chosen to land inside the multiboot section's
\* 4 KiB page"): it ends inside that page, before the kernel's code.
BitmapFits == BITMAP_BITS <= BITMAP_ROOM
=============================================================================
