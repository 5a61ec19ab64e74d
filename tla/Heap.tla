-------------------------------- MODULE Heap --------------------------------
(***************************************************************************)
(* The kernel heap: the first-fit allocator of                             *)
(* munux-os/kernel/rust/munux-rs/src/heap.rs and the part of               *)
(* munux-os/kernel/memory/heap.c that grows it.                            *)
(*                                                                         *)
(* The linked list of headers is the sequence `blocks` in list order, so   *)
(* the walk of allocate() and find_predecessor() is a walk of the indices  *)
(* and `next` is "index + 1".  Nothing in the model assumes that the list  *)
(* is sorted by address: that is an invariant (Ordered).                   *)
(*                                                                         *)
(* Every public entry point takes HEAP.lock(), an IrqMutex (module         *)
(* IrqMutex), so one call is one step here.  Mapping the pages of a growth *)
(* is in module Memory.                                                    *)
(***************************************************************************)
EXTENDS Integers, SequencesExt

CONSTANTS
    HEADER_SIZE,        \* size_of::<Block>(): 12 on the 32-bit target
    SPLIT_SLACK,        \* the 16 in MIN_SPLIT_REMAINDER = HEADER_SIZE + 16
    DEFAULT_ALIGN,      \* 4
    WORD,               \* size_of::<usize>(): 4
    PAGE_SIZE,          \* 4096 in the code, scaled down in the models
    HEAP_START, HEAP_INITIAL_SIZE, HEAP_MAX_SIZE,
    WIDTH, USIZE_MAX,   \* the bits of a usize, and the largest usize
    Sizes,              \* the request sizes clients use
    Aligns              \* the alignments clients use

ASSUME HeapAssumption ==
    /\ HEADER_SIZE \in Nat \ {0}
    /\ SPLIT_SLACK \in Nat
    /\ DEFAULT_ALIGN \in Nat \ {0}
    /\ WORD \in Nat \ {0}
    /\ PAGE_SIZE \in Nat \ {0}
    /\ HEAP_START \in Nat \ {0}
    /\ HEAP_INITIAL_SIZE \in Nat /\ HEAP_INITIAL_SIZE > HEADER_SIZE
    /\ HEAP_MAX_SIZE \in Nat /\ HEAP_MAX_SIZE >= HEAP_INITIAL_SIZE
    /\ WIDTH \in Nat /\ USIZE_MAX + 1 = 2^WIDTH
    /\ USIZE_MAX \in Nat /\ HEAP_START + HEAP_MAX_SIZE <= USIZE_MAX
    /\ Sizes \subseteq 0 .. USIZE_MAX
    /\ Aligns \subseteq 0 .. USIZE_MAX

\* (value + align - 1) & !(align - 1) for a power of two.
align_up(value, align) == value + ((-value) % align)

IsPowerOfTwo(n) == \E k \in 0 .. (WIDTH - 1) : n = 2^k

\* The header, the pages and the initial region are made of whole words of
\* DEFAULT_ALIGN bytes.
ASSUME LayoutAssumption ==
    /\ HEADER_SIZE % DEFAULT_ALIGN = 0
    /\ PAGE_SIZE % DEFAULT_ALIGN = 0
    /\ HEAP_START % DEFAULT_ALIGN = 0
    /\ HEAP_INITIAL_SIZE % DEFAULT_ALIGN = 0

\* DEFAULT_ALIGN is a power of two: a smaller one divides it.
ASSUME AlignAssumption ==
    \A a \in Aligns : IsPowerOfTwo(a) =>
        a > 0 /\ (a < DEFAULT_ALIGN => DEFAULT_ALIGN % a = 0)

VARIABLES
    blocks,     \* the list of headers: addr, size, is_free
    end,        \* Heap.end, the Rust side's end of the heap
    heap_end,   \* heap_end of heap.c, the C side's end of the heap
    live,       \* what clients hold: every pointer returned and not yet freed
    panicked    \* a Rust arithmetic check failed and kernel_panic halted

vars == <<blocks, end, heap_end, live, panicked>>

-----------------------------------------------------------------------------

MIN_SPLIT_REMAINDER == HEADER_SIZE + SPLIT_SLACK

\* Heap.max and heap_max_addr: both are HEAP_START + HEAP_MAX_SIZE.
max == HEAP_START + HEAP_MAX_SIZE

\* value + align is checked arithmetic (overflow-checks = true): it panics.
AlignUpOverflows(value, align) == value + align > USIZE_MAX

payload_of(b) == b.addr + HEADER_SIZE

\* The first address after the block's payload.
BlockEnd(b) == b.addr + HEADER_SIZE + b.size

Fits(b, needed) == b.is_free /\ b.size >= needed

\* Cut `requested` bytes off block i when the rest is worth a block.
split_if_worthwhile(list, i, requested) ==
    LET b    == list[i]
        rest == [addr    |-> payload_of(b) + requested,
                 size    |-> b.size - requested - HEADER_SIZE,
                 is_free |-> TRUE]
    IN  IF b.size <= requested + MIN_SPLIT_REMAINDER
        THEN list
        ELSE InsertAt([list EXCEPT ![i] = [b EXCEPT !.size = requested]],
                      i + 1, rest)

\* Absorb the successor of block i when both are free.  The sizes are added,
\* whatever lies between the two blocks.
merge_with_next_if_free(list, i) ==
    LET b == list[i]
        n == list[i + 1]
    IN  IF i < Len(list) /\ b.is_free /\ n.is_free
        THEN RemoveAt([list EXCEPT ![i] = [b EXCEPT !.size = b.size + HEADER_SIZE + n.size]],
                      i + 1)
        ELSE list

\* The block before block i of the list; 0 for the head, which has none.
find_predecessor(i) == i - 1

\* Mutant: the block is merged forwards only.
deallocate_forwards(list, i) ==
    merge_with_next_if_free([list EXCEPT ![i] = [@ EXCEPT !.is_free = TRUE]], i)

\* deallocate() of the block at index i: mark it free, merge it with its
\* successor, then its predecessor (if it has one) with it.
deallocate(list, i) ==
    LET freed  == [list EXCEPT ![i] = [@ EXCEPT !.is_free = TRUE]]
        merged == merge_with_next_if_free(freed, i)
        prev   == find_predecessor(i)
    IN  IF prev = 0 THEN merged ELSE merge_with_next_if_free(merged, prev)

-----------------------------------------------------------------------------
(* allocate()                                                              *)

CanFit(needed) == \E i \in DOMAIN blocks : Fits(blocks[i], needed)

\* The payload address allocate() returns when it does not return null.
BaseFor(needed) ==
    IF CanFit(needed)
    THEN payload_of(blocks[CHOOSE i \in DOMAIN blocks :
                             /\ Fits(blocks[i], needed)
                             /\ \A j \in 1 .. (i - 1) : ~Fits(blocks[j], needed)])
    ELSE end + HEADER_SIZE

\* The walk stops at the first free block that is large enough.
TakeFirstFit(needed) ==
    \E i \in DOMAIN blocks :
        /\ Fits(blocks[i], needed)
        /\ \A j \in 1 .. (i - 1) : ~Fits(blocks[j], needed)
        /\ LET list == split_if_worthwhile(blocks, i, needed)
           IN  blocks' = [list EXCEPT ![i] = [@ EXCEPT !.is_free = FALSE]]
        /\ UNCHANGED <<end, heap_end>>

\* munux_c_heap_grow(): the new end, 0 when it would pass heap_max_addr.
munux_c_heap_grow(min_bytes) ==
    LET new_end == heap_end + align_up(min_bytes, PAGE_SIZE)
    IN  IF new_end > max THEN 0 ELSE new_end

\* grow_and_attach() gets as far as a usable new end.
Grows(needed) ==
    LET required == needed + HEADER_SIZE
        new_end  == munux_c_heap_grow(required)
    IN  /\ end + required <= max
        /\ new_end # 0 /\ new_end > end /\ new_end <= max

\* The new block starts at the old end, is `needed` bytes long and in use:
\* the rest of the last page belongs to no block.
grow_and_attach(needed) ==
    /\ ~CanFit(needed)
    /\ Grows(needed)
    /\ blocks' = Append(blocks, [addr |-> end, size |-> needed, is_free |-> FALSE])
    /\ end' = munux_c_heap_grow(needed + HEADER_SIZE)
    /\ heap_end' = munux_c_heap_grow(needed + HEADER_SIZE)

\* Heap::allocate(size) hands out the block whose payload is at `base`.
allocate(size, base) ==
    LET needed == align_up(size, DEFAULT_ALIGN)
    IN  /\ size # 0
        /\ ~AlignUpOverflows(size, DEFAULT_ALIGN)
        /\ base = BaseFor(needed)
        /\ TakeFirstFit(needed) \/ grow_and_attach(needed)

\* Heap::allocate(size) returns null.
AllocateIsNull(size) ==
    LET needed == align_up(size, DEFAULT_ALIGN)
    IN  \/ size = 0
        \/ /\ ~AlignUpOverflows(size, DEFAULT_ALIGN)
           /\ ~CanFit(needed)
           /\ needed + HEADER_SIZE <= USIZE_MAX
           /\ ~Grows(needed)

\* Heap::allocate(size) trips an overflow check: in align_up, or in
\* needed + HEADER_SIZE of grow_and_attach.
AllocatePanics(size) ==
    LET needed == align_up(size, DEFAULT_ALIGN)
    IN  /\ size # 0
        /\ \/ AlignUpOverflows(size, DEFAULT_ALIGN)
           \/ ~CanFit(needed) /\ needed + HEADER_SIZE > USIZE_MAX

-----------------------------------------------------------------------------
(* The entry points: kmalloc, kfree, kmalloc_aligned, kfree_aligned and    *)
(* the global allocator of munux-rs-ffi, which calls the aligned pair.     *)

\* A client's allocation: the pointer it holds, the bytes it asked for, the
\* alignment it asked for, and the payload address of the block behind it.
\* For an aligned allocation `base` is the word stored just before `ptr`.
Allocation(ptr, size, align, base, aligned) ==
    [ptr |-> ptr, size |-> size, align |-> align, base |-> base,
     aligned |-> aligned]

Init ==
    /\ blocks = << [addr    |-> HEAP_START,
                    size    |-> HEAP_INITIAL_SIZE - HEADER_SIZE,
                    is_free |-> TRUE] >>
    /\ end = HEAP_START + HEAP_INITIAL_SIZE
    /\ heap_end = HEAP_START + HEAP_INITIAL_SIZE
    /\ live = {}
    /\ panicked = FALSE

\* munux_rs_alloc() returns a block.
alloc(size) ==
    LET base == BaseFor(align_up(size, DEFAULT_ALIGN))
    IN  /\ allocate(size, base)
        /\ live' = live \cup {Allocation(base, size, DEFAULT_ALIGN, base, FALSE)}
        /\ UNCHANGED panicked

\* munux_rs_alloc() returns null.
alloc_null(size) ==
    /\ AllocateIsNull(size)
    /\ UNCHANGED vars

\* munux_rs_alloc() ends in the Rust panic handler, and that in kernel_panic.
alloc_panic(size) ==
    /\ AllocatePanics(size)
    /\ panicked' = TRUE
    /\ UNCHANGED <<blocks, end, heap_end, live>>

\* munux_rs_free() of a pointer that munux_rs_alloc() returned.
dealloc(a) ==
    /\ ~a.aligned
    /\ \E i \in DOMAIN blocks :
          /\ blocks[i].addr = a.ptr - HEADER_SIZE
          /\ blocks' = deallocate(blocks, i)
    /\ live' = live \ {a}
    /\ UNCHANGED <<end, heap_end, panicked>>

\* align.max(DEFAULT_ALIGN)
EffectiveAlign(align) == IF align < DEFAULT_ALIGN THEN DEFAULT_ALIGN ELSE align

\* Mutant: room for the back-pointer word, none for the rounding.
TotalFor_without_slack(size, align) == size + WORD

\* The bytes allocate_aligned() asks allocate() for.
TotalFor(size, align) == size + EffectiveAlign(align) + WORD

\* allocate_aligned() calls allocate() at all.
AlignedProceeds(size, align) ==
    /\ size # 0 /\ IsPowerOfTwo(align)
    /\ TotalFor(size, align) <= USIZE_MAX

\* Mutant: the pointer may be the base itself, and its word the header.
alloc_aligned_without_word(size, align) ==
    LET total == TotalFor(size, align)
        base  == BaseFor(align_up(total, DEFAULT_ALIGN))
        ptr   == align_up(base, EffectiveAlign(align))
    IN  /\ AlignedProceeds(size, align)
        /\ allocate(total, base)
        /\ live' = live \cup {Allocation(ptr, size, align, base, TRUE)}
        /\ UNCHANGED panicked

\* munux_rs_alloc_aligned() returns a block.
alloc_aligned(size, align) ==
    LET total == TotalFor(size, align)
        base  == BaseFor(align_up(total, DEFAULT_ALIGN))
        ptr   == align_up(base + WORD, EffectiveAlign(align))
    IN  /\ AlignedProceeds(size, align)
        /\ allocate(total, base)
        /\ live' = live \cup {Allocation(ptr, size, align, base, TRUE)}
        /\ UNCHANGED panicked

\* munux_rs_alloc_aligned() returns null.
alloc_aligned_null(size, align) ==
    /\ AlignedProceeds(size, align) => AllocateIsNull(TotalFor(size, align))
    /\ UNCHANGED vars

\* munux_rs_alloc_aligned() panics in allocate().
alloc_aligned_panic(size, align) ==
    /\ AlignedProceeds(size, align)
    /\ AllocatePanics(TotalFor(size, align))
    /\ panicked' = TRUE
    /\ UNCHANGED <<blocks, end, heap_end, live>>

\* munux_rs_free_aligned(): the block is found through the stored word.
dealloc_aligned(a) ==
    /\ a.aligned
    /\ \E i \in DOMAIN blocks :
          /\ blocks[i].addr = a.base - HEADER_SIZE
          /\ blocks' = deallocate(blocks, i)
    /\ live' = live \ {a}
    /\ UNCHANGED <<end, heap_end, panicked>>

Next ==
    /\ ~panicked
    /\ \/ \E size \in Sizes :
             alloc(size) \/ alloc_null(size) \/ alloc_panic(size)
       \/ \E size \in Sizes, align \in Aligns :
             \/ alloc_aligned(size, align)
             \/ alloc_aligned_null(size, align)
             \/ alloc_aligned_panic(size, align)
       \/ \E a \in live : dealloc(a) \/ dealloc_aligned(a)

Spec == Init /\ [][Next]_vars

-----------------------------------------------------------------------------
(* Properties                                                              *)

Block == [addr : Nat, size : Nat, is_free : BOOLEAN]

LiveRecord == [ptr : Nat, size : Nat, align : Nat, base : Nat,
               aligned : BOOLEAN]

\* The list is never empty, because head is set once and never removed.
TypeOK ==
    /\ blocks \in Seq(Block) /\ blocks # << >>
    /\ end \in Nat /\ heap_end \in Nat
    /\ live \subseteq LiveRecord
    /\ panicked \in BOOLEAN

\* "The free list is sorted by address" (find_predecessor): every block,
\* header included, lies wholly before the ones after it in the list, so
\* splitting, merging across the gaps a growth leaves and appending never
\* make two blocks share a byte.
Ordered ==
    \A i, j \in DOMAIN blocks : i < j => BlockEnd(blocks[i]) <= blocks[j].addr

\* Every block lies between HEAP_START and the end that was mapped, and the
\* two ends, Heap.end and heap_end of heap.c, which are advanced by
\* different code, agree and never pass the maximum.
InsideHeap ==
    /\ end = heap_end /\ end <= max
    /\ \A i \in DOMAIN blocks :
          HEAP_START <= blocks[i].addr /\ BlockEnd(blocks[i]) <= end

\* Coalescing is complete: no two neighbours in the list are both free.
\* deallocate() looks one block ahead and one back, which is enough only
\* because of this.
Coalesced ==
    \A i \in 1 .. (Len(blocks) - 1) :
        ~(blocks[i].is_free /\ blocks[i + 1].is_free)

\* What every walk of heap.rs relies on, after any sequence of splits, merges
\* and growths: the list is sorted, in bounds and fully coalesced.
ListIsSound == Ordered /\ InsideHeap /\ Coalesced

\* The block that backs an allocation.
Backs(b, a) == ~b.is_free /\ payload_of(b) = a.base

\* Used blocks and allocations correspond one to one: nothing is leaked,
\* and nothing that a client holds is on the free list.
Ownership ==
    /\ \A a \in live : \E i \in DOMAIN blocks : Backs(blocks[i], a)
    /\ \A i \in DOMAIN blocks :
          ~blocks[i].is_free => \E a \in live : Backs(blocks[i], a)
    /\ \A a, b \in live : a.base = b.base => a = b

\* The first byte of an allocation that must survive until it is freed.
Low(a) == IF a.aligned THEN a.ptr - WORD ELSE a.ptr

\* The bytes a client may write, and for an aligned allocation the word that
\* holds the back-pointer, fit in the block behind the allocation.
Contained ==
    \A a \in live, i \in DOMAIN blocks :
        Backs(blocks[i], a) =>
            /\ a.ptr + a.size <= BlockEnd(blocks[i])
            /\ a.base <= Low(a)

\* No client that stays within its bytes can overwrite a block header, and no
\* back-pointer word lies over one or over another client's bytes.
MetadataSafe ==
    /\ \A a, b \in live :
          a # b => a.ptr + a.size <= Low(b) \/ b.ptr + b.size <= Low(a)
    /\ \A a \in live, i \in DOMAIN blocks :
          a.ptr + a.size <= blocks[i].addr \/ payload_of(blocks[i]) <= Low(a)

\* Every pointer has the alignment that was asked for.
AlignedAsAsked == \A a \in live : a.ptr % a.align = 0

\* The SAFETY comments of allocate_aligned(): every allocation has a used block
\* of its own behind it, and its payload and back-pointer word are aligned as
\* asked, inside that block, and clear of every header and other allocation.
AllocationsAreSound == Ownership /\ Contained /\ MetadataSafe /\ AlignedAsAsked

\* The heap implements the allocator its clients assume: a region handed out
\* overlaps none that is still in use, and stays until it is freed.
Regions == {[ptr |-> a.ptr, size |-> a.size, align |-> a.align] : a \in live}
Abstract == INSTANCE Allocator
    WITH regions <- Regions, ArenaStart <- HEAP_START, ArenaEnd <- max
ImplementsAllocator == Abstract!Spec

\* What MEMORY.md says of growth ("Criar um novo bloco livre abrangendo a nova
\* memoria"): every byte between HEAP_START and the end is in some block.
GrowthIsCovered ==
    \A i \in DOMAIN blocks :
        BlockEnd(blocks[i]) = IF i = Len(blocks) THEN end ELSE blocks[i + 1].addr

\* What munux_rs.h says of munux_rs_alloc: a request that cannot be met gives
\* a null pointer, for every size.
FailureIsNull == ~panicked
=============================================================================
