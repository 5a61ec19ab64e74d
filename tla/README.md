# Munux in TLA+

Munux is a pair of hobby operating systems. `munux-os` is a 32-bit x86 kernel in
C, assembly and Rust; `munux-zos` is an s390x kernel in Rust that runs batch
jobs. This directory models the parts of both that keep state, checks the models
with TLC on small instances, and proves with TLAPS, for every instance, each safety
property that a passing run checks.

    cd tla
    tlc -workers 2 -config MCHeap.cfg MCHeap      # one run
    tlapm HeapProofs.tla                          # one module of proofs

`PROJECT.json` lists the runs, the source lines behind every definition, one
mutant of the code for each property, the findings and the hazards.

## 1. Inventory

| Component | Source | State | Operations | What is hard | What makes it correct |
|---|---|---|---|---|---|
| Kernel heap | `rust/munux-rs/src/heap.rs`, `memory/heap.c` | list of block headers, two copies of the heap's end | alloc, dealloc, aligned forms, growth | long sequences, the split threshold, alignment slack, two limits, overflow | headers and allocations never overlap, no two free neighbours, everything inside the mapped heap |
| IrqMutex | `sync.rs`, `heap.c` (`munux_c_irq_*`) | lock flag, EFLAGS.IF, saved flags | lock, drop | an interrupt between any two instructions, nested guards | a held lock means interrupts off; no spin; IF restored |
| Interrupts | `interrupts/idt.c`, `interrupt.asm` | IDT, PIC masks, request and in-service bits | gates, stubs, dispatch, EOI | reentrancy, spurious IRQs, two chained controllers | handlers do not nest; nothing stays in service after its handler; every open line is served |
| Keyboard | `drivers/keyboard.c` | ring and two positions, modifiers, the 0xE0 flag | IRQ1 handler, getchar, available, flush | the handler preempts the reader everywhere | a bounded FIFO; no lost wake-up |
| Timer | `drivers/timer.c` | tick counter | callback, wait | a tick between the comparison and `hlt`, wrap-around | waits end, after as many ticks as asked |
| PMM | `memory/pmm.c` | frame bitmap, counter | alloc, free | exhaustion, the last word | one owner per frame |
| VMM | `memory/vmm.c` | page directory, tables, the CPU's TLB | map, unmap, translate | tables are reached by physical address; stale TLB | the identity map stands, heap pages are mapped |
| Processes, scheduler | `process/*.c`, `switch.asm` | PCBs, process list, four ready rings, current process | create, terminate, add, remove, tick, yield, schedule | ticks inside list operations, one link for two lists, a switch inside an interrupt | rings closed and disjoint, the current process is the running one and on its own stack, priority respected |
| Disk | `drivers/disk.c` | the drive's registers and command | init, present, identify, read, write | time-outs, errors in the middle of a command, no lock | a store of sectors; every call returns |
| Buffer cache | `rust/munux-rs/src/bcache.rs` | map of cached sectors | read, write, evict | write-through in two steps, errors, capacity | cache = disk, reads never go back |
| VFS | `rust/munux-rs/src/vfs.rs` | path -> node, fd -> path and offset | create, write, open, read, close | every call takes two or three locks in turn | a tree; descriptors owned and exact |
| ext2 reader | `rust/munux-rs/src/ext2.rs` | none (reads through the cache) | superblock, inode, block lookup, file | arithmetic at the direct/indirect boundaries | the n-th block is the n-th block |
| Syscalls | `syscall.c` | none | write, ticks, open, read, close | runs with interrupts off | results come back in EAX |
| Terminal, shell, boot | `kernel.c` | cursor, screen, input line, what is initialised | putchar, scroll, backspace, line editing, commands, boot stages, panic | row and column at the borders, output to two devices, the order of the boot | screen and serial line show the line; stages use what is initialised; back to the prompt |
| Mouse | `drivers/mouse.c` | packet bytes and cycle, position; the 8042's configuration byte | init, IRQ12 handler | a lost byte shifts all packets, one port for mouse, keyboard and controller, polls with a limit | packets stay whole, the configuration is kept |
| Serial | `drivers/serial.c` | the UART's mode | init, polled output | unbounded polling, a failed loopback test | output ends |
| C library | `lib/*.c`, `memory/utils.c` | none | strings, conversions | boundaries | agreement with the C definitions |
| JES | `munux-zos/kernel/src/jes.rs` | job table, address spaces | submit, dispatch, purge, run | slots and ASIDs used again | priority order, no ASID shared or leaked, all jobs end |
| SCLP console | `munux-zos/kernel/src/main.rs` | one SCCB, CR0 | setup, write | the wait for the service interrupt | one call at a time |
| MJP | `munux-zos/docs/PROTOCOL.md` | - | - | a draft, no code | - |

How they interact. `kernel_main()` starts, in order, the interrupt tables, the
PMM, the VMM, the heap, the drivers and the file systems; only then `sti`. C code
allocates through `kmalloc`, which calls into the Rust heap; the Rust heap calls
back into `heap.c` to grow, and that takes frames from the PMM and maps them with
the VMM. The Rust subsystems (heap, VFS root, descriptor table, buffer cache) each
sit behind an `IrqMutex`. Interrupt handlers share the keyboard ring, the tick
counter and the ready rings with thread code without any lock. The processes and
the mouse exist but are not started at boot (`munux-os/docs/ROADMAP.md`): they are
modelled as the API that the documentation describes.

## 2. Modules

| Module | Models | Abstract specification |
|---|---|---|
| `Heap` | `heap.rs` and the growth callback of `heap.c` | `Allocator` |
| `IrqMutex` | `sync.rs`, `munux_c_irq_save/restore`, interrupt entry and return | - |
| `Keyboard` | `keyboard.c` | `BoundedQueue` |
| `Memory` | `pmm.c`, `vmm.c`, page mapping of `heap.c` | - |
| `Scheduler` | `process.c`, `scheduler.c`, the switch of `switch.asm`, the EOI of the tick | - |
| `Disk` | `disk.c` and the drive | `SectorDevice` |
| `BufferCache` | `bcache.rs` over the outcomes of `disk.c` | - |
| `Pic` | `pic_remap()` and the two 8259s | - |
| `Timer` | `timer.c` | - |
| `Mouse` | `mouse.c`, the mouse and the 8042's output buffer and configuration byte | - |
| `Interrupts` | composes `Pic`, `Timer` and `Mouse` through `irq_handler()` and a thread | - |
| `Terminal` | the VGA terminal of `kernel.c`, as operators on a screen | - |
| `Serial` | `serial.c`, the UART and the far terminal | - |
| `Console` | composes `Terminal` and `Serial`: boot, `klog`, `sys_write`, panic, shell | - |
| `Vfs` | `vfs.rs` | - |
| `Jes` | `jes.rs` | - |
| `MC*` | the instances that TLC checks | - |
| `HeapProofs`, `KeyboardProofs`, `MemoryProofs`, `DiskProofs`, `ConsoleProofs` | theorems about the module of that name | - |
| `FileProofs`, `DispatchProofs`, `InterruptsProofs` | theorems about `Vfs` and `BufferCache`, `Scheduler` and `Jes`, `Interrupts` and `IrqMutex` | - |

Two modules that share a module of proofs are both extended there, so the second
one's specification has names of its own: `CacheSpec`, `JesSpec`, `MutexSpec` and so on.

**Heap.** `blocks` is the list of headers in list order, with exact addresses and
sizes; `end` and `heap_end` are the ends that Rust and C each keep; `live` records
what the clients hold. The real header, slack, word and default alignment are
used; the page is 64 bytes. One call is one step because every entry point holds
the lock that `IrqMutex` models. Unsigned arithmetic keeps its width: `USIZE_MAX`
is a constant, and an addition that would overflow sets `panicked`, because the
release profile keeps `overflow-checks`. The first-fit walk is a choice of the
first index that fits, and a growth that any of the limits refuses returns null.

**IrqMutex.** The stack `frames` holds the interrupted contexts, innermost last,
each with the guards that it holds and the place in `lock()` or `drop()` where it
stands. Reading EFLAGS, `cli`, the compare-exchange, the store and `popf` are
steps of their own; between any two, a pending line may interrupt if IF is set.
`sti` before `iret` is one step with it: the CPU takes no interrupt in between.
HEAP may be taken inside one of the outer locks (an allocation under ROOT, FDS or
CACHE), which is the nesting of the kernel's call graph.

**Keyboard.** Positions, slots, modifiers and the 0xE0 flag are the code's
variables. `getchar` is four steps (check, `hlt`, read, advance) and `flush` two,
and the handler may run between any of them. Keys are classes: a letter, another
printing key, a key without character, the modifiers.

**Memory.** Addresses are pages. `used` is the set of bits set in the bitmap, over
all bits of the words the code scans, and the number of frames is what
`detect_memory` makes of the boot loader's `mem_upper`; `pt` gives every frame's content as a page
table, so that two directory entries with one frame share a table; `tlb` holds the
translations the CPU has cached. A write through a physical address that is not
identity-mapped sets `fault`. The loop of `map_heap_range` is a step per page.

**Scheduler.** `next` is the one link field of the code, used by the process list
and by the rings alike. A step is one statement or one turn of a loop, in the order
of the source; a test of a pointer and the use of what it loaded are one step. `call`
is the place of the running thread in these functions, `tick` the place of the
`schedule()` that a tick has started on top of it, which runs with interrupts off. No
function of `scheduler.c` or `process.c` disables interrupts. `PROCESSES.md:278`
says that critical sections do, so it has to be the callers: with `CallsMasked`
a tick falls only between calls, without it between any two steps. A saved context
is the call that the process goes on with, whether it returns through `irq_handler`, and
the stack; `switch_to_process` is one step. `in_service` is the timer's bit in the PIC,
cleared by the EOI that only a return through `irq_handler` sends. Nothing in the kernel calls
these functions yet; the model's callers queue a process only when it is in no queue, never
queue, dequeue or end idle, and do not use a process that an interrupted call is about.
With `RemoveFirst` they dequeue a process before they end it. The two
constants name what callers must do and the code does not enforce.

**BufferCache.** A content is the number of the write it comes from. A read is one
step, under the cache's lock; a write is two, disk and then cache. The drive
succeeds, fails a read or loses a write, as the constants allow.

**Disk.** `regs` are the task-file registers with their width (`REG`, `TOP` for 256
and 16), `drive` the command that the drive works on, `call` each caller's place in
the code: wait for BSY, registers, command, wait for BSY, wait for DRQ, transfer,
flush. A poll is one step, up to `ATA_TIMEOUT` of them. The drive ignores its
registers while it works; a command ends in a transfer, an error or never; the port
may float at 0xFF or read 0. Only `disk_read_sector` looks at what a wait returned.
`SectorDevice` is a store where a read returns the content its sector has when the
call returns, or nothing, and a write changes its own sector or none.

**Interrupts.** `irr`, `isr` and `imr` are the registers of both controllers with
fixed priorities and the cascade on line 2. Devices raise lines, the CPU
acknowledges between two steps of the thread, `irq_handler` is one step because the
stubs keep interrupts off. A spurious interrupt may come at any time: vector 39 with
nothing in service, vector 47 with line 2 in service. The thread either waits
for ticks (comparison and `hlt` apart) or runs `mouse_init`: three exchanges through port
0x60, for the configuration byte and for the commands 0xF6 and 0xF4, each of which sends,
polls and reads. The poll ends with any byte, whosever it is, or gives up when none
comes; the read takes what is there, or the last byte once more. The
handlers of lines 1 and 12 read the same port between these steps, and the answer to
the configuration command may itself raise line 1. The configuration byte goes back with
the mouse's interrupt enabled. `MouseFaults` allows a lost byte, a second
`mouse_init`, a key pressed during it (`typing`) and an answer that comes after its poll
(`late`). Reading the port withdraws the edge of its line. Bytes are kept as the code
keeps them: `int8_t`, then sign-extended by the status bits.

**Console.** `screen` is cells, row and column; `todo` is the output that is under
way, a string at a time for the screen and a character at a time for the UART. A
boot stage has what it uses, what it initialises, what it prints and whether it may
end in `kernel_panic`; the two disk checks are skipped when `disk_present` finds
nothing. The shell's line is kept character by character, its commands are a choice.
The far terminal moves its cursor left on a backspace and erases nothing.

**Vfs.** A path is the sequence of its components, with an empty one for a
trailing slash; a file is its length. `open` and `read` are steps per lock, and
other threads come in between. `consumed` is what each thread knows it has read.

**Jes.** The job table, the address spaces in use and the job being run; a
dispatch is three steps, one per change of state.

## 3. Runs

Every run without a remark must pass; deadlock is checked except where a fault, a
panic or a hang ends the system.

| Run | Shows | Instance, and why it is enough |
|---|---|---|
| `heap` | `ListIsSound` (sorted, in bounds, fully coalesced), `AllocationsAreSound` (one used block for each allocation, payload and back-pointer aligned, inside their block, clear of every header and other allocation), `ImplementsAllocator` | two pages growing to four, three ordinary sizes and two that overflow 10 bits, alignments 1, 3 and 32: blocks split, merge on both sides, the heap grows twice and both limits refuse |
| `irq_mutex` | `CriticalSectionsExclude` (a held lock means interrupts off and belongs to the running context, no lock() waits, handlers do not nest), `FlagIsRestored`, `TimerIsTaken` | two outer locks and HEAP, two lines, three locks per context: nesting, release and a second lock inside one outer guard |
| `keyboard` | `RingIsSound` (the slot being read is never overwritten), `ExtendedKeysAreSilent`, `IsABoundedQueue`, `EveryKeyIsRead` | a ring of three slots fills, wraps and overflows |
| `memory` | `CounterMatchesBitmap`, `AddressSpaceStands` (the identity map and the heap stay mapped, an unmapped page is not cached), `FramesHaveOneOwner` | 16 frames, tables of 4 entries: the heap crosses into a second table and the frames run out |
| `scheduler` | `RingsAreSound` (rings closed, disjoint, of live processes, except between the two stores of a change; no walk meets a null pointer), `RunningIsCurrent`, `ContextsAreOwn` (a process that waits will go on with its own stack), `StrictPriority` | idle and two processes, a low and an out-of-range priority (clamped to 3), a quantum of two: rings of one and two, ticks that use the quantum up and that do not, switches from a tick and from a yield in any order; ticks between calls, and the statements of a tick one by one |
| `scheduler_late_add` (violated) | `SchedulingKeepsQueued` | a process queued behind a running one is lost |
| `buffer_cache` | `CacheIsSound` (write-through), `ReadsNeverGoBack`, `ReadsKeepTheBound` | three sectors, room for two: hits, misses, evictions of a sector that is being written |
| `vfs` | `TreeIsSound`, `DescriptorsAreSound` (each descriptor belongs to one open and names a file), `OffsetsAreExact` | two threads, two directories, a file that is rewritten shorter while it is read |
| `jes` | `JobsAreSound` (address spaces owned by running jobs, none leaked), `DispatchOrder` (priority and age; run() returns with the table empty), `EveryJobEnds` | three slots, two address spaces, six jobs in all: slots and ASIDs are used again |
| `disk` | `DriverIsSound` (no call leaves a command or a transfer behind), `ImplementsSectorDevice`, `CallsEnd` | one caller, registers of one bit, six sectors, LBAs in every register and one past the end, two polls: errors, a stuck drive, a floating port and no drive at every point of a call |
| `interrupts` | `ServiceIsSound` (in service is what the running handler serves), `PacketsStayWhole`, `ConfigIsKept` (what `mouse_init` writes back is what the firmware left, with two bits changed), `WaitIsExact`, `EveryLineIsServed` | timer, keys, two packets of the mouse, a slave line without driver, spurious interrupts on both chips; four values of the tick counter, waits of none and two ticks |
| `console` | `ScreenShowsLine`, `SerialShowsLine`, `BootIsOrdered`, `BackToThePrompt` | three rows of two cells and lines of two characters: prompt and line wrap around the end and past the corner, the log scrolls; a UART that works and one that failed its test |

Five of the passing runs hold under conditions that the code does not enforce, and
say nothing about the system without them:

- `scheduler` assumes that callers disable interrupts around their calls
  (`CallsMasked = TRUE`). `PROCESSES.md:278` says so and no function of the code does it.
  With `FALSE` (`MCSchedulerPreempted.cfg`) TLC refutes all four properties: a tick between
  the two stores of an insertion or a removal meets an open ring, one between
  `scheduler.c:51` and `:52` leaves a second process RUNNING, one after `:125`
  lets a process switch to what it had selected long ago (section 5). It also assumes that
  callers dequeue a process before ending it (`RemoveFirst = TRUE`):
  `process_terminate` does not. With `FALSE`, TLC refutes
  `RingsAreSound` and `StrictPriority`, because the rings keep a freed process;
  `RunningIsCurrent` and `ContextsAreOwn` do not need it.
- `buffer_cache` assumes one writer and a drive that neither fails nor loses a
  request. With two writers, with a failing read or with a lost write, TLC refutes
  `CacheIsSound` and `ReadsNeverGoBack`; `ReadsKeepTheBound` holds in all three.
- `disk` assumes one caller (the driver has no lock; at present one thread and no
  handler uses it), LBAs that fit the 28 bits of the registers, and a drive that
  answers within the polling limit or not at all. Without any
  one of these TLC refutes `ImplementsSectorDevice` (section 5).
- `interrupts` assumes that line 12 is unmasked after `mouse_init` (no code
  unmasks it at all), that no byte of the mouse is lost, that `mouse_init` runs
  once, with no key pressed meanwhile and every answer within its poll, and that no wait
  goes across the wrap of the counter. Without any one of these TLC refutes
  `PacketsStayWhole`, `ConfigIsKept` or `WaitIsExact` (section 5).
  A line is raised at most once between two steps of the thread: devices are slower
  than handlers. `MCInterruptsReal` passes with real interrupts on lines 7 and 15.
- `console` assumes a UART whose transmitter drains, and does not check deadlock
  because a panic halts the machine. With a dead UART the boot
  never reaches the prompt.

Fairness. `TimerIsTaken` assumes weak fairness of the steps of the running context
and of taking an interrupt: the CPU executes the next instruction, and takes a
pending interrupt when IF stays set. `EveryKeyIsRead` assumes that the reader's
steps go on and that the timer ticks, which the PIT does at 100 Hz from boot; it
assumes nothing of the user. `CallsEnd` assumes that the polling loops run and that
a drive which is not stuck goes on; `EveryLineIsServed` that the CPU takes what is
requested and ends its handlers, that the thread runs when there is nothing to take,
and that the PIT ticks; `BackToThePrompt` that the thread runs and the UART drains,
and nothing of the user. `NoMonopoly` is refuted under fair ticks and fair
steps of every process. `EveryJobEnds` assumes that `run()` goes on, a loop on one
CPU without interrupts, and that it is called again when jobs wait. Nothing else
is fair: devices, clients and callers may stop at any time.

## 4. Proofs

Each `*Proofs` module EXTENDS its components and proves, for every value of the
constants that the component's assumptions allow, that the specification keeps the
safety properties its run checks, and the type invariants. The assumptions are named in the component's
module and TLC evaluates them on the run. Every proof has one shape: an inductive
invariant `IInv`, a lemma that `Init` implies it, a lemma for each action that
keeps it, the theorem `Invariance`, and the properties as consequences. TLC
checked each `IInv` on an instance before it was proved. `Scheduler` and `Interrupts`
have one invariant per condition instead, named below.

| Module | Theorem | Establishes | Only if |
|---|---|---|---|
| `HeapProofs` | `TypeCorrect` | `TypeOK` | |
| | `ListSoundness` | `ListIsSound` | |
| | `AllocationSoundness` | `AllocationsAreSound` | |
| | `Refinement` | `ImplementsAllocator` | |
| `InterruptsProofs` | `NothingStaysInService` | `ServiceIsSound` | |
| | `WaitsAreExact` | `WaitIsExact` | no wait goes across the wrap of the counter |
| | `PacketsAreWhole` | `PacketsStayWhole` | no byte lost, one `mouse_init`, without a key or a late answer, line 12 opened after it |
| | `ConfigKept` | `ConfigIsKept` | the same |
| | `MutexTypeCorrect` | `MutexTypeOK` | |
| | `Exclusion` | `CriticalSectionsExclude` | |
| | `FlagRestored` | `FlagIsRestored` | |
| `KeyboardProofs` | `Soundness` | `RingIsSound` | |
| | `ExtendedSilence` | `ExtendedKeysAreSilent` | |
| | `Refinement` | `IsABoundedQueue` | |
| `MemoryProofs` | `TypeCorrect` | `TypeOK` | |
| | `CounterExact` | `CounterMatchesBitmap` | |
| | `Ownership` | `FramesHaveOneOwner` | |
| | `AddressSpace` | `AddressSpaceStands` | |
| `DiskProofs` | `Soundness` | `DriverIsSound` | one caller, no late answers |
| | `Refinement` | `ImplementsSectorDevice` | the same, and LBAs that the registers hold |
| `FileProofs` | `TreeSoundness` | `TreeIsSound` | |
| | `DescriptorSoundness` | `DescriptorsAreSound` | |
| | `OffsetExactness` | `OffsetsAreExact` | |
| | `CacheBound` | `ReadsKeepTheBound` | |
| | `CacheSoundness` | `CacheIsSound` | one writer, a disk that works |
| | `CacheMonotonicity` | `ReadsNeverGoBack` | one writer, a disk that works |
| `DispatchProofs` | `OneRuns` | `RunningIsCurrent` | `CallsMasked` |
| | `StacksAreOwn` | `ContextsAreOwn` | `CallsMasked` |
| | `RingsStaySound` | `RingsAreSound` | `CallsMasked`, `RemoveFirst` |
| | `SwitchesByPriority` | `StrictPriority` | `CallsMasked`, `RemoveFirst` |
| | `JesSoundness` | `JobsAreSound` | |
| | `JesOrdering` | `DispatchOrder` | |
| `ConsoleProofs` | `TypeCorrect` | `TypeOK` | |
| | `BootOrder` | `BootIsOrdered` | |
| | `ScreenSoundness` | `ScreenShowsLine` | |
| | `SerialSoundness` | `SerialShowsLine` | |

The conditions in the last column are hypotheses of the theorems. They are those of
the runs (section 3), and section 5 names the instance in which the property fails
without each of them.

**Heap.** The work is done on an arbitrary list. `Sound` says that it is sorted, in
bounds and that its headers lie on whole words; `Used` is the set of its blocks in
use; `CoalescedBut(s, K)` allows two free neighbours only at the positions in `K`.
`MergeFacts` shows that a merge keeps `Sound` and `Used` and removes one position
from `K`; `deallocate` starts with `K = {i - 1, i}` and its two merges empty it, which is
why one step forward and one back are enough. A cut, a block taken whole and a block
appended all do the same to the list, `Gains`: one used block more, where none
was. `IInv` then matches `live` with `Used(blocks)`, by the payload address, and asks
that each allocation fits in its block; that allocations and headers share no byte
follows from this and the order. It needs two things the properties do not say:
that an unaligned allocation's pointer is its base, since `munux_rs_free` finds the
header from the pointer, and that the addresses of headers and the end of the heap
are multiples of `DEFAULT_ALIGN`, since the alignment of a pointer comes from them.
`LayoutAssumption` says that the header, the page and the initial region are
multiples of `DEFAULT_ALIGN` (12, 4096, the constants of `heap.c`, and 4).
`AlignAssumption` says that a power of two below `DEFAULT_ALIGN` divides it, which the
provers cannot derive because they know nothing of exponents.

**IrqMutex.** That a held lock means interrupts off says
nothing of the context that has read EFLAGS and not yet executed `cli`, nor of
what the saved flags will restore. `MutexIInv` adds the shape of every
context: where it stands in `lock()` and `drop()` determines IF; the innermost
guard's saved flag is what IF was before the section, and an outer guard's inner
flags are 0; every context but the innermost was interrupted with IF set, hence
holds no guard; and the held locks are exactly the guards of the innermost
context. The proof covers infinite sets of locks and lines and any nesting.

**Keyboard.** `IInv` adds what the thread relies on between two of its steps (at
the read, the ring is not empty; in the middle of a flush, the reading position is 0),
that the slots between the positions hold characters, and that the 0xE0 flag follows
the keyboard. For the refinement the lemmas about `Window` say what advancing either
position does to the sequence of characters between them, modulo the size of the ring.

**Memory.** Single ownership is not inductive: a page mapped through a table that
shares its frame would change another table. `IInv` says that distinct directory
entries have distinct table frames, that the tables of the identity region are as
`vmm_init` wrote them, that a frame which is no table has never been written as one
(so that a new table starts empty), that what callers hold is in use and none of
the boot's, and where the pages of other kernel code lead. Frame 0, which the code
uses when `pmm_alloc_frame` has failed, is excepted where the properties except it.
The counter needs the cardinality of the bitmap, and the search for a free
frame that a non-empty set of numbers has a least element.

**BufferCache.** `CacheIInv` says that the cache is never ahead of the disk nor the disk of
the writes begun, and that what a half-done write wrote is still on the disk. `CacheBound`
needs only that the cache is finite, and holds for any writers and any failures.

**Disk.** `IInv` relates the drive's phase to the step of the call, one line for each
group of steps (`Phases`), and says that a wait can run out only when the drive is stuck;
this is where late answers would break it. The refinement adds `AddressInv`: the
drive was given the LBA of the call, through four registers whose values
`AddressOfRegisters` puts together again.

**Vfs.** `IInv` adds what a call found in one critical section and still uses in a later
one: the path of an open is a file, since nothing is ever removed; a read keeps its
descriptor, and the offset that it copied is the descriptor's. `FreeFd` shows that the search
for a number ends and finds the least one, because the table is finite.

**Jes.** `DispatchOrder` compares ages, `pick_next` slots. `OrderInv` says that
job numbers grow along the table, which holds because slots are used again only
once the table is empty.

**Scheduler.** `Walk` is a recursive function: where the links lead from a head, one
process for each step. `Least` replaces the induction over its length: a set of numbers
that is not empty has a least member, so the first place at which a walk would go wrong
can be named and refuted. This gives that the function exists (`WalkFacts`), that what
it reaches is within every set closed under the links (`ReachLeast`), and that
a ring closes exactly when every set that holds the head's successor and is closed under
the links, short of the head, holds the head (`Returns`). From there on no walk is
mentioned: `Inserted`, `Shortened`, `Rotation` and `Unaffected` say what each change of
the links that the code makes does to an arbitrary ring. `RunningInv` needs no ring: it
says that one call is under way at most, and for each place in a call who is current, who
is RUNNING and which process the call holds (`Places`). It gives `OneRuns`, and with where
the contexts are `StacksAreOwn`, whoever ends which process. `RingInv` adds `RingRest`:
what is known of the rings at each place, also between the two stores of a change
(`Inserting`, `Removing`), what a search has passed over (`Choosing`) and where
a walk of the process list stands (`Listing`).

**Interrupts.** `ServiceInv` relates the in-service bits of both controllers to the
vector being handled, with the cascade's bit set exactly when the slave was
acknowledged; it needs no condition on what is raised. `WaitInv` counts the ticks: the
counter is the start of the wait plus what has elapsed, at most one tick is on its way,
and while the thread is at its `hlt` the wait is not over, or a tick is still to come. For
the mouse, `InitInv` says that line 12 is closed until `mouse_init` is over,
`PortInv` whose byte the port holds while a line is requested or handled,
`ConfigInv` what the configuration byte is at each place, and `ExchangeInv` that a poll
ends only when its own answer has come and that nobody takes the answer before the read,
save the keyboard's handler the configuration byte, which the port then tells once
more. `PacketInv` says that the bytes held and the byte on its way make a packet.

**Console.** `BootInv` gives, for each stage, what is initialised by then. `ReadInv` follows
a character through the shell's loop: in the line, on the screen, at the far terminal,
a state for each of the outputs that are still to do. `Shows` says where the cursor is: after
the line, or on the other side of the end of the screen, where a backspace in the corner
may have left more characters standing than the line has. That the line comes round
at most once needs `2 * LINE <= CELLS` (128 characters, 2000 cells), and that a
typed character is neither a newline nor a backspace is how the keyboard's
handler and `shell_run` tell them apart; `ConsoleAssumption` says both. `Written`, the
screens after each character of a string, is reasoned about by a least failing position too.
`LineInv` says that the far terminal stands at the beginning of a line when the prompt
comes.

Model-checked only: liveness, which TLAPS does not do (`TimerIsTaken`,
`EveryKeyIsRead`, `EveryJobEnds`, `CallsEnd`, `EveryLineIsServed`, `BackToThePrompt`). What
section 5 lists is refuted there; the theorems about the same properties exclude those
configurations by their conditions.

## 5. Where the code does not do what is said

One disagreement, `SchedulingKeepsQueued`, has a run, marked above, and a finding in
`PROJECT.json`. The other statements below are definitions of their modules too,
under the heading of what a document or a comment says, and TLC refutes each one. The
last column is the configuration: a file, with the one constant that is changed if
any, and the statement in place of its properties. `MCSchedulerLateAdd.cfg` is the
scheduler's with a single priority and a quantum of one tick, which
shortens the counterexamples. `MCSchedulerPreempted.cfg` has interrupts on during the
calls and a quantum of one tick.

| Definition | Says | The code | Configuration |
|---|---|---|---|
| `Heap!GrowthIsCovered` | MEMORY.md:299, a growth becomes a free block spanning the new memory | `heap.rs:186`: a block of the requested size; the rest of the pages is lost | `MCHeap.cfg` |
| `Heap!FailureIsNull` | munux_rs.h:21, failure is a null pointer | `heap.rs:254`: overflow near the largest usize panics | `MCHeap.cfg` |
| `Memory!GrowthIsBacked` | heap.c:74, growth returns 0 on failure | `heap.c:31`: the frame is not checked, frame 0 gets mapped | `MCMemory.cfg` |
| `Memory!GrowthNeverFaults` | MEMORY.md:302, the heap grows up to its limit | `vmm.c:66`: a table frame above the identity map is cleared at its physical address | `MCMemoryGrowthNeverFaults.cfg` |
| `Memory!BitmapFits` | pmm.c:9, the bitmap lies inside the page of the multiboot section | `pmm.c:59`: its size follows `detect_memory`, and more than 128 MiB do not fit | `MCMemoryBitmap.cfg` |
| `Memory!OnlyRealFrames` | API.md:15, an address of memory or 0 | `pmm.c:42`: bits past the last frame are handed out | `MCMemory.cfg`, `MEM_UPPER = 49` (14 frames) |
| `Memory!TlbIsCoherent` | MEMORY.md:204, a changed mapping is invalidated | `vmm.c:74`: no `invlpg` when remapping | `MCMemory.cfg` |
| `Scheduler!RemoveKeepsOthers` | scheduler.c:80, "Se é único na fila" | `scheduler.c:81`: the queue is emptied whoever is in it | `MCSchedulerLateAdd.cfg` |
| `Scheduler!TerminatedIsNotQueued` | PROCESSES.md:145, "Remover das ready queues" | `process.c:82`: it is not removed | `MCSchedulerLateAdd.cfg`, `RemoveFirst = FALSE` |
| `Scheduler!IdleRunsLast` | PROCESSES.md:256, idle runs when no one else is ready | `scheduler.c:120`: idle is queued like the others | `MCSchedulerLateAdd.cfg`, `Priorities = {0}` |
| `Scheduler!ListIsComplete` | PROCESSES.md:123, `next` links all processes | `scheduler.c:60`: the rings overwrite it | `MCSchedulerLateAdd.cfg` |
| `Scheduler!StackIsValid` | PROCESSES.md:138, a valid stack | `process.c:55`: kmalloc is not checked | `MCScheduler.cfg`, `StackOutcomes = {TRUE, FALSE}` |
| `Scheduler!AddedIsQueued` | PROCESSES.md:278, critical sections disable interrupts | `scheduler.c:62`: they do not here, and what the walk has found is stale when it is used | `MCSchedulerPreempted.cfg` |
| `Scheduler!RingsAreSound` | PROCESSES.md:278, and :167, "Cada fila é circular" | `scheduler.c:59`, `:66`, `:90`: a tick between the two stores of a change meets an open ring | `MCSchedulerPreempted.cfg` |
| `Scheduler!RunningIsCurrent` | PROCESSES.md:278 | `scheduler.c:52`: a tick inside the `schedule()` of a yield; the process comes back RUNNING and makes another one current | `MCSchedulerPreempted.cfg` |
| `Scheduler!StrictPriority` | PROCESSES.md:278 | `scheduler.c:125`: a tick after the selection, which is stale when the process goes on | `MCSchedulerPreempted.cfg` |
| `Scheduler!ContextsAreOwn` | PROCESSES.md:278 | `scheduler.c:136`: a tick after `current_process` is set and before the switch saves one process's stack in the PCB of another | `MCSchedulerPreempted.cfg` |
| `Scheduler!NoMonopoly` | PROCESSES.md:178, no process monopolises the CPU | `scheduler.c:141`: a switch inside a tick leaves without the EOI | `MCSchedulerMonopoly.cfg` |
| `BufferCache!CachedWasOnDisk` | bcache.rs:3, a miss fetches from the disk | `bcache.rs:55`: a failed read is cached as zeros | `MCBufferCache.cfg`, `ReadOutcomes = {"ok", "error"}` |
| `BufferCache!CacheIsBounded` | bcache.rs:20, at most 256 sectors | `bcache.rs:74`: writes insert without evicting | `MCBufferCache.cfg` |
| `BufferCache!ReportedIsWritten` | API.md:316, 0 means success | `disk.c:122`: 0 whatever happened | `MCBufferCache.cfg`, `WriteOutcomes = {"ok", "lost"}` |
| `BufferCache!WriteThrough` | bcache.rs:4, write-through | `bcache.rs:70`: two writers can order disk and cache differently | `MCBufferCache.cfg`, `Writers = {w1, w2}` |
| `Vfs!NodesAreNormalised` | vfs.rs:106, a redundant final slash is removed | `vfs.rs:112`: one slash only | `MCVfs.cfg` |
| `Disk!ImplementsSectorDevice` | API.md:316, 0 means success | `disk.c:110`: a drive that answers after the limit leaves its sector to the next call | `MCDisk.cfg`, `Late = TRUE` |
| `Disk!ImplementsSectorDevice` | disk.h:17, an LBA is a `uint32_t` | `disk.c:77`: the top four bits are dropped | `MCDisk.cfg`, `Lbas = {0, 16}` |
| `Disk!ImplementsSectorDevice` | PROCESSES.md:278, critical sections disable interrupts | `disk.c:77`: two callers mix their registers | `MCDiskTwo.cfg` |
| `Interrupts!MovesAreExact` | mouse.c:58, "Extende sinal se negativo" | `mouse.c:59`: the byte is an `int8_t` and negative already, small negative moves lose 256 more | `MCInterruptsSign.cfg` |
| `Interrupts!PortIsRead` | mouse.c:86, "Habilita interrupções" | `idt.c:51`: line 12 stays masked, the mouse's byte is not read and blocks the keyboard's | `MCInterruptsMasked.cfg` |
| `Interrupts!PacketsStayWhole` | mouse.c:53, "Parseia pacote" | `mouse.c:48`: a lost byte, an acknowledgement taken by IRQ12, or `mouse.c:104` leaving `mouse_cycle` at a second init, shift the packets for good; so does an acknowledgement left in the port, by a key that ends the poll (`mouse.c:26`) or by a poll that gives up before it | `MCInterrupts.cfg`, `OpensFirst = TRUE`, or `MouseFaults` one of `{"lost"}`, `{"reinit"}`, `{"typing"}`, `{"late"}` |
| `Interrupts!ConfigIsKept` | mouse.c:86, "Habilita interrupções" | `mouse.c:90`: the byte that is written back may be a key, a byte of a packet or the last one read | `MCInterrupts.cfg`, `MouseFaults` one of `{"reinit"}`, `{"typing"}`, `{"late"}` |
| `Interrupts!WaitIsExact` | timer.c:45, "Aguarda número específico de ticks" | `timer.c:47`: the end wraps around and the wait is over at once | `MCInterrupts.cfg`, `WrapsTicks = TRUE` |
| `Console!ScreenIsTheLine` | kernel.c:287, "Apaga o último caractere na tela" | `kernel.c:294`: nothing is erased when the line has wrapped to the top left corner | `MCConsole.cfg` |
| `Console!BackToThePrompt` | kernel.c:419, "Serial cedo, para log headless do boot" | `serial.c:38`: the poll has no limit and `kernel.c:420` ignores `serial_init` | `MCConsole.cfg`, `Uarts = {"dead"}` |

## 6. Not modelled

- Boot code and entry assembly: straight-line setup of the machine.
- The C library (`lib/*.c`, `memory/utils.c`): sequential routines without state,
  which the repository tests on the host; texts are abstract in `Console`.
- `ext2.rs`: a reader without state over the buffer cache. Its arithmetic of direct
  and indirect blocks would be a pure operator checked against a reference.
- The SCLP console of `munux-zos`: one synchronous call at a time on one CPU.
- `syscall_handler` as a dispatcher: each case is one call of `sys_write`,
  `timer_get_ticks` or a VFS entry, which have modules.
- `vmm_switch_directory`, `serial_getchar`, the mouse's callback: no callers. The
  hit and miss counters of the cache are read by the boot test only. Colours, the
  PIT's divisor and the wording of messages.
- The general registers and CR3 in `switch.asm`: a context is a place and a
  stack. (`switch.asm:37` restores EBX and `:46` overwrites it with EFLAGS.) The compiler
  may also order the stores of `scheduler.c` otherwise than the source does; the model
  takes the order of the source.
- The limit of `mouse_wait_write`: the controller takes every command in time.
- The bodies of the boot's self-tests: in `Console` a test is a stage that may fail.
  `sys_write`'s error return (`syscall.c:14`), which changes nothing.
- The MJP protocol has no code.

## 7. Plan

Done: the components of section 2, their runs, and the theorems of section 4.

1. Composition: the heap's growth over `Memory`; the buffer cache over
   `SectorDevice`, which `Disk` is proved to implement; syscalls over `Vfs`, with
   descriptors shared by threads.
2. `Ext2`: `block_at` and `read_range` against a reference over small block sizes.
