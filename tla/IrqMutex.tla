------------------------------ MODULE IrqMutex ------------------------------
(***************************************************************************)
(* IrqMutex (munux-os/kernel/rust/munux-rs/src/sync.rs) on one CPU: the    *)
(* interrupt flag, the pushf/cli and popf of munux_c_irq_save and          *)
(* munux_c_irq_restore, the spinlock inside, and the interrupt stubs of    *)
(* interrupts/interrupt.asm that preempt whatever runs.                    *)
(*                                                                         *)
(* `frames` is the kernel stack: frame 1 is the kernel's thread (kernel_main *)
(* and the shell), the frames above it are interrupt or system call        *)
(* handlers, and only the last one runs.  The instructions at which an     *)
(* interrupt makes a difference are steps of their own.                    *)
(***************************************************************************)
EXTENDS Integers, Sequences

CONSTANTS
    OuterLocks,     \* ROOT and FDS of vfs.rs, CACHE of bcache.rs
    HEAP,           \* the lock of heap.rs, taken while an outer lock is held
    Irqs,           \* the IRQ lines, numbered by priority
    MAX_CALLS       \* lock() calls in one critical section or handler

Locks == OuterLocks \cup {HEAP}

ASSUME IrqMutexAssumption ==
    /\ HEAP \notin OuterLocks
    /\ Irqs \subseteq Nat
    /\ MAX_CALLS \in Nat

VARIABLES
    IF_flag,    \* EFLAGS.IF, 0 or 1
    locked,     \* the mutexes whose SpinLock.locked is true
    frames,     \* the contexts on the stack, the running one last
    pending     \* IRQ lines the PIC has raised and the CPU has not taken

mutexVars == <<IF_flag, locked, frames, pending>>

-----------------------------------------------------------------------------

\* A context: where it is in lock() or drop(), the mutex and the EFLAGS.IF it
\* has read there, the IrqGuards it holds (innermost last), the EFLAGS.IF the
\* CPU pushed when it entered, and the number of lock() calls it has made.
Frame(entryIF) ==
    [pc |-> "run", mutex |-> HEAP, flags |-> 0, guards |-> << >>,
     entryIF |-> entryIF, calls |-> 0]

depth == Len(frames)
top == frames[Len(frames)]

\* The CPU takes a pending interrupt before the next instruction.
MustTakeIrq == IF_flag = 1 /\ pending # {}

\* The running context executes: its frame becomes f.
Run(f) == frames' = [frames EXCEPT ![Len(frames)] = f]

\* kernel_main enters with interrupts off and has not yet executed sti.
MutexInit ==
    /\ IF_flag = 0
    /\ locked = {}
    /\ frames = << Frame(0) >>
    /\ pending = {}

-----------------------------------------------------------------------------
(* IrqMutex::lock() and IrqGuard::drop()                                   *)

\* The nesting of the kernel's call graph: HEAP is taken alone or inside one
\* outer lock (an allocation made under ROOT, FDS or CACHE), nothing else is
\* nested.
MayLock(f, l) ==
    \/ f.guards = << >>
    \/ Len(f.guards) = 1 /\ f.guards[1].mutex \in OuterLocks /\ l = HEAP

\* lock(): pushf; pop: EFLAGS is read.
irq_save_pushf(l) ==
    /\ ~MustTakeIrq
    /\ top.pc = "run" /\ MayLock(top, l) /\ top.calls < MAX_CALLS
    /\ Run([top EXCEPT !.pc = "cli", !.mutex = l, !.flags = IF_flag,
                       !.calls = @ + 1])
    /\ UNCHANGED <<IF_flag, locked, pending>>

\* Mutant: interrupts stay enabled.
irq_save_cli_forgotten ==
    /\ ~MustTakeIrq
    /\ top.pc = "cli"
    /\ Run([top EXCEPT !.pc = "acquire"])
    /\ UNCHANGED <<IF_flag, locked, pending>>

\* lock(): cli.
irq_save_cli ==
    /\ ~MustTakeIrq
    /\ top.pc = "cli"
    /\ Run([top EXCEPT !.pc = "acquire"])
    /\ IF_flag' = 0
    /\ UNCHANGED <<locked, pending>>

\* lock(): the compare_exchange succeeds and the guard is made.
acquire ==
    /\ ~MustTakeIrq
    /\ top.pc = "acquire" /\ top.mutex \notin locked
    /\ locked' = locked \cup {top.mutex}
    /\ Run([top EXCEPT !.pc = "run",
                       !.guards = Append(@, [mutex |-> top.mutex,
                                             flags |-> top.flags])])
    /\ UNCHANGED <<IF_flag, pending>>

\* A critical section of the thread is over when its last guard is dropped.
CallsAfterDrop(f) ==
    IF depth = 1 /\ Len(f.guards) = 1 THEN 0 ELSE f.calls

\* The guard that drop() drops: guards are scoped, so the innermost.
Innermost(f) == f.guards[Len(f.guards)]

\* drop(): the lock is released.
release ==
    /\ ~MustTakeIrq
    /\ top.pc = "run" /\ top.guards # << >>
    /\ locked' = locked \ {Innermost(top).mutex}
    /\ Run([top EXCEPT !.pc = "restore", !.flags = Innermost(top).flags,
                       !.guards = SubSeq(@, 1, Len(@) - 1),
                       !.calls = CallsAfterDrop(top)])
    /\ UNCHANGED <<IF_flag, pending>>

\* Mutant: the flags are not restored, interrupts are enabled (sti).
irq_restore_sti ==
    /\ ~MustTakeIrq
    /\ top.pc = "restore"
    /\ Run([top EXCEPT !.pc = "run"])
    /\ IF_flag' = 1
    /\ UNCHANGED <<locked, pending>>

\* Mutant: the flags are never restored.
irq_restore_nothing ==
    /\ ~MustTakeIrq
    /\ top.pc = "restore"
    /\ Run([top EXCEPT !.pc = "run"])
    /\ UNCHANGED <<IF_flag, locked, pending>>

\* drop(): push; popf: EFLAGS.IF is what lock() read.
irq_restore ==
    /\ ~MustTakeIrq
    /\ top.pc = "restore"
    /\ Run([top EXCEPT !.pc = "run"])
    /\ IF_flag' = top.flags
    /\ UNCHANGED <<locked, pending>>

-----------------------------------------------------------------------------
(* The CPU and the stubs                                                   *)

\* kernel_main executes sti, once its drivers are set up.
sti ==
    /\ ~MustTakeIrq
    /\ depth = 1 /\ top.pc = "run" /\ top.guards = << >> /\ top.entryIF = 0
    /\ IF_flag' = 1
    /\ Run([top EXCEPT !.entryIF = 1])
    /\ UNCHANGED <<locked, pending>>

\* A device raises its line.
raise_irq(i) ==
    /\ pending' = pending \cup {i}
    /\ UNCHANGED <<IF_flag, locked, frames>>

Highest(i) == i \in pending /\ \A j \in pending : i <= j

\* The CPU takes the interrupt through an interrupt gate (0x8E): it pushes
\* EFLAGS, clears IF and runs the stub and irq_handler.
irq_common_stub(i) ==
    /\ MustTakeIrq /\ Highest(i)
    /\ pending' = pending \ {i}
    /\ frames' = Append(frames, Frame(IF_flag))
    /\ IF_flag' = 0
    /\ UNCHANGED locked

\* int 0x80, through a gate that clears IF too (0xEE).  The kernel's thread
\* makes system calls holding no lock.
syscall ==
    /\ ~MustTakeIrq
    /\ depth = 1 /\ top.pc = "run" /\ top.guards = << >>
    /\ frames' = Append(frames, Frame(IF_flag))
    /\ IF_flag' = 0
    /\ UNCHANGED <<locked, pending>>

\* sti; iret: no interrupt can come between the two, and iret pops the
\* EFLAGS of the context that was interrupted.
iret ==
    /\ ~MustTakeIrq
    /\ depth > 1 /\ top.pc = "run" /\ top.guards = << >>
    /\ IF_flag' = top.entryIF
    /\ frames' = SubSeq(frames, 1, Len(frames) - 1)
    /\ UNCHANGED <<locked, pending>>

\* What the running context does.
Step ==
    \/ \E l \in Locks : irq_save_pushf(l)
    \/ irq_save_cli \/ acquire \/ release \/ irq_restore
    \/ sti \/ syscall \/ iret

MutexNext ==
    \/ Step
    \/ \E i \in Irqs : raise_irq(i) \/ irq_common_stub(i)

\* The CPU never stops executing instructions, takes a pending interrupt as
\* soon as it may, and kernel_main reaches its sti.
MutexFairness ==
    /\ WF_mutexVars(irq_save_cli) /\ WF_mutexVars(acquire) /\ WF_mutexVars(release)
    /\ WF_mutexVars(irq_restore) /\ WF_mutexVars(iret)
    /\ \A i \in Irqs : WF_mutexVars(irq_common_stub(i))

MutexSpec == MutexInit /\ [][MutexNext]_mutexVars
MutexFairSpec == MutexSpec /\ MutexFairness

-----------------------------------------------------------------------------
(* Properties                                                              *)

FrameType ==
    [pc : {"run", "cli", "acquire", "restore"}, mutex : Locks,
     flags : {0, 1}, guards : Seq([mutex : Locks, flags : {0, 1}]),
     entryIF : {0, 1}, calls : 0 .. MAX_CALLS]

MutexTypeOK ==
    /\ IF_flag \in {0, 1}
    /\ locked \subseteq Locks
    /\ frames \in Seq(FrameType) /\ frames # << >>
    /\ pending \subseteq Irqs

\* Context n holds mutex l.
Holds(n, l) ==
    \E k \in DOMAIN frames[n].guards : frames[n].guards[k].mutex = l

\* "IRQs are disabled for the duration of the critical section": no lock is
\* held, by anybody, while the CPU accepts interrupts.
LockedMeansIrqsOff == locked # {} => IF_flag = 0

\* A handler never runs on top of a critical section: only the context that
\* runs holds locks, and a lock is taken exactly while somebody holds it.
OnlyTheRunningHolds ==
    /\ \A n \in 1 .. (depth - 1) : frames[n].guards = << >>
    /\ \A l \in Locks : l \in locked <=> Holds(depth, l)

\* On one CPU a lock that is taken when acquire() is reached is never
\* released: nobody else can run, so the spin would be for ever.
NeverSpins == top.pc = "acquire" => top.mutex \notin locked

\* idt.c: handlers run with interrupts off from entry to iret, "entao nao ha
\* reentrancia": there is never more than one handler over the thread.
NoReentrancy == depth <= 2

\* What sync.rs rests on, on one CPU: a critical section is never interrupted, a
\* lock has one holder and that one runs, no lock() ever waits, and a handler
\* has nothing below it but the thread.
CriticalSectionsExclude ==
    LockedMeansIrqsOff /\ OnlyTheRunningHolds /\ NeverSpins /\ NoReentrancy

\* Outside every critical section a context has the interrupt flag it started
\* with (a handler: off; the thread: on after sti), so locks nested in any way
\* and interrupts between pushf and cli leave the flag as it was.
FlagIsRestored ==
    top.pc = "run" /\ top.guards = << >> =>
        IF_flag = IF depth = 1 THEN top.entryIF ELSE 0

\* Interrupts are never lost behind a critical section or a handler: once the
\* kernel has enabled them, a raised line of the highest priority (the timer)
\* is taken.
TimerIsTaken ==
    \A i \in Irqs : (\A j \in Irqs : i <= j) =>
        ((frames[1].entryIF = 1 /\ i \in pending) ~> (i \notin pending))
=============================================================================
