----------------------------- MODULE Scheduler -----------------------------
(***************************************************************************)
(* Processes and the preemptive round-robin scheduler:                     *)
(* munux-os/kernel/process/process.c, scheduler.c and switch.asm, with the *)
(* part of irq_handler() (idt.c) that acknowledges the timer.              *)
(*                                                                         *)
(* A PCB has one field `next`, and two structures are threaded through it: *)
(* process_list and the circular ready queue of the process's priority.    *)
(* The model keeps it one function for that reason.                        *)
(*                                                                         *)
(* A step is one statement of the code, or one turn of a loop; a test of a *)
(* pointer and the use of what it has loaded are one.  No function of      *)
(* scheduler.c or process.c disables interrupts, so that a tick can fall   *)
(* between any two steps, unless the caller has disabled them, as          *)
(* PROCESSES.md says that critical sections do (CallsMasked).  The tick    *)
(* itself runs with interrupts off.  switch_to_process() is one step.      *)
(*                                                                         *)
(* A saved context is reduced to where the process goes on and on whose    *)
(* stack.  kernel_main() goes on as the process that process_init() made   *)
(* current, the idle one, so that one too may call anything.               *)
(***************************************************************************)
EXTENDS Integers, FiniteSets

CONSTANTS
    Procs,              \* PCB addresses kmalloc() can return
    idle_process,       \* the PCB of the idle process
    NULL,
    Priorities,         \* the priorities that processes are created with
    DEFAULT_QUANTUM,    \* 50
    CallsMasked,        \* TRUE: processes make these calls with interrupts off
    RemoveFirst,        \* TRUE: callers dequeue a process before ending it
    StackOutcomes       \* whether kmalloc() provides a process's stacks

ASSUME SchedulerAssumption ==
    /\ IsFiniteSet(Procs) /\ idle_process \in Procs /\ NULL \notin Procs
    /\ Priorities \subseteq Nat
    /\ DEFAULT_QUANTUM \in Nat \ {0}
    /\ CallsMasked \in BOOLEAN /\ RemoveFirst \in BOOLEAN
    /\ StackOutcomes \subseteq BOOLEAN

VARIABLES
    allocated,      \* the PCBs that are allocated
    next,           \* process->next
    state,          \* process->state
    priority,       \* process->priority
    quantum,        \* process->quantum
    stackless,      \* processes whose stacks kmalloc() did not provide
    ctx,            \* process->context
    process_list,
    ready_queue,
    current_process,
    call,           \* the CPU: the call that the running thread is in,
    tick,           \* the schedule() of the tick that interrupted it,
    stack,          \* and the process whose stack it is on
    in_service      \* the PIC still waits for the timer's EOI

fields == <<state, quantum>>
links == <<next, ready_queue>>
creation == <<allocated, priority, stackless, process_list>>
cpu == <<current_process, ctx, stack>>
vars == <<fields, links, creation, cpu, call, tick, in_service>>

-----------------------------------------------------------------------------
(* Walks                                                                   *)

\* The k-th PCB of the walk from h, NULL once the walk has run off the end.
Walk(nx, h) ==
    LET at[k \in 0 .. Cardinality(Procs)] ==
            IF k = 0 THEN h
            ELSE IF at[k - 1] = NULL THEN NULL ELSE nx[at[k - 1]]
    IN  at

Reachable(nx, h) ==
    LET w == Walk(nx, h) IN {w[k] : k \in DOMAIN w} \ {NULL}

\* The walk comes back to where it began, as every walk of a queue needs.
Closed(nx, h) == \E k \in 1 .. Cardinality(Procs) : Walk(nx, h)[k] = h

Queues == 0 .. 3

\* if (prio > 3) prio = 3;
QueueOf(p) == IF priority[p] > 3 THEN 3 ELSE priority[p]

\* The processes that select_next_process() can still come to.
Queued(nx, rq) == UNION {Reachable(nx, rq[q]) : q \in Queues}

-----------------------------------------------------------------------------
(* Calls                                                                   *)

\* A call under way: the function, the place in it, the process it is about
\* (next, in schedule()), the other PCB it holds (last, p, old), and prio.
Frame(op, pc, process, p, prio) ==
    [op |-> op, pc |-> pc, process |-> process, p |-> p, prio |-> prio]

Run == Frame("run", "run", NULL, NULL, 0)
Schedule == Frame("schedule", "schedule", NULL, NULL, 0)
Select == Frame("schedule", "select", NULL, NULL, 3)

\* What the CPU executes: a tick's schedule(), or else the thread's call.
frame == IF tick # Run THEN tick ELSE call
At(pc) == frame.pc = pc

\* The head of the queue that the call works on.
Head == ready_queue[frame.prio]

\* Interrupts are enabled.
Interruptible == tick = Run /\ (CallsMasked => call = Run)

\* The code goes on at f.
Goto(f) ==
    /\ IF tick # Run THEN tick' = f /\ UNCHANGED call ELSE call' = f /\ UNCHANGED tick
    /\ UNCHANGED in_service

Then(pc) == Goto([frame EXCEPT !.pc = pc])

\* It goes on at pc with the PCB q, or, through a null pointer, nobody knows where.
Follow(pc, q) ==
    Goto([frame EXCEPT !.pc = IF q = NULL THEN "lost" ELSE pc, !.p = q])

\* The function returns: to its caller, or to irq_handler(), which sends the EOI.
Return ==
    IF tick # Run THEN tick' = Run /\ in_service' = FALSE /\ UNCHANGED call
    ELSE call' = Run /\ UNCHANGED <<tick, in_service>>

\* The thread, in none of these functions, calls one.
AtRest == tick = Run /\ call = Run
Begin(f) == AtRest /\ call' = f /\ UNCHANGED <<tick, in_service>>

\* No process was preempted in a call about p.
Unclaimed(p) == \A r \in Procs : ctx[r].call.op = "schedule" \/ ctx[r].call.process # p

-----------------------------------------------------------------------------
(* Stores: what a step changes besides the place it goes on at             *)

NoStore == UNCHANGED <<fields, links, creation, cpu>>

StoreState(p, s) ==
    state' = [state EXCEPT ![p] = s] /\ UNCHANGED <<quantum, links, creation, cpu>>

StoreQuantum(p, n) ==
    quantum' = [quantum EXCEPT ![p] = n] /\ UNCHANGED <<state, links, creation, cpu>>

StoreNext(p, q) ==
    next' = [next EXCEPT ![p] = q] /\ UNCHANGED <<fields, ready_queue, creation, cpu>>

StoreHead(p) ==
    /\ ready_queue' = [ready_queue EXCEPT ![frame.prio] = p]
    /\ UNCHANGED <<fields, next, creation, cpu>>

-----------------------------------------------------------------------------
(* scheduler_add_process(), called by a process or by schedule()           *)

\* The processes that a caller may queue: alive, in no queue, and not idle.
MayAdd == allocated \ (Queued(next, ready_queue) \cup {idle_process})

scheduler_add_process(p) ==
    /\ p \in MayAdd /\ Unclaimed(p)
    /\ Begin(Frame("add", "add", p, NULL, 0))
    /\ NoStore

\* Mutant: a process that is queued keeps the state it has.
add_keeps_state == At("add") /\ NoStore /\ Then("add_quantum")

add == At("add") /\ StoreState(frame.process, "READY") /\ Then("add_quantum")

add_quantum ==
    At("add_quantum") /\ StoreQuantum(frame.process, DEFAULT_QUANTUM) /\ Then("add_queue")

\* Is the queue empty?  last = ready_queue[prio] when it is not.
add_queue ==
    LET q == QueueOf(frame.process)
    IN  /\ At("add_queue")
        /\ NoStore
        /\ Goto([frame EXCEPT !.pc = IF ready_queue[q] = NULL THEN "add_head" ELSE "add_walk",
                              !.p = ready_queue[q], !.prio = q])

add_head == At("add_head") /\ StoreHead(frame.process) /\ Then("add_self")

\* schedule() goes on with select_next_process().
AddReturns == IF frame.op = "schedule" THEN Goto(Select) ELSE Return

add_self == At("add_self") /\ StoreNext(frame.process, frame.process) /\ AddReturns

add_walk ==
    /\ At("add_walk")
    /\ NoStore
    /\ IF next[frame.p] = Head THEN Then("add_link") ELSE Follow("add_walk", next[frame.p])

add_link == At("add_link") /\ StoreNext(frame.p, frame.process) /\ Then("add_close")

\* Mutant: the new last process does not point back to the head.
add_close_open == At("add_close") /\ NoStore /\ AddReturns

add_close == At("add_close") /\ StoreNext(frame.process, Head) /\ AddReturns

-----------------------------------------------------------------------------
(* scheduler_remove_process()                                              *)

scheduler_remove_process(p) ==
    /\ p \in allocated \ {idle_process} /\ Unclaimed(p)
    /\ Begin(Frame("remove", "remove", p, NULL, QueueOf(p)))
    /\ NoStore

\* An empty queue is left so.  A queue of one will be emptied, whichever process that is.
remove ==
    /\ At("remove")
    /\ NoStore
    /\ \/ Head = NULL /\ Return
       \/ Head # NULL /\ next[Head] = Head /\ Then("remove_only")
       \/ Head # NULL /\ next[Head] # Head /\ Follow("remove_walk", Head)

remove_only == At("remove_only") /\ StoreHead(NULL) /\ Return

remove_walk ==
    LET q == next[frame.p]
    IN  /\ At("remove_walk")
        /\ NoStore
        /\ \/ q = frame.process /\ Then("remove_unlink")
           \/ q # frame.process /\ q = Head /\ Return
           \/ q # frame.process /\ q # Head /\ Follow("remove_walk", q)

remove_unlink ==
    At("remove_unlink") /\ StoreNext(frame.p, next[frame.process]) /\ Then("remove_head")

remove_head ==
    /\ At("remove_head")
    /\ NoStore
    /\ IF Head = frame.process THEN Then("remove_move") ELSE Return

remove_move == At("remove_move") /\ StoreHead(next[frame.process]) /\ Return

-----------------------------------------------------------------------------
(* The timer, yield() and schedule()                                       *)

\* scheduler_tick() lowers the quantum while there is any.
Ticked(p) == IF quantum[p] > 0 THEN quantum[p] - 1 ELSE 0

\* A tick that leaves the process some quantum; the EOI follows at once.
scheduler_tick ==
    /\ Interruptible /\ ~in_service
    /\ Ticked(current_process) > 0
    /\ StoreQuantum(current_process, Ticked(current_process))
    /\ UNCHANGED <<call, tick, in_service>>

\* A tick that uses the quantum up, or finds it used up.
scheduler_tick_expires ==
    /\ Interruptible /\ ~in_service
    /\ Ticked(current_process) = 0
    /\ StoreQuantum(current_process, 0)
    /\ tick' = Schedule
    /\ in_service' = TRUE
    /\ UNCHANGED call

yield == Begin(Schedule) /\ StoreQuantum(current_process, 0)

\* A process that is RUNNING is queued again.
schedule ==
    /\ At("schedule")
    /\ NoStore
    /\ Goto(IF state[current_process] = "RUNNING"
            THEN Frame("schedule", "add", current_process, NULL, 0) ELSE Select)

\* A turn of the loop of select_next_process() at queue q; idle when it ends with nothing.
Turn(q) ==
    /\ At("select")
    /\ NoStore
    /\ \/ /\ ready_queue[q] # NULL
          /\ Goto([frame EXCEPT !.pc = "rotate", !.process = ready_queue[q], !.prio = q])
       \/ /\ ready_queue[q] = NULL
          /\ frame.prio > 0
          /\ Goto([frame EXCEPT !.prio = frame.prio - 1])
       \/ /\ ready_queue[q] = NULL
          /\ frame.prio = 0
          /\ Goto([frame EXCEPT !.pc = "compare", !.process = idle_process])

\* Mutant: the queues are searched from the lowest priority.
select_lowest == Turn(3 - frame.prio)

select_next_process == Turn(frame.prio)

\* The process stays in its queue: only the head moves on.
rotate == At("rotate") /\ StoreHead(next[frame.process]) /\ Then("compare")

\* The process selected is the current one, and goes on; with the state READY, if it
\* was queued again.
compare_same ==
    /\ At("compare") /\ frame.process = current_process
    /\ StoreQuantum(current_process, DEFAULT_QUANTUM)
    /\ Return

\* It is another one: old = current_process.
compare_other ==
    /\ At("compare") /\ frame.process # current_process
    /\ NoStore
    /\ Goto([frame EXCEPT !.pc = "set_current", !.p = current_process])

set_current ==
    /\ At("set_current")
    /\ current_process' = frame.process
    /\ Then("set_state")
    /\ UNCHANGED <<fields, links, creation, ctx, stack>>

set_state == At("set_state") /\ StoreState(frame.process, "RUNNING") /\ Then("set_quantum")

set_quantum ==
    At("set_quantum") /\ StoreQuantum(frame.process, DEFAULT_QUANTUM) /\ Then("switch")

\* A context: the call to go on with, whether it is to return through irq_handler(),
\* and the stack.
Context(c, irq, s) == [call |-> c, irq |-> irq, stack |-> s]

\* The context is saved in the PCB p, and the CPU goes on where the process new was; it
\* sends the EOI if that was in a tick.  A schedule() that the thread has called
\* itself only has to return.
Switch(p, new) ==
    /\ ctx' = [ctx EXCEPT ![p] = Context(IF tick = Run THEN Run ELSE call, tick # Run, stack)]
    /\ call' = ctx[new].call
    /\ tick' = Run
    /\ stack' = ctx[new].stack
    /\ in_service' = (in_service /\ ~ctx[new].irq)
    /\ UNCHANGED <<fields, links, creation, current_process>>

\* Mutant: the context is saved in the PCB of the current process.
switch_saves_current == At("switch") /\ Switch(current_process, frame.process)

\* switch_to_process(&old->context, &next->context).
switch_to_process == At("switch") /\ Switch(frame.p, frame.process)

-----------------------------------------------------------------------------
(* process.c                                                               *)

\* process_create(), as far as only its caller has the PCB p.  Its stacks may be missing.
process_create(p, prio, stacks) ==
    /\ p \in Procs \ allocated
    /\ Begin(Frame("create", "list", p, NULL, 0))
    /\ allocated' = allocated \cup {p}
    /\ next' = [next EXCEPT ![p] = NULL]
    /\ state' = [state EXCEPT ![p] = "READY"]
    /\ priority' = [priority EXCEPT ![p] = prio]
    /\ quantum' = [quantum EXCEPT ![p] = DEFAULT_QUANTUM]
    /\ ctx' = [ctx EXCEPT ![p] = Context(Run, FALSE, p)]
    /\ stackless' = IF stacks THEN stackless \ {p} ELSE stackless \cup {p}
    /\ UNCHANGED <<process_list, ready_queue, current_process, stack>>

StoreList(p) == process_list' = p /\ UNCHANGED <<fields, links, allocated, priority, stackless, cpu>>

\* The new process becomes process_list, or goes to its end...
list ==
    /\ At("list")
    /\ IF process_list = NULL THEN StoreList(frame.process) /\ Return
       ELSE NoStore /\ Follow("list_walk", process_list)

\* ...which the walk never comes to when it is led into a ring.
list_walk ==
    /\ At("list_walk")
    /\ NoStore
    /\ IF next[frame.p] = NULL THEN Then("list_link") ELSE Follow("list_walk", next[frame.p])

list_link == At("list_link") /\ StoreNext(frame.p, frame.process) /\ Return

process_terminate(p) ==
    /\ p \in allocated \ {idle_process} /\ Unclaimed(p)
    /\ RemoveFirst => p \notin Queued(next, ready_queue)
    /\ Begin(Frame("terminate", "unlist", p, NULL, 0))
    /\ StoreState(p, "TERMINATED")

unlist ==
    /\ At("unlist")
    /\ IF process_list = frame.process THEN StoreList(next[frame.process]) /\ Then("free")
       ELSE NoStore /\ IF process_list = NULL THEN Then("free")
                       ELSE Follow("unlist_walk", process_list)

unlist_walk ==
    LET q == next[frame.p]
    IN  /\ At("unlist_walk")
        /\ NoStore
        /\ \/ q = frame.process /\ Then("unlist_unlink")
           \/ q = NULL /\ Then("free")
           \/ q \notin {frame.process, NULL} /\ Follow("unlist_walk", q)

unlist_unlink == At("unlist_unlink") /\ StoreNext(frame.p, next[frame.process]) /\ Then("free")

\* The stacks and the PCB; kmalloc() may return it from now on.
free ==
    /\ At("free")
    /\ allocated' = allocated \ {frame.process}
    /\ Then("reschedule")
    /\ UNCHANGED <<fields, links, priority, stackless, process_list, cpu>>

reschedule ==
    /\ At("reschedule")
    /\ NoStore
    /\ IF current_process = frame.process THEN Goto(Schedule) ELSE Return

-----------------------------------------------------------------------------

\* process_init() and scheduler_init(): idle is the current process, and READY.
Init ==
    /\ allocated = {idle_process}
    /\ next = [p \in Procs |-> NULL]
    /\ state = [p \in Procs |-> "READY"]
    /\ priority = [p \in Procs |-> 0]
    /\ quantum = [p \in Procs |-> DEFAULT_QUANTUM]
    /\ stackless = {}
    /\ ctx = [p \in Procs |-> Context(Run, FALSE, p)]
    /\ process_list = idle_process
    /\ ready_queue = [q \in Queues |-> NULL]
    /\ current_process = idle_process
    /\ call = Run /\ tick = Run
    /\ stack = idle_process
    /\ in_service = FALSE

Ticks == scheduler_tick \/ scheduler_tick_expires

\* What the current process can call.
Calls ==
    \/ yield
    \/ \E p \in Procs :
          \/ scheduler_add_process(p)
          \/ scheduler_remove_process(p)
          \/ process_terminate(p)
          \/ \E prio \in Priorities, stacks \in StackOutcomes : process_create(p, prio, stacks)

\* The steps of what has been called.
Steps ==
    \/ add \/ add_quantum \/ add_queue \/ add_head \/ add_self
    \/ add_walk \/ add_link \/ add_close
    \/ remove \/ remove_only \/ remove_walk \/ remove_unlink \/ remove_head \/ remove_move
    \/ schedule \/ select_next_process \/ rotate \/ compare_same \/ compare_other
    \/ set_current \/ set_state \/ set_quantum \/ switch_to_process
    \/ list \/ list_walk \/ list_link
    \/ unlist \/ unlist_walk \/ unlist_unlink \/ free \/ reschedule

Next == Ticks \/ Calls \/ Steps

Spec == Init /\ [][Next]_vars

\* The PIT keeps ticking, and a call that has begun goes on.
FairSpec == Spec /\ WF_vars(Ticks) /\ WF_vars(Steps)

-----------------------------------------------------------------------------
(* Properties                                                              *)

Pcs == {"run", "lost", "add", "add_quantum", "add_queue", "add_head", "add_self", "add_walk",
        "add_link", "add_close", "remove", "remove_only", "remove_walk", "remove_unlink",
        "remove_head", "remove_move", "schedule", "select", "rotate", "compare",
        "set_current", "set_state", "set_quantum", "switch", "list", "list_walk",
        "list_link", "unlist", "unlist_walk", "unlist_unlink", "free", "reschedule"}

Frames ==
    [op : {"run", "schedule", "add", "remove", "create", "terminate"}, pc : Pcs,
     process : Procs \cup {NULL}, p : Procs \cup {NULL}, prio : Queues]

TypeOK ==
    /\ allocated \subseteq Procs /\ idle_process \in allocated
    /\ next \in [Procs -> Procs \cup {NULL}]
    /\ state \in [Procs -> {"READY", "RUNNING", "TERMINATED"}]
    /\ priority \in [Procs -> Nat]
    /\ quantum \in [Procs -> 0 .. DEFAULT_QUANTUM]
    /\ stackless \subseteq Procs
    /\ ctx \in [Procs -> [call : Frames, irq : BOOLEAN, stack : Procs]]
    /\ process_list \in Procs \cup {NULL}
    /\ ready_queue \in [Queues -> Procs \cup {NULL}]
    /\ current_process \in Procs /\ stack \in Procs
    /\ call \in Frames /\ tick \in Frames
    /\ in_service \in BOOLEAN

\* Every queue is a ring: the walk in scheduler_add_process(), which runs in
\* the tick with interrupts off, always comes back to the head.
RingsClosed ==
    \A q \in Queues : ready_queue[q] # NULL => Closed(next, ready_queue[q])

\* The one field `next` never leads from one queue into another, or to a
\* process that has been freed.
RingsApart ==
    \A q \in Queues : \A p \in Reachable(next, ready_queue[q]) :
        QueueOf(p) = q /\ p \in allocated

\* Between the two stores that an insertion or a removal makes.
BetweenStores == {"add_self", "add_close", "remove_head", "remove_move"}

\* Whatever runs, other than the call that is between two stores of its own, finds the
\* ready queues to be rings, each of live processes of its priority, and no walk leaves
\* them through a null pointer.
RingsAreSound ==
    /\ TypeOK
    /\ frame.pc # "lost"
    /\ frame.pc \notin BetweenStores => RingsClosed /\ RingsApart

\* At most one process is RUNNING, and it has the CPU.
RunningIsCurrent ==
    \A p \in Procs : state[p] = "RUNNING" => p = current_process

\* A switch never passes over a queue of higher priority.
HigherFirst ==
    current_process' # current_process =>
        \A q \in Queues :
            q > (IF current_process' = idle_process THEN 0 ELSE QueueOf(current_process'))
                => ready_queue'[q] = NULL
StrictPriority == [][HigherFirst]_vars

\* schedule() saves a process's context in its own PCB: every process that waits will go
\* on with its own stack, and a process at work is on its own.
ContextsAreOwn ==
    /\ \A p \in allocated \ {current_process} : ctx[p].stack = p
    /\ AtRest => stack = current_process

(* What the documentation and the comments say, which the code does not do. *)

\* PROCESSES.md: "todos os processos de mesma prioridade compartilham a CPU
\* igualmente".  What is in a ring before schedule() inserts the current process there,
\* between frame.p and the head, is in it afterwards.
SchedulingKeepsQueued ==
    [][add_close /\ frame.op = "schedule" =>
          Reachable([next EXCEPT ![frame.p] = Head], Head) \subseteq Reachable(next', Head)]_vars

\* The race that scheduler_add_process() leaves open: PROCESSES.md says that
\* "As secoes criticas desabilitam as interrupcoes".  A process that has been
\* added is in a queue.
AddedIsQueued ==
    [][(add_self \/ add_close) /\ frame.op = "add" =>
          frame.process \in Queued(next', ready_queue')]_vars

\* scheduler.c: "Se e unico na fila".  Removing a process leaves the others.
RemoveKeepsOthers ==
    [][remove_only =>
          Queued(next, ready_queue) \ {frame.process} \subseteq Queued(next', ready_queue')]_vars

\* PROCESSES.md, step 2 of ending a process: "Remover das ready queues".
TerminatedIsNotQueued ==
    AtRest => \A p \in Queued(next, ready_queue) : state[p] # "TERMINATED"

\* PROCESSES.md: "O processo idle executa quando nenhum outro processo esta
\* pronto."
IdleRunsLast ==
    [][current_process # idle_process /\ current_process' = idle_process =>
          Queued(next', ready_queue') \subseteq {idle_process}]_vars

\* PROCESSES.md: "Essa abordagem preemptiva garante que nenhum processo possa
\* monopolizar a CPU indefinidamente."
Monopolised(p) ==
    /\ current_process = p /\ AtRest
    /\ \E r \in Queued(next, ready_queue) \ {p} : QueueOf(r) >= QueueOf(p)
NoMonopoly == \A p \in Procs : []<>~Monopolised(p)

\* PROCESSES.md: "O ponteiro next forma uma lista encadeada de todos os
\* processos do sistema."
ListIsComplete == AtRest => allocated \subseteq Reachable(next, process_list)

\* PROCESSES.md: a process begins "com uma pilha valida".
StackIsValid == current_process \notin stackless
=============================================================================
