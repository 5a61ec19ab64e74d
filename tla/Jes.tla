-------------------------------- MODULE Jes --------------------------------
(***************************************************************************)
(* The job entry subsystem of Munux z/OS, munux-zos/kernel/src/jes.rs:     *)
(* jobs wait in a table, and run() dispatches them one after the other,    *)
(* highest priority first, each through INPUT, ACTIVE, OUTPUT and PURGE.   *)
(*                                                                         *)
(* run() borrows the whole subsystem until the table holds no INPUT job,   *)
(* so jobs are submitted only before it begins and after it has ended.     *)
(* Names, classes and console output are left out; a dispatch is cut into  *)
(* its state changes.                                                      *)
(***************************************************************************)
EXTENDS Integers, FiniteSets

CONSTANTS
    MAX_JOBS,       \* 16
    MAX_ASID,       \* 8
    JobPriorities,  \* 0 .. 15 in the code
    MAX_SUBMITS     \* bound: the jobs submitted altogether

ASSUME JesAssumption ==
    /\ MAX_JOBS \in Nat \ {0} /\ MAX_ASID \in Nat \ {0}
    /\ JobPriorities \subseteq Nat
    /\ MAX_SUBMITS \in Nat

VARIABLES
    jobs,           \* the table: slot -> job, or NoJob
    in_use,         \* the ASIDs of the address spaces in use
    next_job_no,
    running         \* the slot dispatch() is at, IDLE between two dispatches
                    \* and OFF outside run()

jesVars == <<jobs, in_use, next_job_no, running>>

Slots == 1 .. MAX_JOBS
IDLE == 0
OFF == -1
NoJob == [id |-> 0, priority |-> 0, state |-> "NONE", asid |-> 0]

-----------------------------------------------------------------------------

JesInit ==
    /\ jobs = [i \in Slots |-> NoJob]
    /\ in_use = {}
    /\ next_job_no = 1
    /\ running = OFF

\* The first empty slot.
FreeSlot(i) == jobs[i] = NoJob /\ \A k \in 1 .. (i - 1) : jobs[k] # NoJob

\* submit(): into the first empty slot; a full table refuses the job.
submit(priority) ==
    /\ running = OFF
    /\ next_job_no <= MAX_SUBMITS
    /\ \E i \in Slots :
          /\ FreeSlot(i)
          /\ jobs' = [jobs EXCEPT ![i] = [id |-> next_job_no, priority |-> priority,
                                          state |-> "INPUT", asid |-> 0]]
    /\ next_job_no' = next_job_no + 1
    /\ UNCHANGED <<in_use, running>>

\* alloc_asid(): the first free one, 0 when there is none.
alloc_asid ==
    IF in_use = 1 .. MAX_ASID THEN 0
    ELSE CHOOSE a \in (1 .. MAX_ASID) \ in_use :
             \A b \in (1 .. MAX_ASID) \ in_use : a <= b

Waiting == {i \in Slots : jobs[i].state = "INPUT"}

\* Mutant: a job of the same priority further on is preferred.
pick_next_last(i) ==
    /\ i \in Waiting
    /\ \A k \in Waiting : jobs[k].priority <= jobs[i].priority
    /\ \A k \in Waiting : k > i => jobs[k].priority < jobs[i].priority

\* pick_next(): the highest priority, the first slot among equals.
pick_next(i) ==
    /\ i \in Waiting
    /\ \A k \in Waiting : jobs[k].priority <= jobs[i].priority
    /\ \A k \in Waiting : k < i => jobs[k].priority < jobs[i].priority

\* run() begins.
run ==
    /\ running = OFF
    /\ running' = IDLE
    /\ UNCHANGED <<jobs, in_use, next_job_no>>

\* dispatch(), INPUT -> ACTIVE: with an address space of its own.
dispatch(i) ==
    /\ running = IDLE
    /\ pick_next(i)
    /\ in_use' = in_use \cup ({alloc_asid} \ {0})
    /\ jobs' = [jobs EXCEPT ![i] = [@ EXCEPT !.state = "ACTIVE", !.asid = alloc_asid]]
    /\ running' = i
    /\ UNCHANGED next_job_no

\* ACTIVE -> OUTPUT, after the job's steps.
output ==
    /\ running \in Slots
    /\ jobs[running].state = "ACTIVE"
    /\ jobs' = [jobs EXCEPT ![running] = [@ EXCEPT !.state = "OUTPUT"]]
    /\ UNCHANGED <<in_use, next_job_no, running>>

\* Mutant: the address space is not given back.
purge_leaks ==
    /\ running \in Slots
    /\ jobs[running].state = "OUTPUT"
    /\ jobs' = [jobs EXCEPT ![running] = NoJob]
    /\ running' = IDLE
    /\ UNCHANGED <<in_use, next_job_no>>

\* Mutant: the job stays in the table.
purge_keeps ==
    /\ running \in Slots
    /\ jobs[running].state = "OUTPUT"
    /\ in_use' = in_use \ {jobs[running].asid}
    /\ jobs' = [jobs EXCEPT ![running] = [@ EXCEPT !.state = "PURGE"]]
    /\ running' = IDLE
    /\ UNCHANGED next_job_no

\* OUTPUT -> PURGE: the address space is freed and the slot emptied.
purge ==
    /\ running \in Slots
    /\ jobs[running].state = "OUTPUT"
    /\ in_use' = in_use \ {jobs[running].asid}
    /\ jobs' = [jobs EXCEPT ![running] = NoJob]
    /\ running' = IDLE
    /\ UNCHANGED next_job_no

\* run() ends when pick_next() finds nothing.
run_ends ==
    /\ running = IDLE
    /\ Waiting = {}
    /\ running' = OFF
    /\ UNCHANGED <<jobs, in_use, next_job_no>>

JesNext ==
    \/ \E priority \in JobPriorities : submit(priority)
    \/ run
    \/ \E i \in Slots : dispatch(i)
    \/ output
    \/ purge
    \/ run_ends

JesSpec == JesInit /\ [][JesNext]_jesVars

\* run() is a loop that nothing interrupts, and run_demo() always calls it.
JesFairSpec ==
    /\ JesSpec
    /\ WF_jesVars(run) /\ WF_jesVars(\E i \in Slots : dispatch(i))
    /\ WF_jesVars(output) /\ WF_jesVars(purge) /\ WF_jesVars(run_ends)

-----------------------------------------------------------------------------
(* Properties                                                              *)

JesTypeOK ==
    /\ \A i \in Slots :
          jobs[i] = NoJob \/ jobs[i] \in [id : 1 .. MAX_SUBMITS, priority : JobPriorities,
                                          state : {"INPUT", "ACTIVE", "OUTPUT"},
                                          asid : 0 .. MAX_ASID]
    /\ in_use \subseteq 1 .. MAX_ASID
    /\ next_job_no \in 1 .. (MAX_SUBMITS + 1)
    /\ running \in {OFF, IDLE} \cup Slots

\* Address spaces and running jobs correspond: a job past INPUT has one of its
\* own, never the reserved 0, and between jobs none is in use, so the pool is
\* never exhausted however many jobs go through it.
AsidsAreOwned ==
    /\ in_use = {jobs[i].asid : i \in {k \in Slots : jobs[k].state \in {"ACTIVE", "OUTPUT"}}}
    /\ \A i \in Slots : jobs[i].state \in {"ACTIVE", "OUTPUT"} => running = i

\* The job table and the pool of address spaces, after any submissions and runs.
JobsAreSound == JesTypeOK /\ AsidsAreOwned

\* A job is dispatched before every waiting job of lower priority and, although
\* slots are used again, before every later one of the same priority.
Precedes(a, b) == a.priority > b.priority \/ (a.priority = b.priority /\ a.id < b.id)
InOrder ==
    \A i \in Slots : jobs[i].state = "INPUT" /\ jobs'[i].state = "ACTIVE" =>
        \A k \in Waiting \ {i} : Precedes(jobs[i], jobs[k])

\* When run() returns, the table is empty.
Drained == running # OFF /\ running' = OFF => \A i \in Slots : jobs[i] = NoJob

\* run() takes the jobs by priority and order of submission, and does not
\* return while one waits.
DispatchOrder == [][InOrder /\ Drained]_jesVars

\* Every job that was accepted is run and purged.
EveryJobEnds ==
    \A id \in 1 .. MAX_SUBMITS :
        (\E i \in Slots : jobs[i].id = id) ~> (\A i \in Slots : jobs[i].id # id)
=============================================================================
