------------------------------- MODULE Timer -------------------------------
(***************************************************************************)
(* The timer driver, munux-os/kernel/drivers/timer.c: the tick counter the *)
(* IRQ0 handler advances, and a thread in timer_wait(), which halts until  *)
(* the counter reaches a value.  The thread can be interrupted between the *)
(* comparison and the hlt.                                                 *)
(***************************************************************************)
EXTENDS Integers

CONSTANTS
    TICKS,      \* values of timer_ticks (2^32)
    Waits,      \* the arguments timer_wait() is called with
    WrapsTicks  \* TRUE: timer_wait() is also called when the counter is about to wrap

ASSUME TimerAssumption == TICKS \in Nat \ {0} /\ Waits \subseteq Nat /\ WrapsTicks \in BOOLEAN

VARIABLES
    timer_ticks,
    wait        \* the thread's call: place, argument, end_tick, ticks since it began

timer == <<timer_ticks, wait>>

NoWait == [pc |-> "none", ticks |-> 0, end_tick |-> 0, elapsed |-> 0]

\* timer_init() at boot.
timer_init == timer_ticks = 0 /\ wait = NoWait

\* IRQ0.
timer_callback ==
    /\ timer_ticks' = (timer_ticks + 1) % TICKS
    /\ wait' = IF wait = NoWait THEN wait ELSE [wait EXCEPT !.elapsed = @ + 1]

\* Any interrupt ends a halt.
TimerWakes == [wait EXCEPT !.pc = IF @ = "halted" THEN "check" ELSE @]

timer_wait(ticks) ==
    /\ wait = NoWait
    /\ WrapsTicks \/ timer_ticks + ticks + 1 < TICKS
    /\ wait' = [pc |-> "check", ticks |-> ticks,
                end_tick |-> (timer_ticks + ticks) % TICKS, elapsed |-> 0]
    /\ UNCHANGED timer_ticks

\* Mutant: the loop goes on while the counter is not past the end.
timer_wait_check_inclusive ==
    /\ wait.pc = "check"
    /\ wait' = IF timer_ticks <= wait.end_tick THEN [wait EXCEPT !.pc = "hlt"] ELSE NoWait
    /\ UNCHANGED timer_ticks

\* while (timer_ticks < end_tick); the call returns when the test fails.
timer_wait_check ==
    /\ wait.pc = "check"
    /\ wait' = IF timer_ticks < wait.end_tick THEN [wait EXCEPT !.pc = "hlt"] ELSE NoWait
    /\ UNCHANGED timer_ticks

timer_wait_hlt ==
    /\ wait.pc = "hlt"
    /\ wait' = [wait EXCEPT !.pc = "halted"]
    /\ UNCHANGED timer_ticks
=============================================================================
