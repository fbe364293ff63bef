------------------------------ MODULE MainLoop ------------------------------
(***************************************************************************)
(* kernel_idle of kernel/core/main.c between the keyboard and the timer    *)
(* (drivers/timer/timer.c): read the keys until there are none, do the     *)
(* rest of the frame, and wait until the frame's time is over.             *)
(*                                                                         *)
(* What the rest of the frame does to the windows is Shell's, what it      *)
(* draws Boot's.  The clock is only read as the difference to the start of *)
(* the wait, so it counts from there, and no further than ELAPSED_MAX.     *)
(***************************************************************************)
EXTENDS Keyboard

CONSTANTS
    g_freq,       \* ticks in a second
    target_fps,   \* of the performance profile, adaptive_settings()
    ELAPSED_MAX   \* a bound

\* timer_uptime_ms rounds nothing at 100 ticks a second.
ASSUME ClockAssumption ==
    /\ g_freq \in Nat \ {0} /\ target_fps \in Nat /\ ELAPSED_MAX \in Nat
    /\ 1000 % g_freq = 0

VARIABLES
    elapsed,   \* ticks since the start of the wait
    older      \* history: the characters still waiting of those that were
               \* there when the last frame was drawn

loopVars == <<vars, elapsed, older>>

LoopInit == Init /\ elapsed = 0 /\ older = 0
----------------------------------------------------------------------------
timer_irq ==
    /\ elapsed' = IF pc = "wait" /\ elapsed < ELAPSED_MAX THEN elapsed + 1 ELSE elapsed
    /\ UNCHANGED <<vars, older>>

timer_uptime_ms == (elapsed * 1000) \div g_freq

frame_ms == IF target_fps # 0 THEN 1000 \div target_fps ELSE 16

ReadKeys ==
    /\ TestEmpty \/ ReadSlot \/ Advance \/ Dispatch
    /\ older' = IF kbd_tail' # kbd_tail /\ older > 0 THEN older - 1 ELSE older
    /\ UNCHANGED elapsed

\* From desktop_handle_mouse to the start of the wait.
Frame ==
    /\ pc = "frame"
    /\ pc' = "wait"
    /\ older' = Len(Pending)
    /\ elapsed' = 0
    /\ UNCHANGED <<driver, modifiers, c, delivered>>

\* A fault: the wait ends at the very millisecond.
WaitExactly ==
    /\ pc = "wait"
    /\ timer_uptime_ms = frame_ms
    /\ pc' = "test"
    /\ elapsed' = 0
    /\ UNCHANGED <<driver, modifiers, c, delivered, older>>

WaitOver ==
    /\ pc = "wait"
    /\ timer_uptime_ms >= frame_ms
    /\ pc' = "test"
    /\ elapsed' = 0
    /\ UNCHANGED <<driver, modifiers, c, delivered, older>>

kernel_idle == ReadKeys \/ Frame \/ WaitOver

LoopNext ==
    \/ keyboard_irq /\ UNCHANGED <<elapsed, older>>
    \/ timer_irq
    \/ kernel_idle

\* Interrupt handlers return, so the main loop always gets to its next step,
\* and the timer ticks.
LoopSpec ==
    LoopInit /\ [][LoopNext]_loopVars /\ WF_loopVars(kernel_idle) /\ WF_loopVars(timer_irq)
----------------------------------------------------------------------------
TypeOK ==
    /\ KeyboardTypeOK
    /\ pc \in KeyLoop \cup {"frame", "wait"}
    /\ elapsed \in 0 .. ELAPSED_MAX
    /\ older \in 0 .. KBD_BUF_SIZE - 1

(***************************************************************************)
(* No key lags (main.c:53): when a frame is drawn, every character that    *)
(* was in the buffer when the frame before it was drawn has been acted on, *)
(* whatever is typed while the loop reads and however full the buffer was. *)
(***************************************************************************)
KeysInTime == pc = "frame" => older = 0

(***************************************************************************)
(* Frames go on (main.c:98): as long as nobody types faster than the loop  *)
(* over the keys reads, a next frame is always drawn.  The wait ends       *)
(* although the clock advances by ticks of 10 ms and never shows the 16 ms *)
(* of a frame.                                                             *)
(***************************************************************************)
FramesGoOn == []<>(pc \notin KeyLoop) => []<>(pc = "frame")
=============================================================================
