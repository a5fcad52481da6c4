------------------------------ MODULE Supervisor ------------------------------
(***************************************************************************)
(* What the supervision of the NVIDIA helper promises to the rest of the   *)
(* monitor and to the kernel, without pipes, time-outs, signals or          *)
(* back-off: children is the kernel's list of helpers of this monitor,     *)
(* serving the helper whose frames may still reach the display.            *)
(* GpuBridge (src/linux/btop_gpu_bridge.cpp) implements it.                *)
(***************************************************************************)
CONSTANT Pids

VARIABLES
    children,        \* helpers that exist, dead ones not yet reaped included
    serving,         \* the helper that is read, at most one
    closed           \* the monitor is shutting down or gone

Init == children = {} /\ serving = {} /\ closed = FALSE

\* A helper is started only when there is none and never during a shutdown. It
\* may turn out to be unreadable.
Launch(p) ==
    /\ ~closed /\ children = {}
    /\ children' = {p} /\ serving' \in {{}, {p}}
    /\ UNCHANGED closed

\* A helper is given up: it is never read again.
GiveUp == serving # {} /\ serving' = {} /\ UNCHANGED <<children, closed>>

Collect(p) ==
    /\ p \in children /\ children' = children \ {p} /\ serving' = serving \ {p}
    /\ UNCHANGED closed

Close == ~closed /\ closed' = TRUE /\ serving' = {} /\ UNCHANGED children

Next == GiveUp \/ Close \/ \E p \in Pids : Launch(p) \/ Collect(p)

Spec == Init /\ [][Next]_<<children, serving, closed>>
=============================================================================
