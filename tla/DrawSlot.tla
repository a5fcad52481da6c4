------------------------------- MODULE DrawSlot -------------------------------
(***************************************************************************)
(* What the runner thread promises to main: one job at a time, done on     *)
(* inputs that nobody changes meanwhile, whose result is the picture those *)
(* inputs describe or no change at all. Runner (src/btop.cpp) implements   *)
(* it with two threads, a flag, a semaphore, a mutex and a lock on the     *)
(* settings.                                                               *)
(***************************************************************************)
CONSTANT Render(_, _)   \* the pictures that a job with these inputs may make of
                        \* an old picture

VARIABLES busy, inputs, picture

Begin == ~busy /\ busy' = TRUE /\ UNCHANGED <<inputs, picture>>

\* Main changes settings, layout, size and job between two jobs, and clears the
\* screen.
Prepare == ~busy /\ ~busy' /\ (picture' = picture \/ picture'.boxes = "none")

Finish ==
    /\ busy /\ busy' = FALSE
    /\ picture' = picture \/ picture' \in Render(inputs, picture)
    /\ UNCHANGED inputs

Next == Begin \/ Prepare \/ Finish

Spec == busy = FALSE /\ [][Next]_<<busy, inputs, picture>>
=============================================================================
