----------------------------- MODULE MCGpuBridge -----------------------------
(* GpuBridge on small instances: the kernel may hand out either process id. *)
EXTENDS GpuBridge, TLC

PidSymmetry == Permutations(Pids)
=============================================================================
