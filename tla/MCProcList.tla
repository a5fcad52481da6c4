------------------------------ MODULE MCProcList ------------------------------
(* ProcList on a small instance: four processes, the usage of which orders them *)
(* otherwise than their pids do.                                                *)
EXTENDS ProcList

SmallOwn == <<1, 3, 2, 3>>
=============================================================================
