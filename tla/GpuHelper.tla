------------------------------ MODULE GpuHelper ------------------------------
(***************************************************************************)
(* The NVIDIA helper process (src/bettertop_gpu.c) as its parent and       *)
(* the kernel see it: a child that writes frames into a pipe once per      *)
(* sampling interval, can fail or hang in the driver, and dies of signals. *)
(*                                                                         *)
(* One tick is one sampling interval. A frame with status OK reaches the   *)
(* pipe in two writes (the header, then the records), any other as a bare  *)
(* header. GARBAGE stands for every frame the receiver's checks refuse:    *)
(* this helper never writes one, a helper of another build may.            *)
(***************************************************************************)
EXTENDS Integers, Sequences, FiniteSets

CONSTANTS
    Pids,            \* process ids the kernel can hand to a helper
    None,            \* no process, no open descriptor (-1 in the code)
    StaleAfter,      \* stale_after_ns, in ticks; ages are counted up to one more
    CanStick,        \* TRUE: a driver call may be uninterruptible
    PipeChunks,      \* bound: chunks a pipe holds before writes block
    MaxSeq,          \* bound: frames one helper writes before it stalls
    MaxFaults        \* bound: failures the environment injects

ASSUME HelperAssumption ==
    /\ None \notin Pids
    /\ StaleAfter \in Nat \ {0} /\ PipeChunks \in Nat \ {0} /\ MaxSeq \in Nat \ {0}
    /\ MaxFaults \in Nat /\ CanStick \in BOOLEAN

VARIABLES
    procs,           \* the kernel's table of helper processes
    readFd,          \* the helper whose pipe the monitor holds open
    pipe,            \* what that pipe contains
    faults           \* failures injected so far

Status == {"OK", "UNAVAILABLE", "ERROR", "GARBAGE"}
Chunk  == [part : {"head", "body"}, status : Status,
           seq : 1..MaxSeq, age : 0..(StaleAfter + 1)]

Alive  == {"exec", "init", "ready", "writing", "asleep", "hung", "stuck"}
Phases == Alive \cup {"absent", "zombie"}
Proc   == [phase : Phases, masked : BOOLEAN,
           sigs : SUBSET {"TERM", "KILL"}, seq : 0..MaxSeq]
NoProc == [phase |-> "absent", masked |-> FALSE, sigs |-> {}, seq |-> 0]
NewProc(masked) == [NoProc EXCEPT !.phase = "exec", !.masked = masked]

Fault == faults < MaxFaults /\ faults' = faults + 1

Phase(p) == procs[p].phase
Signalled(p, sig) == [procs EXCEPT ![p].sigs = @ \cup {sig}]
Becomes(p, phase) == procs' = [procs EXCEPT ![p].phase = phase]
CanWrite(p) == readFd = p /\ Len(pipe) < PipeChunks
Write(part, status, n) ==
    pipe' = Append(pipe, [part |-> part, status |-> status, seq |-> n, age |-> 0])

\* prctl(PR_SET_PDEATHSIG) and the argument checks.
HelperArm(p) ==
    Phase(p) = "exec" /\ Becomes(p, "init") /\ UNCHANGED <<pipe, faults>>

\* The driver library loads and its devices are found.
HelperInit(p) ==
    Phase(p) = "init" /\ Becomes(p, "ready") /\ UNCHANGED <<pipe, faults>>

\* No driver library, or no device handles: one frame says so, then exit.
HelperInitFails(p) ==
    /\ Phase(p) = "init" /\ Fault
    /\ Becomes(p, "zombie")
    /\ IF CanWrite(p) THEN \E s \in {"UNAVAILABLE", "ERROR"} : Write("head", s, 1)
                      ELSE UNCHANGED pipe

\* write_frame(): make_header() counts the frame and stamps it.
HelperWriteHeader(p) ==
    LET n == procs[p].seq + 1 IN
    /\ Phase(p) = "ready" /\ CanWrite(p) /\ n <= MaxSeq
    /\ procs' = [procs EXCEPT ![p].phase = "writing", ![p].seq = n]
    /\ Write("head", "OK", n)
    /\ UNCHANGED faults

HelperWriteRecords(p) ==
    /\ Phase(p) = "writing" /\ procs[p].seq > 0 /\ CanWrite(p)
    /\ Becomes(p, "asleep")
    /\ Write("body", "OK", procs[p].seq)
    /\ UNCHANGED faults

HelperWriteGarbage(p) ==
    /\ Phase(p) = "ready" /\ CanWrite(p) /\ Fault
    /\ Becomes(p, "asleep")
    /\ Write("head", "GARBAGE", 1)

\* The read end is closed: SIGPIPE ends the process.
HelperBrokenPipe(p) ==
    /\ Phase(p) \in {"ready", "writing"} /\ readFd # p
    /\ Becomes(p, "zombie") /\ UNCHANGED <<pipe, faults>>

\* A driver call that does not return ("stuck": not even for SIGKILL).
HelperHang(p) ==
    /\ Phase(p) \in {"init", "ready"} /\ Fault
    /\ Becomes(p, "hung") \/ (CanStick /\ Becomes(p, "stuck"))
    /\ UNCHANGED pipe

HelperUnstick(p) ==
    Phase(p) = "stuck" /\ Becomes(p, "ready") /\ UNCHANGED <<pipe, faults>>

HelperCrash(p) ==
    Phase(p) \in Alive \ {"stuck"} /\ Fault /\ Becomes(p, "zombie") /\ UNCHANGED pipe

HelperWorks(p) ==
    \/ HelperArm(p) \/ HelperInit(p) \/ HelperWriteHeader(p)
    \/ HelperWriteRecords(p) \/ HelperBrokenPipe(p)
HelperFails(p) ==
    \/ HelperInitFails(p) \/ HelperWriteGarbage(p) \/ HelperHang(p)
    \/ HelperUnstick(p) \/ HelperCrash(p)

\* A pending SIGTERM waits while the process blocks it, a SIGKILL never does.
Deliverable(p) ==
    /\ Phase(p) \in Alive \ {"stuck"}
    /\ "KILL" \in procs[p].sigs \/ ("TERM" \in procs[p].sigs /\ ~procs[p].masked)
SignalDies(p) ==
    Deliverable(p) /\ Becomes(p, "zombie") /\ UNCHANGED <<pipe, faults>>

\* Nothing is left that a scheduled helper would do before the next tick.
Settled(p) ==
    /\ ~Deliverable(p)
    /\ \/ Phase(p) \in {"absent", "zombie", "asleep", "hung", "stuck"}
       \/ Phase(p) \in {"ready", "writing"} /\ readFd = p /\ Len(pipe) >= PipeChunks
       \/ Phase(p) = "ready" /\ readFd = p /\ procs[p].seq = MaxSeq

\* The passing of one tick: sleepers wake, frames age.
Older(n) == IF n > StaleAfter THEN n ELSE n + 1
Aged(s)  == [i \in 1..Len(s) |-> [s[i] EXCEPT !.age = Older(@)]]
Woken    == [p \in Pids |-> IF Phase(p) = "asleep"
                              THEN [procs[p] EXCEPT !.phase = "ready"] ELSE procs[p]]
\* The parent-death SIGTERM, for every helper that has asked for it.
Orphaned == [p \in Pids |-> IF Phase(p) \in Alive \ {"exec"}
                              THEN Signalled(p, "TERM")[p] ELSE procs[p]]
=============================================================================
