---------------------------- MODULE GpuBridge_proofs ----------------------------
(***************************************************************************)
(* TLAPS proofs about GpuBridge, for every set of process ids and every    *)
(* value of the delays and bounds.                                         *)
(***************************************************************************)
EXTENDS GpuBridge, TLAPS

-----------------------------------------------------------------------------
(* Type correctness.                                                       *)

\* Sending a signal, changing a phase or adding a process keeps the process
\* table well typed.
LEMMA ProcTable ==
    ASSUME procs \in [Pids -> Proc], NEW p \in Pids
    PROVE  /\ \A sig \in {"TERM", "KILL"} : Signalled(p, sig) \in [Pids -> Proc]
           /\ \A ph \in Phases : [procs EXCEPT ![p].phase = ph] \in [Pids -> Proc]
           /\ \A m \in BOOLEAN : NewProc(m) \in Proc
           /\ NoProc \in Proc
<1>1. procs[p] \in Proc
  OBVIOUS
<1>2. \A sig \in {"TERM", "KILL"} : [procs[p] EXCEPT !.sigs = @ \cup {sig}] \in Proc
  BY <1>1 DEF Proc
<1>3. \A ph \in Phases : [procs[p] EXCEPT !.phase = ph] \in Proc
  BY <1>1 DEF Proc
<1>4. NoProc \in Proc
  BY HelperAssumption DEF HelperAssumption, NoProc, Proc, Phases, Alive
<1>5. \A m \in BOOLEAN : NewProc(m) \in Proc
  BY <1>4 DEF NewProc, Proc, Phases, Alive
<1>6. QED
  BY <1>2, <1>3, <1>4, <1>5 DEF Signalled

\* The clock ages a sequence of chunks into a sequence of chunks.
LEMMA AgedType ==
    ASSUME NEW s \in Seq(Chunk)
    PROVE  Aged(s) \in Seq(Chunk)
<1>1. \A i \in 1..Len(s) : [s[i] EXCEPT !.age = Older(@)] \in Chunk
  <2>1. ASSUME NEW i \in 1..Len(s) PROVE s[i] \in Chunk
    OBVIOUS
  <2>2. \A n \in 0..(StaleAfter + 1) : Older(n) \in 0..(StaleAfter + 1)
    BY HelperAssumption DEF HelperAssumption, Older
  <2>3. ASSUME NEW c \in Chunk PROVE [c EXCEPT !.age = Older(@)] \in Chunk
    BY <2>2 DEF Chunk
  <2>4. QED
    BY <2>1, <2>3
<1>2. QED
  BY <1>1 DEF Aged

LEMMA TypeInit == Init => TypeOK
<1>1. SUFFICES ASSUME Init PROVE TypeOK
  OBVIOUS
<1>2. FlagsOK
  BY <1>1 DEF Init, FlagsOK
<1>3. LabelsOK
  BY <1>1 DEF Init, LabelsOK, Labels, HealthStates, Status
<1>4. StreamOK
  BY <1>1 DEF Init, StreamOK
<1>5. PaceOK /\ CountsOK
  BY <1>1, HelperAssumption, BridgeAssumption
     DEF HelperAssumption, BridgeAssumption, Init, PaceOK, CountsOK
<1>6. ProcsOK
  BY <1>1, HelperAssumption
     DEF HelperAssumption, Init, ProcsOK, NoProc, Proc, Phases, Alive
<1>7. QED
  BY <1>2, <1>3, <1>4, <1>5, <1>6 DEF TypeOK

(* What the pieces of the controller leave well typed.                     *)

ChildOK == /\ termSent \in BOOLEAN /\ killSent \in BOOLEAN
           /\ killIn \in 0..KillDelay /\ ProcsOK

\* Closing the pipe, and keeping the pid.
LEMMA ClosePipeType ==
    ASSUME TypeOK, ClosePipe, UNCHANGED pid PROVE StreamOK'
BY DEF TypeOK, ClosePipe, StreamOK

LEMMA RequestTerminationType ==
    ASSUME TypeOK, RequestTermination PROVE ChildOK'
<1>1. CASE pid # None /\ ~termSent
  <2>1. pid \in Pids
    BY <1>1 DEF TypeOK, StreamOK
  <2>2. procs' = Signalled(pid, "TERM") /\ termSent' = TRUE /\ killSent' = FALSE
        /\ killIn' = KillDelay
    BY <1>1 DEF RequestTermination
  <2>3. ProcsOK'
    BY <2>1, <2>2, ProcTable DEF TypeOK, ProcsOK
  <2>4. killIn' \in 0..KillDelay
    BY <2>2, BridgeAssumption DEF BridgeAssumption
  <2>5. QED
    BY <2>2, <2>3, <2>4 DEF ChildOK
<1>2. CASE ~(pid # None /\ ~termSent)
  BY <1>2 DEF RequestTermination, kidVars, ChildOK, TypeOK, FlagsOK, CountsOK, ProcsOK
<1>3. QED
  BY <1>1, <1>2

LEMMA CutOffType ==
    ASSUME TypeOK, CutOff, UNCHANGED pid PROVE ChildOK' /\ StreamOK'
BY RequestTerminationType, ClosePipeType DEF CutOff

LEMMA BackOffType ==
    ASSUME TypeOK, BackOff PROVE PaceOK'
BY BridgeAssumption DEF BridgeAssumption, TypeOK, PaceOK, BackOff, Doubled

LEMMA FaultType ==
    ASSUME TypeOK, Fault PROVE faults' \in 0..MaxFaults
BY HelperAssumption DEF HelperAssumption, TypeOK, CountsOK, Fault

SpawnTyped == /\ StreamOK /\ PaceOK /\ ChildOK
              /\ helperStatus \in Status \ {"GARBAGE"} /\ hasSeq \in BOOLEAN
              /\ frameAge \in 0..(StaleAfter + 1) /\ faults \in 0..MaxFaults

LEMMA SpawnedType ==
    ASSUME TypeOK, NEW p \in Pids, NEW masked \in BOOLEAN, Spawned(p, masked)
    PROVE  SpawnTyped'
<1>1. ProcsOK'
  <2>1. procs' = [procs EXCEPT ![p] = NewProc(masked)] /\ NewProc(masked) \in Proc
    BY ProcTable DEF Spawned, TypeOK, ProcsOK
  <2>2. QED
    BY <2>1 DEF TypeOK, ProcsOK
<1>2. StreamOK' /\ PaceOK'
  BY DEF Spawned, TypeOK, StreamOK, PaceOK, paceVars
<1>3. ChildOK'
  BY <1>1 DEF Spawned, TypeOK, CountsOK, ChildOK
<1>4. helperStatus' \in Status \ {"GARBAGE"}
  BY DEF Spawned, Status
<1>5. hasSeq' \in BOOLEAN
  BY DEF Spawned
<1>6. frameAge' \in 0..(StaleAfter + 1) /\ faults' \in 0..MaxFaults
  BY HelperAssumption DEF HelperAssumption, Spawned, TypeOK, CountsOK
<1>7. QED
  BY <1>1, <1>2, <1>3, <1>4, <1>5, <1>6 DEF SpawnTyped

LEMMA SpawnUnreadableType ==
    ASSUME TypeOK, NEW p \in Pids, NEW masked \in BOOLEAN, SpawnUnreadable(p, masked)
    PROVE  SpawnTyped'
<1>1. ProcsOK'
  <2>1. NewProc(masked) \in Proc
    BY ProcTable DEF TypeOK, ProcsOK
  <2>2. [NewProc(masked) EXCEPT !.sigs = {"TERM"}] \in Proc
    BY <2>1 DEF Proc
  <2>3. QED
    BY <2>2 DEF SpawnUnreadable, TypeOK, ProcsOK
<1>2. StreamOK' /\ PaceOK'
  BY DEF SpawnUnreadable, ClosePipe, TypeOK, StreamOK, PaceOK, paceVars
<1>3. ChildOK'
  BY <1>1 DEF SpawnUnreadable, TypeOK, CountsOK, FlagsOK, ChildOK
<1>4. helperStatus' \in Status \ {"GARBAGE"}
  BY DEF SpawnUnreadable, Status
<1>5. hasSeq' \in BOOLEAN
  BY DEF SpawnUnreadable, TypeOK, FlagsOK
<1>6. frameAge' \in 0..(StaleAfter + 1) /\ faults' \in 0..MaxFaults
  BY FaultType DEF SpawnUnreadable, TypeOK, CountsOK
<1>7. QED
  BY <1>1, <1>2, <1>3, <1>4, <1>5, <1>6 DEF SpawnTyped

LEMMA SpawnFailedType ==
    ASSUME TypeOK, SpawnFailed PROVE SpawnTyped'
<1>1. PaceOK'
  BY BackOffType DEF SpawnFailed
<1>2. ChildOK' /\ StreamOK'
  BY DEF SpawnFailed, kidVars, streamVars, ChildOK, StreamOK, ProcsOK, TypeOK, FlagsOK, CountsOK
<1>3. helperStatus' \in Status \ {"GARBAGE"}
  BY DEF SpawnFailed, Status
<1>4. hasSeq' \in BOOLEAN
  BY DEF SpawnFailed, TypeOK, FlagsOK
<1>5. frameAge' \in 0..(StaleAfter + 1) /\ faults' \in 0..MaxFaults
  BY FaultType DEF SpawnFailed, TypeOK, CountsOK
<1>6. QED
  BY <1>1, <1>2, <1>3, <1>4, <1>5 DEF SpawnTyped

LEMMA TrySpawnType ==
    ASSUME TypeOK, NEW on \in BOOLEAN, NEW masked \in BOOLEAN, TrySpawn(on, masked)
    PROVE  SpawnTyped'
<1>1. CASE ~MaySpawn(on) /\ UNCHANGED <<pid, kidVars, streamVars, frameAge, hasSeq,
                                        helperStatus, paceVars, faults>>
  BY <1>1 DEF SpawnTyped, kidVars, streamVars, paceVars, ChildOK, StreamOK, PaceOK, ProcsOK,
              TypeOK, FlagsOK, CountsOK, LabelsOK
<1>2. QED
  BY <1>1, SpawnedType, SpawnUnreadableType, SpawnFailedType DEF TrySpawn

LEMMA ReapType ==
    ASSUME TypeOK, pid # None, Reap
    PROVE  StreamOK' /\ PaceOK' /\ ChildOK' /\ forceRetry' \in BOOLEAN
<1>1. PaceOK'
  <2>1. CASE forceRetry
    BY <2>1, BridgeAssumption DEF BridgeAssumption, Reap, PaceOK
  <2>2. CASE ~forceRetry
    BY <2>2, BackOffType DEF Reap
  <2>3. QED
    BY <2>1, <2>2
<1>2. ProcsOK'
  BY ProcTable DEF Reap, TypeOK, ProcsOK, StreamOK
<1>3. StreamOK'
  BY DEF Reap, ClosePipe, TypeOK, StreamOK
<1>4. ChildOK' /\ forceRetry' \in BOOLEAN
  BY <1>2 DEF Reap, ChildOK, TypeOK, CountsOK
<1>5. QED
  BY <1>1, <1>3, <1>4

LEMMA HealthOfType ==
    ASSUME TypeOK, NEW on \in BOOLEAN, NEW p, NEW status
    PROVE  HealthOf(on, p, status) \in HealthStates
BY DEF HealthOf, HealthStates, TypeOK, FlagsOK

-----------------------------------------------------------------------------
(* Each step keeps the types. Every action lists the groups of TypeOK it   *)
(* changes; the others follow from its UNCHANGED.                          *)

LEMMA StartType == ASSUME TypeOK, Start PROVE TypeOK'
<1>1. SpawnTyped'
  BY TrySpawnType DEF Start, TypeOK, FlagsOK
<1>2. FlagsOK'
  BY <1>1 DEF Start, SpawnTyped, ChildOK, TypeOK, FlagsOK, sampleVars, userVars
<1>3. LabelsOK'
  BY <1>1 DEF Start, SpawnTyped, LabelsOK, Labels, HealthStates
<1>4. CountsOK'
  BY <1>1 DEF Start, SpawnTyped, ChildOK, TypeOK, CountsOK, sampleVars, userVars, timeVars
<1>5. QED
  BY <1>1, <1>2, <1>3, <1>4 DEF TypeOK, SpawnTyped, ChildOK

LEMMA PollBeginType == ASSUME TypeOK, PollBegin PROVE TypeOK'
<1>1. PaceOK'
  BY BridgeAssumption DEF BridgeAssumption, PollBegin, TypeOK, PaceOK, paceVars
<1>2. ChildOK' /\ StreamOK'
  <2>1. UNCHANGED pid
    BY DEF PollBegin
  <2>2. CASE CutOff
    BY <2>1, <2>2, CutOffType
  <2>3. CASE UNCHANGED <<kidVars, streamVars>>
    BY <2>1, <2>3 DEF kidVars, streamVars, ChildOK, StreamOK, ProcsOK, TypeOK, FlagsOK, CountsOK
  <2>4. QED
    BY <2>2, <2>3 DEF PollBegin
<1>3. FlagsOK'
  BY <1>2 DEF PollBegin, ChildOK, TypeOK, FlagsOK, seqVars, sampleVars
<1>4. LabelsOK'
  BY DEF PollBegin, TypeOK, LabelsOK, Labels, PollLabels, viewVars
<1>5. CountsOK'
  BY <1>2, BridgeAssumption DEF BridgeAssumption, PollBegin, ChildOK, TypeOK, CountsOK,
                                seqVars, sampleVars, timeVars
<1>6. QED
  BY <1>1, <1>2, <1>3, <1>4, <1>5 DEF TypeOK, ChildOK

LEMMA PollSpawnType == ASSUME TypeOK, PollSpawn PROVE TypeOK'
<1>1. SpawnTyped'
  BY TrySpawnType DEF PollSpawn, TypeOK, FlagsOK
<1>2. FlagsOK'
  BY <1>1 DEF PollSpawn, SpawnTyped, ChildOK, TypeOK, FlagsOK, modeVars, sampleVars, userVars
<1>3. LabelsOK'
  BY <1>1 DEF PollSpawn, SpawnTyped, TypeOK, LabelsOK, Labels, PollLabels
<1>4. CountsOK'
  BY <1>1 DEF PollSpawn, SpawnTyped, ChildOK, TypeOK, CountsOK, sampleVars, userVars, timeVars
<1>5. QED
  BY <1>1, <1>2, <1>3, <1>4 DEF TypeOK, SpawnTyped, ChildOK

LEMMA PollFinishType == ASSUME TypeOK, PollFinish PROVE TypeOK'
<1>1. SpawnTyped'
  BY TrySpawnType DEF PollFinish, TypeOK, FlagsOK
<1>2. FlagsOK'
  BY <1>1 DEF PollFinish, SpawnTyped, ChildOK, TypeOK, FlagsOK, modeVars, sampleVars, userVars
<1>3. LabelsOK'
  <2>1. health' \in HealthStates
    <3>1. hasSample \in BOOLEAN /\ enabled \in BOOLEAN
      BY DEF TypeOK, FlagsOK
    <3>2. QED
      BY <3>1, HealthOfType DEF PollFinish
  <2>2. pc' \in Labels
    BY DEF PollFinish, Labels
  <2>3. QED
    BY <1>1, <2>1, <2>2 DEF SpawnTyped, LabelsOK
<1>4. CountsOK'
  BY <1>1, BridgeAssumption DEF BridgeAssumption, PollFinish, SpawnTyped, ChildOK, TypeOK,
                                CountsOK, sampleVars, userVars
<1>5. QED
  BY <1>1, <1>2, <1>3, <1>4 DEF TypeOK, SpawnTyped, ChildOK

LEMMA DecodeFrameType == ASSUME TypeOK, DecodeFrame PROVE TypeOK'
<1> DEFINE c == Head(input)
<1>1. c \in Chunk /\ Len(input) \in Nat /\ c.status # "GARBAGE"
  BY DEF DecodeFrame, WantsFrame, FrontComplete, Accepted, TypeOK, StreamOK
<1>2. c.status \in Status /\ c.seq \in 1..MaxSeq /\ c.age \in 0..(StaleAfter + 1)
  BY <1>1 DEF Chunk
<1>3. FrameLen(c) \in {1, 2}
  BY DEF FrameLen
<1>4. input' \in Seq(Chunk)
  <2>1. FrameLen(c) + 1 \in 1..(Len(input) + 1)
    BY <1>1, <1>3 DEF DecodeFrame, WantsFrame, FrontComplete
  <2>2. \A i \in (FrameLen(c) + 1)..Len(input) : input[i] \in Chunk
    BY <2>1, <1>1 DEF TypeOK, StreamOK
  <2>3. QED
    BY <2>1, <2>2, <1>1 DEF DecodeFrame
<1>5. StreamOK' /\ ProcsOK'
  BY <1>4 DEF DecodeFrame, TypeOK, StreamOK, ProcsOK, kidVars
<1>6. FlagsOK'
  BY DEF DecodeFrame, TypeOK, FlagsOK, sampleVars, kidVars, modeVars, userVars
<1>7. LabelsOK'
  BY <1>1, <1>2 DEF DecodeFrame, TypeOK, LabelsOK
<1>8. PaceOK'
  BY BridgeAssumption DEF BridgeAssumption, DecodeFrame, TypeOK, PaceOK
<1>9. CountsOK'
  <2>1. framesRead' \in 0..FramesPerPoll /\ lastSeq' \in 0..MaxSeq
        /\ frameAge' \in 0..(StaleAfter + 1)
    BY <1>2, HelperAssumption, BridgeAssumption
       DEF HelperAssumption, BridgeAssumption, DecodeFrame, WantsFrame, FrameBudget,
           TypeOK, CountsOK
  <2>2. sampleAge' \in 0..(StaleAfter + 1)
    BY <1>2 DEF DecodeFrame, SampledAgo, TypeOK, CountsOK, sampleVars
  <2>3. QED
    BY <2>1, <2>2 DEF DecodeFrame, TypeOK, CountsOK, kidVars, userVars, timeVars
<1>10. QED
  BY <1>5, <1>6, <1>7, <1>8, <1>9 DEF TypeOK

LEMMA ReadMoreType == ASSUME TypeOK, ReadMore PROVE TypeOK'
<1>1. StreamOK'
  BY DEF ReadMore, ctlVars, TypeOK, StreamOK
<1>2. FlagsOK' /\ LabelsOK'
  BY DEF ReadMore, TypeOK, FlagsOK, LabelsOK, ctlVars, kidVars, seqVars, modeVars,
         sampleVars, viewVars, userVars
<1>3. PaceOK' /\ CountsOK' /\ ProcsOK'
  BY DEF ReadMore, TypeOK, PaceOK, CountsOK, ProcsOK, ctlVars, kidVars, paceVars, seqVars,
         sampleVars, userVars, timeVars
<1>4. QED
  BY <1>1, <1>2, <1>3 DEF TypeOK

LEMMA ReadEndsType == ASSUME TypeOK, ReadEnds PROVE TypeOK'
<1>1. UNCHANGED pid /\ pc' = "reap"
  BY DEF ReadEnds
<1>2. ChildOK' /\ StreamOK' /\ UNCHANGED health
      /\ helperStatus' \in Status \ {"GARBAGE"} /\ faults' \in 0..MaxFaults
  <2>1. CASE ReadDone
    BY <1>1, <2>1 DEF ReadDone, kidVars, streamVars, viewVars, ChildOK, StreamOK, ProcsOK,
                      TypeOK, FlagsOK, CountsOK, LabelsOK
  <2>2. CASE ReadEof
    BY <1>1, <2>2, CutOffType DEF ReadEof, viewVars, TypeOK, LabelsOK, CountsOK
  <2>3. CASE ReadFails
    <3>1. faults' \in 0..MaxFaults
      BY <2>3, FaultType DEF ReadFails, TypeOK, CountsOK
    <3>2. helperStatus' \in Status \ {"GARBAGE"} /\ UNCHANGED health
      BY <2>3 DEF ReadFails, Status
    <3>3. QED
      BY <1>1, <2>3, <3>1, <3>2, CutOffType DEF ReadFails
  <2>4. QED
    BY <2>1, <2>2, <2>3 DEF ReadEnds
<1>3. FlagsOK'
  BY <1>2 DEF ReadEnds, ChildOK, TypeOK, FlagsOK, seqVars, modeVars, sampleVars, userVars
<1>4. LabelsOK'
  BY <1>1, <1>2 DEF TypeOK, LabelsOK, Labels, PollLabels
<1>5. PaceOK' /\ CountsOK'
  BY <1>2 DEF ReadEnds, ChildOK, TypeOK, PaceOK, CountsOK, paceVars, seqVars, sampleVars,
              userVars, timeVars
<1>6. QED
  BY <1>2, <1>3, <1>4, <1>5 DEF TypeOK, ChildOK

LEMMA PollReapType == ASSUME TypeOK, PollReap PROVE TypeOK'
<1>1. StreamOK' /\ PaceOK' /\ ChildOK' /\ forceRetry' \in BOOLEAN
  <2>1. CASE Exited
    BY <2>1, ReapType DEF PollReap, Exited
  <2>2. CASE ~Exited
    BY <2>2 DEF PollReap, TypeOK, StreamOK, PaceOK, ChildOK, ProcsOK, FlagsOK, CountsOK,
                kidVars, streamVars, paceVars
  <2>3. QED
    BY <2>1, <2>2
<1>2. FlagsOK'
  BY <1>1 DEF PollReap, ChildOK, TypeOK, FlagsOK, seqVars, modeVars, sampleVars, userVars
<1>3. LabelsOK'
  BY DEF PollReap, TypeOK, LabelsOK, Labels, PollLabels, viewVars
<1>4. CountsOK'
  BY <1>1 DEF PollReap, ChildOK, TypeOK, CountsOK, seqVars, sampleVars, userVars, timeVars
<1>5. QED
  BY <1>1, <1>2, <1>3, <1>4 DEF TypeOK, ChildOK

LEMMA PollTimeoutsType == ASSUME TypeOK, PollTimeouts PROVE TypeOK'
<1>1. UNCHANGED <<pid, faults, framesRead, frameAge, forceRetry>>
  BY DEF PollTimeouts, ctlVars
<1>2. StreamOK'
  BY <1>1, ClosePipeType DEF PollTimeouts, streamVars, TypeOK, StreamOK
<1>3. ChildOK'
  <2>1. CASE RequestTermination
    BY <2>1, RequestTerminationType
  <2>2. CASE pid # None /\ procs' = Signalled(pid, "KILL") /\ killSent' = TRUE
             /\ UNCHANGED <<termSent, killIn>>
    <3>1. ProcsOK'
      BY <2>2, ProcTable DEF TypeOK, ProcsOK, StreamOK
    <3>2. QED
      BY <2>2, <3>1 DEF ChildOK, TypeOK, FlagsOK, CountsOK
  <2>3. CASE UNCHANGED kidVars
    BY <2>3 DEF kidVars, ChildOK, ProcsOK, TypeOK, FlagsOK, CountsOK
  <2>4. QED
    BY <2>1, <2>2, <2>3 DEF PollTimeouts
<1>4. FlagsOK'
  BY <1>1, <1>3 DEF PollTimeouts, ChildOK, TypeOK, FlagsOK, seqVars, modeVars, sampleVars,
                    userVars
<1>5. LabelsOK'
  <2>1. health' \in HealthStates
    BY HealthOfType DEF PollTimeouts, TypeOK, FlagsOK
  <2>2. QED
    BY <2>1 DEF PollTimeouts, TypeOK, LabelsOK, Labels, PollLabels
<1>6. PaceOK' /\ CountsOK'
  BY <1>1, <1>3 DEF PollTimeouts, ChildOK, TypeOK, PaceOK, CountsOK, paceVars, seqVars,
                    sampleVars, userVars, timeVars
<1>7. QED
  BY <1>2, <1>3, <1>4, <1>5, <1>6 DEF TypeOK, ChildOK

LEMMA UserOpType == ASSUME TypeOK, UserOp PROVE TypeOK'
<1>1. FlagsOK'
  BY DEF UserOp, TypeOK, FlagsOK, ctlVars, kidVars, seqVars, modeVars, sampleVars
<1>2. LabelsOK' /\ StreamOK' /\ PaceOK' /\ ProcsOK'
  BY DEF UserOp, TypeOK, LabelsOK, StreamOK, PaceOK, ProcsOK, ctlVars, kidVars, streamVars,
         paceVars, viewVars
<1>3. CountsOK'
  BY BridgeAssumption DEF BridgeAssumption, UserOp, TypeOK, CountsOK, ctlVars, kidVars,
                          seqVars, sampleVars, timeVars
<1>4. QED
  BY <1>1, <1>2, <1>3 DEF TypeOK

LEMMA ShutdownBeginType == ASSUME TypeOK, ShutdownBegin PROVE TypeOK'
<1>1. UNCHANGED <<pid, faults, framesRead, frameAge, forceRetry>>
  BY DEF ShutdownBegin, ctlVars
<1>2. ChildOK' /\ StreamOK'
  BY <1>1, CutOffType DEF ShutdownBegin
<1>3. FlagsOK'
  BY <1>1, <1>2 DEF ShutdownBegin, ChildOK, TypeOK, FlagsOK, seqVars, sampleVars, userVars
<1>4. LabelsOK'
  BY DEF ShutdownBegin, TypeOK, LabelsOK, Labels, WaitLabels, viewVars
<1>5. PaceOK' /\ CountsOK'
  BY <1>1, <1>2, BridgeAssumption
     DEF BridgeAssumption, ShutdownBegin, ChildOK, TypeOK, PaceOK, CountsOK, paceVars,
         seqVars, sampleVars, userVars
<1>6. QED
  BY <1>2, <1>3, <1>4, <1>5 DEF TypeOK, ChildOK

LEMMA ShutdownReapType == ASSUME TypeOK, ShutdownReap PROVE TypeOK'
<1>1. StreamOK' /\ PaceOK' /\ ChildOK' /\ forceRetry' \in BOOLEAN
  BY ReapType DEF ShutdownReap, Exited
<1>2. FlagsOK'
  BY <1>1 DEF ShutdownReap, ChildOK, TypeOK, FlagsOK, seqVars, modeVars, sampleVars, userVars
<1>3. LabelsOK'
  BY DEF ShutdownReap, TypeOK, LabelsOK, viewVars
<1>4. CountsOK'
  BY <1>1 DEF ShutdownReap, ChildOK, TypeOK, CountsOK, seqVars, sampleVars, userVars, timeVars
<1>5. QED
  BY <1>1, <1>2, <1>3, <1>4 DEF TypeOK, ChildOK

LEMMA ShutdownKillType == ASSUME TypeOK, ShutdownKill PROVE TypeOK'
<1>1. ProcsOK'
  BY ProcTable DEF ShutdownKill, TypeOK, ProcsOK, StreamOK
<1>2. FlagsOK'
  BY DEF ShutdownKill, TypeOK, FlagsOK, ctlVars, seqVars, modeVars, sampleVars, userVars
<1>3. LabelsOK' /\ StreamOK' /\ PaceOK'
  BY DEF ShutdownKill, TypeOK, LabelsOK, StreamOK, PaceOK, Labels, WaitLabels, ctlVars,
         viewVars, streamVars, paceVars
<1>4. CountsOK'
  BY BridgeAssumption DEF BridgeAssumption, ShutdownKill, TypeOK, CountsOK, ctlVars, seqVars,
                          sampleVars, userVars
<1>5. QED
  BY <1>1, <1>2, <1>3, <1>4 DEF TypeOK

LEMMA ShutdownEndType == ASSUME TypeOK, ShutdownEnd PROVE TypeOK'
<1>1. FlagsOK'
  BY DEF ShutdownEnd, TypeOK, FlagsOK, ctlVars, kidVars, seqVars, modeVars, sampleVars, userVars
<1>2. LabelsOK'
  BY DEF ShutdownEnd, TypeOK, LabelsOK, Labels, HealthStates
<1>3. StreamOK' /\ PaceOK' /\ CountsOK' /\ ProcsOK'
  BY DEF ShutdownEnd, TypeOK, StreamOK, PaceOK, CountsOK, ProcsOK, ctlVars, kidVars,
         streamVars, paceVars, seqVars, sampleVars, userVars, timeVars
<1>4. QED
  BY <1>1, <1>2, <1>3 DEF TypeOK

LEMMA ProcessEndsType == ASSUME TypeOK, ProcessEnds PROVE TypeOK'
<1>1. ProcsOK'
  <2>1. \A p \in Pids : Signalled(p, "TERM")[p] \in Proc
    BY ProcTable DEF TypeOK, ProcsOK
  <2>2. QED
    BY <2>1 DEF ProcessEnds, Orphaned, TypeOK, ProcsOK
<1>2. FlagsOK'
  BY DEF ProcessEnds, TypeOK, FlagsOK, seqVars, modeVars, sampleVars, userVars
<1>3. LabelsOK' /\ StreamOK' /\ PaceOK'
  BY DEF ProcessEnds, TypeOK, LabelsOK, StreamOK, PaceOK, Labels, ClosePipe, viewVars, paceVars
<1>4. CountsOK'
  BY FaultType DEF ProcessEnds, TypeOK, CountsOK, seqVars, sampleVars, userVars, timeVars
<1>5. QED
  BY <1>1, <1>2, <1>3, <1>4 DEF TypeOK

LEMMA WriteType ==
    ASSUME TypeOK, NEW part \in {"head", "body"}, NEW status \in Status, NEW n \in 1..MaxSeq,
           Write(part, status, n)
    PROVE  pipe' \in Seq(Chunk)
<1>1. [part |-> part, status |-> status, seq |-> n, age |-> 0] \in Chunk
  BY HelperAssumption DEF HelperAssumption, Chunk
<1>2. QED
  BY <1>1 DEF Write, TypeOK, StreamOK

\* What a step of the helper, of the kernel or of init may change.
HelperTyped == ProcsOK /\ pipe \in Seq(Chunk) /\ faults \in 0..MaxFaults

LEMMA BecomesType ==
    ASSUME TypeOK, NEW p \in Pids, NEW ph \in Phases, Becomes(p, ph) PROVE ProcsOK'
BY ProcTable DEF Becomes, TypeOK, ProcsOK

LEMMA HelperWorksType ==
    ASSUME TypeOK, NEW p \in Pids, HelperWorks(p) PROVE HelperTyped'
<1> USE DEF HelperTyped
<1>1. procs[p] \in Proc /\ pipe \in Seq(Chunk) /\ faults \in 0..MaxFaults
  BY DEF TypeOK, ProcsOK, StreamOK, CountsOK
<1>2. CASE HelperArm(p) \/ HelperInit(p) \/ HelperBrokenPipe(p)
  BY <1>1, <1>2, BecomesType DEF HelperArm, HelperInit, HelperBrokenPipe, Phases, Alive
<1>3. CASE HelperWriteHeader(p)
  <2>1. procs[p].seq + 1 \in 1..MaxSeq
    BY <1>1, <1>3 DEF HelperWriteHeader, Proc
  <2>2. pipe' \in Seq(Chunk)
    BY <1>3, <2>1, WriteType DEF HelperWriteHeader, Status
  <2>3. [procs[p] EXCEPT !.phase = "writing", !.seq = procs[p].seq + 1] \in Proc
    <3>1. \A n \in 0..MaxSeq : [procs[p] EXCEPT !.phase = "writing", !.seq = n] \in Proc
      BY <1>1 DEF Proc, Phases, Alive
    <3>2. procs[p].seq + 1 \in 0..MaxSeq
      BY <2>1
    <3>3. QED
      BY <3>1, <3>2
  <2>4. procs' = [procs EXCEPT ![p] =
                    [procs[p] EXCEPT !.phase = "writing", !.seq = procs[p].seq + 1]]
    BY <1>3 DEF HelperWriteHeader, TypeOK, ProcsOK
  <2>5. ProcsOK'
    BY <2>3, <2>4 DEF TypeOK, ProcsOK
  <2>6. QED
    BY <1>1, <1>3, <2>2, <2>5 DEF HelperWriteHeader
<1>4. CASE HelperWriteRecords(p)
  <2>1. procs[p].seq \in 1..MaxSeq
    BY <1>1, <1>4 DEF HelperWriteRecords, Proc
  <2>2. pipe' \in Seq(Chunk)
    BY <1>4, <2>1, WriteType DEF HelperWriteRecords, Status
  <2>3. ProcsOK'
    BY <1>4, BecomesType DEF HelperWriteRecords, Phases, Alive
  <2>4. QED
    BY <1>1, <1>4, <2>2, <2>3 DEF HelperWriteRecords
<1>5. QED
  BY <1>2, <1>3, <1>4 DEF HelperWorks

LEMMA HelperFailsType ==
    ASSUME TypeOK, NEW p \in Pids, HelperFails(p) PROVE HelperTyped'
<1> USE DEF HelperTyped
<1>1. pipe \in Seq(Chunk) /\ faults \in 0..MaxFaults /\ 1 \in 1..MaxSeq
  BY HelperAssumption DEF HelperAssumption, TypeOK, StreamOK, CountsOK
<1>2. CASE HelperInitFails(p)
  <2>1. pipe' \in Seq(Chunk)
    BY <1>1, <1>2, WriteType DEF HelperInitFails, Status
  <2>2. QED
    BY <1>2, <2>1, BecomesType, FaultType DEF HelperInitFails, Phases
<1>3. CASE HelperWriteGarbage(p)
  <2>1. pipe' \in Seq(Chunk)
    BY <1>1, <1>3, WriteType DEF HelperWriteGarbage, Status
  <2>2. QED
    BY <1>3, <2>1, BecomesType, FaultType DEF HelperWriteGarbage, Phases, Alive
<1>4. CASE HelperHang(p) \/ HelperUnstick(p) \/ HelperCrash(p)
  BY <1>1, <1>4, BecomesType, FaultType
     DEF HelperHang, HelperUnstick, HelperCrash, Phases, Alive
<1>5. QED
  BY <1>2, <1>3, <1>4 DEF HelperFails

LEMMA OfHelperType ==
    ASSUME TypeOK, HelperTyped',
           sampled' = IF Stamps THEN 0 ELSE sampled,
           UNCHANGED <<pc, pid, framesRead, frameAge, forceRetry, termSent, killSent, killIn,
                       readFd, input, paceVars, seqVars, modeVars, sampleVars, viewVars,
                       userVars, waitIn, sincePoll>>
    PROVE  TypeOK'
<1>1. FlagsOK' /\ LabelsOK'
  BY DEF TypeOK, FlagsOK, LabelsOK, seqVars, modeVars, sampleVars, viewVars, userVars
<1>2. StreamOK' /\ PaceOK' /\ CountsOK' /\ ProcsOK'
  BY HelperAssumption DEF HelperAssumption, TypeOK, HelperTyped, StreamOK, PaceOK, CountsOK,
         paceVars, seqVars, sampleVars, userVars
<1>3. QED
  BY <1>1, <1>2 DEF TypeOK

LEMMA HelperStepType ==
    ASSUME TypeOK, NEW p \in Pids, Works(p) \/ Fails(p) \/ Dies(p) \/ InitReaps(p)
    PROVE  TypeOK'
<1>1. HelperTyped'
  <2>1. CASE Works(p)
    BY <2>1, HelperWorksType DEF Works, OfHelper
  <2>2. CASE Fails(p)
    BY <2>2, HelperFailsType DEF Fails, OfHelper
  <2>3. CASE Dies(p)
    BY <2>3, BecomesType DEF Dies, OfHelper, SignalDies, HelperTyped, Phases, TypeOK,
                             StreamOK, CountsOK
  <2>4. CASE InitReaps(p)
    BY <2>4, ProcTable DEF InitReaps, OfHelper, HelperTyped, TypeOK, ProcsOK, StreamOK, CountsOK
  <2>5. QED
    BY <2>1, <2>2, <2>3, <2>4
<1>2. QED
  BY <1>1, OfHelperType DEF Works, Fails, Dies, InitReaps, OfHelper

LEMMA TickType == ASSUME TypeOK, Tick PROVE TypeOK'
<1>1. FlagsOK' /\ LabelsOK'
  BY DEF Tick, TypeOK, FlagsOK, LabelsOK, seqVars, modeVars, viewVars, userVars
<1>2. StreamOK'
  BY AgedType DEF Tick, TypeOK, StreamOK
<1>3. PaceOK' /\ CountsOK'
  BY HelperAssumption, BridgeAssumption
     DEF HelperAssumption, BridgeAssumption, Tick, TypeOK, PaceOK, CountsOK, Sooner, Older,
         seqVars, userVars
<1>4. ProcsOK'
  <2>1. \A p \in Pids : [procs[p] EXCEPT !.phase = "ready"] \in Proc /\ procs[p] \in Proc
    <3>1. \A r \in Proc : [r EXCEPT !.phase = "ready"] \in Proc
      BY DEF Proc, Phases, Alive
    <3>2. QED
      BY <3>1 DEF TypeOK, ProcsOK
  <2>2. QED
    BY <2>1 DEF Tick, Woken, ProcsOK
<1>5. QED
  BY <1>1, <1>2, <1>3, <1>4 DEF TypeOK

\* No step of the monitor, the helper, the user or the clock leaves the types:
\* no delay, backoff or age ever leaves its range.
LEMMA TypeStep == TypeOK /\ [Next]_vars => TypeOK'
<1>1. SUFFICES ASSUME TypeOK, [Next]_vars PROVE TypeOK'
  OBVIOUS
<1>2. CASE Start \/ UserOp \/ ShutdownBegin \/ ProcessEnds \/ Tick
  BY <1>1, <1>2, StartType, UserOpType, ShutdownBeginType, ProcessEndsType, TickType
<1>3. CASE Poll
  BY <1>1, <1>3, PollBeginType, PollSpawnType, DecodeFrameType, ReadMoreType, ReadEndsType,
     PollReapType, PollTimeoutsType, PollFinishType DEF Poll
<1>4. CASE Shutdown
  BY <1>1, <1>4, ShutdownReapType, ShutdownKillType, ShutdownEndType DEF Shutdown
<1>5. CASE \E p \in Pids : Works(p) \/ Fails(p) \/ Dies(p) \/ InitReaps(p)
  BY <1>1, <1>5, HelperStepType
<1>6. CASE UNCHANGED vars
  <2>1. FlagsOK' /\ LabelsOK' /\ StreamOK'
    BY <1>1, <1>6 DEF vars, ctlVars, kidVars, streamVars, seqVars, modeVars, sampleVars,
                      viewVars, userVars, TypeOK, FlagsOK, LabelsOK, StreamOK
  <2>2. PaceOK' /\ CountsOK' /\ ProcsOK'
    BY <1>1, <1>6 DEF vars, ctlVars, kidVars, paceVars, seqVars, sampleVars, userVars,
                      timeVars, TypeOK, PaceOK, CountsOK, ProcsOK
  <2>3. QED
    BY <2>1, <2>2 DEF TypeOK
<1>7. QED
  BY <1>1, <1>2, <1>3, <1>4, <1>5, <1>6 DEF Next

\* Every reachable state of the bridge is well typed.
THEOREM TypeCorrect == Spec => []TypeOK
<1>1. Init => TypeOK
  BY TypeInit
<1>2. TypeOK /\ [Next]_vars => TypeOK'
  BY TypeStep
<1>3. QED
  BY <1>1, <1>2, PTL DEF Spec

-----------------------------------------------------------------------------
(* Supervision. The invariant that is inductive: the two safety properties *)
(* need to know that the pipe stays open while it is read and closed while *)
(* shutdown() waits, that SIGKILL is pending once shutdown() has sent it,  *)
(* and that the retry time covers what is left of the cooldown.            *)

PipeHeld    == /\ pc = "read" => readFd # None
               /\ pc \in WaitLabels => readFd = None
KillPending == pc \in {"killWait", "down"} =>
                 pid = None \/ "KILL" \in procs[pid].sigs
CoolingDown == pid = None => cooldown <= retryIn
Supervised  == OneHelper /\ CutOffIsFinal /\ PipeHeld /\ KillPending /\ CoolingDown

\* A step that adds no helper and takes no signal back.
Quiet == \A q \in Pids : /\ procs'[q].phase # "absent" => procs[q].phase # "absent"
                         /\ procs[q].sigs \subseteq procs'[q].sigs

LEMMA SignalIsQuiet ==
    ASSUME ProcsOK, NEW p \in Pids, NEW sig, procs' = Signalled(p, sig)
    PROVE  Quiet /\ sig \in procs'[p].sigs
BY DEF ProcsOK, Proc, Signalled, Quiet

LEMMA BecomesIsQuiet ==
    ASSUME ProcsOK, NEW p \in Pids, Phase(p) # "absent", NEW ph, Becomes(p, ph)
    PROVE  Quiet
BY DEF ProcsOK, Proc, Becomes, Phase, Quiet

LEMMA SameIsQuiet == ASSUME UNCHANGED procs PROVE Quiet
BY DEF Quiet

LEMMA TerminationIsQuiet == ASSUME TypeOK, RequestTermination PROVE Quiet
<1>1. CASE pid # None /\ ~termSent
  BY <1>1, SignalIsQuiet DEF RequestTermination, TypeOK, StreamOK
<1>2. CASE ~(pid # None /\ ~termSent)
  BY <1>2, SameIsQuiet DEF RequestTermination, kidVars
<1>3. QED
  BY <1>1, <1>2

LEMMA PollIsQuiet ==
    ASSUME TypeOK, PollBegin \/ DecodeFrame \/ ReadMore \/ ReadEnds \/ PollTimeouts
    PROVE  Quiet
<1>1. CASE PollBegin
  BY <1>1, TerminationIsQuiet, SameIsQuiet DEF PollBegin, CutOff, kidVars
<1>2. CASE DecodeFrame \/ ReadMore
  BY <1>2, SameIsQuiet DEF DecodeFrame, ReadMore, kidVars
<1>3. CASE ReadEnds
  BY <1>3, TerminationIsQuiet, SameIsQuiet
     DEF ReadEnds, ReadDone, ReadEof, ReadFails, CutOff, kidVars
<1>4. CASE PollTimeouts
  BY <1>4, TerminationIsQuiet, SameIsQuiet, SignalIsQuiet
     DEF PollTimeouts, kidVars, TypeOK, StreamOK
<1>5. QED
  BY <1>1, <1>2, <1>3, <1>4

LEMMA HelperIsQuiet ==
    ASSUME TypeOK, NEW p \in Pids, Works(p) \/ Fails(p) \/ Dies(p)
    PROVE  Quiet
<1>1. CASE HelperWriteHeader(p)
  BY <1>1 DEF HelperWriteHeader, Phase, TypeOK, ProcsOK, Proc, Quiet
<1>2. CASE HelperWorks(p) /\ ~HelperWriteHeader(p)
  BY <1>2, BecomesIsQuiet DEF HelperWorks, HelperArm, HelperInit, HelperWriteRecords,
                              HelperBrokenPipe, TypeOK
<1>3. CASE HelperFails(p) \/ SignalDies(p)
  BY <1>3, BecomesIsQuiet
     DEF HelperFails, HelperInitFails, HelperWriteGarbage, HelperHang, HelperUnstick,
         HelperCrash, SignalDies, Deliverable, Alive, TypeOK
<1>4. QED
  BY <1>1, <1>2, <1>3 DEF Works, Fails, Dies, OfHelper

LEMMA TimeIsQuiet == ASSUME TypeOK, Tick \/ ProcessEnds PROVE Quiet
<1>1. CASE Tick
  BY <1>1 DEF Tick, Woken, Phase, TypeOK, ProcsOK, Proc, Quiet
<1>2. CASE ProcessEnds
  BY <1>2 DEF ProcessEnds, Orphaned, Signalled, Phase, Alive, TypeOK, ProcsOK, Proc, Quiet
<1>3. QED
  BY <1>1, <1>2

\* The steps that leave the set of helpers, or the pid, alone.
LEMMA QuietStep ==
    ASSUME TypeOK, Quiet, UNCHANGED pid, pc = "gone" => pc' = "gone", OneHelper
    PROVE  OneHelper'
BY DEF Quiet, OneHelper

LEMMA TrySpawnOneHelper ==
    ASSUME TypeOK, OneHelper, pc # "gone", NEW on \in BOOLEAN, NEW masked \in BOOLEAN,
           TrySpawn(on, masked)
    PROVE  OneHelper'
<1>1. CASE MaySpawn(on) /\ \E p \in Pids : Phase(p) = "absent"
                            /\ (Spawned(p, masked) \/ SpawnUnreadable(p, masked))
  <2>1. PICK p \in Pids : Spawned(p, masked) \/ SpawnUnreadable(p, masked)
    BY <1>1
  <2>2. \A q \in Pids : procs[q].phase = "absent"
    BY <1>1, HelperAssumption DEF HelperAssumption, MaySpawn, OneHelper
  <2>3. pid' = p /\ \A q \in Pids : q # p => procs'[q] = procs[q]
    BY <2>1 DEF Spawned, SpawnUnreadable, TypeOK, ProcsOK
  <2>4. QED
    BY <2>2, <2>3 DEF OneHelper
<1>2. CASE UNCHANGED <<pid, kidVars>>
  BY <1>2 DEF kidVars, OneHelper
<1>3. QED
  BY <1>1, <1>2 DEF TrySpawn, SpawnFailed

LEMMA ReapOneHelper ==
    ASSUME TypeOK, OneHelper, pc # "gone", pid # None, Reap PROVE OneHelper'
BY DEF Reap, OneHelper, NoProc, TypeOK, ProcsOK, StreamOK

LEMMA OneHelperStep ==
    ASSUME TypeOK, OneHelper, Next PROVE OneHelper'
<1>1. CASE Start \/ PollSpawn \/ PollFinish
  BY <1>1, TrySpawnOneHelper DEF Start, PollSpawn, PollFinish, TypeOK, FlagsOK
<1>2. CASE PollReap \/ ShutdownReap
  <2>1. CASE Exited /\ Reap
    BY <1>2, <2>1, ReapOneHelper DEF Exited, PollReap, ShutdownReap, WaitLabels
  <2>2. CASE UNCHANGED <<pid, kidVars>>
    BY <1>2, <2>2 DEF kidVars, OneHelper, PollReap, ShutdownReap, WaitLabels
  <2>3. QED
    BY <1>2, <2>1, <2>2 DEF PollReap, ShutdownReap
<1>3. CASE PollBegin \/ DecodeFrame \/ ReadMore \/ ReadEnds \/ PollTimeouts
  <2>1. UNCHANGED pid /\ pc # "gone"
    BY <1>3 DEF PollBegin, DecodeFrame, WantsFrame, ReadMore, WantsInput, ReadEnds, ReadDone,
                ReadEof, ReadFails, PollTimeouts, ctlVars
  <2>2. QED
    BY <1>3, <2>1, PollIsQuiet, QuietStep
<1>4. CASE UserOp \/ ShutdownEnd
  <2>1. Quiet /\ UNCHANGED pid
    BY <1>4, SameIsQuiet DEF UserOp, ShutdownEnd, kidVars, ctlVars
  <2>2. pc = "gone" => pc' = "gone"
    BY <1>4 DEF UserOp, ShutdownEnd, PollLabels, WaitLabels
  <2>3. QED
    BY <2>1, <2>2, QuietStep
<1>5. CASE ShutdownBegin \/ ShutdownKill
  <2>1. Quiet
    BY <1>5, TerminationIsQuiet, SignalIsQuiet
       DEF ShutdownBegin, ShutdownKill, CutOff, TypeOK, StreamOK
  <2>2. UNCHANGED pid /\ pc # "gone"
    BY <1>5 DEF ShutdownBegin, ShutdownKill, ctlVars
  <2>3. QED
    BY <2>1, <2>2, QuietStep
<1>6. CASE Tick
  BY <1>6, TimeIsQuiet, QuietStep DEF Tick
<1>7. CASE ProcessEnds
  BY <1>7 DEF ProcessEnds, OneHelper
<1>8. ASSUME NEW p \in Pids, Works(p) \/ Fails(p) \/ Dies(p) PROVE OneHelper'
  <2>1. UNCHANGED <<pid, pc>>
    BY <1>8 DEF Works, Fails, Dies, OfHelper
  <2>2. QED
    BY <1>8, <2>1, HelperIsQuiet, QuietStep
<1>9. ASSUME NEW p \in Pids, InitReaps(p) PROVE OneHelper'
  BY <1>9 DEF InitReaps, OfHelper, OneHelper
<1>10. QED
  BY <1>1, <1>2, <1>3, <1>4, <1>5, <1>6, <1>7, <1>8, <1>9 DEF Next, Poll, Shutdown

Channel == CutOffIsFinal /\ PipeHeld

LEMMA TrySpawnChannel ==
    ASSUME TypeOK, Channel, NEW on, NEW masked, TrySpawn(on, masked), UNCHANGED forceRetry,
           pc' \notin WaitLabels, pc' = "read" => readFd' # None
    PROVE  Channel'
<1> USE DEF Channel, CutOffIsFinal, PipeHeld
<1>1. CASE MaySpawn(on) /\ \E p \in Pids : Spawned(p, masked) \/ SpawnUnreadable(p, masked)
  <2>1. PICK p \in Pids : Spawned(p, masked) \/ SpawnUnreadable(p, masked)
    BY <1>1
  <2>2. p # None
    BY HelperAssumption DEF HelperAssumption
  <2>3. ~forceRetry /\ ~termSent /\ ~killSent
    BY <1>1 DEF MaySpawn
  <2>4. QED
    BY <2>1, <2>2, <2>3 DEF Spawned, SpawnUnreadable, ClosePipe
<1>2. CASE UNCHANGED <<pid, kidVars, streamVars>>
  BY <1>2 DEF kidVars, streamVars
<1>3. QED
  BY <1>1, <1>2 DEF TrySpawn, SpawnFailed

LEMMA CutOffChannel ==
    ASSUME Channel, CutOff, UNCHANGED pid, forceRetry' => pid # None, pc' # "read"
    PROVE  Channel'
BY DEF Channel, CutOffIsFinal, PipeHeld, CutOff, ClosePipe, RequestTermination, kidVars

LEMMA ReapChannel ==
    ASSUME Channel, Reap, pc' # "read" PROVE Channel'
BY DEF Channel, CutOffIsFinal, PipeHeld, Reap, ClosePipe

LEMMA SameChannel ==
    ASSUME Channel, UNCHANGED <<pid, forceRetry, termSent, killSent, streamVars>>,
           pc' \in {"read"} \cup WaitLabels => pc' = pc
    PROVE  Channel'
BY DEF Channel, CutOffIsFinal, PipeHeld, streamVars

LEMMA ChannelStep ==
    ASSUME TypeOK, Channel, Next PROVE Channel'
<1>1. CASE Start \/ PollSpawn \/ PollFinish
  <2>1. UNCHANGED forceRetry /\ pc' \notin WaitLabels /\ (pc' = "read" => readFd' # None)
    BY <1>1 DEF Start, PollSpawn, PollFinish, WaitLabels
  <2>2. QED
    BY <1>1, <2>1, TrySpawnChannel DEF Start, PollSpawn, PollFinish
<1>2. CASE PollBegin
  <2>1. pc' \notin {"read"} \cup WaitLabels
    BY <1>2 DEF PollBegin, WaitLabels
  <2>2. CASE CutOff
    BY <1>2, <2>1, <2>2, CutOffChannel DEF PollBegin, Channel, CutOffIsFinal
  <2>3. CASE ~(retryFlag /\ pid # None) /\ UNCHANGED <<kidVars, streamVars>>
    <3>1. UNCHANGED forceRetry
      BY <1>2, <2>3 DEF PollBegin, TypeOK, FlagsOK
    <3>2. QED
      BY <1>2, <2>1, <2>3, <3>1, SameChannel DEF PollBegin, kidVars
  <2>4. QED
    BY <1>2, <2>2, <2>3 DEF PollBegin
<1>3. CASE DecodeFrame \/ ReadMore
  <2>1. pc = "read" /\ pc' = pc /\ UNCHANGED <<pid, readFd, forceRetry, termSent, killSent>>
    BY <1>3 DEF DecodeFrame, ReadMore, WantsFrame, WantsInput, kidVars, ctlVars
  <2>2. QED
    BY <2>1 DEF Channel, CutOffIsFinal, PipeHeld, WaitLabels
<1>4. CASE ReadEnds
  <2>1. pc' = "reap" /\ UNCHANGED <<pid, forceRetry>>
    BY <1>4 DEF ReadEnds
  <2>2. CASE ReadDone
    BY <2>1, <2>2, SameChannel DEF ReadDone, kidVars, WaitLabels
  <2>3. CASE ReadEof \/ ReadFails
    BY <2>1, <2>3, CutOffChannel DEF ReadEof, ReadFails, Channel, CutOffIsFinal
  <2>4. QED
    BY <1>4, <2>2, <2>3 DEF ReadEnds
<1>5. CASE PollReap
  <2>1. pc' \notin {"read"} \cup WaitLabels
    BY <1>5 DEF PollReap, WaitLabels
  <2>2. QED
    BY <1>5, <2>1, ReapChannel, SameChannel DEF PollReap, kidVars
<1>6. CASE PollTimeouts
  <2>1. pc' = "reapAgain" /\ UNCHANGED <<pid, forceRetry>>
    BY <1>6 DEF PollTimeouts, ctlVars
  <2>2. CASE CutOff
    BY <2>1, <2>2, CutOffChannel DEF Channel, CutOffIsFinal
  <2>3. CASE UNCHANGED <<kidVars, streamVars>>
    BY <2>1, <2>3, SameChannel DEF kidVars, WaitLabels
  <2>4. CASE pid # None /\ termSent /\ UNCHANGED termSent
             /\ (ClosePipe \/ UNCHANGED streamVars)
    BY <2>1, <2>4 DEF Channel, CutOffIsFinal, PipeHeld, WaitLabels, ClosePipe, streamVars
  <2>5. QED
    BY <1>6, <2>2, <2>3, <2>4 DEF PollTimeouts, CutOff, ClosePipe
<1>7. CASE ShutdownBegin
  BY <1>7, CutOffChannel DEF ShutdownBegin, ctlVars, Channel, CutOffIsFinal
<1>8. CASE ShutdownReap
  BY <1>8, ReapChannel DEF ShutdownReap, WaitLabels
<1>9. CASE ShutdownKill
  BY <1>9 DEF ShutdownKill, Channel, CutOffIsFinal, PipeHeld, WaitLabels, ctlVars, streamVars
<1>10. CASE UserOp \/ ShutdownEnd
  <2>1. pc' \in {"read"} \cup WaitLabels => pc' = pc
    BY <1>10 DEF UserOp, ShutdownEnd, WaitLabels
  <2>2. QED
    BY <1>10, <2>1, SameChannel DEF UserOp, ShutdownEnd, ctlVars, kidVars
<1>11. CASE ProcessEnds
  BY <1>11 DEF ProcessEnds, ClosePipe, Channel, CutOffIsFinal, PipeHeld, WaitLabels
<1>12. CASE Tick
  <2>1. input = <<>> => input' = <<>>
    BY <1>12 DEF Tick, Aged
  <2>2. QED
    BY <1>12, <2>1 DEF Tick, Channel, CutOffIsFinal, PipeHeld
<1>13. ASSUME NEW p \in Pids, Works(p) \/ Fails(p) \/ Dies(p) \/ InitReaps(p)
       PROVE  Channel'
  BY <1>13 DEF Works, Fails, Dies, InitReaps, OfHelper, Channel, CutOffIsFinal, PipeHeld
<1>14. QED
  BY <1>1, <1>2, <1>3, <1>4, <1>5, <1>6, <1>7, <1>8, <1>9, <1>10, <1>11, <1>12, <1>13
     DEF Next, Poll, Shutdown

LEMMA KillPendingStep ==
    ASSUME TypeOK, KillPending, OneHelper, Next PROVE KillPending'
<1>1. CASE Start \/ Poll \/ UserOp \/ ShutdownBegin \/ ProcessEnds
  <2>1. pc' \notin {"killWait", "down"}
    BY <1>1 DEF Start, Poll, PollBegin, PollSpawn, DecodeFrame, WantsFrame, ReadMore,
                WantsInput, ReadEnds, PollReap, PollTimeouts, PollFinish, UserOp, PollLabels,
                ShutdownBegin, ProcessEnds
  <2>2. QED
    BY <2>1 DEF KillPending
<1>2. CASE ShutdownReap
  BY <1>2 DEF ShutdownReap, Reap, KillPending
<1>3. CASE ShutdownKill
  <2>1. "KILL" \in procs'[pid].sigs /\ UNCHANGED pid
    BY <1>3, SignalIsQuiet DEF ShutdownKill, ctlVars, TypeOK, StreamOK
  <2>2. QED
    BY <2>1 DEF KillPending
<1>4. CASE ShutdownEnd
  BY <1>4 DEF ShutdownEnd, ShutdownOver, KillPending, ctlVars, kidVars
<1>5. CASE Quiet /\ UNCHANGED <<pc, pid>>
  BY <1>5 DEF Quiet, KillPending, TypeOK, StreamOK
<1>6. CASE Tick
  BY <1>5, <1>6, TimeIsQuiet DEF Tick
<1>7. ASSUME NEW p \in Pids, Works(p) \/ Fails(p) \/ Dies(p) PROVE KillPending'
  BY <1>5, <1>7, HelperIsQuiet DEF Works, Fails, Dies, OfHelper
<1>8. ASSUME NEW p \in Pids, InitReaps(p) PROVE KillPending'
  BY <1>8 DEF InitReaps, OfHelper, KillPending
<1>9. QED
  BY <1>1, <1>2, <1>3, <1>4, <1>6, <1>7, <1>8 DEF Next, Shutdown

\* A backoff is never shorter than the cooldown it starts with.
LEMMA BackOffCools ==
    ASSUME TypeOK, BackOff PROVE CoolingDown'
BY BridgeAssumption DEF BridgeAssumption, TypeOK, PaceOK, BackOff, CoolingDown

LEMMA ReapCools ==
    ASSUME TypeOK, Reap PROVE CoolingDown'
<1>1. CASE forceRetry
  BY <1>1 DEF Reap, CoolingDown
<1>2. CASE ~forceRetry
  BY <1>2, BackOffCools DEF Reap
<1>3. QED
  BY <1>1, <1>2

LEMMA CoolingDownStep ==
    ASSUME TypeOK, CoolingDown, Channel, Next PROVE CoolingDown'
<1>1. CASE UNCHANGED <<pid, paceVars>>
  BY <1>1 DEF CoolingDown, paceVars
<1>2. CASE Start \/ PollSpawn \/ PollFinish
  <2>1. CASE \E p \in Pids : pid' = p
    BY <2>1, HelperAssumption DEF HelperAssumption, CoolingDown
  <2>2. CASE SpawnFailed
    BY <2>2, BackOffCools DEF SpawnFailed
  <2>3. QED
    BY <1>1, <1>2, <2>1, <2>2
       DEF Start, PollSpawn, PollFinish, TrySpawn, Spawned, SpawnUnreadable
<1>3. CASE PollBegin
  BY <1>3 DEF PollBegin, CoolingDown, paceVars
<1>4. CASE DecodeFrame
  <2>1. pid # None /\ UNCHANGED pid
    BY <1>4 DEF DecodeFrame, WantsFrame, Channel, CutOffIsFinal, PipeHeld
  <2>2. QED
    BY <2>1 DEF CoolingDown
<1>5. CASE PollReap \/ ShutdownReap
  BY <1>1, <1>5, ReapCools DEF PollReap, ShutdownReap
<1>6. CASE ReadMore \/ ReadEnds \/ PollTimeouts \/ UserOp \/ ShutdownBegin \/ ShutdownKill
           \/ ShutdownEnd \/ ProcessEnds
  BY <1>1, <1>6 DEF ReadMore, ReadEnds, PollTimeouts, UserOp, ShutdownBegin, ShutdownKill,
                    ShutdownEnd, ProcessEnds, ctlVars
<1>7. CASE Tick
  BY <1>7 DEF Tick, Sooner, CoolingDown, TypeOK, PaceOK
<1>8. ASSUME NEW p \in Pids, Works(p) \/ Fails(p) \/ Dies(p) \/ InitReaps(p)
      PROVE  CoolingDown'
  BY <1>1, <1>8 DEF Works, Fails, Dies, InitReaps, OfHelper
<1>9. QED
  BY <1>2, <1>3, <1>4, <1>5, <1>6, <1>7, <1>8 DEF Next, Poll, Shutdown

LEMMA SupervisedInit == Init => Supervised
BY HelperAssumption DEF HelperAssumption, Init, Supervised, OneHelper, CutOffIsFinal, PipeHeld,
   KillPending, CoolingDown, NoProc, WaitLabels

LEMMA SupervisedStep == TypeOK /\ Supervised /\ [Next]_vars => Supervised'
<1>1. SUFFICES ASSUME TypeOK, Supervised, [Next]_vars PROVE Supervised'
  OBVIOUS
<1>2. CASE Next
  <2>1. OneHelper' /\ KillPending'
    BY <1>1, <1>2, OneHelperStep, KillPendingStep DEF Supervised
  <2>2. Channel' /\ CoolingDown'
    BY <1>1, <1>2, ChannelStep, CoolingDownStep DEF Supervised, Channel
  <2>3. QED
    BY <2>1, <2>2 DEF Supervised, Channel
<1>3. CASE UNCHANGED vars
  <2>1. OneHelper' /\ KillPending'
    BY <1>1, <1>3 DEF Supervised, OneHelper, KillPending, vars, ctlVars, kidVars
  <2>2. CutOffIsFinal' /\ PipeHeld'
    BY <1>1, <1>3 DEF Supervised, CutOffIsFinal, PipeHeld, vars, ctlVars, kidVars, streamVars
  <2>3. CoolingDown'
    BY <1>1, <1>3 DEF Supervised, CoolingDown, vars, ctlVars, paceVars
  <2>4. QED
    BY <2>1, <2>2, <2>3 DEF Supervised
<1>4. QED
  BY <1>1, <1>2, <1>3

\* The supervision invariant holds in every reachable state.
THEOREM Supervision == Spec => [](TypeOK /\ Supervised)
<1>1. Init => TypeOK /\ Supervised
  BY TypeInit, SupervisedInit
<1>2. TypeOK /\ Supervised /\ [Next]_vars => (TypeOK /\ Supervised)'
  BY TypeStep, SupervisedStep
<1>3. QED
  BY <1>1, <1>2, PTL DEF Spec

\* try_spawn() never leaves a second helper behind, however many process ids
\* there are and whatever fails: OneHelper for every instance.
THEOREM AtMostOneHelper == Spec => []OneHelper
<1>1. Supervised => OneHelper
  BY DEF Supervised
<1>2. QED
  BY <1>1, Supervision, PTL

\* A helper that was told to stop is never read again, and stays the child to
\* be reaped until it has been.
THEOREM TerminatedHelperUnread == Spec => []CutOffIsFinal
<1>1. Supervised => CutOffIsFinal
  BY DEF Supervised
<1>2. QED
  BY <1>1, Supervision, PTL

\* When shutdown() has returned every helper left carries a SIGKILL.
THEOREM ShutdownKills == Spec => []ShutdownLeavesNoHelper
<1>1. TypeOK /\ Supervised => ShutdownLeavesNoHelper
  BY HelperAssumption DEF HelperAssumption, Supervised, OneHelper, KillPending,
                          ShutdownLeavesNoHelper
<1>2. QED
  BY <1>1, Supervision, PTL

\* No helper is started within the initial backoff of a failure, unless the
\* user asked for it: restarts cannot become a storm of processes.
THEOREM RestartsArePaced == Spec => NoProcessStorm
<1>1. TypeOK /\ Supervised /\ [Next]_vars
        => [pid = None /\ pid' # None => cooldown = 0]_vars
  <2>1. SUFFICES ASSUME TypeOK, Supervised, Next, pid = None, pid' # None
                 PROVE  cooldown = 0
    OBVIOUS
  <2>2. CASE Start \/ PollSpawn \/ PollFinish
    <3>1. retryIn = 0
      BY <2>1, <2>2 DEF Start, PollSpawn, PollFinish, TrySpawn, MaySpawn
    <3>2. QED
      BY <2>1, <3>1 DEF Supervised, CoolingDown, TypeOK, PaceOK
  <2>3. CASE PollBegin \/ DecodeFrame \/ ReadMore \/ ReadEnds \/ PollReap \/ PollTimeouts
    BY <2>1, <2>3 DEF PollBegin, DecodeFrame, ReadMore, ReadEnds, PollReap, PollTimeouts,
                      Reap, ctlVars
  <2>4. CASE UserOp \/ ShutdownBegin \/ Shutdown \/ ProcessEnds \/ Tick
    BY <2>1, <2>4 DEF UserOp, ShutdownBegin, Shutdown, ShutdownReap, ShutdownKill,
                      ShutdownEnd, ProcessEnds, Tick, Reap, ctlVars
  <2>5. CASE \E p \in Pids : Works(p) \/ Fails(p) \/ Dies(p) \/ InitReaps(p)
    BY <2>1, <2>5 DEF Works, Fails, Dies, InitReaps, OfHelper
  <2>6. QED
    BY <2>1, <2>2, <2>3, <2>4, <2>5 DEF Next, Poll
<1>2. QED
  BY <1>1, Supervision, PTL DEF Spec, NoProcessStorm

-----------------------------------------------------------------------------
(* GpuBridge implements Supervisor.                                        *)

\* The three variables of Supervisor as functions of the state of GpuBridge.
Kids   == {p \in Pids : procs[p].phase # "absent"}
Served == {p \in Pids : readFd = p}
Shut   == pc \in WaitLabels \cup {"down", "gone"}
Step   == [Promise!Next]_<<Kids, Served, Shut>>

\* A step that neither creates nor removes a process.
Same == \A q \in Pids : (procs'[q].phase = "absent") <=> (procs[q].phase = "absent")

-----------------------------------------------------------------------------
(* The four kinds of step of the abstract specification.                   *)

LEMMA StutterOrGiveUp ==
    ASSUME Same, UNCHANGED Shut, UNCHANGED readFd \/ readFd' \notin Pids
    PROVE  Step
<1>1. Kids' = Kids
  BY DEF Same, Kids
<1>2. Served' = Served \/ Served' = {}
  BY DEF Served
<1>3. QED
  BY <1>1, <1>2 DEF Step, Promise!Next, Promise!GiveUp, Kids, Served, Shut

LEMMA LaunchStep ==
    ASSUME NEW p \in Pids, Kids = {}, Kids' = {p}, Served' \in {{}, {p}}, ~Shut, ~Shut'
    PROVE  Step
BY DEF Step, Promise!Next, Promise!Launch, Kids, Served, Shut

LEMMA CollectStep ==
    ASSUME NEW p \in Kids, Kids' = Kids \ {p}, Served \subseteq {p}, Served' = {},
           UNCHANGED Shut
    PROVE  Step
<1>1. p \in Pids /\ Served' = Served \ {p}
  BY DEF Kids
<1>2. QED
  BY <1>1 DEF Step, Promise!Next, Promise!Collect, Kids, Served, Shut

LEMMA CloseStep ==
    ASSUME Same, ~Shut, Shut', readFd' \notin Pids
    PROVE  Step
<1>1. Kids' = Kids /\ Served' = {}
  BY DEF Same, Kids, Served
<1>2. QED
  BY <1>1 DEF Step, Promise!Next, Promise!Close, Kids, Served, Shut

-----------------------------------------------------------------------------
(* Which pieces of the code leave the set of processes alone.              *)

LEMMA NoneIsNoPid == None \notin Pids
BY HelperAssumption DEF HelperAssumption

LEMMA SignalIsSame ==
    ASSUME ProcsOK, NEW p \in Pids, NEW sig, procs' = Signalled(p, sig)
    PROVE  Same
BY DEF ProcsOK, Proc, Signalled, Same

LEMMA BecomesIsSame ==
    ASSUME ProcsOK, NEW p \in Pids, Phase(p) # "absent", NEW ph, ph # "absent", Becomes(p, ph)
    PROVE  Same
BY DEF ProcsOK, Proc, Becomes, Phase, Same

LEMMA UnchangedIsSame == ASSUME UNCHANGED procs PROVE Same
BY DEF Same

LEMMA TerminationIsSame == ASSUME TypeOK, RequestTermination PROVE Same
<1>1. CASE pid # None /\ ~termSent
  BY <1>1, SignalIsSame DEF RequestTermination, TypeOK, StreamOK
<1>2. CASE ~(pid # None /\ ~termSent)
  BY <1>2, UnchangedIsSame DEF RequestTermination, kidVars
<1>3. QED
  BY <1>1, <1>2

LEMMA CutOffIsSame == ASSUME TypeOK, CutOff PROVE Same /\ readFd' \notin Pids
BY TerminationIsSame, NoneIsNoPid DEF CutOff, ClosePipe

LEMMA HelperIsSame ==
    ASSUME TypeOK, NEW p \in Pids, Works(p) \/ Fails(p) \/ Dies(p)
    PROVE  Same
<1>1. CASE HelperWriteHeader(p)
  BY <1>1 DEF HelperWriteHeader, Phase, TypeOK, ProcsOK, Proc, Same
<1>2. CASE HelperWorks(p) /\ ~HelperWriteHeader(p)
  BY <1>2, BecomesIsSame DEF HelperWorks, HelperArm, HelperInit, HelperWriteRecords,
                             HelperBrokenPipe, TypeOK
<1>3. CASE HelperFails(p) \/ SignalDies(p)
  BY <1>3, BecomesIsSame
     DEF HelperFails, HelperInitFails, HelperWriteGarbage, HelperHang, HelperUnstick,
         HelperCrash, SignalDies, Deliverable, Alive, TypeOK
<1>4. QED
  BY <1>1, <1>2, <1>3 DEF Works, Fails, Dies, OfHelper

LEMMA TimeIsSame == ASSUME TypeOK, Tick \/ ProcessEnds PROVE Same
<1>1. CASE Tick
  BY <1>1 DEF Tick, Woken, Phase, TypeOK, ProcsOK, Proc, Same
<1>2. CASE ProcessEnds
  BY <1>2 DEF ProcessEnds, Orphaned, Signalled, Phase, Alive, TypeOK, ProcsOK, Proc, Same
<1>3. QED
  BY <1>1, <1>2

-----------------------------------------------------------------------------
(* The steps of GpuBridge.                                                 *)

\* try_spawn(): a Launch, or nothing the abstract specification sees.
LEMMA TrySpawnRefines ==
    ASSUME TypeOK, OneHelper, ~Shut, ~Shut', NEW on, NEW masked, TrySpawn(on, masked)
    PROVE  Step
<1>1. CASE MaySpawn(on) /\ \E p \in Pids : Phase(p) = "absent"
                            /\ (Spawned(p, masked) \/ SpawnUnreadable(p, masked))
  <2>1. PICK p \in Pids : Spawned(p, masked) \/ SpawnUnreadable(p, masked)
    BY <1>1
  <2>2. \A q \in Pids : procs[q].phase = "absent"
    BY <1>1, NoneIsNoPid DEF MaySpawn, OneHelper, Shut
  <2>3. \A q \in Pids : q # p => procs'[q] = procs[q]
    BY <2>1 DEF Spawned, SpawnUnreadable, TypeOK, ProcsOK
  <2>4. procs'[p].phase # "absent"
    BY <2>1 DEF Spawned, SpawnUnreadable, NewProc, NoProc, TypeOK, ProcsOK
  <2>5. Kids = {} /\ Kids' = {p}
    BY <2>2, <2>3, <2>4 DEF Kids
  <2>6. Served' \in {{}, {p}}
    BY <2>1, NoneIsNoPid DEF Served, Spawned, SpawnUnreadable, ClosePipe
  <2>7. QED
    BY <2>5, <2>6, LaunchStep
<1>2. CASE UNCHANGED <<kidVars, streamVars>>
  <2>1. UNCHANGED Shut
    BY DEF Shut
  <2>2. Same /\ UNCHANGED readFd
    BY <1>2, UnchangedIsSame DEF kidVars, streamVars
  <2>3. QED
    BY <2>1, <2>2, StutterOrGiveUp
<1>3. QED
  BY <1>1, <1>2 DEF TrySpawn, SpawnFailed

\* reap_if_exited(): a Collect.
LEMMA ReapRefines ==
    ASSUME TypeOK, Supervised, pc # "gone", UNCHANGED Shut, Exited, Reap
    PROVE  Step
<1>1. pid \in Pids /\ pid \in Kids
  BY DEF Exited, TypeOK, StreamOK, Phase, Kids
<1>2. Kids' = Kids \ {pid}
  BY <1>1 DEF Reap, Kids, NoProc, TypeOK, ProcsOK
<1>3. Served \subseteq {pid} /\ Served' = {}
  BY NoneIsNoPid DEF Served, Supervised, CutOffIsFinal, Reap, ClosePipe
<1>4. QED
  BY <1>1, <1>2, <1>3, CollectStep

\* Once the monitor shuts down no helper is read any more.
ShutUnread == Shut => readFd = None

LEMMA ShutUnreadStep == ASSUME TypeOK, ShutUnread, Next PROVE ShutUnread'
<1>1. CASE Start \/ Poll
  <2>1. ~Shut'
    BY <1>1 DEF Start, Poll, PollBegin, PollSpawn, DecodeFrame, ReadMore, ReadEnds, PollReap,
                PollTimeouts, PollFinish, WantsFrame, WantsInput, Shut, WaitLabels
  <2>2. QED
    BY <2>1 DEF ShutUnread
<1>2. CASE ShutdownBegin \/ ProcessEnds
  BY <1>2 DEF ShutdownBegin, ProcessEnds, CutOff, ClosePipe, ShutUnread
<1>3. CASE UserOp \/ ShutdownKill \/ ShutdownEnd \/ Tick
  BY <1>3 DEF UserOp, ShutdownKill, ShutdownEnd, Tick, streamVars, ShutUnread, Shut, WaitLabels
<1>4. CASE ShutdownReap
  BY <1>4 DEF ShutdownReap, Reap, ClosePipe, ShutUnread
<1>5. ASSUME NEW p \in Pids, Works(p) \/ Fails(p) \/ Dies(p) \/ InitReaps(p)
      PROVE  ShutUnread'
  BY <1>5 DEF Works, Fails, Dies, InitReaps, OfHelper, ShutUnread, Shut
<1>6. QED
  BY <1>1, <1>2, <1>3, <1>4, <1>5 DEF Next, Shutdown

LEMMA NextRefines == TypeOK /\ Supervised /\ ShutUnread /\ Next => Step
<1> SUFFICES ASSUME TypeOK, Supervised, ShutUnread, Next PROVE Step
  OBVIOUS
<1>1. OneHelper
  BY DEF Supervised
<1>2. CASE Start \/ PollSpawn \/ PollFinish
  <2>1. ~Shut /\ ~Shut'
    BY <1>2 DEF Start, PollSpawn, PollFinish, Shut, WaitLabels
  <2>2. QED
    BY <1>1, <1>2, <2>1, TrySpawnRefines DEF Start, PollSpawn, PollFinish
<1>3. CASE PollBegin
  <2>1. UNCHANGED Shut
    BY <1>3 DEF PollBegin, Shut, WaitLabels
  <2>2. Same /\ (UNCHANGED readFd \/ readFd' \notin Pids)
    BY <1>3, CutOffIsSame, UnchangedIsSame DEF PollBegin, kidVars, streamVars
  <2>3. QED
    BY <2>1, <2>2, StutterOrGiveUp
<1>4. CASE DecodeFrame \/ ReadMore \/ UserOp
  BY <1>4, UnchangedIsSame, StutterOrGiveUp
     DEF DecodeFrame, ReadMore, UserOp, kidVars, streamVars, Shut
<1>5. CASE ReadEnds
  <2>1. UNCHANGED Shut
    BY <1>5 DEF ReadEnds, ReadDone, ReadEof, ReadFails, WantsFrame, WantsInput, Shut, WaitLabels
  <2>2. Same /\ (UNCHANGED readFd \/ readFd' \notin Pids)
    BY <1>5, CutOffIsSame, UnchangedIsSame
       DEF ReadEnds, ReadDone, ReadEof, ReadFails, kidVars, streamVars
  <2>3. QED
    BY <2>1, <2>2, StutterOrGiveUp
<1>6. CASE PollReap \/ ShutdownReap
  <2>1. UNCHANGED Shut /\ pc # "gone"
    BY <1>6 DEF PollReap, ShutdownReap, Shut, WaitLabels
  <2>2. CASE Exited /\ Reap
    BY <2>1, <2>2, ReapRefines
  <2>3. CASE UNCHANGED <<kidVars, streamVars>>
    BY <2>1, <2>3, UnchangedIsSame, StutterOrGiveUp DEF kidVars, streamVars
  <2>4. QED
    BY <1>6, <2>2, <2>3 DEF PollReap, ShutdownReap
<1>7. CASE PollTimeouts
  <2>1. UNCHANGED Shut
    BY <1>7 DEF PollTimeouts, Shut, WaitLabels
  <2>2. Same
    BY <1>7, TerminationIsSame, UnchangedIsSame, SignalIsSame
       DEF PollTimeouts, kidVars, TypeOK, StreamOK
  <2>3. UNCHANGED readFd \/ readFd' \notin Pids
    BY <1>7, NoneIsNoPid DEF PollTimeouts, ClosePipe, streamVars
  <2>4. QED
    BY <2>1, <2>2, <2>3, StutterOrGiveUp
<1>8. CASE ShutdownBegin
  <2>1. ~Shut /\ Shut'
    BY <1>8 DEF ShutdownBegin, Shut, WaitLabels
  <2>2. QED
    BY <1>8, <2>1, CutOffIsSame, CloseStep DEF ShutdownBegin
<1>9. CASE ShutdownKill \/ ShutdownEnd
  <2>1. UNCHANGED Shut
    BY <1>9 DEF ShutdownKill, ShutdownEnd, Shut, WaitLabels
  <2>2. Same /\ UNCHANGED readFd
    BY <1>9, SignalIsSame, UnchangedIsSame
       DEF ShutdownKill, ShutdownEnd, kidVars, streamVars, TypeOK, StreamOK
  <2>3. QED
    BY <2>1, <2>2, StutterOrGiveUp
<1>10. CASE ProcessEnds
  <2>1. Same /\ readFd' \notin Pids
    BY <1>10, TimeIsSame, NoneIsNoPid DEF ProcessEnds, ClosePipe
  <2>2. Shut'
    BY <1>10 DEF ProcessEnds, Shut
  <2>3. QED
    BY <2>1, <2>2, CloseStep, StutterOrGiveUp
<1>11. CASE Tick
  BY <1>11, TimeIsSame, StutterOrGiveUp DEF Tick, Shut
<1>12. ASSUME NEW p \in Pids, Works(p) \/ Fails(p) \/ Dies(p) PROVE Step
  <2>1. UNCHANGED <<pc, readFd>>
    BY <1>12 DEF Works, Fails, Dies, OfHelper
  <2>2. QED
    BY <1>12, <2>1, HelperIsSame, StutterOrGiveUp DEF Shut
<1>13. ASSUME NEW p \in Pids, InitReaps(p) PROVE Step
  <2>1. pc = "gone" /\ UNCHANGED <<pc, readFd>> /\ p \in Kids
    BY <1>13 DEF InitReaps, OfHelper, Phase, Kids
  <2>2. Kids' = Kids \ {p}
    BY <1>13 DEF InitReaps, OfHelper, Kids, NoProc, TypeOK, ProcsOK
  <2>3. Served = {} /\ Served' = {} /\ UNCHANGED Shut
    BY <2>1, NoneIsNoPid DEF ShutUnread, Served, Shut
  <2>4. QED
    BY <2>1, <2>2, <2>3, CollectStep
<1>14. QED
  BY <1>2, <1>3, <1>4, <1>5, <1>6, <1>7, <1>8, <1>9, <1>10, <1>11, <1>12, <1>13
     DEF Next, Poll, Shutdown

-----------------------------------------------------------------------------
\* Whatever the number of process ids, the delays and the faults, the
\* supervision of the helper by the code implements the abstract supervisor:
\* one child at a time, none started during a shutdown, one given up is never
\* served again.
THEOREM GpuBridgeImplementsSupervisor == Spec => ImplementsSupervisor
<1>1. Init => Promise!Init /\ ShutUnread
  BY HelperAssumption
     DEF HelperAssumption, Init, Promise!Init, ShutUnread, Shut, WaitLabels, NoProc
<1>2. ShutUnread /\ TypeOK /\ [Next]_vars => ShutUnread'
  <2>1. ASSUME ShutUnread, UNCHANGED vars PROVE ShutUnread'
    BY <2>1 DEF ShutUnread, Shut, vars, streamVars
  <2>2. QED
    BY <2>1, ShutUnreadStep
<1>3. TypeOK /\ Supervised /\ ShutUnread /\ [Next]_vars
        => [Promise!Next]_<<{p \in Pids : procs[p].phase # "absent"},
                            {p \in Pids : readFd = p},
                            pc \in WaitLabels \cup {"down", "gone"}>>
  <2>1. ASSUME TypeOK, Supervised, ShutUnread, Next PROVE Step
    BY <2>1, NextRefines
  <2>2. ASSUME UNCHANGED vars PROVE Step
    <3>1. Same /\ UNCHANGED Shut /\ UNCHANGED readFd
      BY <2>2, UnchangedIsSame DEF vars, kidVars, streamVars, Shut
    <3>2. QED
      BY <3>1, StutterOrGiveUp
  <2>3. QED
    BY <2>1, <2>2 DEF Step, Kids, Served, Shut
<1>4. QED
  BY <1>1, <1>2, <1>3, Supervision, PTL DEF Spec, ImplementsSupervisor, Promise!Spec

=============================================================================
