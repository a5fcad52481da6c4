------------------------------ MODULE GpuBridge ------------------------------
(***************************************************************************)
(* The supervision of the NVIDIA helper by the monitor, as written in      *)
(* src/linux/btop_gpu_bridge.cpp. Actors: the runner thread, which         *)
(* calls poll(); the main thread, which calls start(), shutdown() and      *)
(* retry() and edits the settings; the helper, the kernel and the clock.   *)
(* poll() is cut at its system calls (program counter pc), so helper and   *)
(* clock steps fall between any two of them.                               *)
(*                                                                         *)
(* The code only ever compares a time stamp with now, so every stamp is    *)
(* kept relative to now: a deadline as the ticks left (0 once passed), an  *)
(* age saturated just above StaleAfter. The state space is finite without  *)
(* a bound on time.                                                        *)
(***************************************************************************)
EXTENDS GpuHelper

CONSTANTS
    InitialBackoff,  \* initial_backoff_ms, in ticks
    MaximumBackoff,  \* maximum_backoff_ms
    KillDelay,       \* grace between SIGTERM and SIGKILL in poll()
    ShutdownWait,    \* how long shutdown() waits after each signal
    FramesPerPoll,   \* frames read_available() decodes in one call
    PollPeriod,      \* ticks between two polls when Timely (update_ms)
    Timely,          \* TRUE: helpers and polls keep up with the clock
    MaxUserOps       \* bound: retries and settings changes by the user

ASSUME BridgeAssumption ==
    /\ InitialBackoff \in Nat \ {0} /\ MaximumBackoff \in Nat
    /\ MaximumBackoff >= InitialBackoff
    /\ KillDelay \in Nat \ {0} /\ ShutdownWait \in Nat \ {0}
    /\ FramesPerPoll \in Nat \ {0} /\ PollPeriod \in Nat \ {0}
    /\ Timely \in BOOLEAN /\ MaxUserOps \in Nat

VARIABLES
    pc,              \* where the process is: poll(), shutdown() or neither
    pid, input, retryIn, frameAge, killIn, backoff, lastSeq, hasSeq, enabled,
    diagnostics, forceRetry, termSent, killSent,     \* struct Controller
    health, hasSample, sampleAge, helperStatus,      \* its Snapshot
    retryFlag, cfgEnabled, cfgDiag, userOps,         \* written by main
    framesRead, waitIn, sincePoll,
    cooldown,        \* history: ticks the last failure still keeps spawning off
    sampled          \* history: the age of the last sample any helper has taken

kidVars    == <<procs, termSent, killSent, killIn>>
streamVars == <<readFd, input, pipe>>
paceVars   == <<retryIn, backoff, cooldown>>
seqVars    == <<lastSeq, hasSeq>>
modeVars   == <<enabled, diagnostics>>
sampleVars == <<hasSample, sampleAge>>
viewVars   == <<health, helperStatus>>
userVars   == <<retryFlag, cfgEnabled, cfgDiag, userOps>>
timeVars   == <<waitIn, sincePoll, sampled>>
ctlVars    == <<pid, framesRead, frameAge, forceRetry, faults>>
vars == <<pc, ctlVars, kidVars, streamVars, paceVars, seqVars, modeVars, sampleVars,
          viewVars, userVars, timeVars>>
-----------------------------------------------------------------------------
PollLabels == {"spawn", "read", "reap", "timeouts", "reapAgain", "finish"}
WaitLabels == {"termWait", "killWait"}
Labels == PollLabels \cup WaitLabels \cup {"boot", "idle", "down", "gone"}
HealthStates == {"starting", "healthy", "stale", "unavailable", "disabled"}

Sooner(n) == IF n = 0 THEN 0 ELSE n - 1
DoubledUncapped(n) == 2 * n                                       \* faulty
Doubled(n) == IF 2 * n < MaximumBackoff THEN 2 * n ELSE MaximumBackoff

FlagsOK ==
    /\ hasSeq \in BOOLEAN /\ enabled \in BOOLEAN /\ diagnostics \in BOOLEAN
    /\ forceRetry \in BOOLEAN /\ termSent \in BOOLEAN /\ killSent \in BOOLEAN
    /\ hasSample \in BOOLEAN /\ retryFlag \in BOOLEAN
    /\ cfgEnabled \in BOOLEAN /\ cfgDiag \in BOOLEAN
LabelsOK ==
    /\ pc \in Labels /\ health \in HealthStates /\ helperStatus \in Status \ {"GARBAGE"}
StreamOK ==
    /\ pid \in Pids \cup {None} /\ readFd \in Pids \cup {None}
    /\ input \in Seq(Chunk) /\ pipe \in Seq(Chunk)
PaceOK ==
    /\ retryIn \in 0..MaximumBackoff /\ backoff \in InitialBackoff..MaximumBackoff
    /\ cooldown \in 0..InitialBackoff
CountsOK ==
    /\ framesRead \in 0..FramesPerPoll /\ lastSeq \in 0..MaxSeq
    /\ killIn \in 0..KillDelay /\ waitIn \in 0..ShutdownWait /\ sincePoll \in 0..PollPeriod
    /\ frameAge \in 0..(StaleAfter + 1) /\ sampleAge \in 0..(StaleAfter + 1)
    /\ sampled \in 0..(StaleAfter + 1)
    /\ faults \in 0..MaxFaults /\ userOps \in 0..MaxUserOps
ProcsOK == procs \in [Pids -> Proc]
TypeOK == FlagsOK /\ LabelsOK /\ StreamOK /\ PaceOK /\ CountsOK /\ ProcsOK

\* The members of Controller and Snapshot as they are declared; the epoch time
\* stamps are long past.
Init ==
    /\ pc = "boot"
    /\ pid = None /\ readFd = None /\ input = <<>> /\ pipe = <<>>
    /\ procs = [p \in Pids |-> NoProc]
    /\ framesRead = 0 /\ retryIn = 0 /\ killIn = 0 /\ waitIn = 0 /\ sincePoll = 0
    /\ frameAge = StaleAfter + 1 /\ sampleAge = StaleAfter + 1 /\ sampled = StaleAfter + 1
    /\ backoff = InitialBackoff /\ lastSeq = 0 /\ hasSeq = FALSE
    /\ enabled = FALSE /\ diagnostics = FALSE
    /\ forceRetry = FALSE /\ termSent = FALSE /\ killSent = FALSE
    /\ health = "starting" /\ hasSample = FALSE /\ helperStatus = "UNAVAILABLE"
    /\ retryFlag = FALSE /\ cfgEnabled \in BOOLEAN /\ cfgDiag = FALSE
    /\ faults = 0 /\ userOps = 0 /\ cooldown = 0
-----------------------------------------------------------------------------
(* Pieces of the controller, each the body of one function of the source.  *)

ClosePipe == readFd' = None /\ input' = <<>> /\ pipe' = <<>>

\* request_termination(): once per helper; it also starts the grace period.
RequestTermination ==
    IF pid # None /\ ~termSent
      THEN /\ procs' = Signalled(pid, "TERM")
           /\ termSent' = TRUE /\ killSent' = FALSE /\ killIn' = KillDelay
      ELSE UNCHANGED kidVars

SignalOnly == RequestTermination /\ UNCHANGED streamVars          \* faulty
CutOff == ClosePipe /\ RequestTermination

\* set_failure_backoff()
RetryAtOnce == retryIn' = 0 /\ backoff' = Doubled(backoff)       \* faulty
               /\ cooldown' = InitialBackoff
BackOff == retryIn' = backoff /\ backoff' = Doubled(backoff) /\ cooldown' = InitialBackoff

\* update_health() with the values the step leaves in enabled, pid, status.
HealthOf(on, p, status) ==
    CASE ~on -> "disabled"
      [] on /\ hasSample -> IF sampleAge <= StaleAfter THEN "healthy" ELSE "stale"
      [] on /\ ~hasSample ->
           IF status \in {"ERROR", "UNAVAILABLE"} /\ p = None
             THEN "unavailable" ELSE "starting"

SpawnsBesideOld(on) == on /\ retryIn = 0                          \* faulty
MaySpawn(on) == on /\ pid = None /\ retryIn = 0

\* The tail of try_spawn() on success. A child of the runner thread inherits
\* its blocked SIGTERM (posix_spawn without attributes), one of main does not.
Spawned(p, masked) ==
    /\ procs' = [procs EXCEPT ![p] = NewProc(masked)]
    /\ pid' = p /\ readFd' = p /\ input' = <<>> /\ pipe' = <<>>
    /\ frameAge' = 0 /\ hasSeq' = FALSE
    /\ termSent' = FALSE /\ killSent' = FALSE
    /\ helperStatus' = "UNAVAILABLE"
    /\ UNCHANGED <<killIn, paceVars, faults>>

\* The child runs but fcntl() failed: it is signalled and kept as pid, with
\* the frame and kill times of the helper before it.
SpawnUnreadable(p, masked) ==
    /\ Fault
    /\ procs' = [procs EXCEPT ![p] = [NewProc(masked) EXCEPT !.sigs = {"TERM"}]]
    /\ pid' = p /\ ClosePipe
    /\ termSent' = TRUE
    /\ helperStatus' = "ERROR"
    /\ UNCHANGED <<killSent, killIn, frameAge, hasSeq, paceVars>>

\* pipe2() or posix_spawn() failed: no child, back off.
SpawnFailed ==
    /\ Fault /\ BackOff
    /\ helperStatus' \in {"UNAVAILABLE", "ERROR"}
    /\ UNCHANGED <<pid, kidVars, streamVars, frameAge, hasSeq>>

\* try_spawn()
TrySpawn(on, masked) ==
    \/ /\ MaySpawn(on)
       /\ \E p \in Pids : Phase(p) = "absent" /\ (Spawned(p, masked) \/ SpawnUnreadable(p, masked))
    \/ MaySpawn(on) /\ SpawnFailed
    \/ /\ ~MaySpawn(on)
       /\ UNCHANGED <<pid, kidVars, streamVars, frameAge, hasSeq, helperStatus, paceVars, faults>>

\* reap_if_exited() once waitpid() has returned the child.
Reap ==
    /\ pid' = None /\ termSent' = FALSE /\ killSent' = FALSE
    /\ ClosePipe
    /\ procs' = [procs EXCEPT ![pid] = NoProc]
    /\ forceRetry' = FALSE
    /\ IF forceRetry
         THEN retryIn' = 0 /\ backoff' = InitialBackoff /\ cooldown' = 0
         ELSE BackOff
    /\ UNCHANGED killIn

Exited == pid # None /\ Phase(pid) = "zombie"
-----------------------------------------------------------------------------
(* start() and the steps of poll(), in the order poll() takes them.        *)

Start ==
    /\ pc = "boot" /\ pc' = "idle"
    /\ enabled' = cfgEnabled /\ diagnostics' = cfgDiag
    /\ health' = IF cfgEnabled THEN "starting" ELSE "disabled"
    /\ TrySpawn(cfgEnabled, FALSE)
    /\ UNCHANGED <<framesRead, lastSeq, forceRetry, sampleVars, userVars, timeVars>>

\* The retry flag, the diagnostics setting and shown_gpus, read once each.
PollBegin ==
    LET forced == retryFlag /\ pid # None
        lostIt == forced \/ diagnostics # cfgDiag \/ (enabled /\ ~cfgEnabled)
    IN
    /\ pc = "idle" /\ (Timely => sincePoll >= PollPeriod)
    /\ retryFlag' = FALSE /\ forceRetry' = (forceRetry \/ forced)
    /\ IF retryFlag
         THEN retryIn' = 0 /\ backoff' = InitialBackoff /\ cooldown' = 0
         ELSE UNCHANGED paceVars
    /\ IF lostIt THEN CutOff ELSE UNCHANGED <<kidVars, streamVars>>
    /\ diagnostics' = cfgDiag /\ enabled' = cfgEnabled
    /\ framesRead' = 0
    /\ pc' = IF cfgEnabled THEN "spawn" ELSE "reap"
    /\ UNCHANGED <<pid, frameAge, faults, cfgEnabled, cfgDiag, userOps,
                   seqVars, sampleVars, viewVars, timeVars>>

PollSpawn ==
    /\ pc = "spawn"
    /\ TrySpawn(enabled, TRUE)
    /\ pc' = IF readFd' = None THEN "reap" ELSE "read"
    /\ UNCHANGED <<framesRead, lastSeq, forceRetry, health, modeVars, sampleVars,
                   userVars, timeVars>>

(* read_available(): consume_frames() takes complete frames off the front  *)
(* of the input, at most FramesPerPoll in one call, and more is read only  *)
(* when no complete frame is left.                                         *)

FrameLen(c) == IF c.status = "OK" THEN 2 ELSE 1
FrontComplete == input # <<>> /\ Len(input) >= FrameLen(Head(input))
AcceptedAcrossRestarts(c) == c.status # "GARBAGE" /\ c.seq > lastSeq  \* faulty
Accepted(c) == c.status # "GARBAGE" /\ (hasSeq => c.seq > lastSeq)
OneFrame == 1                                                     \* faulty
FrameBudget == FramesPerPoll
WantsFrame == pc = "read" /\ framesRead < FrameBudget /\ FrontComplete
WantsInput == pc = "read" /\ framesRead < FrameBudget /\ ~FrontComplete

AgoWhenRead(c) == 0                                               \* faulty
SampledAgo(c) == c.age
\* decode_frame() of an accepted frame, and its removal from the input.
DecodeFrame ==
    LET c == Head(input) IN
    /\ WantsFrame /\ Accepted(c)
    /\ input' = SubSeq(input, FrameLen(c) + 1, Len(input))
    /\ framesRead' = framesRead + 1
    /\ helperStatus' = c.status
    /\ lastSeq' = c.seq /\ hasSeq' = TRUE /\ frameAge' = 0
    /\ IF c.status = "OK"
         THEN /\ hasSample' = TRUE /\ sampleAge' = SampledAgo(c)
              /\ backoff' = InitialBackoff /\ retryIn' = 0
         ELSE UNCHANGED <<sampleVars, backoff, retryIn>>
    /\ UNCHANGED <<pc, pid, readFd, pipe, forceRetry, health, faults, cooldown,
                   kidVars, modeVars, userVars, timeVars>>

ReadMore ==
    /\ WantsInput /\ pipe # <<>>
    /\ input' = input \o pipe /\ pipe' = <<>>
    /\ UNCHANGED <<pc, readFd, ctlVars, kidVars, paceVars, seqVars, modeVars,
                   sampleVars, viewVars, userVars, timeVars>>

\* The ways read_available() ends: EAGAIN or the frame allowance used up; end
\* of file, every write end being closed; an invalid frame or a failing read(),
\* after which mark_pipe_failed() gives the helper up.
ReadDone ==
    /\ pc = "read"
    /\ \/ framesRead = FrameBudget
       \/ WantsInput /\ pipe = <<>> /\ Phase(readFd) \in Alive
    /\ UNCHANGED <<kidVars, streamVars, viewVars, faults>>
ReadEof ==
    /\ WantsInput /\ pipe = <<>> /\ Phase(readFd) \notin Alive
    /\ CutOff /\ UNCHANGED <<viewVars, faults>>
ReadFails ==
    /\ \/ WantsFrame /\ ~Accepted(Head(input)) /\ UNCHANGED faults
       \/ WantsInput /\ Fault
    /\ CutOff /\ helperStatus' = "ERROR" /\ UNCHANGED health
ReadEnds ==
    /\ ReadDone \/ ReadEof \/ ReadFails
    /\ pc' = "reap"
    /\ UNCHANGED <<pid, framesRead, frameAge, forceRetry, paceVars, seqVars, modeVars,
                   sampleVars, userVars, timeVars>>

\* reap_if_exited(), twice in a poll.
PollReap ==
    /\ pc \in {"reap", "reapAgain"}
    /\ pc' = IF pc = "reap" THEN "timeouts" ELSE "finish"
    /\ IF Exited THEN Reap
                 ELSE UNCHANGED <<pid, forceRetry, kidVars, streamVars, paceVars>>
    /\ UNCHANGED <<framesRead, frameAge, faults, seqVars, modeVars, sampleVars, viewVars,
                   userVars, timeVars>>

\* startup_timed_out or data_timed_out
SilentOnceSampled == frameAge > StaleAfter /\ hasSample /\ sampleAge > StaleAfter  \* faulty
SilentAtStartup == frameAge > StaleAfter /\ ~hasSample             \* faulty
Silent == frameAge > StaleAfter /\ (hasSample => sampleAge > StaleAfter)

\* update_health(), the two timeouts, and the escalation to SIGKILL.
PollTimeouts ==
    LET giveUp == pid # None /\ (Silent \/ ~enabled)
        escalate == pid # None /\ termSent /\ ~killSent /\ killIn = 0
    IN
    /\ pc = "timeouts" /\ pc' = "reapAgain"
    /\ health' = HealthOf(enabled, pid, helperStatus)
    /\ IF giveUp THEN ClosePipe ELSE UNCHANGED streamVars
    /\ IF escalate
         THEN procs' = Signalled(pid, "KILL") /\ killSent' = TRUE /\ UNCHANGED <<termSent, killIn>>
         ELSE IF giveUp THEN RequestTermination ELSE UNCHANGED kidVars
    /\ UNCHANGED <<ctlVars, helperStatus, paceVars, seqVars, modeVars, sampleVars,
                   userVars, timeVars>>

PollFinish ==
    /\ pc = "finish" /\ pc' = "idle"
    /\ TrySpawn(enabled, TRUE)
    /\ health' = HealthOf(enabled, pid', helperStatus')
    /\ sincePoll' = 0
    /\ UNCHANGED <<framesRead, lastSeq, forceRetry, modeVars, sampleVars, userVars, waitIn, sampled>>

Poll == PollBegin \/ PollSpawn \/ DecodeFrame \/ ReadMore \/ ReadEnds
        \/ PollReap \/ PollTimeouts \/ PollFinish
-----------------------------------------------------------------------------
(* The main thread: settings, the retry key, and the end of the process.   *)

UserOp ==
    /\ pc \in PollLabels \cup {"idle"}
    /\ userOps < MaxUserOps /\ userOps' = userOps + 1
    /\ \/ retryFlag' = TRUE /\ UNCHANGED <<cfgEnabled, cfgDiag>>
       \/ cfgEnabled' = ~cfgEnabled /\ UNCHANGED <<retryFlag, cfgDiag>>
       \/ cfgDiag' = ~cfgDiag /\ UNCHANGED <<retryFlag, cfgEnabled>>
    /\ UNCHANGED <<pc, ctlVars, kidVars, streamVars, paceVars, seqVars, modeVars,
                   sampleVars, viewVars, timeVars>>

\* shutdown(): clean_quit() calls it once the runner thread has been joined,
\* so never inside poll().
ShutdownBegin ==
    /\ pc = "idle" /\ pc' = "termWait"
    /\ enabled' = FALSE
    /\ CutOff
    /\ waitIn' = ShutdownWait
    /\ UNCHANGED <<ctlVars, diagnostics, paceVars, seqVars, sampleVars, viewVars,
                   userVars, sincePoll, sampled>>

ShutdownReap ==
    /\ pc \in WaitLabels /\ waitIn > 0 /\ Exited
    /\ Reap
    /\ UNCHANGED <<pc, framesRead, frameAge, faults, seqVars, modeVars, sampleVars,
                   viewVars, userVars, timeVars>>

ShutdownKill ==
    /\ pc = "termWait" /\ pid # None /\ waitIn = 0 /\ pc' = "killWait"
    /\ procs' = Signalled(pid, "KILL") /\ termSent' = TRUE /\ killSent' = TRUE
    /\ waitIn' = ShutdownWait
    /\ UNCHANGED <<ctlVars, killIn, streamVars, paceVars, seqVars, modeVars, sampleVars,
                   viewVars, userVars, sincePoll, sampled>>

OverAfterTerm == pid = None \/ waitIn = 0                          \* faulty
OverWhenReaped == pid = None                                      \* faulty
ShutdownOver == pid = None \/ (pc = "killWait" /\ waitIn = 0)
ShutdownEnd ==
    /\ pc \in WaitLabels /\ pc' = "down"
    /\ ShutdownOver
    /\ health' = IF hasSample THEN "stale" ELSE "unavailable"
    /\ UNCHANGED <<ctlVars, helperStatus, kidVars, streamVars, paceVars, seqVars, modeVars,
                   sampleVars, userVars, timeVars>>

Shutdown == ShutdownReap \/ ShutdownKill \/ ShutdownEnd

\* The process ends: after shutdown(), or at any point by a fatal signal or
\* by the _Exit() of clean_quit() when the runner cannot be joined.
ProcessEnds ==
    /\ pc # "gone" /\ pc' = "gone"
    /\ IF pc = "down" THEN UNCHANGED faults ELSE Fault
    /\ ClosePipe /\ procs' = Orphaned
    /\ UNCHANGED <<pid, framesRead, frameAge, forceRetry, termSent, killSent, killIn,
                   paceVars, seqVars, modeVars, sampleVars, viewVars, userVars, timeVars>>
-----------------------------------------------------------------------------
(* The helper, the kernel and the clock.                                   *)

Stamps == \E p \in Pids : Phase(p) = "ready" /\ procs'[p].phase = "writing"
OfHelper(A) ==
    /\ A
    /\ sampled' = IF Stamps THEN 0 ELSE sampled
    /\ UNCHANGED <<pc, pid, framesRead, frameAge, forceRetry, termSent, killSent, killIn,
                   readFd, input, paceVars, seqVars, modeVars, sampleVars, viewVars,
                   userVars, waitIn, sincePoll>>
Works(p)   == OfHelper(HelperWorks(p))
Fails(p)   == OfHelper(HelperFails(p))
Dies(p)    == OfHelper(SignalDies(p))
\* Once the monitor is gone init reaps its children.
InitReaps(p) ==
    OfHelper(/\ pc = "gone" /\ Phase(p) = "zombie"
             /\ procs' = [procs EXCEPT ![p] = NoProc] /\ UNCHANGED <<pipe, faults>>)

\* A machine that keeps up: polls, reaping and helpers are done by the next tick.
KeptUp ==
    /\ \A p \in Pids : Settled(p)
    /\ \/ pc = "idle" /\ sincePoll < PollPeriod
       \/ pc \in WaitLabels /\ pid # None /\ ~Exited /\ waitIn > 0
       \/ pc = "gone"

Tick ==
    /\ Timely => KeptUp
    /\ retryIn' = Sooner(retryIn) /\ killIn' = Sooner(killIn)
    /\ waitIn' = Sooner(waitIn) /\ cooldown' = Sooner(cooldown)
    /\ frameAge' = Older(frameAge) /\ sampleAge' = Older(sampleAge)
    /\ sampled' = Older(sampled)
    /\ input' = Aged(input) /\ pipe' = Aged(pipe) /\ procs' = Woken
    /\ sincePoll' = IF Timely /\ sincePoll < PollPeriod THEN sincePoll + 1 ELSE sincePoll
    /\ UNCHANGED <<pc, pid, readFd, framesRead, forceRetry, faults, termSent, killSent,
                   backoff, hasSample, seqVars, modeVars, viewVars, userVars>>

Next ==
    \/ Start \/ Poll \/ UserOp \/ ShutdownBegin \/ Shutdown \/ ProcessEnds \/ Tick
    \/ \E p \in Pids : Works(p) \/ Fails(p) \/ Dies(p) \/ InitReaps(p)

Spec == Init /\ [][Next]_vars

(* The main loop triggers a collection every update_ms, the runner thread  *)
(* runs it to its end, time passes, and the kernel delivers signals and    *)
(* reaps orphans. Nothing is assumed of a helper, of the user, or of the   *)
(* end of the process, except that a shutdown once begun runs on.          *)
FairSpec ==
    /\ Spec
    /\ WF_vars(Start) /\ WF_vars(Poll) /\ WF_vars(Tick) /\ WF_vars(Shutdown)
    /\ \A p \in Pids : WF_vars(Dies(p)) /\ WF_vars(InitReaps(p))

\* The helper process is scheduled as well (its driver may still hang).
LiveSpec == FairSpec /\ \A p \in Pids : WF_vars(Works(p))
-----------------------------------------------------------------------------
(* Safety.                                                                 *)

\* At most one helper exists while the monitor runs, and it is the one the
\* controller tracks: try_spawn() never leaves a second child behind, whatever
\* fails between fork and the next waitpid().
OneHelper ==
    pc # "gone" => \A p \in Pids : procs[p].phase # "absent" => p = pid

\* A helper told to stop, or to be replaced at the user's request, is still a
\* child to be reaped and is never read again: no frame it writes afterwards
\* can reach the snapshot, and the retry cannot be forgotten.
CutOffIsFinal ==
    /\ termSent \/ killSent \/ forceRetry => pid # None /\ readFd = None
    /\ readFd # None => readFd = pid
    /\ readFd = None => input = <<>>

\* When shutdown() returns, no helper is left that is not already dead or
\* carrying a SIGKILL, not even one whose driver call cannot be interrupted.
ShutdownLeavesNoHelper ==
    pc = "down" => \A p \in Pids :
        procs[p].phase # "absent" => "KILL" \in procs[p].sigs

\* After a helper was reaped, or could not be spawned, no other is started
\* within the initial backoff unless the user asked for it.
NoProcessStorm == [][pid = None /\ pid' # None => cooldown = 0]_vars

\* The frames of a helper that writes no garbage are never refused: not after a
\* restart, when the numbering begins again, and not when a poll or the end of
\* the helper finds half a frame in the pipe.
HonestFramesAccepted ==
    [][pc = "read" /\ pc' = "reap" /\ helperStatus' = "ERROR" /\ helperStatus # "ERROR"
       => faults' > faults \/ \E i \in 1..Len(input) : input[i].status = "GARBAGE"]_vars

\* What poll() returns agrees with the helper processes, although frames wait in the
\* pipe, helpers come and go and the clock, the user and the kernel go on while it runs:
\* healthy needs a sample that a helper has taken (not one that has arrived) within
\* StaleAfter, unavailable means that no helper process exists, starting that one
\* does, and disabled that any that does has been told to stop.
HealthMatchesHelpers ==
    [][pc = "finish" /\ pc' = "idle" =>
         /\ health' = "healthy" => sampled' <= StaleAfter
         /\ health' = "unavailable" => \A p \in Pids : procs'[p].phase = "absent"
         /\ health' = "starting" => \E p \in Pids : procs'[p].phase # "absent"
         /\ health' = "disabled" =>
              \A p \in Pids : procs'[p].phase = "absent" \/ procs'[p].sigs # {}]_vars

\* poll() does not return stale while it holds a fresh complete sample it has
\* already received (scripts/check-linux-terminal.py:515).
FreshSampleClearsStale ==
    [][pc = "finish" /\ pc' = "idle" /\ health' = "stale" =>
         \A i \in 1..Len(input) : input[i].part = "body" => input[i].age > StaleAfter]_vars

\* The controller, seen from the kernel's process table, is the abstract supervisor:
\* one child at a time, none started while or after the monitor shuts down, and a
\* child given up is reaped and never served again. Every step of poll(),
\* shutdown(), the helper and the clock is one step of Supervisor or a stutter.
Promise == INSTANCE Supervisor WITH
    children <- {p \in Pids : procs[p].phase # "absent"},
    serving  <- {p \in Pids : readFd = p},
    closed   <- pc \in WaitLabels \cup {"down", "gone"}
ImplementsSupervisor == Promise!Spec

-----------------------------------------------------------------------------
(* Liveness.                                                               *)

Ended == pc \in WaitLabels \cup {"down", "gone"}

\* A helper whose driver call hangs is detected, signalled, killed if it blocks
\* SIGTERM, and reaped.
HungHelperReaped ==
    \A p \in Pids : (procs[p].phase = "hung" /\ pc # "gone")
                      ~> (procs[p].phase = "absent" \/ pc \in {"down", "gone"})

\* While NVIDIA is shown a missing helper is always started again in the end.
HelperRespawned ==
    (enabled /\ pid = None) ~> (~enabled \/ pid # None \/ Ended)

\* No helper that does nothing is kept: it is got rid of, and another takes its place.
HelperReplaced == HungHelperReaped /\ HelperRespawned

\* shutdown() returns even if the helper cannot be killed.
ShutdownEnds == (pc \in WaitLabels) ~> (pc \in {"down", "gone"})

\* After the monitor is gone, however it went, a helper that can still run ends.
\* Only one in a driver call may survive: stuck, or hung while it blocks SIGTERM
\* (which a child of the runner thread inherits), or hung with the parent gone
\* before it had asked for the parent-death signal.
OrphansEnd ==
    (pc = "gone") ~> (\A p \in Pids :
        \/ Phase(p) \in {"absent", "stuck"}
        \/ Phase(p) = "hung" /\ (procs[p].masked \/ "TERM" \notin procs[p].sigs))

\* However the monitor ends, it does, and so do its helpers.
HelpersEnd == ShutdownEnds /\ OrphansEnd

\* With a machine that keeps up, the display becomes healthy again and again
\* while NVIDIA stays enabled: from every hang, crash, bad frame or failed spawn
\* the supervision recovers.
RecoversHealthy == []<>(health = "healthy" \/ ~cfgEnabled \/ Ended)
=============================================================================
