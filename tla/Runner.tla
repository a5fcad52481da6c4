-------------------------------- MODULE Runner --------------------------------
(***************************************************************************)
(* The two threads of the monitor (src/btop.cpp). Main takes signals,      *)
(* keys, the timer and terminal sizes, and hands work to the runner, which *)
(* collects and draws. They share the flag "active", a semaphore, the      *)
(* flags stopping / resized / quitting, the settings with their lock, the  *)
(* box layout and the terminal.                                            *)
(*                                                                         *)
(* mpc and rpc are the places of the two threads. run(), stop(),           *)
(* calcSizes() and term_resize() are called from several places, so main   *)
(* keeps a stack of return labels. A wait with a timeout is a step that    *)
(* can also be taken when the time is over:                                *)
(*   - 5 s and more: only if the runner can make no progress;              *)
(*   - 10 ms and 100 ms: at any moment or, when Prompt, only if the runner *)
(*     has nothing left to do (it is scheduled within that time).          *)
(***************************************************************************)
EXTENDS Integers, Sequences, FiniteSets

CONSTANTS
    StartViews,      \* the views the configuration file may ask for
    Sizes, Needs,    \* terminal sizes; the least size a choice of boxes takes
    Keys,            \* kinds of key the user presses
    Signals,         \* kinds of signal that arrive
    Prompt,          \* TRUE: the runner is scheduled within the short waits
    MaxTokens,       \* bound: triggers waiting in the semaphore
    MaxEvents,       \* bound: keys, signals and terminal changes
    MaxFaults        \* bound: exceptions, hanging collectors, core count changes

Boxes == {"few", "many"}             \* the setting shown_boxes
Sorts == {"cpu", "mem"}              \* any other setting a key changes
Views == {"ml", "classic"}           \* the setting ml_view

ASSUME RunnerAssumption ==
    /\ StartViews \subseteq Views /\ Prompt \in BOOLEAN
    /\ Sizes \subseteq Nat /\ Needs \in [Boxes -> Nat]
    /\ \E s \in Sizes : \A b \in Boxes : s >= Needs[b]
    /\ Keys \subseteq {"set", "box", "view", "quit"}
    /\ Signals \subseteq {"quit", "sleep", "resize", "reload"}
    /\ MaxTokens \in Nat \ {0} /\ MaxEvents \in Nat /\ MaxFaults \in Nat

VARIABLES
    mpc, stack, force, kind,         \* main: place, return labels, arguments
    rpc, threadExc, faults,          \* runner: place, Global::thread_exception
    active, tokens, mtx,             \* Runner::active, do_work, mtx
    stopping, resized, quitting,
    pend, flags,                     \* pending signals, Global::should_*
    locked, settings, pending, file, \* Config: lock, maps, Tmp maps, on disk
    current,                         \* Config::current_boxes
    win, seen, layout, job,          \* terminal size, known size; boxes laid out,
                                     \* boxes handed to the runner
    redraw, frame, drawn,            \* boxes to be redrawn whole; the frame has
                                     \* whole boxes; what is on the screen
    screen, blocked, ttyFull,        \* terminal mode, back pressure
    outcome, events

callVars == <<stack, force, kind>>
runVars  == <<rpc, threadExc, faults>>
syncVars == <<active, tokens, mtx>>
flagVars == <<stopping, resized, quitting>>
sigVars  == <<pend, flags>>
confVars == <<locked, settings, pending, file, current>>
sizeVars == <<win, seen>>
viewVars == <<layout, job, redraw, frame, drawn>>
ttyVars  == <<screen, blocked, ttyFull>>
endVars  == <<outcome, events>>
shown    == <<redraw, frame, drawn, screen, blocked>>
vars == <<mpc, callVars, runVars, syncVars, flagVars, sigVars, confVars, sizeVars,
          viewVars, ttyVars, endVars>>

MainLabels ==
    {"loop", "reload", "size", "redraw", "fresh", "clock", "timer", "input",
     "keySet", "keyCpu", "keyBox", "keyView", "keyRun", "calc", "calcBody",
     "tr", "trStop", "trSize", "trUnlock", "trLoop", "trSmall",
     "run", "runCheck", "runClock", "runPost", "runGo", "runWait",
     "stop", "stopWait", "stopKick", "stopArm", "stopDone", "restore",
     "suspended", "quit", "quitRestore", "join", "save", "exited"}
Working == {"collect", "stalled", "draw", "output", "writing"}
RunnerLabels == Working \cup {"boot", "top", "idle", "woken", "pass", "exited"}
Settings == [boxes : Boxes, sort : Sorts, view : Views]
None == "none"                       \* nothing in the Tmp map
Nothing == [boxes |-> None, sort |-> None, view |-> None]
\* A cleared screen has no boxes.
Screens == [size : Sizes, boxes : Boxes \cup {None}, sort : Sorts, view : Views]
Other(S, x) == CHOOSE y \in S : y # x

TypeOK ==
    /\ mpc \in MainLabels /\ rpc \in RunnerLabels
    /\ stack \in Seq(MainLabels) /\ force \in BOOLEAN /\ kind \in {"all", "redraw", "clock"}
    /\ active \in BOOLEAN /\ tokens \in 0..MaxTokens /\ mtx \in {"free", "runner", "main"}
    /\ stopping \in BOOLEAN /\ resized \in BOOLEAN /\ quitting \in BOOLEAN
    /\ pend \subseteq Signals /\ flags \subseteq {"quit", "sleep", "reload"}
    /\ threadExc \in BOOLEAN /\ locked \in BOOLEAN
    /\ settings \in Settings /\ file \in Settings /\ current \in Boxes
    /\ pending \in [boxes : Boxes \cup {None}, sort : Sorts \cup {None},
                  view : Views \cup {None}]
    /\ win \in Sizes /\ seen \in Sizes
    /\ layout \in [size : Sizes, boxes : Boxes] /\ drawn \in Screens
    /\ job \in [boxes : Boxes, whole : BOOLEAN] /\ redraw \in BOOLEAN /\ frame \in BOOLEAN
    /\ screen \in {"raw", "restored", "spoilt"} /\ blocked \in BOOLEAN /\ ttyFull \in BOOLEAN
    /\ outcome \in {"running", "key", "signal", "exception", "stalled", "died", "noRestore"}
    /\ events \in 0..MaxEvents /\ faults \in 0..MaxFaults

\* The first pass of the main loop: the runner thread has been created, the
\* boxes are laid out and fit. Signals may have come during start-up.
Init ==
    /\ mpc = "loop" /\ stack = <<>> /\ force = FALSE /\ kind = "all"
    /\ rpc = "boot" /\ threadExc = FALSE /\ faults = 0
    /\ active = FALSE /\ tokens = 0 /\ mtx = "free"
    /\ settings \in {[boxes |-> "many", sort |-> "cpu", view |-> v] : v \in StartViews}
    /\ file = settings /\ locked = FALSE /\ pending = Nothing
    /\ stopping = FALSE /\ resized = (settings.view = "ml") /\ quitting = FALSE
    /\ pend = {} /\ flags = {}
    /\ current = "many"
    /\ win \in {s \in Sizes : s >= Needs["many"]} /\ seen = win
    /\ layout = [size |-> win, boxes |-> "many"]
    /\ job = [boxes |-> "many", whole |-> FALSE] /\ redraw = TRUE /\ frame = FALSE
    /\ drawn = [size |-> win, boxes |-> None, sort |-> "cpu", view |-> settings.view]
    /\ screen = "raw" /\ blocked = FALSE /\ ttyFull = FALSE
    /\ outcome = "running" /\ events = 0
-----------------------------------------------------------------------------
(* Calls, shared pieces.                                                   *)

Goto(label)       == mpc' = label /\ UNCHANGED stack
Call(label, back) == mpc' = label /\ stack' = <<back>> \o stack
Return            == mpc' = Head(stack) /\ stack' = Tail(stack)
Quit(why)         == Goto("quit") /\ outcome' = why

\* Nothing is left that the runner would do by itself.
AtRest == (rpc = "idle" /\ tokens = 0) \/ rpc \in {"stalled", "exited"}
ShortWaitOver == Prompt => AtRest

\* A faulty variant of the definition that follows it, as elsewhere below: an
\* empty Tmp entry is committed too.
CommitsEmpty(p, s) == p

\* Config::unlock(): waits for the runner, then commits the Tmp maps.
Commit(p, s) == [k \in DOMAIN s |-> IF p[k] = None THEN s[k] ELSE p[k]]
CanUnlock == locked => ~active
Unlock ==
    /\ CanUnlock
    /\ settings' = Commit(pending, settings) /\ pending' = Nothing
    /\ locked' = FALSE

\* Config::set(), and the changes it makes to the live or to the Tmp map.
Set(key, value) ==
    IF locked THEN pending' = [pending EXCEPT ![key] = value] /\ UNCHANGED settings
              ELSE settings' = [settings EXCEPT ![key] = value] /\ UNCHANGED pending

\* Term::output(): a frame is written, cut short by a full terminal, dropped
\* while the terminal stays full, or dropped with a redraw asked for once it
\* has drained. The output mutex must be free.
Written == ~blocked /\ ~ttyFull
Cleared == [drawn EXCEPT !.boxes = None]
Output ==
    /\ rpc # "writing"
    /\ blocked' = ttyFull
    /\ resized' = (resized \/ (blocked /\ ~ttyFull))
    /\ UNCHANGED <<screen, ttyFull>>

\* thread_trigger(); beyond the bound triggers are no longer counted.
Trigger == tokens' = IF tokens < MaxTokens THEN tokens + 1 ELSE tokens

Fits(boxes) == seen >= Needs[boxes]
-----------------------------------------------------------------------------
(* The main loop.                                                          *)

\* _dispatch_signal_flags(), and the branch main then takes on the flags.
TakeSignals == pend' = {} /\ resized' = (resized \/ "resize" \in pend)
Dispatch ==
    LET raised == flags \cup (pend \ {"resize"}) IN
    /\ mpc = "loop" /\ TakeSignals
    /\ \/ threadExc /\ Quit("exception") /\ flags' = raised
       \/ ~threadExc /\ "quit" \in raised /\ Quit("signal") /\ flags' = raised
       \/ /\ ~threadExc /\ raised \cap {"quit", "sleep"} = {"sleep"}
          /\ flags' = raised \ {"sleep"}
          /\ Call("stop", "restore") /\ UNCHANGED outcome
       \/ /\ ~threadExc /\ raised = {"reload"}
          /\ flags' = {}
          /\ IF active THEN Call("stop", "reload") ELSE Goto("reload")
          /\ UNCHANGED outcome
       \/ /\ ~threadExc /\ raised = {}
          /\ flags' = {} /\ Goto("size") /\ UNCHANGED outcome
    /\ UNCHANGED <<force, kind, runVars, syncVars, stopping, quitting, confVars, sizeVars,
                   viewVars, ttyVars, events>>

\* Hot reload: Config::load() overwrites the maps with what the file says, but
\* leaves current_boxes alone (stringValid() skips set_boxes() in init_config()).
Reload ==
    /\ mpc = "reload" /\ CanUnlock
    /\ settings' = file /\ pending' = Nothing /\ locked' = FALSE
    /\ resized' = TRUE /\ Goto("size")
    /\ UNCHANGED <<force, kind, runVars, syncVars, stopping, quitting, sigVars, file, current,
                   sizeVars, viewVars, ttyVars, endVars>>

CheckSize ==
    /\ mpc = "size" /\ force' = resized /\ Call("tr", "redraw")
    /\ UNCHANGED <<kind, runVars, syncVars, flagVars, sigVars, confVars, sizeVars, viewVars,
                   ttyVars, endVars>>

Redraw ==
    /\ mpc = "redraw"
    /\ IF ~resized THEN Goto("clock")
       ELSE IF settings.view = "classic" THEN Call("calc", "fresh") ELSE Goto("fresh")
    /\ UNCHANGED <<force, kind, runVars, syncVars, flagVars, sigVars, confVars, sizeVars,
                   viewVars, ttyVars, endVars>>

\* The flag is cleared, then the full redraw is handed to the runner.
Fresh ==
    /\ mpc = "fresh" /\ resized' = FALSE
    /\ kind' = "redraw" /\ Call("run", "clock")
    /\ UNCHANGED <<force, runVars, syncVars, stopping, quitting, sigVars, confVars, sizeVars,
                   viewVars, ttyVars, endVars>>

Clock ==
    /\ mpc = "clock"
    /\ \/ Goto("timer") /\ UNCHANGED kind
       \/ settings.view = "classic" /\ kind' = "clock" /\ Call("run", "timer")
    /\ UNCHANGED <<force, runVars, syncVars, flagVars, sigVars, confVars, sizeVars, viewVars,
                   ttyVars, endVars>>

TimerDue ==
    /\ mpc = "timer" /\ ~resized
    /\ kind' = "all" /\ Call("run", "input")
    /\ UNCHANGED <<force, runVars, syncVars, flagVars, sigVars, confVars, sizeVars, viewVars,
                   ttyVars, endVars>>
NotDue ==
    /\ mpc \in {"timer", "input"}
    /\ Goto(IF mpc = "timer" THEN "input" ELSE "loop")
    /\ UNCHANGED <<force, kind, runVars, syncVars, flagVars, sigVars, confVars, sizeVars,
                   viewVars, ttyVars, endVars>>

\* Input::poll() returns a key: main unlocks the settings if the runner is not
\* at work, then processes the key.
Key ==
    /\ mpc = "input" /\ events < MaxEvents /\ events' = events + 1
    /\ IF active THEN UNCHANGED <<locked, settings, pending>> ELSE Unlock
    /\ \/ "quit" \in Keys /\ Quit("key")
       \/ "set" \in Keys /\ Goto("keySet") /\ UNCHANGED outcome
       \/ "box" \in Keys /\ Goto("keyBox") /\ UNCHANGED outcome
       \/ "view" \in Keys /\ Goto("keyView") /\ UNCHANGED outcome
    /\ UNCHANGED <<force, kind, runVars, syncVars, flagVars, sigVars, file, current, sizeVars,
                   viewVars, ttyVars>>

\* A key that changes a setting and asks for one box and then for another, as
\* the keys of the process box do.
KeySet ==
    /\ mpc = "keySet"
    /\ Set("sort", Other(Sorts, settings.sort))
    /\ kind' = "all" /\ Call("run", "keyCpu")
    /\ UNCHANGED <<force, runVars, syncVars, flagVars, sigVars, locked, file, current,
                   sizeVars, viewVars, ttyVars, endVars>>

\* Faulty: the boxes are toggled and not laid out.
TogglesOnly ==
    LET new == Other(Boxes, current) IN
    /\ mpc = "keyBox" /\ ~active
    /\ IF ~Fits(new)
         THEN Goto("input") /\ UNCHANGED <<settings, pending, current>>
         ELSE current' = new /\ Set("boxes", new) /\ Goto("keyRun")
    /\ UNCHANGED <<force, kind, runVars, syncVars, flagVars, sigVars, locked, file, sizeVars,
                   viewVars, ttyVars, endVars>>

\* A digit: waits for the runner, toggle_box(), calcSizes() and a redraw; the
\* boxes stay as they are when they would not fit.
KeyBox ==
    LET new == Other(Boxes, current) IN
    /\ mpc = "keyBox" /\ ~active
    /\ IF ~Fits(new)
         THEN Goto("input") /\ UNCHANGED <<settings, pending, current>>
         ELSE /\ current' = new /\ Set("boxes", new)
              /\ Call("calc", "keyRun")
    /\ UNCHANGED <<force, kind, runVars, syncVars, flagVars, sigVars, locked, file, sizeVars,
                   viewVars, ttyVars, endVars>>
\* Faulty: the view is switched and not laid out.
SwitchesOnly ==
    /\ mpc = "keyView" /\ Set("view", Other(Views, settings.view)) /\ Goto("keyRun")
    /\ UNCHANGED <<force, kind, runVars, syncVars, flagVars, sigVars, locked, file, current,
                   sizeVars, viewVars, ttyVars, endVars>>

\* v: the other view is laid out and drawn, unless the boxes of the classic view
\* would not fit. Without a wait the setting may go to the Tmp map; calcSizes()
\* waits and commits it.
KeyView ==
    /\ mpc = "keyView"
    /\ IF settings.view = "ml" /\ ~Fits(settings.boxes)
         THEN Goto("input") /\ UNCHANGED <<settings, pending>>
         ELSE Set("view", Other(Views, settings.view)) /\ Call("calc", "keyRun")
    /\ UNCHANGED <<force, kind, runVars, syncVars, flagVars, sigVars, locked, file, current,
                   sizeVars, viewVars, ttyVars, endVars>>
KeyRun ==
    /\ \/ mpc = "keyRun" /\ kind' = "redraw"
       \/ mpc = "keyCpu" /\ kind' = "all"
    /\ Call("run", "input")
    /\ UNCHANGED <<force, runVars, syncVars, flagVars, sigVars, confVars, sizeVars, viewVars,
                   ttyVars, endVars>>

\* Draw::calcSizes()
Calc ==
    /\ mpc = "calc" /\ ~active
    /\ Unlock /\ Goto("calcBody")
    /\ UNCHANGED <<force, kind, runVars, syncVars, flagVars, sigVars, file, current, sizeVars,
                   viewVars, ttyVars, endVars>>
CalcBody ==
    /\ mpc = "calcBody"
    /\ layout' = [size |-> seen, boxes |-> settings.boxes] /\ redraw' = TRUE
    /\ Return
    /\ UNCHANGED <<force, kind, runVars, syncVars, flagVars, sigVars, confVars, sizeVars, job,
                   frame, drawn, ttyVars, endVars>>

MainLoop == Dispatch \/ Reload \/ CheckSize \/ Redraw \/ Fresh \/ Clock \/ NotDue
            \/ KeySet \/ KeyBox \/ KeyView \/ KeyRun \/ Calc \/ CalcBody
-----------------------------------------------------------------------------
(* term_resize(force)                                                      *)

ResizeEnter ==
    LET refreshed == win # seen IN
    /\ mpc = "tr"
    /\ IF refreshed \/ force
         THEN force' = (force /\ ~refreshed) /\ resized' = TRUE /\ Goto("trStop")
         ELSE Return /\ UNCHANGED <<force, resized>>
    /\ UNCHANGED <<kind, runVars, syncVars, stopping, quitting, sigVars, confVars, sizeVars,
                   viewVars, ttyVars, endVars>>

\* Faulty: the size is taken while the runner draws.
ResizesUnderRunner ==
    /\ mpc = "trStop" /\ Goto("trSize")
    /\ UNCHANGED <<force, kind, runVars, syncVars, flagVars, sigVars, confVars, sizeVars,
                   viewVars, ttyVars, endVars>>
ResizeStop ==
    /\ mpc = "trStop"
    /\ IF active THEN Call("stop", "trSize") ELSE Goto("trSize")
    /\ UNCHANGED <<force, kind, runVars, syncVars, flagVars, sigVars, confVars, sizeVars,
                   viewVars, ttyVars, endVars>>

ResizeRefresh ==
    /\ mpc = "trSize" /\ seen' = win /\ Goto("trUnlock")
    /\ UNCHANGED <<force, kind, runVars, syncVars, flagVars, sigVars, confVars, win,
                   viewVars, ttyVars, endVars>>
ResizeUnlock ==
    /\ mpc = "trUnlock" /\ Unlock /\ Goto("trLoop")
    /\ UNCHANGED <<force, kind, runVars, syncVars, flagVars, sigVars, file, current, sizeVars,
                   viewVars, ttyVars, endVars>>

\* The loop: while the terminal is too small a message is shown; a terminal
\* that is still changing is waited for.
ResizeLoop ==
    LET small == settings.view = "classic" /\ ~Fits(settings.boxes) IN
    /\ mpc = "trLoop"
    /\ \/ small /\ Goto("trSmall") /\ Output /\ UNCHANGED seen
          /\ drawn' = IF Written THEN Cleared ELSE drawn
       \/ ~small /\ (force \/ win = seen) /\ Return
          /\ UNCHANGED <<seen, drawn, ttyVars, resized>>
       \/ ~small /\ ~force /\ win # seen /\ seen' = win
          /\ UNCHANGED <<mpc, stack, drawn, ttyVars, resized>>
    /\ UNCHANGED <<force, kind, runVars, syncVars, stopping, quitting, sigVars, confVars, win,
                   layout, job, redraw, frame, endVars>>

\* Waiting under the message: for another size, for q, or for a digit that
\* takes boxes away. Signals are not looked at here.
ResizeSmall ==
    LET new == Other(Boxes, current) IN
    /\ mpc = "trSmall"
    /\ \/ /\ win # seen /\ seen' = win /\ Goto("trLoop")
          /\ UNCHANGED <<settings, pending, current, outcome, events>>
       \/ /\ events < MaxEvents /\ events' = events + 1 /\ UNCHANGED seen
          /\ \/ "quit" \in Keys /\ Quit("key") /\ UNCHANGED <<settings, pending, current>>
             \/ "box" \in Keys /\ Goto("trLoop") /\ UNCHANGED outcome
                /\ IF Fits(new) THEN current' = new /\ Set("boxes", new)
                                ELSE UNCHANGED <<settings, pending, current>>
    /\ UNCHANGED <<force, kind, runVars, syncVars, flagVars, sigVars, locked, file, win,
                   viewVars, ttyVars>>

Resize == ResizeEnter \/ ResizeStop \/ ResizeRefresh \/ ResizeUnlock \/ ResizeLoop
-----------------------------------------------------------------------------
(* Runner::run() and Runner::stop()                                        *)

\* Faulty: waits for ever for a runner that hangs.
WaitsForEver ==
    /\ mpc = "run" /\ ~active /\ Goto("runCheck")
    /\ UNCHANGED <<force, kind, runVars, syncVars, flagVars, sigVars, confVars, sizeVars,
                   viewVars, ttyVars, endVars>>

RunWait ==
    /\ mpc = "run"
    /\ \/ ~active /\ Goto("runCheck") /\ UNCHANGED outcome
       \/ active /\ rpc = "stalled" /\ Quit("stalled")
    /\ UNCHANGED <<force, kind, runVars, syncVars, flagVars, sigVars, confVars, sizeVars,
                   viewVars, ttyVars, events>>

RunCheck ==
    /\ mpc = "runCheck"
    /\ IF stopping \/ resized THEN Return
       ELSE Goto(IF kind = "clock" THEN "runClock" ELSE "runPost")
    /\ UNCHANGED <<force, kind, runVars, syncVars, flagVars, sigVars, confVars, sizeVars,
                   viewVars, ttyVars, endVars>>

\* The clock alone is written by main.
RunClock ==
    /\ mpc = "runClock" /\ Output /\ Return
    /\ UNCHANGED <<force, kind, runVars, syncVars, stopping, quitting, sigVars, confVars,
                   sizeVars, viewVars, endVars>>

\* Config::unlock(), Config::lock() and the write to current_conf.
RunUnlocks == CanUnlock /\ settings' = Commit(pending, settings) /\ pending' = Nothing
              /\ locked' = TRUE
RunPost ==
    /\ mpc = "runPost"
    /\ RunUnlocks
    /\ job' = [boxes |-> current, whole |-> kind = "redraw"]
    /\ Goto("runGo")
    /\ UNCHANGED <<force, kind, runVars, syncVars, flagVars, sigVars, file, current, sizeVars,
                   layout, redraw, frame, drawn, ttyVars, endVars>>

\* thread_trigger(), then up to 10 ms for the runner to begin.
RunGo ==
    /\ mpc = "runGo" /\ Trigger /\ Goto("runWait")
    /\ UNCHANGED <<force, kind, runVars, active, mtx, flagVars, sigVars, confVars, sizeVars,
                   viewVars, ttyVars, endVars>>
\* Faulty: returns before the runner has begun.
ReturnsAtOnce ==
    /\ mpc = "runWait" /\ Return
    /\ UNCHANGED <<force, kind, runVars, syncVars, flagVars, sigVars, confVars, sizeVars,
                   viewVars, ttyVars, endVars>>
RunDone ==
    /\ mpc = "runWait" /\ (active \/ ShortWaitOver) /\ Return
    /\ UNCHANGED <<force, kind, runVars, syncVars, flagVars, sigVars, confVars, sizeVars,
                   viewVars, ttyVars, endVars>>

\* try_lock() on the mutex the runner holds while it lives: if main gets it the
\* runner is taken for dead.
StopBegin ==
    /\ mpc = "stop" /\ stopping' = TRUE
    /\ IF mtx = "free"
         THEN mtx' = "main" /\ active' = FALSE /\ Quit("died")
         ELSE Goto("stopWait") /\ UNCHANGED <<mtx, active, outcome>>
    /\ UNCHANGED <<force, kind, runVars, tokens, resized, quitting, sigVars, confVars, sizeVars,
                   viewVars, ttyVars, events>>

\* Faulty: kicks a runner that is still at work, and does not wait for the end.
KicksAtOnce ==
    /\ mpc = "stopWait" /\ Goto("stopKick")
    /\ UNCHANGED <<force, kind, runVars, syncVars, flagVars, sigVars, confVars, sizeVars,
                   viewVars, ttyVars, endVars>>
StopWait ==
    /\ mpc = "stopWait"
    /\ \/ ~active /\ Goto("stopKick") /\ UNCHANGED <<active, outcome>>
       \/ active /\ rpc = "stalled" /\ active' = FALSE /\ Quit("stalled")
    /\ UNCHANGED <<force, kind, runVars, tokens, mtx, flagVars, sigVars, confVars, sizeVars,
                   viewVars, ttyVars, events>>

StopKick ==
    /\ mpc = "stopKick" /\ Trigger /\ Goto("stopArm")
    /\ UNCHANGED <<force, kind, runVars, active, mtx, flagVars, sigVars, confVars, sizeVars,
                   viewVars, ttyVars, endVars>>

\* Faulty: the last trigger is not waited for.
ArmsNothing ==
    /\ mpc = "stopArm" /\ Goto("stopDone")
    /\ UNCHANGED <<force, kind, runVars, syncVars, flagVars, sigVars, confVars, sizeVars,
                   viewVars, ttyVars, endVars>>
\* The two waits of 100 ms: for the runner to begin, and to end.
StopArm ==
    /\ mpc = "stopArm" /\ (active \/ ShortWaitOver) /\ Goto("stopDone")
    /\ UNCHANGED <<force, kind, runVars, syncVars, flagVars, sigVars, confVars, sizeVars,
                   viewVars, ttyVars, endVars>>
StopDone ==
    /\ mpc = "stopDone"
    /\ stopping' = FALSE /\ Return
    /\ UNCHANGED <<force, kind, runVars, syncVars, resized, quitting, sigVars, confVars,
                   sizeVars, viewVars, ttyVars, endVars>>

Calls == RunWait \/ RunCheck \/ RunClock \/ RunPost \/ RunGo \/ RunDone
         \/ StopBegin \/ StopWait \/ StopKick \/ StopArm \/ StopDone
-----------------------------------------------------------------------------
(* _sleep() and clean_quit()                                               *)

\* Term::restore(), which fails if the runner is inside Term::output(); then
\* SIGSTOP for the whole process.
Restore ==
    /\ mpc = "restore" /\ screen' = "restored"
    /\ IF rpc = "writing" THEN Quit("noRestore") ELSE Goto("suspended") /\ UNCHANGED outcome
    /\ UNCHANGED <<force, kind, runVars, syncVars, flagVars, sigVars, confVars, sizeVars,
                   viewVars, blocked, ttyFull, events>>

\* SIGCONT: Term::init() clears the screen, then term_resize(true).
Resume ==
    /\ mpc = "suspended"
    /\ screen' = "raw" /\ seen' = win /\ resized' = FALSE /\ blocked' = ttyFull
    /\ drawn' = IF ttyFull THEN drawn ELSE Cleared
    /\ force' = TRUE /\ Call("tr", "size")
    /\ UNCHANGED <<kind, runVars, syncVars, stopping, quitting, sigVars, confVars, win,
                   layout, job, redraw, frame, ttyFull, endVars>>

QuitBegin ==
    /\ mpc = "quit" /\ Goto("quitRestore")
    /\ quitting' = TRUE /\ stopping' = TRUE /\ Trigger
    /\ UNCHANGED <<force, kind, runVars, active, mtx, resized, sigVars, confVars, sizeVars,
                   viewVars, ttyVars, endVars>>
QuitRestore ==
    /\ mpc = "quitRestore" /\ Goto("join")
    /\ screen' = IF screen = "raw" THEN "restored" ELSE screen
    /\ UNCHANGED <<force, kind, runVars, syncVars, flagVars, sigVars, confVars, sizeVars,
                   viewVars, blocked, ttyFull, endVars>>
\* The runner is joined, or given up after 5 s with _Exit().
CannotEnd == rpc = "stalled" \/ (rpc = "boot" /\ mtx = "main")
Join ==
    /\ mpc = "join"
    /\ \/ rpc = "exited" /\ Goto("save")
       \/ CannotEnd /\ Goto("exited")
    /\ UNCHANGED <<force, kind, runVars, syncVars, flagVars, sigVars, confVars, sizeVars,
                   viewVars, ttyVars, endVars>>
\* Config::write() of the live maps.
Save ==
    /\ mpc = "save" /\ file' = settings /\ Goto("exited")
    /\ UNCHANGED <<force, kind, runVars, syncVars, flagVars, sigVars, locked, settings, pending,
                   current, sizeVars, viewVars, ttyVars, endVars>>

Ending == Restore \/ QuitBegin \/ QuitRestore \/ Join \/ Save
-----------------------------------------------------------------------------
(* The runner thread.                                                      *)

Runs(from, to) ==
    /\ rpc = from /\ rpc' = to /\ mpc \notin {"suspended", "exited"}
    /\ UNCHANGED <<mpc, callVars, quitting, sigVars, confVars, sizeVars, layout, job,
                   ttyFull, endVars>>
Quiet == UNCHANGED <<threadExc, faults, active, tokens, mtx, stopping, resized, shown>>
Fault == faults < MaxFaults /\ faults' = faults + 1

RunnerBoot ==
    /\ Runs("boot", "top") /\ mtx = "free" /\ mtx' = "runner"
    /\ UNCHANGED <<threadExc, faults, active, tokens, stopping, resized, shown>>
RunnerTop ==
    \/ Runs("top", "idle") /\ ~quitting /\ Quiet
    \/ Runs("top", "exited") /\ quitting /\ mtx' = "free"
       /\ UNCHANGED <<threadExc, faults, active, tokens, stopping, resized, shown>>
RunnerAcquire ==
    /\ Runs("idle", "woken") /\ tokens > 0 /\ tokens' = tokens - 1
    /\ UNCHANGED <<threadExc, faults, active, mtx, stopping, resized, shown>>
RunnerCheck ==
    \/ Runs("woken", "top") /\ ~active /\ (stopping \/ resized) /\ Quiet
    \/ Runs("woken", "pass") /\ ~active /\ ~stopping /\ ~resized /\ Quiet
RunnerActivate ==
    /\ Runs("pass", "collect") /\ active' = TRUE
    /\ UNCHANGED <<threadExc, faults, tokens, mtx, stopping, resized, shown>>

\* The guard of active is released on every way out of the loop body.
Leaves(from) == Runs(from, "top") /\ active' = FALSE /\ UNCHANGED <<tokens, mtx>>

RunnerCollect ==
    \/ Runs("collect", "draw") /\ (settings.view = "ml" \/ ~resized) /\ Quiet
    \/ Leaves("collect") /\ settings.view = "classic" /\ resized
       /\ UNCHANGED <<threadExc, faults, stopping, resized, shown>>
\* The boxes draw themselves, whole if they were laid out anew or the job says
\* so; main may have asked the runner to stop meanwhile, and the frame is lost.
Drawn == frame' = (redraw \/ job.whole) /\ redraw' = FALSE
         /\ UNCHANGED <<threadExc, faults, stopping, resized, drawn, screen, blocked>>
RunnerStopped == Leaves("draw") /\ stopping /\ Drawn
RunnerDraw == Runs("draw", "output") /\ ~stopping /\ Drawn /\ UNCHANGED <<active, tokens, mtx>>
\* Term::output(): nothing is written to a terminal that has been restored;
\* else the output mutex is taken and the frame written.
RunnerOutput ==
    \/ Runs("output", "writing") /\ screen = "raw" /\ Quiet
    \/ Leaves("output") /\ screen # "raw"
       /\ UNCHANGED <<threadExc, faults, stopping, resized, shown>>
\* A whole frame: the classic view draws the boxes of the job where they were laid
\* out, the ML view fits itself to the terminal.
Shot(s, l, j, size) ==
    IF s.view = "ml" THEN [size |-> size, boxes |-> s.boxes, sort |-> s.sort, view |-> "ml"]
            ELSE [size |-> l.size, boxes |-> j.boxes, sort |-> s.sort, view |-> "classic"]
\* A restore that found the mutex taken has been written into the frame: what
\* is left of the frame then goes to the restored terminal.
RunnerWrite ==
    /\ Leaves("writing")
    /\ screen' \in {screen} \cup (IF screen = "restored" /\ Written THEN {"spoilt"} ELSE {})
    /\ blocked' = ttyFull /\ resized' = (resized \/ (blocked /\ ~ttyFull))
    /\ drawn' = IF ~Written THEN drawn
                ELSE IF settings.view = "classic" /\ ~frame THEN [drawn EXCEPT !.sort = settings.sort]
                ELSE Shot(settings, layout, job, seen)
    /\ UNCHANGED <<threadExc, faults, stopping, redraw, frame>>

\* The number of cores changed; an exception; a collector that hangs, perhaps
\* for ever.
CoresChanged ==
    Leaves("collect") /\ Fault /\ resized' = TRUE /\ UNCHANGED <<threadExc, stopping, shown>>
Throws ==
    /\ Leaves("collect") /\ Fault
    /\ threadExc' = TRUE /\ stopping' = TRUE /\ UNCHANGED <<resized, shown>>
Stalls ==
    /\ Runs("collect", "stalled") /\ Fault
    /\ UNCHANGED <<threadExc, active, tokens, mtx, stopping, resized, shown>>
Unstalls == Runs("stalled", "draw") /\ Quiet

RunnerStep == RunnerBoot \/ RunnerTop \/ RunnerAcquire \/ RunnerCheck \/ RunnerActivate
              \/ RunnerCollect \/ RunnerStopped \/ RunnerDraw \/ RunnerOutput \/ RunnerWrite
RunnerFails == CoresChanged \/ Throws \/ Stalls \/ Unstalls
-----------------------------------------------------------------------------
(* The user, the system and the terminal.                                  *)

Happens == events < MaxEvents /\ events' = events + 1
World == UNCHANGED <<mpc, callVars, runVars, syncVars, flagVars, flags, confVars, seen,
                     viewVars, screen, blocked, outcome>> /\ ~quitting

Signalled == \E s \in Signals : Happens /\ pend' = pend \cup {s} /\ UNCHANGED <<win, ttyFull>> /\ World
\* The terminal changes its size and SIGWINCH is sent. That it is made larger again
\* under the message does not count as an event.
Resizes ==
    /\ \E s \in Sizes \ {win} : win' = s
    /\ pend' = pend \cup ({"resize"} \cap Signals)
    /\ IF mpc = "trSmall" /\ win' > win THEN UNCHANGED events ELSE Happens
    /\ UNCHANGED ttyFull /\ World
\* The reader of the terminal falls behind, and catches up.
TtyFills  == ~ttyFull /\ ttyFull' = TRUE /\ Happens /\ UNCHANGED <<win, pend>> /\ World
TtyDrains == ttyFull /\ ttyFull' = FALSE /\ UNCHANGED <<win, pend, events>> /\ World

\* The process is gone, or waits for the user under the message of a terminal
\* that is too small.
Ended == (mpc = "exited" \/ (mpc = "trSmall" /\ win = seen)) /\ UNCHANGED vars

MainStep == MainLoop \/ Resize \/ Calls \/ Ending
Next ==
    \/ MainStep \/ TimerDue \/ Key \/ ResizeSmall \/ Resume
    \/ RunnerStep \/ RunnerFails
    \/ Signalled \/ Resizes \/ TtyFills \/ TtyDrains \/ Ended

Spec == Init /\ [][Next]_vars

\* Both threads are scheduled; update_ms goes by again and again; under the
\* message of a terminal that is too small main looks at the size every 10 ms;
\* a suspended process is continued some day. Nothing is assumed of keys,
\* signals, faults, or of the end of a hang.
FairSpec ==
    /\ Spec
    /\ WF_vars(MainStep) /\ WF_vars(RunnerStep) /\ SF_vars(TimerDue)
    /\ WF_vars(ResizeSmall /\ events' = events) /\ WF_vars(Resume)
-----------------------------------------------------------------------------
(* Safety.                                                                 *)

\* What the runner reads while it collects and draws does not change under it, and
\* what it puts on the screen is what those settings, that layout and that job
\* describe: to main the runner is one atomic job, although it draws in six steps
\* while keys, signals and resizes go on (run(), calcSizes(), Config::unlock() and
\* the key handlers wait for it; the refinement replaces the waiting by atomicity).
Rendered(in, old) ==
    {[old EXCEPT !.sort = in.settings.sort], Shot(in.settings, in.layout, in.job, in.seen)}
Job == INSTANCE DrawSlot WITH
    Render  <- Rendered,
    busy    <- rpc \in Working,
    inputs  <- [settings |-> settings, layout |-> layout, job |-> job, seen |-> seen],
    picture <- drawn
ImplementsDrawSlot == Job!Spec

\* The semaphore never holds more than the two permits it is declared for
\* (std::counting_semaphore<2>; a release beyond that is undefined).
SemaphoreBounded == tokens <= 2

\* When stop() returns the runner is at rest and no trigger is left over: what
\* follows, the resize or the suspend, meets no late draw.
StopQuiesces ==
    [][mpc = "stopDone" /\ mpc' # "stopDone" => rpc \notin Working /\ tokens = 0]_vars

\* A suspend never ends the process because a frame is just being written.
SuspendNeverQuits == outcome # "noRestore"

\* The boxes the runner collects and draws are the boxes that were laid out.
DrawsLaidOutBoxes == settings.view = "classic" /\ rpc \in Working => job.boxes = layout.boxes

-----------------------------------------------------------------------------
(* Liveness.                                                               *)

\* A termination signal, once raised, and an exception of the runner end the process,
\* although a collector hangs (run(), stop() and clean_quit() give up) and although
\* stop(), a suspend and a reload clear flags of their own on the way. Main does not
\* look at them in two places: the layout of new boxes waits without a time-out for a
\* runner that hangs (atomic_wait() in calcSizes() and for a digit), and the loop under
\* the message of a terminal that is too small looks at the size and at keys only. The
\* end comes once main has left these.
AskedToEnd == "quit" \in pend \cup flags \/ threadExc
HeldByHang == rpc = "stalled" /\ mpc \in {"keyBox", "calc"}
HeldByMessage == mpc = "trSmall"
QuitHonoured == AskedToEnd ~> (mpc = "exited" \/ HeldByHang \/ HeldByMessage)

\* The screen comes to show the current size and the latest settings, through
\* coinciding resizes, keys, suspends, dropped frames and core changes.
ShowsLatest ==
    []<>(\/ quitting \/ mpc \in {"suspended", "trSmall"} \/ ttyFull \/ rpc = "stalled"
         \/ pending = Nothing /\ drawn = [size |-> win, boxes |-> settings.boxes,
                                          sort |-> settings.sort, view |-> settings.view])
=============================================================================
