---------------------------- MODULE Runner_proofs ----------------------------
(***************************************************************************)
(* The two threads of the monitor: types, the stack of main, and, when the *)
(* runner is scheduled within the short waits, the handshake between main  *)
(* and the runner with what follows from it.                               *)
(***************************************************************************)
EXTENDS Runner, SequenceTheorems, TLAPS

RunLabels  == {"run", "runCheck", "runClock", "runPost", "runGo", "runWait"}
StopLabels == {"stop", "stopWait", "stopKick", "stopArm", "stopDone"}
TrLabels   == {"tr", "trStop", "trSize", "trUnlock", "trLoop", "trSmall"}
CalcLabels == {"calc", "calcBody"}
EndLabels  == {"quit", "quitRestore", "join", "save", "exited"}
Called     == RunLabels \cup StopLabels \cup TrLabels \cup CalcLabels

RunBacks == {"clock", "timer", "input", "keyCpu"}
TrBacks  == {"redraw", "size"}

\* Who waits for whom: the stack in each function. On the way out it no longer matters.
Framed ==
    /\ mpc \in RunLabels => \E x \in RunBacks : stack = <<x>>
    /\ mpc \in CalcLabels => \E x \in {"fresh", "keyRun"} : stack = <<x>>
    /\ mpc \in TrLabels => \E x \in TrBacks : stack = <<x>>
    /\ mpc \in StopLabels => \/ \E x \in {"restore", "reload"} : stack = <<x>>
                             \/ \E x \in TrBacks : stack = <<"trSize", x>>
    /\ mpc \in MainLabels \ (Called \cup EndLabels) => stack = <<>>

LEMMA Singles ==
    ASSUME NEW x, NEW y
    PROVE  /\ <<x>> \o <<>> = <<x>> /\ <<x>> \o <<y>> = <<x, y>>
           /\ Head(<<x>>) = x /\ Tail(<<x>>) = <<>>
           /\ Head(<<x, y>>) = x /\ Tail(<<x, y>>) = <<y>>
<1>1. <<x>> \in Seq({x, y}) /\ <<y>> \in Seq({x, y})
  OBVIOUS
<1>2. <<x>> \o <<>> = <<x>>
  BY <1>1, ConcatEmptySeq
<1>3. <<x>> \o <<y>> = <<x, y>>
  <2> DEFINE both == <<x>> \o <<y>>
  <2>1. /\ both \in Seq({x, y}) /\ Len(both) = Len(<<x>>) + Len(<<y>>)
        /\ \A i \in 1..Len(<<x>>) + Len(<<y>>) :
              both[i] = IF i <= Len(<<x>>) THEN <<x>>[i] ELSE <<y>>[i - Len(<<x>>)]
    BY <1>1, ConcatProperties
  <2>2. Len(<<x>>) = 1 /\ Len(<<y>>) = 1 /\ <<x>>[1] = x /\ <<y>>[1] = y
    OBVIOUS
  <2> HIDE DEF both
  <2>3. both \in [1..2 -> {x, y}] /\ both[1] = x /\ both[2] = y
    BY <2>1, <2>2
  <2> DEFINE pair == <<x, y>>
  <2>4. pair \in [1..2 -> {x, y}] /\ pair[1] = x /\ pair[2] = y
    OBVIOUS
  <2> HIDE DEF pair
  <2>5. \A i \in 1..2 : both[i] = pair[i]
    BY <2>3, <2>4
  <2>6. both = pair
    BY <2>3, <2>4, <2>5
  <2> QED
    BY <2>6 DEF both, pair
<1>4. Head(<<x>>) = x /\ Head(<<x, y>>) = x
  OBVIOUS
<1>5. Tail(<<x>>) = <<>>
  OBVIOUS
<1>6. Tail(<<x, y>>) = <<y>>
  OBVIOUS
<1> QED
  BY <1>2, <1>3, <1>4, <1>5, <1>6

LEMMA Returns ==
    ASSUME Framed, Return
    PROVE  /\ mpc \in RunLabels => mpc' \in RunBacks /\ stack' = <<>>
           /\ mpc \in CalcLabels => mpc' \in {"fresh", "keyRun"} /\ stack' = <<>>
           /\ mpc \in TrLabels => mpc' \in TrBacks /\ stack' = <<>>
           /\ mpc \in StopLabels => \/ mpc' \in {"restore", "reload"} /\ stack' = <<>>
                                    \/ mpc' = "trSize" /\ \E x \in TrBacks : stack' = <<x>>
<1>1. mpc' = Head(stack) /\ stack' = Tail(stack)
  BY DEF Return
<1>2. ASSUME NEW x, stack = <<x>>
      PROVE  mpc' = x /\ stack' = <<>>
  BY <1>1, <1>2, Singles
<1>3. ASSUME NEW x, stack = <<"trSize", x>>
      PROVE  mpc' = "trSize" /\ stack' = <<x>>
  BY <1>1, <1>3, Singles
<1> QED
  BY <1>2, <1>3 DEF Framed

LEMMA Called1 ==
    ASSUME stack = <<>>, NEW l, NEW b, Call(l, b)
    PROVE  mpc' = l /\ stack' = <<b>>
BY Singles DEF Call

LEMMA Others ==
    ASSUME NEW x
    PROVE  Other(Boxes, x) \in Boxes /\ Other(Sorts, x) \in Sorts /\ Other(Views, x) \in Views
<1>1. \A S : (\E y \in S : y # x) => Other(S, x) \in S
  BY DEF Other
<1>2. \E y \in Boxes : y # x
  BY DEF Boxes
<1>3. \E y \in Sorts : y # x
  BY DEF Sorts
<1>4. \E y \in Views : y # x
  BY DEF Views
<1> QED
  BY <1>1, <1>2, <1>3, <1>4

Pendings == [boxes : Boxes \cup {None}, sort : Sorts \cup {None}, view : Views \cup {None}]

LEMMA Committed ==
    ASSUME NEW s \in Settings, NEW p \in Pendings
    PROVE  Commit(p, s) \in Settings
BY DEF Commit, Settings, Pendings
\* The places between the functions, and the way out.
Between == MainLabels \ (Called \cup EndLabels)

\* Framed' from what a step does to place and stack.
Lands ==
    \/ mpc' \in Between /\ stack' = <<>>
    \/ mpc' \in RunLabels /\ \E x \in RunBacks : stack' = <<x>>
    \/ mpc' \in CalcLabels /\ \E x \in {"fresh", "keyRun"} : stack' = <<x>>
    \/ mpc' \in TrLabels /\ \E x \in TrBacks : stack' = <<x>>
    \/ mpc' \in StopLabels /\ \E x \in {"restore", "reload"} : stack' = <<x>>
    \/ mpc' \in StopLabels /\ \E x \in TrBacks : stack' = <<"trSize", x>>
    \/ mpc' \in EndLabels /\ UNCHANGED stack

LEMMA Landed ==
    ASSUME stack \in Seq(MainLabels), Lands
    PROVE  Framed' /\ mpc' \in MainLabels /\ stack' \in Seq(MainLabels)
<1>1. \A x \in MainLabels : <<x>> \in Seq(MainLabels) /\ <<"trSize", x>> \in Seq(MainLabels)
  BY DEF MainLabels
<1>2. <<>> \in Seq(MainLabels)
  OBVIOUS
<1> USE DEF Lands, Framed, Between, RunLabels, StopLabels, TrLabels, CalcLabels, EndLabels, Called,
            RunBacks, TrBacks
<1>3. mpc' \in MainLabels
  BY DEF MainLabels
<1>4. stack' \in Seq(MainLabels)
  <2>1. \/ stack' = <<>> \/ stack' = stack
        \/ \E x \in MainLabels : stack' = <<x>> \/ stack' = <<"trSize", x>>
    BY DEF MainLabels
  <2> QED
    BY <1>1, <1>2, <2>1
<1>5. Framed'
  BY DEF MainLabels
<1> QED
  BY <1>3, <1>4, <1>5

\* The main thread keeps to its stack.
LEMMA MainLands ==
    ASSUME TypeOK, Framed, MainStep \/ TimerDue \/ Key \/ ResizeSmall \/ Resume
    PROVE  Lands
<1> USE DEF Framed, Lands, Between, RunLabels, StopLabels, TrLabels, CalcLabels, EndLabels, Called,
            RunBacks, TrBacks, MainLabels, Goto, Quit
<1>1. CASE Dispatch
  <2>1. mpc = "loop" /\ stack = <<>>
    BY <1>1 DEF Dispatch
  <2> QED
    BY <1>1, <2>1, Called1 DEF Dispatch
<1>2. CASE Reload \/ NotDue
  BY <1>2 DEF Reload, NotDue
<1>3. CASE CheckSize \/ Redraw \/ Fresh \/ Clock \/ TimerDue
  <2>1. mpc \in {"size", "redraw", "fresh", "clock", "timer"} /\ stack = <<>>
    BY <1>3 DEF CheckSize, Redraw, Fresh, Clock, TimerDue
  <2> QED
    BY <1>3, <2>1, Called1 DEF CheckSize, Redraw, Fresh, Clock, TimerDue
<1>4. CASE Key
  BY <1>4 DEF Key
<1>5. CASE KeySet \/ KeyBox \/ KeyView \/ KeyRun
  <2>1. mpc \in {"keySet", "keyBox", "keyView", "keyRun", "keyCpu"} /\ stack = <<>>
    BY <1>5 DEF KeySet, KeyBox, KeyView, KeyRun
  <2> QED
    BY <1>5, <2>1, Called1 DEF KeySet, KeyBox, KeyView, KeyRun
<1>6. CASE Calc \/ CalcBody
  BY <1>6, Returns DEF Calc, CalcBody
<1>7. CASE ResizeEnter \/ ResizeRefresh \/ ResizeUnlock \/ ResizeLoop \/ ResizeSmall
  BY <1>7, Returns DEF ResizeEnter, ResizeRefresh, ResizeUnlock, ResizeLoop, ResizeSmall
<1>8. CASE ResizeStop
  <2>1. PICK x \in TrBacks : stack = <<x>>
    BY <1>8 DEF ResizeStop
  <2> QED
    BY <1>8, <2>1, Singles DEF ResizeStop, Call
<1>9. CASE RunWait \/ RunCheck \/ RunClock \/ RunPost \/ RunGo \/ RunDone
  BY <1>9, Returns DEF RunWait, RunCheck, RunClock, RunPost, RunGo, RunDone
<1>10. CASE StopBegin \/ StopWait \/ StopKick \/ StopArm \/ StopDone
  BY <1>10, Returns DEF StopBegin, StopWait, StopKick, StopArm, StopDone
<1>11. CASE Ending
  BY <1>11 DEF Ending, Restore, QuitBegin, QuitRestore, Join, Save
<1>12. CASE Resume
  <2>1. mpc = "suspended" /\ stack = <<>>
    BY <1>12 DEF Resume
  <2> QED
    BY <1>12, <2>1, Called1 DEF Resume
<1> QED
  BY <1>1, <1>2, <1>3, <1>4, <1>5, <1>6, <1>7, <1>8, <1>9, <1>10, <1>11, <1>12
  DEF MainStep, MainLoop, Resize, Calls

\* The runner and the world leave main where it is.
LEMMA OthersStay ==
    ASSUME \/ RunnerStep \/ RunnerFails \/ Signalled \/ Resizes \/ TtyFills \/ TtyDrains \/ Ended
           \/ UNCHANGED vars
    PROVE  UNCHANGED <<mpc, stack>>
BY DEF RunnerStep, RunnerFails, RunnerBoot, RunnerTop, RunnerAcquire, RunnerCheck, RunnerActivate,
   RunnerCollect, RunnerStopped, RunnerDraw, RunnerOutput, RunnerWrite, CoresChanged, Throws, Stalls,
   Unstalls, Leaves, Runs, Signalled, Resizes, TtyFills, TtyDrains, World, Ended, vars, callVars

LEMMA FramedKept ==
    ASSUME TypeOK, Framed, [Next]_vars
    PROVE  Framed' /\ mpc' \in MainLabels /\ stack' \in Seq(MainLabels)
<1>1. CASE MainStep \/ TimerDue \/ Key \/ ResizeSmall \/ Resume
  <2>1. stack \in Seq(MainLabels)
    BY DEF TypeOK
  <2> QED
    BY <1>1, <2>1, MainLands, Landed
<1>2. CASE UNCHANGED <<mpc, stack>>
  BY <1>2 DEF TypeOK, Framed
<1> QED
  BY <1>1, <1>2, OthersStay DEF Next

LEMMA SetTyped ==
    ASSUME settings \in Settings, pending \in Pendings,
           NEW key \in {"boxes", "sort", "view"}, NEW value,
           key = "boxes" => value \in Boxes, key = "sort" => value \in Sorts,
           key = "view" => value \in Views, Set(key, value)
    PROVE  settings' \in Settings /\ pending' \in Pendings
BY DEF Set, Settings, Pendings

LEMMA NothingPends == Nothing \in Pendings
BY DEF Nothing, Pendings

LEMMA UnlockTyped ==
    ASSUME settings \in Settings, pending \in Pendings, Unlock
    PROVE  settings' \in Settings /\ pending' \in Pendings /\ locked' \in BOOLEAN
BY Committed, NothingPends DEF Unlock

Booleans ==
    /\ force \in BOOLEAN /\ active \in BOOLEAN /\ threadExc \in BOOLEAN /\ locked \in BOOLEAN
    /\ stopping \in BOOLEAN /\ resized \in BOOLEAN /\ quitting \in BOOLEAN
    /\ redraw \in BOOLEAN /\ frame \in BOOLEAN /\ blocked \in BOOLEAN /\ ttyFull \in BOOLEAN

Values ==
    /\ mpc \in MainLabels /\ rpc \in RunnerLabels
    /\ stack \in Seq(MainLabels) /\ kind \in {"all", "redraw", "clock"}
    /\ tokens \in 0..MaxTokens /\ mtx \in {"free", "runner", "main"}
    /\ pend \subseteq Signals /\ flags \subseteq {"quit", "sleep", "reload"}
    /\ settings \in Settings /\ file \in Settings /\ current \in Boxes /\ pending \in Pendings
    /\ win \in Sizes /\ seen \in Sizes
    /\ layout \in [size : Sizes, boxes : Boxes] /\ drawn \in Screens
    /\ job \in [boxes : Boxes, whole : BOOLEAN]
    /\ screen \in {"raw", "restored", "spoilt"}
    /\ outcome \in {"running", "key", "signal", "exception", "stalled", "died", "noRestore"}
    /\ events \in 0..MaxEvents /\ faults \in 0..MaxFaults

LEMMA Parts == TypeOK <=> Booleans /\ Values
BY DEF TypeOK, Booleans, Values, Pendings

LEMMA PartsAfter == TypeOK' <=> Booleans' /\ Values'
BY DEF TypeOK, Booleans, Values, Pendings

bools == <<force, active, threadExc, locked, stopping, resized, quitting, redraw, frame, blocked,
           ttyFull>>

LEMMA BooleansKept ==
    ASSUME Booleans, [Next]_vars
    PROVE  Booleans'
<1> USE DEF Booleans, callVars, runVars, syncVars, flagVars, sigVars, confVars, sizeVars, viewVars,
            ttyVars, endVars
<1>1. CASE Dispatch
  BY <1>1, Zenon DEF Dispatch, TakeSignals
<1>2. CASE Reload
  BY <1>2, Zenon DEF Reload
<1>3. CASE CheckSize
  BY <1>3, Zenon DEF CheckSize
<1>4. CASE Redraw
  BY <1>4, Zenon DEF Redraw
<1>5. CASE Fresh
  BY <1>5, Zenon DEF Fresh
<1>6. CASE Clock
  BY <1>6, Zenon DEF Clock
<1>7. CASE TimerDue
  BY <1>7, Zenon DEF TimerDue
<1>8. CASE NotDue
  BY <1>8, Zenon DEF NotDue
<1>9. CASE Key
  BY <1>9, Zenon DEF Key, Unlock
<1>10. CASE KeySet
  BY <1>10, Zenon DEF KeySet
<1>11. CASE KeyBox
  BY <1>11, Zenon DEF KeyBox
<1>12. CASE KeyView
  BY <1>12, Zenon DEF KeyView
<1>13. CASE KeyRun
  BY <1>13, Zenon DEF KeyRun
<1>14. CASE Calc
  BY <1>14, Zenon DEF Calc, Unlock
<1>15. CASE CalcBody
  BY <1>15, Zenon DEF CalcBody
<1>16. CASE ResizeEnter
  BY <1>16, Zenon DEF ResizeEnter
<1>17. CASE ResizeStop
  BY <1>17, Zenon DEF ResizeStop
<1>18. CASE ResizeRefresh
  BY <1>18, Zenon DEF ResizeRefresh
<1>19. CASE ResizeUnlock
  BY <1>19, Zenon DEF ResizeUnlock, Unlock
<1>20. CASE ResizeLoop
  BY <1>20, Zenon, SMTT(30) DEF ResizeLoop, Output
<1>21. CASE ResizeSmall
  BY <1>21, Zenon DEF ResizeSmall
<1>22. CASE RunWait
  BY <1>22, Zenon DEF RunWait
<1>23. CASE RunCheck
  BY <1>23, Zenon DEF RunCheck
<1>24. CASE RunClock
  BY <1>24, Zenon DEF RunClock, Output
<1>25. CASE RunPost
  BY <1>25, Zenon DEF RunPost, RunUnlocks
<1>26. CASE RunGo
  BY <1>26, Zenon DEF RunGo
<1>27. CASE RunDone
  BY <1>27, Zenon DEF RunDone
<1>28. CASE StopBegin
  BY <1>28, Zenon DEF StopBegin
<1>29. CASE StopWait
  BY <1>29, Zenon DEF StopWait
<1>30. CASE StopKick
  BY <1>30, Zenon DEF StopKick
<1>31. CASE StopArm
  BY <1>31, Zenon DEF StopArm
<1>32. CASE StopDone
  BY <1>32, Zenon DEF StopDone
<1>33. CASE Restore
  BY <1>33, Zenon DEF Restore
<1>34. CASE QuitBegin
  BY <1>34, Zenon DEF QuitBegin
<1>35. CASE QuitRestore
  BY <1>35, Zenon DEF QuitRestore
<1>36. CASE Join
  <2>1. UNCHANGED bools
    BY <1>36 DEF bools, Join
  <2> QED
    BY <2>1, Zenon DEF bools
<1>37. CASE Save
  <2>1. UNCHANGED bools
    BY <1>37 DEF bools, Save
  <2> QED
    BY <2>1, Zenon DEF bools
<1>38. CASE Resume
  BY <1>38, Zenon DEF Resume
<1>39. CASE RunnerBoot
  <2>1. UNCHANGED bools
    BY <1>39 DEF bools, RunnerBoot, Runs, Quiet, shown
  <2> QED
    BY <2>1, Zenon DEF bools
<1>40. CASE RunnerTop
  <2>1. UNCHANGED bools
    BY <1>40 DEF bools, RunnerTop, Runs, Quiet, shown
  <2> QED
    BY <2>1, Zenon DEF bools
<1>41. CASE RunnerAcquire
  <2>1. UNCHANGED bools
    BY <1>41 DEF bools, RunnerAcquire, Runs, Quiet, shown
  <2> QED
    BY <2>1, Zenon DEF bools
<1>42. CASE RunnerCheck
  <2>1. UNCHANGED bools
    BY <1>42 DEF bools, RunnerCheck, Runs, Quiet, shown
  <2> QED
    BY <2>1, Zenon DEF bools
<1>43. CASE RunnerActivate
  BY <1>43, Zenon DEF RunnerActivate, Runs, shown
<1>44. CASE RunnerCollect \/ RunnerOutput
  <2>1. UNCHANGED <<force, threadExc, locked, stopping, resized, quitting, redraw, frame, blocked,
    ttyFull>>
    BY <1>44 DEF RunnerCollect, RunnerOutput, Leaves, Runs, Quiet, shown
  <2>2. UNCHANGED active \/ active' = FALSE
    BY <1>44 DEF RunnerCollect, RunnerOutput, Leaves, Runs, Quiet, shown
  <2> QED
    BY <2>1, <2>2, Zenon
<1>45. CASE RunnerStopped
  BY <1>45, Zenon DEF RunnerStopped, Drawn, Leaves, Runs
<1>46. CASE RunnerDraw
  BY <1>46, Zenon DEF RunnerDraw, Drawn, Runs
<1>47. CASE RunnerWrite
  BY <1>47, Zenon DEF RunnerWrite, Leaves, Runs
<1>48. CASE CoresChanged
  BY <1>48, Zenon DEF CoresChanged, Leaves, Runs, shown
<1>49. CASE Throws
  BY <1>49, Zenon DEF Throws, Leaves, Runs, shown
<1>50. CASE Stalls
  <2>1. UNCHANGED bools
    BY <1>50 DEF bools, Stalls, Runs, shown
  <2> QED
    BY <2>1, Zenon DEF bools
<1>51. CASE Unstalls
  <2>1. UNCHANGED bools
    BY <1>51 DEF bools, Unstalls, Runs, Quiet, shown
  <2> QED
    BY <2>1, Zenon DEF bools
<1>52. CASE Signalled
  BY <1>52, Zenon DEF Signalled, World, Happens
<1>53. CASE Resizes
  BY <1>53, Zenon DEF Resizes, World, Happens
<1>54. CASE TtyFills
  BY <1>54, Zenon DEF TtyFills, World, Happens
<1>55. CASE TtyDrains
  BY <1>55, Zenon DEF TtyDrains, World, Happens
<1>56. CASE Ended \/ UNCHANGED vars
  <2>1. UNCHANGED bools
    BY <1>56 DEF bools, Ended, vars
  <2> QED
    BY <2>1, Zenon DEF bools
<1> QED
  BY <1>1, <1>2, <1>3, <1>4, <1>5, <1>6, <1>7, <1>8, <1>9, <1>10, <1>11, <1>12, <1>13, <1>14,
     <1>15, <1>16, <1>17, <1>18, <1>19, <1>20, <1>21, <1>22, <1>23, <1>24, <1>25, <1>26, <1>27,
     <1>28, <1>29, <1>30, <1>31, <1>32, <1>33, <1>34, <1>35, <1>36, <1>37, <1>38, <1>39, <1>40,
     <1>41, <1>42, <1>43, <1>44, <1>45, <1>46, <1>47, <1>48, <1>49, <1>50, <1>51, <1>52, <1>53,
     <1>54, <1>55, <1>56
  DEF Next, MainStep, MainLoop, Resize, Calls, Ending, RunnerStep, RunnerFails

LEMMA ClearedTyped ==
    ASSUME drawn \in Screens
    PROVE  Cleared \in Screens
BY DEF Cleared, Screens

LEMMA ShotTyped ==
    ASSUME Values
    PROVE  Shot(settings, layout, job, seen) \in Screens /\ [drawn EXCEPT !.sort = settings.sort] \in Screens
<1>1. CASE settings.view = "ml"
  BY <1>1 DEF Shot, Values, Screens, Settings, Views
<1>2. CASE settings.view = "classic"
  BY <1>2 DEF Shot, Values, Screens, Settings, Views
<1> QED
  BY <1>1, <1>2 DEF Values, Settings, Views

LEMMA ValuesKept ==
    ASSUME TypeOK, Values, Framed, [Next]_vars
    PROVE  Values'
<1> USE RunnerAssumption DEF Values, Goto, Quit, callVars, runVars, syncVars, flagVars, sigVars,
            confVars, sizeVars, viewVars, ttyVars, endVars
<1>0. mpc' \in MainLabels /\ stack' \in Seq(MainLabels)
  BY FramedKept
<1>1. CASE Dispatch
  BY <1>1, <1>0, ZenonT(30) DEF Dispatch, TakeSignals
<1>2. CASE Reload
  BY <1>2, <1>0, NothingPends DEF Reload
<1>3. CASE CheckSize
  BY <1>3, <1>0 DEF CheckSize
<1>4. CASE Redraw
  BY <1>4, <1>0 DEF Redraw
<1>5. CASE Fresh
  BY <1>5, <1>0 DEF Fresh
<1>6. CASE Clock
  BY <1>6, <1>0 DEF Clock
<1>7. CASE TimerDue
  BY <1>7, <1>0 DEF TimerDue
<1>8. CASE NotDue
  BY <1>8, <1>0 DEF NotDue
<1>9. CASE Key
  BY <1>9, <1>0, UnlockTyped DEF Key
<1>10. CASE KeySet
  BY <1>10, <1>0, SetTyped, Others DEF KeySet
<1>11. CASE KeyBox
  BY <1>11, <1>0, SetTyped, Others DEF KeyBox
<1>12. CASE KeyView
  BY <1>12, <1>0, SetTyped, Others DEF KeyView
<1>13. CASE KeyRun
  BY <1>13, <1>0 DEF KeyRun
<1>14. CASE Calc
  BY <1>14, <1>0, UnlockTyped DEF Calc
<1>15. CASE CalcBody
  BY <1>15, <1>0 DEF CalcBody, Settings
<1>16. CASE ResizeEnter
  BY <1>16, <1>0 DEF ResizeEnter
<1>17. CASE ResizeStop
  BY <1>17, <1>0 DEF ResizeStop
<1>18. CASE ResizeRefresh
  BY <1>18, <1>0 DEF ResizeRefresh
<1>19. CASE ResizeUnlock
  BY <1>19, <1>0, UnlockTyped DEF ResizeUnlock
<1>20. CASE ResizeLoop
  <2>1. drawn' \in Screens
    BY <1>20, ClearedTyped DEF ResizeLoop
  <2> QED
    BY <1>0, <1>20, <2>1 DEF ResizeLoop, Output
<1>21. CASE ResizeSmall
  BY <1>21, <1>0, SetTyped, Others DEF ResizeSmall
<1>22. CASE RunWait
  BY <1>22, <1>0 DEF RunWait
<1>23. CASE RunCheck
  BY <1>23, <1>0 DEF RunCheck
<1>24. CASE RunClock
  BY <1>24, <1>0 DEF RunClock, Output
<1>25. CASE RunPost
  BY <1>25, <1>0, Committed, NothingPends DEF RunPost, RunUnlocks
<1>26. CASE RunGo
  BY <1>26, <1>0 DEF RunGo, Trigger
<1>27. CASE RunDone
  BY <1>27, <1>0 DEF RunDone
<1>28. CASE StopBegin
  BY <1>28, <1>0 DEF StopBegin
<1>29. CASE StopWait
  BY <1>29, <1>0 DEF StopWait
<1>30. CASE StopKick
  BY <1>30, <1>0 DEF StopKick, Trigger
<1>31. CASE StopArm
  BY <1>31, <1>0 DEF StopArm
<1>32. CASE StopDone
  BY <1>32, <1>0 DEF StopDone
<1>33. CASE Restore
  BY <1>33, <1>0 DEF Restore
<1>34. CASE QuitBegin
  BY <1>34, <1>0 DEF QuitBegin, Trigger
<1>35. CASE QuitRestore
  BY <1>35, <1>0 DEF QuitRestore
<1>36. CASE Join
  BY <1>36, <1>0 DEF Join
<1>37. CASE Save
  BY <1>37, <1>0 DEF Save
<1>38. CASE Resume
  BY <1>38, <1>0, ClearedTyped DEF Resume
<1>39. CASE RunnerBoot
  BY <1>39, <1>0 DEF RunnerBoot, Runs, Quiet, shown, RunnerLabels, Working
<1>40. CASE RunnerTop
  BY <1>40, <1>0, ZenonT(30) DEF RunnerTop, Runs, Quiet, shown, RunnerLabels, Working
<1>41. CASE RunnerAcquire
  BY <1>41, <1>0 DEF RunnerAcquire, Runs, Quiet, shown, RunnerLabels, Working
<1>42. CASE RunnerCheck
  BY <1>42, <1>0, ZenonT(30) DEF RunnerCheck, Runs, Quiet, shown, RunnerLabels, Working
<1>43. CASE RunnerActivate
  BY <1>43, <1>0 DEF RunnerActivate, Runs, Quiet, shown, RunnerLabels, Working
<1>44. CASE RunnerCollect \/ RunnerOutput
  <2>1. rpc' \in RunnerLabels
    BY <1>44 DEF RunnerCollect, RunnerOutput, Leaves, Runs, RunnerLabels, Working
  <2>2. /\ UNCHANGED <<mpc, stack, force, kind, faults, tokens, mtx, sigVars, confVars, sizeVars>>
        /\ UNCHANGED <<viewVars, screen, endVars>>
    BY <1>44 DEF RunnerCollect, RunnerOutput, Leaves, Runs, Quiet, shown
  <2> QED
    BY <1>0, <2>1, <2>2
<1>45. CASE RunnerStopped \/ RunnerDraw
  BY <1>45, <1>0, ZenonT(30) DEF RunnerStopped, RunnerDraw, Drawn, Leaves, Runs, Quiet, shown, RunnerLabels, Working
<1>46. CASE RunnerWrite
  <2>1. drawn' \in Screens
    BY <1>46, ShotTyped DEF RunnerWrite, Leaves, Runs
  <2>2. rpc' \in RunnerLabels /\ screen' \in {"raw", "restored", "spoilt"}
    BY <1>46 DEF RunnerWrite, Leaves, Runs, RunnerLabels, Working
  <2> QED
    BY <1>0, <1>46, <2>1, <2>2 DEF RunnerWrite, Leaves, Runs
<1>47. CASE CoresChanged
  BY <1>47, <1>0 DEF CoresChanged, Fault, Leaves, Runs, shown, RunnerLabels, Working
<1>48. CASE Throws
  BY <1>48, <1>0 DEF Throws, Fault, Leaves, Runs, shown, RunnerLabels, Working
<1>49. CASE Stalls
  BY <1>49, <1>0 DEF Stalls, Fault, Leaves, Runs, shown, RunnerLabels, Working
<1>50. CASE Unstalls
  BY <1>50, <1>0 DEF Unstalls, Runs, Quiet, shown, RunnerLabels, Working
<1>51. CASE Signalled
  <2>1. pend' \subseteq Signals
    BY <1>51 DEF Signalled
  <2> QED
    BY <1>0, <1>51, <2>1 DEF Signalled, World, Happens
<1>52. CASE Resizes
  BY <1>52, <1>0 DEF Resizes, World, Happens
<1>53. CASE TtyFills
  BY <1>53, <1>0 DEF TtyFills, World, Happens
<1>54. CASE TtyDrains
  BY <1>54, <1>0 DEF TtyDrains, World, Happens
<1>55. CASE Ended \/ UNCHANGED vars
  BY <1>55, <1>0, ZenonT(30) DEF Ended, vars
<1> QED
  BY <1>1, <1>2, <1>3, <1>4, <1>5, <1>6, <1>7, <1>8, <1>9, <1>10, <1>11, <1>12, <1>13, <1>14,
     <1>15, <1>16, <1>17, <1>18, <1>19, <1>20, <1>21, <1>22, <1>23, <1>24, <1>25, <1>26, <1>27,
     <1>28, <1>29, <1>30, <1>31, <1>32, <1>33, <1>34, <1>35, <1>36, <1>37, <1>38, <1>39, <1>40,
     <1>41, <1>42, <1>43, <1>44, <1>45, <1>46, <1>47, <1>48, <1>49, <1>50, <1>51, <1>52, <1>53,
     <1>54, <1>55
  DEF Next, MainStep, MainLoop, Resize, Calls, Ending, RunnerStep, RunnerFails

LEMMA InitTyped ==
    ASSUME Init
    PROVE  TypeOK /\ Framed
<1>1. Framed
  BY DEF Init, Framed, Called, RunLabels, StopLabels, TrLabels, CalcLabels, EndLabels
<1>2. Booleans
  BY Zenon DEF Init, Booleans
<1>3. settings \in Settings /\ pending \in Pendings /\ drawn \in Screens
  BY RunnerAssumption, NothingPends DEF Init, Settings, Views, Boxes, Sorts, Screens
<1>4. Values
  BY RunnerAssumption, <1>3 DEF Init, Values, MainLabels, RunnerLabels, Boxes
<1> QED
  BY <1>1, <1>2, <1>4, Parts

\* The places, flags, maps, sizes and frames are what they can be, and main never returns
\* from a function it did not call.
THEOREM TypeCorrect == Spec => []TypeOK
<1>1. Init => TypeOK /\ Framed
  BY InitTyped
<1>2. TypeOK /\ Framed /\ [Next]_vars => (TypeOK /\ Framed)'
  BY FramedKept, BooleansKept, ValuesKept, Parts, PartsAfter
<1> QED
  BY <1>1, <1>2, PTL DEF Spec
-----------------------------------------------------------------------------
(* The handshake, for a runner that is scheduled within the short waits.   *)

Resting == {"boot", "top", "idle"}
CalmLabels == {"reload", "restore", "suspended", "runCheck", "runClock", "runPost", "runGo", "stopKick",
               "stopDone", "trSize", "trUnlock", "trLoop", "trSmall", "calcBody"}
SteadyLabels == MainLabels \ (CalmLabels \cup EndLabels \cup {"runWait", "stopArm"})

\* Nothing is under way, or triggered.
Calm == tokens = 0 /\ rpc \in Resting /\ ~active
\* A job may be under way; nothing is triggered.
Steady == tokens = 0 /\ rpc \in Resting \cup Working /\ (rpc \in Working <=> active)
\* The trigger of run() is not yet taken, or it is, and the job on its way.
Launching ==
    \/ tokens = 1 /\ rpc \in Resting /\ ~active
    \/ tokens = 0 /\ rpc # "exited" /\ (rpc \in Working <=> active)
\* The trigger of stop() sends the runner around its loop once.
Kicked ==
    /\ stopping /\ ~active
    /\ (tokens \in {0, 1} /\ rpc \in Resting) \/ (tokens = 0 /\ rpc = "woken")
\* The last trigger meets no job: stopping is set for good.
Leaving ==
    /\ tokens \in {0, 1}
    /\ mpc = "quit" => tokens = 0 /\ rpc # "woken"
    /\ mpc # "quit" => stopping

Handshake ==
    /\ mpc \in CalmLabels => Calm
    /\ mpc \in SteadyLabels => Steady
    /\ mpc = "runWait" => Launching
    /\ mpc = "stopArm" => Kicked
    /\ mpc \in {"stopWait", "stopKick", "stopDone"} => stopping
    /\ mpc \in EndLabels => Leaving
    /\ mpc \notin EndLabels => ~quitting
    /\ mpc \in {"runGo", "runWait"} \/ rpc \in Working \cup {"pass"} => locked
    /\ outcome # "noRestore"

LEMMA RunnerShakes ==
    ASSUME TypeOK, Handshake, RunnerStep \/ RunnerFails
    PROVE  Handshake'
<1> USE DEF Handshake, Calm, Steady, Launching, Kicked, Leaving, Resting, Working, Runs, Leaves, Quiet,
            confVars, endVars, callVars
<1>0. tokens \in Nat /\ mpc \in MainLabels
  BY RunnerAssumption DEF TypeOK
<1> USE DEF CalmLabels, SteadyLabels, EndLabels, MainLabels
<1>1. CASE RunnerBoot
  BY <1>0, <1>1 DEF RunnerBoot
<1>2. CASE RunnerTop
  BY <1>0, <1>2 DEF RunnerTop
<1>3. CASE RunnerAcquire
  BY <1>0, <1>3 DEF RunnerAcquire
<1>4. CASE RunnerCheck
  BY <1>0, <1>4 DEF RunnerCheck
<1>5. CASE RunnerActivate
  BY <1>0, <1>5 DEF RunnerActivate
<1>6. CASE RunnerCollect
  BY <1>0, <1>6 DEF RunnerCollect
<1>7. CASE RunnerStopped
  BY <1>0, <1>7 DEF RunnerStopped, Drawn
<1>8. CASE RunnerDraw
  BY <1>0, <1>8 DEF RunnerDraw, Drawn
<1>9. CASE RunnerOutput
  BY <1>0, <1>9 DEF RunnerOutput
<1>10. CASE RunnerWrite
  BY <1>0, <1>10 DEF RunnerWrite
<1>11. CASE CoresChanged
  BY <1>0, <1>11 DEF CoresChanged
<1>12. CASE Throws
  BY <1>0, <1>12 DEF Throws
<1>13. CASE Stalls
  BY <1>0, <1>13 DEF Stalls
<1>14. CASE Unstalls
  BY <1>0, <1>14 DEF Unstalls
<1> QED
  BY <1>1, <1>2, <1>3, <1>4, <1>5, <1>6, <1>7, <1>8, <1>9, <1>10, <1>11, <1>12, <1>13, <1>14
  DEF RunnerStep, RunnerFails

LEMMA MainShakes ==
    ASSUME TypeOK, Framed, Handshake, Prompt, MainStep \/ TimerDue \/ Key \/ ResizeSmall \/ Resume
    PROVE  Handshake'
<1> USE DEF Handshake, Calm, Steady, Launching, Kicked, Leaving, Resting, Working, Goto, Quit, callVars,
            runVars, syncVars, flagVars, confVars, endVars
<1>0. tokens \in Nat /\ MaxTokens \in Nat \ {0}
  BY RunnerAssumption DEF TypeOK
<1>a. mpc \in MainLabels \ (Called \cup EndLabels) => stack = <<>>
  BY DEF Framed
<1> USE DEF CalmLabels, SteadyLabels, EndLabels, MainLabels, Called, RunLabels, StopLabels, TrLabels,
            CalcLabels, RunBacks, TrBacks
<1>1. CASE Dispatch
  BY <1>0, <1>a, <1>1, Called1 DEF Dispatch, TakeSignals
<1>2. CASE Reload
  BY <1>0, <1>a, <1>2 DEF Reload, CanUnlock
<1>3. CASE CheckSize
  BY <1>0, <1>a, <1>3, Called1 DEF CheckSize
<1>4. CASE Redraw
  BY <1>0, <1>a, <1>4, Called1 DEF Redraw
<1>5. CASE Fresh
  BY <1>0, <1>a, <1>5, Called1 DEF Fresh
<1>6. CASE Clock
  BY <1>0, <1>a, <1>6, Called1 DEF Clock
<1>7. CASE TimerDue
  BY <1>0, <1>a, <1>7, Called1 DEF TimerDue
<1>8. CASE NotDue
  BY <1>0, <1>a, <1>8 DEF NotDue
<1>9. CASE Key
  BY <1>0, <1>a, <1>9 DEF Key, Unlock
<1>10. CASE KeySet
  BY <1>0, <1>a, <1>10, Called1 DEF KeySet
<1>11. CASE KeyBox
  BY <1>0, <1>a, <1>11, Called1 DEF KeyBox
<1>12. CASE KeyView
  BY <1>0, <1>a, <1>12, Called1 DEF KeyView
<1>13. CASE KeyRun
  BY <1>0, <1>a, <1>13, Called1 DEF KeyRun
<1>14. CASE Calc
  BY <1>0, <1>a, <1>14 DEF Calc, Unlock
<1>15. CASE CalcBody
  BY <1>0, <1>a, <1>15, Returns DEF CalcBody
<1>16. CASE ResizeEnter
  BY <1>0, <1>a, <1>16, Returns DEF ResizeEnter
<1>17. CASE ResizeStop
  BY <1>0, <1>a, <1>17 DEF ResizeStop, Call
<1>18. CASE ResizeRefresh
  BY <1>0, <1>a, <1>18 DEF ResizeRefresh
<1>19. CASE ResizeUnlock
  BY <1>0, <1>a, <1>19 DEF ResizeUnlock, Unlock
<1>20. CASE ResizeLoop
  BY <1>0, <1>a, <1>20, Returns DEF ResizeLoop, Output
<1>21. CASE ResizeSmall
  BY <1>0, <1>a, <1>21 DEF ResizeSmall
<1>22. CASE RunWait
  BY <1>0, <1>a, <1>22 DEF RunWait
<1>23. CASE RunCheck
  BY <1>0, <1>a, <1>23, Returns DEF RunCheck
<1>24. CASE RunClock
  BY <1>0, <1>a, <1>24, Returns DEF RunClock, Output
<1>25. CASE RunPost
  BY <1>0, <1>a, <1>25 DEF RunPost, RunUnlocks
<1>26. CASE RunGo
  BY <1>0, <1>a, <1>26 DEF RunGo, Trigger
<1>27. CASE RunDone
  BY <1>0, <1>a, <1>27, Returns DEF RunDone, ShortWaitOver, AtRest
<1>28. CASE StopBegin
  BY <1>0, <1>a, <1>28 DEF StopBegin
<1>29. CASE StopWait
  BY <1>0, <1>a, <1>29 DEF StopWait
<1>30. CASE StopKick
  BY <1>0, <1>a, <1>30 DEF StopKick, Trigger
<1>31. CASE StopArm
  BY <1>0, <1>a, <1>31 DEF StopArm, ShortWaitOver, AtRest
<1>32. CASE StopDone
  BY <1>0, <1>a, <1>32, Returns DEF StopDone
<1>33. CASE Restore
  BY <1>0, <1>a, <1>33 DEF Restore
<1>34. CASE QuitBegin
  BY <1>0, <1>a, <1>34 DEF QuitBegin, Trigger
<1>35. CASE QuitRestore
  BY <1>0, <1>a, <1>35 DEF QuitRestore
<1>36. CASE Join
  BY <1>0, <1>a, <1>36 DEF Join
<1>37. CASE Save
  BY <1>0, <1>a, <1>37 DEF Save
<1>38. CASE Resume
  BY <1>0, <1>a, <1>38, Called1 DEF Resume
<1> QED
  BY <1>1, <1>2, <1>3, <1>4, <1>5, <1>6, <1>7, <1>8, <1>9, <1>10, <1>11, <1>12, <1>13, <1>14,
     <1>15, <1>16, <1>17, <1>18, <1>19, <1>20, <1>21, <1>22, <1>23, <1>24, <1>25, <1>26, <1>27,
     <1>28, <1>29, <1>30, <1>31, <1>32, <1>33, <1>34, <1>35, <1>36, <1>37, <1>38
  DEF MainStep, MainLoop, Resize, Calls, Ending

LEMMA HandshakeKept ==
    ASSUME TypeOK, Framed, Handshake, Prompt, [Next]_vars
    PROVE  Handshake'
<1>1. CASE Signalled \/ Resizes \/ TtyFills \/ TtyDrains \/ Ended \/ UNCHANGED vars
  <2>1. UNCHANGED <<mpc, rpc, tokens, active, stopping, quitting, locked, outcome>>
    BY <1>1 DEF Signalled, Resizes, TtyFills, TtyDrains, World, Ended, vars, runVars, syncVars, flagVars,
       confVars, endVars
  <2> QED
    BY <2>1 DEF Handshake, Calm, Steady, Launching, Kicked, Leaving
<1> QED
  BY <1>1, MainShakes, RunnerShakes DEF Next

LEMMA Started ==
    ASSUME Init
    PROVE  TypeOK /\ Framed /\ Handshake
<1>1. TypeOK /\ Framed
  BY InitTyped
<1>2. Handshake
  BY DEF Init, Handshake, Calm, Steady, Launching, Kicked, Leaving, CalmLabels, SteadyLabels, EndLabels,
     MainLabels, Resting, Working
<1> QED
  BY <1>1, <1>2

\* What all steps rely on.
Shaken == TypeOK /\ Framed /\ Handshake

LEMMA ShakenKept ==
    ASSUME Shaken, Prompt, [Next]_vars
    PROVE  Shaken'
BY FramedKept, BooleansKept, ValuesKept, Parts, PartsAfter, HandshakeKept DEF Shaken

LEMMA AlwaysShaken == ASSUME Prompt PROVE Spec => []Shaken
<1>1. Init => Shaken
  BY Started DEF Shaken
<1>2. Shaken /\ [Next]_vars => Shaken'
  BY ShakenKept
<1> QED
  BY <1>1, <1>2, PTL DEF Spec

\* The semaphore holds one permit at most, although run(), stop() and clean_quit() release
\* without looking: each of them waits until the runner has taken the last one.
THEOREM OnePermit == ASSUME Prompt PROVE Spec => []SemaphoreBounded
<1>1. Shaken => SemaphoreBounded
  BY DEF Shaken, TypeOK, Handshake, Calm, Steady, Launching, Kicked, Leaving, SemaphoreBounded,
     SteadyLabels
<1> QED
  BY <1>1, AlwaysShaken, PTL

\* A suspend is not taken for a failure: when _sleep() restores the terminal, stop() has
\* left no frame that holds the output mutex.
THEOREM SuspendSucceeds == ASSUME Prompt PROVE Spec => []SuspendNeverQuits
<1>1. Shaken => SuspendNeverQuits
  BY DEF Shaken, Handshake, SuspendNeverQuits
<1> QED
  BY <1>1, AlwaysShaken, PTL

\* When stop() returns nothing is being drawn, and no trigger is left that could start a
\* job behind the back of what follows.
THEOREM NothingUnderWay == ASSUME Prompt PROVE Spec => StopQuiesces
<1>1. Shaken => (mpc = "stopDone" /\ mpc' # "stopDone" => rpc \notin Working /\ tokens = 0)
  BY DEF Shaken, Handshake, Calm, CalmLabels, Resting, Working
<1> QED
  BY <1>1, AlwaysShaken, PTL DEF StopQuiesces
-----------------------------------------------------------------------------
(* The runner as one atomic job.                                           *)

Inputs == [settings |-> settings, layout |-> layout, job |-> job, seen |-> seen]

\* Main changes what a job reads, and the screen, only while the runner rests.
LEMMA MainPrepares ==
    ASSUME Shaken, Prompt, MainStep \/ TimerDue \/ Key \/ ResizeSmall \/ Resume
    PROVE  /\ UNCHANGED rpc
           /\ UNCHANGED <<settings, layout, job, seen, drawn>> \/ rpc \notin Working
           /\ UNCHANGED drawn \/ drawn'.boxes = "none"
<1> USE DEF Shaken, Handshake, Calm, Steady, callVars, runVars, syncVars, flagVars, sigVars, confVars,
            sizeVars, viewVars, ttyVars, endVars
<1> USE DEF CalmLabels, SteadyLabels, EndLabels, MainLabels, Resting, Working
<1>0. drawn \in Screens
  BY DEF TypeOK
<1>1. CASE MainLoop \/ TimerDue
  BY <1>1 DEF MainLoop, Dispatch, Reload, CheckSize, Redraw, Fresh, Clock, TimerDue, NotDue, KeySet, KeyBox,
     KeyView, KeyRun, Calc, CalcBody, Set, Unlock, CanUnlock
<1>2. CASE Key
  BY <1>2 DEF Key, Unlock, CanUnlock
<1>3. CASE Resize
  BY <1>0, <1>3 DEF Resize, ResizeEnter, ResizeStop, ResizeRefresh, ResizeUnlock, ResizeLoop, Unlock,
     CanUnlock, Cleared, None, Screens
<1>4. CASE ResizeSmall
  BY <1>4 DEF ResizeSmall
<1>5. CASE Calls
  BY <1>5 DEF Calls, RunWait, RunCheck, RunClock, RunPost, RunGo, RunDone, RunUnlocks, CanUnlock, Output,
     StopBegin, StopWait, StopKick, StopArm, StopDone
<1>6. CASE Ending
  BY <1>6 DEF Ending, Restore, QuitBegin, QuitRestore, Join, Save
<1>7. CASE Resume
  BY <1>0, <1>7 DEF Resume, Cleared, None, Screens
<1> QED
  BY <1>1, <1>2, <1>3, <1>4, <1>5, <1>6, <1>7 DEF MainStep

Slot == <<rpc \in Working, Inputs, drawn>>

\* The runner takes a job, works on it, or ends it.
LEMMA RunnerWorks ==
    ASSUME Shaken, RunnerStep \/ RunnerFails
    PROVE  Job!Begin \/ Job!Finish \/ UNCHANGED Slot
<1> USE DEF Runs, Leaves, Quiet, shown, confVars, sizeVars, viewVars, callVars, Working
<1>0. UNCHANGED Inputs
  BY DEF Inputs, RunnerStep, RunnerFails, RunnerBoot, RunnerTop, RunnerAcquire, RunnerCheck,
     RunnerActivate, RunnerCollect, RunnerStopped, RunnerDraw, RunnerOutput, RunnerWrite, CoresChanged,
     Throws, Stalls, Unstalls
<1>1. CASE RunnerBoot \/ RunnerTop \/ RunnerAcquire \/ RunnerCheck \/ RunnerDraw \/ Stalls \/ Unstalls
  <2>1. UNCHANGED <<rpc \in Working, drawn>>
    BY <1>1 DEF RunnerBoot, RunnerTop, RunnerAcquire, RunnerCheck, RunnerDraw, Drawn, Stalls, Unstalls
  <2> QED
    BY <1>0, <2>1 DEF Slot
<1>2. CASE RunnerActivate
  BY <1>0, <1>2 DEF RunnerActivate, Job!Begin, Inputs
<1>3. CASE RunnerCollect \/ RunnerStopped \/ RunnerOutput \/ CoresChanged \/ Throws
  <2>1. UNCHANGED drawn
    BY <1>3 DEF RunnerCollect, RunnerStopped, RunnerOutput, CoresChanged, Throws, Drawn
  <2>2. rpc \in Working /\ (rpc' \in Working \/ rpc' = "top")
    BY <1>3 DEF RunnerCollect, RunnerStopped, RunnerOutput, CoresChanged, Throws
  <2> QED
    BY <1>0, <2>1, <2>2 DEF Job!Finish, Inputs, Slot
<1>4. CASE RunnerWrite
  <2>1. rpc \in Working /\ rpc' \notin Working
    BY <1>4 DEF RunnerWrite
  <2>2. drawn' = drawn \/ drawn' \in Rendered(Inputs, drawn)
    BY <1>4 DEF RunnerWrite, Rendered, Inputs
  <2> QED
    BY <1>0, <2>1, <2>2 DEF Job!Finish, Inputs
<1> QED
  BY <1>1, <1>2, <1>3, <1>4 DEF RunnerStep, RunnerFails

\* What the runner reads while it collects and draws does not change under it, and what it
\* puts on the screen is a picture of that: to main the runner is one atomic job.
THEOREM RunnerImplementsDrawSlot == ASSUME Prompt PROVE Spec => ImplementsDrawSlot
<1>1. Init => ((rpc \in Working) = FALSE)
  BY DEF Init, Working
<1>2. Shaken /\ [Next]_vars
        => [Job!Next]_<<rpc \in Working,
                       [settings |-> settings, layout |-> layout, job |-> job, seen |-> seen], drawn>>
  <2> SUFFICES ASSUME Shaken, [Next]_vars PROVE Job!Next \/ UNCHANGED Slot
    BY DEF Slot, Inputs
  <2>1. CASE MainStep \/ TimerDue \/ Key \/ ResizeSmall \/ Resume
    <3>1. CASE UNCHANGED <<settings, layout, job, seen, drawn>>
      BY <2>1, <3>1, MainPrepares DEF Slot, Inputs
    <3>2. CASE rpc \notin Working
      BY <2>1, <3>2, MainPrepares DEF Job!Next, Job!Prepare
    <3> QED
      BY <2>1, <3>1, <3>2, MainPrepares
  <2>2. CASE RunnerStep \/ RunnerFails
    BY <2>2, RunnerWorks DEF Job!Next
  <2>3. CASE Signalled \/ Resizes \/ TtyFills \/ TtyDrains \/ Ended \/ UNCHANGED vars
    BY <2>3 DEF Slot, Inputs, Signalled, Resizes, TtyFills, TtyDrains, World, Ended, vars, runVars, confVars,
       sizeVars, viewVars
  <2> QED
    BY <2>1, <2>2, <2>3 DEF Next
<1> QED
  BY <1>1, <1>2, AlwaysShaken, PTL DEF Spec, ImplementsDrawSlot, Job!Spec
-----------------------------------------------------------------------------
(* The boxes that are drawn.                                               *)

\* Where main is between boxes that were changed under the message of a small terminal
\* and their layout.
Resizing == {"trLoop", "trSmall", "redraw", "size", "tr", "trStop", "trSize", "trUnlock"}

\* current_boxes, the setting and the layout agree, except on the way to a layout; the
\* job has what was laid out.
Boxed ==
    /\ mpc # "reload" /\ "reload" \notin flags /\ (mpc \in StopLabels => stack # <<"reload">>)
    /\ ~locked => pending.boxes = None /\ pending.view = None
    /\ mpc \in {"trLoop", "trSmall"} => ~locked
    /\ mpc = "trSmall" => settings.view = "classic"
    /\ mpc \in {"trStop", "trSize", "trUnlock", "trLoop", "trSmall"} => resized
    /\ mpc \in StopLabels => stack = <<"restore">> \/ resized
    /\ mpc # "calc" => pending.boxes = None /\ pending.view = None
    /\ current = IF pending.boxes = None THEN settings.boxes ELSE pending.boxes
    /\ current # layout.boxes => \/ mpc \in CalcLabels \cup EndLabels
                                 \/ /\ mpc \in Resizing /\ resized /\ rpc \in Resting
                                    /\ settings.view = "classic"
    /\ mpc \in {"runGo", "runWait"} \/ rpc \in Working \cup {"pass"} => job.boxes = layout.boxes

LEMMA MainBoxes ==
    ASSUME Shaken, Boxed, Prompt, "reload" \notin Signals,
           MainStep \/ TimerDue \/ Key \/ ResizeSmall \/ Resume
    PROVE  Boxed'
<1> USE DEF Shaken, Handshake, Boxed, Calm, Steady, Launching, Kicked, Resting, Working, Goto, Quit, Resizing,
            callVars, runVars, syncVars, flagVars, sigVars, confVars, sizeVars, viewVars, endVars
<1>0. /\ settings \in Settings /\ pending \in Pendings /\ pend \subseteq Signals
      /\ layout \in [size : Sizes, boxes : Boxes] /\ job \in [boxes : Boxes, whole : BOOLEAN]
  BY DEF TypeOK, Pendings
<1>a. mpc \in MainLabels \ (Called \cup EndLabels) => stack = <<>>
  BY DEF Framed
<1>b. /\ Nothing.boxes = None /\ Nothing.view = None
      /\ None \notin Boxes \cup Views
  BY DEF Nothing, None, Boxes, Views
<1>c. \A x : Other(Boxes, x) \in Boxes /\ Other(Sorts, x) \in Sorts /\ Other(Views, x) \in Views
  BY Others
<1> USE DEF CalmLabels, SteadyLabels, EndLabels, MainLabels, Called, RunLabels, StopLabels, TrLabels,
            CalcLabels, RunBacks, TrBacks, Settings, Pendings, Views
<1>1. mpc # "reload"
  OBVIOUS
<1>2. CASE Dispatch
  BY <1>0, <1>a, <1>b, <1>c, <1>2, Called1 DEF Dispatch, TakeSignals
<1>3. CASE CheckSize
  BY <1>0, <1>a, <1>b, <1>c, <1>3, Called1 DEF CheckSize
<1>4. CASE Redraw
  BY <1>0, <1>a, <1>b, <1>c, <1>4, Called1 DEF Redraw
<1>5. CASE Fresh
  BY <1>0, <1>a, <1>b, <1>c, <1>5, Called1 DEF Fresh
<1>6. CASE Clock
  BY <1>0, <1>a, <1>b, <1>c, <1>6, Called1 DEF Clock
<1>7. CASE TimerDue
  BY <1>0, <1>a, <1>b, <1>c, <1>7, Called1 DEF TimerDue
<1>8. CASE NotDue
  BY <1>0, <1>a, <1>b, <1>c, <1>8 DEF NotDue
<1>9. CASE Key
  BY <1>0, <1>a, <1>b, <1>c, <1>9 DEF Key, Unlock, Commit
<1>10. CASE KeySet
  BY <1>0, <1>a, <1>b, <1>c, <1>10, Called1 DEF KeySet, Set
<1>11. CASE KeyBox
  BY <1>0, <1>a, <1>b, <1>c, <1>11, Called1 DEF KeyBox, Set
<1>12. CASE KeyView
  BY <1>0, <1>a, <1>b, <1>c, <1>12, Called1 DEF KeyView, Set
<1>13. CASE KeyRun
  BY <1>0, <1>a, <1>b, <1>c, <1>13, Called1 DEF KeyRun
<1>14. CASE Calc
  BY <1>0, <1>a, <1>b, <1>c, <1>14 DEF Calc, Unlock, Commit
<1>15. CASE CalcBody
  BY <1>0, <1>a, <1>b, <1>c, <1>15, Returns DEF CalcBody
<1>16. CASE ResizeEnter
  BY <1>0, <1>a, <1>b, <1>c, <1>16, Returns DEF ResizeEnter
<1>17. CASE ResizeStop
  <2>1. PICK x \in TrBacks : stack = <<x>>
    BY <1>17 DEF ResizeStop, Framed
  <2>2. \/ mpc' = "stop" /\ stack' = <<"trSize", x>>
        \/ mpc' = "trSize" /\ UNCHANGED stack
    BY <1>17, <2>1, Singles DEF ResizeStop, Call
  <2>3. stack' # <<"reload">> /\ mpc = "trStop"
    BY <1>17, <2>1, <2>2 DEF ResizeStop
  <2>4. UNCHANGED <<flags, resized, locked, settings, pending, current, layout, job, rpc>>
    BY <1>17 DEF ResizeStop
  <2>5. resized
    BY <2>3
  <2>6. stack' # <<"restore">> \/ mpc' = "trSize"
    BY <2>1, <2>2
  <2>7. CASE mpc' = "stop"
    <3>1. rpc \in Working
      BY <1>17, <2>3, <2>7 DEF ResizeStop
    <3>2. current = layout.boxes
      BY <2>3, <3>1
    <3> QED
      BY <2>3, <2>4, <2>5, <2>7, <3>2
  <2>8. CASE mpc' = "trSize"
    BY <2>3, <2>4, <2>5, <2>8
  <2> QED
    BY <2>2, <2>7, <2>8
<1>18. CASE ResizeRefresh
  BY <1>0, <1>a, <1>b, <1>c, <1>18 DEF ResizeRefresh
<1>19. CASE ResizeUnlock
  BY <1>0, <1>a, <1>b, <1>c, <1>19 DEF ResizeUnlock, Unlock, Commit
<1>20. CASE ResizeLoop
  BY <1>0, <1>a, <1>b, <1>c, <1>20, Returns DEF ResizeLoop, Output
<1>21. CASE ResizeSmall
  <2>1. CASE current' = current /\ UNCHANGED <<settings, pending>>
    BY <1>0, <1>a, <1>b, <1>21, <2>1 DEF ResizeSmall
  <2>2. CASE current' = Other(Boxes, current) /\ Set("boxes", Other(Boxes, current))
    <3> DEFINE new == Other(Boxes, current)
    <3>a. mpc = "trSmall"
      BY <1>21 DEF ResizeSmall
    <3>b. ~locked /\ settings.view = "classic" /\ resized
      BY <3>a
    <3>c. rpc \in Resting
      BY <3>a
    <3>1. mpc = "trSmall" /\ ~locked /\ settings.view = "classic" /\ resized /\ rpc \in Resting
      BY <3>a, <3>b, <3>c
    <3>2. settings' = [settings EXCEPT !["boxes"] = new] /\ UNCHANGED pending /\ current' = new
      BY <2>2, <3>1 DEF Set
    <3>3. settings'.boxes = new /\ settings'.view = settings.view /\ new \in Boxes
      BY <1>0, <1>c, <3>2
    <3>4. UNCHANGED <<flags, resized, locked, layout, job, rpc>> /\ mpc' \in {"trLoop", "quit"}
      BY <1>21 DEF ResizeSmall
    <3> HIDE DEF new
    <3> QED
      BY <1>0, <1>b, <3>1, <3>2, <3>3, <3>4
  <2> QED
    BY <1>21, <2>1, <2>2 DEF ResizeSmall
<1>22. CASE RunWait
  BY <1>0, <1>a, <1>b, <1>c, <1>22 DEF RunWait
<1>23. CASE RunCheck
  BY <1>0, <1>a, <1>b, <1>c, <1>23, Returns DEF RunCheck
<1>24. CASE RunClock
  BY <1>0, <1>a, <1>b, <1>c, <1>24, Returns DEF RunClock, Output
<1>25. CASE RunPost
  BY <1>0, <1>a, <1>b, <1>c, <1>25 DEF RunPost, RunUnlocks, Commit
<1>26. CASE RunGo
  BY <1>0, <1>a, <1>b, <1>c, <1>26 DEF RunGo, Trigger
<1>27. CASE RunDone
  BY <1>0, <1>a, <1>b, <1>c, <1>27, Returns DEF RunDone
<1>28. CASE StopBegin
  BY <1>0, <1>a, <1>b, <1>c, <1>28 DEF StopBegin
<1>29. CASE StopWait
  BY <1>0, <1>a, <1>b, <1>c, <1>29 DEF StopWait
<1>30. CASE StopKick
  BY <1>0, <1>a, <1>b, <1>c, <1>30 DEF StopKick, Trigger
<1>31. CASE StopArm
  BY <1>0, <1>a, <1>b, <1>c, <1>31 DEF StopArm
<1>32. CASE StopDone
  <2>1. \/ stack = <<"restore">>
        \/ stack # <<"restore">> /\ \E x \in TrBacks : stack = <<"trSize", x>>
    BY <1>32, Singles DEF StopDone, Framed
  <2>2. mpc' = "restore" \/ (mpc' = "trSize" /\ stack # <<"restore">>)
    BY <1>32, <2>1, Singles DEF StopDone, Return
  <2> QED
    BY <1>0, <1>a, <1>b, <1>32, <2>2 DEF StopDone
<1>33. CASE Restore
  BY <1>0, <1>a, <1>b, <1>c, <1>33 DEF Restore
<1>34. CASE QuitBegin
  BY <1>0, <1>a, <1>b, <1>c, <1>34 DEF QuitBegin, Trigger
<1>35. CASE QuitRestore
  BY <1>0, <1>a, <1>b, <1>c, <1>35 DEF QuitRestore
<1>36. CASE Join
  BY <1>0, <1>a, <1>b, <1>c, <1>36 DEF Join
<1>37. CASE Save
  BY <1>0, <1>a, <1>b, <1>c, <1>37 DEF Save
<1>38. CASE Resume
  BY <1>0, <1>a, <1>b, <1>c, <1>38, Called1 DEF Resume
<1> QED
  BY <1>1, <1>2, <1>3, <1>4, <1>5, <1>6, <1>7, <1>8, <1>9, <1>10, <1>11, <1>12, <1>13, <1>14,
     <1>15, <1>16, <1>17, <1>18, <1>19, <1>20, <1>21, <1>22, <1>23, <1>24, <1>25, <1>26, <1>27,
     <1>28, <1>29, <1>30, <1>31, <1>32, <1>33, <1>34, <1>35, <1>36, <1>37, <1>38
  DEF MainStep, MainLoop, Reload, Resize, Calls, Ending

LEMMA RunnerBoxes ==
    ASSUME Shaken, Boxed, RunnerStep \/ RunnerFails
    PROVE  Boxed'
<1> USE DEF Shaken, Handshake, Calm, Steady, Launching, Kicked, Leaving, Resting, Working
<1> USE DEF CalmLabels, SteadyLabels, EndLabels, MainLabels, StopLabels, Resizing
<1>1. UNCHANGED <<mpc, stack, flags, locked, settings, pending, current, layout, job>>
  BY DEF RunnerStep, RunnerFails, RunnerBoot, RunnerTop, RunnerAcquire, RunnerCheck, RunnerActivate,
     RunnerCollect, RunnerStopped, RunnerDraw, RunnerOutput, RunnerWrite, CoresChanged, Throws, Stalls,
     Unstalls, Leaves, Runs, callVars, sigVars, confVars
<1>2. resized => resized'
  BY DEF RunnerStep, RunnerFails, RunnerBoot, RunnerTop, RunnerAcquire, RunnerCheck, RunnerActivate,
     RunnerCollect, RunnerStopped, RunnerDraw, Drawn, RunnerOutput, RunnerWrite, CoresChanged, Throws,
     Stalls, Unstalls, Leaves, Quiet, shown
<1>3. mpc \in Resizing /\ rpc \in Resting => rpc' \in Resting
  <2>1. mpc \in Resizing => tokens = 0 /\ ~quitting
    OBVIOUS
  <2> QED
    BY <2>1 DEF RunnerStep, RunnerFails, RunnerBoot, RunnerTop, RunnerAcquire, RunnerCheck, RunnerActivate,
       RunnerCollect, RunnerStopped, RunnerDraw, RunnerOutput, RunnerWrite, CoresChanged, Throws, Stalls,
       Unstalls, Leaves, Runs
<1>4. rpc' \in Working \cup {"pass"}
        => \/ rpc \in Working \cup {"pass"}
           \/ rpc = "woken" /\ ~stopping
  BY DEF RunnerStep, RunnerFails, RunnerBoot, RunnerTop, RunnerAcquire, RunnerCheck, RunnerActivate,
     RunnerCollect, RunnerStopped, RunnerDraw, RunnerOutput, RunnerWrite, CoresChanged, Throws, Stalls,
     Unstalls, Leaves, Runs
<1>5. rpc = "woken" /\ ~stopping => mpc = "runWait"
  BY DEF TypeOK
<1>6. rpc' \in Working \cup {"pass"} => job.boxes = layout.boxes
  BY <1>4, <1>5 DEF Boxed
<1> QED
  BY <1>1, <1>2, <1>3, <1>6 DEF Boxed

\* What main, the runner and the world do together.
LEMMA BoxedKept ==
    ASSUME Shaken, Boxed, Prompt, "reload" \notin Signals, [Next]_vars
    PROVE  Boxed'
<1>1. CASE Signalled \/ Resizes \/ TtyFills \/ TtyDrains \/ Ended \/ UNCHANGED vars
  <2>1. UNCHANGED <<mpc, stack, rpc, flags, resized, locked, settings, pending, current, layout, job>>
    BY <1>1 DEF Signalled, Resizes, TtyFills, TtyDrains, World, Ended, vars, callVars, runVars, flagVars,
       sigVars, confVars, viewVars
  <2> QED
    BY <2>1 DEF Boxed
<1> QED
  BY <1>1, MainBoxes, RunnerBoxes DEF Next

\* The boxes the runner collects and draws are the boxes that were laid out, through keys,
\* resizes, a small terminal and suspends, as long as the settings are not read again
\* from the file (Reload then leaves current_boxes behind).
THEOREM BoxesLaidOut ==
    ASSUME Prompt, "reload" \notin Signals
    PROVE  Spec => []DrawsLaidOutBoxes
<1>1. Init => Shaken /\ Boxed
  <2>1. Init => Boxed
    BY DEF Init, Boxed, Nothing, None, StopLabels, CalcLabels, EndLabels, Working
  <2> QED
    BY <2>1, Started DEF Shaken
<1>2. Shaken /\ Boxed /\ [Next]_vars => (Shaken /\ Boxed)'
  BY ShakenKept, BoxedKept
<1>3. Boxed => DrawsLaidOutBoxes
  BY DEF Boxed, DrawsLaidOutBoxes
<1> QED
  BY <1>1, <1>2, <1>3, PTL DEF Spec
=============================================================================
