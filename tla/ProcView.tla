------------------------------- MODULE ProcView -------------------------------
(***************************************************************************)
(* The cursor of the process box: which process is highlighted, followed,  *)
(* shown in detail and aimed at by a dialog.                               *)
(*                                                                         *)
(* Four copies of the cursor are kept in step: the settings that keys read *)
(* (conf), what is set while they are locked (tmp), the statics that       *)
(* Proc::draw() leaves behind (proc), and the screen. Keys run on the main *)
(* thread, collecting and drawing on the runner. A key that is taken while *)
(* the runner works reads settings that are about to be replaced.          *)
(*                                                                         *)
(* The list is flat and unfiltered, so every process of it has a row. The  *)
(* order of the list and its tree are those of ProcList, the lock and the  *)
(* threads those of Runner.                                                *)
(***************************************************************************)
EXTENDS Integers, SequencesExt

CONSTANTS
    Lists,           \* the lists that /proc and the sorting can give
    MaxProcs,        \* as many processes as the kernel can have (kernel.pid_max)
    ListRows,        \* Proc::select_max, the rows of the box
    DetailRows,      \* what the details take of them (8 in the code)
    MaxEvents        \* bound on keys, updates and interruptions

ASSUME ProcViewAssumption ==
    /\ \A l \in Lists : l \in Seq(Nat \ {0}) /\ IsInjective(l) /\ Len(l) \in 1..MaxProcs
    /\ MaxProcs \in Nat
    /\ ListRows \in Nat /\ DetailRows \in Nat /\ ListRows > DetailRows + 1
    /\ MaxEvents \in Nat

VARIABLES
    conf,      \* Config: what main reads
    tmp,       \* Config: what has been set while it is locked
    locked,    \* Config::locked
    proc,      \* Proc: start, selected, selected_pid, banner state, detailed.last_pid
    list,      \* Proc::current_procs
    gone,      \* pids that have ended; they do not come back
    job,       \* the runner: idle, what it has to collect, or drawn
    at,        \* main: free, in a key at a run(), or in a dialog
    kind,      \* the job the key asks for
    screen,    \* the list, the highlight and the details that one sees
    dialog,    \* the static s_pid of the dialog, and whom it was asked about
    events

vars == <<conf, tmp, locked, proc, list, gone, job, at, kind, screen, dialog, events>>

None == 0
Pids == UNION {ToSet(l) : l \in Lists}
Work == {"full", "sorted", "cached"}

Larger(a, b) == IF a > b THEN a ELSE b
Smaller(a, b) == IF a < b THEN a ELSE b
Clamp(x, low, high) == Smaller(Larger(x, low), high)
\* Settings f with what g sets; Put also adds what f does not have.
Override(f, g) == [k \in DOMAIN f |-> IF k \in DOMAIN g THEN g[k] ELSE f[k]]
Put(f, g) == [k \in DOMAIN f \cup DOMAIN g |-> IF k \in DOMAIN g THEN g[k] ELSE f[k]]
Nothing == [k \in {} |-> None]

TypeOK ==
    /\ conf.start \in 0..MaxProcs /\ conf.selected \in 0..(ListRows + 1)
    /\ {conf.selected_pid, conf.detailed_pid, conf.followed_pid, conf.restore}
         \subseteq Pids \cup {None}
    /\ conf.last_selected \in 0..ListRows /\ conf.followed \in 0..ListRows
    /\ {conf.show, conf.follow, conf.returns, conf.update, conf.banner, conf.paused}
         \subseteq BOOLEAN
    /\ DOMAIN tmp \subseteq DOMAIN conf /\ (job # "idle" => locked) /\ (~locked => tmp = Nothing)
    /\ proc.start \in 0..MaxProcs /\ proc.selected \in 0..ListRows
    /\ {proc.selected_pid, proc.last_pid} \subseteq Pids \cup {None}
    /\ proc.banner \in BOOLEAN
    /\ list \in Lists \cup {<<>>} /\ gone \subseteq Pids \ ToSet(list)
    /\ job \in Work \cup {"idle", "drawn"} /\ kind \in Work
    /\ at \in {"free", "run", "cpu", "show", "dialog"}
    /\ screen.list \in Lists \cup {<<>>}
    /\ {screen.pid, screen.detail, dialog.pid, dialog.asked} \subseteq Pids \cup {None}
    /\ events \in 0..MaxEvents

Init ==
    /\ \E fd \in BOOLEAN :
         conf = [start |-> 0, selected |-> 0, selected_pid |-> None, last_selected |-> 0,
                 show |-> FALSE, detailed_pid |-> None, follow |-> FALSE,
                 followed_pid |-> None, followed |-> 0, returns |-> FALSE,
                 restore |-> None, update |-> FALSE, banner |-> FALSE, paused |-> FALSE,
                 proc_follow_detailed |-> fd]
    /\ tmp = Nothing /\ locked = FALSE
    /\ proc = [start |-> 0, selected |-> 0, selected_pid |-> None, banner |-> FALSE,
               last_pid |-> None]
    /\ list = <<>> /\ gone = {} /\ job = "idle" /\ at = "free" /\ kind = "full"
    /\ screen = [list |-> <<>>, pid |-> None, detail |-> None, cut |-> FALSE]
    /\ dialog = [pid |-> None, asked |-> None] /\ events = 0
-----------------------------------------------------------------------------
(* The settings.                                                           *)

\* Config::unlock(): first the statics of the drawing, over them what was set.
Unlocked ==
    IF locked
      THEN Override(Override(conf, [k \in {"start", "selected", "selected_pid"} |-> proc[k]]), tmp)
      ELSE conf

\* What a key reads. The main loop unlocks the settings for it only if the runner is idle.
Read == IF job = "idle" THEN Unlocked ELSE conf

\* What a key sets, in place or to wait for the unlock.
Set(changes) ==
    IF job = "idle"
      THEN conf' = Override(Unlocked, changes) /\ tmp' = Nothing /\ locked' = FALSE
      ELSE tmp' = Put(tmp, changes) /\ UNCHANGED <<conf, locked>>

Flipped(k) == IF job # "idle" /\ k \in DOMAIN tmp THEN ~tmp[k] ELSE ~Read[k]
-----------------------------------------------------------------------------
(* The drawing.                                                            *)

\* select_max as keys and the drawing compute it.
Window(detail, banner) ==
    ListRows - (IF detail THEN DetailRows ELSE 0) - (IF banner THEN 1 ELSE 0)

\* The process the view has to go to, if any.
Goal(c) == IF c.restore # None THEN c.restore ELSE c.followed_pid
Seeks(c) == c.restore # None \/ (c.follow /\ (~c.paused \/ c.update))

Place(l, pid) == CHOOSE i \in DOMAIN l : l[i] = pid

Detail(c, p) == c.show /\ p.last_pid = c.detailed_pid

\* Faulty: the view is not kept above the bottom of the list.
PastTheBottom(loc, max, n) ==
    LET middle == (max + 1) \div 2
    IN [start |-> Larger(0, loc - middle), row |-> IF loc < middle THEN loc ELSE middle]
\* Start and row at which the process at place loc is shown, in the middle if it can be.
Centred(loc, max, n) ==
    LET middle == (max + 1) \div 2
        start == Larger(0, loc - middle)
    IN [start |-> start,
        row |-> IF loc < middle THEN loc
                ELSE IF start > n - max THEN max - n + loc ELSE middle]

\* The settings c, as far as the drawing follows a process in list l with them.
Followed(c, l, detail) ==
    LET max == Window(detail, c.paused \/ c.follow)
        to  == Centred(Place(l, Goal(c)), max, Len(l))
        seen == [c EXCEPT !.banner = c.paused \/ c.follow]
    IN CASE ~Seeks(c) -> seen
         [] Seeks(c) /\ Goal(c) \in ToSet(l) /\ c.restore = None ->
              [seen EXCEPT !.update = FALSE, !.start = to.start, !.followed = to.row,
                 !.returns = TRUE, !.selected = IF c.followed_pid = c.detailed_pid THEN 0 ELSE to.row]
         [] Seeks(c) /\ Goal(c) \in ToSet(l) /\ c.restore # None ->
              [seen EXCEPT !.update = FALSE, !.start = to.start, !.selected = to.row,
                 !.restore = None]
         [] Seeks(c) /\ Goal(c) \notin ToSet(l) /\ c.restore = None ->
              [seen EXCEPT !.update = FALSE, !.follow = FALSE, !.followed_pid = None,
                 !.followed = 0, !.banner = c.paused]
         [] OTHER -> [seen EXCEPT !.update = FALSE, !.restore = None]

\* Faulty: a row below the list may be selected.
UnboundedRow(c, n, max) ==
    [start |-> Clamp(c.start, 0, Larger(0, n - max)), selected |-> Smaller(c.selected, max)]
\* Faulty: a row below the box may be selected.
BelowTheBox(c, n, max) ==
    [start |-> Clamp(c.start, 0, Larger(0, n - max)), selected |-> Smaller(c.selected, n)]
\* The bounds of the view and the selection.
Bounded(c, n, max) ==
    [start |-> Clamp(c.start, 0, Larger(0, n - max)),
     selected |-> Smaller(Smaller(c.selected, max), n)]

\* Faulty: the selection is not moved when the banner goes.
NotMoved(was, is, start, max, n) == FALSE
\* The banner goes at the bottom of the list: the view moves up by its row.
MovesUp(was, is, start, max, n) == was /\ ~is /\ start + max - 1 = n

\* The statics after a drawing. The selection stays on its process when the view moves
\* up; a paused list scrolls under a selection that the banner has pushed out.
Drawn(c, l, p) ==
    LET f   == Followed(c, l, Detail(c, p))
        max == Window(Detail(c, p), f.banner)
        s   == IF MovesUp(p.banner, f.banner, f.start, max, Len(l))
                 THEN [f EXCEPT !.selected = @ + 1]
               ELSE IF c.paused /\ f.selected > max THEN [f EXCEPT !.start = @ + 1] ELSE f
        b   == Bounded(s, Len(l), max)
    IN [start |-> b.start, selected |-> b.selected, banner |-> f.banner, last_pid |-> p.last_pid,
        selected_pid |-> IF b.selected = 0 THEN None
                         ELSE IF b.start + b.selected <= Len(l) THEN l[b.start + b.selected]
                         ELSE p.selected_pid]

\* What the drawing sets: only some settings, and only in some cases.
DrawingSets(c, l, p) ==
    LET f == Followed(c, l, Detail(c, p))
        keys == {"banner"}
                  \cup (IF Seeks(c) THEN {"update"} ELSE {})
                  \cup (IF c.restore # None THEN {"restore"} ELSE {})
                  \cup (IF Seeks(c) /\ c.restore = None
                          THEN IF Goal(c) \in ToSet(l) THEN {"followed", "returns"}
                               ELSE {"follow", "followed_pid", "followed"}
                          ELSE {})
    IN [k \in keys |-> f[k]]
-----------------------------------------------------------------------------
(* The runner.                                                             *)

\* Proc::collect(): the list and whose details are there. A paused list keeps its
\* processes, also the ended ones; a cached job keeps the list.
Collected(l) ==
    /\ IF list = <<>> \/ job = "full"
         THEN /\ conf.paused /\ list # <<>> => l = list
              /\ l \in Lists /\ ToSet(l) \cap gone = {}
         ELSE IF job = "sorted" THEN l \in Lists /\ ToSet(l) = ToSet(list) ELSE l = list
    /\ list' = l
    /\ gone' = gone \cup (ToSet(list) \ ToSet(l))

\* The pid whose details are collected.
LastPid(l) ==
    IF conf.show /\ (conf.detailed_pid \in ToSet(l) \/ job # "full")
      THEN conf.detailed_pid ELSE proc.last_pid

\* A job collects and draws.
Draw ==
    /\ job \in Work
    /\ \E l \in Lists \cup {list} :
         LET p == [proc EXCEPT !.last_pid = LastPid(l)] IN
         /\ Collected(l)
         /\ proc' = Drawn(conf, l, p)
         /\ tmp' = Put(tmp, DrawingSets(conf, l, p))
    /\ job' = "drawn"
    /\ UNCHANGED <<conf, locked, at, kind, screen, dialog, events>>

\* The main loop has seen a resize and stops the runner after it has collected:
\* Proc::draw() returns at once.
Stopped ==
    /\ job \in Work /\ at \in {"free", "dialog"} /\ events < MaxEvents
    /\ \E l \in Lists \cup {list} :
         /\ Collected(l)
         /\ proc' = [proc EXCEPT !.last_pid = LastPid(l)]
    /\ job' = "idle" /\ events' = events + 1 /\ screen' = [screen EXCEPT !.cut = TRUE]
    /\ UNCHANGED <<conf, tmp, locked, at, kind, dialog>>

\* The output is written and the runner is idle again.
Shown ==
    /\ job = "drawn" /\ job' = "idle"
    /\ screen' = [list |-> list, pid |-> proc.selected_pid,
                  detail |-> IF Detail(conf, proc) THEN conf.detailed_pid ELSE None,
                  cut |-> FALSE]
    /\ UNCHANGED <<conf, tmp, locked, proc, list, gone, at, kind, dialog, events>>
-----------------------------------------------------------------------------
(* The main thread.                                                        *)

\* Runner::run(): it waits for the runner, unlocks, locks and starts the job.
Begin(k) ==
    /\ job = "idle" /\ job' = k
    /\ conf' = Unlocked /\ tmp' = Nothing /\ locked' = TRUE

\* The update timer, which runs behind a dialog too.
Tick ==
    /\ at \in {"free", "dialog"} /\ ~screen.cut /\ events < MaxEvents
    /\ Begin("full") /\ events' = events + 1
    /\ UNCHANGED <<proc, list, gone, at, kind, screen, dialog>>
\* After a resize everything is drawn before a key is read.
Redraw ==
    /\ at \in {"free", "dialog"} /\ screen.cut
    /\ Begin("cached")
    /\ UNCHANGED <<proc, list, gone, at, kind, screen, dialog, events>>

Reads == at = "free" /\ (screen.cut => job # "idle") /\ events < MaxEvents /\ events' = events + 1

\* A key whose handler ends in run("proc") and run("cpu").
Handled(changes, k) ==
    /\ Reads /\ Set(changes) /\ at' = "run" /\ kind' = k
    /\ UNCHANGED <<proc, list, gone, job, screen, dialog>>
Run ==
    /\ at = "run" /\ Begin(kind) /\ at' = "cpu"
    /\ UNCHANGED <<proc, list, gone, kind, screen, dialog, events>>
\* The job of the second run() does not touch the processes.
RunCpu ==
    /\ at = "cpu" /\ Begin("idle") /\ at' = "free"
    /\ UNCHANGED <<proc, list, gone, kind, screen, dialog, events>>

Unfollow == [follow |-> Flipped("follow"), followed_pid |-> None, followed |-> 0]

\* Proc::selection(): where a key moves a view of n rows with start st and selection
\* se; the third part is proc_last_selected.
Moved(key, st, se, last, n, max) ==
    LET bottom == Larger(0, n - max)
        To(start, selected, l) == [start |-> start, selected |-> selected, last_selected |-> l]
    IN CASE key = "up" /\ se > 0 ->
              IF st > 0 /\ se = 1 THEN To(st - 1, se, 0) ELSE To(st, se - 1, 0)
         [] key = "down" ->
              IF st < n - max /\ se = max THEN To(st + 1, se, last)
              ELSE IF se = 0 /\ last > 0 THEN To(st, last, 0) ELSE To(st, se + 1, last)
         [] key = "page_up" ->
              IF se > 0 /\ st = 0 THEN To(st, 0, last) ELSE To(Larger(0, st - max), se, last)
         [] key = "page_down" ->
              IF se > 0 /\ st >= n - max THEN To(st, max, last)
              ELSE To(Clamp(st + max, 0, bottom), se, last)
         [] key = "home" -> To(0, IF se > 0 THEN 1 ELSE 0, last)
         [] key = "end" -> To(bottom, IF se > 0 THEN max ELSE 0, last)
         [] OTHER -> To(st, se, last)

\* A key that moves starts at the followed process if the details are its details,
\* and stops following unless the list is paused: then the banner leaves a row more.
FromDetails(c) ==
    c.follow /\ c.show /\ c.selected = 0 /\ c.returns /\ c.detailed_pid = c.followed_pid
Leaves(c) == c.follow /\ ~c.paused
\* What a key that moves sets.
Selection(c, key) ==
    LET m == Moved(key, c.start, IF FromDetails(c) THEN c.followed ELSE c.selected,
                   c.last_selected, Len(list),
                   Window(c.show, c.banner) + (IF Leaves(c) THEN 1 ELSE 0))
    IN Put(Put(IF Leaves(c) THEN Unfollow ELSE Nothing,
               IF FromDetails(c) THEN [returns |-> FALSE] ELSE Nothing),
           [k \in {x \in DOMAIN m : m[x] # c[x]} |-> m[k]])

\* Nothing is drawn if nothing has moved.
Move(key) ==
    LET changes == Selection(Read, key) IN
    IF DOMAIN changes \cap {"start", "selected", "returns"} # {}
      THEN Handled(changes, "cached")
      ELSE /\ Reads /\ Set(changes)
           /\ UNCHANGED <<proc, list, gone, job, at, kind, screen, dialog>>

\* `u`
KeyPause == Handled([paused |-> Flipped("paused")], "cached")
\* `left`, `right`, `r`: another order.
KeySort == Handled([update |-> TRUE], "sorted")

\* `F`: follow the selected process or the one in the details, or no longer.
KeyFollow ==
    LET c == Read
        To(pid) == [follow |-> TRUE, followed_pid |-> pid, update |-> TRUE]
        selects == c.selected # 0 /\ c.followed_pid # c.selected_pid
        details == c.show /\ c.selected = 0 /\ c.followed_pid # c.detailed_pid
        leaves  == IF c.returns THEN [selected |-> c.followed]
                   ELSE IF c.show /\ c.followed_pid = c.detailed_pid
                     THEN [restore |-> c.detailed_pid] ELSE Nothing
    IN Handled(CASE selects -> To(c.selected_pid)
                 [] ~selects /\ details -> To(c.detailed_pid)
                 [] ~selects /\ ~details /\ c.follow -> Put(leaves, Unfollow)
                 [] OTHER -> Nothing, "cached")

\* `enter`: opens the details of the selected process or closes them.
KeyEnter ==
    LET c == Read
        opens == c.selected > 0 /\ c.detailed_pid # c.selected_pid
        open  == Put([detailed_pid |-> c.selected_pid, last_selected |-> c.selected,
                      selected |-> 0, show |-> TRUE],
                     IF c.proc_follow_detailed THEN [follow |-> TRUE, followed_pid |-> c.selected_pid]
                                       ELSE Nothing)
        to    == IF c.proc_follow_detailed
                   THEN Put([restore |-> c.detailed_pid],
                            IF c.follow /\ c.followed_pid = c.detailed_pid
                              THEN Unfollow ELSE Nothing)
                 ELSE IF c.last_selected > 0 THEN [selected |-> c.last_selected] ELSE Nothing
        close == Put(to, [last_selected |-> 0, detailed_pid |-> None, show |-> FALSE])
    IN /\ c.selected > 0 \/ c.show
       /\ Handled(Put(IF opens THEN open ELSE IF c.show THEN close ELSE Nothing,
                      [update |-> TRUE]), "cached")

\* `t`, `k`, `s`, `N`: a dialog about the selected process, or the one in the details.
KeyDialog ==
    LET c == Read IN
    /\ Reads /\ (c.show \/ c.selected_pid > 0) /\ Set(Nothing) /\ at' = "show"
    /\ dialog' = [dialog EXCEPT !.asked = IF screen.pid # None THEN screen.pid ELSE screen.detail]
    /\ UNCHANGED <<proc, list, gone, job, kind, screen>>

Aim(c) == IF c.show /\ c.selected_pid = None THEN c.detailed_pid ELSE c.selected_pid
\* The process in the details has ended; a paused list still has it.
Ended == proc.last_pid \notin ToSet(list)

\* Faulty: the target is read after the unlock.
AimsLate ==
    /\ at = "show" /\ dialog' = [dialog EXCEPT !.pid = Aim(Unlocked)]
    /\ ~(conf.show /\ conf.selected = 0 /\ Ended)
    /\ Begin("cached") /\ at' = "dialog"
    /\ UNCHANGED <<proc, list, gone, kind, screen, events>>
\* The key has waited for the runner; Menu::show() takes the target before anything
\* is unlocked, and draws.
ShowDialog ==
    /\ at = "show" /\ dialog' = [dialog EXCEPT !.pid = Aim(conf)]
    /\ ~(conf.show /\ conf.selected = 0 /\ Ended)
    /\ Begin("cached") /\ at' = "dialog"
    /\ UNCHANGED <<proc, list, gone, kind, screen, events>>
\* No dialog about details of a process that has ended.
Refuse ==
    /\ at = "show" /\ job = "idle" /\ conf.show /\ conf.selected = 0 /\ (Ended \/ conf.paused)
    /\ at' = "free" /\ dialog' = [pid |-> None, asked |-> None]
    /\ UNCHANGED <<conf, tmp, locked, proc, list, gone, job, kind, screen, events>>

\* The dialog is answered or left; then everything is drawn.
CloseDialog ==
    /\ at = "dialog" /\ ~screen.cut /\ Begin("cached")
    /\ at' = "free" /\ dialog' = [pid |-> None, asked |-> None]
    /\ UNCHANGED <<proc, list, gone, kind, screen, events>>

Key ==
    \/ \E k \in {"up", "down", "page_up", "page_down", "home", "end"} : Move(k)
    \/ KeyPause \/ KeySort \/ KeyFollow \/ KeyEnter \/ KeyDialog

Next ==
    \/ Draw \/ Stopped \/ Shown
    \/ Tick \/ Redraw \/ Run \/ RunCpu \/ ShowDialog \/ Refuse \/ CloseDialog
    \/ Key

Spec == Init /\ [][Next]_vars
-----------------------------------------------------------------------------
(* Properties.                                                             *)

\* The process that is highlighted on the screen is the one that the keys act on:
\* whenever a key can be read, selected_pid is the process of the highlighted row.
CursorOnRow ==
    job = "idle" => IF proc.selected = 0 THEN proc.selected_pid = None
                    ELSE /\ proc.start + proc.selected <= Len(screen.list)
                         /\ proc.selected_pid = screen.list[proc.start + proc.selected]

\* A dialog is about the process that was highlighted, or shown in detail, when its
\* key came, whatever the runner has drawn since.
DialogHighlighted == dialog.pid # None => dialog.pid = dialog.asked

\* Drawing once more without a change leaves the cursor where it is. (Details closed
\* while another process is followed: this drawing goes back to theirs, the next one
\* to the other.)
ThenFollows == conf.restore # None /\ Seeks(Unlocked)
CursorStill ==
    job = "idle" /\ at = "cpu" /\ ~ThenFollows => Drawn(Unlocked, list, proc) = proc

\* `up` and `down` move the highlight by one process, also when the banner goes with the
\* key. In a list one row shorter than the box the drawing takes it for scrolled to the
\* bottom and moves the highlight one row further down: `down` then moves by two and `up`
\* not at all, and never past the end. (A key that stops following while the drawing
\* gives up the process turns following on again, for nobody; the next drawing ends that.)
FollowsNobody == Unlocked.follow /\ Unlocked.followed_pid = None
Slip(c) ==
    IF proc.banner /\ ~c.paused /\ Len(list) = Window(c.show, FALSE) - 1 THEN 1 ELSE 0
ArrowMovesOne ==
    LET c == Unlocked
        here == proc.start + proc.selected
        After(key) == LET p == Drawn(Override(c, Selection(c, key)), list, proc)
                      IN p.start + p.selected
    IN job = "idle" /\ at = "free" /\ ~screen.cut /\ proc.selected > 0 /\ ~FollowsNobody =>
         /\ After("down") = Smaller(here + 1 + Slip(c), Len(list))
         /\ After("up") = here - 1 + Slip(c)

\* With the banner the rows of the list change: neither a drawing nor an arrow moves the
\* cursor for it, but for the slip above.
CursorMoves == CursorStill /\ ArrowMovesOne

\* A drawing that goes to a process has it in the window and highlights it, unless
\* its details are shown instead.
GoalInView ==
    LET place == Place(list', Goal(conf)) IN
    /\ proc'.start < place /\ place <= proc'.start + Window(Detail(conf, proc'), proc'.banner)
    /\ proc'.selected_pid = Goal(conf)
         \/ (proc'.selected = 0 /\ Detail(conf, proc') /\ conf.detailed_pid = Goal(conf))
Goes == job \in Work /\ job' = "drawn" /\ Seeks(conf) /\ Goal(conf) \in ToSet(list')

\* The view follows a process wherever the list has it, if the list fills the box.
FollowedInView ==
    [][Goes /\ conf.restore = None /\ Len(list') >= ListRows => GoalInView]_vars
=============================================================================
