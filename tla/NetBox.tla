-------------------------------- MODULE NetBox --------------------------------
(***************************************************************************)
(* The network box: the interfaces and their counters, the interface that  *)
(* is shown, its totals, and the scale of its two graphs.                  *)
(*                                                                         *)
(* The runner collects and draws. Keys of the main thread change the shown *)
(* interface and the zero point of its totals while the runner is idle,    *)
(* and ask for another scale at any time, also in the middle of a          *)
(* collection, which is therefore cut where it looks at `rescale`.         *)
(*                                                                         *)
(* Updates come once per unit of time, so a speed is the number of bytes   *)
(* since the last one, and no counter comes near 2^64. The lock of the     *)
(* settings and the way a job is stopped are those of Runner.              *)
(***************************************************************************)
EXTENDS Integers, SequencesExt

CONSTANTS
    Traffic,    \* what can happen between two updates: [ifaces, up, bytes, reset]
    Preferred,  \* net_iface, or None
    None,       \* no interface
    Patience,   \* updates that a scale may be wrong for, 5 in the code
    Average,    \* speeds that a new scale is made of, 5 in the code
    Fraction,   \* a tenth of the scale is too little: 10 in the code
    Floor,      \* the lowest scale, 10 KiB
    MaxErrors,  \* failures of getifaddrs() after which it is not called again, 3
    MaxUpdates, \* bound on updates
    MaxEvents   \* bound on keys, changes of settings, resizes and failures

Ifaces == UNION {ToSet(t.ifaces) : t \in Traffic}
Dirs == {"download", "upload"}
Other(dir) == IF dir = "download" THEN "upload" ELSE "download"

ASSUME NetBoxAssumption ==
    /\ None \notin Ifaces /\ Preferred \in Ifaces \cup {None}
    /\ \A t \in Traffic :
         /\ t.ifaces \in Seq(ToSet(t.ifaces)) /\ t.ifaces # <<>> /\ IsInjective(t.ifaces)
         /\ t.up \subseteq ToSet(t.ifaces) /\ t.reset \subseteq ToSet(t.ifaces)
         /\ t.bytes \in [ToSet(t.ifaces) -> [Dirs -> Nat]]
    /\ {Patience, Average, Fraction, Floor, MaxErrors, MaxUpdates, MaxEvents} \subseteq Nat
    /\ Average \in 1..Patience /\ Fraction > 0 /\ Floor > 0

VARIABLES
    bytes,      \* the kernel's counters
    net,        \* Net::current_net
    interfaces, \* Net::interfaces
    selected,   \* Net::selected_iface
    graph_max,
    max_count,  \* how often a speed was over the scale, and how often under it
    rescale,    \* Net::rescale
    errors,
    redraw,     \* Net::redraw
    conf,       \* net_sync and net_auto, as the collector reads them
    tmp,        \* what has been set while they are locked
    main,       \* the main thread: free, in calcSizes(), run() or stop(), or ended by an exception
    want,       \* the job it asks for
    job,        \* the runner: where it is, its job, the interface it has collected
    stopping,
    resized,    \* Global::resized
    screen,     \* whose name, graphs and numbers are shown, and the scale of the graphs
    since,      \* ghost: bytes counted since the totals were zeroed
    all,        \* ghost: bytes counted since the interface was found
    steady,     \* ghost: updates with these speeds under these settings
    missed,     \* ghost: a change of settings that no scale was made for
    updates, events

ghosts == <<since, all, steady, missed>>
collected == <<bytes, net, interfaces, selected, graph_max, max_count, errors, updates>>
vars == <<collected, rescale, redraw, conf, tmp, main, want, job, stopping, resized, screen,
          ghosts, events>>

Event == events < MaxEvents /\ events' = events + 1
Both(x) == [dir \in Dirs |-> x]
Idle == [at |-> "idle", full |-> FALSE, force |-> FALSE, data |-> None]
Stat == [last : Nat, rollover : Nat, offset : Nat, total : Nat, speed : Nat, band : Seq(Nat)]

TypeOK ==
    /\ bytes \in [Ifaces -> [Dirs -> Nat]]
    /\ DOMAIN net = ToSet(interfaces) /\ DOMAIN net \subseteq Ifaces
    /\ \A i \in DOMAIN net : net[i].stat \in [Dirs -> Stat] /\ net[i].connected \in BOOLEAN
    /\ selected \in Ifaces \cup {None} /\ graph_max \in [Dirs -> Nat]
    /\ max_count \in [Dirs -> [over : 0..Patience, under : 0..Patience]]
    /\ {rescale, redraw, stopping, resized, missed} \subseteq BOOLEAN /\ errors \in 0..MaxErrors
    /\ conf \in [{"net_sync", "net_auto"} -> BOOLEAN]
    /\ DOMAIN tmp \subseteq DOMAIN conf /\ \A k \in DOMAIN tmp : tmp[k] \in BOOLEAN
    /\ main \in {"free", "layout", "run", "stop", "threw"}
    /\ job.at \in {"idle", "begin", "select", "scale", "clear", "draw"}
    /\ job.data \in Ifaces \cup {None} /\ {job.full, job.force} \subseteq BOOLEAN
    /\ {screen.name, screen.graphs, screen.numbers} \subseteq Ifaces \cup {None}
    /\ DOMAIN since = DOMAIN net /\ DOMAIN all = DOMAIN net
    /\ steady \in 0..(2 * Patience) /\ updates \in 0..MaxUpdates /\ events \in 0..MaxEvents

Init ==
    /\ bytes = [i \in Ifaces |-> Both(0)] /\ net = <<>> /\ interfaces = <<>>
    /\ selected = None /\ graph_max = Both(0) /\ max_count = Both([over |-> 0, under |-> 0])
    /\ rescale = TRUE /\ errors = 0 /\ redraw = TRUE
    /\ conf \in [{"net_sync", "net_auto"} -> BOOLEAN] /\ tmp = <<>>
    /\ main = "free" /\ want = [full |-> TRUE, force |-> FALSE] /\ job = Idle
    /\ stopping = FALSE /\ resized = FALSE
    /\ screen = [name |-> None, graphs |-> None, numbers |-> None, scale |-> Both(0),
                 label |-> Both(0)]
    /\ since = <<>> /\ all = <<>> /\ steady = 0 /\ missed = FALSE
    /\ updates = 0 /\ events = 0
-----------------------------------------------------------------------------
(* Net::collect(): the counters.                                           *)

New == [stat |-> Both([last |-> 0, rollover |-> 0, offset |-> 0, total |-> 0, speed |-> 0,
                       band |-> <<>>]),
        connected |-> FALSE]
Known(i) == IF i \in DOMAIN net THEN net[i] ELSE New

\* What a counter that reads val has counted since it read last. A counter that is
\* lower than it was has begun again.
Counted(last, val) == IF val < last THEN val ELSE val - last

\* Of the speeds so many are kept as a scale is made of, and one more.
Kept(band) == IF Len(band) > Average + 1 THEN Tail(band) ELSE band

\* Faulty: what was counted before a reset is forgotten.
ForgetsReset(s, val) ==
    LET speed == IF updates = 0 THEN 0 ELSE Counted(s.last, val)
        offset == IF s.offset > val + s.rollover THEN 0 ELSE s.offset
    IN [last |-> val, rollover |-> s.rollover, offset |-> offset,
        total |-> val + s.rollover - offset,
        speed |-> speed, band |-> Kept(Append(s.band, speed))]
\* One counter of one interface. The first update divides by the time since 1970.
Sampled(s, val) ==
    LET rollover == IF val < s.last THEN s.rollover + s.last ELSE s.rollover
        speed == IF updates = 0 THEN 0 ELSE Counted(s.last, val)
        offset == IF s.offset > val + rollover THEN 0 ELSE s.offset
    IN [last |-> val, rollover |-> rollover, offset |-> offset,
        total |-> val + rollover - offset,
        speed |-> speed, band |-> Kept(Append(s.band, speed))]

Fewer(n) == IF n > 0 THEN n - 1 ELSE 0

\* Faulty: a speed below the scale takes nothing back, and one above it is counted
\* only beside another one that is lower.
CountsHigher(dir, speed, other) ==
    LET c == max_count[dir]
    IN IF speed <= other THEN c
       ELSE IF speed > graph_max[dir] THEN [over |-> c.over + 1, under |-> Fewer(c.under)]
       ELSE IF graph_max[dir] > Floor /\ speed < graph_max[dir] \div Fraction
              THEN [over |-> Fewer(c.over), under |-> c.under + 1]
       ELSE c
\* The counters for the automatic scale. In sync only the higher speed counts.
Count(dir, speed, other) ==
    LET c == max_count[dir]
    IN IF conf.net_sync /\ speed < other THEN c
       ELSE IF speed > graph_max[dir] THEN [over |-> c.over + 1, under |-> Fewer(c.under)]
       ELSE IF graph_max[dir] > Floor /\ speed < graph_max[dir] \div Fraction
              THEN [over |-> Fewer(c.over), under |-> c.under + 1]
       ELSE c

\* The kernel counts on, from zero where a device is reset or replaced. One that is not
\* listed keeps its counters: if it comes back, the first sample has them as one speed.
Counts(t) ==
    [i \in Ifaces |->
       IF i \notin ToSet(t.ifaces) THEN bytes[i]
       ELSE IF i \in t.reset THEN t.bytes[i]
       ELSE [dir \in Dirs |-> bytes[i][dir] + t.bytes[i][dir]]]

\* The update of all interfaces. Download comes before upload, so it is compared with
\* the upload of the update before.
Update ==
    /\ job.at = "begin" /\ ~stopping /\ job.full /\ errors < MaxErrors
    /\ \E t \in Traffic :
         /\ bytes' = Counts(t) /\ interfaces' = t.ifaces /\ updates' = updates + 1
         /\ net' = [i \in ToSet(t.ifaces) |->
              [stat |-> [dir \in Dirs |-> Sampled(Known(i).stat[dir], bytes'[i][dir])],
               connected |-> i \in t.up]]
         /\ LET shown == conf.net_auto /\ selected \in ToSet(t.ifaces)
                was == Known(selected).stat
                is == net'[selected].stat
            IN /\ max_count' = IF shown
                    THEN [dir \in Dirs |-> Count(dir, is[dir].speed,
                            IF dir = "download" THEN was["upload"].speed ELSE is["download"].speed)]
                    ELSE max_count
               /\ steady' = IF ~shown THEN 0
                            ELSE IF \E dir \in Dirs : is[dir].speed # was[dir].speed THEN 1
                            ELSE IF steady < 2 * Patience THEN steady + 1 ELSE steady
         /\ all' = [i \in ToSet(t.ifaces) |-> [dir \in Dirs |->
              (IF i \in DOMAIN all THEN all[i][dir] ELSE 0)
                + Counted(Known(i).stat[dir].last, bytes'[i][dir])]]
         /\ since' = [i \in ToSet(t.ifaces) |-> [dir \in Dirs |->
              (IF i \in DOMAIN since THEN since[i][dir] ELSE 0)
                + Counted(Known(i).stat[dir].last, bytes'[i][dir])]]
    /\ job' = [job EXCEPT !.at = "select"]
    /\ UNCHANGED <<selected, graph_max, rescale, errors, redraw, conf, tmp, main, want, stopping,
                   resized, screen, missed, events>>

\* getifaddrs() fails.
Fails ==
    /\ job.at = "begin" /\ ~stopping /\ job.full /\ errors < MaxErrors /\ Event
    /\ errors' = errors + 1 /\ redraw' = TRUE
    /\ job' = [job EXCEPT !.at = "draw", !.full = FALSE]
    /\ UNCHANGED <<bytes, net, interfaces, selected, graph_max, max_count, updates, rescale, conf,
                   tmp, main, want, stopping, resized, screen, ghosts>>

\* Without an update: the caller wants none, or too many have failed.
Cached ==
    /\ job.at = "begin" /\ ~stopping /\ (job.full => errors = MaxErrors)
    /\ job' = [job EXCEPT !.at = "select", !.full = FALSE]
    /\ UNCHANGED <<collected, rescale, redraw, conf, tmp, main, want, stopping, resized, screen,
                   ghosts, events>>

\* The runner ends a job before it comes to the network: it is stopped, or the cores or
\* the cards have changed and ask for a layout.
Skipped ==
    /\ job.at = "begin" /\ job' = Idle
    /\ \/ stopping /\ UNCHANGED <<resized, events>>
       \/ resized' = TRUE /\ Event
    /\ UNCHANGED <<collected, rescale, redraw, conf, tmp, main, want, stopping, screen, ghosts>>
-----------------------------------------------------------------------------
(* Net::collect(): the interface to show, and its scale.                   *)

Sum(i) == net[i].stat["download"].total + net[i].stat["upload"].total

\* The one with the most traffic, of those that are connected if there are any.
Busiest ==
    LET up == {i \in DOMAIN net : net[i].connected}
        of == IF up = {} THEN DOMAIN net ELSE up
    IN {i \in of : \A j \in of : Sum(i) >= Sum(j)}

Select ==
    /\ job.at = "select"
    /\ IF net = <<>>
         THEN /\ job' = [job EXCEPT !.at = "draw"]
              /\ UNCHANGED <<selected, max_count, redraw, rescale, steady>>
       ELSE IF Contains(interfaces, selected)
         THEN /\ job' = [job EXCEPT !.at = "scale"]
              /\ UNCHANGED <<selected, max_count, redraw, rescale, steady>>
       ELSE /\ max_count' = Both([over |-> 0, under |-> 0]) /\ redraw' = TRUE
            /\ rescale' = (rescale \/ conf.net_auto) /\ steady' = 0
            /\ IF Contains(interfaces, Preferred) THEN selected' = Preferred
               ELSE selected' \in Busiest
            /\ job' = [job EXCEPT !.at = "scale"]
    /\ UNCHANGED <<bytes, net, interfaces, graph_max, errors, updates, conf, tmp, main, want,
                   stopping, resized, screen, since, all, missed, events>>

Larger(a, b) == IF a > b THEN a ELSE b

\* Faulty: a scale that is too large is kept.
NeverSmaller(dir) == rescale \/ max_count[dir].over >= Patience
\* A new scale is asked for, or this one has been wrong for too long.
Due(dir) == rescale \/ max_count[dir].over >= Patience \/ max_count[dir].under >= Patience

\* What the last speeds add up to, from the end on.
Recent(band) ==
    LET sum[i \in 0..Average] == IF i = 0 THEN 0 ELSE sum[i - 1] + band[Len(band) - i + 1]
    IN sum[Average]

\* The scale for the present traffic, with room above it.
Scale(dir) ==
    LET s   == net[selected].stat[dir]
        avg == IF Len(s.band) > Average THEN Recent(s.band) \div Average ELSE s.speed
    IN Larger(Floor, IF rescale \/ max_count[dir].over >= Patience THEN (13 * avg) \div 10
                     ELSE 3 * avg)

\* In sync both graphs get the scale of the first direction that asks for one.
Rescaled ==
    LET due == {dir \in Dirs : Due(dir)}
        first == IF "download" \in due THEN "download" ELSE "upload"
        for == IF conf.net_sync THEN Dirs ELSE due
    IN IF due = {} THEN UNCHANGED <<graph_max, max_count, redraw, missed>>
       ELSE /\ graph_max' = [dir \in Dirs |->
                 IF dir \notin for THEN graph_max[dir]
                 ELSE Scale(IF conf.net_sync THEN first ELSE dir)]
            /\ max_count' = [dir \in Dirs |-> IF dir \in for THEN [over |-> 0, under |-> 0]
                                              ELSE max_count[dir]]
            /\ redraw' = TRUE /\ missed' = (missed /\ ~conf.net_sync)

MakeScale ==
    /\ job.at = "scale" /\ job' = [job EXCEPT !.at = "clear"]
    /\ steady' = IF rescale THEN 0 ELSE steady
    /\ IF conf.net_auto THEN Rescaled ELSE UNCHANGED <<graph_max, max_count, redraw, missed>>
    /\ UNCHANGED <<bytes, net, interfaces, selected, errors, updates, rescale, conf, tmp, main, want,
                   stopping, resized, screen, since, all, events>>

\* `rescale` is cleared, also if a key has set it since it was read.
Clear ==
    /\ job.at = "clear" /\ rescale' = FALSE
    /\ job' = [job EXCEPT !.at = "draw", !.data = selected]
    /\ UNCHANGED <<collected, redraw, conf, tmp, main, want, stopping, resized, screen, ghosts,
                   events>>

\* What the top of the graphs stands for; 0 for the fixed values of the settings.
Top == IF conf.net_auto THEN graph_max ELSE Both(0)

\* Net::draw(). Name and graphs are made anew only on a redraw; without data the box is
\* empty and is redrawn the next time.
Draw ==
    /\ job.at = "draw" /\ job' = Idle
    /\ LET again == redraw \/ job.force
       IN IF stopping THEN UNCHANGED <<screen, redraw>>
          ELSE IF job.data = None
            THEN /\ screen' = [screen EXCEPT !.name = None, !.graphs = None, !.numbers = None]
                 /\ redraw' = again
          ELSE /\ screen' = [screen EXCEPT !.numbers = job.data, !.label = Top,
                    !.name   = IF again THEN selected ELSE @,
                    !.graphs = IF again THEN job.data ELSE @,
                    !.scale  = IF again THEN Top ELSE @]
               /\ redraw' = FALSE
    /\ UNCHANGED <<collected, rescale, conf, tmp, main, want, stopping, resized, ghosts, events>>
-----------------------------------------------------------------------------
(* The main thread.                                                        *)

Committed == [k \in DOMAIN conf |-> IF k \in DOMAIN tmp THEN tmp[k] ELSE conf[k]]

\* Config::flip(): in place, or to wait for the unlock while the runner works.
Flip(k) ==
    IF job.at = "idle"
      THEN conf' = [Committed EXCEPT ![k] = ~@] /\ tmp' = <<>> /\ steady' = 0
      ELSE /\ tmp' = [l \in DOMAIN tmp \cup {k} |-> IF l = k THEN ~Committed[k] ELSE tmp[l]]
           /\ UNCHANGED <<conf, steady>>

\* Main comes to run() with a job. Overlays and other boxes' jobs do not touch the box.
Asks(full, force) == main' = "run" /\ want' = [full |-> full, force |-> force]

\* The timer, a menu that is closed, another layout. While run() waits main does nothing
\* else, so it may as well come to it when the runner is idle.
Tick ==
    /\ main = "free" /\ job.at = "idle" /\ ~resized
    /\ \/ Asks(TRUE, FALSE) \/ Asks(TRUE, TRUE) \/ Asks(FALSE, TRUE)
    /\ UNCHANGED <<collected, rescale, redraw, conf, tmp, job, stopping, resized, screen, ghosts,
                   events>>

\* run() waits for the runner, gives up before a resize, and unlocks the settings.
Run ==
    /\ main = "run" /\ job.at = "idle" /\ main' = "free"
    /\ IF resized \/ (want.full /\ updates = MaxUpdates)
         THEN UNCHANGED <<conf, tmp, job, steady>>
         ELSE /\ conf' = Committed /\ tmp' = <<>>
              /\ steady' = IF Committed = conf THEN steady ELSE 0
              /\ job' = [at |-> "begin", full |-> want.full, force |-> want.force, data |-> None]
    /\ UNCHANGED <<collected, rescale, redraw, want, stopping, resized, screen, since, all, missed,
                   events>>

\* Keys y and a, at any time.
KeyScale(k) ==
    /\ main = "free" /\ Event /\ Flip(k) /\ rescale' = TRUE
    /\ missed' = (missed \/ job.at # "idle") /\ Asks(FALSE, TRUE)
    /\ UNCHANGED <<collected, redraw, job, stopping, resized, screen, since, all>>

\* The options menu flips the same settings and asks for a layout, but for no scale.
EditScale(k) ==
    /\ main = "free" /\ Event /\ Flip(k) /\ missed' = TRUE
    /\ main' = "layout" /\ want' = [full |-> TRUE, force |-> TRUE]
    /\ UNCHANGED <<collected, rescale, redraw, job, stopping, resized, screen, since, all>>

\* calcSizes() waits for the runner and unlocks the settings.
Layout ==
    /\ main = "layout" /\ job.at = "idle" /\ main' = "run"
    /\ conf' = Committed /\ tmp' = <<>> /\ redraw' = TRUE
    /\ steady' = IF Committed = conf THEN steady ELSE 0
    /\ UNCHANGED <<collected, rescale, want, job, stopping, resized, screen, since, all, missed,
                   events>>

\* Faulty: the key does not wait for the runner.
SwitchAtOnce(step) ==
    /\ main = "free" /\ Event
    /\ IF Contains(interfaces, selected)
         THEN LET n  == Len(interfaces)
                  at == CHOOSE i \in 1..n : interfaces[i] = selected
              IN /\ selected' = interfaces[((at - 1 + step + n) % n) + 1]
                 /\ rescale' = TRUE /\ steady' = 0
         ELSE UNCHANGED <<selected, rescale, steady>>
    /\ Asks(FALSE, TRUE)
    /\ UNCHANGED <<bytes, net, interfaces, graph_max, max_count, errors, updates, redraw, conf, tmp,
                   job, stopping, resized, screen, since, all, missed>>
\* Keys b and n, which wait for the runner: the interface before or after.
KeySwitch(step) ==
    /\ main = "free" /\ job.at = "idle" /\ Event
    /\ IF Contains(interfaces, selected)
         THEN LET n  == Len(interfaces)
                  at == CHOOSE i \in 1..n : interfaces[i] = selected
              IN /\ selected' = interfaces[((at - 1 + step + n) % n) + 1]
                 /\ rescale' = TRUE /\ steady' = 0
         ELSE UNCHANGED <<selected, rescale, steady>>
    /\ Asks(FALSE, TRUE)
    /\ UNCHANGED <<bytes, net, interfaces, graph_max, max_count, errors, updates, redraw, conf, tmp,
                   job, stopping, resized, screen, since, all, missed>>

\* Key z: the totals begin at zero, or again at what they were. Without an interface
\* current_net.at() throws, which ends the program.
KeyZero ==
    /\ main = "free" /\ job.at = "idle" /\ Event
    /\ IF selected \notin DOMAIN net
         THEN main' = "threw" /\ UNCHANGED <<net, since, want>>
         ELSE LET s == net[selected].stat
                  zeroed == s["download"].offset + s["upload"].offset > 0
              IN /\ net' = [net EXCEPT ![selected].stat = [dir \in Dirs |->
                      [s[dir] EXCEPT !.offset = IF zeroed THEN 0
                                                ELSE s[dir].last + s[dir].rollover]]]
                 /\ since' = [since EXCEPT ![selected] = IF zeroed THEN all[selected] ELSE Both(0)]
                 /\ Asks(TRUE, TRUE)
    /\ UNCHANGED <<bytes, interfaces, selected, graph_max, max_count, errors, updates, rescale,
                   redraw, conf, tmp, job, stopping, resized, screen, all, steady, missed>>

\* The terminal has another size; main stops the runner and draws everything again.
Resize ==
    /\ ~resized /\ Event /\ resized' = TRUE
    /\ UNCHANGED <<collected, rescale, redraw, conf, tmp, main, want, job, stopping, screen, ghosts>>

Stop ==
    /\ main = "free" /\ resized /\ main' = "stop" /\ stopping' = TRUE
    /\ UNCHANGED <<collected, rescale, redraw, conf, tmp, want, job, resized, screen, ghosts, events>>

Resized ==
    /\ main = "stop" /\ job.at = "idle" /\ stopping' = FALSE /\ resized' = FALSE
    /\ main' = "layout" /\ want' = [full |-> FALSE, force |-> TRUE]
    /\ UNCHANGED <<collected, rescale, redraw, conf, tmp, job, screen, ghosts, events>>

Next ==
    \/ Update \/ Fails \/ Cached \/ Skipped \/ Select \/ MakeScale \/ Clear \/ Draw
    \/ Tick \/ Run \/ KeyZero \/ Layout \/ Resize \/ Stop \/ Resized
    \/ \E k \in DOMAIN conf : KeyScale(k) \/ EditScale(k)
    \/ \E step \in {-1, 1} : KeySwitch(step)

Spec == Init /\ [][Next]_vars
-----------------------------------------------------------------------------
\* The total that is shown is the sum of all bytes since it was zeroed, or since the
\* interface was found: through resets of the counter, keys that zero it and take that
\* back, and updates in between that fail.
TotalsAdd ==
    job.at = "draw" /\ job.full =>
        \A i \in DOMAIN net, dir \in Dirs : net[i].stat[dir].total = since[i][dir]

\* Traffic that has been steady for a while fits into its graph. In sync the lower speed
\* is not counted and needs the scale of the other, which it does not have when the
\* options menu put the graphs in sync, or a key in the middle of a collection.
SteadyFits ==
    job.at = "idle" /\ conf.net_auto /\ steady = 2 * Patience /\ (conf.net_sync => ~missed) =>
        \A dir \in Dirs : net[selected].stat[dir].speed <= graph_max[dir]

\* Two graphs in sync have one scale, unless a key came in the middle of a collection,
\* which cleared `rescale` under the old settings, or the options menu set it.
OneScale ==
    job.at = "idle" /\ conf.net_auto /\ conf.net_sync /\ ~rescale /\ ~missed =>
        graph_max["download"] = graph_max["upload"]

\* What the counters of Net::collect() are for: the scale follows the traffic, in sync
\* but for a change of settings that is `missed`.
ScalesFollow == SteadyFits /\ OneScale

\* Name, graphs and numbers in the box are those of one interface, drawn at the scale
\* they are labelled with, whatever appears, vanishes and is switched to. A key that
\* needs the interface finds it, unless nothing has ever been collected.
BoxOfOneInterface ==
    /\ screen.name = screen.numbers /\ screen.graphs = screen.numbers
    /\ screen.scale = screen.label
    /\ main = "threw" => net = <<>>
===============================================================================
