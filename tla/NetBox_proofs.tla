------------------------------ MODULE NetBox_proofs ------------------------------
(***************************************************************************)
(* The totals of the network box are sums, it is about one interface, and  *)
(* its scale follows the traffic.                                          *)
(***************************************************************************)
EXTENDS NetBox, FiniteSetTheorems, TLAPS

\* The kernel's counters, and the shape of what a job and the screen are.
Shapes ==
    /\ bytes \in [Ifaces -> [Dirs -> Nat]]
    /\ job = [k \in DOMAIN job |-> job[k]] /\ DOMAIN job = {"at", "full", "force", "data"}
    /\ screen = [k \in DOMAIN screen |-> screen[k]]
    /\ DOMAIN screen = {"name", "graphs", "numbers", "scale", "label"}
    /\ conf = [k \in DOMAIN conf |-> conf[k]]
    /\ interfaces \in Seq(Ifaces) /\ DOMAIN net = ToSet(interfaces)
    /\ DOMAIN since = DOMAIN net /\ DOMAIN all = DOMAIN net

\* What a counter has counted since the interface was found is in two fields, and what
\* it has counted since it was zeroed is what the zero point leaves of it.
Balanced(i, dir) ==
    LET s == net[i].stat[dir]
    IN /\ "stat" \in DOMAIN net[i] /\ {"last", "rollover", "offset", "total"} \subseteq DOMAIN s
       /\ {s.last, s.rollover, s.offset} \subseteq Nat
       /\ all[i][dir] = s.last + s.rollover
       /\ s.offset <= all[i][dir] /\ since[i][dir] = all[i][dir] - s.offset
       /\ job.at \in {"select", "scale", "clear", "draw"} /\ job.full => s.total = since[i][dir]
Sums == \A i \in DOMAIN net, dir \in Dirs : Balanced(i, dir)

\* Main has a job to ask for that draws the box anew.
Asked ==
    \/ resized \/ stopping \/ main = "layout"
    \/ main = "run" /\ want.force /\ ~want.full

Fresh == screen.name = selected /\ screen.scale = Top

\* The shown interface is one of those that were found.
Chosen ==
    /\ net # <<>> /\ job.at # "select" => selected \in DOMAIN net
    /\ job.at \in {"scale", "clear"} => net # <<>>
    /\ job.at \in {"begin", "select", "scale", "clear"} => job.data = None
    /\ job.at = "draw" /\ job.data # None => job.data = selected /\ net # <<>>
    /\ main = "threw" => job.at = "idle" /\ net = <<>>
    /\ stopping => main = "stop"

\* What is on the screen is either that, or about to be redrawn.
Redrawn ==
    /\ net = <<>> \/ (job.at = "draw" /\ job.data = None) => redraw
    /\ tmp # <<>> => Asked
    /\ IF job.at = "idle" THEN redraw \/ Asked \/ Fresh ELSE redraw \/ job.force \/ Fresh
    /\ screen.name = screen.numbers /\ screen.graphs = screen.numbers
    /\ screen.scale = screen.label

IInv == Shapes /\ Sums /\ Chosen /\ Redrawn
-----------------------------------------------------------------------------
LEMMA FoundSomething ==
    ASSUME NEW t \in Traffic
    PROVE  /\ t.ifaces \in Seq(Ifaces) /\ ToSet(t.ifaces) \subseteq Ifaces
           /\ ToSet(t.ifaces) # {} /\ t.reset \subseteq ToSet(t.ifaces)
           /\ t.bytes \in [ToSet(t.ifaces) -> [Dirs -> Nat]]
<1>1. t.ifaces \in Seq(ToSet(t.ifaces)) /\ t.ifaces # <<>>
  BY NetBoxAssumption
<1>2. ToSet(t.ifaces) \subseteq Ifaces
  BY DEF Ifaces
<1>3. t.ifaces \in Seq(Ifaces)
  BY <1>1, <1>2
<1>4. 1 \in DOMAIN t.ifaces
  BY <1>1
<1>5. t.ifaces[1] \in ToSet(t.ifaces)
  BY <1>4 DEF ToSet
<1> QED
  BY <1>2, <1>3, <1>5, NetBoxAssumption

LEMMA Nonempty == ASSUME NEW f, NEW x \in DOMAIN f PROVE f # <<>>
  BY DOMAIN <<>> = {}

LEMMA Found ==
    ASSUME NEW s \in Seq(Ifaces), NEW x PROVE Contains(s, x) <=> x \in ToSet(s)
  BY DEF Contains, ToSet

LEMMA CountedBytes ==
    ASSUME NEW t \in Traffic, bytes \in [Ifaces -> [Dirs -> Nat]]
    PROVE  Counts(t) \in [Ifaces -> [Dirs -> Nat]]
<1> SUFFICES ASSUME NEW i \in Ifaces PROVE Counts(t)[i] \in [Dirs -> Nat]
  BY DEF Counts
<1> QED
  BY FoundSomething DEF Counts, Both

\* What of an update the results are about.
LEMMA Updated ==
    ASSUME Update
    PROVE  \E t \in Traffic :
             /\ bytes' = Counts(t) /\ interfaces' = t.ifaces
             /\ net' = [i \in ToSet(t.ifaces) |->
                  [stat |-> [dir \in Dirs |-> Sampled(Known(i).stat[dir], bytes'[i][dir])],
                   connected |-> i \in t.up]]
             /\ all' = [i \in ToSet(t.ifaces) |-> [dir \in Dirs |->
                  (IF i \in DOMAIN all THEN all[i][dir] ELSE 0)
                    + Counted(Known(i).stat[dir].last, bytes'[i][dir])]]
             /\ since' = [i \in ToSet(t.ifaces) |-> [dir \in Dirs |->
                  (IF i \in DOMAIN since THEN since[i][dir] ELSE 0)
                    + Counted(Known(i).stat[dir].last, bytes'[i][dir])]]
  BY DEF Update
-----------------------------------------------------------------------------
LEMMA ShapesBegin == Init => Shapes
  BY DEF Init, Shapes, Idle, Both, ToSet

\* What the runner does to its job.
LEMMA JobMoves ==
    ASSUME Shapes, Fails \/ Cached \/ Skipped \/ Select \/ MakeScale \/ Clear \/ Draw
    PROVE  /\ job' = [k \in DOMAIN job' |-> job'[k]] /\ DOMAIN job' = DOMAIN job
           /\ job'.at \in {"select", "scale", "clear", "draw"} /\ job'.full =>
                job.full /\ job.at \in {"select", "scale", "clear", "draw"}
<1> USE DEF Shapes
<1>2. CASE Fails
  <2>1. job' = [job EXCEPT !.at = "draw", !.full = FALSE]
    BY <1>2 DEF Fails
  <2> QED
    BY <2>1
<1>3. CASE Cached
  <2>1. job' = [job EXCEPT !.at = "select", !.full = FALSE]
    BY <1>3 DEF Cached
  <2> QED
    BY <2>1
<1>4. CASE Skipped \/ Draw
  <2>1. job' = Idle
    BY <1>4 DEF Skipped, Draw
  <2> QED
    BY <2>1 DEF Idle
<1>5. CASE Select \/ MakeScale
  <2>1. /\ job' = [job EXCEPT !.at = "draw"] \/ job' = [job EXCEPT !.at = "scale"]
              \/ job' = [job EXCEPT !.at = "clear"]
        /\ job.at \in {"select", "scale"}
    BY <1>5 DEF Select, MakeScale
  <2> QED
    BY <2>1
<1>6. CASE Clear
  <2>1. job' = [job EXCEPT !.at = "draw", !.data = selected] /\ job.at = "clear"
    BY <1>6 DEF Clear
  <2> QED
    BY <2>1
<1> QED
  BY <1>2, <1>3, <1>4, <1>5, <1>6

\* What a drawing does to the screen.
LEMMA ScreenDrawn ==
    ASSUME Shapes, Draw
    PROVE  /\ screen' = [k \in DOMAIN screen' |-> screen'[k]] /\ DOMAIN screen' = DOMAIN screen
           /\ \/ stopping /\ UNCHANGED <<screen, redraw>>
              \/ /\ ~stopping /\ job.data = None /\ (redraw' <=> redraw \/ job.force)
                 /\ screen'.name = None /\ screen'.graphs = None /\ screen'.numbers = None
                 /\ screen'.scale = screen.scale /\ screen'.label = screen.label
              \/ /\ ~stopping /\ job.data # None /\ (redraw \/ job.force)
                 /\ screen'.name = selected /\ screen'.graphs = job.data
                 /\ screen'.numbers = job.data /\ screen'.scale = Top /\ screen'.label = Top
              \/ /\ ~stopping /\ job.data # None /\ ~redraw /\ ~job.force
                 /\ screen'.name = screen.name /\ screen'.graphs = screen.graphs
                 /\ screen'.numbers = job.data /\ screen'.scale = screen.scale
                 /\ screen'.label = Top
<1> USE DEF Shapes
<1> DEFINE again == redraw \/ job.force
<1>1. CASE stopping
  BY <1>1 DEF Draw
<1>2. CASE ~stopping /\ job.data = None
  <2>1. /\ screen' = [screen EXCEPT !.name = None, !.graphs = None, !.numbers = None]
        /\ redraw' = again
    BY <1>2 DEF Draw
  <2> QED
    BY <1>2, <2>1
<1>3. CASE ~stopping /\ job.data # None
  <2>1. screen' = [screen EXCEPT !.numbers = job.data, !.label = Top,
                    !.name   = IF again THEN selected ELSE @,
                    !.graphs = IF again THEN job.data ELSE @,
                    !.scale  = IF again THEN Top ELSE @]
    BY <1>3 DEF Draw
  <2>2. CASE again
    BY <1>3, <2>1, <2>2, ZenonT(30)
  <2>3. CASE ~again
    BY <1>3, <2>1, <2>3, ZenonT(30)
  <2> QED
    BY <2>2, <2>3
<1> QED
  BY <1>1, <1>2, <1>3

LEMMA ShapesKept == ASSUME Shapes, [Next]_vars PROVE Shapes'
<1> USE DEF Shapes
<1>1. CASE Update
  <2>1. PICK t \in Traffic :
          /\ bytes' = Counts(t) /\ interfaces' = t.ifaces
          /\ DOMAIN net' = ToSet(t.ifaces) /\ DOMAIN all' = ToSet(t.ifaces)
          /\ DOMAIN since' = ToSet(t.ifaces)
    BY <1>1, Updated
  <2>2. bytes' \in [Ifaces -> [Dirs -> Nat]] /\ interfaces' \in Seq(Ifaces)
    BY <2>1, CountedBytes, FoundSomething
  <2>3. job' = [job EXCEPT !.at = "select"] /\ UNCHANGED <<screen, conf>>
    BY <1>1 DEF Update
  <2> QED
    BY <2>1, <2>2, <2>3, ZenonT(30)
<1>2. CASE Fails \/ Cached \/ Skipped \/ Select \/ MakeScale \/ Clear \/ Draw
  <2>1. UNCHANGED <<bytes, net, interfaces, conf, since, all>>
    BY <1>2 DEF Fails, Cached, Skipped, Select, MakeScale, Clear, Draw, collected, ghosts
  <2>2. job' = [k \in DOMAIN job' |-> job'[k]] /\ DOMAIN job' = DOMAIN job
    BY <1>2, JobMoves
  <2>3. screen' = [k \in DOMAIN screen' |-> screen'[k]] /\ DOMAIN screen' = DOMAIN screen
    <3>1. CASE Draw
      BY <3>1, ScreenDrawn
    <3>2. CASE Fails \/ Cached \/ Skipped \/ Select \/ MakeScale \/ Clear
      BY <3>2 DEF Fails, Cached, Skipped, Select, MakeScale, Clear
    <3> QED
      BY <1>2, <3>1, <3>2
  <2> QED
    BY <2>1, <2>2, <2>3
<1>3. CASE Tick \/ Run \/ KeyZero \/ Layout \/ Resize \/ Stop \/ Resized
  BY <1>3, ZenonT(30) DEF Tick, Run, KeyZero, Layout, Resize, Stop, Resized, collected, ghosts, Committed
<1>4. ASSUME NEW k \in DOMAIN conf, KeyScale(k) \/ EditScale(k) PROVE Shapes'
  BY <1>4, ZenonT(30) DEF KeyScale, EditScale, Flip, Committed, collected
<1>5. ASSUME NEW step \in {-1, 1}, KeySwitch(step) PROVE Shapes'
  BY <1>5 DEF KeySwitch
<1>6. CASE UNCHANGED vars
  BY <1>6 DEF vars, collected, ghosts
<1> QED
  BY <1>1, <1>2, <1>3, <1>4, <1>5, <1>6 DEF Next
-----------------------------------------------------------------------------
LEMMA SumsBegin == Init => Sums
  BY DOMAIN <<>> = {} DEF Init, Sums

LEMMA SameSums ==
    ASSUME Sums, UNCHANGED <<net, all, since>>,
           job'.at \in {"select", "scale", "clear", "draw"} /\ job'.full =>
             job.full /\ job.at \in {"select", "scale", "clear", "draw"}
    PROVE  Sums'
<1> SUFFICES ASSUME NEW i \in DOMAIN net', NEW dir \in Dirs PROVE Balanced(i, dir)'
  BY DEF Sums
<1>1. Balanced(i, dir)
  BY DEF Sums
<1> QED
  BY <1>1 DEF Balanced

LEMMA SumsUpdated == ASSUME Shapes, Sums, Update PROVE Sums'
<1>1. PICK t \in Traffic :
        /\ bytes' = Counts(t)
        /\ net' = [i \in ToSet(t.ifaces) |->
             [stat |-> [dir \in Dirs |-> Sampled(Known(i).stat[dir], bytes'[i][dir])],
              connected |-> i \in t.up]]
        /\ all' = [i \in ToSet(t.ifaces) |-> [dir \in Dirs |->
             (IF i \in DOMAIN all THEN all[i][dir] ELSE 0)
               + Counted(Known(i).stat[dir].last, bytes'[i][dir])]]
        /\ since' = [i \in ToSet(t.ifaces) |-> [dir \in Dirs |->
             (IF i \in DOMAIN since THEN since[i][dir] ELSE 0)
               + Counted(Known(i).stat[dir].last, bytes'[i][dir])]]
  BY Updated
<1> SUFFICES ASSUME NEW i \in DOMAIN net', NEW dir \in Dirs PROVE Balanced(i, dir)'
  BY DEF Sums
<1> DEFINE s == Known(i).stat[dir]
           counted == IF i \in DOMAIN all THEN all[i][dir] ELSE 0
           shown == IF i \in DOMAIN since THEN since[i][dir] ELSE 0
           val == bytes'[i][dir]
<1>2. val \in Nat
  <2>1. i \in Ifaces
    BY <1>1, FoundSomething
  <2>2. bytes' \in [Ifaces -> [Dirs -> Nat]]
    BY <1>1, CountedBytes DEF Shapes
  <2> QED
    BY <2>1, <2>2
<1>3. /\ {s.last, s.rollover, s.offset} \subseteq Nat
      /\ counted = s.last + s.rollover /\ s.offset <= counted /\ shown = counted - s.offset
  <2>1. CASE i \in DOMAIN net
    BY <2>1 DEF Sums, Balanced, Shapes, Known
  <2>2. CASE i \notin DOMAIN net
    BY <2>2 DEF Shapes, Known, New, Both
  <2> QED
    BY <2>1, <2>2
<1> DEFINE r == Sampled(s, val)
           more == Counted(s.last, val)
<1>4. /\ "stat" \in DOMAIN net'[i] /\ net'[i].stat[dir] = r
      /\ all'[i][dir] = counted + more /\ since'[i][dir] = shown + more
  BY <1>1
<1> HIDE DEF s, counted, shown, val
<1>5. /\ more \in Nat /\ counted \in Nat /\ shown \in Int
      /\ {"last", "rollover", "offset", "total"} \subseteq DOMAIN r
      /\ {r.last, r.rollover, r.offset} \subseteq Nat
      /\ counted + more = r.last + r.rollover
      /\ r.offset <= counted + more /\ shown + more = counted + more - r.offset
      /\ r.total = shown + more
  BY <1>2, <1>3 DEF Sampled, Counted
<1> HIDE DEF r, more
<1>6. LET q == net'[i].stat[dir]
      IN /\ {"last", "rollover", "offset", "total"} \subseteq DOMAIN q
         /\ {q.last, q.rollover, q.offset} \subseteq Nat
         /\ all'[i][dir] = q.last + q.rollover
         /\ q.offset <= all'[i][dir] /\ since'[i][dir] = all'[i][dir] - q.offset
         /\ q.total = since'[i][dir]
  BY <1>4, <1>5
<1> QED
  BY <1>4, <1>6 DEF Balanced

LEMMA SumsKept == ASSUME Shapes, Sums, [Next]_vars PROVE Sums'
<1>1. CASE Update
  BY <1>1, SumsUpdated
<1>2. CASE Fails \/ Cached \/ Skipped \/ Select \/ MakeScale \/ Clear \/ Draw
  <2>1. UNCHANGED <<net, all, since>>
    BY <1>2 DEF Fails, Cached, Skipped, Select, MakeScale, Clear, Draw, collected, ghosts
  <2>2. job'.at \in {"select", "scale", "clear", "draw"} /\ job'.full =>
          job.full /\ job.at \in {"select", "scale", "clear", "draw"}
    BY <1>2, JobMoves
  <2> QED
    BY <2>1, <2>2, SameSums
<1>3. CASE KeyZero
  <2> SUFFICES ASSUME NEW i \in DOMAIN net', NEW dir \in Dirs PROVE Balanced(i, dir)'
    BY DEF Sums
  <2>1. DOMAIN net' = DOMAIN net
    BY <1>3 DEF KeyZero
  <2>2. Balanced(i, dir)
    BY <2>1 DEF Sums
  <2>3. CASE selected \in DOMAIN net /\ i = selected
    <3> DEFINE s == net[selected].stat
    <3>1. /\ net'[i].stat = [d \in Dirs |-> [s[d] EXCEPT !.offset =
                IF s["download"].offset + s["upload"].offset > 0 THEN 0
                ELSE s[d].last + s[d].rollover]]
          /\ since'[i] = IF s["download"].offset + s["upload"].offset > 0 THEN all[i] ELSE Both(0)
          /\ all' = all /\ job' = job /\ job.at = "idle"
      BY <1>3, <2>2, <2>3 DEF KeyZero, Shapes, Balanced
    <3>2. "stat" \in DOMAIN net'[i]
      BY <1>3, <2>1, <2>2, <2>3 DEF KeyZero, Balanced
    <3>4. LET r == net'[i].stat[dir]
          IN /\ {"last", "rollover", "offset", "total"} \subseteq DOMAIN r /\ r.last = s[dir].last /\ r.rollover = s[dir].rollover
             /\ r.total = s[dir].total
             /\ r.offset = IF s["download"].offset + s["upload"].offset > 0 THEN 0
                           ELSE s[dir].last + s[dir].rollover
      BY <2>2, <2>3, <3>1 DEF Balanced
    <3>5. since'[i][dir] = IF s["download"].offset + s["upload"].offset > 0 THEN all[i][dir] ELSE 0
      BY <3>1 DEF Both
    <3>6. job'.at = "idle" /\ all'[i][dir] = all[i][dir]
      BY <3>1
    <3>7. /\ {s[dir].last, s[dir].rollover} \subseteq Nat
          /\ all[i][dir] = s[dir].last + s[dir].rollover
      BY <2>2, <2>3 DEF Balanced
    <3> HIDE DEF s
    <3>8. LET r == net'[i].stat[dir]
          IN /\ {r.last, r.rollover, r.offset} \subseteq Nat
             /\ all'[i][dir] = r.last + r.rollover
             /\ r.offset <= all'[i][dir] /\ since'[i][dir] = all'[i][dir] - r.offset
      BY <3>4, <3>5, <3>6, <3>7
    <3> QED
      BY <3>2, <3>4, <3>6, <3>8 DEF Balanced
  <2>4. CASE ~(selected \in DOMAIN net /\ i = selected)
    <3>1. net'[i] = net[i] /\ since'[i] = since[i] /\ all' = all /\ job' = job
      BY <1>3, <2>1, <2>4 DEF KeyZero, Shapes
    <3> QED
      BY <2>2, <3>1 DEF Balanced
  <2> QED
    BY <2>3, <2>4
<1>4. CASE Tick \/ Run \/ Layout \/ Resize \/ Stop \/ Resized
  <2>1. UNCHANGED <<net, all, since>> /\ (job' = job \/ job'.at = "begin")
    <3>1. CASE Run
      BY <3>1 DEF Run, collected
    <3>2. CASE Tick \/ Layout \/ Resize \/ Stop \/ Resized
      BY <3>2 DEF Tick, Layout, Resize, Stop, Resized, collected, ghosts
    <3> QED
      BY <1>4, <3>1, <3>2
  <2> QED
    BY <2>1, SameSums
<1>5. ASSUME NEW k \in DOMAIN conf, KeyScale(k) \/ EditScale(k) PROVE Sums'
  <2>1. UNCHANGED <<net, all, since, job>>
    BY <1>5 DEF KeyScale, EditScale, collected
  <2> QED
    BY <2>1, SameSums
<1>6. ASSUME NEW step \in {-1, 1}, KeySwitch(step) PROVE Sums'
  <2>1. UNCHANGED <<net, all, since, job>>
    BY <1>6 DEF KeySwitch
  <2> QED
    BY <2>1, SameSums
<1>7. CASE UNCHANGED vars
  <2>1. UNCHANGED <<net, all, since, job>>
    BY <1>7 DEF vars, collected, ghosts
  <2> QED
    BY <2>1, SameSums
<1> QED
  BY <1>1, <1>2, <1>3, <1>4, <1>5, <1>6, <1>7 DEF Next
-----------------------------------------------------------------------------
LEMMA ChosenBegin == Init => Chosen
  BY DEF Init, Chosen, Idle

LEMMA ChosenKept == ASSUME Shapes, Chosen, [Next]_vars PROVE Chosen'
<1>1. CASE Update
  BY <1>1 DEF Update, Chosen, Shapes
<1>2. CASE Fails
  BY <1>2 DEF Fails, Chosen, Shapes
<1>3. CASE Cached
  BY <1>3 DEF Cached, Chosen, Shapes, collected
<1>4. CASE Skipped
  BY <1>4 DEF Skipped, Chosen, Shapes, collected, Idle
<1>5. CASE Select
  <2>1. net # <<>> => selected' \in DOMAIN net
    BY <1>5, Found DEF Select, Shapes, Busiest
  <2> QED
    BY <1>5, <2>1 DEF Select, Chosen, Shapes
<1>6. CASE MakeScale
  BY <1>6 DEF MakeScale, Chosen, Shapes
<1>7. CASE Clear
  BY <1>7 DEF Clear, Chosen, Shapes, collected
<1>8. CASE Draw
  BY <1>8 DEF Draw, Chosen, Shapes, collected, Idle
<1>9. CASE Tick \/ Layout \/ Resize \/ Stop \/ Resized
  BY <1>9 DEF Tick, Layout, Resize, Stop, Resized, Asks, collected, Chosen
<1>10. CASE Run
  BY <1>10 DEF Run, collected, Chosen
<1>11. CASE KeyZero
  <2>1. selected \notin DOMAIN net => net = <<>>
    BY <1>11 DEF KeyZero, Chosen
  <2>2. net' # <<>> => selected \in DOMAIN net' 
    BY <1>11, <2>1 DEF KeyZero
  <2> QED
    BY <1>11, <2>1, <2>2 DEF KeyZero, Asks, Chosen
<1>12. ASSUME NEW k \in DOMAIN conf, KeyScale(k) \/ EditScale(k) PROVE Chosen'
  BY <1>12 DEF KeyScale, EditScale, Asks, collected, Chosen
<1>13. ASSUME NEW step \in {-1, 1}, KeySwitch(step) PROVE Chosen'
  <2>1. net # <<>> => selected' \in DOMAIN net
    <3>1. CASE Contains(interfaces, selected)
      <4> DEFINE n == Len(interfaces)
                 at == CHOOSE i \in 1..n : interfaces[i] = selected
                 to == ((at - 1 + step + n) % n) + 1
      <4>1. at \in 1..n
        BY <3>1 DEF Contains
      <4>2. to \in 1..n
        BY <4>1, n \in Nat DEF Shapes
      <4>3. selected' = interfaces[to]
        BY <1>13, <3>1 DEF KeySwitch
      <4> HIDE DEF to
      <4> QED
        BY <4>2, <4>3 DEF Shapes, ToSet
    <3>2. CASE ~Contains(interfaces, selected)
      BY <1>13, <3>2 DEF KeySwitch, Chosen
    <3> QED
      BY <3>1, <3>2
  <2> QED
    BY <1>13, <2>1 DEF KeySwitch, Asks, Chosen
<1>14. CASE UNCHANGED vars
  BY <1>14 DEF vars, collected, Chosen
<1> QED
  BY <1>1, <1>2, <1>3, <1>4, <1>5, <1>6, <1>7, <1>8, <1>9, <1>10, <1>11, <1>12, <1>13, <1>14 DEF Next
-----------------------------------------------------------------------------
LEMMA RedrawnBegin == Init => Redrawn
  BY DEF Init, Redrawn, Idle, Both

LEMMA RedrawnKept == ASSUME Shapes, Chosen, Redrawn, [Next]_vars PROVE Redrawn'
<1>1. CASE Update
  <2>1. net' # <<>>
    BY <1>1, Updated, FoundSomething, Nonempty
  <2> QED
    BY <1>1, <2>1 DEF Update, Redrawn, Asked, Fresh, Top, Shapes
<1>2. CASE Fails
  BY <1>2 DEF Fails, Redrawn, Asked, Fresh, Top, Shapes
<1>3. CASE Cached
  BY <1>3 DEF Cached, Redrawn, Asked, Fresh, Top, Shapes, collected
<1>4. CASE Skipped
  BY <1>4 DEF Skipped, Redrawn, Asked, Fresh, Top, Shapes, collected, Idle
<1>5. CASE Select
  BY <1>5 DEF Select, Redrawn, Asked, Fresh, Top, Shapes
<1>6. CASE MakeScale
  BY <1>6 DEF MakeScale, Rescaled, Redrawn, Asked, Fresh, Top, Shapes
<1>7. CASE Clear
  <2>1. job' = [job EXCEPT !.at = "draw", !.data = selected] /\ job.at = "clear"
    BY <1>7 DEF Clear
  <2>2. job'.at = "draw" /\ job'.data = selected /\ job'.force = job.force
    BY <2>1 DEF Shapes
  <2>3. selected # None
    BY <2>1, NetBoxAssumption DEF Chosen, Shapes, ToSet
  <2>4. UNCHANGED <<net, redraw, tmp, resized, stopping, main, want, screen, selected, conf, graph_max>>
    BY <1>7 DEF Clear, collected
  <2> QED
    BY <2>1, <2>2, <2>3, <2>4 DEF Redrawn, Asked, Fresh, Top
<1>8. CASE Draw
  <2>1. UNCHANGED <<net, tmp, resized, stopping, main, want, selected, conf, graph_max>>
    BY <1>8 DEF Draw, collected
  <2>2. job.at = "draw" /\ job'.at = "idle"
    BY <1>8 DEF Draw, Idle
  <2>3. job.data = None => redraw
    BY <2>2 DEF Redrawn
  <2>4. net = <<>> => job.data = None
    BY <2>2 DEF Chosen
  <2> QED
    BY <1>8, <2>1, <2>2, <2>3, <2>4, ScreenDrawn DEF Redrawn, Asked, Fresh, Top, Chosen
<1>9. CASE Tick \/ Resize \/ Stop \/ Resized
  BY <1>9 DEF Tick, Resize, Stop, Resized, Asks, collected, Redrawn, Asked, Fresh, Top, Chosen
<1>10. CASE Layout
  BY <1>10 DEF Layout, collected, Redrawn, Asked, Fresh, Top, Chosen
<1>11. CASE Run
  <2>1. tmp = <<>> => Committed = conf
    BY DOMAIN <<>> = {} DEF Committed, Shapes
  <2> QED
    BY <1>11, <2>1 DEF Run, collected, Redrawn, Asked, Fresh, Top, Chosen
<1>12. CASE KeyZero
  <2>1. selected \in DOMAIN net => net' # <<>>
    BY <1>12, Nonempty DEF KeyZero
  <2> QED
    BY <1>12, <2>1 DEF KeyZero, Asks, Redrawn, Asked, Fresh, Top, Chosen
<1>13. ASSUME NEW k \in DOMAIN conf, KeyScale(k) \/ EditScale(k) PROVE Redrawn'
  BY <1>13 DEF KeyScale, EditScale, Asks, Flip, collected, Redrawn, Asked, Fresh, Top
<1>14. ASSUME NEW step \in {-1, 1}, KeySwitch(step) PROVE Redrawn'
  BY <1>14 DEF KeySwitch, Asks, Redrawn, Asked, Fresh, Top
<1>15. CASE UNCHANGED vars
  BY <1>15 DEF vars, collected, Redrawn, Asked, Fresh, Top
<1> QED
  BY <1>1, <1>2, <1>3, <1>4, <1>5, <1>6, <1>7, <1>8, <1>9, <1>10, <1>11, <1>12, <1>13, <1>14, <1>15 DEF Next
-----------------------------------------------------------------------------
\* The counters, the shown interface and the screen, together.
THEOREM NetBoxInvariant == Spec => []IInv
<1>1. Init => IInv
  BY ShapesBegin, SumsBegin, ChosenBegin, RedrawnBegin DEF IInv
<1>2. IInv /\ [Next]_vars => IInv'
  BY ShapesKept, SumsKept, ChosenKept, RedrawnKept DEF IInv
<1> QED
  BY <1>1, <1>2, PTL DEF Spec

\* The total that is shown is the sum of what the kernel has counted (Net::collect()),
\* whatever is reset, zeroed, stopped or fails, for any interfaces and traffic.
THEOREM TotalsAreSums == Spec => []TotalsAdd
<1>1. IInv => TotalsAdd
  BY DEF IInv, Sums, Balanced, TotalsAdd
<1> QED
  BY <1>1, NetBoxInvariant, PTL

\* Name, graphs, numbers and scale of the box are those of one interface (Net::draw()),
\* and the keys that need an interface find it, for any interfaces and traffic.
THEOREM OneInterfaceShown == Spec => []BoxOfOneInterface
<1>1. IInv => BoxOfOneInterface
  BY DEF IInv, Redrawn, Chosen, BoxOfOneInterface
<1> QED
  BY <1>1, NetBoxInvariant, PTL
-----------------------------------------------------------------------------
(* The sum that a new scale is made of.                                    *)

\* What holds of zero and of a number's successor holds of every number.
LEMMA NatInduct ==
    ASSUME NEW T, T \subseteq Nat, 0 \in T, \A n \in T : n + 1 \in T
    PROVE  T = Nat
<1> SUFFICES ASSUME Nat \ T # {} PROVE FALSE
  OBVIOUS
<1> DEFINE D == {0..n : n \in Nat \ T}
<1>1. D # {} /\ D \subseteq FiniteSubsetsOf(Nat)
  <2>1. ASSUME NEW n \in Nat PROVE 0..n \in FiniteSubsetsOf(Nat)
    BY FS_Interval DEF FiniteSubsetsOf
  <2> QED
    BY <2>1
<1>2. PICK d \in D : \A e \in D : ~ (<<e, d>> \in StrictSubsetOrdering(Nat))
  <2> HIDE DEF D
  <2> QED
  BY <1>1, WFMin, FS_StrictSubsetOrderingWellFounded
<1>3. PICK n \in Nat \ T : d = 0..n
  OBVIOUS
<1>4. n - 1 \in Nat \ T
  OBVIOUS
<1>5. 0..(n - 1) \in D
  BY <1>4
<1>6. <<0..(n - 1), 0..n>> \in StrictSubsetOrdering(Nat)
  <2>1. n \in 0..n /\ n \notin 0..(n - 1) /\ 0..(n - 1) \subseteq 0..n /\ 0..n \subseteq Nat
    OBVIOUS
  <2> QED
    BY <2>1 DEF StrictSubsetOrdering
<1> QED
  BY <1>2, <1>3, <1>5, <1>6

\* The constants the scale is made from.
LEMMA Sizes ==
    /\ Patience \in Nat /\ Average \in Nat \ {0} /\ Average <= Patience
    /\ Fraction \in Nat \ {0} /\ Floor \in Nat
  BY NetBoxAssumption

\* What sums the last speeds from the end on, in steps of one.
Adds(band, f, n) ==
    /\ f \in [0..n -> Nat]
    /\ \A i \in 0..n : f[i] = IF i = 0 THEN 0 ELSE f[i - 1] + band[Len(band) - i + 1]

LEMMA AddsUpTo ==
    ASSUME NEW band \in Seq(Nat), Len(band) > Average
    PROVE  \E f : Adds(band, f, Average)
<1> USE Sizes
<1> DEFINE T == {n \in Nat : n <= Average => \E f : Adds(band, f, n)}
<1>1. 0 \in T
  <2>1. Adds(band, [i \in 0..0 |-> 0], 0)
    BY DEF Adds
  <2> QED
    BY <2>1
<1>2. ASSUME NEW n \in T PROVE n + 1 \in T
  <2> SUFFICES ASSUME n + 1 <= Average PROVE \E f : Adds(band, f, n + 1)
    OBVIOUS
  <2>1. PICK f : Adds(band, f, n)
    OBVIOUS
  <2> DEFINE b == band[Len(band) - (n + 1) + 1]
             g == [i \in 0..(n + 1) |-> IF i = n + 1 THEN f[n] + b ELSE f[i]]
  <2>2. b \in Nat
    OBVIOUS
  <2>3. g \in [0..(n + 1) -> Nat]
    BY <2>1, <2>2, SMTT(30) DEF Adds
  <2>4. ASSUME NEW i \in 0..(n + 1)
        PROVE  g[i] = IF i = 0 THEN 0 ELSE g[i - 1] + band[Len(band) - i + 1]
    <3>1. CASE i = n + 1
      <4>1. g[i] = f[n] + b /\ g[i - 1] = f[n]
        BY <3>1
      <4> HIDE DEF g
      <4> QED
        BY <3>1, <4>1
    <3>2. CASE i \in 0..n
      <4>1. g[i] = f[i] /\ (i # 0 => g[i - 1] = f[i - 1])
        BY <3>2
      <4> HIDE DEF g
      <4> QED
        BY <3>2, <4>1, <2>1 DEF Adds
    <3> QED
      BY <3>1, <3>2
  <2> HIDE DEF g
  <2> QED
    BY <2>3, <2>4 DEF Adds
<1>3. T = Nat
  <2> HIDE DEF T
  <2>1. T \subseteq Nat
    BY DEF T
  <2> QED
    BY <1>1, <1>2, <2>1, NatInduct
<1>4. Average \in T
  BY <1>3
<1> QED
  BY <1>4

LEMMA RecentAdds ==
    ASSUME NEW band \in Seq(Nat), Len(band) > Average
    PROVE  \E f : Adds(band, f, Average) /\ Recent(band) = f[Average]
<1> DEFINE Step(f) == [i \in 0..Average |-> IF i = 0 THEN 0 ELSE f[i - 1] + band[Len(band) - i + 1]]
           sum == CHOOSE f : f = Step(f)
<1>1. Recent(band) = sum[Average]
  BY DEF Recent
<1>2. PICK f : Adds(band, f, Average)
  BY AddsUpTo
<1>3. f = Step(f)
  BY <1>2 DEF Adds
<1>4. sum = Step(sum)
  <2> HIDE DEF Step
  <2> QED
    BY <1>3
<1>5. \A i \in 0..Average : sum[i] = IF i = 0 THEN 0 ELSE sum[i - 1] + band[Len(band) - i + 1]
  <2> HIDE DEF sum
  <2> QED
    BY <1>4
<1> HIDE DEF sum
<1> USE Sizes
<1> DEFINE T == {n \in Nat : n <= Average => sum[n] \in Nat}
<1>6. 0 \in T
  BY <1>5
<1>7. ASSUME NEW n \in T PROVE n + 1 \in T
  <2> SUFFICES ASSUME n + 1 <= Average PROVE sum[n + 1] \in Nat
    OBVIOUS
  <2>1. sum[n + 1] = sum[n] + band[Len(band) - (n + 1) + 1]
    BY <1>5
  <2>2. band[Len(band) - (n + 1) + 1] \in Nat /\ sum[n] \in Nat
    OBVIOUS
  <2> QED
    BY <2>1, <2>2
<1>8. T = Nat
  <2> HIDE DEF T
  <2>1. T \subseteq Nat
    BY DEF T
  <2> QED
    BY <1>6, <1>7, <2>1, NatInduct
<1>9. \A n \in 0..Average : sum[n] \in Nat
  BY <1>8
<1>10. sum = [i \in 0..Average |-> sum[i]]
  <2> SUFFICES DOMAIN sum = 0..Average /\ sum = [i \in DOMAIN sum |-> sum[i]]
    OBVIOUS
  <2> QED
    BY <1>4
<1> QED
  BY <1>1, <1>5, <1>9, <1>10 DEF Adds

\* Equal speeds add up to a multiple.
LEMMA RecentSteady ==
    ASSUME NEW band \in Seq(Nat), Len(band) > Average, NEW d \in Nat,
           \A i \in 1..Average : band[Len(band) - i + 1] = d
    PROVE  Recent(band) \div Average = d
<1> USE Sizes
<1>1. PICK f : Adds(band, f, Average) /\ Recent(band) = f[Average]
  BY RecentAdds
<1>0. \A i \in 1..Average : f[i] = f[i - 1] + d
  <2> SUFFICES ASSUME NEW i \in 1..Average PROVE f[i] = f[i - 1] + d
    OBVIOUS
  <2>1. i \in 0..Average /\ i # 0
    OBVIOUS
  <2>2. f[i] = f[i - 1] + band[Len(band) - i + 1]
    BY <1>1, <2>1 DEF Adds
  <2> QED
    BY <2>2
<1> DEFINE T == {n \in Nat : n <= Average => f[n] = n * d}
<1>2. 0 \in T
  BY <1>1 DEF Adds
<1>3. ASSUME NEW n \in T PROVE n + 1 \in T
  <2> SUFFICES ASSUME n + 1 <= Average PROVE f[n + 1] = (n + 1) * d
    OBVIOUS
  <2>1. f[n + 1] = f[n] + d
    BY <1>0
  <2>2. f[n] = n * d
    OBVIOUS
  <2>3. (n + 1) * d = n * d + d
    OBVIOUS
  <2> QED
    BY <2>1, <2>2, <2>3
<1>4. T = Nat
  <2> HIDE DEF T
  <2>1. T \subseteq Nat
    BY DEF T
  <2> QED
    BY <1>2, <1>3, <2>1, NatInduct
<1>5. Recent(band) = Average * d
  BY <1>1, <1>4
<1>6. (Average * d) \div Average = d
  OBVIOUS
<1> QED
  BY <1>5, <1>6

LEMMA RecentNat ==
    ASSUME NEW band \in Seq(Nat), Len(band) > Average
    PROVE  Recent(band) \div Average \in Nat
<1>1. PICK f : Adds(band, f, Average) /\ Recent(band) = f[Average]
  BY RecentAdds
<1>2. Recent(band) \in Nat
  BY <1>1, Sizes DEF Adds
<1> QED
  BY <1>2, Sizes
-----------------------------------------------------------------------------
(* Types.                                                                  *)

IsInterface(x) ==
    DOMAIN x = {"stat", "connected"} /\ x.stat \in [Dirs -> Stat] /\ x.connected \in BOOLEAN

\* What has been measured are numbers.
Measured ==
    /\ \A i \in DOMAIN net : IsInterface(net[i])
    /\ graph_max \in [Dirs -> Nat] /\ selected \in Ifaces \cup {None}

\* The counters for the scale reach the limit only on the way to a new one.
Low(dir) == max_count[dir].over < Patience /\ max_count[dir].under < Patience
Counting == job.at \in {"select", "scale"} /\ conf.net_auto /\ net # <<>>
Counters ==
    /\ max_count \in [Dirs -> [over : 0..Patience, under : 0..Patience]]
    /\ Counting \/ \A dir \in Dirs : Low(dir)
    /\ steady \in 0..(2 * Patience)

\* What the two threads are at.
Flags ==
    /\ rescale \in BOOLEAN /\ redraw \in BOOLEAN /\ stopping \in BOOLEAN /\ resized \in BOOLEAN
    /\ missed \in BOOLEAN
Settings ==
    /\ conf \in [{"net_sync", "net_auto"} -> BOOLEAN]
    /\ DOMAIN tmp \subseteq DOMAIN conf /\ \A k \in DOMAIN tmp : tmp[k] \in BOOLEAN
Threads ==
    /\ main \in {"free", "layout", "run", "stop", "threw"}
    /\ want.full \in BOOLEAN /\ want.force \in BOOLEAN
    /\ job.at \in {"idle", "begin", "select", "scale", "clear", "draw"}
    /\ job.data \in Ifaces \cup {None} /\ job.full \in BOOLEAN /\ job.force \in BOOLEAN
Box ==
    /\ screen.name \in Ifaces \cup {None} /\ screen.graphs \in Ifaces \cup {None}
    /\ screen.numbers \in Ifaces \cup {None}
Control == Flags /\ Settings /\ Threads /\ Box

\* The bounds, and the failures of getifaddrs().
Bounds ==
    /\ errors \in 0..MaxErrors /\ updates \in 0..MaxUpdates /\ events \in 0..MaxEvents
    /\ job.at = "begin" /\ job.full => updates < MaxUpdates

LEMMA KeptNumbers ==
    ASSUME NEW band \in Seq(Nat), NEW d \in Nat PROVE Kept(Append(band, d)) \in Seq(Nat)
<1>1. Append(band, d) \in Seq(Nat) /\ Append(band, d) # <<>>
  <2>1. Append(band, d) \in Seq(Nat) /\ Len(Append(band, d)) = Len(band) + 1 /\ Len(band) \in Nat
    OBVIOUS
  <2> QED
    BY <2>1, Len(<<>>) = 0
<1>2. Tail(Append(band, d)) \in Seq(Nat)
  BY <1>1
<1> QED
  BY <1>1, <1>2 DEF Kept

LEMMA SampledStat ==
    ASSUME NEW s \in Stat, NEW val \in Nat PROVE Sampled(s, val) \in Stat
<1> DEFINE rollover == IF val < s.last THEN s.rollover + s.last ELSE s.rollover
           speed == IF updates = 0 THEN 0 ELSE Counted(s.last, val)
           offset == IF s.offset > val + rollover THEN 0 ELSE s.offset
<1>1. /\ s.last \in Nat /\ s.rollover \in Nat /\ s.offset \in Nat /\ s.band \in Seq(Nat)
  BY DEF Stat
<1>2. rollover \in Nat /\ speed \in Nat
  BY <1>1 DEF Counted
<1>3. offset \in Nat /\ val + rollover - offset \in Nat
  <2> HIDE DEF rollover
  <2> QED
    BY <1>1, <1>2
<1>4. Kept(Append(s.band, speed)) \in Seq(Nat)
  BY <1>1, <1>2, KeptNumbers
<1>5. Sampled(s, val) = [last |-> val, rollover |-> rollover, offset |-> offset,
        total |-> val + rollover - offset, speed |-> speed, band |-> Kept(Append(s.band, speed))]
  BY DEF Sampled
<1> HIDE DEF rollover, speed, offset
<1> QED
  BY <1>2, <1>3, <1>4, <1>5 DEF Stat

LEMMA KnownStat ==
    ASSUME Measured, NEW i, NEW dir \in Dirs PROVE Known(i).stat[dir] \in Stat
<1>1. New.stat[dir] \in Stat
  <2>1. New.stat[dir] = [last |-> 0, rollover |-> 0, offset |-> 0, total |-> 0, speed |-> 0,
                         band |-> <<>>]
    BY DEF New, Both
  <2> QED
    BY <2>1 DEF Stat
<1> QED
  BY <1>1 DEF Known, Measured, IsInterface

LEMMA MeasuredUpdated == ASSUME Shapes, Measured, Update PROVE Measured'
<1>1. PICK t \in Traffic :
        /\ bytes' = Counts(t) /\ interfaces' = t.ifaces
        /\ net' = [i \in ToSet(t.ifaces) |->
             [stat |-> [dir \in Dirs |-> Sampled(Known(i).stat[dir], bytes'[i][dir])],
              connected |-> i \in t.up]]
  BY Updated
<1>2. bytes' \in [Ifaces -> [Dirs -> Nat]] /\ ToSet(t.ifaces) \subseteq Ifaces
  BY <1>1, CountedBytes, FoundSomething DEF Shapes
<1>3. ASSUME NEW i \in ToSet(t.ifaces)
      PROVE  IsInterface(net'[i])
  <2>1. \A dir \in Dirs : Sampled(Known(i).stat[dir], bytes'[i][dir]) \in Stat
    BY <1>2, KnownStat, SampledStat
  <2>2. /\ net'[i].stat = [dir \in Dirs |-> Sampled(Known(i).stat[dir], bytes'[i][dir])]
        /\ net'[i].connected = (i \in t.up)
        /\ DOMAIN net'[i] = {"stat", "connected"}
    BY <1>1
  <2> QED
    BY <2>1, <2>2 DEF IsInterface
<1>4. DOMAIN net' = ToSet(t.ifaces) /\ UNCHANGED <<graph_max, selected>>
  BY <1>1 DEF Update
<1> QED
  BY <1>3, <1>4 DEF Measured

LEMMA ScaleNat ==
    ASSUME Measured, selected \in DOMAIN net, NEW dir \in Dirs PROVE Scale(dir) \in Nat
<1> DEFINE s == net[selected].stat[dir]
           avg == IF Len(s.band) > Average THEN Recent(s.band) \div Average ELSE s.speed
<1>1. s.band \in Seq(Nat) /\ s.speed \in Nat
  BY DEF Measured, IsInterface, Stat
<1>2. avg \in Nat
  BY <1>1, RecentNat
<1>3. Scale(dir) = Larger(Floor, IF rescale \/ max_count[dir].over >= Patience
                                   THEN (13 * avg) \div 10 ELSE 3 * avg)
  BY DEF Scale
<1> HIDE DEF avg
<1> QED
  BY <1>2, <1>3, Sizes DEF Larger

LEMMA RescaledMeasured ==
    ASSUME Shapes, Measured, Chosen, MakeScale PROVE graph_max' \in [Dirs -> Nat]
<1>1. CASE UNCHANGED graph_max
  BY <1>1 DEF Measured
<1>2. CASE graph_max' # graph_max
  <2>1. selected \in DOMAIN net
    BY DEF MakeScale, Chosen
  <2>2. PICK first \in Dirs, for \in SUBSET Dirs :
          graph_max' = [dir \in Dirs |-> IF dir \notin for THEN graph_max[dir]
                                         ELSE Scale(IF conf.net_sync THEN first ELSE dir)]
    <3> DEFINE due == {dir \in Dirs : Due(dir)}
               first == IF "download" \in due THEN "download" ELSE "upload"
               for == IF conf.net_sync THEN Dirs ELSE due
    <3>1. graph_max' = [dir \in Dirs |-> IF dir \notin for THEN graph_max[dir]
                                          ELSE Scale(IF conf.net_sync THEN first ELSE dir)]
      BY <1>2 DEF MakeScale, Rescaled
    <3>2. first \in Dirs /\ for \in SUBSET Dirs
      BY DEF Dirs
    <3> HIDE DEF first, for
    <3> QED
      BY <3>1, <3>2
  <2>3. \A dir \in Dirs : Scale(dir) \in Nat
    BY <2>1, ScaleNat
  <2> QED
    BY <2>2, <2>3 DEF Measured
<1> QED
  BY <1>1, <1>2

LEMMA MeasuredKept == ASSUME Shapes, Chosen, Measured, [Next]_vars PROVE Measured'
<1>1. CASE Update
  BY <1>1, MeasuredUpdated
<1>2. CASE MakeScale
  BY <1>2, RescaledMeasured DEF MakeScale, Measured
<1>3. CASE Select
  <2>1. selected' \in Ifaces \cup {None}
    <3>1. \A i \in Busiest : i \in Ifaces
      BY DEF Busiest, Shapes, ToSet
    <3>2. selected' = selected \/ selected' = Preferred \/ selected' \in Busiest
      BY <1>3 DEF Select
    <3> QED
      BY <3>1, <3>2, NetBoxAssumption DEF Measured
  <2> QED
    BY <1>3, <2>1 DEF Select, Measured
<1>4. CASE KeyZero
  <2>1. CASE selected \notin DOMAIN net
    BY <1>4, <2>1 DEF KeyZero, Measured
  <2>2. CASE selected \in DOMAIN net
    <3> DEFINE s == net[selected].stat
               zeroed == s["download"].offset + s["upload"].offset > 0
               stat == [dir \in Dirs |-> [s[dir] EXCEPT !.offset = IF zeroed THEN 0
                                            ELSE s[dir].last + s[dir].rollover]]
    <3>1. net' = [net EXCEPT ![selected].stat = stat]
      BY <1>4, <2>2 DEF KeyZero
    <3>2. s \in [Dirs -> Stat]
      BY <2>2 DEF Measured, IsInterface
    <3>3. stat \in [Dirs -> Stat]
      <4> SUFFICES ASSUME NEW dir \in Dirs PROVE stat[dir] \in Stat
        OBVIOUS
      <4>1. s[dir] \in Stat
        BY <3>2
      <4>2. (IF zeroed THEN 0 ELSE s[dir].last + s[dir].rollover) \in Nat
        <5>1. s[dir].last \in Nat /\ s[dir].rollover \in Nat
          BY <4>1 DEF Stat
        <5> HIDE DEF zeroed, s
        <5> QED
          BY <5>1
      <4> HIDE DEF zeroed, s
      <4> QED
        BY <4>1, <4>2 DEF Stat
    <3> HIDE DEF stat, s
    <3>4. ASSUME NEW i \in DOMAIN net
          PROVE IsInterface(net'[i])
      <4>1. CASE i = selected
        <5>1. net'[i] = [net[i] EXCEPT !.stat = stat]
          BY <3>1, <4>1
        <5>2. IsInterface(net[i])
          BY DEF Measured
        <5> QED
          BY <5>1, <5>2, <3>3 DEF IsInterface
      <4>2. CASE i # selected
        BY <3>1, <4>2 DEF Measured
      <4> QED
        BY <4>1, <4>2
    <3>5. UNCHANGED <<graph_max, selected>> /\ DOMAIN net' = DOMAIN net
      BY <1>4, <3>1 DEF KeyZero
    <3> QED
      BY <3>4, <3>5 DEF Measured
  <2> QED
    BY <2>1, <2>2
<1>5. ASSUME NEW step \in {-1, 1}, KeySwitch(step) PROVE Measured'
  <2>1. selected' \in Ifaces \cup {None}
    <3>1. Chosen' /\ job'.at = "idle" /\ net' = net
      BY <1>5, ChosenKept DEF KeySwitch, Next
    <3>2. CASE net # <<>>
      BY <3>1, <3>2 DEF Chosen, Shapes, ToSet
    <3>3. CASE net = <<>>
      <4>1. ~Contains(interfaces, selected)
        BY <3>3, Found, DOMAIN <<>> = {} DEF Shapes
      <4> QED
        BY <4>1, <1>5 DEF KeySwitch, Measured
    <3> QED
      BY <3>2, <3>3
  <2> QED
    BY <1>5, <2>1 DEF KeySwitch, Measured
<1>6. CASE Fails \/ Cached \/ Skipped \/ Clear \/ Draw \/ Tick \/ Run \/ Layout \/ Resize \/ Stop
             \/ Resized
  BY <1>6 DEF Fails, Cached, Skipped, Clear, Draw, Tick, Run, Layout, Resize, Stop, Resized,
              collected, Measured
<1>7. ASSUME NEW k \in DOMAIN conf, KeyScale(k) \/ EditScale(k) PROVE Measured'
  BY <1>7 DEF KeyScale, EditScale, collected, Measured
<1>8. CASE UNCHANGED vars
  BY <1>8 DEF vars, collected, Measured
<1> QED
  BY <1>1, <1>2, <1>3, <1>4, <1>5, <1>6, <1>7, <1>8 DEF Next
-----------------------------------------------------------------------------
(* The counters for the scale.                                             *)

Speed(dir) == net[selected].stat[dir].speed
Shown == conf.net_auto /\ selected \in DOMAIN net

LEMMA BothDirs == "download" \in Dirs /\ "upload" \in Dirs /\ \A dir \in Dirs : Other(dir) \in Dirs
  BY DEF Dirs, Other

\* What an update does to them. The speed that a speed is compared with is a present one,
\* if it is not the download.
LEMMA UpdatedCounters ==
    ASSUME Shapes, Measured, Update
    PROVE  /\ net' # <<>> /\ job.at = "begin" /\ job'.at = "select"
           /\ UNCHANGED <<selected, graph_max, conf, tmp, rescale, missed>>
           /\ ~Shown' => max_count' = max_count /\ steady' = 0
           /\ Shown' =>
                /\ \A dir \in Dirs : \E val \in Nat :
                     net'[selected].stat[dir] = Sampled(Known(selected).stat[dir], val)
                /\ max_count' = [dir \in Dirs |-> Count(dir, Speed(dir)',
                       IF dir = "download" THEN Known(selected).stat["upload"].speed
                       ELSE Speed("download")')]
                /\ steady' = IF \E dir \in Dirs : Speed(dir)' # Known(selected).stat[dir].speed THEN 1
                             ELSE IF steady < 2 * Patience THEN steady + 1 ELSE steady
<1>1. PICK t \in Traffic :
        /\ bytes' = Counts(t)
        /\ net' = [i \in ToSet(t.ifaces) |->
             [stat |-> [dir \in Dirs |-> Sampled(Known(i).stat[dir], bytes'[i][dir])],
              connected |-> i \in t.up]]
        /\ LET shown == conf.net_auto /\ selected \in ToSet(t.ifaces)
               was == Known(selected).stat
               is == net'[selected].stat
           IN /\ max_count' = IF shown
                   THEN [dir \in Dirs |-> Count(dir, is[dir].speed,
                           IF dir = "download" THEN was["upload"].speed ELSE is["download"].speed)]
                   ELSE max_count
              /\ steady' = IF ~shown THEN 0
                           ELSE IF \E dir \in Dirs : is[dir].speed # was[dir].speed THEN 1
                           ELSE IF steady < 2 * Patience THEN steady + 1 ELSE steady
  BY DEF Update
<1>2. /\ job.at = "begin" /\ job' = [job EXCEPT !.at = "select"]
      /\ UNCHANGED <<selected, graph_max, conf, tmp, rescale, missed>>
  BY DEF Update
<1>3. job'.at = "select"
  BY <1>2 DEF Shapes
<1>4. DOMAIN net' = ToSet(t.ifaces)
  BY <1>1
<1>5. net' # <<>>
  BY <1>4, FoundSomething, Nonempty
<1>6. Shown' <=> conf.net_auto /\ selected \in ToSet(t.ifaces)
  BY <1>2, <1>4 DEF Shown
<1>7. ASSUME selected \in ToSet(t.ifaces), NEW dir \in Dirs
      PROVE  \E val \in Nat : net'[selected].stat[dir] = Sampled(Known(selected).stat[dir], val)
  <2>1. bytes'[selected][dir] \in Nat
    <3>1. selected \in Ifaces /\ bytes' \in [Ifaces -> [Dirs -> Nat]]
      BY <1>1, <1>7, CountedBytes, FoundSomething DEF Shapes
    <3> QED
      BY <3>1
  <2>2. net'[selected].stat[dir] = Sampled(Known(selected).stat[dir], bytes'[selected][dir])
    BY <1>1, <1>7
  <2> QED
    BY <2>1, <2>2
<1>8. \A dir : Speed(dir)' = net'[selected].stat[dir].speed
  BY <1>2 DEF Speed
<1>9. CASE ~Shown'
  BY <1>1, <1>2, <1>3, <1>5, <1>6, <1>9
<1>10. CASE Shown'
  <2>1. max_count' = [dir \in Dirs |-> Count(dir, net'[selected].stat[dir].speed,
                       IF dir = "download" THEN Known(selected).stat["upload"].speed
                       ELSE net'[selected].stat["download"].speed)]
    BY <1>1, <1>6, <1>10
  <2>2. steady' = IF \E dir \in Dirs : net'[selected].stat[dir].speed # Known(selected).stat[dir].speed
                  THEN 1 ELSE IF steady < 2 * Patience THEN steady + 1 ELSE steady
    BY <1>1, <1>6, <1>10
  <2>3. max_count' = [dir \in Dirs |-> Count(dir, Speed(dir)',
                       IF dir = "download" THEN Known(selected).stat["upload"].speed
                       ELSE Speed("download")')]
    BY <2>1, <1>8
  <2>4. steady' = IF \E dir \in Dirs : Speed(dir)' # Known(selected).stat[dir].speed THEN 1
                  ELSE IF steady < 2 * Patience THEN steady + 1 ELSE steady
    BY <2>2, <1>8
  <2> QED
    BY <1>2, <1>3, <1>5, <1>6, <1>7, <1>10, <2>3, <2>4
<1> QED
  BY <1>9, <1>10

LEMMA CountMoves ==
    ASSUME Measured, Counters, NEW dir \in Dirs, Low(dir), NEW speed \in Nat, NEW other \in Nat
    PROVE  /\ Count(dir, speed, other) \in [over : 0..Patience, under : 0..Patience]
           /\ conf.net_sync /\ speed < other => Count(dir, speed, other) = max_count[dir]
           /\ (conf.net_sync => speed >= other) /\ speed > graph_max[dir] =>
                Count(dir, speed, other).over = max_count[dir].over + 1
<1> DEFINE c == max_count[dir]
<1>1. c \in [over : 0..Patience, under : 0..Patience] /\ c.over < Patience /\ c.under < Patience
  BY DEF Counters, Low
<1>2. /\ c.over \in Nat /\ c.under \in Nat /\ Fewer(c.over) \in 0..Patience
      /\ Fewer(c.under) \in 0..Patience /\ c.over + 1 \in 0..Patience /\ c.under + 1 \in 0..Patience
  BY <1>1, Sizes DEF Fewer
<1>3. graph_max[dir] \in Nat
  BY DEF Measured
<1>4. CASE conf.net_sync /\ speed < other
  BY <1>1, <1>4 DEF Count
<1>5. CASE (conf.net_sync => speed >= other) /\ speed > graph_max[dir]
  <2>1. Count(dir, speed, other) = [over |-> c.over + 1, under |-> Fewer(c.under)]
    BY <1>5 DEF Count
  <2> QED
    BY <2>1, <1>2, <1>5
<1>6. CASE (conf.net_sync => speed >= other) /\ ~(speed > graph_max[dir])
  <2>1. \/ Count(dir, speed, other) = [over |-> Fewer(c.over), under |-> c.under + 1]
        \/ Count(dir, speed, other) = c
    BY <1>6 DEF Count
  <2> QED
    BY <2>1, <1>1, <1>2, <1>6
<1> QED
  BY <1>4, <1>5, <1>6

LEMMA SpeedsNat ==
    ASSUME Measured
    PROVE  /\ \A i : \A dir \in Dirs : Known(i).stat[dir].speed \in Nat
           /\ selected \in DOMAIN net => \A dir \in Dirs : Speed(dir) \in Nat
<1>1. ASSUME NEW i, NEW dir \in Dirs PROVE Known(i).stat[dir].speed \in Nat
  BY KnownStat DEF Stat
<1> QED
  BY <1>1 DEF Known, Speed

\* What making a scale does to the counters.
LEMMA RescaledCounters ==
    ASSUME Shapes, Chosen, Measured, Counters, MakeScale
    PROVE  /\ \A dir \in Dirs : Low(dir)'
           /\ max_count' \in [Dirs -> [over : 0..Patience, under : 0..Patience]]
<1> DEFINE due == {dir \in Dirs : Due(dir)}
           for == IF conf.net_sync THEN Dirs ELSE due
<1>1. CASE ~conf.net_auto
  <2>1. max_count' = max_count /\ \A dir \in Dirs : Low(dir)
    BY <1>1 DEF MakeScale, Counters, Counting
  <2> QED
    BY <2>1 DEF Counters, Low
<1>2. ASSUME NEW dir \in Dirs, dir \notin due PROVE Low(dir)
  <2>1. max_count[dir].over \in 0..Patience /\ max_count[dir].under \in 0..Patience
    BY DEF Counters
  <2> QED
    BY <1>2, <2>1, Sizes DEF Due, Low
<1>3. CASE conf.net_auto /\ due = {}
  <2>1. max_count' = max_count
    BY <1>3 DEF MakeScale, Rescaled
  <2> QED
    BY <1>2, <1>3, <2>1 DEF Counters, Low
<1>4. CASE conf.net_auto /\ due # {}
  <2>1. max_count' = [dir \in Dirs |-> IF dir \in for THEN [over |-> 0, under |-> 0]
                                       ELSE max_count[dir]]
    BY <1>4 DEF MakeScale, Rescaled
  <2>2. \A dir \in Dirs : dir \notin for => Low(dir)
    BY <1>2
  <2>3. 0 \in 0..Patience /\ 0 < Patience
    BY Sizes
  <2> HIDE DEF for
  <2>4. ASSUME NEW dir \in Dirs
        PROVE  Low(dir)' /\ max_count'[dir] \in [over : 0..Patience, under : 0..Patience]
    <3>1. CASE dir \in for
      BY <2>1, <2>3, <3>1 DEF Low
    <3>2. CASE dir \notin for
      BY <2>1, <2>2, <3>2 DEF Low, Counters
    <3> QED
      BY <3>1, <3>2
  <2> QED
    BY <2>1, <2>4
<1> QED
  BY <1>1, <1>3, <1>4

LEMMA CountersKept ==
    ASSUME Shapes, Chosen, Measured, Measured', Counters, [Next]_vars PROVE Counters'
<1>1. CASE Update
  <2>1. \A dir \in Dirs : Low(dir)
    BY <1>1, UpdatedCounters DEF Counters, Counting
  <2>2. steady' \in 0..(2 * Patience)
    <3>1. steady' = 0 \/ steady' = 1 \/ (steady < 2 * Patience /\ steady' = steady + 1) \/ steady' = steady
      BY <1>1, UpdatedCounters
    <3> QED
      BY <3>1, Sizes DEF Counters
  <2>3. CASE ~Shown'
    BY <1>1, <2>1, <2>2, <2>3, UpdatedCounters DEF Counters, Low
  <2>4. CASE Shown'
    <3>1. max_count' = [dir \in Dirs |-> Count(dir, Speed(dir)',
                       IF dir = "download" THEN Known(selected).stat["upload"].speed
                       ELSE Speed("download")')]
      BY <1>1, <2>4, UpdatedCounters
    <3>2. \A dir \in Dirs : Speed(dir)' \in Nat
      <4>1. selected' \in DOMAIN net'
        BY <2>4 DEF Shown
      <4>2. net'[selected'].stat \in [Dirs -> Stat]
        BY <4>1 DEF Measured, IsInterface
      <4> QED
        BY <4>2 DEF Speed, Stat
    <3>3. ASSUME NEW dir \in Dirs
          PROVE  Count(dir, Speed(dir)', IF dir = "download" THEN Known(selected).stat["upload"].speed
                       ELSE Speed("download")') \in [over : 0..Patience, under : 0..Patience]
      <4> DEFINE other == IF dir = "download" THEN Known(selected).stat["upload"].speed
                          ELSE Speed("download")'
      <4>1. other \in Nat
        BY <3>2, SpeedsNat, BothDirs
      <4> HIDE DEF other
      <4>2. Count(dir, Speed(dir)', other) \in [over : 0..Patience, under : 0..Patience]
        BY <4>1, <3>2, <2>1, CountMoves
      <4> QED
        BY <4>2 DEF other
    <3>4. max_count' \in [Dirs -> [over : 0..Patience, under : 0..Patience]]
      BY <3>1, <3>3
    <3>5. Counting'
      BY <1>1, <2>4, UpdatedCounters DEF Counting, Shown
    <3> QED
      BY <2>2, <3>4, <3>5 DEF Counters
  <2> QED
    BY <2>3, <2>4
<1>2. CASE MakeScale
  <2>1. steady' \in 0..(2 * Patience)
    BY <1>2, Sizes DEF MakeScale, Counters
  <2> QED
    BY <1>2, <2>1, RescaledCounters DEF Counters
<1>3. CASE Select
  <2>1. CASE UNCHANGED <<max_count, steady>>
    <3>1. net = <<>> => \A dir \in Dirs : Low(dir)
      BY DEF Counters, Counting
    <3>2. net # <<>> => job'.at = "scale" /\ job.at = "select"
      BY <1>3 DEF Select, Shapes
    <3>3. UNCHANGED <<conf, net>>
      BY <1>3 DEF Select
    <3> QED
      BY <2>1, <3>1, <3>2, <3>3 DEF Counters, Counting, Low
  <2>2. CASE max_count' = Both([over |-> 0, under |-> 0]) /\ steady' = 0
    BY <2>2, Sizes DEF Counters, Low, Both
  <2> QED
    BY <1>3, <2>1, <2>2 DEF Select
<1>4. CASE Fails \/ Cached \/ Skipped \/ Clear \/ Draw \/ Tick \/ Resize \/ Stop \/ Resized
             \/ UNCHANGED vars
  <2>1. UNCHANGED <<max_count, steady, conf, net>>
    BY <1>4 DEF Fails, Cached, Skipped, Clear, Draw, Tick, Resize, Stop, Resized, collected, ghosts,
                vars
  <2>2. job' = job \/ job.at \in {"begin", "clear", "draw"}
    BY <1>4 DEF Fails, Cached, Skipped, Clear, Draw, Tick, Resize, Stop, Resized, vars
  <2>3. CASE job' = job
    BY <2>1, <2>3 DEF Counters, Counting, Low
  <2>4. CASE job.at \in {"begin", "clear", "draw"}
    BY <2>1, <2>4 DEF Counters, Counting, Low
  <2> QED
    BY <2>2, <2>3, <2>4
<1>5. CASE Run \/ Layout \/ KeyZero \/ (\E step \in {-1, 1} : KeySwitch(step))
  <2>1. max_count' = max_count /\ job.at \notin {"select", "scale"}
    BY <1>5 DEF Run, Layout, KeyZero, KeySwitch, collected, Chosen
  <2>2. steady' = steady \/ steady' = 0
    BY <1>5 DEF Run, Layout, KeyZero, KeySwitch
  <2> QED
    BY <2>1, <2>2, Sizes DEF Counters, Counting, Low
<1>6. ASSUME NEW k \in DOMAIN conf, KeyScale(k) \/ EditScale(k) PROVE Counters'
  <2>1. max_count' = max_count /\ job' = job /\ net' = net
    BY <1>6 DEF KeyScale, EditScale, collected
  <2>2. (job.at = "idle" /\ steady' = 0) \/ (conf' = conf /\ steady' = steady)
    <3>1. Flip(k)
      BY <1>6 DEF KeyScale, EditScale
    <3> QED
      BY <3>1 DEF Flip
  <2> QED
    BY <2>1, <2>2, Sizes DEF Counters, Counting, Low
<1> QED
  BY <1>1, <1>2, <1>3, <1>4, <1>5, <1>6 DEF Next
-----------------------------------------------------------------------------
(* Steady traffic and its scale.                                           *)

\* The last n of the speeds that are kept are the present one.
Held(s, n) == \A k \in Nat : k < n /\ k < Len(s.band) => s.band[Len(s.band) - k] = s.speed

\* Steady traffic is on record. A speed over its scale is counted, unless the other is
\* higher and in sync with it; only a scale made while the record still held older speeds
\* can be too low, and it starts the count anew. The lower of two steady speeds in sync
\* asks for no scale.
Tailed == selected \in DOMAIN net => \A dir \in Dirs : Held(net[selected].stat[dir], steady)
Over(dir) == Speed(dir) > graph_max[dir] /\ (conf.net_sync => Speed(dir) >= Speed(Other(dir)))
Waits == Shown => \A dir \in Dirs : Over(dir) => steady <= max_count[dir].over + Patience
LowerRests ==
    Shown /\ conf.net_sync /\ steady >= 2 /\ job.at \in {"select", "scale"} =>
        \A dir \in Dirs : Speed(dir) < Speed(Other(dir)) => Low(dir)
Follows == Tailed /\ Waits /\ LowerRests

LEMMA HeldLonger ==
    ASSUME NEW s \in Stat, NEW val \in Nat, NEW n \in Nat,
           n = 0 \/ (Held(s, n) /\ Sampled(s, val).speed = s.speed)
    PROVE  Held(Sampled(s, val), n + 1)
<1> DEFINE r == Sampled(s, val)
           d == r.speed
           more == Append(s.band, d)
<1>1. r.band = Kept(more) /\ s.band \in Seq(Nat) /\ d \in Nat
  <2>1. r \in Stat
    BY SampledStat
  <2> QED
    BY <2>1 DEF Stat, Sampled
<1> SUFFICES ASSUME NEW k \in Nat, k < n + 1, k < Len(r.band) PROVE r.band[Len(r.band) - k] = d
  BY DEF Held
<1> HIDE DEF r, d
<1>2. /\ more \in Seq(Nat) /\ Len(more) = Len(s.band) + 1 /\ more[Len(more)] = d
      /\ \A i \in 1..Len(s.band) : more[i] = s.band[i]
  BY <1>1
<1>3. k > 0 => k - 1 \in Nat /\ k - 1 < n
  OBVIOUS
<1>4. ASSUME k > 0, k <= Len(s.band) PROVE more[Len(more) - k] = d
  <2>1. Held(s, n) /\ d = s.speed
    <3>1. n # 0
      BY <1>3, <1>4
    <3> QED
      BY <3>1 DEF r, d
  <2>3. s.band[Len(s.band) - (k - 1)] = s.speed
    <3>1. k - 1 \in Nat /\ k - 1 < n /\ k - 1 < Len(s.band)
      BY <1>1, <1>3, <1>4
    <3> QED
      BY <2>1, <3>1 DEF Held
  <2>2. Len(more) - k = Len(s.band) - (k - 1) /\ Len(more) - k \in 1..Len(s.band)
    BY <1>1, <1>2, <1>4
  <2> QED
    BY <1>2, <2>1, <2>2, <2>3
<1>5. k <= Len(s.band) => more[Len(more) - k] = d
  <2>1. k = 0 => Len(more) - k = Len(more)
    BY <1>2
  <2> QED
    BY <1>2, <1>4, <2>1
<1> HIDE DEF more
<1>6. CASE r.band = more
  BY <1>2, <1>5, <1>6, SMTT(30)
<1>7. CASE r.band = Tail(more)
  <2>1. Len(Tail(more)) = Len(more) - 1 /\ \A i \in 1..(Len(more) - 1) : Tail(more)[i] = more[i + 1]
    <3>1. more # <<>>
      BY <1>1, <1>2, Len(<<>>) = 0
    <3> QED
      BY <1>2, <3>1
  <2>2. k <= Len(s.band) /\ Len(more) - 1 - k \in 1..(Len(more) - 1)
    <3>1. k < Len(Tail(more))
      BY <1>7
    <3>2. Len(s.band) \in Nat /\ Len(more) = Len(s.band) + 1 /\ Len(Tail(more)) = Len(more) - 1
      BY <1>1, <1>2, <2>1
    <3> QED
      BY <3>1, <3>2
  <2>3. Tail(more)[Len(more) - 1 - k] = more[Len(more) - 1 - k + 1]
    BY <2>1, <2>2
  <2>4. Len(more) - 1 - k + 1 = Len(more) - k
    BY <1>1, <1>2
  <2> QED
    BY <1>5, <1>7, <2>1, <2>2, <2>3, <2>4
<1> QED
  BY <1>1, <1>6, <1>7 DEF Kept

\* A new scale has room for a speed that has been steady for as long as it is made of.
LEMMA ScaleFits ==
    ASSUME Measured, selected \in DOMAIN net, NEW dir \in Dirs,
           Held(net[selected].stat[dir], Average)
    PROVE  Speed(dir) <= Scale(dir)
<1> DEFINE s == net[selected].stat[dir]
           avg == IF Len(s.band) > Average THEN Recent(s.band) \div Average ELSE s.speed
<1>1. s.band \in Seq(Nat) /\ s.speed \in Nat
  BY DEF Measured, IsInterface, Stat
<1>2. avg = s.speed
  <2> SUFFICES ASSUME Len(s.band) > Average PROVE Recent(s.band) \div Average = s.speed
    OBVIOUS
  <2>1. ASSUME NEW i \in 1..Average PROVE s.band[Len(s.band) - i + 1] = s.speed
    <3>1. i - 1 \in Nat /\ i - 1 < Average /\ i - 1 < Len(s.band)
      BY <1>1, Sizes
    <3>2. s.band[Len(s.band) - (i - 1)] = s.speed
      BY <3>1 DEF Held
    <3>3. Len(s.band) - (i - 1) = Len(s.band) - i + 1
      BY <1>1, Sizes
    <3> QED
      BY <3>2, <3>3
  <2> QED
    BY <1>1, <2>1, RecentSteady
<1>3. Scale(dir) = Larger(Floor, IF rescale \/ max_count[dir].over >= Patience
                                   THEN (13 * avg) \div 10 ELSE 3 * avg)
  BY DEF Scale
<1> HIDE DEF avg
<1>4. (13 * avg) \div 10 >= avg /\ 3 * avg >= avg /\ avg \in Nat
  BY <1>1, <1>2
<1> QED
  BY <1>2, <1>3, <1>4, Sizes DEF Larger, Speed

LEMMA FollowsAtOnce ==
    ASSUME Counters', steady' = 0 PROVE Follows'
<1>1. \A dir \in Dirs : max_count'[dir].over \in 0..Patience
  BY DEF Counters
<1> QED
  BY <1>1, Sizes DEF Follows, Tailed, Waits, LowerRests, Held

LEMMA FollowsStill ==
    ASSUME Counters, Follows,
           UNCHANGED <<net, selected, graph_max, max_count, steady, conf>>,
           job'.at \in {"select", "scale"} => job.at \in {"select", "scale"} \/ ~Counting
    PROVE  Follows'
<1>1. Tailed' /\ Waits'
  BY DEF Follows, Tailed, Waits, Shown, Over, Speed
<1>2. LowerRests'
  BY DEF Follows, LowerRests, Shown, Speed, Low, Counters
<1> QED
  BY <1>1, <1>2 DEF Follows

\* A key that zeroes the totals leaves the speeds alone.
LEMMA FollowsZeroed ==
    ASSUME Shapes, Chosen, Measured, Follows, KeyZero PROVE Follows'
<1>1. /\ UNCHANGED <<selected, graph_max, max_count, steady, conf, job>>
      /\ job.at = "idle"
  BY DEF KeyZero
<1>2. CASE selected \notin DOMAIN net
  BY <1>1, <1>2 DEF KeyZero, Follows, Tailed, Waits, LowerRests, Shown, Over, Speed
<1>3. CASE selected \in DOMAIN net
  <2> DEFINE s == net[selected].stat
             zeroed == s["download"].offset + s["upload"].offset > 0
             stat == [dir \in Dirs |-> [s[dir] EXCEPT !.offset = IF zeroed THEN 0
                                          ELSE s[dir].last + s[dir].rollover]]
  <2>1. net' = [net EXCEPT ![selected].stat = stat]
    BY <1>3 DEF KeyZero
  <2>2. "stat" \in DOMAIN net[selected] /\ s \in [Dirs -> Stat]
    BY <1>3 DEF Measured, IsInterface
  <2>3. net'[selected].stat = stat /\ DOMAIN net' = DOMAIN net
    BY <1>3, <2>1, <2>2
  <2>4. ASSUME NEW dir \in Dirs PROVE stat[dir].speed = s[dir].speed /\ stat[dir].band = s[dir].band
    <3>1. s[dir] \in Stat
      BY <2>2
    <3> QED
      BY <3>1 DEF Stat
  <2> HIDE DEF stat
  <2>5. Tailed'
    BY <1>1, <1>3, <2>3, <2>4 DEF Follows, Tailed, Held
  <2>6. \A dir \in Dirs : Speed(dir)' = Speed(dir)
    BY <1>1, <2>3, <2>4 DEF Speed
  <2>7. Waits'
    BY <1>1, <2>3, <2>6, BothDirs DEF Follows, Waits, Shown, Over
  <2>8. LowerRests'
    BY <1>1 DEF LowerRests
  <2> QED
    BY <2>5, <2>7, <2>8 DEF Follows
<1> QED
  BY <1>2, <1>3

\* The main part: an update, and a new scale.
LEMMA FollowsUpdated ==
    ASSUME Shapes, Chosen, Measured, Measured', Counters, Counters', Follows, Update,
           net = <<>> => steady = 0
    PROVE  Follows'
<1>1. CASE ~Shown'
  BY <1>1, UpdatedCounters, FollowsAtOnce
<1>2. CASE Shown'
  <2> DEFINE was(dir) == Known(selected).stat[dir]
             changed == \E dir \in Dirs : Speed(dir)' # was(dir).speed
             other(dir) == IF dir = "download" THEN was("upload").speed ELSE Speed("download")'
  <2>1. /\ UNCHANGED <<selected, graph_max, conf>> /\ job.at = "begin"
        /\ \A dir \in Dirs : \E val \in Nat : net'[selected].stat[dir] = Sampled(was(dir), val)
        /\ max_count' = [dir \in Dirs |-> Count(dir, Speed(dir)', other(dir))]
        /\ steady' = IF changed THEN 1 ELSE IF steady < 2 * Patience THEN steady + 1 ELSE steady
    BY <1>1, <1>2, UpdatedCounters
  <2>2. \A dir \in Dirs : Low(dir)
    BY <2>1 DEF Counters, Counting
  <2>3. \A dir \in Dirs : Speed(dir)' \in Nat /\ was(dir).speed \in Nat /\ was(dir) \in Stat
    <3>1. net'[selected'].stat \in [Dirs -> Stat]
      BY <1>2 DEF Measured, IsInterface, Shown
    <3> QED
      BY <3>1, SpeedsNat, KnownStat DEF Speed, Stat
  <2>4. \A dir \in Dirs : other(dir) \in Nat
    BY <2>3, BothDirs
  <2>5. steady \in Nat /\ steady' \in Nat
    BY DEF Counters
  <2>6. steady > 0 => selected \in DOMAIN net
    BY <2>1 DEF Chosen
  <2>7. ASSUME selected \in DOMAIN net, NEW dir \in Dirs PROVE was(dir) = net[selected].stat[dir]
    BY <2>7 DEF Known
  <2>8. Tailed'
    <3> SUFFICES ASSUME NEW dir \in Dirs PROVE Held(net'[selected].stat[dir], steady')
      BY <2>1 DEF Tailed
    <3>1. PICK val \in Nat : net'[selected].stat[dir] = Sampled(was(dir), val)
      BY <2>1
    <3>2. Speed(dir)' = Sampled(was(dir), val).speed
      BY <2>1, <3>1 DEF Speed
    <3>3. CASE changed
      BY <2>1, <2>3, <3>1, <3>3, HeldLonger
    <3>4. CASE ~changed
      <4>1. steady > 0 => Held(was(dir), steady)
        BY <2>6, <2>7 DEF Follows, Tailed
      <4>2. steady = 0 \/ steady > 0
        BY <2>5
      <4>3. Held(Sampled(was(dir), val), steady + 1)
        <5>1. steady = 0 \/ (Held(was(dir), steady) /\ Sampled(was(dir), val).speed = was(dir).speed)
          BY <3>2, <3>4, <4>1, <4>2
        <5> QED
          BY <5>1, <2>3, <2>5, HeldLonger
      <4>4. steady' <= steady + 1
        BY <2>1, <2>5, <3>4
      <4> QED
        BY <2>5, <3>1, <4>3, <4>4 DEF Held
    <3> QED
      BY <3>3, <3>4
  <2>9. ASSUME NEW dir \in Dirs
        PROVE  /\ conf.net_sync /\ Speed(dir)' < other(dir) => max_count'[dir] = max_count[dir]
               /\ (conf.net_sync => Speed(dir)' >= other(dir)) /\ Speed(dir)' > graph_max[dir] =>
                    max_count'[dir].over = max_count[dir].over + 1
    <3>1. max_count'[dir] = Count(dir, Speed(dir)', other(dir))
      BY <2>1
    <3> DEFINE speed == Speed(dir)'
               and == other(dir)
    <3>2. speed \in Nat /\ and \in Nat
      BY <2>3, <2>4
    <3> HIDE DEF speed, and
    <3>3. /\ conf.net_sync /\ speed < and => Count(dir, speed, and) = max_count[dir]
          /\ (conf.net_sync => speed >= and) /\ speed > graph_max[dir] =>
               Count(dir, speed, and).over = max_count[dir].over + 1
      BY <2>2, <3>2, CountMoves
    <3> QED
      BY <3>1, <3>3 DEF speed, and
  \* With the speeds of the update before, each is compared with the other.
  <2>10. ASSUME ~changed, NEW dir \in Dirs
         PROVE  other(dir) = Speed(Other(dir))' /\ Speed(dir)' = was(dir).speed
    BY <2>10 DEF Dirs, Other
  <2>11. Waits'
    <3> SUFFICES ASSUME NEW dir \in Dirs, Over(dir)' PROVE steady' <= max_count'[dir].over + Patience
      BY DEF Waits
    <3>1. max_count[dir].over \in Nat /\ max_count'[dir].over \in Nat
      BY DEF Counters
    <3>2. CASE changed
      BY <2>1, <3>1, <3>2, Sizes
    <3>3. CASE ~changed
      <4>1. /\ Speed(dir)' > graph_max[dir] /\ (conf.net_sync => Speed(dir)' >= Speed(Other(dir))')
        BY <2>1 DEF Over
      <4>2. max_count'[dir].over = max_count[dir].over + 1
        BY <2>9, <2>10, <3>3, <4>1
      <4>3. CASE steady = 0
        BY <2>1, <3>1, <3>3, <4>3, Sizes
      <4>4. CASE steady > 0
        <5>1. Shown
          BY <1>2, <2>1, <2>6, <4>4 DEF Shown
        <5>2. \A d \in Dirs : Speed(d) = Speed(d)'
          BY <2>6, <2>7, <2>10, <3>3, <4>4 DEF Speed
        <5>3. Over(dir)
          BY <4>1, <5>2, BothDirs DEF Over
        <5>4. steady <= max_count[dir].over + Patience
          BY <5>1, <5>3 DEF Follows, Waits
        <5>5. steady' <= steady + 1
          BY <2>1, <2>5, <3>3
        <5> QED
          BY <2>5, <3>1, <4>2, <5>4, <5>5, Sizes
      <4> QED
        BY <2>5, <4>3, <4>4
    <3> QED
      BY <3>2, <3>3
  <2>12. LowerRests'
    <3> SUFFICES ASSUME conf.net_sync, steady' >= 2, NEW dir \in Dirs,
                        Speed(dir)' < Speed(Other(dir))'
                 PROVE  Low(dir)'
      BY <2>1 DEF LowerRests
    <3>1. ~changed
      BY <2>1
    <3>2. max_count'[dir] = max_count[dir]
      BY <2>9, <2>10, <3>1
    <3> QED
      BY <2>2, <3>2 DEF Low
  <2> QED
    BY <2>8, <2>11, <2>12 DEF Follows
<1> QED
  BY <1>1, <1>2

LEMMA FollowsRescaled ==
    ASSUME Shapes, Chosen, Measured, Counters, Counters', Follows, MakeScale
    PROVE  Follows'
<1>1. /\ UNCHANGED <<net, selected, conf>> /\ job'.at = "clear"
      /\ steady' = IF rescale THEN 0 ELSE steady
      /\ selected \in DOMAIN net /\ job.at = "scale"
  BY DEF MakeScale, Shapes, Chosen
<1>2. CASE rescale
  BY <1>1, <1>2, FollowsAtOnce
<1>3. CASE ~rescale
  <2>1. steady' = steady /\ steady \in Nat
    BY <1>1, <1>3 DEF Counters
  <2>2. Tailed'
    BY <1>1, <2>1 DEF Follows, Tailed
  <2>3. LowerRests'
    BY <1>1 DEF LowerRests
  <2>4. \A dir : Speed(dir)' = Speed(dir)
    BY <1>1 DEF Speed
  <2>5. ASSUME Shown, NEW dir \in Dirs, Over(dir)' PROVE steady <= max_count'[dir].over + Patience
    <3> DEFINE due == {d \in Dirs : Due(d)}
               first == IF "download" \in due THEN "download" ELSE "upload"
               for == IF conf.net_sync THEN Dirs ELSE due
               of == IF conf.net_sync THEN first ELSE dir
    <3>1. max_count'[dir].over \in Nat
      BY DEF Counters
    <3>2. CASE due = {} \/ dir \notin for
      <4>1. graph_max'[dir] = graph_max[dir] /\ max_count'[dir] = max_count[dir]
        BY <2>5, <3>2 DEF MakeScale, Rescaled, Shown
      <4>2. Over(dir)
        BY <1>1, <2>4, <2>5, <4>1 DEF Over
      <4> QED
        BY <2>5, <4>1, <4>2 DEF Follows, Waits
    <3>3. CASE due # {} /\ dir \in for
      <4>1. graph_max'[dir] = Scale(of)
        BY <2>5, <3>3 DEF MakeScale, Rescaled, Shown
      <4>2. of \in Dirs /\ Due(of)
        BY <3>3 DEF Dirs
      <4> SUFFICES ASSUME steady > Patience PROVE FALSE
        BY <2>1, <3>1, Sizes
      <4>3. Held(net[selected].stat[of], Average)
        <5>1. Held(net[selected].stat[of], steady)
          BY <1>1, <4>2 DEF Follows, Tailed
        <5> QED
          BY <2>1, <5>1, Sizes DEF Held
      <4>4. Speed(of) <= Scale(of) /\ Speed(of) \in Nat /\ Scale(of) \in Nat /\ Speed(dir) \in Nat
        BY <1>1, <4>2, <4>3, ScaleFits, ScaleNat, SpeedsNat
      <4>5. Speed(dir) > Scale(of) /\ (conf.net_sync => Speed(dir) >= Speed(Other(dir)))
        BY <1>1, <2>4, <2>5, <4>1 DEF Over
      <4>6. of # dir
        BY <4>4, <4>5
      <4>7. conf.net_sync /\ of = Other(dir) /\ dir = Other(of)
        BY <4>2, <4>6 DEF Dirs, Other
      <4>8. Speed(of) < Speed(Other(of))
        BY <4>4, <4>5, <4>7
      <4>9. steady >= 2
        BY <2>1, Sizes
      <4>10. Low(of)
        BY <1>1, <2>5, <4>2, <4>7, <4>8, <4>9 DEF Follows, LowerRests
      <4>11. max_count[of].over \in Nat /\ max_count[of].under \in Nat
        BY <4>2 DEF Counters
      <4> QED
        BY <1>3, <4>2, <4>10, <4>11, Sizes DEF Low, Due
    <3> QED
      BY <3>2, <3>3
  <2>6. Waits'
    BY <1>1, <2>1, <2>5 DEF Waits, Shown
  <2> QED
    BY <2>2, <2>3, <2>6 DEF Follows
<1> QED
  BY <1>2, <1>3

\* How the runner goes through its job, and that nothing else moves it on.
LEMMA JobGoes ==
    ASSUME Shapes,
           Fails \/ Cached \/ Skipped \/ Clear \/ Draw \/ Tick \/ Resize \/ Stop \/ Resized \/ UNCHANGED vars
    PROVE  \/ job' = job
           \/ job.at = "begin" /\ job'.at \in {"select", "draw", "idle"} /\ (Cached \/ job'.at # "select")
           \/ job.at = "clear" /\ job'.at = "draw"
           \/ job.at = "draw" /\ job'.at = "idle"
<1>1. CASE Fails
  <2>1. job.at = "begin" /\ job' = [job EXCEPT !.at = "draw", !.full = FALSE]
    BY <1>1 DEF Fails
  <2> QED
    BY <2>1 DEF Shapes
<1>2. CASE Cached
  <2>1. job.at = "begin" /\ job' = [job EXCEPT !.at = "select", !.full = FALSE]
    BY <1>2 DEF Cached
  <2> QED
    BY <1>2, <2>1 DEF Shapes
<1>3. CASE Clear
  <2>1. job.at = "clear" /\ job' = [job EXCEPT !.at = "draw", !.data = selected]
    BY <1>3 DEF Clear
  <2> QED
    BY <2>1 DEF Shapes
<1>4. CASE Skipped \/ Draw
  BY <1>4 DEF Skipped, Draw, Idle
<1>5. CASE Tick \/ Resize \/ Stop \/ Resized \/ UNCHANGED vars
  BY <1>5 DEF Tick, Resize, Stop, Resized, vars
<1> QED
  BY <1>1, <1>2, <1>3, <1>4, <1>5

LEMMA FollowsKept ==
    ASSUME Shapes, Chosen, Measured, Measured', Counters, Counters', Follows,
           net = <<>> => steady = 0, [Next]_vars
    PROVE  Follows'
<1>1. CASE Update
  BY <1>1, FollowsUpdated
<1>2. CASE MakeScale
  BY <1>2, FollowsRescaled
<1>3. CASE Select
  <2>1. CASE steady' = 0
    BY <2>1, FollowsAtOnce
  <2>2. CASE UNCHANGED <<selected, max_count, steady>>
    BY <1>3, <2>2, FollowsStill DEF Select
  <2> QED
    BY <1>3, <2>1, <2>2 DEF Select
<1>4. CASE Fails \/ Cached \/ Skipped \/ Clear \/ Draw \/ Tick \/ Resize \/ Stop \/ Resized
             \/ UNCHANGED vars
  <2>1. UNCHANGED <<net, selected, graph_max, max_count, steady, conf>>
    BY <1>4 DEF Fails, Cached, Skipped, Clear, Draw, Tick, Resize, Stop, Resized, collected, ghosts,
                vars
  <2>2. job' = job \/ job.at = "begin" \/ job'.at \in {"draw", "idle"}
    BY <1>4, JobGoes
  <2> QED
    BY <2>1, <2>2, FollowsStill DEF Counting
<1>6. CASE KeyZero
  BY <1>6, FollowsZeroed
<1>7. CASE Run \/ Layout
  <2>1. UNCHANGED <<net, selected, graph_max, max_count>>
    BY <1>7 DEF Run, Layout, collected
  <2>2. job.at = "idle" /\ job'.at \in {"idle", "begin"}
    BY <1>7 DEF Run, Layout
  <2>3. steady' = 0 \/ UNCHANGED <<steady, conf>>
    BY <1>7 DEF Run, Layout
  <2>4. CASE UNCHANGED <<steady, conf>>
    BY <2>1, <2>2, <2>4, FollowsStill
  <2> QED
    BY <2>3, <2>4, FollowsAtOnce
<1>8. ASSUME NEW k \in DOMAIN conf, KeyScale(k) \/ EditScale(k) PROVE Follows'
  <2>1. UNCHANGED <<net, selected, graph_max, max_count, job>>
    BY <1>8 DEF KeyScale, EditScale, collected
  <2>2. steady' = 0 \/ UNCHANGED <<steady, conf>>
    <3>1. Flip(k)
      BY <1>8 DEF KeyScale, EditScale
    <3> QED
      BY <3>1 DEF Flip
  <2>3. CASE UNCHANGED <<steady, conf>>
    BY <2>1, <2>3, FollowsStill
  <2> QED
    BY <2>2, <2>3, FollowsAtOnce
<1>9. ASSUME NEW step \in {-1, 1}, KeySwitch(step) PROVE Follows'
  <2>1. steady' = 0 \/ UNCHANGED <<selected, steady>>
    BY <1>9 DEF KeySwitch
  <2>2. UNCHANGED <<net, graph_max, max_count, conf, job>>
    BY <1>9 DEF KeySwitch
  <2>3. CASE UNCHANGED <<selected, steady>>
    BY <2>2, <2>3, FollowsStill
  <2> QED
    BY <2>1, <2>3, FollowsAtOnce
<1> QED
  BY <1>1, <1>2, <1>3, <1>4, <1>6, <1>7, <1>8, <1>9 DEF Next
-----------------------------------------------------------------------------
(* One scale for two graphs in sync.                                       *)

\* A scale is asked for before the traffic has been steady with it; two graphs in sync
\* got one scale with the last of them; and another setting that waits for the unlock
\* has none yet, unless it only takes back what is read now.
InSync == conf.net_auto /\ conf.net_sync
Synced ==
    /\ net = <<>> => steady = 0
    /\ rescale /\ ~missed =>
         steady = 0 \/ job.at = "scale" \/ (job.at = "select" /\ net # <<>>)
    /\ InSync /\ ~missed /\ (~rescale \/ job.at = "clear") =>
         graph_max["download"] = graph_max["upload"]
    /\ tmp # <<>> /\ ~InSync => missed

LEMMA SyncedRescaled ==
    ASSUME Shapes, Chosen, Control, Synced, MakeScale PROVE Synced'
<1>1. /\ UNCHANGED <<net, rescale, conf, tmp>> /\ job'.at = "clear" /\ job.at = "scale"
      /\ steady' = IF rescale THEN 0 ELSE steady
  BY DEF MakeScale, Shapes
<1>2. /\ net' = <<>> => steady' = 0
      /\ rescale' /\ ~missed' => steady' = 0
  BY <1>1 DEF Synced
<1> DEFINE due == {dir \in Dirs : Due(dir)}
<1>3. CASE ~conf.net_auto \/ due = {}
  <2>1. UNCHANGED <<graph_max, missed>>
    BY <1>3 DEF MakeScale, Rescaled
  <2>2. InSync => ~rescale
    BY <1>3, BothDirs DEF Due, InSync
  <2> QED
    BY <1>1, <1>2, <2>1, <2>2 DEF Synced, InSync
<1>4. CASE conf.net_auto /\ due # {}
  <2>1. Rescaled
    BY <1>4 DEF MakeScale
  <2>2. missed' = (missed /\ ~conf.net_sync)
    BY <1>4, <2>1 DEF Rescaled
  <2>3. conf.net_sync => graph_max'["download"] = graph_max'["upload"]
    BY <1>4, <2>1, BothDirs DEF Rescaled
  <2>4. tmp' # <<>> /\ ~InSync' => missed'
    BY <1>1, <1>4, <2>2 DEF Synced, InSync
  <2> QED
    BY <1>1, <1>2, <2>3, <2>4 DEF Synced, InSync
<1> QED
  BY <1>3, <1>4

LEMMA SyncedKept ==
    ASSUME Shapes, Chosen, Control, Synced, [Next]_vars PROVE Synced'
<1>1. CASE Update
  <2>1. /\ net' # <<>> /\ job.at = "begin" /\ job'.at = "select"
        /\ UNCHANGED <<graph_max, conf, tmp, rescale, missed>>
    BY <1>1, Updated, FoundSomething, Nonempty DEF Update, Shapes
  <2> QED
    BY <2>1 DEF Synced, InSync
<1>2. CASE MakeScale
  BY <1>2, SyncedRescaled
<1>3. CASE Select
  <2>1. UNCHANGED <<net, graph_max, conf, tmp, missed>> /\ job.at = "select"
    BY <1>3 DEF Select
  <2>2. CASE net = <<>>
    <3>1. UNCHANGED <<rescale, steady>>
      BY <1>3, <2>2 DEF Select
    <3>2. job'.at = "draw"
      BY <1>3, <2>2 DEF Select, Shapes
    <3> QED
      BY <2>1, <2>2, <3>1, <3>2 DEF Synced, InSync
  <2>3. CASE net # <<>>
    <3>1. job'.at = "scale" /\ (rescale' = rescale \/ rescale' = (rescale \/ conf.net_auto))
      BY <1>3, <2>3 DEF Select, Shapes
    <3> QED
      BY <2>1, <2>3, <3>1 DEF Synced, InSync
  <2> QED
    BY <2>2, <2>3
<1>4. CASE Clear
  <2>1. rescale' = FALSE /\ UNCHANGED <<net, steady, graph_max, conf, tmp, missed>> /\ job.at = "clear"
    BY <1>4 DEF Clear, collected, ghosts
  <2> QED
    BY <2>1 DEF Synced, InSync
<1>5. CASE Fails \/ Cached \/ Skipped \/ Draw \/ Tick \/ Resize \/ Stop \/ Resized \/ UNCHANGED vars
  <2>1. UNCHANGED <<net, steady, rescale, graph_max, conf, tmp, missed>>
    BY <1>5 DEF Fails, Cached, Skipped, Draw, Tick, Resize, Stop, Resized, collected, ghosts, vars
  <2>2. job' = job \/ (job.at \in {"begin", "draw"} /\ job'.at \in {"select", "draw", "idle"})
    <3>1. CASE Fails \/ Cached \/ Skipped \/ Draw
      <4>1. job.at # "clear"
        BY <3>1 DEF Fails, Cached, Skipped, Draw
      <4> QED
        BY <3>1, <4>1, JobGoes
    <3>2. CASE Tick \/ Resize \/ Stop \/ Resized \/ UNCHANGED vars
      BY <3>2 DEF Tick, Resize, Stop, Resized, vars
    <3> QED
      BY <1>5, <3>1, <3>2
  <2> QED
    BY <2>1, <2>2 DEF Synced, InSync
<1>6. CASE Run \/ Layout
  <2>1. UNCHANGED <<net, rescale, graph_max, missed>> /\ job.at = "idle" /\ job'.at \in {"idle", "begin"}
    BY <1>6 DEF Run, Layout, collected
  <2>2. CASE UNCHANGED <<steady, conf, tmp>>
    BY <2>1, <2>2 DEF Synced, InSync
  <2>3. CASE conf' = Committed /\ tmp' = <<>> /\ (steady' = 0 \/ (steady' = steady /\ conf' = conf))
    <3>1. tmp = <<>> => Committed = conf
      BY DOMAIN <<>> = {} DEF Committed, Shapes
    <3>2. InSync' /\ ~missed' => InSync
      BY <2>1, <2>3, <3>1 DEF Synced, InSync
    <3> QED
      BY <2>1, <2>3, <3>2 DEF Synced
  <2> QED
    BY <1>6, <2>2, <2>3 DEF Run, Layout
<1>7. CASE KeyZero
  <2>1. UNCHANGED <<steady, rescale, graph_max, conf, tmp, missed, job>>
    BY <1>7 DEF KeyZero
  <2>2. net' = <<>> => net = <<>>
    <3>1. CASE selected \in DOMAIN net
      <4>1. DOMAIN net' = DOMAIN net
        BY <1>7 DEF KeyZero
      <4> QED
        BY <3>1, <4>1, Nonempty
    <3>2. CASE selected \notin DOMAIN net
      BY <1>7, <3>2 DEF KeyZero
    <3> QED
      BY <3>1, <3>2
  <2>3. job.at = "idle"
    BY <1>7 DEF KeyZero
  <2> QED
    BY <2>1, <2>2, <2>3 DEF Synced, InSync
<1>8. ASSUME NEW k \in DOMAIN conf, KeyScale(k) PROVE Synced'
  <2>1. /\ UNCHANGED <<net, graph_max, job>> /\ rescale' = TRUE
        /\ missed' = (missed \/ job.at # "idle") /\ Flip(k)
    BY <1>8 DEF KeyScale, collected
  <2>2. CASE job.at = "idle"
    <3>1. steady' = 0 /\ tmp' = <<>>
      BY <2>1, <2>2 DEF Flip
    <3> QED
      BY <2>1, <2>2, <3>1 DEF Synced
  <2>3. CASE job.at # "idle"
    <3>1. steady' = steady
      BY <2>1, <2>3 DEF Flip
    <3> QED
      BY <2>1, <2>3, <3>1 DEF Synced
  <2> QED
    BY <2>2, <2>3
<1>9. ASSUME NEW k \in DOMAIN conf, EditScale(k) PROVE Synced'
  <2>1. net' = net /\ missed' = TRUE /\ Flip(k)
    BY <1>9 DEF EditScale, collected
  <2>2. steady' = 0 \/ steady' = steady
    BY <2>1 DEF Flip
  <2> QED
    BY <2>1, <2>2 DEF Synced
<1>10. ASSUME NEW step \in {-1, 1}, KeySwitch(step) PROVE Synced'
  <2>1. UNCHANGED <<net, graph_max, conf, tmp, missed, job>> /\ job.at = "idle"
    BY <1>10 DEF KeySwitch
  <2>2. (rescale' = TRUE /\ steady' = 0) \/ UNCHANGED <<rescale, steady>>
    BY <1>10 DEF KeySwitch
  <2> QED
    BY <2>1, <2>2 DEF Synced, InSync
<1> QED
  BY <1>1, <1>2, <1>3, <1>4, <1>5, <1>6, <1>7, <1>8, <1>9, <1>10 DEF Next
-----------------------------------------------------------------------------
(* What the two threads are at.                                            *)

LEMMA SettingsTyped ==
    ASSUME Control
    PROVE  /\ Committed \in [{"net_sync", "net_auto"} -> BOOLEAN]
           /\ \A k \in DOMAIN conf : Flip(k) =>
                /\ conf' \in [{"net_sync", "net_auto"} -> BOOLEAN]
                /\ DOMAIN tmp' \subseteq DOMAIN conf' /\ \A l \in DOMAIN tmp' : tmp'[l] \in BOOLEAN
<1>1. Committed \in [{"net_sync", "net_auto"} -> BOOLEAN]
  BY DEF Control, Settings, Committed
<1>2. ASSUME NEW k \in DOMAIN conf, Flip(k)
      PROVE  /\ conf' \in [{"net_sync", "net_auto"} -> BOOLEAN]
             /\ DOMAIN tmp' \subseteq DOMAIN conf' /\ \A l \in DOMAIN tmp' : tmp'[l] \in BOOLEAN
  <2>1. CASE job.at = "idle"
    <3>1. conf' = [Committed EXCEPT ![k] = ~@] /\ tmp' = <<>>
      BY <1>2, <2>1 DEF Flip
    <3>2. conf' \in [{"net_sync", "net_auto"} -> BOOLEAN]
      BY <1>1, <3>1
    <3> QED
      BY <3>1, <3>2, DOMAIN <<>> = {}
  <2>2. CASE job.at # "idle"
    <3>1. /\ conf' = conf
          /\ tmp' = [l \in DOMAIN tmp \cup {k} |-> IF l = k THEN ~Committed[k] ELSE tmp[l]]
      BY <1>2, <2>2 DEF Flip
    <3>2. DOMAIN tmp' = DOMAIN tmp \cup {k}
      BY <3>1
    <3>3. ASSUME NEW l \in DOMAIN tmp' PROVE tmp'[l] \in BOOLEAN
      BY <3>1, <3>3 DEF Control, Settings
    <3> QED
      BY <3>1, <3>2, <3>3 DEF Control, Settings
  <2> QED
    BY <2>1, <2>2
<1> QED
  BY <1>1, <1>2

LEMMA FlagsKept == ASSUME Flags, Settings, [Next]_vars PROVE Flags'
<1>1. CASE Update \/ Fails \/ Cached
  BY <1>1 DEF Update, Fails, Cached, collected, ghosts, Flags
<1>2. CASE Skipped \/ Tick \/ Run \/ KeyZero \/ Layout
  BY <1>2 DEF Skipped, Tick, Run, KeyZero, Layout, collected, ghosts, Flags
<1>3. CASE Resize \/ Stop \/ Resized \/ UNCHANGED vars
  BY <1>3 DEF Resize, Stop, Resized, vars, collected, ghosts, Flags
<1>4. CASE Select
  <2>1. /\ rescale' = rescale \/ rescale' = (rescale \/ conf.net_auto)
        /\ redraw' = redraw \/ redraw' = TRUE
        /\ UNCHANGED <<stopping, resized, missed>>
    BY <1>4 DEF Select
  <2> QED
    BY <2>1 DEF Flags, Settings
<1>5. CASE MakeScale
  <2>1. redraw' = redraw \/ redraw' = TRUE
    BY <1>5 DEF MakeScale, Rescaled
  <2>2. missed' = missed \/ missed' = (missed /\ ~conf.net_sync)
    BY <1>5 DEF MakeScale, Rescaled
  <2>3. UNCHANGED <<rescale, stopping, resized>>
    BY <1>5 DEF MakeScale
  <2> QED
    BY <2>1, <2>2, <2>3 DEF Flags
<1>6. CASE Clear
  BY <1>6 DEF Clear, collected, ghosts, Flags
<1>7. CASE Draw
  <2>1. redraw' = redraw \/ redraw' = FALSE \/ redraw' = (redraw \/ job.force)
    BY <1>7 DEF Draw
  <2>2. UNCHANGED <<rescale, stopping, resized, missed>>
    BY <1>7 DEF Draw, ghosts
  <2> QED
    BY <2>1, <2>2 DEF Flags
<1>8. ASSUME NEW k \in DOMAIN conf, KeyScale(k) \/ EditScale(k) PROVE Flags'
  <2>1. /\ rescale' = rescale \/ rescale' = TRUE
        /\ missed' = TRUE \/ missed' = (missed \/ job.at # "idle")
        /\ UNCHANGED <<redraw, stopping, resized>>
    BY <1>8 DEF KeyScale, EditScale, collected
  <2> QED
    BY <2>1 DEF Flags
<1>9. ASSUME NEW step \in {-1, 1}, KeySwitch(step) PROVE Flags'
  BY <1>9 DEF KeySwitch, Flags
<1> QED
  BY <1>1, <1>2, <1>3, <1>4, <1>5, <1>6, <1>7, <1>8, <1>9 DEF Next

LEMMA SettingsKept == ASSUME Control, [Next]_vars PROVE Settings'
<1>1. CASE Update \/ Fails \/ Cached \/ Skipped \/ Select \/ MakeScale \/ Clear \/ Draw
  BY <1>1 DEF Update, Fails, Cached, Skipped, Select, MakeScale, Clear, Draw, Control, Settings
<1>2. CASE Tick \/ KeyZero \/ Resize \/ Stop \/ Resized \/ UNCHANGED vars
  BY <1>2 DEF Tick, KeyZero, Resize, Stop, Resized, vars, Control, Settings
<1>3. CASE Run \/ Layout
  <2>1. UNCHANGED <<conf, tmp>> \/ (conf' = Committed /\ tmp' = <<>>)
    BY <1>3 DEF Run, Layout
  <2> QED
    BY <2>1, SettingsTyped, DOMAIN <<>> = {} DEF Control, Settings
<1>4. ASSUME NEW k \in DOMAIN conf, KeyScale(k) \/ EditScale(k) PROVE Settings'
  <2>1. Flip(k)
    BY <1>4 DEF KeyScale, EditScale
  <2> QED
    BY <2>1, SettingsTyped DEF Settings
<1>5. ASSUME NEW step \in {-1, 1}, KeySwitch(step) PROVE Settings'
  BY <1>5 DEF KeySwitch, Control, Settings
<1> QED
  BY <1>1, <1>2, <1>3, <1>4, <1>5 DEF Next

\* Main comes to something else, with a job to ask for.
LEMMA AskedFor ==
    ASSUME Threads, job' = job, main' = main \/ main' \in {"layout", "run", "stop", "threw"},
           want' = want \/ \E full, force \in BOOLEAN : want' = [full |-> full, force |-> force]
    PROVE  Threads'
<1>1. want'.full \in BOOLEAN /\ want'.force \in BOOLEAN
  BY DEF Threads
<1>2. main' \in {"free", "layout", "run", "stop", "threw"}
  BY DEF Threads
<1> QED
  BY <1>1, <1>2 DEF Threads

LEMMA ThreadsKept == ASSUME Shapes, Measured, Threads, [Next]_vars PROVE Threads'
<1>1. CASE Update
  <2>1. job' = [job EXCEPT !.at = "select"] /\ UNCHANGED <<main, want>>
    BY <1>1 DEF Update
  <2> QED
    BY <2>1 DEF Shapes, Threads
<1>2. CASE Fails
  <2>1. job' = [job EXCEPT !.at = "draw", !.full = FALSE] /\ UNCHANGED <<main, want>>
    BY <1>2 DEF Fails
  <2> QED
    BY <2>1 DEF Shapes, Threads
<1>3. CASE Cached
  <2>1. job' = [job EXCEPT !.at = "select", !.full = FALSE] /\ UNCHANGED <<main, want>>
    BY <1>3 DEF Cached
  <2> QED
    BY <2>1 DEF Shapes, Threads
<1>4. CASE Skipped \/ Draw
  <2>1. job' = Idle /\ UNCHANGED <<main, want>>
    BY <1>4 DEF Skipped, Draw
  <2>2. None \in Ifaces \cup {None} /\ FALSE \in BOOLEAN
    OBVIOUS
  <2> QED
    BY <2>1, <2>2 DEF Idle, Threads
<1>5. CASE Select \/ MakeScale
  <2>1. /\ job' = [job EXCEPT !.at = "draw"] \/ job' = [job EXCEPT !.at = "scale"]
              \/ job' = [job EXCEPT !.at = "clear"]
        /\ UNCHANGED <<main, want>>
    BY <1>5 DEF Select, MakeScale
  <2> QED
    BY <2>1 DEF Shapes, Threads
<1>6. CASE Clear
  <2>1. job' = [job EXCEPT !.at = "draw", !.data = selected] /\ UNCHANGED <<main, want>>
    BY <1>6 DEF Clear
  <2> QED
    BY <2>1 DEF Shapes, Threads, Measured
<1>7. CASE Tick \/ Layout \/ Resize \/ Stop \/ Resized \/ UNCHANGED vars
  <2>1. /\ job' = job
        /\ main' = main \/ main' \in {"layout", "run", "stop"}
        /\ \/ want' = want
           \/ \E full, force \in BOOLEAN : want' = [full |-> full, force |-> force]
    BY <1>7 DEF Tick, Layout, Resize, Stop, Resized, Asks, vars
  <2> QED
    BY <2>1, AskedFor
<1>8. CASE Run
  BY <1>8 DEF Run, Threads
<1>9. CASE KeyZero
  <2>1. /\ job' = job /\ main' \in {"threw", "run"}
        /\ \/ want' = want
           \/ \E full, force \in BOOLEAN : want' = [full |-> full, force |-> force]
    BY <1>9 DEF KeyZero, Asks
  <2> QED
    BY <2>1, AskedFor
<1>10. ASSUME NEW k \in DOMAIN conf, KeyScale(k) \/ EditScale(k) PROVE Threads'
  <2>1. /\ job' = job /\ main' \in {"layout", "run"}
        /\ \E full, force \in BOOLEAN : want' = [full |-> full, force |-> force]
    BY <1>10 DEF KeyScale, EditScale, Asks
  <2> QED
    BY <2>1, AskedFor
<1>11. ASSUME NEW step \in {-1, 1}, KeySwitch(step) PROVE Threads'
  BY <1>11 DEF KeySwitch, Asks, Threads
<1> QED
  BY <1>1, <1>2, <1>3, <1>4, <1>5, <1>6, <1>7, <1>8, <1>9, <1>10, <1>11 DEF Next

LEMMA BoxKept == ASSUME Shapes, Measured, Threads, Box, [Next]_vars PROVE Box'
<1>1. CASE Draw
  <2>1. CASE screen' = screen
    BY <2>1 DEF Box
  <2>2. CASE screen' = [screen EXCEPT !.name = None, !.graphs = None, !.numbers = None]
    BY <2>2 DEF Box, Shapes
  <2>3. CASE \E again \in BOOLEAN : screen' = [screen EXCEPT !.numbers = job.data, !.label = Top,
                    !.name   = IF again THEN selected ELSE @,
                    !.graphs = IF again THEN job.data ELSE @,
                    !.scale  = IF again THEN Top ELSE @]
    BY <2>3 DEF Box, Shapes, Threads, Measured
  <2> QED
    BY <1>1, <2>1, <2>2, <2>3 DEF Draw
<1>2. screen' = screen \/ Draw
  BY DEF Next, Update, Fails, Cached, Skipped, Select, MakeScale, Clear, Tick, Run, KeyZero, Layout,
         Resize, Stop, Resized, KeyScale, EditScale, KeySwitch, vars
<1> QED
  BY <1>1, <1>2 DEF Box

LEMMA ControlKept == ASSUME Shapes, Measured, Control, [Next]_vars PROVE Control'
  BY FlagsKept, SettingsKept, ThreadsKept, BoxKept DEF Control

LEMMA BoundsKept == ASSUME Shapes, Chosen, Bounds, [Next]_vars PROVE Bounds'
<1>1. {MaxErrors, MaxUpdates, MaxEvents} \subseteq Nat
  BY NetBoxAssumption
<1>2. CASE Update
  <2>1. updates' = updates + 1 /\ job.at = "begin" /\ job.full /\ UNCHANGED <<errors, events>>
    BY <1>2 DEF Update
  <2>2. job'.at = "select"
    BY <1>2 DEF Update, Shapes
  <2> QED
    BY <1>1, <2>1, <2>2 DEF Bounds
<1>3. CASE Fails
  <2>1. /\ errors' = errors + 1 /\ errors < MaxErrors /\ events' = events + 1 /\ events < MaxEvents
        /\ updates' = updates
    BY <1>3 DEF Fails, Event
  <2>2. job'.at = "draw"
    BY <1>3 DEF Fails, Shapes
  <2> QED
    BY <1>1, <2>1, <2>2 DEF Bounds
<1>4. CASE Run
  <2>1. UNCHANGED <<errors, updates, events>> /\ (job'.at = "begin" /\ job'.full => updates # MaxUpdates)
    BY <1>4 DEF Run, collected
  <2> QED
    BY <1>1, <2>1 DEF Bounds
<1>5. CASE Cached \/ Skipped \/ Clear \/ Draw \/ Tick \/ Resize \/ Stop \/ Resized \/ UNCHANGED vars
  <2>1. UNCHANGED <<errors, updates>>
    BY <1>5 DEF Cached, Skipped, Clear, Draw, Tick, Resize, Stop, Resized, collected, vars
  <2>2. events' = events \/ (events < MaxEvents /\ events' = events + 1)
    BY <1>5 DEF Cached, Skipped, Clear, Draw, Tick, Resize, Stop, Resized, Event, vars
  <2>3. job' = job \/ job'.at # "begin"
    BY <1>5, JobGoes
  <2> QED
    BY <1>1, <2>1, <2>2, <2>3 DEF Bounds
<1>6. CASE Select \/ MakeScale
  <2>1. UNCHANGED <<errors, updates, events>>
    BY <1>6 DEF Select, MakeScale
  <2>2. job'.at # "begin"
    BY <1>6 DEF Select, MakeScale, Shapes
  <2> QED
    BY <2>1, <2>2 DEF Bounds
<1>7. CASE KeyZero \/ Layout \/ (\E k \in DOMAIN conf : KeyScale(k) \/ EditScale(k))
             \/ (\E step \in {-1, 1} : KeySwitch(step))
  <2>1. UNCHANGED <<errors, updates, job>>
    BY <1>7 DEF KeyZero, Layout, KeyScale, EditScale, KeySwitch, collected
  <2>2. events' = events \/ (events < MaxEvents /\ events' = events + 1)
    BY <1>7 DEF KeyZero, Layout, KeyScale, EditScale, KeySwitch, Event
  <2> QED
    BY <1>1, <2>1, <2>2 DEF Bounds
<1> QED
  BY <1>2, <1>3, <1>4, <1>5, <1>6, <1>7 DEF Next
-----------------------------------------------------------------------------
\* Types, counters, steady traffic and the scale of graphs in sync, together.
SInv == IInv /\ Measured /\ Counters /\ Control /\ Bounds /\ Follows /\ Synced

LEMMA ScaleBegins == Init => Measured /\ Counters /\ Control /\ Bounds /\ Follows /\ Synced
<1> SUFFICES ASSUME Init PROVE Measured /\ Counters /\ Control /\ Bounds /\ Follows /\ Synced
  OBVIOUS
<1> USE DEF Init, Idle, Both
<1>1. DOMAIN net = {} /\ DOMAIN tmp = {}
  OBVIOUS
<1>2. Measured
  BY <1>1 DEF Measured
<1>3. Counters
  BY Sizes DEF Counters, Low
<1>4. Flags /\ Settings /\ Threads /\ Box
  BY <1>1 DEF Flags, Settings, Threads, Box
<1>5. Bounds
  BY NetBoxAssumption DEF Bounds
<1>6. Follows
  BY <1>1 DEF Follows, Tailed, Waits, LowerRests, Shown
<1>7. Synced
  BY DEF Synced, InSync
<1> QED
  BY <1>2, <1>3, <1>4, <1>5, <1>6, <1>7 DEF Control

THEOREM ScaleInvariant == Spec => []SInv
<1>1. Init => SInv
  BY ScaleBegins, ShapesBegin, SumsBegin, ChosenBegin, RedrawnBegin DEF SInv, IInv
<1>2. SInv /\ [Next]_vars => SInv'
  <2> SUFFICES ASSUME SInv, [Next]_vars PROVE SInv'
    OBVIOUS
  <2>1. IInv'
    BY ShapesKept, SumsKept, ChosenKept, RedrawnKept DEF SInv, IInv
  <2>2. Measured' /\ Control' /\ Bounds' /\ Synced'
    BY MeasuredKept, ControlKept, BoundsKept, SyncedKept DEF SInv, IInv
  <2>3. Counters'
    BY <2>2, CountersKept DEF SInv, IInv
  <2>4. Follows'
    BY <2>2, <2>3, FollowsKept DEF SInv, IInv, Synced
  <2> QED
    BY <2>1, <2>2, <2>3, <2>4 DEF SInv
<1> QED
  BY <1>1, <1>2, PTL DEF Spec

\* The state of the collector and of the box has the types of the code (Net), and the
\* counters for the scale stay within their limit, for any interfaces, traffic and bounds.
THEOREM TypesOfTheBox == Spec => []TypeOK
<1>1. SInv => TypeOK
  <2> SUFFICES ASSUME SInv PROVE TypeOK
    OBVIOUS
  <2>1. IInv /\ Measured /\ Counters /\ Control /\ Bounds
    BY DEF SInv
  <2>2. DOMAIN net \subseteq Ifaces
    BY <2>1 DEF IInv, Shapes, ToSet
  <2>3. /\ bytes \in [Ifaces -> [Dirs -> Nat]] /\ DOMAIN net = ToSet(interfaces)
        /\ DOMAIN since = DOMAIN net /\ DOMAIN all = DOMAIN net
    BY <2>1 DEF IInv, Shapes
  <2>4. /\ \A i \in DOMAIN net : net[i].stat \in [Dirs -> Stat] /\ net[i].connected \in BOOLEAN
        /\ selected \in Ifaces \cup {None} /\ graph_max \in [Dirs -> Nat]
    BY <2>1 DEF Measured, IsInterface
  <2>5. /\ max_count \in [Dirs -> [over : 0..Patience, under : 0..Patience]]
        /\ steady \in 0..(2 * Patience)
    BY <2>1 DEF Counters
  <2>6. errors \in 0..MaxErrors /\ updates \in 0..MaxUpdates /\ events \in 0..MaxEvents
    BY <2>1 DEF Bounds
  <2>7. {rescale, redraw, stopping, resized, missed} \subseteq BOOLEAN
    BY <2>1 DEF Control, Flags
  <2>8. /\ conf \in [{"net_sync", "net_auto"} -> BOOLEAN]
        /\ DOMAIN tmp \subseteq DOMAIN conf /\ \A k \in DOMAIN tmp : tmp[k] \in BOOLEAN
    BY <2>1 DEF Control, Settings
  <2>9. /\ main \in {"free", "layout", "run", "stop", "threw"}
        /\ job.at \in {"idle", "begin", "select", "scale", "clear", "draw"}
        /\ job.data \in Ifaces \cup {None} /\ {job.full, job.force} \subseteq BOOLEAN
    BY <2>1 DEF Control, Threads
  <2>10. {screen.name, screen.graphs, screen.numbers} \subseteq Ifaces \cup {None}
    BY <2>1 DEF Control, Box
  <2> QED
    BY <2>2, <2>3, <2>4, <2>5, <2>6, <2>7, <2>8, <2>9, <2>10 DEF TypeOK
<1> QED
  BY <1>1, ScaleInvariant, PTL

\* Traffic that has been steady for a while fits into its graph (Net::collect()), for any
\* traffic, patience and length of the average, and whatever interfaces vanish; out of sync
\* this holds whatever keys and the options menu set and whenever. In sync it holds, and the
\* graphs have one scale, unless such a setting is `missed`: a key came in the middle of a
\* collection, which then clears its `rescale`, or the options menu changed it.
THEOREM ScaleOfTraffic == Spec => []ScalesFollow
<1>1. SInv => ScalesFollow
  <2> SUFFICES ASSUME SInv PROVE ScalesFollow
    OBVIOUS
  <2>1. IInv /\ Measured /\ Counters /\ Follows /\ Synced
    BY DEF SInv
  <2>2. OneScale
    BY <2>1 DEF OneScale, Synced, InSync
  <2>3. SteadyFits
    <3> SUFFICES ASSUME job.at = "idle", conf.net_auto, steady = 2 * Patience,
                        conf.net_sync => ~missed, NEW dir \in Dirs
                 PROVE  Speed(dir) <= graph_max[dir]
      BY DEF SteadyFits, Speed
    <3>1. Patience \in Nat /\ Patience > 0 /\ steady > Patience
      BY Sizes
    <3>2. selected \in DOMAIN net
      BY <2>1, <3>1 DEF Synced, IInv, Chosen
    <3>3. \A d \in Dirs : Speed(d) \in Nat /\ graph_max[d] \in Nat
      BY <2>1, <3>2, SpeedsNat DEF Measured
    <3>4. ASSUME NEW d \in Dirs, conf.net_sync => Speed(d) >= Speed(Other(d))
          PROVE  Speed(d) <= graph_max[d]
      <4> SUFFICES ASSUME Speed(d) > graph_max[d] PROVE FALSE
        BY <3>3
      <4>1. steady <= max_count[d].over + Patience
        BY <2>1, <3>2, <3>4 DEF Follows, Waits, Shown, Over
      <4>2. max_count[d].over \in Nat /\ max_count[d].over < Patience
        BY <2>1 DEF Counters, Counting, Low
      <4> QED
        BY <3>1, <4>1, <4>2
    <3>5. CASE conf.net_sync => Speed(dir) >= Speed(Other(dir))
      BY <3>4, <3>5
    <3>6. CASE conf.net_sync /\ Speed(dir) < Speed(Other(dir))
      <4> DEFINE o == Other(dir)
      <4>1. o \in Dirs /\ Other(o) = dir
        BY DEF Dirs, Other
      <4>2. Speed(o) <= graph_max[o]
        BY <3>3, <3>4, <3>6, <4>1
      <4>3. ~rescale
        BY <2>1, <3>1, <3>6 DEF Synced
      <4>4. graph_max[o] = graph_max[dir]
        BY <2>1, <3>6, <4>3 DEF Synced, InSync, Other, Dirs
      <4> QED
        BY <3>3, <3>6, <4>1, <4>2, <4>4
    <3> QED
      BY <3>3, <3>5, <3>6, BothDirs
  <2> QED
    BY <2>2, <2>3 DEF ScalesFollow
<1> QED
  BY <1>1, ScaleInvariant, PTL
===============================================================================
