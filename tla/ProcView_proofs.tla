---------------------------- MODULE ProcView_proofs ----------------------------
(***************************************************************************)
(* Proofs about ProcView, for every set of lists, every size of the box    *)
(* and of the details: what is highlighted is what keys act on and dialogs *)
(* are about, a view that follows a process has it in the window, neither  *)
(* a drawing nor a banner that comes or goes moves the cursor, and every   *)
(* copy of the cursor stays in its bounds.                                 *)
(***************************************************************************)
EXTENDS ProcView, TLAPS
-----------------------------------------------------------------------------
(* Types: of what the keys set and the drawing computes with.              *)

Ints  == {"start", "selected", "last_selected", "followed"}
Bools == {"follow", "paused", "banner"}

\* What f says of these settings has its type; Full if f says something of all.
Typed(f) == \A k \in DOMAIN f : (k \in Ints => f[k] \in Int) /\ (k \in Bools => f[k] \in BOOLEAN)
Full(f) == Ints \cup Bools \subseteq DOMAIN f /\ Typed(f)

StaticsOK(p) ==
    /\ DOMAIN p = {"start", "selected", "selected_pid", "banner", "last_pid"}
    /\ p.start \in Int /\ p.selected \in Int /\ p.banner \in BOOLEAN

\* The highlighted row of list l is that of the selected process.
OnRow(p, l) ==
    IF p.selected = 0 THEN p.selected_pid = None
    ELSE p.start + p.selected <= Len(l) /\ p.selected_pid = l[p.start + p.selected]

\* Between a drawing and its output the cursor is ahead of the screen.
Cursor ==
    /\ Full(conf) /\ Typed(tmp) /\ StaticsOK(proc)
    /\ list \in Seq(Nat) /\ "list" \in DOMAIN screen
    /\ kind \in Work
    /\ OnRow(proc, IF job = "drawn" THEN list ELSE screen.list)

LEMMA OverrideFull == ASSUME NEW f, NEW g, Full(f), Typed(g) PROVE Full(Override(f, g))
  BY DEF Full, Typed, Override

LEMMA PutTyped == ASSUME NEW f, NEW g, Typed(f), Typed(g) PROVE Typed(Put(f, g))
  BY DEF Typed, Put

LEMMA NothingTyped == Typed(Nothing)
  BY DEF Typed, Nothing

\* What unlock() makes of the settings, and what a key reads.
LEMMA UnlockedFull == Cursor => Full(Unlocked)
<1> SUFFICES ASSUME Cursor PROVE Full(Unlocked)
  OBVIOUS
<1> DEFINE drawn == [k \in {"start", "selected", "selected_pid"} |-> proc[k]]
<1>1. Typed(drawn)
  BY DEF Cursor, StaticsOK, Typed, Ints, Bools
<1>2. Full(Override(conf, drawn))
  BY <1>1, OverrideFull DEF Cursor
<1>3. Full(Override(Override(conf, drawn), tmp))
  BY <1>2, OverrideFull DEF Cursor
<1> QED
  BY <1>3 DEF Cursor, Unlocked

LEMMA ReadFull == Cursor => Full(Read)
  BY UnlockedFull DEF Read, Cursor

\* A key that sets well-typed settings keeps the invariant.
LEMMA SetKeeps ==
  ASSUME Cursor, NEW changes, Typed(changes), Set(changes)
  PROVE  Full(conf') /\ Typed(tmp')
<1>1. CASE job = "idle"
  BY <1>1, UnlockedFull, OverrideFull, NothingTyped DEF Set, Cursor
<1>2. CASE job # "idle"
  BY <1>2, PutTyped DEF Set, Cursor
<1> QED
  BY <1>1, <1>2

LEMMA FlippedBoolean == ASSUME Cursor, NEW k \in Bools PROVE Flipped(k) \in BOOLEAN
  BY ReadFull DEF Flipped, Full, Typed
-----------------------------------------------------------------------------
(* The drawing.                                                            *)

LEMMA WindowInt == ASSUME NEW d, NEW b PROVE Window(d, b) \in Int
  BY ProcViewAssumption DEF Window

LEMMA PlaceIn ==
  ASSUME NEW l \in Seq(Nat), NEW pid, pid \in ToSet(l)
  PROVE  Place(l, pid) \in 1..Len(l) /\ l[Place(l, pid)] = pid
<1>1. \E i \in DOMAIN l : l[i] = pid
  BY DEF ToSet
<1> QED
  BY <1>1 DEF Place

LEMMA CentredInt ==
  ASSUME NEW loc \in Int, NEW max \in Int, NEW n \in Int
  PROVE  Centred(loc, max, n).start \in Int /\ Centred(loc, max, n).row \in Int
  BY DEF Centred, Larger

\* The bounds hold whatever was set: no row is selected below the list.
LEMMA BoundedInList ==
  ASSUME NEW c, c.start \in Int, c.selected \in Int, NEW n \in Nat, NEW max \in Int
  PROVE  LET b == Bounded(c, n, max)
         IN b.start \in Int /\ b.selected \in Int /\ b.start + b.selected <= n
  BY DEF Bounded, Clamp, Smaller, Larger

LEMMA FollowedFull ==
  ASSUME NEW c, Full(c), NEW l \in Seq(Nat), NEW d
  PROVE  Full(Followed(c, l, d))
<1> DEFINE max == Window(d, c.paused \/ c.follow)
           to  == Centred(Place(l, Goal(c)), max, Len(l))
           seen == [c EXCEPT !.banner = c.paused \/ c.follow]
<1>1. c.paused \in BOOLEAN /\ c.follow \in BOOLEAN
  BY DEF Full, Typed, Ints, Bools
<1>2. Full(seen)
  BY <1>1 DEF Full, Typed, Ints, Bools
<1>3. ASSUME Goal(c) \in ToSet(l) PROVE to.start \in Int /\ to.row \in Int
  <2>1. Place(l, Goal(c)) \in Int /\ max \in Int /\ Len(l) \in Int
    BY <1>3, PlaceIn, WindowInt
  <2> HIDE DEF max
  <2> QED
    BY <2>1, CentredInt
<1>4. CASE ~Seeks(c)
  BY <1>2, <1>4 DEF Followed
<1>5. CASE Seeks(c) /\ Goal(c) \in ToSet(l) /\ c.restore = None
  <2> DEFINE f == [seen EXCEPT !.update = FALSE, !.start = to.start, !.followed = to.row,
                     !.returns = TRUE,
                     !.selected = IF c.followed_pid = c.detailed_pid THEN 0 ELSE to.row]
  <2>1. Followed(c, l, d) = f
    BY <1>5 DEF Followed
  <2>2. Full(f)
    <3> HIDE DEF seen, to
    <3>1. DOMAIN f = DOMAIN seen /\ f.start = to.start /\ f.followed = to.row
          /\ f.selected \in {0, to.row}
          /\ \A k \in DOMAIN seen : k \in {"last_selected"} \cup Bools => f[k] = seen[k]
      BY <1>2 DEF Full, Ints, Bools
    <3> HIDE DEF f
    <3> QED
      BY <1>2, <1>3, <1>5, <3>1 DEF Full, Typed, Ints, Bools
  <2> QED
    BY <2>1, <2>2
<1>6. CASE Seeks(c) /\ Goal(c) \in ToSet(l) /\ c.restore # None
  <2> DEFINE f == [seen EXCEPT !.update = FALSE, !.start = to.start, !.selected = to.row,
                     !.restore = None]
  <2>1. Followed(c, l, d) = f
    BY <1>6 DEF Followed
  <2>2. Full(f)
    BY <1>2, <1>3, <1>6, ZenonT(60) DEF Full, Typed, Ints, Bools
  <2> QED
    BY <2>1, <2>2
<1>7. CASE Seeks(c) /\ Goal(c) \notin ToSet(l) /\ c.restore = None
  <2> DEFINE f == [seen EXCEPT !.update = FALSE, !.follow = FALSE, !.followed_pid = None,
                     !.followed = 0, !.banner = c.paused]
  <2>1. Followed(c, l, d) = f
    BY <1>7 DEF Followed
  <2>2. Full(f)
    <3> HIDE DEF seen
    <3>1. DOMAIN f = DOMAIN seen /\ f.follow = FALSE /\ f.followed = 0 /\ f.banner = c.paused
          /\ \A k \in DOMAIN seen :
               k \in {"start", "selected", "last_selected", "paused"} => f[k] = seen[k]
      BY <1>2 DEF Full, Ints, Bools
    <3> HIDE DEF f
    <3>2. f.follow \in BOOLEAN /\ f.followed \in Int /\ f.banner \in BOOLEAN
      <4>1. f.followed \in Int
        BY <3>1
      <4>2. f.follow \in BOOLEAN
        BY <3>1, Zenon
      <4>3. f.banner \in BOOLEAN
        BY <1>1, <3>1, Zenon
      <4> QED
        BY <4>1, <4>2, <4>3
    <3>3. \A k \in Ints \cup Bools : (k \in Ints => f[k] \in Int) /\ (k \in Bools => f[k] \in BOOLEAN)
      BY <1>2, <3>1, <3>2 DEF Full, Typed, Ints, Bools
    <3> QED
      BY <1>2, <3>1, <3>3 DEF Full, Typed
  <2> QED
    BY <2>1, <2>2
<1>8. CASE Seeks(c) /\ Goal(c) \notin ToSet(l) /\ c.restore # None
  <2> DEFINE f == [seen EXCEPT !.update = FALSE, !.restore = None]
  <2>1. Followed(c, l, d) = f
    BY <1>8 DEF Followed
  <2>2. Full(f)
    BY <1>2 DEF Full, Typed, Ints, Bools
  <2> QED
    BY <2>1, <2>2
<1> QED
  BY <1>4, <1>5, <1>6, <1>7, <1>8

\* Whatever it is given, a drawing leaves the cursor on a row of what it draws.
LEMMA DrawnOnRow ==
  ASSUME NEW c, Full(c), NEW l \in Seq(Nat), NEW p, StaticsOK(p)
  PROVE  StaticsOK(Drawn(c, l, p)) /\ OnRow(Drawn(c, l, p), l)
<1> DEFINE f == Followed(c, l, Detail(c, p))
           max == Window(Detail(c, p), f.banner)
           s   == IF MovesUp(p.banner, f.banner, f.start, max, Len(l))
                    THEN [f EXCEPT !.selected = @ + 1]
                  ELSE IF c.paused /\ f.selected > max THEN [f EXCEPT !.start = @ + 1] ELSE f
           b   == Bounded(s, Len(l), max)
           q   == [start |-> b.start, selected |-> b.selected, banner |-> f.banner,
                   last_pid |-> p.last_pid,
                   selected_pid |-> IF b.selected = 0 THEN None
                                    ELSE IF b.start + b.selected <= Len(l)
                                           THEN l[b.start + b.selected]
                                    ELSE p.selected_pid]
<1>1. Full(f)
  BY FollowedFull
<1>2. f.start \in Int /\ f.selected \in Int /\ f.banner \in BOOLEAN
      /\ {"start", "selected"} \subseteq DOMAIN f
  BY <1>1 DEF Full, Typed, Ints, Bools
<1>3. s.start \in Int /\ s.selected \in Int
  <2> HIDE DEF f, max
  <2> QED
    BY <1>2
<1>4. max \in Int /\ Len(l) \in Nat
  BY WindowInt
<1>5. b.start \in Int /\ b.selected \in Int /\ b.start + b.selected <= Len(l)
  <2> HIDE DEF s, max
  <2> QED
    BY <1>3, <1>4, BoundedInList
<1>6. Drawn(c, l, p) = q
  BY DEF Drawn
<1>7. StaticsOK(q) /\ OnRow(q, l)
  <2> HIDE DEF b, f
  <2> QED
    BY <1>2, <1>5 DEF StaticsOK, OnRow
<1> QED
  BY <1>6, <1>7

LEMMA DrawingTyped ==
  ASSUME NEW c, Full(c), NEW l \in Seq(Nat), NEW p
  PROVE  Typed(DrawingSets(c, l, p))
<1> DEFINE f == Followed(c, l, Detail(c, p))
<1>1. Full(f)
  BY FollowedFull
<1> HIDE DEF f
<1>2. \A S : Typed([k \in S |-> f[k]])
  BY <1>1 DEF Full, Typed
<1> QED
  BY <1>2 DEF DrawingSets, f
-----------------------------------------------------------------------------
(* What the keys set.                                                      *)

LEMMA UnfollowTyped == Cursor => Typed(Unfollow)
<1> SUFFICES ASSUME Cursor PROVE Typed(Unfollow)
  OBVIOUS
<1>1. Flipped("follow") \in BOOLEAN
  BY FlippedBoolean DEF Bools
<1> QED
  BY <1>1 DEF Unfollow, Typed, Ints, Bools

LEMMA MovedInt ==
  ASSUME NEW key, NEW st \in Int, NEW se \in Int, NEW last \in Int, NEW n \in Int, NEW max \in Int
  PROVE  LET m == Moved(key, st, se, last, n, max)
         IN /\ DOMAIN m = {"start", "selected", "last_selected"}
            /\ \A k \in DOMAIN m : m[k] \in Int
  BY DEF Moved, Larger, Smaller, Clamp

LEMMA SelectionTyped ==
  ASSUME Cursor, NEW c, Full(c), NEW key
  PROVE  Typed(Selection(c, key))
<1> DEFINE se == IF FromDetails(c) THEN c.followed ELSE c.selected
           max == Window(c.show, c.banner) + (IF Leaves(c) THEN 1 ELSE 0)
           m == Moved(key, c.start, se, c.last_selected, Len(list), max)
           moves == [k \in {x \in DOMAIN m : m[x] # c[x]} |-> m[k]]
           leaves == IF Leaves(c) THEN Unfollow ELSE Nothing
           back == IF FromDetails(c) THEN [returns |-> FALSE] ELSE Nothing
<1>1. c.start \in Int /\ se \in Int /\ c.last_selected \in Int /\ Len(list) \in Int
  BY DEF Full, Typed, Ints, Bools, Cursor
<1>2. max \in Int
  BY WindowInt
<1>3. DOMAIN m = {"start", "selected", "last_selected"} /\ \A k \in DOMAIN m : m[k] \in Int
  <2> HIDE DEF se, max
  <2> QED
    BY <1>1, <1>2, MovedInt
<1>4. Typed(moves)
  <2> HIDE DEF m
  <2> QED
    BY <1>3 DEF Typed, Ints, Bools
<1>5. Typed(leaves)
  BY UnfollowTyped, NothingTyped
<1>6. Typed(back)
  BY NothingTyped DEF Typed, Ints, Bools
<1>7. Typed(Put(Put(leaves, back), moves))
  <2> HIDE DEF leaves, back, moves
  <2> QED
    BY <1>4, <1>5, <1>6, PutTyped
<1> QED
  BY <1>7 DEF Selection

\* Keys leave the list, the screen, the statics and the job alone.
LEMMA HandledKeeps ==
  ASSUME Cursor, NEW changes, Typed(changes), NEW k \in Work, Handled(changes, k)
  PROVE  Cursor'
<1>1. Full(conf') /\ Typed(tmp')
  BY SetKeeps DEF Handled
<1> QED
  BY <1>1 DEF Handled, Cursor, StaticsOK, OnRow

\* So does a job that begins with the settings unlocked.
LEMMA BeginKeeps ==
  ASSUME Cursor, NEW k, Begin(k), k # "drawn", UNCHANGED <<proc, list, kind, screen>>
  PROVE  Cursor'
<1>1. Full(conf') /\ Typed(tmp')
  BY UnlockedFull, NothingTyped DEF Begin
<1> QED
  BY <1>1 DEF Begin, Cursor, StaticsOK, OnRow

LEMMA MoveKeeps == ASSUME Cursor, NEW key, Move(key) PROVE Cursor'
<1> DEFINE changes == Selection(Read, key)
<1>1. Typed(changes)
  BY ReadFull, SelectionTyped
<1>2. CASE Handled(changes, "cached")
  BY <1>1, <1>2, HandledKeeps DEF Work
<1>3. CASE Set(changes) /\ UNCHANGED <<proc, list, gone, job, at, kind, screen, dialog>>
  <2>1. Full(conf') /\ Typed(tmp')
    <3> HIDE DEF changes
    <3> QED
      BY <1>1, <1>3, SetKeeps
  <2> QED
    BY <1>3, <2>1 DEF Cursor, StaticsOK, OnRow
<1> QED
  BY <1>2, <1>3 DEF Move

LEMMA FollowTyped ==
  ASSUME NEW r, DOMAIN r \cap (Ints \cup Bools) = {"follow"}, r.follow = TRUE PROVE Typed(r)
<1>1. r.follow \in BOOLEAN
  BY Zenon
<1> QED
  BY <1>1 DEF Typed, Ints, Bools

LEMMA FollowKeeps == ASSUME Cursor, KeyFollow PROVE Cursor'
<1> DEFINE c == Read
           To(pid) == [follow |-> TRUE, followed_pid |-> pid, update |-> TRUE]
           leaves == IF c.returns THEN [selected |-> c.followed]
                     ELSE IF c.show /\ c.followed_pid = c.detailed_pid
                       THEN [restore |-> c.detailed_pid] ELSE Nothing
<1>1. \A pid : Typed(To(pid))
  <2> TAKE pid
  <2>1. DOMAIN To(pid) \cap (Ints \cup Bools) = {"follow"} /\ To(pid).follow = TRUE
    BY DEF Ints, Bools
  <2> HIDE DEF To
  <2> QED
    BY <2>1, FollowTyped
<1>2. c.followed \in Int
  BY ReadFull DEF Full, Typed, Ints
<1>3. Typed([selected |-> c.followed]) /\ Typed([restore |-> c.detailed_pid])
  BY <1>2 DEF Typed, Ints, Bools
<1>4. Typed(leaves)
  BY <1>3, NothingTyped
<1>5. Typed(Put(leaves, Unfollow))
  <2> HIDE DEF leaves
  <2> QED
    BY <1>4, UnfollowTyped, PutTyped
<1> DEFINE selects == c.selected # 0 /\ c.followed_pid # c.selected_pid
           details == c.show /\ c.selected = 0 /\ c.followed_pid # c.detailed_pid
           changes == CASE selects -> To(c.selected_pid)
                        [] ~selects /\ details -> To(c.detailed_pid)
                        [] ~selects /\ ~details /\ c.follow -> Put(leaves, Unfollow)
                        [] OTHER -> Nothing
<1>6. Typed(changes)
  <2> HIDE DEF selects, details, leaves, To
  <2> QED
    BY <1>1, <1>5, NothingTyped
<1>7. Handled(changes, "cached")
  BY DEF KeyFollow
<1> QED
  <2> HIDE DEF changes
  <2> QED
    BY <1>6, <1>7, HandledKeeps DEF Work

LEMMA EnterKeeps == ASSUME Cursor, KeyEnter PROVE Cursor'
<1> DEFINE c == Read
           opens == c.selected > 0 /\ c.detailed_pid # c.selected_pid
           first == [detailed_pid |-> c.selected_pid, last_selected |-> c.selected,
                     selected |-> 0, show |-> TRUE]
           also == IF c.proc_follow_detailed
                     THEN [follow |-> TRUE, followed_pid |-> c.selected_pid] ELSE Nothing
           gives == IF c.follow /\ c.followed_pid = c.detailed_pid THEN Unfollow ELSE Nothing
           to == IF c.proc_follow_detailed THEN Put([restore |-> c.detailed_pid], gives)
                 ELSE IF c.last_selected > 0 THEN [selected |-> c.last_selected] ELSE Nothing
           close == Put(to, [last_selected |-> 0, detailed_pid |-> None, show |-> FALSE])
<1>1. c.selected \in Int /\ c.last_selected \in Int
  BY ReadFull DEF Full, Typed, Ints
<1>2. Typed(Put(first, also))
  <2>1. Typed(first)
    BY <1>1 DEF Typed, Ints, Bools
  <2>2. Typed(also)
    <3> DEFINE r == [follow |-> TRUE, followed_pid |-> c.selected_pid]
    <3>1. DOMAIN r \cap (Ints \cup Bools) = {"follow"} /\ r.follow = TRUE
      BY DEF Ints, Bools
    <3>2. Typed(r)
      <4> HIDE DEF r
      <4> QED
        BY <3>1, FollowTyped
    <3> QED
      BY <3>2, NothingTyped
  <2> HIDE DEF first, also
  <2> QED
    BY <2>1, <2>2, PutTyped
<1>3. Typed(close)
  <2>1. Typed(gives)
    BY UnfollowTyped, NothingTyped
  <2>2. Typed([restore |-> c.detailed_pid])
    BY DEF Typed, Ints, Bools
  <2>3. Typed(Put([restore |-> c.detailed_pid], gives))
    <3> HIDE DEF gives
    <3> QED
      BY <2>1, <2>2, PutTyped
  <2>4. Typed([selected |-> c.last_selected])
    BY <1>1 DEF Typed, Ints, Bools
  <2>5. Typed(to)
    <3> HIDE DEF gives
    <3> QED
      BY <2>3, <2>4, NothingTyped
  <2>6. Typed([last_selected |-> 0, detailed_pid |-> None, show |-> FALSE])
    BY DEF Typed, Ints, Bools
  <2> HIDE DEF to
  <2> QED
    BY <2>5, <2>6, PutTyped
<1> DEFINE some == IF opens THEN Put(first, also) ELSE IF c.show THEN close ELSE Nothing
<1>4. Typed(some)
  <2> HIDE DEF first, also, close, opens
  <2> QED
    BY <1>2, <1>3, NothingTyped
<1>5. Typed([update |-> TRUE])
  BY DEF Typed, Ints, Bools
<1>6. Handled(Put(some, [update |-> TRUE]), "cached")
  BY DEF KeyEnter
<1> QED
  <2> HIDE DEF some
  <2>1. Typed(Put(some, [update |-> TRUE]))
    BY <1>4, <1>5, PutTyped
  <2> QED
    BY <1>6, <2>1, HandledKeeps DEF Work
-----------------------------------------------------------------------------
(* The invariant.                                                          *)

LEMMA ListsSeq == ASSUME NEW l \in Lists PROVE l \in Seq(Nat)
  BY ProcViewAssumption

LEMMA DrawKeeps == ASSUME Cursor, Draw PROVE Cursor'
<1>1. PICK l \in Lists \cup {list} :
         LET p == [proc EXCEPT !.last_pid = LastPid(l)] IN
         /\ Collected(l)
         /\ proc' = Drawn(conf, l, p)
         /\ tmp' = Put(tmp, DrawingSets(conf, l, p))
  BY DEF Draw
<1> DEFINE p == [proc EXCEPT !.last_pid = LastPid(l)]
<1>2. l \in Seq(Nat) /\ list' = l
  BY <1>1, ListsSeq DEF Cursor, Collected
<1>3. StaticsOK(p)
  BY DEF Cursor, StaticsOK
<1> HIDE DEF p
<1>4. StaticsOK(proc') /\ OnRow(proc', l)
  BY <1>1, <1>2, <1>3, DrawnOnRow DEF Cursor, p
<1>5. Typed(tmp')
  BY <1>1, <1>2, DrawingTyped, PutTyped DEF Cursor, p
<1> QED
  BY <1>2, <1>4, <1>5 DEF Draw, Cursor, StaticsOK, OnRow

LEMMA StoppedKeeps == ASSUME Cursor, Stopped PROVE Cursor'
<1>1. PICK l \in Lists \cup {list} :
         Collected(l) /\ proc' = [proc EXCEPT !.last_pid = LastPid(l)]
  BY DEF Stopped
<1>2. l \in Seq(Nat) /\ list' = l
  BY <1>1, ListsSeq DEF Cursor, Collected
<1>3. StaticsOK(proc') /\ proc'.start = proc.start /\ proc'.selected = proc.selected
      /\ proc'.selected_pid = proc.selected_pid
  BY <1>1 DEF Cursor, StaticsOK
<1>4. job # "drawn" /\ job' # "drawn" /\ screen'.list = screen.list /\ "list" \in DOMAIN screen'
  BY DEF Stopped, Work, Cursor
<1>5. OnRow(proc', screen'.list)
  BY <1>3, <1>4 DEF Cursor, OnRow
<1> QED
  BY <1>2, <1>3, <1>4, <1>5 DEF Stopped, Cursor

LEMMA ShownKeeps == ASSUME Cursor, Shown PROVE Cursor'
  BY DEF Shown, Cursor, StaticsOK, OnRow

LEMMA CursorInit == Init => Cursor
<1> SUFFICES ASSUME Init PROVE Cursor
  OBVIOUS
<1>1. Full(conf)
  <2>1. /\ Ints \cup Bools \subseteq DOMAIN conf
        /\ conf.start = 0 /\ conf.selected = 0 /\ conf.last_selected = 0 /\ conf.followed = 0
        /\ conf.follow = FALSE /\ conf.paused = FALSE /\ conf.banner = FALSE
    BY DEF Init, Ints, Bools
  <2>2. \A k \in Ints : conf[k] \in Int
    BY <2>1 DEF Ints
  <2>3. \A k \in Bools : conf[k] \in BOOLEAN
    BY <2>1, Zenon DEF Bools
  <2> QED
    BY <2>1, <2>2, <2>3, Zenon DEF Full, Typed
<1>2. Typed(tmp)
  BY NothingTyped DEF Init
<1> QED
  BY <1>1, <1>2 DEF Init, Cursor, StaticsOK, OnRow, Work

\* Every step leaves the cursor where the screen has it, or will have it.
LEMMA CursorStep == Cursor /\ [Next]_vars => Cursor'
<1> SUFFICES ASSUME Cursor, [Next]_vars PROVE Cursor'
  OBVIOUS
<1> USE DEF Cursor
<1>1. CASE Draw
  BY <1>1, DrawKeeps
<1>2. CASE Stopped
  BY <1>2, StoppedKeeps
<1>3. CASE Shown
  BY <1>3, ShownKeeps
<1>4. CASE Tick
  BY <1>4, BeginKeeps DEF Tick
<1>5. CASE Redraw
  BY <1>5, BeginKeeps DEF Redraw
<1>6. CASE Run
  BY <1>6, BeginKeeps DEF Run, Work
<1>7. CASE RunCpu
  BY <1>7, BeginKeeps DEF RunCpu
<1>8. CASE ShowDialog
  BY <1>8, BeginKeeps DEF ShowDialog
<1>9. CASE Refuse
  BY <1>9 DEF Refuse, StaticsOK, OnRow
<1>10. CASE CloseDialog
  BY <1>10, BeginKeeps DEF CloseDialog
<1>11. CASE Key
  <2>1. CASE \E k \in {"up", "down", "page_up", "page_down", "home", "end"} : Move(k)
    BY <2>1, MoveKeeps
  <2>2. CASE KeyPause
    <3>1. Typed([paused |-> Flipped("paused")])
      <4>1. Flipped("paused") \in BOOLEAN
        BY FlippedBoolean DEF Bools
      <4> QED
        BY <4>1 DEF Typed, Ints, Bools
    <3> QED
      BY <2>2, <3>1, HandledKeeps DEF KeyPause, Work
  <2>3. CASE KeySort
    <3>1. Typed([update |-> TRUE])
      BY DEF Typed, Ints, Bools
    <3> QED
      BY <2>3, <3>1, HandledKeeps DEF KeySort, Work
  <2>4. CASE KeyFollow
    BY <2>4, FollowKeeps
  <2>5. CASE KeyEnter
    BY <2>5, EnterKeeps
  <2>6. CASE KeyDialog
    <3>1. Full(conf') /\ Typed(tmp')
      BY <2>6, SetKeeps, NothingTyped DEF KeyDialog
    <3> QED
      BY <2>6, <3>1 DEF KeyDialog, StaticsOK, OnRow
  <2> QED
    BY <1>11, <2>1, <2>2, <2>3, <2>4, <2>5, <2>6 DEF Key
<1>12. CASE UNCHANGED vars
  BY <1>12 DEF vars, Full, Typed, StaticsOK, OnRow
<1> QED
  BY <1>1, <1>2, <1>3, <1>4, <1>5, <1>6, <1>7, <1>8, <1>9, <1>10, <1>11, <1>12 DEF Next

LEMMA CursorAlways == Spec => []Cursor
  BY CursorInit, CursorStep, PTL DEF Spec

\* Whenever a key can be read, the highlighted row of the screen is that of the
\* process the keys act on: for all lists that /proc can give, however they shrink,
\* and for all heights of the box.
THEOREM HighlightIsTarget == Spec => []CursorOnRow
<1>1. Cursor => CursorOnRow
  BY DEF Cursor, CursorOnRow, OnRow
<1> QED
  BY <1>1, CursorAlways, PTL
-----------------------------------------------------------------------------
(* The process in the details: the setting that shows them and their pid   *)
(* are set together, in place or to wait.                                  *)

Together(f) ==
    /\ "show" \in DOMAIN f <=> "detailed_pid" \in DOMAIN f
    /\ "show" \in DOMAIN f /\ f.detailed_pid # None => f.show = TRUE

Details ==
    /\ "show" \in DOMAIN conf /\ Together(conf) /\ Together(tmp)
    /\ list \in Lists \cup {<<>>}

LEMMA OverrideTogether ==
  ASSUME NEW f, NEW g, Together(f), Together(g) PROVE Together(Override(f, g))
  BY DEF Together, Override

LEMMA PutTogether ==
  ASSUME NEW f, NEW g, Together(f), Together(g) PROVE Together(Put(f, g))
  BY DEF Together, Put

\* Settings that say nothing of the details.
LEMMA OthersTogether ==
  ASSUME NEW f, DOMAIN f \cap {"show", "detailed_pid"} = {} PROVE Together(f)
  BY DEF Together

LEMMA NothingTogether == Together(Nothing)
  BY DEF Together, Nothing

LEMMA UnlockedTogether == Details => Together(Unlocked) /\ "show" \in DOMAIN Unlocked
<1> SUFFICES ASSUME Details PROVE Together(Unlocked) /\ "show" \in DOMAIN Unlocked
  OBVIOUS
<1> DEFINE drawn == [k \in {"start", "selected", "selected_pid"} |-> proc[k]]
           first == Override(conf, drawn)
<1>1. Together(first)
  BY OthersTogether, OverrideTogether DEF Details
<1>2. "show" \in DOMAIN first /\ "show" \in DOMAIN Override(first, tmp)
  BY DEF Details, Override
<1> HIDE DEF first
<1>3. Together(Override(first, tmp))
  BY <1>1, OverrideTogether DEF Details
<1> QED
  BY <1>2, <1>3 DEF Details, Unlocked, first

LEMMA SetDetails ==
  ASSUME Details, NEW changes, Together(changes), Set(changes), list' = list
  PROVE  Details'
<1>1. CASE job = "idle"
  <2>1. conf' = Override(Unlocked, changes) /\ tmp' = Nothing
    BY <1>1 DEF Set
  <2>2. "show" \in DOMAIN conf'
    BY <2>1, UnlockedTogether DEF Override
  <2> QED
    BY <2>1, <2>2, UnlockedTogether, OverrideTogether, NothingTogether DEF Details
<1>2. CASE job # "idle"
  BY <1>2, PutTogether DEF Set, Details
<1> QED
  BY <1>1, <1>2

LEMMA BeginDetails == ASSUME Details, NEW k, Begin(k), list' = list PROVE Details'
  BY UnlockedTogether, NothingTogether DEF Begin, Details

LEMMA DrawDetails == ASSUME Details, Draw PROVE Details'
<1>1. PICK l \in Lists \cup {list} :
         /\ tmp' = Put(tmp, DrawingSets(conf, l, [proc EXCEPT !.last_pid = LastPid(l)]))
         /\ list' = l
  BY DEF Draw, Collected
<1> DEFINE g == DrawingSets(conf, l, [proc EXCEPT !.last_pid = LastPid(l)])
<1>2. Together(g)
  BY OthersTogether DEF DrawingSets
<1> QED
  BY <1>1, <1>2, PutTogether DEF Draw, Details

LEMMA MoveDetails == ASSUME Details, NEW key, Move(key) PROVE Details'
<1> DEFINE ch == Selection(Read, key)
<1>1. DOMAIN ch \subseteq {"follow", "followed_pid", "followed", "returns", "start", "selected",
                           "last_selected"}
  BY DEF Selection, Put, Unfollow, Nothing, Moved
<1>2. Set(ch) /\ list' = list
  BY DEF Move, Handled
<1> HIDE DEF ch
<1>3. Together(ch)
  BY <1>1, OthersTogether
<1> QED
  BY <1>2, <1>3, SetDetails

LEMMA FollowDetails == ASSUME Details, KeyFollow PROVE Details'
<1> DEFINE c == Read
           To(pid) == [follow |-> TRUE, followed_pid |-> pid, update |-> TRUE]
           selects == c.selected # 0 /\ c.followed_pid # c.selected_pid
           details == c.show /\ c.selected = 0 /\ c.followed_pid # c.detailed_pid
           leaves  == IF c.returns THEN [selected |-> c.followed]
                      ELSE IF c.show /\ c.followed_pid = c.detailed_pid
                        THEN [restore |-> c.detailed_pid] ELSE Nothing
           ch == CASE selects -> To(c.selected_pid)
                   [] ~selects /\ details -> To(c.detailed_pid)
                   [] ~selects /\ ~details /\ c.follow -> Put(leaves, Unfollow)
                   [] OTHER -> Nothing
<1>1. Set(ch) /\ list' = list
  BY DEF KeyFollow, Handled
<1>2. Together(To(c.selected_pid)) /\ Together(To(c.detailed_pid)) /\ Together(Unfollow)
      /\ Together(leaves)
  <2> HIDE DEF c
  <2> QED
    BY OthersTogether, NothingTogether DEF Unfollow
<1>3. Together(ch)
  <2>1. Together(Put(leaves, Unfollow))
    BY <1>2, PutTogether
  <2> HIDE DEF c, To, selects, details, leaves
  <2> QED
    BY <1>2, <2>1, NothingTogether
<1> QED
  BY <1>1, <1>3, SetDetails

LEMMA EnterDetails == ASSUME Details, KeyEnter PROVE Details'
<1> DEFINE c == Read
           opens == c.selected > 0 /\ c.detailed_pid # c.selected_pid
           more  == IF c.proc_follow_detailed
                      THEN [follow |-> TRUE, followed_pid |-> c.selected_pid] ELSE Nothing
           open  == [detailed_pid |-> c.selected_pid, last_selected |-> c.selected,
                     selected |-> 0, show |-> TRUE]
           to    == IF c.proc_follow_detailed
                      THEN Put([restore |-> c.detailed_pid],
                               IF c.follow /\ c.followed_pid = c.detailed_pid
                                 THEN Unfollow ELSE Nothing)
                    ELSE IF c.last_selected > 0 THEN [selected |-> c.last_selected] ELSE Nothing
           shut  == [last_selected |-> 0, detailed_pid |-> None, show |-> FALSE]
           what  == IF opens THEN Put(open, more) ELSE IF c.show THEN Put(to, shut) ELSE Nothing
           ch    == Put(what, [update |-> TRUE])
<1>1. Set(ch) /\ list' = list
  BY DEF KeyEnter, Handled
<1>2. Together(open) /\ Together(more) /\ Together(shut) /\ Together([update |-> TRUE])
  BY OthersTogether, NothingTogether DEF Together
<1>3. Together(to)
  <2> HIDE DEF c
  <2>1. Together([restore |-> c.detailed_pid]) /\ Together(Unfollow)
        /\ Together([selected |-> c.last_selected])
    BY OthersTogether DEF Unfollow
  <2> QED
    BY <2>1, PutTogether, NothingTogether
<1>4. Together(what)
  <2> HIDE DEF c, opens, open, more, to, shut
  <2> QED
    BY <1>2, <1>3, PutTogether, NothingTogether
<1>5. Together(ch)
  <2> HIDE DEF what
  <2> QED
    BY <1>2, <1>4, PutTogether
<1> QED
  BY <1>1, <1>5, SetDetails

\* Every step keeps the details together with their process.
LEMMA DetailsStep == Details /\ [Next]_vars => Details'
<1> SUFFICES ASSUME Details, [Next]_vars PROVE Details'
  OBVIOUS
<1>1. CASE Draw
  BY <1>1, DrawDetails
<1>2. CASE Stopped \/ Shown \/ Refuse
  BY <1>2 DEF Stopped, Collected, Shown, Refuse, Details, Together
<1>3. CASE Tick \/ Redraw \/ Run \/ RunCpu \/ ShowDialog \/ CloseDialog
  BY <1>3, BeginDetails DEF Tick, Redraw, Run, RunCpu, ShowDialog, CloseDialog
<1>4. CASE Key
  <2>1. CASE \E k \in {"up", "down", "page_up", "page_down", "home", "end"} : Move(k)
    BY <2>1, MoveDetails
  <2>2. CASE KeyPause
    <3>1. Together([paused |-> Flipped("paused")])
      BY OthersTogether
    <3> QED
      BY <2>2, <3>1, SetDetails DEF KeyPause, Handled
  <2>3. CASE KeySort
    <3>1. Together([update |-> TRUE])
      BY OthersTogether
    <3> QED
      BY <2>3, <3>1, SetDetails DEF KeySort, Handled
  <2>4. CASE KeyFollow
    BY <2>4, FollowDetails
  <2>5. CASE KeyEnter
    BY <2>5, EnterDetails
  <2>6. CASE KeyDialog
    BY <2>6, NothingTogether, SetDetails DEF KeyDialog
  <2> QED
    BY <1>4, <2>1, <2>2, <2>3, <2>4, <2>5, <2>6 DEF Key
<1>5. CASE UNCHANGED vars
  BY <1>5 DEF vars, Details, Together
<1> QED
  BY <1>1, <1>2, <1>3, <1>4, <1>5 DEF Next

LEMMA DetailsInit == Init => Details
  BY NothingTogether DEF Init, Details, Together

LEMMA DetailsAlways == Spec => []Details
  BY DetailsInit, DetailsStep, PTL DEF Spec
-----------------------------------------------------------------------------
(* A view that follows a process.                                          *)

\* In a list that fills the window, the bounds leave the process of place loc in the
\* row that was computed for it.
LEMMA CentredInWindow ==
  ASSUME NEW n \in Nat, NEW loc \in 1..n, NEW max \in Nat, 1 <= max, max <= n
  PROVE  LET to == Centred(loc, max, n)
             start == Clamp(to.start, 0, Larger(0, n - max))
         IN to.row \in 1..max /\ start + to.row = loc
<1> DEFINE middle == (max + 1) \div 2
<1>1. middle \in 1..max
  OBVIOUS
<1> HIDE DEF middle
<1>2. Centred(loc, max, n) =
        [start |-> Larger(0, loc - middle),
         row |-> IF loc < middle THEN loc
                 ELSE IF Larger(0, loc - middle) > n - max THEN max - n + loc ELSE middle]
  BY DEF Centred, middle
<1> QED
  BY <1>1, <1>2 DEF Clamp, Smaller, Larger

LEMMA WindowFits ==
  ASSUME NEW d, NEW b
  PROVE  Window(d, b) \in Nat /\ 1 <= Window(d, b) /\ Window(d, b) <= ListRows
  BY ProcViewAssumption DEF Window

\* A drawing that follows a process of a list that fills the box.
LEMMA DrawnFollows ==
  ASSUME NEW c, Full(c), NEW l \in Seq(Nat), Len(l) >= ListRows,
         NEW p, StaticsOK(p),
         Seeks(c), c.restore = None, Goal(c) \in ToSet(l)
  PROVE  LET d     == Drawn(c, l, p)
             place == Place(l, Goal(c))
         IN /\ d.start < place /\ place <= d.start + Window(Detail(c, p), d.banner)
            /\ \/ d.selected_pid = Goal(c)
               \/ d.selected = 0 /\ c.detailed_pid = Goal(c)
            /\ d.last_pid = p.last_pid
<1> DEFINE det   == Detail(c, p)
           n     == Len(l)
           place == Place(l, Goal(c))
           max0  == Window(det, c.paused \/ c.follow)
           to    == Centred(place, max0, n)
           seen  == [c EXCEPT !.banner = c.paused \/ c.follow]
           f     == Followed(c, l, det)
           max   == Window(det, f.banner)
           s     == IF MovesUp(p.banner, f.banner, f.start, max, n)
                      THEN [f EXCEPT !.selected = @ + 1]
                    ELSE IF c.paused /\ f.selected > max THEN [f EXCEPT !.start = @ + 1] ELSE f
           b     == Bounded(s, n, max)
           d     == Drawn(c, l, p)
<1>1. place \in 1..n /\ l[place] = Goal(c) /\ n \in Nat
  BY PlaceIn
<1>2. c.paused \in BOOLEAN /\ c.follow \in BOOLEAN /\ c.follow
  BY DEF Full, Typed, Ints, Bools, Seeks
<1>3. f = [seen EXCEPT !.update = FALSE, !.start = to.start, !.followed = to.row,
             !.returns = TRUE, !.selected = IF c.followed_pid = c.detailed_pid THEN 0 ELSE to.row]
  BY DEF Followed
<1>4. f.start = to.start /\ f.selected = IF c.followed_pid = c.detailed_pid THEN 0 ELSE to.row
  <2> HIDE DEF to, f
  <2> QED
    BY <1>3 DEF Full, Ints, Bools
<1>5. f.banner /\ f.banner = (c.paused \/ c.follow)
  <2>1. "banner" \in DOMAIN c
    BY DEF Full, Bools
  <2>2. f.banner = (c.paused \/ c.follow)
    <3> HIDE DEF to, f
    <3>1. f.banner = seen.banner
      BY <1>3
    <3> QED
      BY <2>1, <3>1
  <2> QED
    BY <1>2, <2>2
<1>6. max = max0 /\ max \in Nat /\ 1 <= max /\ max <= n
  <2>1. max = max0
    BY <1>5
  <2>2. max0 \in Nat /\ 1 <= max0 /\ max0 <= ListRows
    BY WindowFits
  <2> HIDE DEF max, max0
  <2> QED
    BY <2>1, <2>2, ProcViewAssumption
<1>7. LET start == Clamp(to.start, 0, Larger(0, n - max))
      IN to.row \in 1..max /\ start + to.row = place /\ to.start \in Int /\ start \in Int
  <2>1. to = Centred(place, max, n)
    BY <1>6
  <2> HIDE DEF max, place, n, to
  <2>2. to.row \in 1..max /\ Clamp(to.start, 0, Larger(0, n - max)) + to.row = place
    <3>1. place \in 1..n /\ n \in Nat /\ max \in Nat /\ 1 <= max /\ max <= n
      BY <1>1, <1>6
    <3>2. /\ Centred(place, max, n).row \in 1..max
          /\ Clamp(Centred(place, max, n).start, 0, Larger(0, n - max))
               + Centred(place, max, n).row = place
      BY ONLY <3>1, CentredInWindow
    <3> QED
      BY <2>1, <3>2
  <2>3. to.start \in Int
    <3>1. place \in Int /\ max \in Int /\ n \in Int
      BY <1>1, <1>6
    <3> QED
      BY <2>1, <3>1, CentredInt
  <2>4. Clamp(to.start, 0, Larger(0, n - max)) \in Int
    BY <1>1, <1>6, <2>3 DEF Clamp, Smaller, Larger
  <2> QED
    BY <2>2, <2>3, <2>4
<1>8. s = f
  <2>1. ~MovesUp(p.banner, f.banner, f.start, max, n)
    BY <1>5 DEF MovesUp
  <2>2. ~(f.selected > max)
    <3> HIDE DEF f, max, to
    <3> QED
      BY <1>4, <1>6, <1>7
  <2> QED
    BY <2>1, <2>2
<1>9. d.start = b.start /\ d.selected = b.selected /\ d.banner = f.banner
      /\ d.last_pid = p.last_pid
      /\ d.selected_pid = IF b.selected = 0 THEN None
                          ELSE IF b.start + b.selected <= Len(l) THEN l[b.start + b.selected]
                          ELSE p.selected_pid
  <2> HIDE DEF f
  <2> QED
    BY DEF Drawn, f
<1>10. b.start = Clamp(f.start, 0, Larger(0, n - max))
       /\ b.selected = Smaller(Smaller(f.selected, max), n)
  <2> HIDE DEF f, max
  <2> QED
    BY <1>8 DEF Bounded
<1> HIDE DEF f, max, max0, to, seen, s, b, d, n, place, det
<1>11. b.start + to.row = place /\ to.row \in 1..max /\ b.start \in Int
  BY <1>4, <1>7, <1>10
<1>12. d.start < place /\ place <= d.start + max
  BY <1>1, <1>6, <1>9, <1>11
<1>13. max = Window(det, d.banner)
  BY <1>9 DEF max
<1>14. CASE c.followed_pid = c.detailed_pid
  <2>1. d.selected = 0
    BY <1>4, <1>6, <1>9, <1>10, <1>14, <1>1 DEF Smaller
  <2> QED
    BY <1>12, <1>13, <1>9, <1>14, <2>1 DEF Goal, d, place, det
<1>15. CASE c.followed_pid # c.detailed_pid
  <2>1. b.selected = to.row
    BY <1>1, <1>4, <1>6, <1>10, <1>11, <1>15 DEF Smaller
  <2>2. d.selected_pid = l[place]
    BY <1>1, <1>9, <1>11, <2>1 DEF n
  <2> QED
    BY <1>1, <1>9, <1>12, <1>13, <2>2 DEF d, place, det
<1> QED
  BY <1>14, <1>15

LEMMA DrawFollows ==
  ASSUME Cursor, Details, Draw,
         Seeks(conf), conf.restore = None, Goal(conf) \in ToSet(list'), Len(list') >= ListRows
  PROVE  GoalInView
<1>1. PICK l \in Lists \cup {list} :
         LET p == [proc EXCEPT !.last_pid = LastPid(l)]
         IN Collected(l) /\ proc' = Drawn(conf, l, p)
  BY DEF Draw
<1> DEFINE p == [proc EXCEPT !.last_pid = LastPid(l)]
<1>2. l \in Seq(Nat) /\ list' = l
  BY <1>1, ListsSeq DEF Cursor, Collected
<1>3. StaticsOK(p) /\ p.last_pid = LastPid(l)
  BY DEF Cursor, StaticsOK
<1>4. proc' = Drawn(conf, l, p)
  BY <1>1
<1> HIDE DEF p
<1> DEFINE place == Place(list', Goal(conf))
<1>5. /\ proc'.start < place /\ place <= proc'.start + Window(Detail(conf, p), proc'.banner)
      /\ proc'.selected_pid = Goal(conf)
           \/ (proc'.selected = 0 /\ conf.detailed_pid = Goal(conf))
      /\ proc'.last_pid = p.last_pid
  BY <1>2, <1>3, <1>4, DrawnFollows DEF Cursor
<1>6. Detail(conf, proc') = Detail(conf, p)
  BY <1>5 DEF Detail
<1>7. conf.detailed_pid = Goal(conf) => Detail(conf, p)
  <2> SUFFICES ASSUME conf.detailed_pid = Goal(conf) PROVE Detail(conf, p)
    OBVIOUS
  <2>1. l \in Seq(Nat \ {0})
    <3>1. l # <<>>
      BY <1>2, PlaceIn
    <3> QED
      BY <3>1, ProcViewAssumption DEF Details
  <2>2. conf.detailed_pid # None
    BY <1>2, <2>1, PlaceIn DEF None
  <2>3. conf.show = TRUE
    BY <2>2 DEF Details, Together
  <2> QED
    BY <1>2, <1>3, <2>3 DEF Detail, LastPid
<1> QED
  BY <1>5, <1>6, <1>7 DEF GoalInView

\* Only a drawing begins to follow or to go to a process.
LEMMA OnlyDrawGoes == ASSUME Cursor, [Next]_vars, Goes PROVE Draw
<1>1. ~Stopped /\ ~Shown /\ ~Refuse /\ ~UNCHANGED vars
  BY DEF Goes, Work, Stopped, Shown, Refuse, vars
<1>2. ~Tick /\ ~Redraw /\ ~Run /\ ~RunCpu /\ ~ShowDialog /\ ~CloseDialog
  BY DEF Goes, Work, Begin, Tick, Redraw, Run, RunCpu, ShowDialog, CloseDialog, Cursor
<1>3. ~Key
  BY DEF Goes, Work, Key, Move, Handled, KeyPause, KeySort, KeyFollow, KeyEnter, KeyDialog
<1> QED
  BY <1>1, <1>2, <1>3 DEF Next

\* A view that follows a process has it in its window, highlighted or in the details,
\* wherever an update or another order puts it: for all lists that fill the box, and
\* for all heights of the box and of the details.
THEOREM ViewFollows == Spec => FollowedInView
<1>1. ASSUME Cursor, Details, [Next]_vars
      PROVE  [Goes /\ conf.restore = None /\ Len(list') >= ListRows => GoalInView]_vars
  BY <1>1, OnlyDrawGoes, DrawFollows DEF Goes
<1> QED
  BY <1>1, CursorAlways, DetailsAlways, PTL DEF Spec, FollowedInView
-----------------------------------------------------------------------------
(* The process a dialog is about. A key reads the settings as they were    *)
(* unlocked for the job that drew what is on the screen: neither keys nor  *)
(* drawings set the process of the cursor, and what opens the details is   *)
(* drawn before the next key is read.                                      *)

\* The main thread is not between the opening of the details and their drawing.
Watched == at \in {"free", "show", "dialog"}

Aimed ==
    /\ DOMAIN screen = {"list", "pid", "detail", "cut"} /\ DOMAIN dialog = {"pid", "asked"}
    /\ {"selected_pid", "show", "detailed_pid"} \subseteq DOMAIN conf
    /\ "selected_pid" \notin DOMAIN tmp
    /\ at # "run" => {"show", "detailed_pid"} \cap DOMAIN tmp = {}
    /\ job # "idle" => locked
    /\ job # "drawn" => proc.selected_pid = screen.pid
    /\ job # "idle" \/ ~locked => conf.selected_pid = screen.pid
    /\ at \in {"free", "run", "cpu", "show", "dialog"}
    /\ at = "run" => kind # "full"
    /\ at = "cpu" => job # "full"
    /\ conf.show /\ (Watched \/ (at = "cpu" /\ job \in {"drawn", "idle"}))
         => proc.last_pid = conf.detailed_pid
    /\ conf.show /\ (Watched \/ (at = "cpu" /\ job = "idle")) => screen.detail = conf.detailed_pid
    /\ at = "show" => Aim(conf) \in {None, dialog.asked}
    /\ at # "dialog" => dialog.pid = None
    /\ DialogHighlighted

\* What unlock() leaves of the settings that a dialog depends on.
LEMMA UnlockedAims ==
  ASSUME Aimed
  PROVE  /\ DOMAIN Unlocked = DOMAIN conf
         /\ Unlocked.selected_pid = IF locked THEN proc.selected_pid ELSE conf.selected_pid
         /\ at # "run" => /\ Unlocked.show = conf.show
                          /\ Unlocked.detailed_pid = conf.detailed_pid
<1> DEFINE drawn == [k \in {"start", "selected", "selected_pid"} |-> proc[k]]
           first == Override(conf, drawn)
<1>1. /\ DOMAIN first = DOMAIN conf /\ first.selected_pid = proc.selected_pid
      /\ first.show = conf.show /\ first.detailed_pid = conf.detailed_pid
  BY DEF Aimed, Override
<1> HIDE DEF first
<1>2. /\ DOMAIN Override(first, tmp) = DOMAIN conf
      /\ Override(first, tmp).selected_pid = first.selected_pid
      /\ at # "run" => /\ Override(first, tmp).show = first.show
                       /\ Override(first, tmp).detailed_pid = first.detailed_pid
  BY <1>1 DEF Aimed, Override
<1> QED
  BY <1>1, <1>2 DEF Unlocked, first

\* A job that begins unlocks what the screen shows.
LEMMA BeginAims ==
  ASSUME Aimed, NEW k, Begin(k)
  PROVE  /\ DOMAIN conf' = DOMAIN conf /\ DOMAIN tmp' = {} /\ locked'
         /\ conf'.selected_pid = screen.pid /\ proc.selected_pid = screen.pid
         /\ at # "run" => conf'.show = conf.show /\ conf'.detailed_pid = conf.detailed_pid
<1>1. conf' = Unlocked /\ tmp' = Nothing /\ locked' = TRUE /\ job = "idle"
  BY DEF Begin
<1>2. Unlocked.selected_pid = screen.pid /\ proc.selected_pid = screen.pid
  BY <1>1, UnlockedAims DEF Aimed
<1> QED
  BY <1>1, <1>2, UnlockedAims DEF Nothing

\* A key that does not set the process of the cursor.
LEMMA SetAims ==
  ASSUME Aimed, NEW changes, Set(changes), "selected_pid" \notin DOMAIN changes
  PROVE  /\ DOMAIN conf' = DOMAIN conf /\ "selected_pid" \notin DOMAIN tmp'
         /\ job # "idle" => locked'
         /\ conf'.selected_pid = screen.pid
         /\ {"show", "detailed_pid"} \cap DOMAIN changes = {} /\ at # "run" =>
              /\ {"show", "detailed_pid"} \cap DOMAIN tmp' = {}
              /\ conf'.show = conf.show /\ conf'.detailed_pid = conf.detailed_pid
<1>1. CASE job = "idle"
  <2>1. conf' = Override(Unlocked, changes) /\ DOMAIN tmp' = {}
    BY <1>1 DEF Set, Nothing
  <2>2. Unlocked.selected_pid = screen.pid
    BY <1>1, UnlockedAims DEF Aimed
  <2>3. DOMAIN Unlocked = DOMAIN conf
        /\ {"selected_pid", "show", "detailed_pid"} \subseteq DOMAIN Unlocked
    BY UnlockedAims DEF Aimed
  <2>4. DOMAIN conf' = DOMAIN conf /\ conf'.selected_pid = Unlocked.selected_pid
        /\ ({"show", "detailed_pid"} \cap DOMAIN changes = {} =>
              conf'.show = Unlocked.show /\ conf'.detailed_pid = Unlocked.detailed_pid)
    <3> HIDE DEF Unlocked
    <3> QED
      BY <2>1, <2>3 DEF Override
  <2> QED
    BY <1>1, <2>1, <2>2, <2>4, UnlockedAims
<1>2. CASE job # "idle"
  <2>1. conf' = conf /\ tmp' = Put(tmp, changes) /\ locked' = locked
    BY <1>2 DEF Set
  <2> QED
    BY <1>2, <2>1 DEF Aimed, Put
<1> QED
  BY <1>1, <1>2

\* Whatever a key sets that ends in run(): the details are not looked at before.
LEMMA HandledAims ==
  ASSUME Aimed, NEW changes, NEW k, Handled(changes, k), k # "full",
         "selected_pid" \notin DOMAIN changes
  PROVE  Aimed'
<1>1. /\ Set(changes) /\ at = "free" /\ at' = "run" /\ kind' = k
      /\ UNCHANGED <<proc, job, screen, dialog>>
  BY DEF Handled, Reads
<1>2. /\ DOMAIN conf' = DOMAIN conf /\ "selected_pid" \notin DOMAIN tmp'
      /\ job # "idle" => locked'
      /\ conf'.selected_pid = screen.pid
  BY <1>1, SetAims
<1> QED
  BY <1>1, <1>2 DEF Aimed, Watched, DialogHighlighted
-----------------------------------------------------------------------------
LEMMA DrawAims == ASSUME Cursor, Aimed, Draw PROVE Aimed'
<1>1. PICK l \in Lists \cup {list} :
         LET p == [proc EXCEPT !.last_pid = LastPid(l)] IN
         proc' = Drawn(conf, l, p) /\ tmp' = Put(tmp, DrawingSets(conf, l, p))
  BY DEF Draw
<1> DEFINE p == [proc EXCEPT !.last_pid = LastPid(l)]
           g == DrawingSets(conf, l, p)
<1>2. DOMAIN g \cap {"selected_pid", "show", "detailed_pid"} = {}
  BY DEF DrawingSets
<1>3. DOMAIN tmp' = DOMAIN tmp \cup DOMAIN g
  <2>1. tmp' = Put(tmp, g)
    BY <1>1
  <2> HIDE DEF g
  <2> QED
    BY <2>1 DEF Put
<1>4. proc'.last_pid = LastPid(l)
  <2>1. p.last_pid = LastPid(l)
    BY DEF Cursor, StaticsOK
  <2>2. proc'.last_pid = p.last_pid
    <3>1. proc' = Drawn(conf, l, p)
      BY <1>1
    <3> HIDE DEF p
    <3> QED
      BY <3>1 DEF Drawn
  <2> QED
    BY <2>1, <2>2
<1>5. conf.show /\ (Watched \/ at = "cpu") => LastPid(l) = conf.detailed_pid
  BY DEF Aimed, LastPid, Draw, Work, Watched
<1> HIDE DEF g, p
<1>6. job' = "drawn" /\ job # "idle" /\ job # "drawn" /\ UNCHANGED <<conf, locked, at, kind, screen, dialog>>
  BY DEF Draw, Work
<1>7. "selected_pid" \notin DOMAIN tmp' /\ (at # "run" => {"show", "detailed_pid"} \cap DOMAIN tmp' = {})
  BY <1>2, <1>3 DEF Aimed
<1> QED
  BY <1>4, <1>5, <1>6, <1>7 DEF Aimed, Watched, Aim, DialogHighlighted

LEMMA StoppedAims == ASSUME Cursor, Aimed, Stopped PROVE Aimed'
<1>1. PICK l \in Lists \cup {list} : proc' = [proc EXCEPT !.last_pid = LastPid(l)]
  BY DEF Stopped
<1>2. proc'.last_pid = LastPid(l) /\ proc'.selected_pid = proc.selected_pid
  BY <1>1 DEF Cursor, StaticsOK
<1>3. conf.show => LastPid(l) = conf.detailed_pid
  BY DEF Aimed, LastPid, Stopped, Watched
<1>4. /\ job # "idle" /\ job # "drawn" /\ job' = "idle" /\ at \in {"free", "dialog"}
      /\ UNCHANGED <<conf, tmp, locked, at, kind, dialog>>
  BY DEF Stopped, Work
<1>5. DOMAIN screen' = DOMAIN screen /\ screen'.pid = screen.pid /\ screen'.detail = screen.detail
  BY DEF Stopped, Aimed
<1> QED
  BY <1>2, <1>3, <1>4, <1>5 DEF Aimed, Watched, Aim, DialogHighlighted

LEMMA ShownAims == ASSUME Aimed, Shown PROVE Aimed'
<1>1. /\ job = "drawn" /\ job' = "idle" /\ UNCHANGED <<conf, tmp, locked, proc, at, kind, dialog>>
      /\ DOMAIN screen' = {"list", "pid", "detail", "cut"} /\ screen'.pid = proc.selected_pid
      /\ screen'.detail = IF Detail(conf, proc) THEN conf.detailed_pid ELSE None
  BY DEF Shown
<1>2. conf.show /\ (Watched \/ at = "cpu") => Detail(conf, proc)
  BY <1>1 DEF Aimed, Detail
<1>3. locked /\ conf.selected_pid = screen.pid
  BY <1>1 DEF Aimed
<1> QED
  BY <1>1, <1>2, <1>3 DEF Aimed, Watched, Aim, DialogHighlighted

\* The jobs that begin while the details are as they were drawn.
LEMMA AgainAims ==
  ASSUME Aimed, Tick \/ Redraw \/ CloseDialog
  PROVE  Aimed'
<1>1. \E k \in {"full", "cached"} : Begin(k) /\ job' = k
  BY DEF Tick, Redraw, CloseDialog, Begin
<1>2. /\ job' \notin {"idle", "drawn"} /\ at \in {"free", "dialog"}
      /\ DOMAIN conf' = DOMAIN conf /\ DOMAIN tmp' = {} /\ locked'
      /\ conf'.selected_pid = screen.pid /\ proc.selected_pid = screen.pid
      /\ conf'.show = conf.show /\ conf'.detailed_pid = conf.detailed_pid
  BY <1>1, BeginAims DEF Tick, Redraw, CloseDialog
<1>3. /\ UNCHANGED <<proc, screen>>
      /\ DOMAIN dialog' = {"pid", "asked"}
      /\ (at' = at /\ dialog' = dialog) \/ (at' = "free" /\ dialog'.pid = None)
  BY DEF Tick, Redraw, CloseDialog, Aimed
<1> QED
  BY <1>2, <1>3 DEF Aimed, Watched, DialogHighlighted

LEMMA RunAims == ASSUME Cursor, Aimed, Run PROVE Aimed'
<1>1. /\ job' \notin {"idle", "drawn", "full"} /\ at = "run" /\ at' = "cpu"
      /\ DOMAIN conf' = DOMAIN conf /\ DOMAIN tmp' = {} /\ locked'
      /\ conf'.selected_pid = screen.pid /\ proc.selected_pid = screen.pid
      /\ UNCHANGED <<proc, screen, dialog, kind>>
  BY BeginAims DEF Run, Begin, Cursor, Work, Aimed
<1> QED
  BY <1>1 DEF Aimed, Watched, DialogHighlighted

LEMMA RunCpuAims == ASSUME Aimed, RunCpu PROVE Aimed'
<1>1. /\ job = "idle" /\ job' = "idle" /\ at = "cpu" /\ at' = "free"
      /\ DOMAIN conf' = DOMAIN conf /\ DOMAIN tmp' = {} /\ locked'
      /\ conf'.selected_pid = screen.pid /\ proc.selected_pid = screen.pid
      /\ conf'.show = conf.show /\ conf'.detailed_pid = conf.detailed_pid
      /\ UNCHANGED <<proc, screen, dialog, kind>>
  BY BeginAims DEF RunCpu, Begin
<1> QED
  BY <1>1 DEF Aimed, Watched, DialogHighlighted

\* The dialog opens about what it was asked about.
LEMMA ShowAims == ASSUME Aimed, ShowDialog PROVE Aimed'
<1>1. /\ job' = "cached" /\ at = "show" /\ at' = "dialog"
      /\ DOMAIN conf' = DOMAIN conf /\ DOMAIN tmp' = {} /\ locked'
      /\ conf'.selected_pid = screen.pid /\ proc.selected_pid = screen.pid
      /\ conf'.show = conf.show /\ conf'.detailed_pid = conf.detailed_pid
      /\ UNCHANGED <<proc, screen, kind>>
  BY BeginAims DEF ShowDialog, Begin
<1>2. DOMAIN dialog' = {"pid", "asked"} /\ dialog'.pid = Aim(conf) /\ dialog'.asked = dialog.asked
  BY DEF ShowDialog, Aimed
<1>3. Aim(conf) \in {None, dialog.asked}
  BY <1>1 DEF Aimed
<1> QED
  BY <1>1, <1>2, <1>3 DEF Aimed, Watched, DialogHighlighted

LEMMA RefuseAims == ASSUME Aimed, Refuse PROVE Aimed'
<1>1. /\ at = "show" /\ at' = "free" /\ dialog'.pid = None /\ DOMAIN dialog' = {"pid", "asked"}
      /\ UNCHANGED <<conf, tmp, locked, proc, job, kind, screen>>
  BY DEF Refuse
<1> QED
  BY <1>1 DEF Aimed, Watched, DialogHighlighted

\* What is highlighted when the key comes is what the dialog will aim at.
LEMMA AskAims == ASSUME Aimed, KeyDialog PROVE Aimed'
<1>1. /\ DOMAIN conf' = DOMAIN conf /\ "selected_pid" \notin DOMAIN tmp'
      /\ job # "idle" => locked'
      /\ conf'.selected_pid = screen.pid
      /\ {"show", "detailed_pid"} \cap DOMAIN tmp' = {}
      /\ conf'.show = conf.show /\ conf'.detailed_pid = conf.detailed_pid
  BY SetAims DEF KeyDialog, Reads, Nothing
<1>2. at = "free" /\ at' = "show" /\ UNCHANGED <<proc, job, kind, screen>>
  BY DEF KeyDialog, Reads
<1>3. /\ DOMAIN dialog' = {"pid", "asked"} /\ dialog'.pid = dialog.pid
      /\ dialog'.asked = IF screen.pid # None THEN screen.pid ELSE screen.detail
  BY DEF KeyDialog, Aimed
<1>4. conf'.show => screen.detail = conf'.detailed_pid
  BY <1>1, <1>2 DEF Aimed, Watched
<1>5. Aim(conf)' \in {None, dialog'.asked}
  BY <1>1, <1>3, <1>4 DEF Aim
<1>6. dialog.pid = None
  BY <1>2 DEF Aimed
<1> QED
  BY <1>1, <1>2, <1>3, <1>4, <1>5, <1>6 DEF Aimed, Watched, DialogHighlighted

LEMMA MoveAims == ASSUME Aimed, NEW key, Move(key) PROVE Aimed'
<1> DEFINE changes == Selection(Read, key)
<1>1. DOMAIN changes \cap {"selected_pid", "show", "detailed_pid"} = {}
  BY DEF Selection, Put, Unfollow, Nothing, Moved
<1>2. CASE Handled(changes, "cached")
  BY <1>1, <1>2, HandledAims
<1>3. CASE Reads /\ Set(changes) /\ UNCHANGED <<proc, list, gone, job, at, kind, screen, dialog>>
  <2> HIDE DEF changes
  <2>1. at = "free" /\ UNCHANGED <<proc, job, at, kind, screen, dialog>>
    BY <1>3 DEF Reads
  <2>2. /\ DOMAIN conf' = DOMAIN conf /\ "selected_pid" \notin DOMAIN tmp'
        /\ job # "idle" => locked'
        /\ conf'.selected_pid = screen.pid
        /\ {"show", "detailed_pid"} \cap DOMAIN tmp' = {}
        /\ conf'.show = conf.show /\ conf'.detailed_pid = conf.detailed_pid
    BY <1>1, <1>3, <2>1, SetAims
  <2> QED
    BY <2>1, <2>2 DEF Aimed, Watched, DialogHighlighted
<1> QED
  BY <1>2, <1>3 DEF Move

LEMMA FollowAims == ASSUME Aimed, KeyFollow PROVE Aimed'
<1> DEFINE c == Read
           To(pid) == [follow |-> TRUE, followed_pid |-> pid, update |-> TRUE]
           selects == c.selected # 0 /\ c.followed_pid # c.selected_pid
           details == c.show /\ c.selected = 0 /\ c.followed_pid # c.detailed_pid
           leaves  == IF c.returns THEN [selected |-> c.followed]
                      ELSE IF c.show /\ c.followed_pid = c.detailed_pid
                        THEN [restore |-> c.detailed_pid] ELSE Nothing
           ch == CASE selects -> To(c.selected_pid)
                   [] ~selects /\ details -> To(c.detailed_pid)
                   [] ~selects /\ ~details /\ c.follow -> Put(leaves, Unfollow)
                   [] OTHER -> Nothing
<1>1. "selected_pid" \notin DOMAIN ch
  <2>1. "selected_pid" \notin DOMAIN Put(leaves, Unfollow)
    <3>1. "selected_pid" \notin DOMAIN leaves /\ "selected_pid" \notin DOMAIN Unfollow
      BY DEF Nothing, Unfollow
    <3> HIDE DEF leaves
    <3> QED
      BY <3>1 DEF Put
  <2>2. "selected_pid" \notin DOMAIN Nothing
    BY DEF Nothing
  <2>3. \A pid : "selected_pid" \notin DOMAIN To(pid)
    OBVIOUS
  <2> HIDE DEF c, To, selects, details, leaves
  <2> QED
    BY <2>1, <2>2, <2>3
<1>2. Handled(ch, "cached")
  BY DEF KeyFollow
<1> HIDE DEF ch
<1> QED
  BY <1>1, <1>2, HandledAims

LEMMA EnterAims == ASSUME Aimed, KeyEnter PROVE Aimed'
<1> DEFINE c == Read
           opens == c.selected > 0 /\ c.detailed_pid # c.selected_pid
           more  == IF c.proc_follow_detailed
                      THEN [follow |-> TRUE, followed_pid |-> c.selected_pid] ELSE Nothing
           open  == [detailed_pid |-> c.selected_pid, last_selected |-> c.selected,
                     selected |-> 0, show |-> TRUE]
           gives == IF c.follow /\ c.followed_pid = c.detailed_pid THEN Unfollow ELSE Nothing
           to    == IF c.proc_follow_detailed THEN Put([restore |-> c.detailed_pid], gives)
                    ELSE IF c.last_selected > 0 THEN [selected |-> c.last_selected] ELSE Nothing
           shut  == [last_selected |-> 0, detailed_pid |-> None, show |-> FALSE]
           what  == IF opens THEN Put(open, more) ELSE IF c.show THEN Put(to, shut) ELSE Nothing
           ch    == Put(what, [update |-> TRUE])
           Other(f) == "selected_pid" \notin DOMAIN f
<1>1. Handled(ch, "cached")
  BY DEF KeyEnter
<1>2. \A f, g : Other(f) /\ Other(g) => Other(Put(f, g))
  BY DEF Put
<1>3. Other(more) /\ Other(open) /\ Other(gives) /\ Other(shut) /\ Other([update |-> TRUE])
      /\ Other(Nothing)
  BY DEF Nothing, Unfollow
<1>4. Other([restore |-> c.detailed_pid]) /\ Other([selected |-> c.last_selected])
  OBVIOUS
<1> HIDE DEF Other, c, opens, more, open, gives, shut
<1>5. Other(to)
  BY <1>2, <1>3, <1>4
<1> HIDE DEF to
<1>6. Other(what)
  BY <1>2, <1>3, <1>5
<1> HIDE DEF what
<1>7. Other(ch)
  BY <1>2, <1>3, <1>6
<1> QED
  BY <1>1, <1>7, HandledAims DEF Other

LEMMA AimedStep == Cursor /\ Aimed /\ [Next]_vars => Aimed'
<1> SUFFICES ASSUME Cursor, Aimed, [Next]_vars PROVE Aimed'
  OBVIOUS
<1>1. CASE Draw \/ Stopped \/ Shown
  BY <1>1, DrawAims, StoppedAims, ShownAims
<1>2. CASE Tick \/ Redraw \/ CloseDialog
  BY <1>2, AgainAims
<1>3. CASE Run \/ RunCpu
  BY <1>3, RunAims, RunCpuAims
<1>4. CASE ShowDialog \/ Refuse
  BY <1>4, ShowAims, RefuseAims
<1>5. CASE Key
  <2>1. CASE \E k \in {"up", "down", "page_up", "page_down", "home", "end"} : Move(k)
    BY <2>1, MoveAims
  <2>2. CASE KeyPause \/ KeySort
    BY <2>2, HandledAims DEF KeyPause, KeySort
  <2>3. CASE KeyFollow \/ KeyEnter \/ KeyDialog
    BY <2>3, FollowAims, EnterAims, AskAims
  <2> QED
    BY <1>5, <2>1, <2>2, <2>3 DEF Key
<1>6. CASE UNCHANGED vars
  BY <1>6 DEF vars, Aimed, Watched, Aim, DialogHighlighted
<1> QED
  BY <1>1, <1>2, <1>3, <1>4, <1>5, <1>6 DEF Next

LEMMA AimedInit == Init => Aimed
<1> SUFFICES ASSUME Init PROVE Aimed
  OBVIOUS
<1>1. {"selected_pid", "show", "detailed_pid"} \subseteq DOMAIN conf
      /\ conf.selected_pid = None /\ conf.show = FALSE
  BY DEF Init
<1>2. DOMAIN tmp = {} /\ locked = FALSE /\ job = "idle" /\ at = "free" /\ proc.selected_pid = None
  BY DEF Init, Nothing
<1>3. DOMAIN screen = {"list", "pid", "detail", "cut"} /\ screen.pid = None
      /\ DOMAIN dialog = {"pid", "asked"} /\ dialog.pid = None
  BY DEF Init
<1> QED
  BY <1>1, <1>2, <1>3 DEF Aimed, DialogHighlighted

LEMMA AimedAlways == Spec => []Aimed
  BY AimedInit, AimedStep, CursorAlways, PTL DEF Spec

\* A dialog is about the process that was highlighted, or shown in detail, when its key
\* came, although the runner goes on drawing until Menu::show() has taken its target
\* and lists change behind it: for all lists and for all heights of the box.
THEOREM DialogKeepsTarget == Spec => []DialogHighlighted
<1>1. Aimed => DialogHighlighted
  BY DEF Aimed
<1> QED
  BY <1>1, AimedAlways, PTL
-----------------------------------------------------------------------------
(* Drawing again. What a drawing computes of the settings, it finds again. *)

Settings == {"start", "selected", "selected_pid", "last_selected", "show", "detailed_pid",
             "follow", "followed_pid", "followed", "returns", "restore", "update", "banner",
             "paused", "proc_follow_detailed"}

\* Where the process is shown that the settings c go to in list l.
Aside(c, l, detail) ==
    Centred(Place(l, Goal(c)), Window(detail, c.paused \/ c.follow), Len(l))

\* The drawing goes to a process, or gives one up that is not in the list.
LEMMA FollowedFields ==
  ASSUME NEW c, DOMAIN c = Settings, NEW l, NEW d
  PROVE  LET f == Followed(c, l, d)
             gives == Seeks(c) /\ c.restore = None /\ Goal(c) \notin ToSet(l)
         IN /\ f.banner = (IF gives THEN c.paused ELSE c.paused \/ c.follow)
            /\ f.follow = (IF gives THEN FALSE ELSE c.follow)
            /\ f.followed_pid = (IF gives THEN None ELSE c.followed_pid)
            /\ f.update = (IF Seeks(c) THEN FALSE ELSE c.update)
            /\ f.restore = None
            /\ f.start = (IF Seeks(c) /\ Goal(c) \in ToSet(l) THEN Aside(c, l, d).start
                          ELSE c.start)
            /\ f.selected = (IF Seeks(c) /\ Goal(c) \in ToSet(l)
                               THEN IF c.restore = None /\ c.followed_pid = c.detailed_pid THEN 0
                                    ELSE Aside(c, l, d).row
                             ELSE c.selected)
<1> DEFINE f == Followed(c, l, d)
           seen == [c EXCEPT !.banner = c.paused \/ c.follow]
           to == Aside(c, l, d)
<1>0. DOMAIN seen = Settings /\ seen.banner = (c.paused \/ c.follow)
      /\ \A k \in Settings \ {"banner"} : seen[k] = c[k]
  BY DEF Settings
<1>1. CASE ~Seeks(c)
  <2>1. f = seen
    BY <1>1 DEF Followed
  <2>2. c.restore = None
    BY <1>1 DEF Seeks
  <2> HIDE DEF f, seen
  <2> QED
    BY <1>0, <1>1, <2>1, <2>2 DEF Settings, f
<1>2. CASE Seeks(c) /\ Goal(c) \in ToSet(l) /\ c.restore = None
  <2>1. f = [seen EXCEPT !.update = FALSE, !.start = to.start, !.followed = to.row,
               !.returns = TRUE, !.selected = IF c.followed_pid = c.detailed_pid THEN 0 ELSE to.row]
    BY <1>2 DEF Followed, Aside
  <2> HIDE DEF f, seen, to
  <2> QED
    BY <1>0, <1>2, <2>1 DEF Settings, f, to
<1>3. CASE Seeks(c) /\ Goal(c) \in ToSet(l) /\ c.restore # None
  <2>1. f = [seen EXCEPT !.update = FALSE, !.start = to.start, !.selected = to.row, !.restore = None]
    BY <1>3 DEF Followed, Aside
  <2> HIDE DEF f, seen, to
  <2> QED
    BY <1>0, <1>3, <2>1 DEF Settings, f, to
<1>4. CASE Seeks(c) /\ Goal(c) \notin ToSet(l) /\ c.restore = None
  <2>1. f = [seen EXCEPT !.update = FALSE, !.follow = FALSE, !.followed_pid = None,
               !.followed = 0, !.banner = c.paused]
    BY <1>4 DEF Followed
  <2> HIDE DEF f, seen, to
  <2> QED
    BY <1>0, <1>4, <2>1 DEF Settings, f, to
<1>5. CASE Seeks(c) /\ Goal(c) \notin ToSet(l) /\ c.restore # None
  <2>1. f = [seen EXCEPT !.update = FALSE, !.restore = None]
    BY <1>5 DEF Followed
  <2> HIDE DEF f, seen, to
  <2> QED
    BY <1>0, <1>5, <2>1 DEF Settings, f, to
<1> QED
  BY <1>1, <1>2, <1>3, <1>4, <1>5

LEMMA FollowedSeen ==
  ASSUME NEW c, DOMAIN c = Settings, NEW l, NEW d, ~Seeks(c)
  PROVE  LET f == Followed(c, l, d)
         IN f.start = c.start /\ f.selected = c.selected /\ f.banner = (c.paused \/ c.follow)
<1> DEFINE seen == [c EXCEPT !.banner = c.paused \/ c.follow]
<1>1. Followed(c, l, d) = seen
  BY DEF Followed
<1>2. seen.start = c.start /\ seen.selected = c.selected /\ seen.banner = (c.paused \/ c.follow)
  BY DEF Settings
<1> HIDE DEF seen
<1> QED
  BY <1>1, <1>2

LEMMA FollowedGoes ==
  ASSUME NEW c, DOMAIN c = Settings, NEW l, NEW d, Seeks(c), c.restore = None, Goal(c) \in ToSet(l)
  PROVE  LET f == Followed(c, l, d)
         IN /\ f.start = Aside(c, l, d).start
            /\ f.selected = (IF c.followed_pid = c.detailed_pid THEN 0 ELSE Aside(c, l, d).row)
            /\ f.banner = (c.paused \/ c.follow)
<1> DEFINE f == Followed(c, l, d)
           seen == [c EXCEPT !.banner = c.paused \/ c.follow]
           to == Aside(c, l, d)
<1>1. DOMAIN seen = Settings /\ seen.banner = (c.paused \/ c.follow)
  BY DEF Settings
<1>2. f = [seen EXCEPT !.update = FALSE, !.start = to.start, !.followed = to.row,
             !.returns = TRUE, !.selected = IF c.followed_pid = c.detailed_pid THEN 0 ELSE to.row]
  BY DEF Followed, Aside
<1> HIDE DEF f, seen, to
<1>3. /\ f.start = to.start /\ f.banner = seen.banner
      /\ f.selected = (IF c.followed_pid = c.detailed_pid THEN 0 ELSE to.row)
  BY <1>1, <1>2 DEF Settings
<1> QED
  BY <1>1, <1>3 DEF f, to

\* The settings once a drawing of list l is unlocked over them.
Redrawn(c, l, p) ==
    Override(Override(c, [k \in {"start", "selected", "selected_pid"} |-> Drawn(c, l, p)[k]]),
             DrawingSets(c, l, p))

LEMMA RedrawnFields ==
  ASSUME NEW c, DOMAIN c = Settings, NEW l, NEW p
  PROVE  LET r == Redrawn(c, l, p)
             f == Followed(c, l, Detail(c, p))
         IN /\ DOMAIN r = Settings
            /\ r.start = Drawn(c, l, p).start /\ r.selected = Drawn(c, l, p).selected
            /\ r.banner = f.banner /\ r.follow = f.follow /\ r.followed_pid = f.followed_pid
            /\ r.update = f.update /\ r.restore = None
            /\ r.paused = c.paused /\ r.show = c.show /\ r.detailed_pid = c.detailed_pid
<1> DEFINE d == Drawn(c, l, p)
           g == DrawingSets(c, l, p)
           f == Followed(c, l, Detail(c, p))
           statics == [k \in {"start", "selected", "selected_pid"} |-> d[k]]
           first == Override(c, statics)
<1> HIDE DEF d, g, f
<1>1. DOMAIN first = Settings /\ first.start = d.start /\ first.selected = d.selected
      /\ \A k \in Settings \ {"start", "selected", "selected_pid"} : first[k] = c[k]
  BY DEF Override, Settings
<1> HIDE DEF first
<1>2. /\ \A k \in DOMAIN g : g[k] = f[k]
      /\ DOMAIN g \subseteq {"banner", "update", "restore", "followed", "returns", "follow",
                             "followed_pid"}
      /\ "banner" \in DOMAIN g
      /\ "update" \in DOMAIN g <=> Seeks(c)
      /\ "restore" \in DOMAIN g <=> c.restore # None
      /\ "follow" \in DOMAIN g <=> Seeks(c) /\ c.restore = None /\ Goal(c) \notin ToSet(l)
      /\ "followed_pid" \in DOMAIN g <=> Seeks(c) /\ c.restore = None /\ Goal(c) \notin ToSet(l)
  BY DEF DrawingSets, g, f
<1>3. /\ f.follow = (IF Seeks(c) /\ c.restore = None /\ Goal(c) \notin ToSet(l)
                       THEN FALSE ELSE c.follow)
      /\ f.followed_pid = (IF Seeks(c) /\ c.restore = None /\ Goal(c) \notin ToSet(l)
                             THEN None ELSE c.followed_pid)
      /\ f.update = (IF Seeks(c) THEN FALSE ELSE c.update)
      /\ f.restore = None
  <2> DEFINE det == Detail(c, p)
  <2> HIDE DEF det
  <2>1. f = Followed(c, l, det)
    BY DEF f, det
  <2>2. /\ Followed(c, l, det).update = (IF Seeks(c) THEN FALSE ELSE c.update)
        /\ Followed(c, l, det).restore = None
    BY FollowedFields, ZenonT(60)
  <2>3. Followed(c, l, det).followed_pid = (IF Seeks(c) /\ c.restore = None /\ Goal(c) \notin ToSet(l)
             THEN None ELSE c.followed_pid)
    BY FollowedFields, ZenonT(60)
  <2>4. Followed(c, l, det).follow = (IF Seeks(c) /\ c.restore = None /\ Goal(c) \notin ToSet(l)
             THEN FALSE ELSE c.follow)
    BY FollowedFields, ZenonT(60)
  <2> QED
    BY <2>1, <2>2, <2>3, <2>4
<1>4. Redrawn(c, l, p) = Override(first, g)
  BY DEF Redrawn, first, d, g
<1>5. /\ DOMAIN Override(first, g) = Settings
      /\ \A k \in Settings : Override(first, g)[k] = IF k \in DOMAIN g THEN g[k] ELSE first[k]
  BY <1>1 DEF Override
<1>6. LET r == Override(first, g)
      IN /\ r.start = d.start /\ r.selected = d.selected
         /\ r.banner = f.banner /\ r.follow = f.follow /\ r.followed_pid = f.followed_pid
         /\ r.update = f.update /\ r.restore = None
         /\ r.paused = c.paused /\ r.show = c.show /\ r.detailed_pid = c.detailed_pid
  <2> DEFINE r == Override(first, g)
  <2> HIDE DEF r
  <2>1. r.start = d.start /\ r.selected = d.selected /\ r.banner = f.banner
        /\ r.paused = c.paused /\ r.show = c.show /\ r.detailed_pid = c.detailed_pid
    BY <1>1, <1>2, <1>5 DEF Settings, r
  <2>2. r.follow = f.follow /\ r.followed_pid = f.followed_pid
    BY <1>1, <1>2, <1>3, <1>5 DEF Settings, r
  <2>3. r.update = f.update
    BY <1>1, <1>2, <1>3, <1>5 DEF Settings, r
  <2>4. r.restore = None
    BY <1>1, <1>2, <1>3, <1>5 DEF Settings, r
  <2> QED
    BY <2>1, <2>2, <2>3, <2>4 DEF r
<1> QED
  BY <1>4, <1>5, <1>6 DEF d, f

\* The bounds of what is in the bounds.
LEMMA BoundedAgain ==
  ASSUME NEW c, c.start \in Int, c.selected \in Int, NEW n \in Nat, NEW max \in Nat,
         NEW e, e.start = Bounded(c, n, max).start, e.selected = Bounded(c, n, max).selected
  PROVE  /\ Bounded(e, n, max) = Bounded(c, n, max)
         /\ Bounded(c, n, max).selected <= max
  BY DEF Bounded, Clamp, Smaller, Larger

\* What the bounds are given depends on the banner only where the view moves up.
Shifted(f, c, p, l, max) ==
    IF MovesUp(p.banner, f.banner, f.start, max, Len(l)) THEN [f EXCEPT !.selected = @ + 1]
    ELSE IF c.paused /\ f.selected > max THEN [f EXCEPT !.start = @ + 1] ELSE f

LEMMA DrawnIs ==
  ASSUME NEW c, Full(c), NEW l \in Seq(Nat), NEW p
  PROVE  LET f   == Followed(c, l, Detail(c, p))
             max == Window(Detail(c, p), f.banner)
             s   == Shifted(f, c, p, l, max)
             b   == Bounded(s, Len(l), max)
         IN /\ s.start \in Int /\ s.selected \in Int
            /\ b.start \in Int /\ b.selected \in Int /\ b.start + b.selected <= Len(l)
            /\ Drawn(c, l, p) = [start |-> b.start, selected |-> b.selected, banner |-> f.banner,
                                 last_pid |-> p.last_pid,
                                 selected_pid |-> IF b.selected = 0 THEN None
                                                  ELSE l[b.start + b.selected]]
<1> DEFINE f   == Followed(c, l, Detail(c, p))
           max == Window(Detail(c, p), f.banner)
           s   == Shifted(f, c, p, l, max)
           b   == Bounded(s, Len(l), max)
<1>1. Full(f)
  BY FollowedFull
<1>2. max \in Int
  BY WindowInt
<1>3. s.start \in Int /\ s.selected \in Int
  <2> HIDE DEF f, max
  <2>1. f.start \in Int /\ f.selected \in Int /\ {"start", "selected"} \subseteq DOMAIN f
    BY <1>1 DEF Full, Typed, Ints
  <2> QED
    BY <2>1 DEF Shifted
<1>4. b.start \in Int /\ b.selected \in Int /\ b.start + b.selected <= Len(l)
  <2>1. Len(l) \in Nat
    OBVIOUS
  <2> HIDE DEF s, max
  <2> QED
    BY <1>2, <1>3, <2>1, BoundedInList
<1>5. Drawn(c, l, p) = [start |-> b.start, selected |-> b.selected, banner |-> f.banner,
                        last_pid |-> p.last_pid,
                        selected_pid |-> IF b.selected = 0 THEN None
                                         ELSE IF b.start + b.selected <= Len(l)
                                                THEN l[b.start + b.selected]
                                         ELSE p.selected_pid]
  BY DEF Drawn, Shifted
<1> QED
  <2> HIDE DEF f, b
  <2>1. b.start + b.selected <= Len(l)
    BY <1>4
  <2> QED
    BY <1>3, <1>4, <1>5, <2>1 DEF b, f

LEMMA RedrawnFull ==
  ASSUME NEW c, Full(c), NEW l \in Seq(Nat), NEW p, StaticsOK(p)
  PROVE  Full(Redrawn(c, l, p))
<1> DEFINE statics == [k \in {"start", "selected", "selected_pid"} |-> Drawn(c, l, p)[k]]
<1>1. Typed(statics)
  BY DrawnOnRow DEF StaticsOK, Typed, Ints, Bools
<1>2. Typed(DrawingSets(c, l, p))
  BY DrawingTyped
<1>3. Full(Override(c, statics))
  <2> HIDE DEF statics
  <2> QED
    BY <1>1, OverrideFull
<1> QED
  BY <1>2, <1>3, OverrideFull DEF Redrawn

\* A drawing of what the drawing before it left behind leaves the cursor where it is,
\* unless the one went back to a process and the other follows another.
LEMMA DrawnAgain ==
  ASSUME NEW c, Full(c), DOMAIN c = Settings, NEW l \in Seq(Nat), NEW p, StaticsOK(p),
         ~(c.restore # None /\ Seeks(Redrawn(c, l, p)))
  PROVE  Drawn(Redrawn(c, l, p), l, Drawn(c, l, p)) = Drawn(c, l, p)
<1> DEFINE d    == Drawn(c, l, p)
           r    == Redrawn(c, l, p)
           det  == Detail(c, p)
           n    == Len(l)
           f    == Followed(c, l, det)
           max  == Window(det, f.banner)
           s    == Shifted(f, c, p, l, max)
           b    == Bounded(s, n, max)
           f2   == Followed(r, l, Detail(r, d))
           max2 == Window(Detail(r, d), f2.banner)
           s2   == Shifted(f2, r, d, l, max2)
           b2   == Bounded(s2, n, max2)
<1>1. /\ s.start \in Int /\ s.selected \in Int
      /\ b.start \in Int /\ b.selected \in Int
      /\ d = [start |-> b.start, selected |-> b.selected, banner |-> f.banner,
              last_pid |-> p.last_pid,
              selected_pid |-> IF b.selected = 0 THEN None ELSE l[b.start + b.selected]]
  BY DrawnIs
<1>2. Full(r) /\ DOMAIN r = Settings
  BY RedrawnFull, RedrawnFields
<1>3. Drawn(r, l, d) = [start |-> b2.start, selected |-> b2.selected, banner |-> f2.banner,
                        last_pid |-> d.last_pid,
                        selected_pid |-> IF b2.selected = 0 THEN None
                                         ELSE l[b2.start + b2.selected]]
  <2> HIDE DEF r, d
  <2> QED
    BY <1>2, DrawnIs
<1>4. /\ r.start = d.start /\ r.selected = d.selected
      /\ r.follow = f.follow /\ r.followed_pid = f.followed_pid
      /\ r.update = f.update /\ r.restore = None
      /\ r.paused = c.paused /\ r.show = c.show /\ r.detailed_pid = c.detailed_pid
  BY RedrawnFields
<1>5. max \in Nat /\ n \in Nat
  <2> HIDE DEF f, det
  <2> QED
    BY WindowFits
<1>6. /\ d.start = b.start /\ d.selected = b.selected /\ d.banner = f.banner
      /\ d.last_pid = p.last_pid
  <2> HIDE DEF d, b, f
  <2> QED
    BY <1>1
<1>7. Full(f) /\ Full(f2)
  <2> HIDE DEF r, det
  <2> QED
    BY <1>2, FollowedFull
<1>8. c.paused \in BOOLEAN /\ c.follow \in BOOLEAN /\ f.banner \in BOOLEAN /\ f2.banner \in BOOLEAN
      /\ f2.start \in Int /\ f2.selected \in Int
      /\ f.start \in Int /\ f.selected \in Int
  <2> HIDE DEF f, f2
  <2> QED
    BY <1>7 DEF Full, Typed, Ints, Bools
<1>9. Detail(r, d) = det
  <2> HIDE DEF r, d
  <2> QED
    BY <1>4, <1>6 DEF Detail, det
<1> DEFINE gives == Seeks(c) /\ c.restore = None /\ Goal(c) \notin ToSet(l)
<1>10. /\ f.banner = (IF gives THEN c.paused ELSE c.paused \/ c.follow)
       /\ f.follow = (IF gives THEN FALSE ELSE c.follow)
  BY FollowedFields, ZenonT(60)
<1>11. f.banner = (c.paused \/ f.follow)
  <2> HIDE DEF f
  <2> QED
    BY <1>8, <1>10, Zenon
<1> HIDE DEF d, r, det, n, f, max, f2, max2
<1>12. ASSUME f2.banner = f.banner,
              \/ s2.start = s.start /\ s2.selected = s.selected
              \/ s2.start = b.start /\ s2.selected = b.selected
       PROVE  Drawn(r, l, d) = d
  <2>1. max2 = max
    BY <1>9, <1>12 DEF max, max2
  <2> HIDE DEF s, s2
  <2>2. b2 = b
    <3>1. CASE s2.start = b.start /\ s2.selected = b.selected
      BY <1>1, <1>5, <2>1, <3>1, BoundedAgain
    <3>2. CASE s2.start = s.start /\ s2.selected = s.selected
      BY <2>1, <3>2 DEF Bounded
    <3> QED
      BY <1>12, <3>1, <3>2
  <2> HIDE DEF b, b2
  <2> QED
    BY <1>1, <1>3, <1>6, <1>12, <2>2
<1>13. CASE ~Seeks(r)
  <2>1. /\ f2.banner = (r.paused \/ r.follow)
        /\ f2.start = r.start /\ f2.selected = r.selected
    BY <1>2, <1>13, FollowedSeen DEF f2
  <2>2. f2.banner = f.banner
    BY <1>4, <1>11, <2>1
  <2>3. max2 = max
    BY <1>9, <2>2 DEF max, max2
  <2>4. b.selected <= max
    <3> HIDE DEF s
    <3> QED
      BY <1>1, <1>5, BoundedAgain
  <2>5. f2.start = b.start /\ f2.selected = b.selected
    BY <1>4, <1>6, <2>1
  <2>6. s2 = f2
    <3> HIDE DEF b
    <3>1. ~MovesUp(d.banner, f2.banner, f2.start, max2, Len(l))
      BY <1>6, <1>8, <2>2 DEF MovesUp
    <3>2. ~(f2.selected > max2)
      BY <1>1, <1>5, <2>3, <2>4, <2>5
    <3> QED
      BY <3>1, <3>2 DEF Shifted
  <2> HIDE DEF s, s2, b
  <2> QED
    BY <1>12, <2>2, <2>5, <2>6 DEF r, d
<1>14. CASE Seeks(r)
  <2>1. c.restore = None
    BY <1>14 DEF r
  <2>2. r.follow /\ (~r.paused \/ r.update)
    BY <1>4, <1>14 DEF Seeks
  <2>3. ~gives
    BY <1>4, <1>10, <2>2
  <2>4. Seeks(c) /\ ~c.paused
    <3>1. c.follow
      BY <1>4, <1>10, <2>2, <2>3
    <3>2. f.update = (IF Seeks(c) THEN FALSE ELSE c.update)
      BY FollowedFields, ZenonT(60) DEF f
    <3> QED
      BY <1>4, <2>2, <3>1, <3>2 DEF Seeks
  <2>5. Goal(c) \in ToSet(l)
    BY <2>1, <2>3, <2>4
  <2>6. f.followed_pid = c.followed_pid
    <3>1. f.followed_pid = (IF gives THEN None ELSE c.followed_pid)
      BY FollowedFields, ZenonT(60) DEF f
    <3> QED
      BY <2>3, <3>1
  <2>7. Goal(r) = Goal(c)
    BY <1>4, <2>1, <2>6 DEF Goal
  <2>8. r.paused = c.paused /\ r.follow = c.follow
    BY <1>4, <1>10, <2>3
  <2>9. Aside(r, l, det) = Aside(c, l, det)
    BY <2>7, <2>8 DEF Aside
  <2>10. /\ f.start = Aside(c, l, det).start
         /\ f.selected = (IF c.followed_pid = c.detailed_pid THEN 0 ELSE Aside(c, l, det).row)
    BY <2>1, <2>4, <2>5, FollowedGoes DEF f
  <2>11. /\ f2.start = Aside(r, l, det).start
         /\ f2.selected = (IF r.followed_pid = r.detailed_pid THEN 0 ELSE Aside(r, l, det).row)
         /\ f2.banner = (r.paused \/ r.follow)
    <3>1. f2 = Followed(r, l, det) /\ Goal(r) \in ToSet(l) /\ r.restore = None
      BY <1>4, <1>9, <2>5, <2>7 DEF f2
    <3> QED
      BY <1>2, <1>14, <3>1, FollowedGoes
  <2>12. f2.start = f.start /\ f2.selected = f.selected /\ f2.banner /\ f.banner
    BY <1>4, <1>8, <1>10, <2>2, <2>3, <2>6, <2>8, <2>9, <2>10, <2>11
  <2>13. s = f /\ s2 = f2
    BY <2>4, <2>8, <2>12 DEF Shifted, MovesUp
  <2>14. f2.banner = f.banner
    BY <1>8, <2>12, Zenon
  <2>15. s2.start = s.start /\ s2.selected = s.selected
    <3> HIDE DEF s, s2
    <3> QED
      BY <2>12, <2>13
  <2> HIDE DEF s, s2, b
  <2> QED
    BY <1>12, <2>14, <2>15 DEF r, d
<1> QED
  BY <1>13, <1>14 DEF r, d
-----------------------------------------------------------------------------
(* The arrows. The view has wide rows under the banner, or one more when   *)
(* the key takes the banner away.                                          *)

\* Where the drawing has the selection that a key has put at row to of a view that
\* starts at start: was and is say whether the banner was and is there.
Lands(start, to, was, is, paused, n, max) ==
    LET up == MovesUp(was, is, start, max, n)
        s  == [start    |-> IF ~up /\ paused /\ to > max THEN start + 1 ELSE start,
               selected |-> IF up THEN to + 1 ELSE to]
        b  == Bounded(s, n, max)
    IN b.start + b.selected

\* What the arrows find: a row se of a view of wide rows that starts at st; kmax is what
\* the key takes for the rows, max what the drawing will have.
OnScreen(n, st, se, wide, was, paused, kmax, max) ==
    /\ {n, st, se, wide, kmax, max} \subseteq Nat /\ {was, paused} \subseteq BOOLEAN
    /\ 1 <= wide /\ st <= Larger(0, n - wide)
    /\ 0 < se /\ se <= wide /\ se <= n
    /\ paused => was
    /\ (was /\ ~paused => max = wide + 1) /\ (~was \/ paused => max = wide)
    /\ kmax = wide \/ kmax = max

LEMMA LandsIs ==
  ASSUME NEW n, NEW st, NEW se, NEW wide, NEW was, NEW paused, NEW kmax, NEW max,
         OnScreen(n, st, se, wide, was, paused, kmax, max),
         NEW start \in Int, NEW to \in Int
  PROVE  Lands(start, to, was, paused, paused, n, max) =
           LET Row(first, row) == Clamp(first, 0, Larger(0, n - max)) + Smaller(Smaller(row, max), n)
           IN IF was /\ ~paused /\ start + max - 1 = n THEN Row(start, to + 1)
              ELSE IF paused /\ to > max THEN Row(start + 1, to) ELSE Row(start, to)
  BY DEF OnScreen, Lands, MovesUp, Bounded

LEMMA DownOne ==
  ASSUME NEW n, NEW st, NEW se, NEW wide, NEW was, NEW paused, NEW kmax, NEW max,
         OnScreen(n, st, se, wide, was, paused, kmax, max),
         NEW m, m.start = (IF st < n - kmax /\ se = kmax THEN st + 1 ELSE st),
         m.selected = (IF st < n - kmax /\ se = kmax THEN se ELSE se + 1)
  PROVE  Lands(m.start, m.selected, was, paused, paused, n, max) =
           IF was /\ ~paused /\ n = wide THEN Smaller(st + se + 2, n)
           ELSE Smaller(st + se + 1, n)
<1> DEFINE Row(first, row) ==
             Clamp(first, 0, Larger(0, n - max)) + Smaller(Smaller(row, max), n)
           L == Lands(m.start, m.selected, was, paused, paused, n, max)
<1>0. m.start \in Int /\ m.selected \in Int
  BY DEF OnScreen
<1>n. /\ n \in Int /\ st \in Int /\ se \in Int /\ wide \in Int /\ kmax \in Int /\ max \in Int
      /\ 0 <= st /\ st <= Larger(0, n - wide) /\ 1 <= wide
      /\ 1 <= se /\ se <= wide /\ se <= n /\ (kmax = wide \/ kmax = max)
  BY DEF OnScreen
<1>1. L =
        IF was /\ ~paused /\ m.start + max - 1 = n THEN Row(m.start, m.selected + 1)
        ELSE IF paused /\ m.selected > max THEN Row(m.start + 1, m.selected)
        ELSE Row(m.start, m.selected)
  BY <1>0, LandsIs DEF L
<1> SUFFICES L = IF was /\ ~paused /\ n = wide THEN Smaller(st + se + 2, n)
                 ELSE Smaller(st + se + 1, n)
  BY DEF L
<1> HIDE DEF L
<1>2. CASE n <= wide
  <2>1. st = 0 /\ m.start = 0 /\ m.selected = se + 1
    BY <1>2 DEF OnScreen, Larger
  <2>2. CASE was /\ ~paused /\ n = wide
    <3>1. max = n + 1
      BY <2>2 DEF OnScreen
    <3>2. L = Row(0, m.selected + 1)
      BY <1>n, <1>1, <2>1, <2>2, <3>1
    <3>3. L = Smaller(st + se + 2, n)
      BY <1>n, <2>1, <3>1, <3>2 DEF Clamp, Larger, Smaller
    <3> QED
      BY <2>2, <3>3
  <2>3. CASE ~(was /\ ~paused /\ n = wide)
    <3>1. (paused => max = wide) /\ (max = wide \/ max = wide + 1)
      BY DEF OnScreen
    <3>2. ~(was /\ ~paused /\ m.start + max - 1 = n)
      BY <1>2, <2>1, <2>3 DEF OnScreen
    <3>3. L =
            IF paused /\ m.selected > max THEN Row(m.start + 1, m.selected)
            ELSE Row(m.start, m.selected)
      BY <1>1, <3>2
    <3>4. L = Smaller(st + se + 1, n)
      BY <1>n, <1>2, <2>1, <3>1, <3>3 DEF Clamp, Larger, Smaller
    <3> QED
      BY <2>3, <3>4
  <2> QED
    BY <2>2, <2>3
<1>3. CASE paused /\ n >= wide + 1
  <2>1. max = wide /\ st <= n - wide
    BY <1>3 DEF OnScreen, Larger
  <2>2. L =
          IF m.selected > max THEN Row(m.start + 1, m.selected) ELSE Row(m.start, m.selected)
    BY <1>1, <1>3
  <2>3. L = Smaller(st + se + 1, n)
    BY <1>n, <1>3, <2>1, <2>2 DEF Clamp, Larger, Smaller
  <2> QED
    BY <1>3, <1>n, <2>3
<1>4. CASE ~paused /\ was /\ n >= wide + 1
  <2>1. max = wide + 1 /\ st <= n - wide
    BY <1>4 DEF OnScreen, Larger
  <2>2. L =
          IF m.start + max - 1 = n THEN Row(m.start, m.selected + 1) ELSE Row(m.start, m.selected)
    BY <1>1, <1>4
  <2>3. L = Smaller(st + se + 1, n)
    BY <1>n, <1>4, <2>1, <2>2 DEF Clamp, Larger, Smaller
  <2> QED
    BY <1>4, <1>n, <2>3
<1>5. CASE ~paused /\ ~was /\ n >= wide + 1
  <2>1. max = wide /\ st <= n - wide
    BY <1>5 DEF OnScreen, Larger
  <2>2. L = Row(m.start, m.selected)
    BY <1>1, <1>5
  <2>3. L = Smaller(st + se + 1, n)
    BY <1>n, <1>5, <2>1, <2>2 DEF Clamp, Larger, Smaller
  <2> QED
    BY <1>5, <1>n, <2>3
<1> QED
  BY <1>n, <1>2, <1>3, <1>4, <1>5

LEMMA UpOne ==
  ASSUME NEW n, NEW st, NEW se, NEW wide, NEW was, NEW paused, NEW kmax, NEW max,
         OnScreen(n, st, se, wide, was, paused, kmax, max),
         NEW m, m.start = (IF st > 0 /\ se = 1 THEN st - 1 ELSE st),
         m.selected = (IF st > 0 /\ se = 1 THEN se ELSE se - 1)
  PROVE  Lands(m.start, m.selected, was, paused, paused, n, max) =
           IF was /\ ~paused /\ n = wide THEN st + se ELSE st + se - 1
<1> DEFINE Row(first, row) ==
             Clamp(first, 0, Larger(0, n - max)) + Smaller(Smaller(row, max), n)
           L == Lands(m.start, m.selected, was, paused, paused, n, max)
<1>0. m.start \in Int /\ m.selected \in Int
  BY DEF OnScreen
<1>n. /\ n \in Int /\ st \in Int /\ se \in Int /\ wide \in Int /\ kmax \in Int /\ max \in Int
      /\ 0 <= st /\ st <= Larger(0, n - wide) /\ 1 <= wide
      /\ 1 <= se /\ se <= wide /\ se <= n /\ (kmax = wide \/ kmax = max)
  BY DEF OnScreen
<1>1. L =
        IF was /\ ~paused /\ m.start + max - 1 = n THEN Row(m.start, m.selected + 1)
        ELSE IF paused /\ m.selected > max THEN Row(m.start + 1, m.selected)
        ELSE Row(m.start, m.selected)
  BY <1>0, LandsIs DEF L
<1> SUFFICES L = IF was /\ ~paused /\ n = wide THEN st + se ELSE st + se - 1
  BY DEF L
<1> HIDE DEF L
<1>2. CASE n <= wide
  <2>1. st = 0 /\ m.start = 0 /\ m.selected = se - 1
    BY <1>2 DEF OnScreen, Larger
  <2>2. CASE was /\ ~paused /\ n = wide
    <3>1. max = n + 1
      BY <2>2 DEF OnScreen
    <3>2. L = Row(0, m.selected + 1)
      BY <1>n, <1>1, <2>1, <2>2, <3>1
    <3>3. L = st + se
      BY <1>n, <2>1, <3>1, <3>2 DEF Clamp, Larger, Smaller
    <3> QED
      BY <2>2, <3>3
  <2>3. CASE ~(was /\ ~paused /\ n = wide)
    <3>1. (paused => max = wide) /\ (max = wide \/ max = wide + 1)
      BY DEF OnScreen
    <3>2. ~(was /\ ~paused /\ m.start + max - 1 = n)
      BY <1>2, <2>1, <2>3 DEF OnScreen
    <3>3. L =
            IF paused /\ m.selected > max THEN Row(m.start + 1, m.selected)
            ELSE Row(m.start, m.selected)
      BY <1>1, <3>2
    <3>4. L = st + se - 1
      BY <1>n, <1>2, <2>1, <3>1, <3>3 DEF Clamp, Larger, Smaller
    <3> QED
      BY <2>3, <3>4
  <2> QED
    BY <2>2, <2>3
<1>3. CASE paused /\ n >= wide + 1
  <2>1. max = wide /\ st <= n - wide
    BY <1>3 DEF OnScreen, Larger
  <2>2. L =
          IF m.selected > max THEN Row(m.start + 1, m.selected) ELSE Row(m.start, m.selected)
    BY <1>1, <1>3
  <2>3. ASSUME st > 0, se = 1 PROVE L = st + se - 1
    BY <1>n, <1>3, <2>1, <2>2, <2>3 DEF Clamp, Larger, Smaller
  <2>4. ASSUME ~(st > 0 /\ se = 1) PROVE L = st + se - 1
    <3>1. m.start = st /\ m.selected = se - 1
      BY <2>4
    <3> QED
      BY <1>n, <1>3, <2>1, <2>2, <3>1 DEF Clamp, Larger, Smaller
  <2> QED
    BY <1>3, <1>n, <2>3, <2>4
<1>4. CASE ~paused /\ was /\ n >= wide + 1
  <2>1. max = wide + 1 /\ st <= n - wide
    BY <1>4 DEF OnScreen, Larger
  <2>2. L =
          IF m.start + max - 1 = n THEN Row(m.start, m.selected + 1) ELSE Row(m.start, m.selected)
    BY <1>1, <1>4
  <2>3. ASSUME st > 0, se = 1 PROVE L = st + se - 1
    BY <1>n, <1>4, <2>1, <2>2, <2>3 DEF Clamp, Larger, Smaller
  <2>4. ASSUME ~(st > 0 /\ se = 1) PROVE L = st + se - 1
    <3>1. m.start = st /\ m.selected = se - 1
      BY <2>4
    <3> QED
      BY <1>n, <1>4, <2>1, <2>2, <3>1 DEF Clamp, Larger, Smaller
  <2> QED
    BY <1>4, <1>n, <2>3, <2>4
<1>5. CASE ~paused /\ ~was /\ n >= wide + 1
  <2>1. max = wide /\ st <= n - wide
    BY <1>5 DEF OnScreen, Larger
  <2>2. L = Row(m.start, m.selected)
    BY <1>1, <1>5
  <2>3. L = st + se - 1
    BY <1>n, <1>5, <2>1, <2>2 DEF Clamp, Larger, Smaller
  <2> QED
    BY <1>5, <1>n, <2>3
<1> QED
  BY <1>n, <1>2, <1>3, <1>4, <1>5
-----------------------------------------------------------------------------
(* The settings that a key or a drawing finds.                             *)

\* The settings with what has been set while they are locked.
Pending == Override(conf, tmp)

\* Nothing is left for the next drawing to do: it goes nowhere of its own, and the
\* banner is there for what follows or pauses.
Quiet(c) ==
    /\ c.restore = None
    /\ c.follow /\ c.followed_pid # None => c.banner /\ ~c.update
    /\ c.paused => c.banner

Within(p, n, max) ==
    /\ 0 <= p.start /\ p.start <= Larger(0, n - max)
    /\ p.selected <= max /\ p.selected <= n

Settled ==
    /\ DOMAIN conf = Settings /\ DOMAIN tmp \subseteq Settings
    /\ ~locked => DOMAIN tmp = {}
    /\ Pending.banner = proc.banner
    /\ at # "run" => {"start", "selected", "paused"} \cap DOMAIN tmp = {}
    /\ at # "run" /\ ~locked => conf.start = proc.start /\ conf.selected = proc.selected
    /\ job = "drawn" \/ (job = "idle" /\ at # "run" /\ ~screen.cut) =>
         Within(proc, Len(list), Window(Detail(conf, proc), proc.banner))
    /\ Watched =>
         /\ Quiet(conf) /\ Quiet(Pending) /\ "restore" \notin DOMAIN tmp
         /\ "update" \in DOMAIN tmp => ~tmp.update
         /\ "follow" \in DOMAIN tmp <=> "followed_pid" \in DOMAIN tmp
         /\ "followed_pid" \in DOMAIN tmp => tmp.followed_pid = None
    /\ at = "cpu" /\ job \in Work => DOMAIN tmp = {}
    /\ at = "cpu" /\ job \notin Work =>
         \E p : /\ StaticsOK(p) /\ p.last_pid = proc.last_pid
                /\ proc = Drawn(conf, list, p) /\ tmp = DrawingSets(conf, list, p)

LEMMA UnlockedIs ==
  ASSUME Settled
  PROVE  /\ DOMAIN Unlocked = Settings /\ DOMAIN Pending = Settings
         /\ \A k \in Settings \ {"start", "selected", "selected_pid"} : Unlocked[k] = Pending[k]
         /\ at # "run" => Unlocked.start = proc.start /\ Unlocked.selected = proc.selected
<1> DEFINE statics == [k \in {"start", "selected", "selected_pid"} |-> proc[k]]
           first == Override(conf, statics)
<1>1. DOMAIN first = Settings /\ first.start = proc.start /\ first.selected = proc.selected
      /\ \A k \in Settings \ {"start", "selected", "selected_pid"} : first[k] = conf[k]
  BY DEF Settled, Override, Settings
<1>2. DOMAIN Pending = Settings
      /\ \A k \in Settings : Pending[k] = IF k \in DOMAIN tmp THEN tmp[k] ELSE conf[k]
  BY DEF Settled, Pending, Override
<1>3. CASE locked
  <2>1. Unlocked = Override(first, tmp)
    BY <1>3 DEF Unlocked
  <2> HIDE DEF first
  <2>2. DOMAIN Unlocked = Settings
        /\ \A k \in Settings : Unlocked[k] = IF k \in DOMAIN tmp THEN tmp[k] ELSE first[k]
    BY <1>1, <2>1 DEF Override
  <2> QED
    BY <1>1, <1>2, <2>2 DEF Settled, Settings
<1>4. CASE ~locked
  BY <1>2, <1>4 DEF Unlocked, Settled, Settings
<1> QED
  BY <1>3, <1>4

LEMMA QuietAlso ==
  ASSUME NEW c, Quiet(c), NEW e,
         e.restore = None, e.paused = c.paused, e.banner = c.banner,
         e.follow /\ e.followed_pid # None => c.follow /\ c.followed_pid # None /\ e.update = c.update
  PROVE  Quiet(e)
  BY DEF Quiet

LEMMA QuietUnlocked == ASSUME Settled, Watched PROVE Quiet(Unlocked)
<1>1. /\ Unlocked.restore = Pending.restore /\ Unlocked.paused = Pending.paused
      /\ Unlocked.banner = Pending.banner /\ Unlocked.follow = Pending.follow
      /\ Unlocked.followed_pid = Pending.followed_pid /\ Unlocked.update = Pending.update
  BY UnlockedIs DEF Settings
<1>2. Quiet(Pending)
  BY DEF Settled
<1> QED
  BY <1>1, <1>2 DEF Quiet

\* What `up` and `down` make of the settings if a row is selected.
LEMMA ArrowSets ==
  ASSUME NEW c, DOMAIN c = Settings, c.selected \in Int, c.selected > 0, job = "idle", Unlocked = c,
         NEW key
  PROVE  LET m == Moved(key, c.start, c.selected, c.last_selected, Len(list),
                        Window(c.show, c.banner) + (IF Leaves(c) THEN 1 ELSE 0))
             e == Override(c, Selection(c, key))
         IN /\ DOMAIN e = Settings
            /\ e.start = m.start /\ e.selected = m.selected
            /\ e.follow = (IF Leaves(c) THEN ~c.follow ELSE c.follow)
            /\ e.paused = c.paused /\ e.update = c.update /\ e.restore = c.restore
            /\ e.show = c.show /\ e.detailed_pid = c.detailed_pid
<1> DEFINE m == Moved(key, c.start, c.selected, c.last_selected, Len(list),
                      Window(c.show, c.banner) + (IF Leaves(c) THEN 1 ELSE 0))
           leaves == IF Leaves(c) THEN Unfollow ELSE Nothing
           moves == [k \in {x \in DOMAIN m : m[x] # c[x]} |-> m[k]]
           g == Put(Put(leaves, Nothing), moves)
           e == Override(c, g)
<1>1. ~FromDetails(c)
  BY DEF FromDetails
<1>2. Selection(c, key) = g
  BY <1>1 DEF Selection
<1>3. DOMAIN m = {"start", "selected", "last_selected"}
  BY DEF Moved
<1> HIDE DEF m
<1>4. /\ DOMAIN moves \subseteq {"start", "selected", "last_selected"}
      /\ \A k \in DOMAIN moves : moves[k] = m[k]
      /\ \A k \in {"start", "selected", "last_selected"} \ DOMAIN moves : m[k] = c[k]
  BY <1>3
<1> HIDE DEF moves
<1>5. /\ Leaves(c) => DOMAIN leaves = {"follow", "followed_pid", "followed"}
      /\ Leaves(c) => leaves.follow = Flipped("follow")
      /\ ~Leaves(c) => DOMAIN leaves = {}
  BY DEF Unfollow, Nothing
<1>6. Flipped("follow") = ~c.follow
  BY DEF Flipped, Read
<1> HIDE DEF leaves
<1>7. DOMAIN g = DOMAIN leaves \cup DOMAIN moves
      /\ \A k \in DOMAIN g : g[k] = IF k \in DOMAIN moves THEN moves[k] ELSE leaves[k]
  BY <1>4, <1>5 DEF Put, Nothing
<1> HIDE DEF g
<1>8. DOMAIN e = Settings /\ \A k \in Settings : e[k] = IF k \in DOMAIN g THEN g[k] ELSE c[k]
  BY DEF Override
<1> HIDE DEF e
<1>9. e.start = m.start /\ e.selected = m.selected
  <2>1. \A k \in {"start", "selected"} : k \in Settings /\ k \notin DOMAIN leaves
    BY <1>5 DEF Settings
  <2>2. \A k \in {"start", "selected"} : e[k] = m[k]
    <3> TAKE k \in {"start", "selected"}
    <3>1. CASE k \in DOMAIN moves
      BY <1>4, <1>7, <1>8, <2>1, <3>1
    <3>2. CASE k \notin DOMAIN moves
      BY <1>4, <1>7, <1>8, <2>1, <3>2
    <3> QED
      BY <3>1, <3>2
  <2> QED
    BY <2>2
<1>10. e.follow = (IF Leaves(c) THEN ~c.follow ELSE c.follow)
  <2>1. CASE Leaves(c)
    <3>1. e.follow = leaves.follow
      BY <1>4, <1>5, <1>7, <1>8, <2>1 DEF Settings
    <3> QED
      BY <1>5, <1>6, <2>1, <3>1
  <2>2. CASE ~Leaves(c)
    BY <1>4, <1>5, <1>7, <1>8, <2>2 DEF Settings
  <2> QED
    BY <2>1, <2>2
<1>11. /\ e.paused = c.paused /\ e.update = c.update /\ e.restore = c.restore
       /\ e.show = c.show /\ e.detailed_pid = c.detailed_pid
  BY <1>4, <1>5, <1>7, <1>8 DEF Settings
<1> QED
  BY <1>2, <1>8, <1>9, <1>10, <1>11 DEF e, m

LEMMA ArrowLands ==
  ASSUME Cursor, Aimed, Settled,
         job = "idle", at = "free", ~screen.cut, proc.selected > 0, ~FollowsNobody
  PROVE  ArrowMovesOne
<1> DEFINE c    == Unlocked
           n    == Len(list)
           wide == Window(c.show, proc.banner)
           kmax == wide + (IF Leaves(c) THEN 1 ELSE 0)
           max  == Window(c.show, c.paused)
           last == c.last_selected
           M(key) == Moved(key, proc.start, proc.selected, last, n, kmax)
           E(key) == Override(c, Selection(c, key))
           D(key) == Drawn(E(key), list, proc)
           to   == proc.start + proc.selected
<1>1. Full(c) /\ DOMAIN c = Settings /\ c.start = proc.start /\ c.selected = proc.selected
  BY UnlockedFull, UnlockedIs
<1>2. /\ c.start \in Int /\ c.selected \in Int /\ last \in Int
      /\ c.paused \in BOOLEAN /\ c.follow \in BOOLEAN /\ proc.banner \in BOOLEAN
  BY <1>1 DEF Full, Typed, Ints, Bools, Cursor, StaticsOK
<1>3. c.banner = proc.banner
  BY UnlockedIs DEF Settled, Settings
<1>4. Quiet(c)
  BY QuietUnlocked DEF Watched
<1>5. c.follow => c.followed_pid # None /\ proc.banner /\ ~c.update
  BY <1>3, <1>4 DEF FollowsNobody, Quiet
<1>6. c.show => proc.last_pid = c.detailed_pid
  BY UnlockedAims DEF Aimed, Watched
<1>7. Within(proc, n, wide)
  <2>1. Within(proc, Len(list), Window(Detail(conf, proc), proc.banner))
    BY DEF Settled
  <2>2. conf.show = c.show /\ conf.detailed_pid = c.detailed_pid
    BY UnlockedAims
  <2>3. Window(Detail(conf, proc), proc.banner) = wide
    BY <1>6, <2>2 DEF Detail, Window
  <2> QED
    BY <2>1, <2>3
<1>8. wide \in Nat /\ 1 <= wide /\ max \in Nat /\ 1 <= max /\ n \in Nat
  BY WindowFits DEF Cursor
<1>9. c.paused => proc.banner
  BY <1>3, <1>4 DEF Quiet
<1>10. max = wide + (IF proc.banner /\ ~c.paused THEN 1 ELSE 0)
  BY <1>2, <1>9, ProcViewAssumption DEF Window
<1>11. kmax \in Nat /\ (kmax = wide \/ kmax = max)
  BY <1>5, <1>8, <1>10 DEF Leaves
<1>12. Slip(c) = IF proc.banner /\ ~c.paused /\ n = wide THEN 1 ELSE 0
  <2>1. proc.banner => Window(c.show, FALSE) - 1 = wide
    BY ProcViewAssumption DEF Window
  <2> HIDE DEF wide, c
  <2> QED
    BY <1>2, <2>1 DEF Slip
<1>13. proc.start \in Nat /\ proc.selected \in Nat /\ proc.start <= Larger(0, n - wide)
       /\ 0 < proc.selected /\ proc.selected <= wide /\ proc.selected <= n
  BY <1>1, <1>2, <1>7 DEF Within
<1>14. ASSUME NEW key
       PROVE  D(key).start + D(key).selected =
                Lands(M(key).start, M(key).selected, proc.banner, c.paused, c.paused, n, max)
  <2> DEFINE e == E(key)
             f == Followed(e, list, Detail(e, proc))
             m == M(key)
             s == Shifted(f, e, proc, list, max)
             b == Bounded(s, n, max)
  <2>1. /\ DOMAIN e = Settings
        /\ e.start = m.start /\ e.selected = m.selected
        /\ e.follow = (IF Leaves(c) THEN ~c.follow ELSE c.follow)
        /\ e.paused = c.paused /\ e.update = c.update /\ e.restore = c.restore
        /\ e.show = c.show /\ e.detailed_pid = c.detailed_pid
    BY <1>1, <1>2, <1>3, ArrowSets
  <2>2. Full(e)
    <3>1. Typed(Selection(c, key))
      BY <1>1, SelectionTyped
    <3> HIDE DEF c
    <3> QED
      BY <1>1, <3>1, OverrideFull
  <2> HIDE DEF e, m, max
  <2>3. ~Seeks(e) /\ (e.paused \/ e.follow) = c.paused
    BY <1>2, <1>4, <1>5, <2>1 DEF Seeks, Leaves, Quiet
  <2>4. f.start = m.start /\ f.selected = m.selected /\ f.banner = c.paused
    BY <2>1, <2>3, FollowedSeen
  <2>5. Window(Detail(e, proc), f.banner) = max
    <3> HIDE DEF f, c
    <3> QED
      BY <1>6, <2>1, <2>4 DEF Detail, Window, max
  <2>6. Full(f)
    <3> HIDE DEF c
    <3> QED
      BY <2>2, FollowedFull DEF Cursor
  <2> HIDE DEF f
  <2>7. /\ s.start = (IF ~MovesUp(proc.banner, c.paused, m.start, max, n) /\ c.paused
                           /\ m.selected > max THEN m.start + 1 ELSE m.start)
        /\ s.selected = (IF MovesUp(proc.banner, c.paused, m.start, max, n)
                           THEN m.selected + 1 ELSE m.selected)
    <3>1. {"start", "selected"} \subseteq DOMAIN f
      BY <2>6 DEF Full, Ints
    <3> HIDE DEF c
    <3> QED
      BY <2>1, <2>4, <3>1 DEF Shifted
  <2>8. D(key).start = b.start /\ D(key).selected = b.selected
    <3> HIDE DEF c, s
    <3>1. D(key) = Drawn(e, list, proc)
      BY DEF e
    <3>2. Drawn(e, list, proc) =
            [start |-> b.start, selected |-> b.selected, banner |-> f.banner,
             last_pid |-> proc.last_pid,
             selected_pid |-> IF b.selected = 0 THEN None ELSE list[b.start + b.selected]]
      BY <2>2, <2>5, DrawnIs DEF Cursor, f, s
    <3> HIDE DEF b
    <3> QED
      BY <3>1, <3>2
  <2> DEFINE x == [start |-> IF ~MovesUp(proc.banner, c.paused, m.start, max, n) /\ c.paused
                                  /\ m.selected > max THEN m.start + 1 ELSE m.start,
                   selected |-> IF MovesUp(proc.banner, c.paused, m.start, max, n)
                                  THEN m.selected + 1 ELSE m.selected]
  <2>9. b.start = Bounded(x, n, max).start /\ b.selected = Bounded(x, n, max).selected
    <3>1. x.start = s.start /\ x.selected = s.selected
      BY <2>7
    <3> HIDE DEF x, s
    <3> QED
      BY <3>1 DEF Bounded
  <2> HIDE DEF b, c
  <2> QED
    BY <2>8, <2>9 DEF Lands, m, x
<1>15. D("down").start + D("down").selected = Smaller(to + 1 + Slip(c), n)
  <2> DEFINE m == M("down")
             paused == c.paused
             was == proc.banner
             st == proc.start
             se == proc.selected
  <2> HIDE DEF D, c, n, wide, kmax, max, last
  <2>1. was \in BOOLEAN /\ paused \in BOOLEAN /\ last \in Int
        /\ (paused => was)
        /\ (was /\ ~paused => max = wide + 1) /\ (~was \/ paused => max = wide)
    BY <1>2, <1>8, <1>9, <1>10
  <2>2. st \in Nat /\ se \in Nat /\ st <= Larger(0, n - wide) /\ 0 < se /\ se <= wide /\ se <= n
    BY <1>13
  <2>3. /\ m.start = (IF st < n - kmax /\ se = kmax THEN st + 1 ELSE st)
        /\ m.selected = (IF st < n - kmax /\ se = kmax THEN se ELSE se + 1)
    BY DEF Moved
  <2> HIDE DEF was, paused, st, se, m
  <2>4. Lands(m.start, m.selected, was, paused, paused, n, max) =
          IF was /\ ~paused /\ n = wide THEN Smaller(st + se + 2, n)
          ELSE Smaller(st + se + 1, n)
    <3>1. OnScreen(n, st, se, wide, was, paused, kmax, max)
      BY <1>8, <1>11, <2>1, <2>2 DEF OnScreen
    <3> QED
      BY <2>3, <3>1, DownOne
  <2>5. D("down").start + D("down").selected =
          Lands(m.start, m.selected, was, paused, paused, n, max)
    BY <1>14 DEF m, was, paused
  <2>6. to = st + se /\ Slip(c) = IF was /\ ~paused /\ n = wide THEN 1 ELSE 0
    BY <1>12 DEF st, se, was, paused
  <2> HIDE DEF to
  <2>7. CASE was /\ ~paused /\ n = wide
    <3>1. to + 1 + Slip(c) = st + se + 2
      BY <2>2, <2>6, <2>7
    <3> QED
      BY <2>4, <2>5, <2>7, <3>1
  <2>8. CASE ~(was /\ ~paused /\ n = wide)
    <3>1. to + 1 + Slip(c) = st + se + 1
      BY <2>2, <2>6, <2>8
    <3> QED
      BY <2>4, <2>5, <2>8, <3>1
  <2> QED
    BY <2>7, <2>8
<1>16. D("up").start + D("up").selected = to - 1 + Slip(c)
  <2> DEFINE m == M("up")
             paused == c.paused
             was == proc.banner
             st == proc.start
             se == proc.selected
  <2> HIDE DEF D, c, n, wide, kmax, max, last
  <2>1. was \in BOOLEAN /\ paused \in BOOLEAN /\ last \in Int
        /\ (paused => was)
        /\ (was /\ ~paused => max = wide + 1) /\ (~was \/ paused => max = wide)
    BY <1>2, <1>8, <1>9, <1>10
  <2>2. st \in Nat /\ se \in Nat /\ st <= Larger(0, n - wide) /\ 0 < se /\ se <= wide /\ se <= n
    BY <1>13
  <2>3. /\ m.start = (IF st > 0 /\ se = 1 THEN st - 1 ELSE st)
        /\ m.selected = (IF st > 0 /\ se = 1 THEN se ELSE se - 1)
    BY DEF Moved
  <2> HIDE DEF was, paused, st, se, m
  <2>4. Lands(m.start, m.selected, was, paused, paused, n, max) =
          IF was /\ ~paused /\ n = wide THEN st + se ELSE st + se - 1
    <3>1. OnScreen(n, st, se, wide, was, paused, kmax, max)
      BY <1>8, <1>11, <2>1, <2>2 DEF OnScreen
    <3> QED
      BY <2>3, <3>1, UpOne
  <2>5. D("up").start + D("up").selected =
          Lands(m.start, m.selected, was, paused, paused, n, max)
    BY <1>14 DEF m, was, paused
  <2>6. to = st + se /\ Slip(c) = IF was /\ ~paused /\ n = wide THEN 1 ELSE 0
    BY <1>12 DEF st, se, was, paused
  <2> HIDE DEF to
  <2>7. CASE was /\ ~paused /\ n = wide
    <3>1. to - 1 + Slip(c) = st + se
      BY <2>2, <2>6, <2>7
    <3> QED
      BY <2>4, <2>5, <2>7, <3>1
  <2>8. CASE ~(was /\ ~paused /\ n = wide)
    <3>1. to - 1 + Slip(c) = st + se - 1
      BY <2>2, <2>6, <2>8
    <3> QED
      BY <2>4, <2>5, <2>8, <3>1
  <2> QED
    BY <2>7, <2>8
<1> QED
  BY <1>15, <1>16 DEF ArrowMovesOne
-----------------------------------------------------------------------------
(* Every step keeps the settings settled.                                  *)

LEMMA OverrideField ==
  ASSUME NEW f, NEW g
  PROVE  /\ DOMAIN Override(f, g) = DOMAIN f
         /\ \A k \in DOMAIN f : Override(f, g)[k] = IF k \in DOMAIN g THEN g[k] ELSE f[k]
  BY DEF Override

LEMMA QuietLike ==
  ASSUME NEW c, Quiet(c), NEW e,
         \A k \in {"restore", "follow", "followed_pid", "banner", "update", "paused"} : e[k] = c[k]
  PROVE  Quiet(e)
<1>1. /\ e.restore = c.restore /\ e.follow = c.follow /\ e.followed_pid = c.followed_pid
      /\ e.banner = c.banner /\ e.update = c.update /\ e.paused = c.paused
  OBVIOUS
<1> QED
  BY <1>1 DEF Quiet

\* A drawing leaves nothing to do.
LEMMA QuietRedrawn ==
  ASSUME NEW c, DOMAIN c = Settings, NEW l, NEW p PROVE Quiet(Redrawn(c, l, p))
<1> DEFINE r == Redrawn(c, l, p)
           f == Followed(c, l, Detail(c, p))
           gives == Seeks(c) /\ c.restore = None /\ Goal(c) \notin ToSet(l)
<1>1. /\ r.banner = f.banner /\ r.follow = f.follow /\ r.followed_pid = f.followed_pid
      /\ r.update = f.update /\ r.restore = None /\ r.paused = c.paused
  BY RedrawnFields
<1> DEFINE det == Detail(c, p)
<1> HIDE DEF det
<1>2. /\ Followed(c, l, det).banner = (IF gives THEN c.paused ELSE c.paused \/ c.follow)
      /\ Followed(c, l, det).follow = (IF gives THEN FALSE ELSE c.follow)
  BY FollowedFields, ZenonT(60)
<1>3. Followed(c, l, det).update = (IF Seeks(c) THEN FALSE ELSE c.update)
  BY FollowedFields, ZenonT(60)
<1>4. /\ f.banner = (IF gives THEN c.paused ELSE c.paused \/ c.follow)
      /\ f.follow = (IF gives THEN FALSE ELSE c.follow)
      /\ f.update = (IF Seeks(c) THEN FALSE ELSE c.update)
  BY <1>2, <1>3 DEF det
<1> HIDE DEF r, f
<1>5. r.paused => r.banner
  BY <1>1, <1>4
<1>6. ASSUME r.follow PROVE r.banner /\ ~r.update
  <2>1. ~gives /\ c.follow
    BY <1>1, <1>4, <1>6
  <2> QED
    BY <1>1, <1>4, <2>1 DEF Seeks
<1> QED
  BY <1>1, <1>5, <1>6 DEF Quiet, r

\* What is drawn is in the bounds.
LEMMA DrawnWithin ==
  ASSUME NEW c, Full(c), NEW l \in Seq(Nat), NEW p
  PROVE  LET d == Drawn(c, l, p)
         IN Within(d, Len(l), Window(Detail(c, p), d.banner)) /\ d.last_pid = p.last_pid
<1> DEFINE f   == Followed(c, l, Detail(c, p))
           max == Window(Detail(c, p), f.banner)
           s   == Shifted(f, c, p, l, max)
           n   == Len(l)
           b   == Bounded(s, n, max)
           d   == Drawn(c, l, p)
<1>1. /\ s.start \in Int /\ s.selected \in Int
      /\ d = [start |-> b.start, selected |-> b.selected, banner |-> f.banner,
              last_pid |-> p.last_pid,
              selected_pid |-> IF b.selected = 0 THEN None ELSE l[b.start + b.selected]]
  BY DrawnIs
<1>2. max \in Nat /\ n \in Nat
  BY WindowFits
<1>3. Within(b, n, max)
  <2> HIDE DEF s, max, n
  <2> QED
    BY <1>1, <1>2 DEF Within, Bounded, Clamp, Larger, Smaller
<1>4. d.start = b.start /\ d.selected = b.selected /\ d.banner = f.banner /\ d.last_pid = p.last_pid
  <2> HIDE DEF d, b, f
  <2> QED
    BY <1>1
<1>5. Within(d, n, max)
  <2> HIDE DEF d, b, n, max
  <2> QED
    BY <1>3, <1>4 DEF Within
<1> QED
  <2>1. max = Window(Detail(c, p), d.banner)
    <3> HIDE DEF d, f
    <3> QED
      BY <1>4
  <2> QED
    BY <1>4, <1>5, <2>1

\* Between a key's drawing and the next run(), what unlock() will leave is what the
\* drawing left.
LEMMA UnlocksRedrawn ==
  ASSUME Settled, at = "cpu", job = "idle"
  PROVE  \E p : StaticsOK(p) /\ proc = Drawn(conf, list, p) /\ Unlocked = Redrawn(conf, list, p)
<1>1. PICK p : StaticsOK(p) /\ proc = Drawn(conf, list, p) /\ tmp = DrawingSets(conf, list, p)
  BY DEF Settled, Work
<1>2. locked
  <2>1. "banner" \in DOMAIN DrawingSets(conf, list, p)
    BY DEF DrawingSets
  <2> QED
    BY <1>1, <2>1 DEF Settled
<1>3. Unlocked = Redrawn(conf, list, p)
  BY <1>1, <1>2 DEF Unlocked, Redrawn
<1> QED
  BY <1>1, <1>3

LEMMA StillSettled == ASSUME Cursor, Settled PROVE CursorStill
<1> SUFFICES ASSUME job = "idle", at = "cpu", ~ThenFollows
             PROVE  Drawn(Unlocked, list, proc) = proc
  BY DEF CursorStill
<1>1. PICK p : StaticsOK(p) /\ proc = Drawn(conf, list, p) /\ Unlocked = Redrawn(conf, list, p)
  BY UnlocksRedrawn
<1>2. ~(conf.restore # None /\ Seeks(Redrawn(conf, list, p)))
  BY <1>1 DEF ThenFollows
<1>3. Drawn(Redrawn(conf, list, p), list, Drawn(conf, list, p)) = Drawn(conf, list, p)
  BY <1>1, <1>2, DrawnAgain DEF Cursor, Settled
<1> QED
  BY <1>1, <1>3

\* What will be unlocked, setting by setting.
LEMMA PendingIs ==
  ASSUME DOMAIN conf = Settings
  PROVE  /\ DOMAIN Pending = Settings
         /\ \A k \in Settings : Pending[k] = IF k \in DOMAIN tmp THEN tmp[k] ELSE conf[k]
  BY DEF Pending, Override

\* A job that begins takes over what has been set.
LEMMA BeginSettled ==
  ASSUME Settled, NEW k, Begin(k), proc' = proc
  PROVE  /\ DOMAIN conf' = Settings /\ DOMAIN tmp' = {} /\ locked' /\ conf' = Unlocked
         /\ \A x \in Settings : Pending'[x] = conf'[x]
         /\ Pending'.banner = proc'.banner
<1>1. conf' = Unlocked /\ tmp' = Nothing /\ locked'
  BY DEF Begin
<1>2. DOMAIN conf' = Settings /\ conf'.banner = Pending.banner /\ DOMAIN tmp' = {}
  BY <1>1, UnlockedIs DEF Settings, Nothing
<1>3. \A x \in Settings : Pending'[x] = conf'[x]
  BY <1>2 DEF Pending, Override
<1>4. Pending'.banner = conf'.banner
  BY <1>3 DEF Settings
<1> QED
  BY <1>1, <1>2, <1>3, <1>4 DEF Settled

LEMMA AgainSettled ==
  ASSUME Settled, Tick \/ Redraw \/ CloseDialog \/ ShowDialog
  PROVE  Settled'
<1>1. PICK k \in {"full", "cached"} : Begin(k)
  BY DEF Tick, Redraw, CloseDialog, ShowDialog
<1>2. /\ at \in {"free", "dialog", "show"} /\ at' \in {"free", "dialog"}
      /\ UNCHANGED <<proc, list, screen>>
      /\ job' = k
  BY <1>1 DEF Tick, Redraw, CloseDialog, ShowDialog, Begin
<1>3. /\ DOMAIN conf' = Settings /\ DOMAIN tmp' = {} /\ locked' /\ conf' = Unlocked
      /\ \A x \in Settings : Pending'[x] = conf'[x]
      /\ Pending'.banner = proc'.banner
  BY <1>1, <1>2, BeginSettled
<1>4. Quiet(Unlocked)
  BY <1>2, QuietUnlocked DEF Watched
<1>5. Quiet(conf') /\ Quiet(Pending')
  BY <1>3, <1>4, QuietLike DEF Settings
<1>6. at' # "run" /\ at' # "cpu" /\ job' # "drawn" /\ job' # "idle"
  BY <1>2
<1> QED
  BY <1>3, <1>5, <1>6 DEF Settled

LEMMA RunSettled == ASSUME Cursor, Settled, Run PROVE Settled'
<1>1. /\ Begin(kind) /\ at' = "cpu" /\ UNCHANGED <<proc, list, screen>>
      /\ job' \in Work
  BY DEF Run, Begin, Cursor
<1>2. /\ DOMAIN conf' = Settings /\ DOMAIN tmp' = {} /\ locked'
      /\ Pending'.banner = proc'.banner
  BY <1>1, BeginSettled
<1> QED
  BY <1>1, <1>2 DEF Settled, Watched, Work

LEMMA RunCpuSettled == ASSUME Cursor, Aimed, Settled, RunCpu PROVE Settled'
<1>1. /\ Begin("idle") /\ at = "cpu" /\ at' = "free" /\ UNCHANGED <<proc, list, screen>>
      /\ job = "idle" /\ job' = "idle"
  BY DEF RunCpu, Begin
<1>2. /\ DOMAIN conf' = Settings /\ DOMAIN tmp' = {} /\ locked' /\ conf' = Unlocked
      /\ \A x \in Settings : Pending'[x] = conf'[x]
      /\ Pending'.banner = proc'.banner
  BY <1>1, BeginSettled
<1>3. Quiet(Unlocked)
  BY <1>1, UnlocksRedrawn, QuietRedrawn DEF Settled
<1>4. Quiet(conf') /\ Quiet(Pending')
  BY <1>2, <1>3, QuietLike DEF Settings
<1>5. ~screen'.cut => Within(proc, Len(list), Window(Detail(conf, proc), proc.banner))
  BY <1>1 DEF Settled
<1>6. Detail(conf, proc)' = Detail(conf, proc)
  <2>1. conf'.show = conf.show /\ conf'.detailed_pid = conf.detailed_pid
    BY <1>1, BeginAims
  <2> QED
    BY <1>1, <2>1 DEF Detail
<1>7. ~screen'.cut => Within(proc, Len(list), Window(Detail(conf, proc), proc.banner))'
  BY <1>1, <1>5, <1>6
<1> QED
  BY <1>1, <1>2, <1>4, <1>7 DEF Settled

LEMMA RefuseSettled == ASSUME Settled, Refuse PROVE Settled'
<1>1. at = "show" /\ at' = "free" /\ UNCHANGED <<conf, tmp, locked, proc, list, job, screen>>
  BY DEF Refuse
<1>2. Pending' = Pending
  BY <1>1 DEF Pending
<1> QED
  BY <1>1, <1>2 DEF Settled, Watched

LEMMA ShownSettled == ASSUME Settled, Shown PROVE Settled'
<1>1. /\ job = "drawn" /\ job' = "idle" /\ screen'.cut = FALSE
      /\ UNCHANGED <<conf, tmp, locked, proc, list, at>>
  BY DEF Shown
<1>2. Pending' = Pending
  BY <1>1 DEF Pending
<1> QED
  BY <1>1, <1>2 DEF Settled, Watched, Work

LEMMA StoppedSettled == ASSUME Cursor, Aimed, Settled, Stopped PROVE Settled'
<1>1. PICK l \in Lists \cup {list} : proc' = [proc EXCEPT !.last_pid = LastPid(l)]
  BY DEF Stopped
<1>2. proc'.banner = proc.banner
  BY <1>1 DEF Cursor, StaticsOK
<1>3. /\ at \in {"free", "dialog"} /\ job' = "idle" /\ UNCHANGED <<conf, tmp, locked, at>>
      /\ job # "idle"
  BY DEF Stopped, Work
<1>4. locked
  BY <1>3 DEF Aimed
<1>5. screen'.cut
  BY DEF Stopped, Aimed
<1>6. Pending' = Pending
  BY <1>3 DEF Pending
<1> QED
  BY <1>2, <1>3, <1>4, <1>5, <1>6 DEF Settled, Watched

\* Whatever a key sets that ends in run(), it is none of the lists' settings.
LEMMA HandledSettled ==
  ASSUME Settled, Aimed, NEW changes, NEW k, Handled(changes, k),
         DOMAIN changes \subseteq Settings \ {"banner"}
  PROVE  Settled'
<1>1. /\ Set(changes) /\ at = "free" /\ at' = "run" /\ UNCHANGED <<proc, list, job, screen>>
  BY DEF Handled, Reads
<1>2. DOMAIN conf' = Settings /\ DOMAIN tmp' \subseteq Settings /\ (~locked' => DOMAIN tmp' = {})
      /\ Pending'.banner = Pending.banner
  <2>1. CASE job = "idle"
    <3>1. conf' = Override(Unlocked, changes) /\ tmp' = Nothing
      BY <1>1, <2>1 DEF Set
    <3>2. DOMAIN Unlocked = Settings /\ Unlocked.banner = Pending.banner
      BY UnlockedIs DEF Settings
    <3> HIDE DEF Unlocked
    <3>3. DOMAIN conf' = Settings /\ conf'.banner = Unlocked.banner
      BY <3>1, <3>2 DEF Override, Settings
    <3>4. DOMAIN tmp' = {}
      BY <3>1 DEF Nothing
    <3>5. Pending'.banner = conf'.banner
      BY <3>3, <3>4 DEF Pending, Override, Settings
    <3> QED
      BY <3>2, <3>3, <3>4, <3>5
  <2>2. CASE job # "idle"
    <3>1. tmp' = Put(tmp, changes) /\ UNCHANGED <<conf, locked>> /\ locked
      BY <1>1, <2>2 DEF Set, Aimed
    <3>2. /\ DOMAIN tmp' = DOMAIN tmp \cup DOMAIN changes
          /\ "banner" \in DOMAIN tmp => tmp'.banner = tmp.banner
      BY <3>1 DEF Put
    <3>3. DOMAIN conf = Settings
      BY DEF Settled
    <3>4. Pending'.banner = Pending.banner
      BY <3>1, <3>2, <3>3 DEF Pending, Override, Settings
    <3> QED
      BY <3>1, <3>2, <3>3, <3>4 DEF Settled
  <2> QED
    BY <2>1, <2>2
<1>3. job = "drawn" => conf' = conf
  BY <1>1 DEF Set
<1>4. job = "drawn" => Detail(conf, proc)' = Detail(conf, proc)
  BY <1>1, <1>3
<1> QED
  BY <1>1, <1>2, <1>4 DEF Settled, Watched

\* A key that draws nothing: it may stop following and forget the row it came from.
LEMMA SetSettled ==
  ASSUME Settled, Aimed, NEW changes, Set(changes), at = "free", at' \in {"free", "show"},
         screen.cut => job # "idle",
         UNCHANGED <<proc, list, job, screen>>,
         DOMAIN changes \subseteq {"last_selected", "follow", "followed_pid", "followed"},
         "follow" \in DOMAIN changes <=> "followed_pid" \in DOMAIN changes,
         "followed_pid" \in DOMAIN changes => changes.followed_pid = None
  PROVE  Settled'
<1>0. /\ DOMAIN conf = Settings /\ DOMAIN tmp \subseteq Settings /\ Pending.banner = proc.banner
      /\ Quiet(conf) /\ Quiet(Pending) /\ "restore" \notin DOMAIN tmp
      /\ {"start", "selected", "paused"} \cap DOMAIN tmp = {}
  BY DEF Settled, Watched
<1>1. /\ DOMAIN Unlocked = Settings /\ DOMAIN Pending = Settings
      /\ Unlocked.start = proc.start /\ Unlocked.selected = proc.selected
      /\ Unlocked.banner = Pending.banner
  BY UnlockedIs DEF Settings
<1>2. conf'.show = conf.show /\ conf'.detailed_pid = conf.detailed_pid
  BY SetAims
<1>3. Detail(conf, proc)' = Detail(conf, proc)
  BY <1>2 DEF Detail
<1>4. CASE job = "idle"
  <2>1. conf' = Override(Unlocked, changes) /\ tmp' = Nothing /\ locked' = FALSE
    BY <1>4 DEF Set
  <2>2. Quiet(Unlocked)
    BY QuietUnlocked DEF Watched
  <2> HIDE DEF Unlocked
  <2>3. /\ DOMAIN conf' = Settings
        /\ \A k \in Settings : conf'[k] = IF k \in DOMAIN changes THEN changes[k] ELSE Unlocked[k]
    BY <1>1, <2>1 DEF Override
  <2>4. /\ conf'.start = proc.start /\ conf'.selected = proc.selected
        /\ conf'.banner = Pending.banner
        /\ conf'.restore = Unlocked.restore /\ conf'.paused = Unlocked.paused
        /\ conf'.banner = Unlocked.banner /\ conf'.update = Unlocked.update
    BY <1>1, <2>3 DEF Settings
  <2>5. conf'.followed_pid # None =>
          conf'.follow = Unlocked.follow /\ conf'.followed_pid = Unlocked.followed_pid
    BY <2>3 DEF Settings
  <2>6. Quiet(conf')
    BY <2>2, <2>4, <2>5, QuietAlso DEF Quiet
  <2>7. DOMAIN tmp' = {}
    BY <2>1 DEF Nothing
  <2>8. \A k \in Settings : Pending'[k] = conf'[k]
    BY <2>3, <2>7 DEF Pending, Override
  <2>9. Quiet(Pending') /\ Pending'.banner = conf'.banner
    BY <2>6, <2>8, QuietLike DEF Settings
  <2>10. ~screen.cut => Within(proc, Len(list), Window(Detail(conf, proc), proc.banner))
    BY <1>4 DEF Settled
  <2>11. ~screen'.cut => Within(proc, Len(list), Window(Detail(conf, proc), proc.banner))'
    BY <1>3, <2>10
  <2> QED
    BY <1>0, <1>4, <2>1, <2>3, <2>4, <2>6, <2>7, <2>9, <2>11 DEF Settled
<1>5. CASE job # "idle"
  <2>1. tmp' = Put(tmp, changes) /\ UNCHANGED <<conf, locked>> /\ locked
    BY <1>5 DEF Set, Aimed
  <2>2. /\ DOMAIN tmp' = DOMAIN tmp \cup DOMAIN changes
        /\ \A k \in DOMAIN tmp' : tmp'[k] = IF k \in DOMAIN changes THEN changes[k] ELSE tmp[k]
    BY <2>1 DEF Put
  <2>3. /\ DOMAIN Pending' = Settings
        /\ \A k \in Settings : Pending'[k] = IF k \in DOMAIN changes THEN changes[k] ELSE Pending[k]
    BY <1>0, <2>1, <2>2 DEF Pending, Override
  <2>4. /\ Pending'.restore = Pending.restore /\ Pending'.paused = Pending.paused
        /\ Pending'.banner = Pending.banner /\ Pending'.update = Pending.update
    BY <2>3 DEF Settings
  <2>5. Pending'.followed_pid # None =>
          Pending'.follow = Pending.follow /\ Pending'.followed_pid = Pending.followed_pid
    BY <2>3 DEF Settings
  <2>6. Quiet(Pending')
    BY <1>0, <2>4, <2>5, QuietAlso DEF Quiet
  <2>7. /\ DOMAIN tmp' \subseteq Settings /\ "restore" \notin DOMAIN tmp'
        /\ {"start", "selected", "paused"} \cap DOMAIN tmp' = {}
    BY <1>0, <2>2 DEF Settings
  <2>8. /\ "update" \in DOMAIN tmp' => ~tmp'.update
        /\ "follow" \in DOMAIN tmp' <=> "followed_pid" \in DOMAIN tmp'
        /\ "followed_pid" \in DOMAIN tmp' => tmp'.followed_pid = None
    BY <2>2 DEF Settled, Watched
  <2>9. job = "drawn" => Within(proc, Len(list), Window(Detail(conf, proc), proc.banner))'
    BY <1>3 DEF Settled
  <2> QED
    BY <1>0, <1>5, <2>1, <2>4, <2>6, <2>7, <2>8, <2>9 DEF Settled
<1> QED
  BY <1>4, <1>5

LEMMA MoveSettled == ASSUME Aimed, Settled, NEW key, Move(key) PROVE Settled'
<1> DEFINE c == Read
           m == Moved(key, c.start, IF FromDetails(c) THEN c.followed ELSE c.selected,
                      c.last_selected, Len(list),
                      Window(c.show, c.banner) + (IF Leaves(c) THEN 1 ELSE 0))
           leaves == IF Leaves(c) THEN Unfollow ELSE Nothing
           left == IF FromDetails(c) THEN [returns |-> FALSE] ELSE Nothing
           moves == [k \in {x \in DOMAIN m : m[x] # c[x]} |-> m[k]]
           g == Put(Put(leaves, left), moves)
<1>1. Selection(Read, key) = g
  BY DEF Selection
<1>2. DOMAIN m = {"start", "selected", "last_selected"}
  BY DEF Moved
<1> HIDE DEF m
<1>3. DOMAIN moves \subseteq {"start", "selected", "last_selected"}
  BY <1>2
<1>4. /\ DOMAIN leaves = {} \/ DOMAIN leaves = {"follow", "followed_pid", "followed"}
      /\ "followed_pid" \in DOMAIN leaves => leaves.followed_pid = None
      /\ DOMAIN left \subseteq {"returns"}
  BY DEF Unfollow, Nothing
<1> HIDE DEF moves, leaves, left
<1>5. /\ DOMAIN g = DOMAIN leaves \cup DOMAIN left \cup DOMAIN moves
      /\ "followed_pid" \in DOMAIN g => g.followed_pid = None
  BY <1>3, <1>4 DEF Put
<1> HIDE DEF g
<1>6. CASE DOMAIN g \cap {"start", "selected", "returns"} # {}
  <2>1. Handled(g, "cached")
    BY <1>1, <1>6 DEF Move
  <2>2. DOMAIN g \subseteq Settings \ {"banner"}
    BY <1>3, <1>4, <1>5 DEF Settings
  <2> QED
    BY <2>1, <2>2, HandledSettled
<1>7. CASE DOMAIN g \cap {"start", "selected", "returns"} = {}
  <2>1. Reads /\ Set(g) /\ UNCHANGED <<proc, list, gone, job, at, kind, screen, dialog>>
    BY <1>1, <1>7 DEF Move
  <2>2. /\ DOMAIN g \subseteq {"last_selected", "follow", "followed_pid", "followed"}
        /\ "follow" \in DOMAIN g <=> "followed_pid" \in DOMAIN g
    BY <1>3, <1>4, <1>5, <1>7
  <2> QED
    BY <1>5, <2>1, <2>2, SetSettled DEF Reads
<1> QED
  BY <1>6, <1>7

LEMMA AskSettled == ASSUME Aimed, Settled, KeyDialog PROVE Settled'
<1>1. Reads /\ Set(Nothing) /\ at' = "show" /\ UNCHANGED <<proc, list, job, screen>>
  BY DEF KeyDialog
<1>2. DOMAIN Nothing = {}
  BY DEF Nothing
<1> QED
  BY <1>1, <1>2, SetSettled DEF Reads

LEMMA FollowSettled == ASSUME Aimed, Settled, KeyFollow PROVE Settled'
<1> DEFINE c == Read
           To(pid) == [follow |-> TRUE, followed_pid |-> pid, update |-> TRUE]
           selects == c.selected # 0 /\ c.followed_pid # c.selected_pid
           details == c.show /\ c.selected = 0 /\ c.followed_pid # c.detailed_pid
           leaves  == IF c.returns THEN [selected |-> c.followed]
                      ELSE IF c.show /\ c.followed_pid = c.detailed_pid
                        THEN [restore |-> c.detailed_pid] ELSE Nothing
           ch == CASE selects -> To(c.selected_pid)
                   [] ~selects /\ details -> To(c.detailed_pid)
                   [] ~selects /\ ~details /\ c.follow -> Put(leaves, Unfollow)
                   [] OTHER -> Nothing
           Plain(f) == DOMAIN f \subseteq Settings \ {"banner"}
<1>1. Plain(ch)
  <2>1. Plain(Put(leaves, Unfollow))
    <3>1. Plain(leaves) /\ Plain(Unfollow)
      BY DEF Nothing, Unfollow, Settings
    <3> HIDE DEF leaves
    <3> QED
      BY <3>1 DEF Put
  <2>2. Plain(Nothing)
    BY DEF Nothing
  <2>3. \A pid : Plain(To(pid))
    BY DEF Settings
  <2> HIDE DEF c, To, selects, details, leaves, Plain
  <2> QED
    BY <2>1, <2>2, <2>3
<1>2. Handled(ch, "cached")
  BY DEF KeyFollow
<1> HIDE DEF ch
<1> QED
  BY <1>1, <1>2, HandledSettled

LEMMA EnterSettled == ASSUME Aimed, Settled, KeyEnter PROVE Settled'
<1> DEFINE c == Read
           opens == c.selected > 0 /\ c.detailed_pid # c.selected_pid
           more  == IF c.proc_follow_detailed
                      THEN [follow |-> TRUE, followed_pid |-> c.selected_pid] ELSE Nothing
           open  == [detailed_pid |-> c.selected_pid, last_selected |-> c.selected,
                     selected |-> 0, show |-> TRUE]
           gives == IF c.follow /\ c.followed_pid = c.detailed_pid THEN Unfollow ELSE Nothing
           to    == IF c.proc_follow_detailed THEN Put([restore |-> c.detailed_pid], gives)
                    ELSE IF c.last_selected > 0 THEN [selected |-> c.last_selected] ELSE Nothing
           shut  == [last_selected |-> 0, detailed_pid |-> None, show |-> FALSE]
           what  == IF opens THEN Put(open, more) ELSE IF c.show THEN Put(to, shut) ELSE Nothing
           ch    == Put(what, [update |-> TRUE])
           Plain(f) == DOMAIN f \subseteq Settings \ {"banner"}
<1>1. Handled(ch, "cached")
  BY DEF KeyEnter
<1>2. \A f, g : Plain(f) /\ Plain(g) => Plain(Put(f, g))
  BY DEF Put
<1>3. Plain(more) /\ Plain(open) /\ Plain(gives) /\ Plain(shut) /\ Plain([update |-> TRUE])
      /\ Plain(Nothing)
  BY DEF Nothing, Unfollow, Settings
<1>4. Plain([restore |-> c.detailed_pid]) /\ Plain([selected |-> c.last_selected])
  BY DEF Settings
<1> HIDE DEF Plain, c, opens, more, open, gives, shut
<1>5. Plain(to)
  BY <1>2, <1>3, <1>4
<1> HIDE DEF to
<1>6. Plain(what)
  BY <1>2, <1>3, <1>5
<1> HIDE DEF what
<1>7. Plain(ch)
  BY <1>2, <1>3, <1>6
<1> QED
  BY <1>1, <1>7, HandledSettled DEF Plain

\* What has been drawn is what the settings say, and so nothing is left to do.
LEMMA DrawSettled == ASSUME Cursor, Aimed, Settled, Draw PROVE Settled'
<1>1. PICK l \in Lists \cup {list} :
         LET p == [proc EXCEPT !.last_pid = LastPid(l)] IN
         /\ Collected(l)
         /\ proc' = Drawn(conf, l, p) /\ tmp' = Put(tmp, DrawingSets(conf, l, p))
  BY DEF Draw
<1> DEFINE p == [proc EXCEPT !.last_pid = LastPid(l)]
           g == DrawingSets(conf, l, p)
           f == Followed(conf, l, Detail(conf, p))
           gives == Seeks(conf) /\ conf.restore = None /\ Goal(conf) \notin ToSet(l)
<1>2. /\ job' = "drawn" /\ job \in Work /\ UNCHANGED <<conf, locked, at, screen>>
      /\ list' = l /\ locked
  BY <1>1 DEF Draw, Collected, Aimed, Work
<1>3. l \in Seq(Nat)
  BY <1>1, ListsSeq DEF Cursor
<1>4. StaticsOK(p)
  BY DEF Cursor, StaticsOK
<1>5. proc' = Drawn(conf, l, p) /\ tmp' = Put(tmp, g)
  BY <1>1
<1>6. /\ \A k \in DOMAIN g : g[k] = f[k]
      /\ DOMAIN g \subseteq {"banner", "update", "restore", "followed", "returns", "follow",
                             "followed_pid"}
      /\ "banner" \in DOMAIN g
      /\ "update" \in DOMAIN g <=> Seeks(conf)
      /\ "restore" \in DOMAIN g <=> conf.restore # None
      /\ "follow" \in DOMAIN g <=> gives
      /\ "followed_pid" \in DOMAIN g <=> gives
  BY DEF DrawingSets
<1>7. /\ f.banner = (IF gives THEN conf.paused ELSE conf.paused \/ conf.follow)
      /\ f.follow = (IF gives THEN FALSE ELSE conf.follow)
      /\ f.followed_pid = (IF gives THEN None ELSE conf.followed_pid)
      /\ f.update = (IF Seeks(conf) THEN FALSE ELSE conf.update)
  <2> DEFINE det == Detail(conf, p)
  <2> HIDE DEF det
  <2>0. DOMAIN conf = Settings
    BY DEF Settled
  <2>1. /\ Followed(conf, l, det).banner = (IF gives THEN conf.paused ELSE conf.paused \/ conf.follow)
        /\ Followed(conf, l, det).follow = (IF gives THEN FALSE ELSE conf.follow)
    BY <2>0, FollowedFields, ZenonT(60)
  <2>2. Followed(conf, l, det).followed_pid = (IF gives THEN None ELSE conf.followed_pid)
    BY <2>0, FollowedFields, ZenonT(60)
  <2>3. Followed(conf, l, det).update = (IF Seeks(conf) THEN FALSE ELSE conf.update)
    BY <2>0, FollowedFields, ZenonT(60)
  <2> QED
    BY <2>1, <2>2, <2>3 DEF det
<1>8. /\ Within(proc', Len(l), Window(Detail(conf, p), proc'.banner))
      /\ proc'.last_pid = p.last_pid
  <2> HIDE DEF p
  <2> QED
    BY <1>3, <1>5, DrawnWithin DEF Cursor
<1>9. Within(proc, Len(list), Window(Detail(conf, proc), proc.banner))'
  <2>1. Detail(conf, proc)' = Detail(conf, p)
    BY <1>2, <1>8 DEF Detail
  <2> QED
    BY <1>2, <1>8, <2>1
<1>10. proc'.banner = f.banner
  <2>1. Drawn(conf, l, p).banner = f.banner
    BY DEF Drawn
  <2> HIDE DEF f, p
  <2> QED
    BY <1>5, <2>1
<1> HIDE DEF g, f, p
<1>11. /\ DOMAIN tmp' = DOMAIN tmp \cup DOMAIN g
       /\ \A k \in DOMAIN tmp' : tmp'[k] = IF k \in DOMAIN g THEN g[k] ELSE tmp[k]
  BY <1>5 DEF Put
<1>12. DOMAIN conf = Settings /\ DOMAIN tmp \subseteq Settings
  BY DEF Settled
<1>13. DOMAIN tmp' \subseteq Settings
  BY <1>6, <1>11, <1>12 DEF Settings
<1>14. \A k \in Settings : Pending'[k] = IF k \in DOMAIN g THEN g[k] ELSE Pending[k]
  BY <1>2, <1>11, <1>12, <1>13, PendingIs DEF Pending, Override
<1>15. Pending'.banner = proc'.banner
  BY <1>6, <1>10, <1>14 DEF Settings
<1>16. at # "run" => {"start", "selected", "paused"} \cap DOMAIN tmp' = {}
  BY <1>6, <1>11 DEF Settled
<1>17. ASSUME Watched
       PROVE  /\ Quiet(Pending') /\ "restore" \notin DOMAIN tmp'
              /\ "update" \in DOMAIN tmp' => ~tmp'.update
              /\ "follow" \in DOMAIN tmp' <=> "followed_pid" \in DOMAIN tmp'
              /\ "followed_pid" \in DOMAIN tmp' => tmp'.followed_pid = None
  <2>1. /\ Quiet(conf) /\ Quiet(Pending) /\ "restore" \notin DOMAIN tmp
        /\ "update" \in DOMAIN tmp => ~tmp.update
        /\ "follow" \in DOMAIN tmp <=> "followed_pid" \in DOMAIN tmp
        /\ "followed_pid" \in DOMAIN tmp => tmp.followed_pid = None
        /\ "paused" \notin DOMAIN tmp
    BY <1>17 DEF Settled, Watched
  <2>2. conf.restore = None
    BY <2>1 DEF Quiet
  <2>3. "restore" \notin DOMAIN tmp'
    BY <1>6, <1>11, <2>1, <2>2
  <2>4. "update" \in DOMAIN tmp' => ~tmp'.update
    BY <1>6, <1>7, <1>11, <2>1
  <2>5. "follow" \in DOMAIN tmp' <=> "followed_pid" \in DOMAIN tmp'
    BY <1>6, <1>11, <2>1
  <2>6. "followed_pid" \in DOMAIN tmp' => tmp'.followed_pid = None
    BY <1>6, <1>7, <1>11, <2>1
  <2>7. \A k \in Settings : Pending[k] = IF k \in DOMAIN tmp THEN tmp[k] ELSE conf[k]
    BY <1>12, PendingIs
  <2>8. Pending'.restore = None /\ Pending'.paused = conf.paused
    <3>1. Pending'.restore = Pending.restore /\ Pending'.paused = Pending.paused
      BY <1>6, <1>14, <2>2 DEF Settings
    <3>2. Pending.restore = conf.restore /\ Pending.paused = conf.paused
      BY <2>1, <2>7 DEF Settings
    <3> QED
      BY <2>2, <3>1, <3>2
  <2>9. conf.paused => Pending'.banner
    BY <1>7, <1>10, <1>15
  <2>10. ASSUME Pending'.follow, Pending'.followed_pid # None
         PROVE  Pending'.banner /\ ~Pending'.update
    <3>1. ~gives
      BY <1>6, <1>7, <1>14, <2>10 DEF Settings
    <3>2. Pending'.follow = Pending.follow /\ Pending'.followed_pid = Pending.followed_pid
      BY <1>6, <1>14, <3>1 DEF Settings
    <3>3. "followed_pid" \notin DOMAIN tmp
      BY <2>1, <2>7, <2>10, <3>2 DEF Settings
    <3>4. conf.follow
      BY <2>1, <2>7, <2>10, <3>2, <3>3 DEF Settings
    <3>5. Pending'.banner
      BY <1>7, <1>10, <1>15, <3>1, <3>4
    <3>6. ~Pending'.update
      <4>1. CASE Seeks(conf)
        BY <1>6, <1>7, <1>14, <4>1 DEF Settings
      <4>2. CASE ~Seeks(conf)
        <5>1. Pending'.update = Pending.update
          BY <1>6, <1>14, <4>2 DEF Settings
        <5> QED
          BY <2>1, <2>10, <3>2, <5>1 DEF Quiet
      <4> QED
        BY <4>1, <4>2
    <3> QED
      BY <3>5, <3>6
  <2> QED
    BY <2>3, <2>4, <2>5, <2>6, <2>8, <2>9, <2>10 DEF Quiet
<1>18. ASSUME at = "cpu"
       PROVE  \E q : /\ StaticsOK(q) /\ q.last_pid = proc'.last_pid
                     /\ proc' = Drawn(conf', list', q) /\ tmp' = DrawingSets(conf', list', q)
  <2>1. DOMAIN tmp = {}
    BY <1>2, <1>18 DEF Settled
  <2>2. tmp' = g
    <3>1. g = [k \in DOMAIN g |-> g[k]]
      BY DEF g, DrawingSets
    <3> QED
      BY <1>5, <2>1, <3>1 DEF Put
  <2>3. tmp' = DrawingSets(conf, l, p)
    BY <2>2 DEF g
  <2> QED
    BY <1>2, <1>4, <1>5, <1>8, <2>3
<1>19. Watched => Quiet(conf')
  BY <1>2 DEF Settled
<1> QED
  BY <1>2, <1>9, <1>12, <1>13, <1>15, <1>16, <1>17, <1>18, <1>19 DEF Settled, Watched, Work

LEMMA SettledInit == Init => Settled
<1> SUFFICES ASSUME Init PROVE Settled
  OBVIOUS
<1>1. /\ DOMAIN conf = Settings /\ conf.start = 0 /\ conf.selected = 0 /\ conf.restore = None
      /\ conf.follow = FALSE /\ conf.banner = FALSE /\ conf.paused = FALSE
  BY DEF Init, Settings
<1>2. /\ DOMAIN tmp = {} /\ locked = FALSE /\ job = "idle" /\ at = "free" /\ list = <<>>
      /\ proc.start = 0 /\ proc.selected = 0 /\ proc.banner = FALSE
  BY DEF Init, Nothing
<1>3. \A k \in Settings : Pending[k] = conf[k]
  BY <1>1, <1>2, PendingIs
<1>4. Quiet(conf) /\ conf.banner = FALSE
  BY <1>1 DEF Quiet
<1>5. Quiet(Pending) /\ Pending.banner = FALSE
  BY <1>3, <1>4, QuietLike DEF Settings
<1>6. Within(proc, Len(list), Window(Detail(conf, proc), proc.banner))
  <2> DEFINE max == Window(Detail(conf, proc), proc.banner)
  <2>1. max \in Nat /\ Len(list) = 0
    BY <1>2, WindowFits
  <2> HIDE DEF max
  <2>2. Within(proc, Len(list), max)
    BY <1>2, <2>1 DEF Within, Larger
  <2> QED
    BY <2>2 DEF max
<1> QED
  BY <1>1, <1>2, <1>4, <1>5, <1>6 DEF Settled

LEMMA SettledStep == Cursor /\ Aimed /\ Settled /\ [Next]_vars => Settled'
<1> SUFFICES ASSUME Cursor, Aimed, Settled, [Next]_vars PROVE Settled'
  OBVIOUS
<1>1. CASE Draw \/ Stopped \/ Shown
  BY <1>1, DrawSettled, StoppedSettled, ShownSettled
<1>2. CASE Tick \/ Redraw \/ CloseDialog \/ ShowDialog
  BY <1>2, AgainSettled
<1>3. CASE Run \/ RunCpu \/ Refuse
  BY <1>3, RunSettled, RunCpuSettled, RefuseSettled
<1>4. CASE Key
  <2>1. CASE \E k \in {"up", "down", "page_up", "page_down", "home", "end"} : Move(k)
    BY <2>1, MoveSettled
  <2>2. CASE KeyPause \/ KeySort
    <3>1. \A b : DOMAIN [paused |-> b] \subseteq Settings \ {"banner"}
                 /\ DOMAIN [update |-> b] \subseteq Settings \ {"banner"}
      BY DEF Settings
    <3>2. CASE KeyPause
      BY <3>1, <3>2, HandledSettled DEF KeyPause
    <3>3. CASE KeySort
      BY <3>1, <3>3, HandledSettled DEF KeySort
    <3> QED
      BY <2>2, <3>2, <3>3
  <2>3. CASE KeyFollow \/ KeyEnter \/ KeyDialog
    BY <2>3, FollowSettled, EnterSettled, AskSettled
  <2> QED
    BY <1>4, <2>1, <2>2, <2>3 DEF Key
<1>5. CASE UNCHANGED vars
  <2>1. UNCHANGED <<conf, tmp, locked, proc, list, job, at, screen>>
    BY <1>5 DEF vars
  <2>2. Pending' = Pending
    BY <2>1 DEF Pending
  <2> QED
    BY <2>1, <2>2 DEF Settled, Watched
<1> QED
  BY <1>1, <1>2, <1>3, <1>4, <1>5 DEF Next

LEMMA SettledAlways == Spec => []Settled
  BY SettledInit, SettledStep, CursorAlways, AimedAlways, PTL DEF Spec

\* Drawing once more moves nothing, and `up` and `down` go to the next process, also if
\* the banner goes with the key, but for the one row more in a list one row shorter than
\* the box: for all lists and for all heights of the box and of the details.
THEOREM ArrowsAndDrawings == Spec => []CursorMoves
<1>1. ASSUME Cursor, Aimed, Settled PROVE CursorMoves
  <2>1. CursorStill
    BY <1>1, StillSettled
  <2>2. ArrowMovesOne
    <3>1. CASE /\ job = "idle" /\ at = "free" /\ ~screen.cut /\ proc.selected > 0
               /\ ~FollowsNobody
      BY <1>1, <3>1, ArrowLands
    <3>2. CASE ~(/\ job = "idle" /\ at = "free" /\ ~screen.cut /\ proc.selected > 0
                 /\ ~FollowsNobody)
      BY <3>2, Zenon DEF ArrowMovesOne
    <3> QED
      BY <3>1, <3>2
  <2> QED
    BY <2>1, <2>2 DEF CursorMoves
<1> QED
  BY <1>1, CursorAlways, AimedAlways, SettledAlways, PTL
-----------------------------------------------------------------------------
(* The values of the settings and of the statics.                          *)

Switches == {"show", "follow", "returns", "update", "banner", "paused", "proc_follow_detailed"}
PidsSet  == {"selected_pid", "detailed_pid", "followed_pid", "restore"}
RowsSet  == {"last_selected", "followed"}

\* What f says of the settings can be so. A key at the bottom of the list selects a row
\* more than the box has; the drawing takes it back.
Valid(f) ==
    /\ DOMAIN f \subseteq Settings
    /\ "start" \in DOMAIN f => f["start"] \in 0..MaxProcs
    /\ "selected" \in DOMAIN f => f["selected"] \in 0..(ListRows + 1)
    /\ \A k \in DOMAIN f \cap RowsSet : f[k] \in 0..ListRows
    /\ \A k \in DOMAIN f \cap PidsSet : f[k] \in Pids \cup {None}
    /\ \A k \in DOMAIN f \cap Switches : f[k] \in BOOLEAN

ValidStatics(p) ==
    /\ p.start \in 0..MaxProcs /\ p.selected \in 0..ListRows
    /\ p.selected_pid \in Pids \cup {None} /\ p.last_pid \in Pids \cup {None}
    /\ p.banner \in BOOLEAN

\* The rest of the type invariant, and that a key finds a row of the box selected.
Ranges ==
    /\ Valid(conf) /\ Valid(tmp)
    /\ (job # "idle" => locked) /\ (~locked => tmp = Nothing)
    /\ at \notin {"run", "cpu"} => conf.selected \in 0..ListRows
    /\ ValidStatics(proc)
    /\ list \in Lists \cup {<<>>} /\ gone \subseteq Pids \ ToSet(list)
    /\ job \in Work \cup {"idle", "drawn"} /\ kind \in Work
    /\ at \in {"free", "run", "cpu", "show", "dialog"}
    /\ screen.list \in Lists \cup {<<>>}
    /\ screen.pid \in Pids \cup {None} /\ screen.detail \in Pids \cup {None}
    /\ dialog.pid \in Pids \cup {None} /\ dialog.asked \in Pids \cup {None}
    /\ events \in 0..MaxEvents

LEMMA NothingValid == Valid(Nothing)
  BY DEF Valid, Nothing

LEMMA OverrideValid ==
  ASSUME NEW f, NEW g, Valid(f), Valid(g)
  PROVE  Valid(Override(f, g)) /\ DOMAIN Override(f, g) = DOMAIN f
  BY DEF Valid, Override

LEMMA PutValid == ASSUME NEW f, NEW g, Valid(f), Valid(g) PROVE Valid(Put(f, g))
  BY DEF Valid, Put

LEMMA RangesOfUnlocked == ASSUME Ranges PROVE Valid(Unlocked)
<1> DEFINE drawn == [k \in {"start", "selected", "selected_pid"} |-> proc[k]]
<1>1. Valid(drawn)
  <2>1. proc.start \in 0..MaxProcs /\ proc.selected \in 0..(ListRows + 1)
        /\ proc.selected_pid \in Pids \cup {None}
    BY ProcViewAssumption DEF Ranges, ValidStatics
  <2> QED
    BY <2>1 DEF Valid, Settings, Switches, PidsSet, RowsSet
<1>2. Valid(Override(Override(conf, drawn), tmp))
  <2> HIDE DEF drawn
  <2> QED
    BY <1>1, OverrideValid DEF Ranges
<1> QED
  BY <1>2 DEF Ranges, Unlocked

\* A key that comes at a free main thread reads a row of the box.
LEMMA RangesOfRead ==
  ASSUME Settled, Ranges
  PROVE  /\ Valid(Read) /\ DOMAIN Read = Settings
         /\ at = "free" => Read.selected \in 0..ListRows
<1>1. Valid(Unlocked) /\ DOMAIN Unlocked = Settings
  BY RangesOfUnlocked, UnlockedIs
<1>2. at = "free" => Unlocked.selected = proc.selected
  BY UnlockedIs
<1>3. Valid(conf) /\ DOMAIN conf = Settings /\ (at = "free" => conf.selected \in 0..ListRows)
  BY DEF Ranges, Settled
<1>4. proc.selected \in 0..ListRows
  BY DEF Ranges, ValidStatics
<1> QED
  BY <1>1, <1>2, <1>3, <1>4 DEF Read

\* The settings a key reads, one by one.
LEMMA ValidFields ==
  ASSUME NEW c, Valid(c), DOMAIN c = Settings
  PROVE  /\ c.start \in 0..MaxProcs /\ c.selected \in 0..(ListRows + 1)
         /\ c.last_selected \in 0..ListRows /\ c.followed \in 0..ListRows
         /\ c.selected_pid \in Pids \cup {None} /\ c.detailed_pid \in Pids \cup {None}
         /\ c.followed_pid \in Pids \cup {None} /\ c.restore \in Pids \cup {None}
         /\ c.show \in BOOLEAN /\ c.follow \in BOOLEAN /\ c.returns \in BOOLEAN
         /\ c.update \in BOOLEAN /\ c.banner \in BOOLEAN /\ c.paused \in BOOLEAN
<1>1. /\ c.start \in 0..MaxProcs /\ c.selected \in 0..(ListRows + 1)
      /\ c.last_selected \in 0..ListRows /\ c.followed \in 0..ListRows
  BY DEF Valid, Settings, RowsSet
<1>2. /\ c.selected_pid \in Pids \cup {None} /\ c.detailed_pid \in Pids \cup {None}
      /\ c.followed_pid \in Pids \cup {None} /\ c.restore \in Pids \cup {None}
  BY DEF Valid, Settings, PidsSet
<1>3. \A k \in Switches : c[k] \in BOOLEAN
  BY DEF Valid, Settings, Switches
<1> QED
  BY <1>1, <1>2, <1>3 DEF Switches

LEMMA SetValid ==
  ASSUME Ranges, NEW changes, Valid(changes), Set(changes)
  PROVE  /\ Valid(conf') /\ Valid(tmp')
         /\ (job # "idle" => locked') /\ (~locked' => tmp' = Nothing)
         /\ job # "idle" => conf' = conf
<1>1. CASE job = "idle"
  BY <1>1, RangesOfUnlocked, OverrideValid, NothingValid DEF Set
<1>2. CASE job # "idle"
  BY <1>2, PutValid, NothingValid DEF Set, Ranges
<1> QED
  BY <1>1, <1>2

LEMMA RangesOfFlipped ==
  ASSUME Settled, Ranges, NEW k \in {"follow", "paused"} PROVE Flipped(k) \in BOOLEAN
<1>1. Read[k] \in BOOLEAN
  BY RangesOfRead, ValidFields
<1>2. k \in DOMAIN tmp => tmp[k] \in BOOLEAN
  BY DEF Ranges, Valid, Switches
<1> QED
  BY <1>1, <1>2 DEF Flipped

LEMMA RangesOfUnfollow == ASSUME Settled, Ranges PROVE Valid(Unfollow)
<1>1. Flipped("follow") \in BOOLEAN
  BY RangesOfFlipped
<1> QED
  BY <1>1, ProcViewAssumption DEF Unfollow, Valid, Settings, Switches, PidsSet, RowsSet

LEMMA HandledRanges ==
  ASSUME Ranges, NEW changes, Valid(changes), NEW k \in Work, Handled(changes, k)
  PROVE  Ranges'
<1>1. Valid(conf') /\ Valid(tmp') /\ (job # "idle" => locked') /\ (~locked' => tmp' = Nothing)
  BY SetValid DEF Handled
<1>2. events' \in 0..MaxEvents
  BY ProcViewAssumption DEF Handled, Reads, Ranges
<1> QED
  BY <1>1, <1>2 DEF Handled, Ranges, ValidStatics

\* A job that begins finds the row of the last drawing selected, but for a key's job.
LEMMA BeginRanges ==
  ASSUME Settled, Ranges, NEW k \in Work \cup {"idle"}, Begin(k),
         UNCHANGED <<proc, list, gone, kind, screen>>
  PROVE  /\ Valid(conf') /\ Valid(tmp') /\ locked'
         /\ at # "run" => conf'.selected \in 0..ListRows
         /\ ValidStatics(proc') /\ job' \in Work \cup {"idle", "drawn"}
         /\ UNCHANGED <<proc, list, gone, kind, screen>>
<1>1. at # "run" => Unlocked.selected = proc.selected
  BY UnlockedIs
<1> QED
  BY <1>1, RangesOfUnlocked, NothingValid DEF Begin, Ranges, ValidStatics
-----------------------------------------------------------------------------
(* What keys and drawings make of them.                                    *)

LEMMA WindowIn == ASSUME NEW d, NEW b PROVE Window(d, b) \in 1..ListRows
  BY ProcViewAssumption DEF Window

LEMMA CentredIn ==
  ASSUME NEW n \in Nat, NEW loc \in 1..n, NEW max \in 1..ListRows
  PROVE  Centred(loc, max, n).start \in 0..n /\ Centred(loc, max, n).row \in 0..ListRows
<1> DEFINE middle == (max + 1) \div 2
           start == Larger(0, loc - middle)
           row == IF loc < middle THEN loc ELSE IF start > n - max THEN max - n + loc ELSE middle
<1>1. ListRows \in Nat /\ middle \in 1..max
  BY ProcViewAssumption
<1> HIDE DEF middle
<1>2. start \in 0..n
  BY <1>1 DEF Larger
<1>3. row \in 0..ListRows
  BY <1>1 DEF Larger
<1>4. Centred(loc, max, n) = [start |-> start, row |-> row]
  BY DEF Centred, middle
<1> QED
  BY <1>2, <1>3, <1>4

\* The lists that are drawn, the empty one of the beginning too.
LEMMA ListIn ==
  ASSUME NEW l \in Lists \cup {<<>>}
  PROVE  l \in Seq(Nat) /\ Len(l) \in 0..MaxProcs /\ \A i \in 1..Len(l) : l[i] \in Pids
<1>1. CASE l \in Lists
  <2>1. l \in Seq(Nat \ {0}) /\ Len(l) \in 1..MaxProcs /\ MaxProcs \in Nat
    BY <1>1, ProcViewAssumption
  <2>2. \A i \in 1..Len(l) : l[i] \in ToSet(l)
    BY <2>1 DEF ToSet
  <2> QED
    BY <1>1, <2>1, <2>2 DEF Pids
<1>2. CASE l = <<>>
  BY <1>2, ProcViewAssumption
<1> QED
  BY <1>1, <1>2

LEMMA AsideIn ==
  ASSUME NEW c, NEW l \in Lists \cup {<<>>}, NEW d, Goal(c) \in ToSet(l)
  PROVE  Aside(c, l, d).start \in 0..MaxProcs /\ Aside(c, l, d).row \in 0..ListRows
<1> DEFINE max == Window(d, c.paused \/ c.follow)
           place == Place(l, Goal(c))
<1>1. max \in 1..ListRows /\ place \in 1..Len(l) /\ Len(l) \in 0..MaxProcs
  BY WindowIn, ListIn, PlaceIn
<1>2. Centred(place, max, Len(l)).start \in 0..Len(l)
      /\ Centred(place, max, Len(l)).row \in 0..ListRows
  <2> HIDE DEF max, place
  <2> QED
    BY <1>1, CentredIn
<1>3. Centred(place, max, Len(l)) = Aside(c, l, d)
  BY DEF Aside
<1> HIDE DEF max, place
<1> QED
  BY <1>1, <1>2, <1>3, ProcViewAssumption

\* Following a process sets what is valid.
LEMMA FollowedValid ==
  ASSUME NEW c, Valid(c), DOMAIN c = Settings, NEW l \in Lists \cup {<<>>}, NEW d
  PROVE  Valid(Followed(c, l, d)) /\ DOMAIN Followed(c, l, d) = Settings
<1> DEFINE f == Followed(c, l, d)
           seen == [c EXCEPT !.banner = c.paused \/ c.follow]
           to == Aside(c, l, d)
<1>0. (c.paused \/ c.follow) \in BOOLEAN /\ c.paused \in BOOLEAN
  BY ValidFields
<1>1. Valid(seen) /\ DOMAIN seen = Settings
  <2>1. DOMAIN seen = Settings /\ seen.banner \in BOOLEAN
        /\ \A k \in Settings \ {"banner"} : seen[k] = c[k]
    BY <1>0 DEF Settings
  <2> HIDE DEF seen
  <2> QED
    BY <2>1 DEF Valid, Settings, Switches, PidsSet, RowsSet
<1>2. CASE ~Seeks(c)
  BY <1>1, <1>2 DEF Followed
<1>3. Goal(c) \in ToSet(l) => to.start \in 0..MaxProcs /\ to.row \in 0..ListRows
                             /\ to.row \in 0..(ListRows + 1)
  BY AsideIn, ProcViewAssumption
<1>4. 0 \in 0..ListRows /\ 0 \in 0..(ListRows + 1)
  BY ProcViewAssumption
<1>5. CASE Seeks(c) /\ Goal(c) \in ToSet(l) /\ c.restore = None
  <2> DEFINE row == IF c.followed_pid = c.detailed_pid THEN 0 ELSE to.row
  <2>1. f = [seen EXCEPT !.update = FALSE, !.start = to.start, !.followed = to.row,
               !.returns = TRUE, !.selected = row]
    BY <1>5 DEF Followed, Aside
  <2>2. row \in 0..(ListRows + 1)
    BY <1>3, <1>4, <1>5
  <2> HIDE DEF f, seen, to, row
  <2>3. /\ DOMAIN f = Settings /\ f.update = FALSE /\ f.start = to.start /\ f.followed = to.row
        /\ f.returns = TRUE /\ f.selected = row
        /\ \A k \in Settings \ {"update", "start", "followed", "returns", "selected"} : f[k] = seen[k]
    BY <1>1, <2>1 DEF Settings
  <2>4. Valid(f)
    <3>1. f.update \in BOOLEAN /\ f.returns \in BOOLEAN
      BY <2>3, Zenon
    <3> QED
      BY <1>1, <1>3, <1>5, <2>2, <2>3, <3>1 DEF Valid, Settings, Switches, PidsSet, RowsSet
  <2> QED
    BY <2>3, <2>4 DEF f
<1>6. CASE Seeks(c) /\ Goal(c) \in ToSet(l) /\ c.restore # None
  <2>1. f = [seen EXCEPT !.update = FALSE, !.start = to.start, !.selected = to.row, !.restore = None]
    BY <1>6 DEF Followed, Aside
  <2> HIDE DEF f, seen, to
  <2>2. /\ DOMAIN f = Settings /\ f.update = FALSE /\ f.start = to.start
        /\ f.selected = to.row /\ f.restore = None
        /\ \A k \in Settings \ {"update", "start", "selected", "restore"} : f[k] = seen[k]
    BY <1>1, <2>1 DEF Settings
  <2>3. Valid(f)
    <3>1. f.update \in BOOLEAN
      BY <2>2, Zenon
    <3> QED
      BY <1>1, <1>3, <1>6, <2>2, <3>1 DEF Valid, Settings, Switches, PidsSet, RowsSet
  <2> QED
    BY <2>2, <2>3 DEF f
<1>7. CASE Seeks(c) /\ Goal(c) \notin ToSet(l) /\ c.restore = None
  <2>1. f = [seen EXCEPT !.update = FALSE, !.follow = FALSE, !.followed_pid = None,
               !.followed = 0, !.banner = c.paused]
    BY <1>7 DEF Followed
  <2> HIDE DEF f, seen, to
  <2>2. /\ DOMAIN f = Settings /\ f.update = FALSE /\ f.follow = FALSE /\ f.followed_pid = None
        /\ f.followed = 0 /\ f.banner = c.paused
        /\ \A k \in Settings \ {"update", "follow", "followed_pid", "followed", "banner"} :
             f[k] = seen[k]
    BY <1>1, <2>1 DEF Settings
  <2>3. Valid(f)
    <3>1. f.update \in BOOLEAN /\ f.follow \in BOOLEAN /\ f.banner \in BOOLEAN
      BY <1>0, <2>2, Zenon
    <3> QED
      BY <1>1, <1>4, <2>2, <3>1 DEF Valid, Settings, Switches, PidsSet, RowsSet
  <2> QED
    BY <2>2, <2>3 DEF f
<1>8. CASE Seeks(c) /\ Goal(c) \notin ToSet(l) /\ c.restore # None
  <2>1. f = [seen EXCEPT !.update = FALSE, !.restore = None]
    BY <1>8 DEF Followed
  <2> HIDE DEF f, seen, to
  <2>2. /\ DOMAIN f = Settings /\ f.update = FALSE /\ f.restore = None
        /\ \A k \in Settings \ {"update", "restore"} : f[k] = seen[k]
    BY <1>1, <2>1 DEF Settings
  <2>3. Valid(f)
    <3>1. f.update \in BOOLEAN
      BY <2>2, Zenon
    <3> QED
      BY <1>1, <2>2, <3>1 DEF Valid, Settings, Switches, PidsSet, RowsSet
  <2> QED
    BY <2>2, <2>3 DEF f
<1> QED
  BY <1>2, <1>5, <1>6, <1>7, <1>8

LEMMA DrawingValid ==
  ASSUME NEW c, Valid(c), DOMAIN c = Settings, NEW l \in Lists \cup {<<>>}, NEW p
  PROVE  Valid(DrawingSets(c, l, p))
<1> DEFINE f == Followed(c, l, Detail(c, p))
           g == DrawingSets(c, l, p)
<1>1. Valid(f) /\ DOMAIN f = Settings
  BY FollowedValid
<1> HIDE DEF f
<1>2. DOMAIN g \subseteq Settings /\ \A k \in DOMAIN g : g[k] = f[k]
  BY DEF DrawingSets, f, Settings
<1> HIDE DEF g
<1>3. Valid(g)
  BY <1>1, <1>2 DEF Valid
<1> QED
  BY <1>3 DEF g

\* The statics after a drawing: the row is one of the box, the view begins in the list.
LEMMA DrawnValid ==
  ASSUME NEW c, Valid(c), DOMAIN c = Settings, Full(c), NEW l \in Lists \cup {<<>>},
         NEW p, p.last_pid \in Pids \cup {None}
  PROVE  ValidStatics(Drawn(c, l, p))
<1> DEFINE f   == Followed(c, l, Detail(c, p))
           max == Window(Detail(c, p), f.banner)
           s   == Shifted(f, c, p, l, max)
           b   == Bounded(s, Len(l), max)
           q   == [start |-> b.start, selected |-> b.selected, banner |-> f.banner,
                   last_pid |-> p.last_pid,
                   selected_pid |-> IF b.selected = 0 THEN None ELSE l[b.start + b.selected]]
<1>1. l \in Seq(Nat) /\ Len(l) \in 0..MaxProcs /\ \A i \in 1..Len(l) : l[i] \in Pids
  BY ListIn
<1>2. Drawn(c, l, p) = q /\ s.start \in Int /\ s.selected \in Int
      /\ b.start + b.selected <= Len(l)
  BY <1>1, DrawnIs
<1>3. Valid(f) /\ DOMAIN f = Settings /\ max \in 1..ListRows
  BY FollowedValid, WindowIn
<1>4. f.start \in 0..MaxProcs /\ f.selected \in 0..(ListRows + 1) /\ f.banner \in BOOLEAN
  <2> HIDE DEF f
  <2> QED
    BY <1>3, ValidFields
<1>5. s.selected >= 0 /\ s.start >= 0
  <2> HIDE DEF f, max
  <2> QED
    BY <1>3, <1>4, ProcViewAssumption DEF Shifted, Settings
<1>6. b.start \in 0..MaxProcs /\ b.selected \in 0..ListRows
  <2> HIDE DEF s, max
  <2> QED
    BY <1>1, <1>2, <1>3, <1>5, ProcViewAssumption, SMTT(30) DEF Bounded, Clamp, Smaller, Larger
<1> HIDE DEF b
<1>7. q.selected_pid \in Pids \cup {None}
  <2>1. CASE b.selected = 0
    BY <2>1
  <2>2. CASE b.selected # 0
    <3>1. b.start + b.selected \in 1..Len(l)
      BY <1>1, <1>2, <1>6, <2>2, ProcViewAssumption
    <3> QED
      BY <1>1, <2>2, <3>1
  <2> QED
    BY <2>1, <2>2
<1> HIDE DEF f
<1> QED
  BY <1>2, <1>4, <1>6, <1>7 DEF ValidStatics

LEMMA MovedIn ==
  ASSUME NEW key, NEW st \in 0..MaxProcs, NEW se \in 0..ListRows, NEW last \in 0..ListRows,
         NEW n \in 0..MaxProcs, NEW max \in 1..(ListRows + 1)
  PROVE  LET m == Moved(key, st, se, last, n, max)
         IN /\ DOMAIN m = {"start", "selected", "last_selected"}
            /\ m.start \in 0..MaxProcs /\ m.selected \in 0..(ListRows + 1)
            /\ m.last_selected \in 0..ListRows
<1>1. ListRows \in Nat /\ MaxProcs \in Nat
  BY ProcViewAssumption
<1> QED
  BY <1>1 DEF Moved, Larger, Smaller, Clamp

LEMMA SelectionValid ==
  ASSUME Settled, Ranges, NEW c, Valid(c), DOMAIN c = Settings, c.selected \in 0..ListRows, NEW key
  PROVE  Valid(Selection(c, key))
<1> DEFINE se == IF FromDetails(c) THEN c.followed ELSE c.selected
           max == Window(c.show, c.banner) + (IF Leaves(c) THEN 1 ELSE 0)
           m == Moved(key, c.start, se, c.last_selected, Len(list), max)
           moves == [k \in {x \in DOMAIN m : m[x] # c[x]} |-> m[k]]
           leaves == IF Leaves(c) THEN Unfollow ELSE Nothing
           back == IF FromDetails(c) THEN [returns |-> FALSE] ELSE Nothing
<1>1. c.start \in 0..MaxProcs /\ se \in 0..ListRows /\ c.last_selected \in 0..ListRows
      /\ Len(list) \in 0..MaxProcs
  BY ValidFields, ListIn DEF Ranges
<1>2. max \in 1..(ListRows + 1)
  <2>1. Window(c.show, c.banner) \in 1..ListRows
    BY WindowIn
  <2> QED
    BY <2>1, ProcViewAssumption
<1>3. /\ DOMAIN m = {"start", "selected", "last_selected"}
      /\ m.start \in 0..MaxProcs /\ m.selected \in 0..(ListRows + 1)
      /\ m.last_selected \in 0..ListRows
  <2> HIDE DEF se, max
  <2> QED
    BY <1>1, <1>2, MovedIn
<1>4. Valid(moves)
  <2> HIDE DEF m
  <2> QED
    BY <1>3 DEF Valid, Settings, Switches, PidsSet, RowsSet
<1>5. Valid(leaves)
  BY RangesOfUnfollow, NothingValid
<1>6. Valid(back)
  <2>1. Valid([returns |-> FALSE])
    <3>1. [returns |-> FALSE].returns \in BOOLEAN
      BY Zenon
    <3> QED
      BY <3>1 DEF Valid, Settings, Switches, PidsSet, RowsSet
  <2> QED
    BY <2>1, NothingValid
<1>7. Valid(Put(Put(leaves, back), moves))
  <2> HIDE DEF leaves, back, moves
  <2> QED
    BY <1>4, <1>5, <1>6, PutValid
<1> QED
  BY <1>7 DEF Selection

\* Settings that a key sets together.
LEMMA ValidOpen ==
  ASSUME NEW pid \in Pids \cup {None}, NEW row \in 0..ListRows
  PROVE  /\ Valid([detailed_pid |-> pid, last_selected |-> row, selected |-> 0, show |-> TRUE])
         /\ Valid([follow |-> TRUE, followed_pid |-> pid])
         /\ Valid([follow |-> TRUE, followed_pid |-> pid, update |-> TRUE])
         /\ Valid([selected |-> row]) /\ Valid([restore |-> pid])
         /\ Valid([last_selected |-> 0, detailed_pid |-> None, show |-> FALSE])
         /\ Valid([update |-> TRUE])
<1> DEFINE open == [detailed_pid |-> pid, last_selected |-> row, selected |-> 0, show |-> TRUE]
           aims == [follow |-> TRUE, followed_pid |-> pid]
           goes == [follow |-> TRUE, followed_pid |-> pid, update |-> TRUE]
           closed == [last_selected |-> 0, detailed_pid |-> None, show |-> FALSE]
           again == [update |-> TRUE]
<1>1. ListRows \in Nat
  BY ProcViewAssumption
<1>2. Valid([selected |-> row]) /\ Valid([restore |-> pid])
  BY <1>1 DEF Valid, Settings, Switches, PidsSet, RowsSet
<1>3. open.show \in BOOLEAN /\ aims.follow \in BOOLEAN /\ goes.follow \in BOOLEAN
      /\ goes.update \in BOOLEAN /\ closed.show \in BOOLEAN /\ again.update \in BOOLEAN
  BY Zenon
<1>4. /\ DOMAIN open = {"detailed_pid", "last_selected", "selected", "show"}
      /\ open.detailed_pid = pid /\ open.last_selected = row /\ open.selected = 0
  OBVIOUS
<1>5. /\ DOMAIN aims = {"follow", "followed_pid"} /\ aims.followed_pid = pid
      /\ DOMAIN goes = {"follow", "followed_pid", "update"} /\ goes.followed_pid = pid
      /\ DOMAIN again = {"update"}
  OBVIOUS
<1>6. DOMAIN closed = {"last_selected", "detailed_pid", "show"}
      /\ closed.last_selected = 0 /\ closed.detailed_pid = None
  OBVIOUS
<1> HIDE DEF open, aims, goes, closed, again
<1>7. Valid(open) /\ Valid(closed)
  BY <1>1, <1>3, <1>4, <1>6 DEF Valid, Settings, Switches, PidsSet, RowsSet
<1>8. Valid(aims) /\ Valid(goes) /\ Valid(again)
  BY <1>3, <1>5 DEF Valid, Settings, Switches, PidsSet, RowsSet
<1> QED
  BY <1>2, <1>7, <1>8 DEF open, aims, goes, closed, again

LEMMA MoveRanges == ASSUME Settled, Ranges, NEW key, Move(key) PROVE Ranges'
<1> DEFINE changes == Selection(Read, key)
<1>1. at = "free"
  BY DEF Move, Handled, Reads
<1>2. Valid(changes)
  BY <1>1, RangesOfRead, SelectionValid
<1>3. CASE Handled(changes, "cached")
  BY <1>2, <1>3, HandledRanges DEF Work
<1>4. CASE /\ DOMAIN changes \cap {"start", "selected", "returns"} = {}
           /\ Reads /\ Set(changes)
           /\ UNCHANGED <<proc, list, gone, job, at, kind, screen, dialog>>
  <2> HIDE DEF changes
  <2>1. /\ Valid(conf') /\ Valid(tmp') /\ (job # "idle" => locked') /\ (~locked' => tmp' = Nothing)
        /\ (job # "idle" => conf' = conf)
    BY <1>2, <1>4, SetValid
  <2>2. conf'.selected \in 0..ListRows
    <3>1. CASE job # "idle"
      BY <1>1, <2>1, <3>1 DEF Ranges
    <3>2. CASE job = "idle"
      <4>1. DOMAIN Unlocked = Settings /\ Unlocked.selected = proc.selected
        BY <1>1, UnlockedIs
      <4>2. conf' = Override(Unlocked, changes)
        BY <1>4, <3>2 DEF Set
      <4>3. conf'.selected = Unlocked.selected
        BY <1>4, <4>1, <4>2 DEF Override, Settings
      <4> QED
        BY <4>1, <4>3 DEF Ranges, ValidStatics
    <3> QED
      BY <3>1, <3>2
  <2>3. events' \in 0..MaxEvents
    BY <1>4, ProcViewAssumption DEF Reads, Ranges
  <2> QED
    BY <1>4, <2>1, <2>2, <2>3 DEF Ranges, ValidStatics
<1> QED
  BY <1>3, <1>4 DEF Move

LEMMA FollowRanges == ASSUME Settled, Ranges, KeyFollow PROVE Ranges'
<1> DEFINE c == Read
           To(pid) == [follow |-> TRUE, followed_pid |-> pid, update |-> TRUE]
           leaves == IF c.returns THEN [selected |-> c.followed]
                     ELSE IF c.show /\ c.followed_pid = c.detailed_pid
                       THEN [restore |-> c.detailed_pid] ELSE Nothing
           selects == c.selected # 0 /\ c.followed_pid # c.selected_pid
           details == c.show /\ c.selected = 0 /\ c.followed_pid # c.detailed_pid
           some == CASE selects -> To(c.selected_pid)
                     [] ~selects /\ details -> To(c.detailed_pid)
                     [] ~selects /\ ~details /\ c.follow -> Put(leaves, Unfollow)
                     [] OTHER -> Nothing
<1>1. c.selected_pid \in Pids \cup {None} /\ c.detailed_pid \in Pids \cup {None}
      /\ c.followed \in 0..ListRows
  BY RangesOfRead, ValidFields
<1>2. Valid(To(c.selected_pid)) /\ Valid(To(c.detailed_pid))
  <2>1. 0 \in 0..ListRows
    BY ProcViewAssumption
  <2> QED
    BY <1>1, <2>1, ValidOpen
<1>3. Valid(leaves)
  BY <1>1, ValidOpen, NothingValid
<1>4. Valid(Put(leaves, Unfollow))
  <2> HIDE DEF leaves
  <2> QED
    BY <1>3, RangesOfUnfollow, PutValid
<1>5. Valid(some)
  <2> HIDE DEF leaves, To, selects, details
  <2> QED
    BY <1>2, <1>4, NothingValid
<1>6. Handled(some, "cached")
  BY DEF KeyFollow
<1> QED
  <2> HIDE DEF some
  <2> QED
    BY <1>5, <1>6, HandledRanges DEF Work

LEMMA EnterRanges == ASSUME Settled, Ranges, KeyEnter PROVE Ranges'
<1> DEFINE c == Read
           opens == c.selected > 0 /\ c.detailed_pid # c.selected_pid
           first == [detailed_pid |-> c.selected_pid, last_selected |-> c.selected,
                     selected |-> 0, show |-> TRUE]
           also == IF c.proc_follow_detailed
                     THEN [follow |-> TRUE, followed_pid |-> c.selected_pid] ELSE Nothing
           gives == IF c.follow /\ c.followed_pid = c.detailed_pid THEN Unfollow ELSE Nothing
           back == [restore |-> c.detailed_pid]
           to == IF c.proc_follow_detailed THEN Put(back, gives)
                 ELSE IF c.last_selected > 0 THEN [selected |-> c.last_selected] ELSE Nothing
           closed == [last_selected |-> 0, detailed_pid |-> None, show |-> FALSE]
           some == IF opens THEN Put(first, also) ELSE IF c.show THEN Put(to, closed) ELSE Nothing
<1>1. at = "free"
  BY DEF KeyEnter, Handled, Reads
<1>2. c.selected_pid \in Pids \cup {None} /\ c.detailed_pid \in Pids \cup {None}
      /\ c.selected \in 0..ListRows /\ c.last_selected \in 0..ListRows
  BY <1>1, RangesOfRead, ValidFields
<1>3. Valid(first) /\ Valid(also) /\ Valid(closed) /\ Valid(back)
      /\ Valid([selected |-> c.last_selected])
  BY <1>2, ValidOpen, NothingValid
<1>4. Valid(gives)
  BY RangesOfUnfollow, NothingValid
<1>5. Valid(to)
  <2> HIDE DEF gives, back
  <2> QED
    BY <1>3, <1>4, PutValid, NothingValid
<1>6. Valid(some)
  <2> HIDE DEF first, also, to, closed, opens
  <2> QED
    BY <1>3, <1>5, PutValid, NothingValid
<1>7. Valid([update |-> TRUE])
  BY <1>2, ValidOpen
<1>8. Handled(Put(some, [update |-> TRUE]), "cached")
  BY DEF KeyEnter
<1> QED
  <2> HIDE DEF some
  <2>1. Valid(Put(some, [update |-> TRUE]))
    BY <1>6, <1>7, PutValid
  <2> QED
    BY <1>8, <2>1, HandledRanges DEF Work

LEMMA AskRanges == ASSUME Settled, Ranges, KeyDialog PROVE Ranges'
<1>1. at = "free" /\ at' = "show" /\ Set(Nothing) /\ events' = events + 1 /\ events < MaxEvents
  BY DEF KeyDialog, Reads
<1>2. /\ Valid(conf') /\ Valid(tmp') /\ (job # "idle" => locked') /\ (~locked' => tmp' = Nothing)
      /\ (job # "idle" => conf' = conf)
  BY <1>1, NothingValid, SetValid
<1>3. conf'.selected \in 0..ListRows
  <2>1. CASE job # "idle"
    BY <1>1, <1>2, <2>1 DEF Ranges
  <2>2. CASE job = "idle"
    <3>1. DOMAIN Unlocked = Settings /\ Unlocked.selected = proc.selected
      BY <1>1, UnlockedIs
    <3>2. conf' = Override(Unlocked, Nothing)
      BY <1>1, <2>2 DEF Set
    <3>3. conf'.selected = Unlocked.selected
      BY <3>1, <3>2 DEF Override, Nothing, Settings
    <3> QED
      BY <3>1, <3>3 DEF Ranges, ValidStatics
  <2> QED
    BY <2>1, <2>2
<1>4. events' \in 0..MaxEvents
  BY <1>1, ProcViewAssumption DEF Ranges
<1>5. dialog'.pid \in Pids \cup {None} /\ dialog'.asked \in Pids \cup {None}
  BY DEF KeyDialog, Ranges, Aimed
<1> QED
  BY <1>1, <1>2, <1>3, <1>4, <1>5 DEF KeyDialog, Ranges, ValidStatics
-----------------------------------------------------------------------------
(* The type invariant.                                                     *)

\* A collection gives a list of /proc or keeps the one it has; those that are gone are
\* not in it.
LEMMA CollectedIn ==
  ASSUME Ranges, NEW l \in Lists \cup {list}, Collected(l)
  PROVE  list' = l /\ l \in Lists \cup {<<>>} /\ gone' \subseteq Pids \ ToSet(l)
<1>1. list' = l /\ l \in Lists \cup {<<>>} /\ gone' = gone \cup (ToSet(list) \ ToSet(l))
  BY DEF Collected, Ranges
<1>2. ToSet(list) \subseteq Pids
  <2>1. CASE list \in Lists
    BY <2>1 DEF Pids
  <2>2. CASE list = <<>>
    BY <2>2 DEF ToSet
  <2> QED
    BY <2>1, <2>2 DEF Ranges
<1>3. gone \cap ToSet(l) = {}
  BY DEF Collected, Ranges
<1> QED
  BY <1>1, <1>2, <1>3 DEF Ranges

LEMMA LastPidIn == ASSUME Settled, Ranges, NEW l PROVE LastPid(l) \in Pids \cup {None}
<1>1. conf.detailed_pid \in Pids \cup {None}
  BY ValidFields DEF Settled, Ranges
<1> QED
  BY <1>1 DEF LastPid, Ranges, ValidStatics

LEMMA DrawRanges == ASSUME Cursor, Settled, Ranges, Draw PROVE Ranges'
<1>1. PICK l \in Lists \cup {list} :
         LET p == [proc EXCEPT !.last_pid = LastPid(l)] IN
         /\ Collected(l)
         /\ proc' = Drawn(conf, l, p)
         /\ tmp' = Put(tmp, DrawingSets(conf, l, p))
  BY DEF Draw
<1> DEFINE p == [proc EXCEPT !.last_pid = LastPid(l)]
<1>2. list' = l /\ l \in Lists \cup {<<>>} /\ gone' \subseteq Pids \ ToSet(l)
  BY <1>1, CollectedIn
<1>3. p.last_pid \in Pids \cup {None}
  BY LastPidIn DEF Cursor, StaticsOK
<1> HIDE DEF p
<1>4. ValidStatics(proc')
  BY <1>1, <1>2, <1>3, DrawnValid DEF p, Cursor, Settled, Ranges
<1>5. Valid(tmp')
  BY <1>1, <1>2, DrawingValid, PutValid DEF p, Settled, Ranges
<1>6. job # "idle" /\ locked /\ job' = "drawn"
      /\ UNCHANGED <<conf, locked, at, kind, screen, dialog, events>>
  BY DEF Draw, Ranges, Work
<1> QED
  BY <1>2, <1>4, <1>5, <1>6 DEF Ranges

LEMMA StoppedRanges == ASSUME Cursor, Settled, Ranges, Stopped PROVE Ranges'
<1>1. PICK l \in Lists \cup {list} :
         Collected(l) /\ proc' = [proc EXCEPT !.last_pid = LastPid(l)]
  BY DEF Stopped
<1>2. list' = l /\ l \in Lists \cup {<<>>} /\ gone' \subseteq Pids \ ToSet(l)
  BY <1>1, CollectedIn
<1>3. ValidStatics(proc')
  <2>1. /\ proc'.last_pid = LastPid(l) /\ proc'.start = proc.start /\ proc'.banner = proc.banner
        /\ proc'.selected = proc.selected /\ proc'.selected_pid = proc.selected_pid
    BY <1>1 DEF Cursor, StaticsOK
  <2> QED
    BY <2>1, LastPidIn DEF ValidStatics, Ranges
<1>4. screen'.list = screen.list /\ screen'.pid = screen.pid /\ screen'.detail = screen.detail
  BY DEF Stopped
<1>5. events' \in 0..MaxEvents
  <2>1. events < MaxEvents /\ events' = events + 1
    BY DEF Stopped
  <2>2. events \in 0..MaxEvents /\ MaxEvents \in Nat
    BY ProcViewAssumption DEF Ranges
  <2> QED
    BY <2>1, <2>2
<1>6. job' = "idle" /\ at \notin {"run", "cpu"} /\ UNCHANGED <<conf, tmp, locked, at, kind, dialog>>
  BY DEF Stopped
<1> QED
  BY <1>2, <1>3, <1>4, <1>5, <1>6 DEF Ranges

LEMMA ShownRanges == ASSUME Settled, Ranges, Shown PROVE Ranges'
<1>1. conf.detailed_pid \in Pids \cup {None}
  BY ValidFields DEF Settled, Ranges
<1>2. /\ screen'.list = list /\ screen'.pid = proc.selected_pid
      /\ screen'.detail \in {conf.detailed_pid, None} /\ job' = "idle"
      /\ UNCHANGED <<conf, tmp, locked, proc, list, gone, at, kind, dialog, events>>
  BY DEF Shown
<1> QED
  BY <1>1, <1>2 DEF Ranges, ValidStatics

LEMMA JobRanges ==
  ASSUME Settled, Ranges, Tick \/ Redraw \/ Run \/ RunCpu \/ ShowDialog \/ CloseDialog
  PROVE  Ranges'
<1>1. CASE Tick
  <2>1. events' \in 0..MaxEvents
    BY <1>1, ProcViewAssumption DEF Tick, Ranges
  <2> QED
    BY <1>1, <2>1, BeginRanges DEF Tick, Ranges, Work
<1>2. CASE Redraw
  BY <1>2, BeginRanges DEF Redraw, Ranges, Work
<1>3. CASE Run
  <2>1. kind \in Work /\ Begin(kind) /\ UNCHANGED <<proc, list, gone, kind, screen>>
    BY <1>3 DEF Run, Ranges
  <2>2. Valid(conf') /\ Valid(tmp') /\ locked' /\ ValidStatics(proc')
        /\ job' \in Work \cup {"idle", "drawn"}
    BY <2>1, BeginRanges
  <2> QED
    BY <1>3, <2>2 DEF Run, Ranges
<1>4. CASE RunCpu
  BY <1>4, BeginRanges DEF RunCpu, Ranges, Work
<1>5. CASE ShowDialog
  <2>1. conf.selected_pid \in Pids \cup {None} /\ conf.detailed_pid \in Pids \cup {None}
    BY ValidFields DEF Settled, Ranges
  <2>2. dialog'.pid \in Pids \cup {None} /\ dialog'.asked \in Pids \cup {None}
    BY <1>5, <2>1 DEF ShowDialog, Aim, Ranges
  <2>3. Begin("cached") /\ at = "show" /\ at' = "dialog"
        /\ UNCHANGED <<proc, list, gone, kind, screen, events>>
    BY <1>5 DEF ShowDialog
  <2> QED
    BY <2>2, <2>3, BeginRanges DEF Ranges, Work
<1>6. CASE CloseDialog
  BY <1>6, BeginRanges DEF CloseDialog, Ranges, Work
<1> QED
  BY <1>1, <1>2, <1>3, <1>4, <1>5, <1>6

LEMMA RefuseRanges == ASSUME Ranges, Refuse PROVE Ranges'
  BY DEF Refuse, Ranges, ValidStatics

LEMMA RangesInit == Init => Ranges
<1> SUFFICES ASSUME Init PROVE Ranges
  OBVIOUS
<1>1. ListRows \in Nat /\ MaxProcs \in Nat /\ MaxEvents \in Nat
  <2>1. ListRows \in Nat /\ MaxEvents \in Nat /\ MaxProcs \in Nat
    BY ProcViewAssumption
  <2> QED
    BY <2>1
<1>2. Valid(conf) /\ conf.selected = 0
  <2>1. PICK fd \in BOOLEAN :
          conf = [start |-> 0, selected |-> 0, selected_pid |-> None, last_selected |-> 0,
                 show |-> FALSE, detailed_pid |-> None, follow |-> FALSE,
                 followed_pid |-> None, followed |-> 0, returns |-> FALSE,
                 restore |-> None, update |-> FALSE, banner |-> FALSE, paused |-> FALSE,
                 proc_follow_detailed |-> fd]
    BY DEF Init
  <2>2. /\ DOMAIN conf = Settings /\ conf.start = 0 /\ conf.selected = 0
        /\ conf.last_selected = 0 /\ conf.followed = 0
        /\ \A k \in PidsSet : conf[k] = None
    BY <2>1 DEF Settings, PidsSet
  <2>3. \A k \in Switches : conf[k] \in BOOLEAN
    <3>1. /\ conf.show = FALSE /\ conf.follow = FALSE /\ conf.returns = FALSE
          /\ conf.update = FALSE /\ conf.banner = FALSE /\ conf.paused = FALSE
          /\ conf.proc_follow_detailed = fd
      BY <2>1
    <3> QED
      BY <3>1, Zenon DEF Switches
  <2> QED
    BY <1>1, <2>2, <2>3 DEF Valid, RowsSet
<1>3. Valid(tmp) /\ tmp = Nothing /\ locked = FALSE
  BY NothingValid DEF Init
<1>4. ValidStatics(proc)
  <2>1. proc.banner = FALSE /\ proc.start = 0 /\ proc.selected = 0 /\ proc.selected_pid = None
        /\ proc.last_pid = None
    BY DEF Init
  <2>2. proc.banner \in BOOLEAN
    BY <2>1, Zenon
  <2> QED
    BY <1>1, <2>1, <2>2 DEF ValidStatics
<1> QED
  BY <1>1, <1>2, <1>3, <1>4 DEF Init, Ranges, Work, ToSet

LEMMA RangesStep == Cursor /\ Settled /\ Ranges /\ [Next]_vars => Ranges'
<1> SUFFICES ASSUME Cursor, Settled, Ranges, [Next]_vars PROVE Ranges'
  OBVIOUS
<1>1. CASE Draw \/ Stopped \/ Shown
  BY <1>1, DrawRanges, StoppedRanges, ShownRanges
<1>2. CASE Tick \/ Redraw \/ Run \/ RunCpu \/ ShowDialog \/ CloseDialog
  BY <1>2, JobRanges
<1>3. CASE Refuse
  BY <1>3, RefuseRanges
<1>4. CASE Key
  <2>1. CASE \E k \in {"up", "down", "page_up", "page_down", "home", "end"} : Move(k)
    BY <2>1, MoveRanges
  <2>2. CASE KeyPause
    <3> DEFINE changes == [paused |-> Flipped("paused")]
    <3>1. changes.paused \in BOOLEAN
      BY RangesOfFlipped
    <3>2. Valid(changes)
      BY <3>1 DEF Valid, Settings, Switches, PidsSet, RowsSet
    <3> QED
      BY <2>2, <3>2, HandledRanges DEF KeyPause, Work
  <2>3. CASE KeySort
    <3>1. None \in Pids \cup {None} /\ 0 \in 0..ListRows
      BY ProcViewAssumption
    <3>2. Valid([update |-> TRUE])
      BY <3>1, ValidOpen
    <3> QED
      BY <2>3, <3>2, HandledRanges DEF KeySort, Work
  <2>4. CASE KeyFollow \/ KeyEnter \/ KeyDialog
    BY <2>4, FollowRanges, EnterRanges, AskRanges
  <2> QED
    BY <1>4, <2>1, <2>2, <2>3, <2>4 DEF Key
<1>5. CASE UNCHANGED vars
  BY <1>5 DEF vars, Ranges, ValidStatics
<1> QED
  BY <1>1, <1>2, <1>3, <1>4, <1>5 DEF Next

LEMMA RangesAlways == Spec => []Ranges
  BY RangesInit, RangesStep, CursorAlways, SettledAlways, PTL DEF Spec

\* Every setting and static of the cursor is one that a list, the box or a switch can
\* give, also while keys and drawings set some of them beside the others: the view begins
\* in the longest list, a key selects at most the row below the box and a drawing one of
\* its rows, and who has ended is not in the list.
THEOREM TypesOfCursor == Spec => []TypeOK
<1>1. ASSUME Settled, Ranges PROVE TypeOK
  <2>1. Valid(conf) /\ DOMAIN conf = Settings /\ DOMAIN tmp \subseteq DOMAIN conf
    BY <1>1 DEF Settled, Ranges
  <2>2. /\ conf.start \in 0..MaxProcs /\ conf.selected \in 0..(ListRows + 1)
        /\ {conf.selected_pid, conf.detailed_pid, conf.followed_pid, conf.restore}
              \subseteq Pids \cup {None}
        /\ conf.last_selected \in 0..ListRows /\ conf.followed \in 0..ListRows
    BY <2>1, ValidFields
  <2>3. {conf.show, conf.follow, conf.returns, conf.update, conf.banner, conf.paused}
          \subseteq BOOLEAN
    BY <2>1, ValidFields, Zenon
  <2> QED
    BY <1>1, <2>1, <2>2, <2>3, Zenon DEF TypeOK, Ranges, ValidStatics
<1> QED
  BY <1>1, SettledAlways, RangesAlways, PTL
=============================================================================
