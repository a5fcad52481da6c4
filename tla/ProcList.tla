------------------------------- MODULE ProcList -------------------------------
(***************************************************************************)
(* The list of processes: Proc::collect() for Linux and the functions it   *)
(* shares with the other systems (src/btop_shared.cpp). The list outlives  *)
(* a collection. A collection reads /proc (a full one) or works on what it *)
(* has (a cached one, no_update); it filters, sorts and, in tree mode,     *)
(* arranges the processes under their parents, hides what is collapsed and *)
(* counts the rows.                                                        *)
(*                                                                         *)
(* To the list a collection is one step: settings do not change while it   *)
(* runs (Runner!ImplementsDrawSlot). Between collections processes start   *)
(* and end; the kernel gives no pid a second time. A key and the           *)
(* collection it asks for are one step.                                    *)
(***************************************************************************)
EXTENDS Integers, FiniteSets, SequencesExt

CONSTANTS
    Pids,            \* processes, named by their pids; the first one is init
    Own,             \* what a process uses by itself
    Started,         \* the processes that run when the monitor starts
    Matching,        \* the processes the filter matches
    AutoCollapse,    \* setting proc_tree_auto_collapse
    MaxEvents        \* bound: keys, starts, ends and interruptions

\* Pids are given in the order in which processes start.
ASSUME ProcListAssumption ==
    /\ Pids \subseteq Nat \ {0} /\ IsFiniteSet(Pids)
    /\ 1 \in Started /\ Started \subseteq Pids
    /\ \A p \in Started, q \in Pids \ Started : p < q
    /\ Own \in [Pids -> Nat] /\ Matching \subseteq Pids
    /\ AutoCollapse \in Nat /\ MaxEvents \in Nat

VARIABLES
    alive, born, parent,   \* the system: running, ever started, parent of each
    set,                   \* the settings of the process box
    list,                  \* the statics of Proc: current_procs and the rest
    last,                  \* the collection that came last
    events

vars == <<alive, born, parent, set, list, last, events>>
world == <<alive, born, parent>>

None == 0                            \* no pid; for the code's -1 as well

Blank == [ppid |-> None, use |-> 0, filt |-> FALSE, coll |-> FALSE, idx |-> 0, dead |-> FALSE]
NoOp  == [collapse |-> None, expand |-> None, children |-> None, all |-> FALSE]
Orders == [tree : BOOLEAN, rev : BOOLEAN, by : {"pid", "use"}, filter : BOOLEAN]

TypeOK ==
    /\ alive \subseteq born /\ born \subseteq Pids /\ parent \in [Pids -> Pids \cup {None}]
    /\ set \in [order : Orders, paused : BOOLEAN, aggregate : BOOLEAN]
    /\ list.order \in Seq(Pids) /\ IsInjective(list.order)
    /\ \A p \in Pids : LET e == list.ent[p] IN
         /\ e.ppid \in Pids \cup {None} /\ e.use \in Nat /\ e.idx \in 0..Cardinality(Pids)
         /\ p \notin ToSet(list.order) => e = Blank
    /\ list.dead \subseteq ToSet(list.order) /\ list.found \subseteq Pids
    /\ list.known \in Orders /\ list.hidden \in 0..Len(list.order)
    /\ list.rows \in 0..Len(list.order)
    /\ last \in {"none", "full", "cached", "cut"} /\ events \in 0..MaxEvents

\* They may be any family.
Init ==
    /\ alive = Started /\ born = Started
    /\ parent \in {f \in [Pids -> Pids \cup {None}] :
                     \A p \in Pids : IF p = 1 \/ p \notin Started THEN f[p] = None
                                     ELSE f[p] \in Started /\ f[p] < p}
    /\ set \in [order : {[tree |-> FALSE, rev |-> FALSE, by |-> "pid", filter |-> FALSE]},
                paused : {FALSE}, aggregate : BOOLEAN]
    /\ list = [order |-> <<>>, ent |-> [p \in Pids |-> Blank], dead |-> {}, found |-> {},
               known |-> set.order, op |-> NoOp, hidden |-> 0, rows |-> 0]
    /\ last = "none" /\ events = 0
-----------------------------------------------------------------------------
(* Helpers.                                                                *)

\* The elements of S in the order R, a strict total one: as many come before the n-th
\* as its place says.
Ordered(S, R) ==
    [n \in 1..Cardinality(S) |->
       CHOOSE x \in S : Cardinality({y \in S : <<y, x>> \in R}) = n - 1]
\* Which comes before which in seq.
Leads(seq) == UNION {{<<seq[i], seq[j]>> : i \in 1..(j - 1)} : j \in DOMAIN seq}
\* Those of seq that are in T, in the order they have.
Only(seq, T) == Ordered(ToSet(seq) \cap T, Leads(seq))

\* std::stable_sort of processes, ascending in key.
Earlier(seq, key) ==
    {pq \in ToSet(seq) \X ToSet(seq) : \/ key[pq[1]] < key[pq[2]]
                                       \/ key[pq[1]] = key[pq[2]] /\ pq \in Leads(seq)}
StableSort(seq, key) == Ordered(ToSet(seq), Earlier(seq, key))
Ascending(S) == Ordered(S, {pq \in S \X S : pq[1] < pq[2]})

\* The sort that the settings ask for; a process list begins with the greatest.
SortKey(ent, o) ==
    [p \in Pids |-> LET value == IF o.by = "pid" THEN p ELSE ent[p].use
                    IN IF o.rev THEN value ELSE -value]

Sum(f, S) == FoldSet(LAMBDA p, n : n + f[p], 0, S)

Listed(l) == ToSet(l.order)
Kids(l, p) == {q \in Listed(l) : l.ent[q].ppid = p}
Matches(p, o) == o.filter => p \in Matching
With(l, S, E(_)) == [l EXCEPT !.ent = [p \in Pids |-> IF p \in S THEN E(l.ent[p]) ELSE l.ent[p]]]

\* What Proc::draw() draws: one row for each process that is not hidden.
Rows(l, tree) ==
    Only(l.order, {p \in Pids : ~l.ent[p].filt /\ ~(tree /\ l.ent[p].idx = Len(l.order))})
-----------------------------------------------------------------------------
(* A collection, in the order of the code.                                 *)

\* Faulty: the usage is read only while none is known.
ReadsUsageOnce(l, S, paused) ==
    LET new == IF paused THEN {} ELSE S \ Listed(l)
        l1  == [l EXCEPT !.found = S, !.order = @ \o Ascending(new)]
    IN [l1 EXCEPT !.ent = [p \in Pids |->
          IF p \in (S \cap Listed(l1)) \ l.dead
            THEN [l.ent[p] EXCEPT !.use = IF @ = 0 THEN Own[p] ELSE @,
                                  !.ppid = IF @ = None THEN parent[p] ELSE @]
            ELSE l.ent[p]]]
\* Reading the processes S of /proc: new ones are appended unless the list is
\* paused; the parent is read while none is known, the usage always.
Scanned(l, S, paused) ==
    LET new == IF paused THEN {} ELSE S \ Listed(l)
        l1  == [l EXCEPT !.found = S, !.order = @ \o Ascending(new)]
    IN [l1 EXCEPT !.ent = [p \in Pids |->
          IF p \in (S \cap Listed(l1)) \ l.dead
            THEN [l.ent[p] EXCEPT !.use = Own[p],
                                  !.ppid = IF @ = None THEN parent[p] ELSE @]
            ELSE l.ent[p]]]

\* Faulty: the list is cleared of what is gone while it is paused.
ErasesAlways(l, paused) ==
    LET gone == Listed(l) \ l.found IN
    [With(l, gone, LAMBDA e : Blank)
       EXCEPT !.order = Only(@, l.found), !.dead = {}]
\* Faulty: the dead of a pause are not forgotten when they are erased.
KeepsDead(l, paused) ==
    LET gone == Listed(l) \ l.found IN
    IF paused
      THEN [With(l, gone, LAMBDA e : [e EXCEPT !.use = 0, !.dead = TRUE])
              EXCEPT !.dead = @ \cup gone]
      ELSE [With(l, gone, LAMBDA e : Blank)
              EXCEPT !.order = Only(@, l.found)]
\* What is gone is erased or, while the list is paused, marked dead.
Swept(l, paused) ==
    LET gone == Listed(l) \ l.found IN
    IF paused
      THEN [With(l, gone, LAMBDA e : [e EXCEPT !.use = 0, !.dead = TRUE])
              EXCEPT !.dead = @ \cup gone]
      ELSE [With(l, gone, LAMBDA e : Blank)
              EXCEPT !.order = Only(@, l.found), !.dead = {}]

\* The filter of the flat list.
Filtered(l, m) ==
    LET out == {p \in Listed(l) : ~m.o.tree /\ ~Matches(p, m.o)} IN
    IF ~m.should THEN l
    ELSE [l EXCEPT !.ent = [p \in Pids |-> [l.ent[p] EXCEPT !.filt = p \in out]],
                   !.hidden = Cardinality(out)]

\* proc_sorter()
Sorted(l, m) ==
    IF ~m.resort /\ (~m.full \/ m.paused) THEN l
    ELSE [l EXCEPT !.order = StableSort(@, SortKey(l.ent, m.o))]

\* The keys C, - + space and E: what they asked for since the last tree was made.
\* E collapses every parent that has a parent, or expands all if none is expanded.
Toggled(l) ==
    LET op   == l.op
        one  == IF op.collapse # None THEN op.collapse ELSE op.expand
        kids == IF op.children \in Listed(l) THEN Kids(l, op.children) ELSE {}
        l1   == With(l, kids, LAMBDA e : [e EXCEPT !.coll = ~@])
        l2   == With(l1, {one} \cap Listed(l), LAMBDA e :
                  [e EXCEPT !.coll = IF op.collapse = op.expand THEN ~@ ELSE op.collapse # None])
        below == {p \in Listed(l) : l.ent[p].ppid \in Listed(l)}
        all   == \E p \in below : Kids(l, p) # {} /\ ~l2.ent[p].coll
    IN [IF op.all THEN With(l2, below, LAMBDA e : [e EXCEPT !.coll = all]) ELSE l2
          EXCEPT !.op = NoOp]

\* Faulty: a process keeps the parent it had.
KeepsParents(l, paused) ==
    [l EXCEPT !.order = StableSort(@, [p \in Pids |-> l.ent[p].ppid])]
\* A parent that is no longer there is forgotten, unless the list is paused; then
\* siblings are brought together.
Grouped(l, paused) ==
    LET orphans == IF paused THEN {} ELSE {p \in Listed(l) : l.ent[p].ppid \notin l.found}
        l1 == With(l, orphans, LAMBDA e : [e EXCEPT !.ppid = None])
    IN [l1 EXCEPT !.order = StableSort(@, [p \in Pids |-> l1.ent[p].ppid])]

\* Those whose parent is the lowest of all are the roots of the tree.
Roots(l) == Kids(l, l.ent[Head(l.order)].ppid)

\* On entering tree mode big families are collapsed, but not the roots or their
\* children.
AutoCollapsed(l, entering) ==
    LET big == {p \in Listed(l) \ Roots(l) :
                  /\ l.ent[p].ppid \notin Roots(l)
                  /\ Cardinality(Kids(l, p)) >= AutoCollapse}
    IN IF entering /\ AutoCollapse > 0 THEN With(l, big, LAMBDA e : [e EXCEPT !.coll = TRUE])
       ELSE l

\* The processes above p in the list.
Above(l, p) ==
    LET up[q \in Pids] == IF l.ent[q].ppid \notin Listed(l) THEN {}
                          ELSE {l.ent[q].ppid} \cup up[l.ent[q].ppid]
    IN up[p]
\* Those that the recursion from the roots on comes to.
Visited(l) == {p \in Listed(l) : ({p} \cup Above(l, p)) \cap Roots(l) # {}}
\* What each process has by itself, and what those below add, K[p] being those that add to p.
Accumulated(own, K) == LET all[p \in Pids] == own[p] + Sum(all, K[p]) IN all

\* What _tree_gen() hands on to the children of p.
Under(l, p, collapsed) == collapsed \/ l.ent[p].coll
FoundBelow(found, asks, out) == found \/ (asks /\ ~out)

\* The arguments with which _tree_gen() is called for each process.
Asks(found, m) == ~found /\ (m.should \/ m.o.filter)
Out(p, found, m) == Asks(found, m) /\ ~Matches(p, m.o)
Calls(l, m) ==
    LET call[p \in Pids] ==
          LET q == l.ent[p].ppid IN
          IF p \in Roots(l) \/ q \notin Pids THEN [collapsed |-> FALSE, found |-> FALSE]
          ELSE [collapsed |-> Under(l, q, call[q].collapsed),
                found |-> FoundBelow(call[q].found, Asks(call[q].found, m),
                                     Out(q, call[q].found, m))]
    IN call

\* _tree_gen(): below a process that matches the filter nothing is filtered; what is
\* collapsed is added to its parent and hidden, in a full collection only.
Gen(l, m) ==
    LET call    == Calls(l, m)
        visited == Visited(l)
        kids    == [p \in Pids |-> Kids(l, p)]
        out     == {p \in visited : Out(p, call[p].found, m)}
        keeps   == {p \in visited : Asks(call[p].found, m)}
        hides   == {p \in visited \ out : m.full /\ Under(l, p, call[p].collapsed)}
        adds    == IF m.full /\ m.aggregate THEN visited ELSE hides
        hidden  == UNION {kids[p] : p \in hides}
        use     == Accumulated([p \in Pids |-> l.ent[p].use],
                     [p \in Pids |-> IF p \in adds THEN {k \in kids[p] : ~l.ent[k].dead} ELSE {}])
        Filt(p) == \/ p \in out \cup hidden
                   \/ p \in keeps /\ l.ent[p].filt
                   \/ call[p].collapsed /\ kids[p] # {}
    IN [l EXCEPT !.ent = [p \in Pids |-> IF p \in visited
                                          THEN [l.ent[p] EXCEPT !.use = use[p], !.filt = Filt(p)]
                                          ELSE l.ent[p]],
                 !.hidden = @ + Cardinality(out) + Cardinality(hidden)]

\* tree_sort(): siblings are put in order; from the first root on each shown process gets
\* the next number before its children do. The recursive call passes the collapsed flag
\* for index_max (1 or 0 instead of the number of processes), and collapsed keeps its
\* default, false.
Numbered(l, m) ==
    LET key     == IF m.o.by = "pid" \/ (m.paused /\ ~m.resort) THEN [p \in Pids |-> 0]
                   ELSE SortKey(l.ent, m.o)
        one     == [p \in Pids |-> IF l.ent[p].filt THEN 0 ELSE 1]
        rows    == Accumulated(one, [p \in Pids |-> Kids(l, p)])
        Elder(p) == {q \in Kids(l, l.ent[p].ppid) :
                       <<q, p>> \in Earlier(l.order, key)}
        number[p \in Pids] ==
          LET q     == l.ent[p].ppid
              root  == p \in Roots(l) \/ q \notin Pids
              next  == Sum(rows, Elder(p)) + IF root THEN 0 ELSE number[q].next + one[q]
              max   == IF root THEN Len(l.order)
                       ELSE IF l.ent[q].coll \/ number[q].idx = number[q].max THEN 1 ELSE 0
          IN [next |-> next, max |-> max, idx |-> IF l.ent[p].filt THEN max ELSE next]
        visited == Visited(l)
    IN [l EXCEPT !.ent = [p \in Pids |-> IF p \in visited
                                          THEN [l.ent[p] EXCEPT !.idx = number[p].idx]
                                          ELSE l.ent[p]]]

\* With a filter, now or until now, the count of the hidden begins anew; else it stays.
Recounted(l, m) == [l EXCEPT !.hidden = IF m.should \/ m.o.filter THEN 0 ELSE @]
InOrder(l) == [l EXCEPT !.order = StableSort(@, [p \in Pids |-> l.ent[p].idx])]
Tree(l, m) ==
    LET family == Grouped(Recounted(Toggled(l), m), m.paused)
    IN IF m.tree THEN InOrder(Numbered(Gen(AutoCollapsed(family, m.entering), m), m)) ELSE l

\* What is to be done: should (the filter is new or the data are), resort, entering.
Mode(l, s, noUpdate) ==
    LET o        == s.order
        refilter == o.filter # l.known.filter
        resort   == refilter \/ o.by # l.known.by \/ o.rev # l.known.rev
        enters   == o.tree # l.known.tree
        read     == ~noUpdate \/ l.order = <<>>
        should   == refilter \/ read
    IN [o |-> o, full |-> ~noUpdate, read |-> read, should |-> should, paused |-> s.paused,
        aggregate |-> s.aggregate, entering |-> enters, resort |-> resort \/ enters,
        tree |-> o.tree /\ (~noUpdate \/ should \/ resort)]

Read(l, m) == IF m.read THEN Swept(Scanned(l, alive, m.paused), m.paused) ELSE l
Counted(l) == [l EXCEPT !.rows = Len(l.order) - l.hidden]

\* Proc::collect(): full, or with no_update on the processes of the last time.
Arranged(l, m) == Counted(Tree(Sorted(Filtered(Read(l, m), m), m), m))
Collected(l, s, noUpdate) == Arranged([l EXCEPT !.known = s.order], Mode(l, s, noUpdate))

\* Main stops the runner while it reads /proc: it has read some of the processes and
\* goes back with that; what the settings were is taken note of all the same.
CutShort(l, s, S) == Scanned([l EXCEPT !.known = s.order], S, s.paused)
-----------------------------------------------------------------------------
(* What happens.                                                           *)

Happens == events < MaxEvents /\ events' = events + 1

\* fork(): from here on p is a child of q.
Starts ==
    /\ Happens
    /\ \E p \in Pids \ born, q \in alive :
         /\ \A r \in Pids \ born : p <= r
         /\ alive' = alive \cup {p} /\ born' = born \cup {p}
         /\ parent' = [parent EXCEPT ![p] = q]
    /\ UNCHANGED <<set, list, last>>
\* exit(): init takes the children over.
Ends ==
    /\ Happens
    /\ \E p \in alive \ {1} :
         /\ alive' = alive \ {p} /\ UNCHANGED born
         /\ parent' = [q \in Pids |-> IF parent[q] = p THEN 1 ELSE parent[q]]
    /\ UNCHANGED <<set, list, last>>

Collects(l, noUpdate) ==
    /\ list' = Collected(l, set', noUpdate)
    /\ last' = IF noUpdate THEN "cached" ELSE "full"
    /\ UNCHANGED world

Timer == UNCHANGED <<set, events>> /\ Collects(list, FALSE)

\* The whole collection is cut short, and the redraw that main then asks for works on
\* what has been read.
Interrupted ==
    /\ Happens /\ last \in {"full", "cached"}
    /\ \E n \in alive : list' = CutShort(list, set, {p \in alive : p <= n})
    /\ last' = "cut" /\ UNCHANGED <<world, set>>
Redrawn == last = "cut" /\ UNCHANGED <<set, events>> /\ Collects(list, TRUE)

\* The keys of the process box, each with the collection it asks for.
KeyTree == set' = [set EXCEPT !.order.tree = ~@] /\ Collects(list, FALSE)
KeyReverse == set' = [set EXCEPT !.order.rev = ~@] /\ Collects(list, TRUE)
KeySort ==
    /\ set' = [set EXCEPT !.order.by = IF @ = "pid" THEN "use" ELSE "pid"]
    /\ Collects(list, ~set.order.tree)
KeyFilter == set' = [set EXCEPT !.order.filter = ~@] /\ Collects(list, TRUE)
KeyPause == set' = [set EXCEPT !.paused = ~@] /\ Collects(list, TRUE)
KeyAll ==
    /\ set.order.tree /\ UNCHANGED set
    /\ Collects([list EXCEPT !.op.all = TRUE], FALSE)
\* + - space and C act on the selected process, one that is shown.
KeyFold ==
    /\ set.order.tree /\ UNCHANGED set
    /\ \E p \in ToSet(Rows(list, TRUE)) :
         \/ Collects([list EXCEPT !.op.expand = p], FALSE)
         \/ Collects([list EXCEPT !.op.collapse = p], FALSE)
         \/ Collects([list EXCEPT !.op.expand = p, !.op.collapse = p], FALSE)
         \/ Collects([list EXCEPT !.op.children = p], FALSE)
Key ==
    /\ last \in {"full", "cached"} /\ Happens
    /\ KeyTree \/ KeyReverse \/ KeySort \/ KeyFilter \/ KeyPause \/ KeyAll \/ KeyFold

Next == Starts \/ Ends \/ Timer \/ Key \/ Interrupted \/ Redrawn

Spec == Init /\ [][Next]_vars
-----------------------------------------------------------------------------
(* Properties. They are about the list after a full collection.            *)

asked == set.order
Shown == Rows(list, asked.tree)
IsShown(p) == p \in ToSet(Shown)
IsParent(p, q) == list.ent[q].ppid = p /\ {p, q} \subseteq Listed(list)
\* (While the list is paused a process can be left whose parent was erased before: it
\* belongs to no tree and keeps the place it had. See README.)
Rooted == \A p \in Listed(list) : list.ent[p].ppid \in Listed(list) \cup {None}
InTree == last = "full" /\ asked.tree /\ (set.paused => Rooted)
Folded == \E p \in Listed(list) : list.ent[p].coll

\* p with those below it in the list.
Below(p) == {q \in Listed(list) : q = p \/ p \in Above(list, q)}

\* numpids, which bounds scrolling and the selection, is the number of rows that are
\* drawn. (Not with a filter over collapsed processes: see README.)
RowsCounted ==
    last = "full" /\ (asked.tree => InTree /\ ~(asked.filter /\ Folded)) =>
        list.rows = Len(Shown)

\* In the tree a process is hidden exactly when one above it is collapsed.
TreeShown ==
    InTree /\ ~asked.filter =>
        \A p \in Listed(list) : IsShown(p) <=> \A q \in Above(list, p) : ~list.ent[q].coll

\* The rows of the tree are in preorder: a child follows its parent with only their
\* own family between the two.
TreeOrder ==
    InTree =>
        \A i, j \in DOMAIN Shown : IsParent(Shown[i], Shown[j]) =>
            i < j /\ \A k \in i..j : Shown[k] \in Below(Shown[i])

\* With a filter the tree shows the processes that match and everything below them.
FamiliesFound ==
    InTree /\ asked.filter /\ ~Folded =>
        \A p \in Listed(list) : IsShown(p) <=> (Above(list, p) \cup {p}) \cap Matching # {}

\* What is drawn in tree mode: the right rows, in the right order, and as many as are
\* counted, with a filter and without one.
TreeDrawn == RowsCounted /\ TreeShown /\ TreeOrder /\ FamiliesFound

\* A collapsed process stands for all below it: its usage is the sum, not more after
\* many updates and not less after some are gone.
SubtreeUsage ==
    InTree /\ ~asked.filter /\ ~set.paused =>
        \A p \in Listed(list) : set.aggregate \/ list.ent[p].coll =>
            list.ent[p].use = Sum(Own, Below(p))

\* While the list is paused an update changes neither the rows nor their order. (In a
\* tree with a filter a first update may still exchange siblings: see README.)
PausedFrozen ==
    [][last = "full" /\ last' = "full" /\ set.paused /\ set' = set /\ events' = events
         => (asked.tree /\ asked.filter) \/ Rows(list', asked.tree) = Shown]_vars

\* "Recursive sort over tree structure to account for collapsed processes in the tree"
\* (linux/btop_collect.cpp:3426): no key but those that fold shows what is collapsed.
CollapsedStaysHidden ==
    last # "cut" /\ asked.tree /\ ~asked.filter =>
        \A p \in Listed(list) : IsShown(p) => \A q \in Above(list, p) : ~list.ent[q].coll
=============================================================================
