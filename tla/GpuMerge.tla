------------------------------- MODULE GpuMerge -------------------------------
(***************************************************************************)
(* The list of graphics cards: what the collector of Linux makes of the    *)
(* samples of the NVIDIA helper, and the panels that show it.              *)
(*                                                                         *)
(* Cards of NVIDIA are a prefix of the list. It grows, shrinks and changes *)
(* its order with every sample, while the cards of other vendors stay      *)
(* behind it with histories of their own. Panels are laid out by the main  *)
(* thread and drawn by the runner, for the boxes it was started with.      *)
(*                                                                         *)
(* Where the samples come from is GpuBridge; one poll may take more than   *)
(* one of them, the last of which counts. A terminal too small for a box   *)
(* is left out here: Runner has it.                                        *)
(***************************************************************************)
EXTENDS Integers, SequencesExt

CONSTANTS
    Frames,          \* what a sample can say: [devices, rows]
    Others,          \* the cards of other vendors, in their order
    TopBox,          \* number of the last box, gpu5 in the code
    Limit,           \* samples that are kept, twice the width of a panel
    MaxMem,          \* UINT64_MAX
    MaxSamples,      \* bound on samples
    MaxEvents        \* bound on updates, keys and changes of settings

None == 0
Ids == {r.of : r \in UNION {ToSet(f.devices) : f \in Frames}}

Device == [of : Ids, uuid : Ids \cup {None}, pci : Ids \cup {None}, util : BOOLEAN]

\* A UUID or a PCI address belongs to one card. The receiver has checked rows.
ASSUME GpuMergeAssumption ==
    /\ Others \in Seq(Nat \ {0}) /\ ToSet(Others) \cap Ids = {} /\ IsInjective(Others)
    /\ \A f \in Frames :
         /\ f.devices \in Seq(Device)
         /\ \A r \in ToSet(f.devices) : r.uuid \in {r.of, None} /\ r.pci \in {r.of, None}
         /\ \A i, j \in DOMAIN f.devices : f.devices[i].of = f.devices[j].of => i = j
         /\ f.rows \in Seq([dev : 0..(Len(f.devices) - 1), pid : Nat \ {None}, mem : 0..MaxMem])
    /\ {TopBox, Limit, MaxMem, MaxSamples, MaxEvents} \subseteq Nat /\ TopBox > 0 /\ Limit > 0

VARIABLES
    snap,      \* the snapshot of the bridge: has, seq, devices, rows
    enabled,   \* "nvidia" is in shown_gpus
    gpus,      \* Gpu::gpus, cards with their histories
    names,     \* Gpu::gpu_names
    nvidia,    \* nvidia_device_count
    lastSeq,   \* last_nvidia_sequence
    count,     \* Gpu::count, which main reads
    offsets,   \* gpu_b_height_offsets
    processes, \* gpu_processes
    boxes,     \* the gpu boxes of current_boxes and shown_boxes, as numbers
    ml,        \* ml_view
    layout,    \* what calcSizes() left: panels, their heights, a width or none
    resized,   \* Global::resized
    key,       \* a digit key that waits for the runner, or none
    job,       \* the runner: its boxes, cached or not, where it is
    collects,  \* collections so far
    resumed,   \* NVIDIA is on again, and its sample dates from before
    events

vars == <<snap, enabled, gpus, names, nvidia, lastSeq, count, offsets, processes,
          boxes, ml, layout, resized, key, job, collects, resumed, events>>
merged == <<snap, gpus, names, nvidia, lastSeq, count, offsets, processes, collects, resumed>>

NoKey == -1
Unknown == -1
Idle == [at |-> "idle", boxes |-> <<>>, cached |-> FALSE]
Event == events < MaxEvents /\ events' = events + 1

Owners == Ids \cup ToSet(Others)
Card == [of : Owners, uuid : Ids \cup {None}, pci : Ids \cup {None},
         util : BOOLEAN, hist : Seq(Owners \X Nat)]

TypeOK ==
    /\ snap.has \in BOOLEAN /\ snap.seq \in 0..MaxSamples
    /\ snap.has => \E f \in Frames : snap.devices = f.devices /\ snap.rows = f.rows
    /\ {enabled, ml, resized, resumed} \subseteq BOOLEAN
    /\ gpus \in Seq(Card) /\ Len(names) = Len(gpus) /\ nvidia \in 0..Len(gpus)
    /\ lastSeq \in 0..snap.seq /\ Len(offsets) = count
    /\ collects > 0 => count = Len(gpus)
    /\ ToSet(boxes) \subseteq 0..TopBox /\ IsInjective(boxes)
    /\ Len(layout.heights) = Len(layout.panels) /\ key \in 0..TopBox \cup {NoKey}
    /\ job.at \in {"idle", "started", "collected"} /\ (job.at = "idle" => job = Idle)
    /\ collects \in Nat /\ events \in 0..MaxEvents

\* Other vendors have been found at the start, each with a first sample.
Init ==
    /\ snap = [has |-> FALSE, seq |-> 0, devices |-> <<>>, rows |-> <<>>]
    /\ enabled \in BOOLEAN /\ ml \in BOOLEAN
    /\ gpus = [i \in DOMAIN Others |-> [of |-> Others[i], uuid |-> None, pci |-> None,
                                        util |-> TRUE, hist |-> <<<<Others[i], 0>>>>]]
    /\ names = Others /\ nvidia = 0 /\ lastSeq = 0 /\ count = 0 /\ offsets = <<>>
    /\ processes = <<>> /\ boxes = <<>> /\ resized = ml
    /\ layout = [panels |-> <<>>, heights |-> <<>>, wide |-> ml]
    /\ key = NoKey /\ job = Idle /\ collects = 0 /\ resumed = FALSE /\ events = 0
-----------------------------------------------------------------------------
(* The merge.                                                              *)

\* The names under which card c, i-th of the list, can be found again.
Keys(c, i) ==
    IF c.uuid = None /\ c.pci = None THEN {<<"index", i>>}
    ELSE {k \in {<<"uuid", c.uuid>>, <<"pci", c.pci>>} : k[2] # None}

\* The card of the old list that is found under k, or None.
OldAt(k) ==
    LET at == {j \in 1..nvidia : k \in Keys(gpus[j], j)}
    IN IF at = {} THEN None ELSE CHOOSE j \in at : \A other \in at : j <= other

\* Faulty: cards are found again by their place.
SamePlace(r, i) == IF i <= nvidia THEN i ELSE None
\* The old card that record r, i-th of the sample, is about.
Old(r, i) ==
    LET first == IF r.uuid # None THEN <<"uuid", r.uuid>>
                 ELSE IF r.pci # None THEN <<"pci", r.pci>> ELSE <<"index", i>>
    IN IF OldAt(first) = None /\ r.pci # None THEN OldAt(<<"pci", r.pci>>) ELSE OldAt(first)

\* The history of record r, unless an earlier record has taken it.
OldHistory(s, i) ==
    LET j == Old(s.devices[i], i)
    IN IF j = None \/ \E k \in 1..(i - 1) : Old(s.devices[k], k) = j THEN <<>>
       ELSE gpus[j].hist

\* The oldest samples go, but only where a panel has a width.
Trimmed(h) ==
    IF layout.wide /\ Len(h) > Limit THEN SubSeq(h, Len(h) - Limit + 1, Len(h)) ELSE h

NewSample(s) == s.has /\ s.seq # lastSeq

Merged(s, i) ==
    LET r == s.devices[i]
        old == OldHistory(s, i)
    IN [of |-> r.of, uuid |-> r.uuid, pci |-> r.pci, util |-> r.util,
        hist |-> IF NewSample(s) /\ r.util THEN Append(old, <<r.of, s.seq>>) ELSE old]

\* Faulty: the old count of NVIDIA cards is not what is skipped.
CutAtNew(n) == SubSeq(gpus, n + 1, Len(gpus))
\* The cards behind the old prefix, whatever the length n of the new one.
Rest(n) == SubSeq(gpus, nvidia + 1, Len(gpus))

\* What other vendors add: one sample of each card with every collection.
Sampled(cards) == [i \in DOMAIN cards |->
    [cards[i] EXCEPT !.hist = Append(@, <<Others[i], collects + 1>>)]]

\* Names are cut or padded where there are more or fewer than cards.
Names(s, n, total) ==
    LET all == [i \in 1..n |-> s.devices[i].of] \o SubSeq(names, nvidia + 1, Len(names))
    IN [i \in 1..total |-> IF i <= Len(all) THEN all[i] ELSE Unknown]

\* Faulty: a row without a value leaves the sum of the others.
PartialSums(ps, row) ==
    LET at == {i \in DOMAIN ps : ps[i].pid = row.pid}
        p  == IF at = {} THEN [pid |-> row.pid, devs |-> <<>>, mem |-> None, whole |-> TRUE]
              ELSE ps[CHOOSE i \in at : TRUE]
        q  == [p EXCEPT !.devs = IF Contains(@, row.dev) THEN @ ELSE Append(@, row.dev),
                        !.mem = IF @ > MaxMem - row.mem THEN MaxMem ELSE @ + row.mem]
    IN IF at = {} THEN Append(ps, q) ELSE [ps EXCEPT ![CHOOSE i \in at : TRUE] = q]
\* One row of the sample is added to the processes. Memory None is a missing value.
AddRow(ps, row) ==
    LET at == {i \in DOMAIN ps : ps[i].pid = row.pid}
        p  == IF at = {} THEN [pid |-> row.pid, devs |-> <<>>, mem |-> None, whole |-> TRUE]
              ELSE ps[CHOOSE i \in at : TRUE]
        q  == [p EXCEPT !.devs = IF Contains(@, row.dev) THEN @ ELSE Append(@, row.dev),
                        !.mem = IF @ > MaxMem - row.mem THEN MaxMem ELSE @ + row.mem,
                        !.whole = @ /\ row.mem # None]
    IN IF at = {} THEN Append(ps, q) ELSE [ps EXCEPT ![CHOOSE i \in at : TRUE] = q]

\* The rows of a sample are added one after the other, but none of a card that is not there.
Added(rows, cards) ==
    LET sums[n \in 0..Len(rows)] ==
            IF n = 0 THEN <<>>
            ELSE IF rows[n].dev < cards THEN AddRow(sums[n - 1], rows[n])
            ELSE sums[n - 1]
    IN sums[Len(rows)]

Processes(s) ==
    LET sums == Added(IF enabled THEN s.rows ELSE <<>>, Len(s.devices))
    IN [i \in DOMAIN sums |-> [pid |-> sums[i].pid, devs |-> sums[i].devs,
                               mem |-> IF sums[i].whole THEN sums[i].mem ELSE None]]
-----------------------------------------------------------------------------
(* The runner.                                                             *)

\* Bridge::poll(): nothing, one sample or several.
Polled ==
    {snap} \cup (IF enabled
      THEN {[has |-> TRUE, seq |-> n, devices |-> f.devices, rows |-> f.rows] :
              n \in (snap.seq + 1) .. (IF snap.seq + 2 <= MaxSamples THEN snap.seq + 2
                                       ELSE MaxSamples), f \in Frames}
      ELSE {})

Height(c) == IF c.util THEN 1 ELSE 0

\* Faulty: only another number of cards asks for a layout.
CountOnly(total, heights) == total # count
\* The layout has to be made again.
Relayout(total, heights) == total # count \/ heights # offsets

\* Gpu::collect(), unless a stop or a cached run leaves the list as it is.
Collect ==
    /\ job.at = "started" /\ (job.cached => gpus = <<>>)
    /\ \E s \in Polled :
         LET n     == IF s.has /\ enabled THEN Len(s.devices) ELSE 0
             next  == [i \in 1..n |-> Merged(s, i)] \o Sampled(Rest(n))
             total == Len(next)
         IN /\ snap' = s
            /\ gpus' = [i \in 1..total |-> [next[i] EXCEPT !.hist = Trimmed(@)]]
            /\ names' = Names(s, n, total) /\ nvidia' = n
            /\ lastSeq' = IF s.has THEN s.seq ELSE IF enabled THEN lastSeq ELSE 0
            /\ processes' = Processes(s)
            /\ count' = total /\ offsets' = [i \in 1..total |-> Height(next[i])]
            /\ LET asks == ~ml /\ Relayout(total, offsets')
               IN /\ resized' = (resized \/ asks)
                  /\ job' = IF ~ml /\ resized' THEN Idle ELSE [job EXCEPT !.at = "collected"]
            /\ resumed' = (enabled /\ ~NewSample(s) /\ (resumed \/ nvidia < n))
    /\ collects' = collects + 1
    /\ UNCHANGED <<enabled, boxes, ml, layout, key, events>>

CollectNothing ==
    /\ job.at = "started" /\ job.cached /\ gpus # <<>>
    /\ job' = IF ~ml /\ resized THEN Idle ELSE [job EXCEPT !.at = "collected"]
    /\ UNCHANGED <<merged, enabled, boxes, ml, layout, resized, key, events>>

Draw ==
    /\ job.at = "collected" /\ job' = Idle
    /\ UNCHANGED <<merged, enabled, boxes, ml, layout, resized, key, events>>

\* A stop ends the job, or a resize that the runner sees before it begins.
Stopped ==
    /\ job.at = "started" /\ Event /\ job' = Idle
    /\ UNCHANGED <<merged, enabled, boxes, ml, layout, resized, key>>
-----------------------------------------------------------------------------
(* The main thread.                                                        *)

Heights(panels) ==
    [i \in DOMAIN panels |-> IF panels[i] < count THEN offsets[panels[i] + 1] ELSE Unknown]

\* Draw::calcSizes() for boxes b. The runner is idle.
CalcSizes(b) ==
    LET panels == IF count > 0 THEN b ELSE <<>>
    IN layout' = [panels |-> panels, heights |-> Heights(panels), wide |-> panels # <<>>]

Run(b, cached) == job' = [at |-> "started", boxes |-> b, cached |-> cached]

\* A digit key is refused by the count of now and waits for the runner.
KeyBox(k) ==
    /\ key = NoKey /\ ~ml /\ Event
    /\ IF k = TopBox THEN count >= TopBox ELSE k + 1 <= count
    /\ key' = k
    /\ UNCHANGED <<merged, enabled, boxes, ml, layout, resized, job>>

\* Faulty: the box is added although it is there.
OnlyAdds ==
    /\ key # NoKey /\ job.at = "idle" /\ key' = NoKey
    /\ boxes' = Append(boxes, key) /\ CalcSizes(boxes') /\ Run(boxes', FALSE)
    /\ UNCHANGED <<merged, enabled, ml, resized, events>>
ToggleBox ==
    /\ key # NoKey /\ job.at = "idle" /\ key' = NoKey
    /\ boxes' = IF Contains(boxes, key) THEN RemoveFirst(boxes, key)
                ELSE Append(boxes, key)
    /\ CalcSizes(boxes') /\ Run(boxes', FALSE)
    /\ UNCHANGED <<merged, enabled, ml, resized, events>>

KeyView ==
    /\ key = NoKey /\ job.at = "idle" /\ Event /\ ml' = ~ml
    /\ CalcSizes(boxes) /\ Run(boxes, TRUE)
    /\ UNCHANGED <<merged, enabled, boxes, resized, key>>

\* The terminal asks for a new layout, at any time; main makes it.
Resize ==
    /\ Event /\ ~resized /\ resized' = TRUE
    /\ UNCHANGED <<merged, enabled, boxes, ml, layout, key, job>>

Resized ==
    /\ resized /\ key = NoKey /\ job.at = "idle" /\ resized' = FALSE
    /\ IF ml THEN UNCHANGED layout ELSE CalcSizes(boxes)
    /\ Run(boxes, TRUE)
    /\ UNCHANGED <<merged, enabled, boxes, ml, key, events>>

Tick ==
    /\ ~resized /\ key = NoKey /\ job.at = "idle" /\ Event /\ Run(boxes, FALSE)
    /\ UNCHANGED <<merged, enabled, boxes, ml, layout, resized, key>>

\* The options menu turns NVIDIA off or on again.
ShownGpus ==
    /\ key = NoKey /\ job.at = "idle" /\ Event /\ enabled' = ~enabled
    /\ UNCHANGED <<merged, boxes, ml, layout, resized, key, job>>

Next ==
    \/ Collect \/ CollectNothing \/ Draw \/ Stopped
    \/ \E k \in 0..TopBox : KeyBox(k)
    \/ ToggleBox \/ KeyView \/ Resize \/ Resized \/ Tick \/ ShownGpus

Spec == Init /\ [][Next]_vars
-----------------------------------------------------------------------------
Nvidia == 1..nvidia

\* A history is about its own card, however cards come, go and change places,
\* except where the driver names neither UUID nor PCI address.
HistoryOfDevice ==
    \A i \in Nvidia : gpus[i].uuid # None \/ gpus[i].pci # None =>
        \A k \in DOMAIN gpus[i].hist : gpus[i].hist[k][1] = gpus[i].of

\* No sample is in it twice, and the latest one is there, except that a card
\* found again in the sample from before NVIDIA was off has none yet.
SampleCountedOnce ==
    \A i \in Nvidia :
      LET h == gpus[i].hist
      IN /\ \A k \in 1..(Len(h) - 1) : h[k][2] < h[k + 1][2]
         /\ gpus[i].util /\ ~resumed => h # <<>> /\ Last(h)[2] = lastSeq

\* What the graph of an NVIDIA card shows: new_nvidia_sample, the map of
\* identities and the reuse of old cards.
DeviceHistories == HistoryOfDevice /\ SampleCountedOnce

\* "Keep non-NVIDIA histories intact while the asynchronous NVIDIA inventory
\* changes its prefix length": the other cards stay in their order, with their
\* names and with a sample of every collection, the oldest of which may go.
OthersKept ==
    /\ Len(gpus) = nvidia + Len(Others)
    /\ \A i \in DOMAIN gpus : names[i] = gpus[i].of
    /\ \A i \in DOMAIN Others :
         LET g == gpus[nvidia + i]
         IN /\ g.of = Others[i] /\ Last(g.hist)[2] = collects
            /\ \A k \in DOMAIN g.hist :
                 g.hist[k] = <<g.of, collects - Len(g.hist) + k>>

\* The runner draws panel i into the box that was laid out for it, and with the
\* height that its card now needs: every change of the list in the classic view
\* asks for a layout and ends the job that saw it.
PanelsLaidOut ==
    job.at = "collected" /\ ~ml /\ gpus # <<>> =>
        /\ layout.panels = job.boxes
        /\ \A i \in DOMAIN job.boxes : job.boxes[i] < count =>
              layout.heights[i] = offsets[job.boxes[i] + 1]

\* What the rows of the sample say that process pid uses.
UsedBy(pid) ==
    LET sum[n \in 0..Len(snap.rows)] ==
            IF n = 0 THEN 0
            ELSE sum[n - 1] + (IF snap.rows[n].pid = pid THEN snap.rows[n].mem ELSE 0)
    IN sum[Len(snap.rows)]

\* A process has one entry: all its cards, once each, and the sum of its memory,
\* which is unknown as soon as one card does not tell it. None is left out while
\* there are cards of NVIDIA.
ProcessTotals ==
    /\ nvidia > 0 => \A j \in DOMAIN snap.rows :
         \E i \in DOMAIN processes : processes[i].pid = snap.rows[j].pid
    /\ \A i \in DOMAIN processes :
         LET p == processes[i]
             I == {j \in DOMAIN snap.rows : snap.rows[j].pid = p.pid}
         IN /\ \A j \in DOMAIN processes : processes[j].pid = p.pid => i = j
            /\ IsInjective(p.devs) /\ ToSet(p.devs) = {snap.rows[j].dev : j \in I}
            /\ ToSet(p.devs) \subseteq 0..(nvidia - 1)
            /\ p.mem = IF \E j \in I : snap.rows[j].mem = None THEN None
                       ELSE IF UsedBy(p.pid) > MaxMem THEN MaxMem ELSE UsedBy(p.pid)
===============================================================================
