--------------------------- MODULE GpuMerge_proofs ---------------------------
(***************************************************************************)
(* The panels that are drawn are those that were laid out; cards of other  *)
(* vendors keep their places, and cards of NVIDIA their own histories; the *)
(* entry of a process is the total of its rows.                            *)
(***************************************************************************)
EXTENDS GpuMerge, SequenceTheorems, FiniteSetTheorems, TLAPS

\* A sequence, of whatever.
Sequence(f) == \E n \in Nat : DOMAIN f = 1..n /\ f = [i \in 1..n |-> f[i]]

\* What the panels are, whenever they have to be right: no layout is asked for, or a
\* collection has seen that none is needed.
LaidOut ==
    /\ layout.panels = (IF count > 0 THEN boxes ELSE <<>>)
    /\ layout.heights = Heights(layout.panels)

Panels ==
    /\ job = [at |-> job.at, boxes |-> job.boxes, cached |-> job.cached]
    /\ job.at # "idle" => job.boxes = boxes
    /\ ~ml /\ (~resized \/ job.at = "collected") => LaidOut
    /\ gpus # <<>> => count > 0 \/ (boxes = <<>> /\ key = NoKey)
    /\ resized \in BOOLEAN /\ ml \in BOOLEAN /\ key \in Int

\* The list is a sequence, and the sample that the bridge holds is one of Frames.
Lists ==
    /\ Sequence(gpus) /\ nvidia \in Nat /\ count \in Nat
    /\ snap.has \in BOOLEAN /\ (snap.has => \E f \in Frames : snap.devices = f.devices)

LEMMA Sequences ==
    ASSUME NEW f, Sequence(f)
    PROVE  f \in Seq({f[i] : i \in DOMAIN f}) /\ Len(f) \in Nat /\ DOMAIN f = 1..Len(f)
<1> PICK n \in Nat : DOMAIN f = 1..n /\ f = [i \in 1..n |-> f[i]]
  BY DEF Sequence
<1>1. \A i \in 1..n : f[i] \in {f[j] : j \in DOMAIN f}
  OBVIOUS
<1>2. f \in [1..n -> {f[i] : i \in DOMAIN f}]
  BY <1>1
<1>3. f \in Seq({f[i] : i \in DOMAIN f})
  BY <1>2
<1> QED
  BY <1>3

\* The merged list has a length, and so has the list of cards.
LEMMA Length ==
    ASSUME Lists, NEW n, NEW first, Sequence(first)
    PROVE  Len(first \o Sampled(Rest(n))) \in Nat
<1> DEFINE rest == Rest(n)
           more == Sampled(rest)
           all == {first[i] : i \in DOMAIN first} \cup {more[i] : i \in DOMAIN more}
<1>1. rest \in Seq({gpus[i] : i \in DOMAIN gpus})
  <2>1. gpus \in Seq({gpus[i] : i \in DOMAIN gpus}) /\ Len(gpus) \in Nat /\ DOMAIN gpus = 1..Len(gpus)
    BY Sequences DEF Lists
  <2>2. \A i \in (nvidia + 1)..Len(gpus) : gpus[i] \in {gpus[j] : j \in DOMAIN gpus}
    BY <2>1 DEF Lists
  <2> QED
    BY <2>1, <2>2, SubSeqProperties DEF Rest, Lists
<1> HIDE DEF rest
<1>2. DOMAIN rest = 1..Len(rest) /\ Len(rest) \in Nat
  BY <1>1
<1>3. Sequence(more)
  BY <1>2 DEF Sampled, Sequence
<1> HIDE DEF more
<1>4. first \in Seq(all)
  <2>1. first \in Seq({first[i] : i \in DOMAIN first})
    BY Sequences
  <2> QED
    BY <2>1
<1>5. more \in Seq(all)
  <2>1. more \in Seq({more[i] : i \in DOMAIN more})
    BY <1>3, Sequences
  <2> QED
    BY <2>1
<1> HIDE DEF all
<1>6. first \o more \in Seq(all) /\ Len(first \o more) = Len(first) + Len(more)
  BY <1>4, <1>5, ConcatProperties
<1> QED
  BY <1>6 DEF more, rest

LEMMA PolledSample ==
    ASSUME Lists, NEW s \in Polled
    PROVE  s.has \in BOOLEAN /\ (s.has => \E f \in Frames : s.devices = f.devices)
<1>1. CASE s = snap
  BY <1>1 DEF Lists
<1>2. CASE s # snap
  <2>1. s.has = TRUE
    BY <1>2 DEF Polled
  <2>2. \E f \in Frames : s.devices = f.devices
    BY <1>2 DEF Polled
  <2> QED
    BY <2>1, <2>2
<1> QED
  BY <1>1, <1>2

\* A collection makes a list of as many cards as it counts, and ends the job if the
\* layout is not good for it.
LEMMA Collecting ==
    ASSUME Lists, Collect
    PROVE  /\ Lists' /\ DOMAIN gpus' = 1..count'
           /\ resized' = (resized \/ (~ml /\ Relayout(count', offsets')))
           /\ job' = IF ~ml /\ resized' THEN Idle ELSE [job EXCEPT !.at = "collected"]
<1>1. PICK s \in Polled :
        LET n     == IF s.has /\ enabled THEN Len(s.devices) ELSE 0
            next  == [i \in 1..n |-> Merged(s, i)] \o Sampled(Rest(n))
            total == Len(next)
        IN /\ snap' = s
           /\ gpus' = [i \in 1..total |-> [next[i] EXCEPT !.hist = Trimmed(@)]]
           /\ nvidia' = n /\ count' = total
           /\ LET asks == ~ml /\ Relayout(total, offsets')
              IN /\ resized' = (resized \/ asks)
                 /\ job' = IF ~ml /\ resized' THEN Idle ELSE [job EXCEPT !.at = "collected"]
  BY DEF Collect
<1> DEFINE n == IF s.has /\ enabled THEN Len(s.devices) ELSE 0
           first == [i \in 1..n |-> Merged(s, i)]
           next == first \o Sampled(Rest(n))
           total == Len(next)
<1>2. /\ snap' = s /\ nvidia' = n /\ count' = total
      /\ gpus' = [i \in 1..total |-> [next[i] EXCEPT !.hist = Trimmed(@)]]
      /\ resized' = (resized \/ (~ml /\ Relayout(total, offsets')))
      /\ job' = IF ~ml /\ resized' THEN Idle ELSE [job EXCEPT !.at = "collected"]
  BY <1>1
<1>3. s.has \in BOOLEAN /\ (s.has => \E f \in Frames : s.devices = f.devices)
  BY PolledSample
<1>4. n \in Nat
  BY <1>3, GpuMergeAssumption
<1>5. Sequence(first)
  BY <1>4 DEF Sequence
<1> HIDE DEF n
<1>6. total \in Nat
  <2> HIDE DEF first
  <2> QED
    BY <1>5, Length
<1> HIDE DEF total, next
<1>7. Sequence(gpus') /\ DOMAIN gpus' = 1..total
  BY <1>2, <1>6 DEF Sequence
<1>8. Lists'
  BY <1>2, <1>3, <1>4, <1>6, <1>7 DEF Lists
<1> QED
  BY <1>2, <1>7, <1>8

LEMMA ListsKept ==
    ASSUME Lists, [Next]_vars
    PROVE  Lists'
<1>1. CASE Collect
  BY <1>1, Collecting
<1>2. CASE UNCHANGED merged
  BY <1>2 DEF merged, Lists, Sequence
<1> QED
  BY <1>1, <1>2 DEF Next, vars, merged, CollectNothing, Draw, Stopped, KeyBox, ToggleBox, KeyView, Resize,
     Resized, Tick, ShownGpus

\* A layout of boxes b, made with the present count and heights.
LEMMA Laid ==
    ASSUME NEW b, CalcSizes(b), boxes' = b, count' = count, offsets' = offsets
    PROVE  LaidOut'
BY DEF CalcSizes, LaidOut, Heights

LEMMA LaidOutKept ==
    ASSUME UNCHANGED <<layout, boxes, count, offsets>>
    PROVE  LaidOut' = LaidOut
BY DEF LaidOut, Heights

LEMMA PanelsKept ==
    ASSUME Lists, Panels, [Next]_vars
    PROVE  Panels'
<1> USE DEF Panels
<1>1. CASE Collect
  <2>2. /\ UNCHANGED <<boxes, ml, layout, key>> /\ job.at = "started"
    BY <1>1 DEF Collect
  <2>1. /\ resized' = (resized \/ (~ml /\ Relayout(count', offsets')))
        /\ job' = IF ~ml /\ resized' THEN Idle ELSE [job EXCEPT !.at = "collected"]
    BY <1>1, Collecting
  <2>3. Sequence(gpus)' /\ count' \in Nat /\ DOMAIN gpus' = 1..count'
    BY <1>1, Collecting DEF Lists
  <2>4. gpus' # <<>> => count' > 0
    <3>1. /\ gpus' \in Seq({gpus'[i] : i \in DOMAIN gpus'}) /\ DOMAIN gpus' = 1..Len(gpus')
          /\ Len(gpus') \in Nat
      BY <2>3, Sequences
    <3>3. gpus' # <<>> => Len(gpus') \in Nat \ {0}
      BY <3>1, EmptySeq
    <3> QED
      BY <2>3, <3>1, <3>3
  <2>5. job' = Idle \/ job' = [at |-> "collected", boxes |-> job.boxes, cached |-> job.cached]
    BY <2>1
  <2>6. /\ job' = [at |-> job'.at, boxes |-> job'.boxes, cached |-> job'.cached]
        /\ job'.at # "idle" => job'.boxes = boxes'
    BY <2>2, <2>5 DEF Idle
  <2>7. ASSUME ~ml', ~resized' \/ job'.at = "collected"
        PROVE  LaidOut'
    <3>1. ~ml /\ ~resized'
      <4>1. resized' => job'.at = "idle"
        BY <2>1, <2>2, <2>7 DEF Idle
      <4> QED
        BY <2>2, <2>7, <4>1
    <3>2. ~resized /\ count' = count /\ offsets' = offsets
      BY <2>1, <3>1 DEF Relayout
    <3> QED
      BY <2>2, <3>1, <3>2, LaidOutKept
  <2>8. resized' \in BOOLEAN
    BY <2>1
  <2> QED
    BY <2>2, <2>4, <2>6, <2>7, <2>8
<1>2. CASE CollectNothing \/ Draw \/ Stopped
  BY <1>2, LaidOutKept DEF CollectNothing, Draw, Stopped, merged, Idle
<1>3. ASSUME NEW k \in 0..TopBox, KeyBox(k)
      PROVE  Panels'
  <2>1. count > 0 /\ key' \in Int
    BY <1>3, GpuMergeAssumption DEF KeyBox, Lists
  <2> QED
    BY <1>3, <2>1, LaidOutKept DEF KeyBox, merged
<1>4. CASE ToggleBox
  <2>1. LaidOut'
    BY <1>4, Laid DEF ToggleBox, merged
  <2> QED
    BY <1>4, <2>1 DEF ToggleBox, merged, Run, NoKey
<1>5. CASE KeyView
  <2>1. LaidOut'
    BY <1>5, Laid DEF KeyView, merged
  <2> QED
    BY <1>5, <2>1 DEF KeyView, merged, Run
<1>6. CASE Resized
  <2>1. ~ml => LaidOut'
    BY <1>6, Laid DEF Resized, merged
  <2> QED
    BY <1>6, <2>1 DEF Resized, merged, Run
<1>7. CASE Resize \/ ShownGpus
  BY <1>7, LaidOutKept DEF Resize, ShownGpus, merged
<1>8. CASE Tick
  <2>1. LaidOut' = LaidOut
    BY <1>8, LaidOutKept DEF Tick, merged
  <2> QED
    BY <1>8, <2>1 DEF Tick, merged, Run
<1>9. CASE UNCHANGED vars
  BY <1>9, LaidOutKept DEF vars
<1> QED
  BY <1>1, <1>2, <1>3, <1>4, <1>5, <1>6, <1>7, <1>8, <1>9 DEF Next

LEMMA Start ==
    ASSUME Init
    PROVE  Lists /\ Panels
<1>1. gpus # <<>> => boxes = <<>> /\ key = NoKey
  BY DEF Init
<1>2. DOMAIN Others = 1..Len(Others) /\ Len(Others) \in Nat
  BY GpuMergeAssumption
<1>3. Sequence(gpus)
  BY <1>2 DEF Init, Sequence
<1>4. LaidOut
  BY DEF Init, LaidOut, Heights
<1> QED
  BY <1>1, <1>3, <1>4 DEF Init, Lists, Panels, Idle, NoKey

\* The panels are drawn into the boxes that were laid out for them, with the heights
\* their cards need (Gpu::collect() asks for a layout and ends the job; calcSizes() is
\* made for the boxes that the next job gets), whatever samples, keys and resizes come.
THEOREM PanelsFit == Spec => []PanelsLaidOut
<1>1. Init => Lists /\ Panels
  BY Start
<1>2. Lists /\ Panels /\ [Next]_vars => (Lists /\ Panels)'
  BY ListsKept, PanelsKept
<1>3. Lists /\ Panels => PanelsLaidOut
  <2> SUFFICES ASSUME Panels, job.at = "collected", ~ml, gpus # <<>>
               PROVE  /\ layout.panels = job.boxes
                      /\ \A i \in DOMAIN job.boxes : job.boxes[i] < count =>
                            layout.heights[i] = offsets[job.boxes[i] + 1]
    BY DEF PanelsLaidOut
  <2>1. layout.panels = job.boxes /\ layout.heights = Heights(layout.panels)
    BY DEF Panels, LaidOut
  <2> QED
    BY <2>1 DEF Heights
<1> QED
  BY <1>1, <1>2, <1>3, PTL DEF Spec
-----------------------------------------------------------------------------
(* The cards of other vendors.                                             *)

LEMMA Joined ==
    ASSUME NEW f, NEW g, Sequence(f), Sequence(g)
    PROVE  /\ Sequence(f \o g) /\ Len(f \o g) = Len(f) + Len(g)
           /\ \A i \in 1..Len(f) : (f \o g)[i] = f[i]
           /\ \A i \in 1..Len(g) : (f \o g)[Len(f) + i] = g[i]
<1> DEFINE all == {f[i] : i \in DOMAIN f} \cup {g[i] : i \in DOMAIN g}
           both == f \o g
<1>1. f \in Seq({f[i] : i \in DOMAIN f}) /\ g \in Seq({g[i] : i \in DOMAIN g})
  BY Sequences
<1>2. f \in Seq(all) /\ g \in Seq(all)
  BY <1>1
<1> HIDE DEF all
<1>3. /\ both \in Seq(all) /\ Len(both) = Len(f) + Len(g)
      /\ \A i \in 1..(Len(f) + Len(g)) : both[i] = IF i <= Len(f) THEN f[i] ELSE g[i - Len(f)]
  BY <1>2, ConcatProperties
<1>4. Len(f) \in Nat /\ Len(g) \in Nat
  BY <1>2
<1> HIDE DEF both
<1>5. Sequence(both)
  <2>1. both \in [1..Len(both) -> all] /\ Len(both) \in Nat
    BY <1>3
  <2> QED
    BY <2>1 DEF Sequence
<1>6. \A i \in 1..Len(g) : Len(f) + i \in 1..(Len(f) + Len(g)) /\ ~(Len(f) + i <= Len(f))
                           /\ Len(f) + i - Len(f) = i
  BY <1>4
<1>7. \A i \in 1..Len(g) : both[Len(f) + i] = g[i]
  BY <1>3, <1>6
<1>8. \A i \in 1..Len(f) : both[i] = f[i]
  BY <1>3, <1>4
<1> QED
  BY <1>3, <1>5, <1>7, <1>8 DEF both

LEMMA Dropped ==
    ASSUME NEW f, Sequence(f), NEW m \in Nat, m <= Len(f)
    PROVE  LET r == SubSeq(f, m + 1, Len(f))
           IN /\ Sequence(r) /\ Len(r) = Len(f) - m
              /\ \A i \in 1..(Len(f) - m) : r[i] = f[m + i]
<1> DEFINE all == {f[i] : i \in DOMAIN f}
           r == SubSeq(f, m + 1, Len(f))
<1>1. f \in Seq(all) /\ Len(f) \in Nat /\ DOMAIN f = 1..Len(f)
  BY Sequences
<1>2. \A i \in (m + 1)..Len(f) : f[i] \in all
  BY <1>1
<1>5. m + 1 \in Int /\ Len(f) \in Int
  BY <1>1
<1> HIDE DEF all
<1>3. /\ r \in Seq(all)
      /\ Len(r) = IF m + 1 <= Len(f) THEN Len(f) - (m + 1) + 1 ELSE 0
      /\ \A i \in 1..(Len(f) - (m + 1) + 1) : r[i] = f[m + 1 + i - 1]
  BY <1>1, <1>2, <1>5, SubSeqProperties
<1> HIDE DEF r
<1>4. Sequence(r)
  <2>1. r \in [1..Len(r) -> all] /\ Len(r) \in Nat
    BY <1>3
  <2> QED
    BY <2>1 DEF Sequence
<1>6. Len(r) = Len(f) - m
  <2>1. CASE m + 1 <= Len(f)
    BY <1>1, <1>3, <2>1
  <2>2. CASE m = Len(f)
    BY <1>1, <1>3, <2>2
  <2>3. \A l \in Nat : m <= l => m + 1 <= l \/ m = l
    OBVIOUS
  <2>4. m + 1 <= Len(f) \/ m = Len(f)
    BY <1>1, <2>3
  <2> QED
    BY <2>1, <2>2, <2>4
<1>7. ASSUME NEW i \in 1..(Len(f) - m) PROVE r[i] = f[m + i]
  <2>1. i \in 1..(Len(f) - (m + 1) + 1) /\ m + 1 + i - 1 = m + i
    BY <1>1
  <2> QED
    BY <1>3, <2>1
<1> QED
  BY <1>4, <1>6, <1>7 DEF r

\* A history with a sample of card of for each of the last collections, of which there
\* have been c.
Continuous(h, of, c) ==
    /\ Sequence(h) /\ Len(h) \in Nat \ {0}
    /\ \A k \in 1..Len(h) : h[k] = <<of, c - Len(h) + k>>

LEMMA Grows ==
    ASSUME NEW h, NEW of, NEW c \in Nat, Continuous(h, of, c)
    PROVE  Continuous(Append(h, <<of, c + 1>>), of, c + 1)
<1> DEFINE all == {h[i] : i \in DOMAIN h} \cup {<<of, c + 1>>}
           more == Append(h, <<of, c + 1>>)
<1>1. h \in Seq(all) /\ Len(h) \in Nat \ {0}
  <2>1. h \in Seq({h[i] : i \in DOMAIN h}) /\ Len(h) \in Nat \ {0}
    BY Sequences DEF Continuous
  <2> QED
    BY <2>1
<1>2. <<of, c + 1>> \in all
  OBVIOUS
<1> HIDE DEF all
<1>3. /\ more \in Seq(all) /\ Len(more) = Len(h) + 1
      /\ \A k \in 1..Len(h) : more[k] = h[k]
      /\ more[Len(h) + 1] = <<of, c + 1>>
  BY <1>1, <1>2, AppendProperties
<1> HIDE DEF more
<1>4. Sequence(more)
  <2>1. more \in [1..Len(more) -> all] /\ Len(more) \in Nat
    BY <1>3
  <2> QED
    BY <2>1 DEF Sequence
<1>5. ASSUME NEW k \in 1..Len(more) PROVE more[k] = <<of, c + 1 - Len(more) + k>>
  <2>1. CASE k = Len(h) + 1
    BY <1>1, <1>3, <2>1
  <2>2. CASE k \in 1..Len(h)
    <3>1. more[k] = <<of, c - Len(h) + k>>
      BY <1>3, <2>2 DEF Continuous
    <3>2. c - Len(h) + k = c + 1 - Len(more) + k
      BY <1>1, <1>3
    <3> QED
      BY <3>1, <3>2
  <2> QED
    BY <1>1, <1>3, <2>1, <2>2
<1>6. Len(more) \in Nat \ {0}
  BY <1>1, <1>3
<1>7. Continuous(more, of, c + 1)
  BY <1>4, <1>5, <1>6 DEF Continuous
<1> QED
  BY <1>7 DEF more

LEMMA Trims ==
    ASSUME NEW h, NEW of, NEW c \in Nat, Continuous(h, of, c)
    PROVE  Continuous(Trimmed(h), of, c)
<1>1. CASE layout.wide /\ Len(h) > Limit
  <2> DEFINE m == Len(h) - Limit
             r == SubSeq(h, m + 1, Len(h))
  <2>1. m \in Nat /\ m <= Len(h) /\ Limit \in Nat \ {0} /\ Len(h) \in Nat /\ Len(h) - m = Limit
    BY <1>1, GpuMergeAssumption DEF Continuous
  <2>2. Trimmed(h) = r
    BY <1>1 DEF Trimmed
  <2> HIDE DEF m
  <2>3. /\ Sequence(r) /\ Len(r) = Limit
        /\ \A i \in 1..Limit : r[i] = h[m + i]
    BY <2>1, Dropped DEF Continuous
  <2> HIDE DEF r
  <2>4. ASSUME NEW k \in 1..Len(r) PROVE r[k] = <<of, c - Len(r) + k>>
    <3>1. m + k \in 1..Len(h) /\ c - Len(h) + (m + k) = c - Len(r) + k
      BY <2>1, <2>3
    <3> QED
      BY <2>3, <3>1 DEF Continuous
  <2> QED
    BY <2>1, <2>2, <2>3, <2>4 DEF Continuous
<1>2. CASE ~(layout.wide /\ Len(h) > Limit)
  BY <1>2 DEF Trimmed
<1> QED
  BY <1>1, <1>2

\* The list is that of NVIDIA and then that of the other vendors.
Behind ==
    /\ Sequence(gpus) /\ Sequence(names) /\ collects \in Nat
    /\ Len(gpus) = nvidia + Len(Others) /\ Len(names) = Len(gpus)
    /\ \A i \in 1..Len(gpus) : names[i] = gpus[i].of
    /\ \A i \in 1..Len(Others) :
         /\ {"of", "hist"} \subseteq DOMAIN gpus[nvidia + i]
         /\ gpus[nvidia + i].of = Others[i]
         /\ Continuous(gpus[nvidia + i].hist, Others[i], collects)

LEMMA OthersLength == Sequence(Others) /\ Len(Others) \in Nat /\ DOMAIN Others = 1..Len(Others)
<1>1. Others \in [1..Len(Others) -> Nat \ {0}] /\ Len(Others) \in Nat
  BY GpuMergeAssumption
<1> QED
  BY <1>1 DEF Sequence

\* The list of a collection before its histories are trimmed.
LEMMA NextList ==
    ASSUME Lists, Behind, NEW s \in Polled, NEW n \in Nat,
           n = IF s.has /\ enabled THEN Len(s.devices) ELSE 0
    PROVE  LET next == [i \in 1..n |-> Merged(s, i)] \o Sampled(Rest(n))
           IN /\ Sequence(next) /\ Len(next) = n + Len(Others)
              /\ \A i \in 1..n : next[i] = Merged(s, i)
              /\ \A i \in 1..Len(Others) :
                   next[n + i] = [gpus[nvidia + i] EXCEPT !.hist = Append(@, <<Others[i], collects + 1>>)]
<1> DEFINE first == [i \in 1..n |-> Merged(s, i)]
           rest == Rest(n)
           more == Sampled(rest)
<1>1. /\ Sequence(rest) /\ Len(rest) = Len(Others)
      /\ \A i \in 1..Len(Others) : rest[i] = gpus[nvidia + i]
  <2>1. /\ nvidia \in Nat /\ nvidia <= Len(gpus) /\ Len(gpus) - nvidia = Len(Others)
        /\ Sequence(gpus)
    BY OthersLength DEF Behind, Lists
  <2> QED
    BY <2>1, Dropped DEF Rest
<1> HIDE DEF rest
<1>2. DOMAIN rest = 1..Len(Others)
  BY <1>1, Sequences
<1>3. /\ Sequence(more) /\ DOMAIN more = 1..Len(Others)
      /\ \A i \in 1..Len(Others) :
           more[i] = [gpus[nvidia + i] EXCEPT !.hist = Append(@, <<Others[i], collects + 1>>)]
  BY <1>1, <1>2, OthersLength DEF Sampled, Sequence
<1>4. Sequence(first) /\ DOMAIN first = 1..n /\ \A i \in 1..n : first[i] = Merged(s, i)
  BY DEF Sequence
<1> HIDE DEF first, more
<1>5. Len(first) = n /\ Len(more) = Len(Others)
  BY <1>3, <1>4, OthersLength, Sequences
<1> DEFINE next == first \o more
<1>6. /\ Sequence(next) /\ Len(next) = n + Len(Others)
      /\ \A i \in 1..n : next[i] = first[i]
      /\ \A i \in 1..Len(Others) : next[n + i] = more[i]
  <2>1. /\ Sequence(next) /\ Len(next) = Len(first) + Len(more)
        /\ \A i \in 1..Len(first) : next[i] = first[i]
        /\ \A i \in 1..Len(more) : next[Len(first) + i] = more[i]
    BY <1>3, <1>4, Joined
  <2> HIDE DEF next
  <2> QED
    BY <1>5, <2>1
<1> HIDE DEF next
<1>7. \A i \in 1..n : next[i] = Merged(s, i)
  BY <1>4, <1>6
<1>8. \A i \in 1..Len(Others) :
        next[n + i] = [gpus[nvidia + i] EXCEPT !.hist = Append(@, <<Others[i], collects + 1>>)]
  BY <1>3, <1>6
<1>9. next = [i \in 1..n |-> Merged(s, i)] \o Sampled(Rest(n))
  BY DEF next, first, more, rest
<1> QED
  BY <1>6, <1>7, <1>8, <1>9

\* Their names, which are neither cut nor padded.
LEMMA Named ==
    ASSUME Lists, Behind, NEW s, NEW n \in Nat
    PROVE  LET ns == Names(s, n, n + Len(Others))
           IN /\ Sequence(ns) /\ Len(ns) = n + Len(Others)
              /\ \A i \in 1..n : ns[i] = s.devices[i].of
              /\ \A i \in 1..Len(Others) : ns[n + i] = Others[i]
<1> DEFINE first == [i \in 1..n |-> s.devices[i].of]
           rest == SubSeq(names, nvidia + 1, Len(names))
           all == first \o rest
           ns == Names(s, n, n + Len(Others))
<1>1. /\ Sequence(rest) /\ Len(rest) = Len(Others)
      /\ \A i \in 1..Len(Others) : rest[i] = names[nvidia + i]
  <2>1. /\ nvidia \in Nat /\ nvidia <= Len(names) /\ Len(names) - nvidia = Len(Others)
        /\ Sequence(names)
    BY OthersLength DEF Behind, Lists
  <2> QED
    BY <2>1, Dropped
<1> HIDE DEF rest
<1>2. Sequence(first) /\ DOMAIN first = 1..n /\ \A i \in 1..n : first[i] = s.devices[i].of
  BY DEF Sequence
<1> HIDE DEF first
<1>3. Len(first) = n
  BY <1>2, Sequences
<1>4. /\ Len(all) = n + Len(Others)
      /\ \A i \in 1..n : all[i] = s.devices[i].of
      /\ \A i \in 1..Len(Others) : all[n + i] = names[nvidia + i]
  BY <1>1, <1>2, <1>3, Joined
<1> HIDE DEF all
<1>5. n + Len(Others) \in Nat
  BY OthersLength
<1>6. ns = [i \in 1..(n + Len(Others)) |-> IF i <= Len(all) THEN all[i] ELSE Unknown]
  BY DEF Names, all, first, rest
<1>7. Sequence(ns) /\ DOMAIN ns = 1..(n + Len(Others))
  BY <1>5, <1>6 DEF Sequence
<1>8. \A i \in 1..(n + Len(Others)) : ns[i] = all[i]
  BY <1>4, <1>6
<1> HIDE DEF ns
<1>9. \A i \in 1..Len(Others) : names[nvidia + i] = Others[i]
  <2> SUFFICES ASSUME NEW i \in 1..Len(Others) PROVE names[nvidia + i] = Others[i]
    OBVIOUS
  <2>1. nvidia + i \in 1..Len(gpus)
    BY OthersLength DEF Behind, Lists
  <2> QED
    BY <2>1 DEF Behind
<1>10. \A i \in 1..Len(Others) : n + i \in 1..(n + Len(Others))
  BY OthersLength
<1>11. \A i \in 1..n : i \in 1..(n + Len(Others))
  BY OthersLength
<1>12. Len(ns) = n + Len(Others)
  BY <1>5, <1>7, Sequences
<1> QED
  BY <1>4, <1>7, <1>8, <1>9, <1>10, <1>11, <1>12 DEF ns

LEMMA BehindKept ==
    ASSUME Lists, Behind, [Next]_vars
    PROVE  Behind'
<1>1. CASE Collect
  <2>1. PICK s \in Polled :
          LET n     == IF s.has /\ enabled THEN Len(s.devices) ELSE 0
              next  == [i \in 1..n |-> Merged(s, i)] \o Sampled(Rest(n))
              total == Len(next)
          IN /\ gpus' = [i \in 1..total |-> [next[i] EXCEPT !.hist = Trimmed(@)]]
             /\ names' = Names(s, n, total) /\ nvidia' = n
    BY <1>1 DEF Collect
  <2> DEFINE n == IF s.has /\ enabled THEN Len(s.devices) ELSE 0
             next == [i \in 1..n |-> Merged(s, i)] \o Sampled(Rest(n))
             total == n + Len(Others)
  <2>2. n \in Nat
    BY PolledSample, GpuMergeAssumption
  <2>3. /\ Len(next) = total
        /\ \A i \in 1..n : next[i] = Merged(s, i)
        /\ \A i \in 1..Len(Others) :
             next[n + i] = [gpus[nvidia + i] EXCEPT !.hist = Append(@, <<Others[i], collects + 1>>)]
    BY <2>2, NextList
  <2>4. collects' = collects + 1
    BY <1>1 DEF Collect
  <2>5. /\ gpus' = [i \in 1..total |-> [next[i] EXCEPT !.hist = Trimmed(@)]]
        /\ names' = Names(s, n, total) /\ nvidia' = n
    BY <2>1, <2>3
  <2>6. /\ Sequence(names') /\ Len(names') = total
        /\ \A i \in 1..n : names'[i] = s.devices[i].of
        /\ \A i \in 1..Len(Others) : names'[n + i] = Others[i]
    BY <2>2, <2>5, Named
  <2> HIDE DEF n, next
  <2>7. total \in Nat /\ \A i \in 1..Len(Others) : n + i \in 1..total
    BY <2>2, OthersLength
  <2>8. Sequence(gpus') /\ Len(gpus') = total
    <3>1. Sequence(gpus') /\ DOMAIN gpus' = 1..total
      BY <2>5, <2>7 DEF Sequence
    <3> QED
      BY <2>7, <3>1, Sequences
  <2>9. \A i \in 1..n : gpus'[i].of = s.devices[i].of
    <3>1. \A i \in 1..n : i \in 1..total
      BY <2>2, OthersLength
    <3>2. \A i \in 1..n : {"of", "hist"} \subseteq DOMAIN Merged(s, i) /\ Merged(s, i).of = s.devices[i].of
      BY DEF Merged
    <3>3. \A i \in 1..n : gpus'[i] = [Merged(s, i) EXCEPT !.hist = Trimmed(@)]
      BY <2>3, <2>5, <3>1
    <3> QED
      BY <3>2, <3>3
  <2>10. ASSUME NEW i \in 1..Len(Others)
         PROVE  /\ {"of", "hist"} \subseteq DOMAIN gpus'[n + i]
                /\ gpus'[n + i].of = Others[i]
                /\ Continuous(gpus'[n + i].hist, Others[i], collects + 1)
    <3> DEFINE g == gpus[nvidia + i]
               more == Append(g.hist, <<Others[i], collects + 1>>)
    <3>1. {"of", "hist"} \subseteq DOMAIN g /\ g.of = Others[i] /\ Continuous(g.hist, Others[i], collects)
      BY DEF Behind
    <3>2. collects \in Nat
      BY DEF Behind
    <3>3. Continuous(Trimmed(more), Others[i], collects + 1)
      BY <3>1, <3>2, Grows, Trims
    <3> HIDE DEF more, g
    <3>4. next[n + i] = [g EXCEPT !.hist = more]
      <4>1. next[n + i] = [g EXCEPT !.hist = Append(@, <<Others[i], collects + 1>>)]
        BY <2>3 DEF g
      <4> QED
        BY <4>1 DEF more
    <3>5. gpus'[n + i] = [next[n + i] EXCEPT !.hist = Trimmed(@)]
      BY <2>5, <2>7
    <3>6. gpus'[n + i].of = g.of /\ gpus'[n + i].hist = Trimmed(more)
          /\ DOMAIN gpus'[n + i] = DOMAIN g
      BY <3>1, <3>4, <3>5
    <3> QED
      BY <3>1, <3>3, <3>6
  <2>11. ASSUME NEW i \in 1..total PROVE names'[i] = gpus'[i].of
    <3>1. CASE i \in 1..n
      BY <2>6, <2>9, <3>1
    <3>2. CASE i \notin 1..n
      <4>1. PICK j \in 1..Len(Others) : i = n + j
        <5>1. i - n \in 1..Len(Others) /\ i = n + (i - n)
          BY <2>2, <3>2, OthersLength
        <5> QED
          BY <5>1
      <4> QED
        BY <2>6, <2>10, <4>1
    <3> QED
      BY <3>1, <3>2
  <2>12. collects' \in Nat
    BY <2>4 DEF Behind
  <2>13. nvidia' = n
    BY <2>5
  <2>14. \A i \in 1..Len(Others) :
           /\ {"of", "hist"} \subseteq DOMAIN gpus'[nvidia' + i]
           /\ gpus'[nvidia' + i].of = Others[i]
           /\ Continuous(gpus'[nvidia' + i].hist, Others[i], collects')
    BY <2>4, <2>10, <2>13
  <2>15. /\ Sequence(gpus') /\ Sequence(names') /\ Len(gpus') = nvidia' + Len(Others)
         /\ Len(names') = Len(gpus') /\ \A i \in 1..Len(gpus') : names'[i] = gpus'[i].of
    BY <2>6, <2>8, <2>11, <2>13
  <2> QED
    BY <2>12, <2>14, <2>15 DEF Behind, Continuous, Sequence
<1>2. CASE UNCHANGED merged
  BY <1>2 DEF merged, Behind
<1> QED
  BY <1>1, <1>2 DEF Next, vars, merged, CollectNothing, Draw, Stopped, KeyBox, ToggleBox, KeyView, Resize,
     Resized, Tick, ShownGpus

LEMMA StartBehind ==
    ASSUME Init
    PROVE  Behind
<1>1. Sequence(names) /\ Len(names) = Len(Others)
  BY OthersLength DEF Init
<1>2. Sequence(gpus) /\ DOMAIN gpus = 1..Len(Others)
  BY OthersLength DEF Init, Sequence
<1>3. Len(gpus) = Len(Others)
  BY <1>2, OthersLength, Sequences
<1>4. ASSUME NEW i \in 1..Len(Others)
      PROVE  /\ {"of", "hist"} \subseteq DOMAIN gpus[i] /\ gpus[i].of = Others[i]
             /\ Continuous(gpus[i].hist, Others[i], 0)
  <2>1. gpus[i] = [of |-> Others[i], uuid |-> None, pci |-> None, util |-> TRUE,
                   hist |-> <<<<Others[i], 0>>>>]
    BY <1>2, OthersLength DEF Init
  <2>2. Continuous(<<<<Others[i], 0>>>>, Others[i], 0)
    BY DEF Continuous, Sequence
  <2> QED
    BY <2>1, <2>2
<1>5. nvidia = 0 /\ collects = 0 /\ names = Others
  BY DEF Init
<1>6. \A i \in 1..Len(Others) : nvidia + i = i
  BY <1>5
<1> QED
  BY <1>1, <1>2, <1>3, <1>4, <1>5, <1>6, OthersLength DEF Behind

\* However the list of NVIDIA in front of them grows and shrinks, the cards of other
\* vendors keep their order, their names and a history with every collection of the
\* last ones (Gpu::collect() cuts the list at the old count, and the names with it).
THEOREM OthersStay == Spec => []OthersKept
<1>1. Init => Lists /\ Behind
  BY Start, StartBehind
<1>2. Lists /\ Behind /\ [Next]_vars => (Lists /\ Behind)'
  BY ListsKept, BehindKept
<1>3. Lists /\ Behind => OthersKept
  <2> SUFFICES ASSUME Lists, Behind PROVE OthersKept
    OBVIOUS
  <2>1. DOMAIN gpus = 1..Len(gpus)
    BY Sequences DEF Behind
  <2>2. ASSUME NEW i \in DOMAIN Others
        PROVE  LET g == gpus[nvidia + i]
               IN /\ g.of = Others[i] /\ Last(g.hist)[2] = collects
                  /\ \A k \in DOMAIN g.hist : g.hist[k] = <<g.of, collects - Len(g.hist) + k>>
    <3> DEFINE h == gpus[nvidia + i].hist
    <3>1. gpus[nvidia + i].of = Others[i] /\ Continuous(h, Others[i], collects) /\ collects \in Nat
      BY OthersLength DEF Behind
    <3> HIDE DEF h
    <3>2. DOMAIN h = 1..Len(h) /\ Len(h) \in Nat \ {0}
      BY <3>1, Sequences DEF Continuous
    <3>3. h[Len(h)] = <<Others[i], collects - Len(h) + Len(h)>>
      BY <3>1, <3>2 DEF Continuous
    <3>4. Last(h)[2] = collects
      BY <3>1, <3>2, <3>3 DEF Last
    <3> QED
      BY <3>1, <3>2, <3>4 DEF Continuous, h
  <2> QED
    BY <2>1, <2>2 DEF Behind, OthersKept
<1> QED
  BY <1>1, <1>2, <1>3, PTL DEF Spec
-----------------------------------------------------------------------------
(* The histories of the cards of NVIDIA.                                   *)

\* Samples in their order, up to number last, and of card of.
Ordered(h, last) ==
    /\ Sequence(h)
    /\ \A k \in 1..Len(h) : h[k][2] \in Nat /\ h[k][2] <= last
    /\ \A k \in 1..(Len(h) - 1) : h[k][2] < h[k + 1][2]
About(h, of) == \A k \in 1..Len(h) : h[k][1] = of
Ends(h, last) == Len(h) \in Nat \ {0} /\ h[Len(h)][2] = last

LEMMA EmptyOrdered == \A last, of : Ordered(<<>>, last) /\ About(<<>>, of)
  BY DEF Ordered, About, Sequence

LEMMA Appends ==
    ASSUME NEW h, NEW last \in Nat, NEW of, NEW q \in Nat, Ordered(h, last), q > last
    PROVE  LET more == Append(h, <<of, q>>)
           IN Ordered(more, q) /\ Ends(more, q) /\ (About(h, of) => About(more, of))
<1> DEFINE all == {h[i] : i \in DOMAIN h} \cup {<<of, q>>}
           more == Append(h, <<of, q>>)
<1>1. h \in Seq(all) /\ Len(h) \in Nat
  <2>1. h \in Seq({h[i] : i \in DOMAIN h}) /\ Len(h) \in Nat
    BY Sequences DEF Ordered
  <2> QED
    BY <2>1
<1>2. <<of, q>> \in all
  OBVIOUS
<1> HIDE DEF all
<1>3. /\ more \in Seq(all) /\ Len(more) = Len(h) + 1
      /\ \A k \in 1..Len(h) : more[k] = h[k]
      /\ more[Len(h) + 1] = <<of, q>>
  BY <1>1, <1>2, AppendProperties
<1> HIDE DEF more
<1>4. Sequence(more)
  <2>1. more \in [1..Len(more) -> all] /\ Len(more) \in Nat
    BY <1>3
  <2> QED
    BY <2>1 DEF Sequence
<1>5. \A k \in 1..Len(more) : k \in 1..Len(h) \/ k = Len(h) + 1
  BY <1>1, <1>3
<1>6. \A k \in 1..Len(more) : more[k][2] \in Nat /\ more[k][2] <= q
  <2>1. \A k \in 1..Len(h) : h[k][2] \in Nat /\ h[k][2] <= q
    BY DEF Ordered
  <2> QED
    BY <1>3, <1>5, <2>1
<1>7. ASSUME NEW k \in 1..(Len(more) - 1) PROVE more[k][2] < more[k + 1][2]
  <2>1. k \in 1..Len(h) /\ Len(more) - 1 = Len(h)
    BY <1>1, <1>3
  <2>2. CASE k = Len(h)
    BY <1>3, <2>1, <2>2 DEF Ordered
  <2>3. CASE k # Len(h)
    <3>1. k \in 1..(Len(h) - 1) /\ k + 1 \in 1..Len(h)
      BY <1>1, <2>1, <2>3
    <3> QED
      BY <1>3, <2>1, <3>1 DEF Ordered
  <2> QED
    BY <2>2, <2>3
<1>8. About(h, of) => About(more, of)
  BY <1>3, <1>5 DEF About
<1>9. Ends(more, q)
  BY <1>1, <1>3 DEF Ends
<1> QED
  BY <1>4, <1>6, <1>7, <1>8, <1>9 DEF Ordered, more

LEMMA TrimKeeps ==
    ASSUME NEW h, NEW last \in Nat, Ordered(h, last)
    PROVE  /\ Ordered(Trimmed(h), last)
           /\ \A of : About(h, of) => About(Trimmed(h), of)
           /\ \A q : Ends(h, q) => Ends(Trimmed(h), q)
<1>1. CASE layout.wide /\ Len(h) > Limit
  <2> DEFINE m == Len(h) - Limit
             r == SubSeq(h, m + 1, Len(h))
  <2>1. m \in Nat /\ m <= Len(h) /\ Limit \in Nat \ {0} /\ Len(h) \in Nat /\ Len(h) - m = Limit
    BY <1>1, GpuMergeAssumption, Sequences DEF Ordered
  <2>2. Trimmed(h) = r
    BY <1>1 DEF Trimmed
  <2>0. m + Limit = Len(h)
    BY <2>1
  <2> HIDE DEF m
  <2>3. /\ Sequence(r) /\ Len(r) = Limit
        /\ \A i \in 1..Limit : r[i] = h[m + i]
    BY <2>1, Dropped DEF Ordered
  <2> HIDE DEF r
  <2>4. \A k \in 1..Limit : m + k \in 1..Len(h)
    BY <2>1
  <2>5. ASSUME NEW k \in 1..(Limit - 1) PROVE r[k][2] < r[k + 1][2]
    <3>1. /\ m + k \in 1..(Len(h) - 1) /\ m + (k + 1) = (m + k) + 1
          /\ k \in 1..Limit /\ k + 1 \in 1..Limit
      BY <2>1
    <3>2. h[m + k][2] < h[(m + k) + 1][2]
      BY <3>1 DEF Ordered
    <3> QED
      BY <2>3, <3>1, <3>2
  <2>6. Ordered(r, last)
    BY <2>3, <2>4, <2>5 DEF Ordered
  <2>7. \A of : About(h, of) => About(r, of)
    BY <2>3, <2>4 DEF About
  <2>8. \A q : Ends(h, q) => Ends(r, q)
    <3>1. r[Limit] = h[Len(h)]
      <4>1. Limit \in 1..Limit
        BY <2>1
      <4> QED
        BY <2>0, <2>3, <4>1
    <3> QED
      BY <2>1, <2>3, <3>1 DEF Ends
  <2> QED
    BY <2>2, <2>6, <2>7, <2>8
<1>2. CASE ~(layout.wide /\ Len(h) > Limit)
  BY <1>2 DEF Trimmed
<1> QED
  BY <1>1, <1>2

Identified(c) == c.uuid # None \/ c.pci # None
\* What is known of a card is what the record says.
Says(c, r) ==
    /\ {"of", "uuid", "pci", "util", "hist"} \subseteq DOMAIN c
    /\ c.of = r.of /\ c.uuid = r.uuid /\ c.pci = r.pci /\ c.util = r.util

\* The cards of NVIDIA are those of the sample that the bridge holds.
Current ==
    /\ lastSeq \in Nat /\ snap.seq \in Nat /\ lastSeq <= snap.seq
    /\ nvidia > 0 => /\ snap.has /\ lastSeq = snap.seq /\ nvidia = Len(snap.devices)
                     /\ \A i \in 1..nvidia : Says(gpus[i], snap.devices[i])
Histories ==
    \A i \in 1..nvidia :
      /\ Ordered(gpus[i].hist, lastSeq)
      /\ Identified(gpus[i]) => About(gpus[i].hist, gpus[i].of)
      /\ gpus[i].util /\ ~resumed => Ends(gpus[i].hist, lastSeq)

\* The identities of a sample, and of the cards.
LEMMA Identities ==
    ASSUME NEW ds, \E f \in Frames : ds = f.devices
    PROVE  /\ DOMAIN ds = 1..Len(ds) /\ Len(ds) \in Nat
           /\ \A i \in 1..Len(ds) : ds[i].uuid \in {ds[i].of, None} /\ ds[i].pci \in {ds[i].of, None}
           /\ \A i, j \in 1..Len(ds) : ds[i].of = ds[j].of => i = j
<1> PICK f \in Frames : ds = f.devices
  OBVIOUS
<1>1. ds \in Seq(Device)
  BY GpuMergeAssumption
<1>2. DOMAIN ds = 1..Len(ds) /\ Len(ds) \in Nat
  BY <1>1
<1>3. \A i \in 1..Len(ds) : ds[i] \in ToSet(ds)
  BY <1>2 DEF ToSet
<1> QED
  BY <1>2, <1>3, GpuMergeAssumption

LEMMA CardIdentities ==
    ASSUME Lists, Current
    PROVE  /\ \A i \in 1..nvidia : /\ gpus[i].uuid \in {gpus[i].of, None}
                                   /\ gpus[i].pci \in {gpus[i].of, None}
           /\ \A i, j \in 1..nvidia : gpus[i].of = gpus[j].of => i = j
<1>1. CASE nvidia > 0
  <2>1. snap.has /\ nvidia = Len(snap.devices) /\ \A i \in 1..nvidia : Says(gpus[i], snap.devices[i])
    BY <1>1 DEF Current
  <2>2. \E f \in Frames : snap.devices = f.devices
    BY <2>1 DEF Lists
  <2> DEFINE ds == snap.devices
  <2>3. /\ \A i \in 1..nvidia : ds[i].uuid \in {ds[i].of, None} /\ ds[i].pci \in {ds[i].of, None}
        /\ \A i, j \in 1..nvidia : ds[i].of = ds[j].of => i = j
    BY <2>1, <2>2, Identities
  <2>4. \A i \in 1..nvidia : gpus[i].of = ds[i].of /\ gpus[i].uuid = ds[i].uuid /\ gpus[i].pci = ds[i].pci
    BY <2>1 DEF Says
  <2> HIDE DEF ds
  <2> QED
    BY <2>3, <2>4
<1>2. CASE ~(nvidia > 0)
  <2>1. 1..nvidia = {}
    BY <1>2 DEF Lists
  <2> QED
    BY <2>1
<1> QED
  BY <1>1, <1>2

\* A key finds the one card that has it.
LEMMA Found ==
    ASSUME Lists, Current, NEW k
    PROVE  /\ \A j \in 1..nvidia : k \in Keys(gpus[j], j) => OldAt(k) = j
           /\ \/ OldAt(k) = None
              \/ OldAt(k) \in 1..nvidia /\ k \in Keys(gpus[OldAt(k)], OldAt(k))
<1> DEFINE at == {j \in 1..nvidia : k \in Keys(gpus[j], j)}
<1>1. ASSUME NEW i \in 1..nvidia, NEW j \in 1..nvidia, k \in Keys(gpus[i], i), k \in Keys(gpus[j], j)
      PROVE  i = j
  BY <1>1, CardIdentities DEF Keys
<1>2. ASSUME NEW j \in at PROVE OldAt(k) = j
  <2>1. at = {j} /\ j \in Nat
    BY <1>1, <1>2
  <2>2. OldAt(k) = CHOOSE i \in at : \A other \in at : i <= other
    BY <2>1 DEF OldAt
  <2> QED
    BY <2>1, <2>2
<1>3. at = {} => OldAt(k) = None
  BY DEF OldAt
<1> QED
  BY <1>2, <1>3

\* The old card of a record that has an identity is the same card.
LEMMA OldCard ==
    ASSUME Lists, Current, NEW r, NEW i \in Nat,
           r.uuid \in {r.of, None}, r.pci \in {r.of, None}
    PROVE  /\ Old(r, i) = None \/ Old(r, i) \in 1..nvidia
           /\ Identified(r) /\ Old(r, i) # None =>
                Identified(gpus[Old(r, i)]) /\ gpus[Old(r, i)].of = r.of
<1> DEFINE k1 == <<"uuid", r.uuid>>
           k2 == <<"pci", r.pci>>
           k3 == <<"index", i>>
<1>1. \/ Old(r, i) = None
      \/ Old(r, i) = OldAt(k1) /\ r.uuid # None
      \/ Old(r, i) = OldAt(k2) /\ r.pci # None
      \/ Old(r, i) = OldAt(k3) /\ ~Identified(r)
  BY DEF Old, Identified
<1>2. ASSUME r.uuid # None, OldAt(k1) # None
      PROVE  Identified(gpus[OldAt(k1)]) /\ gpus[OldAt(k1)].of = r.of
  <2>1. OldAt(k1) \in 1..nvidia /\ k1 \in Keys(gpus[OldAt(k1)], OldAt(k1))
    BY <1>2, Found
  <2>2. gpus[OldAt(k1)].uuid = r.uuid
    BY <2>1 DEF Keys
  <2> QED
    BY <1>2, <2>1, <2>2, CardIdentities DEF Identified
<1>3. ASSUME r.pci # None, OldAt(k2) # None
      PROVE  Identified(gpus[OldAt(k2)]) /\ gpus[OldAt(k2)].of = r.of
  <2>1. OldAt(k2) \in 1..nvidia /\ k2 \in Keys(gpus[OldAt(k2)], OldAt(k2))
    BY <1>3, Found
  <2>2. gpus[OldAt(k2)].pci = r.pci
    BY <2>1 DEF Keys
  <2> QED
    BY <1>3, <2>1, <2>2, CardIdentities DEF Identified
<1>4. \A k : OldAt(k) = None \/ OldAt(k) \in 1..nvidia
  BY Found
<1> QED
  BY <1>1, <1>2, <1>3, <1>4

\* A record that says again what is known of the card at its place finds it there.
LEMMA SameCard ==
    ASSUME Lists, Current, NEW i \in 1..nvidia, NEW r,
           r.uuid = gpus[i].uuid, r.pci = gpus[i].pci
    PROVE  Old(r, i) = i
<1>1. i # None
  BY DEF None
<1>2. \A k : k \in Keys(gpus[i], i) => OldAt(k) = i
  BY Found
<1>3. CASE r.uuid # None
  <2>1. <<"uuid", r.uuid>> \in Keys(gpus[i], i)
    BY <1>3 DEF Keys
  <2>2. OldAt(<<"uuid", r.uuid>>) = i
    BY <1>2, <2>1
  <2> QED
    BY <1>1, <1>3, <2>2 DEF Old
<1>4. CASE r.uuid = None /\ r.pci # None
  <2>1. <<"pci", r.pci>> \in Keys(gpus[i], i)
    BY <1>4 DEF Keys
  <2>2. OldAt(<<"pci", r.pci>>) = i
    BY <1>2, <2>1
  <2> QED
    BY <1>1, <1>4, <2>2 DEF Old
<1>5. CASE r.uuid = None /\ r.pci = None
  <2>1. <<"index", i>> \in Keys(gpus[i], i)
    BY <1>5 DEF Keys
  <2>2. OldAt(<<"index", i>>) = i
    BY <1>2, <2>1
  <2> QED
    BY <1>1, <1>5, <2>2 DEF Old
<1> QED
  BY <1>3, <1>4, <1>5

\* The history that a record of a sample finds.
LEMMA Inherits ==
    ASSUME Lists, Current, Histories, NEW s, \E f \in Frames : s.devices = f.devices,
           NEW i \in 1..Len(s.devices)
    PROVE  LET h == OldHistory(s, i)
           IN Ordered(h, lastSeq) /\ (Identified(s.devices[i]) => About(h, s.devices[i].of))
<1> DEFINE r == s.devices[i]
           j == Old(r, i)
           h == OldHistory(s, i)
<1>1. /\ i \in Nat /\ r.uuid \in {r.of, None} /\ r.pci \in {r.of, None}
  BY Identities
<1> HIDE DEF r
<1>2. /\ j = None \/ j \in 1..nvidia
      /\ Identified(r) /\ j # None => Identified(gpus[j]) /\ gpus[j].of = r.of
  BY <1>1, OldCard
<1> HIDE DEF j
<1>3. h = <<>> \/ (j # None /\ h = gpus[j].hist)
  BY DEF OldHistory, j, r
<1> HIDE DEF h
<1>4. CASE h = <<>>
  BY <1>4, EmptyOrdered DEF h, r
<1>5. CASE j # None /\ h = gpus[j].hist
  BY <1>2, <1>5 DEF Histories, h, r
<1> QED
  BY <1>3, <1>4, <1>5

LEMMA Again ==
    ASSUME Lists, Current, NEW i \in 1..nvidia
    PROVE  OldHistory(snap, i) = gpus[i].hist
<1>1. nvidia \in Nat /\ nvidia > 0
  BY DEF Lists
<1>2. \A k \in 1..nvidia : Says(gpus[k], snap.devices[k])
  BY <1>1 DEF Current
<1>3. \A k \in 1..nvidia : Old(snap.devices[k], k) = k
  BY <1>2, SameCard DEF Says
<1>4. ~\E k \in 1..(i - 1) : Old(snap.devices[k], k) = i
  <2>1. \A k \in 1..(i - 1) : k \in 1..nvidia /\ k # i
    BY <1>1
  <2> QED
    BY <1>3, <2>1
<1>5. i # None
  BY DEF None
<1> QED
  BY <1>3, <1>4, <1>5 DEF OldHistory

\* What Gpu::collect() makes of the sample for the cards of NVIDIA.
LEMMA Collected ==
    ASSUME Lists, Behind, Collect
    PROVE  \E s \in Polled, n \in Nat :
             /\ n = IF s.has /\ enabled THEN Len(s.devices) ELSE 0
             /\ snap' = s /\ nvidia' = n
             /\ lastSeq' = IF s.has THEN s.seq ELSE IF enabled THEN lastSeq ELSE 0
             /\ resumed' = (enabled /\ ~NewSample(s) /\ (resumed \/ nvidia < n))
             /\ \A i \in 1..n : /\ Says(gpus'[i], s.devices[i])
                                /\ gpus'[i].hist = Trimmed(Merged(s, i).hist)
<1>1. PICK s \in Polled :
        LET n     == IF s.has /\ enabled THEN Len(s.devices) ELSE 0
            next  == [i \in 1..n |-> Merged(s, i)] \o Sampled(Rest(n))
            total == Len(next)
        IN /\ snap' = s /\ nvidia' = n
           /\ gpus' = [i \in 1..total |-> [next[i] EXCEPT !.hist = Trimmed(@)]]
           /\ lastSeq' = IF s.has THEN s.seq ELSE IF enabled THEN lastSeq ELSE 0
           /\ resumed' = (enabled /\ ~NewSample(s) /\ (resumed \/ nvidia < n))
  BY DEF Collect
<1> DEFINE n == IF s.has /\ enabled THEN Len(s.devices) ELSE 0
           next == [i \in 1..n |-> Merged(s, i)] \o Sampled(Rest(n))
           total == n + Len(Others)
<1>2. n \in Nat
  BY PolledSample, GpuMergeAssumption
<1>3. Len(next) = total /\ \A i \in 1..n : next[i] = Merged(s, i)
  BY <1>2, NextList
<1>4. /\ snap' = s /\ nvidia' = n
      /\ lastSeq' = IF s.has THEN s.seq ELSE IF enabled THEN lastSeq ELSE 0
      /\ resumed' = (enabled /\ ~NewSample(s) /\ (resumed \/ nvidia < n))
  BY <1>1
<1>5. gpus' = [i \in 1..total |-> [next[i] EXCEPT !.hist = Trimmed(@)]]
  BY <1>1, <1>3
<1>6. n = IF s.has /\ enabled THEN Len(s.devices) ELSE 0
  OBVIOUS
<1> HIDE DEF n, next
<1>7. \A i \in 1..n : i \in 1..total
  BY <1>2, OthersLength
<1>8. \A i \in 1..n : gpus'[i] = [Merged(s, i) EXCEPT !.hist = Trimmed(@)]
  BY <1>3, <1>5, <1>7
<1>9. \A i \in 1..n : /\ Says(Merged(s, i), s.devices[i]) /\ DOMAIN Merged(s, i) = {"of", "uuid", "pci", "util", "hist"}
  BY DEF Merged, Says
<1>10. \A i \in 1..n : /\ Says(gpus'[i], s.devices[i])
                       /\ gpus'[i].hist = Trimmed(Merged(s, i).hist)
  BY <1>8, <1>9 DEF Says
<1> QED
  BY <1>2, <1>4, <1>6, <1>10

LEMMA Numbers ==
    ASSUME Current, NEW s \in Polled, enabled \in BOOLEAN
    PROVE  /\ s.seq \in Nat /\ (s = snap \/ s.seq > snap.seq)
           /\ s.seq >= lastSeq
<1>1. CASE s = snap
  BY <1>1 DEF Current
<1>2. CASE s # snap
  <2>1. PICK q \in (snap.seq + 1) .. (IF snap.seq + 2 <= MaxSamples THEN snap.seq + 2 ELSE MaxSamples) :
          s.seq = q
    BY <1>2 DEF Polled
  <2>2. q \in Int /\ snap.seq < q
    BY <2>1, GpuMergeAssumption DEF Current
  <2> QED
    BY <2>1, <2>2 DEF Current
<1> QED
  BY <1>1, <1>2

LEMMA HistoriesKept ==
    ASSUME Lists, Behind, Current, Histories, enabled \in BOOLEAN, resumed \in BOOLEAN, [Next]_vars
    PROVE  Current' /\ Histories'
<1>1. CASE Collect
  <2>1. PICK s \in Polled, n \in Nat :
           /\ n = IF s.has /\ enabled THEN Len(s.devices) ELSE 0
           /\ snap' = s /\ nvidia' = n
           /\ lastSeq' = IF s.has THEN s.seq ELSE IF enabled THEN lastSeq ELSE 0
           /\ resumed' = (enabled /\ ~NewSample(s) /\ (resumed \/ nvidia < n))
           /\ \A i \in 1..n : /\ Says(gpus'[i], s.devices[i])
                              /\ gpus'[i].hist = Trimmed(Merged(s, i).hist)
    BY <1>1, Collected
  <2>2. s.has \in BOOLEAN /\ (s.has => \E f \in Frames : s.devices = f.devices)
    BY PolledSample
  <2>3. s.seq \in Nat /\ (s = snap \/ s.seq > snap.seq) /\ s.seq >= lastSeq /\ lastSeq \in Nat
    BY Numbers DEF Current
  <2>4. Current'
    BY <2>1, <2>2, <2>3 DEF Current
  <2>5. ASSUME NEW i \in 1..n
        PROVE  /\ Ordered(gpus'[i].hist, s.seq)
               /\ Identified(s.devices[i]) => About(gpus'[i].hist, s.devices[i].of)
               /\ s.devices[i].util /\ ~resumed' => Ends(gpus'[i].hist, s.seq)
    <3> DEFINE r == s.devices[i]
               old == OldHistory(s, i)
               h == Merged(s, i).hist
    <3>1. s.has /\ enabled /\ n = Len(s.devices) /\ \E f \in Frames : s.devices = f.devices
      BY <2>1, <2>2
    <3>2. Ordered(old, lastSeq) /\ (Identified(r) => About(old, r.of))
      BY <3>1, Inherits
    <3>3. h = IF NewSample(s) /\ r.util THEN Append(old, <<r.of, s.seq>>) ELSE old
      BY DEF Merged
    <3>4. gpus'[i].hist = Trimmed(h)
      BY <2>1
    <3>5. ~NewSample(s) => s = snap /\ s.seq = lastSeq
      BY <2>3, <3>1 DEF NewSample, Current
    <3>6. ~NewSample(s) /\ nvidia > 0 /\ r.util /\ ~resumed => Ends(old, s.seq)
      <4> SUFFICES ASSUME ~NewSample(s), nvidia > 0, r.util, ~resumed PROVE Ends(old, s.seq)
        OBVIOUS
      <4>1. s = snap /\ nvidia = n /\ Says(gpus[i], r)
        BY <3>1, <3>5 DEF Current
      <4>2. old = gpus[i].hist
        BY <4>1, Again
      <4> QED
        BY <3>5, <4>1, <4>2 DEF Histories, Says
    <3>7. ~NewSample(s) /\ ~resumed' => nvidia > 0 /\ ~resumed
      <4>1. resumed' = (enabled /\ ~NewSample(s) /\ (resumed \/ nvidia < n))
        BY <2>1
      <4>2. ~NewSample(s) /\ ~resumed' => ~(nvidia < n) /\ ~resumed
        BY <3>1, <4>1, Zenon
      <4>3. ~(nvidia < n) => nvidia > 0
        BY <2>1 DEF Lists
      <4> QED
        BY <4>2, <4>3
    <3> HIDE DEF old, r
    <3>8. /\ Ordered(h, s.seq) /\ (Identified(r) => About(h, r.of))
          /\ r.util /\ ~resumed' => Ends(h, s.seq)
      <4>1. CASE NewSample(s) /\ r.util
        <5>1. s.seq > lastSeq
          BY <2>3, <4>1 DEF NewSample
        <5> QED
          BY <2>3, <3>2, <3>3, <4>1, <5>1, Appends
      <4>2. CASE ~(NewSample(s) /\ r.util)
        <5>1. h = old
          BY <3>3, <4>2
        <5>2. Ordered(old, s.seq)
          BY <2>3, <3>2 DEF Ordered
        <5> QED
          BY <3>2, <3>6, <3>7, <4>2, <5>1, <5>2
      <4> QED
        BY <4>1, <4>2
    <3> HIDE DEF h
    <3>9. /\ Ordered(Trimmed(h), s.seq)
          /\ About(h, r.of) => About(Trimmed(h), r.of)
          /\ Ends(h, s.seq) => Ends(Trimmed(h), s.seq)
      BY <2>3, <3>8, TrimKeeps
    <3> QED
      BY <3>4, <3>8, <3>9 DEF r
  <2>6. n > 0 => lastSeq' = s.seq
    BY <2>1, <2>2
  <2>7. Histories'
    BY <2>1, <2>5, <2>6 DEF Histories, Says, Identified
  <2> QED
    BY <2>4, <2>7
<1>2. CASE UNCHANGED merged
  BY <1>2 DEF merged, Current, Histories, Says, Identified, Ordered, About, Ends, Sequence
<1> QED
  BY <1>1, <1>2 DEF Next, vars, merged, CollectNothing, Draw, Stopped, KeyBox, ToggleBox, KeyView, Resize,
     Resized, Tick, ShownGpus

LEMMA Switches ==
    ASSUME enabled \in BOOLEAN, resumed \in BOOLEAN, [Next]_vars
    PROVE  enabled' \in BOOLEAN /\ resumed' \in BOOLEAN
  BY DEF Next, vars, merged, Collect, CollectNothing, Draw, Stopped, KeyBox, ToggleBox, KeyView, Resize,
     Resized, Tick, ShownGpus, NewSample

\* The graph of a card shows its own samples, each once and in their order, up to
\* the latest one: cards may come, go and change places with every sample
\* (Gpu::collect() finds the old card by its UUID or its PCI address).
THEOREM HistoriesAreOwn == Spec => []DeviceHistories
<1> DEFINE Inv == /\ Lists /\ Behind /\ Current /\ Histories
                  /\ enabled \in BOOLEAN /\ resumed \in BOOLEAN
<1>1. Init => Inv
  <2> SUFFICES ASSUME Init PROVE Inv
    OBVIOUS
  <2>1. Current /\ Histories
    BY DEF Init, Current, Histories
  <2> QED
    BY <2>1, Start, StartBehind DEF Init
<1>2. Inv /\ [Next]_vars => Inv'
  BY ListsKept, BehindKept, HistoriesKept, Switches
<1>3. Inv => DeviceHistories
  <2> SUFFICES ASSUME Inv PROVE DeviceHistories
    OBVIOUS
  <2>1. \A i \in 1..nvidia : /\ DOMAIN gpus[i].hist = 1..Len(gpus[i].hist)
                             /\ Len(gpus[i].hist) \in Nat
    BY Sequences DEF Histories, Ordered
  <2>2. HistoryOfDevice
    BY <2>1 DEF HistoryOfDevice, Nvidia, Histories, About, Identified
  <2>3. SampleCountedOnce
    <3> SUFFICES ASSUME NEW i \in 1..nvidia
                 PROVE  LET h == gpus[i].hist
                        IN /\ \A k \in 1..(Len(h) - 1) : h[k][2] < h[k + 1][2]
                           /\ gpus[i].util /\ ~resumed => h # <<>> /\ Last(h)[2] = lastSeq
      BY DEF SampleCountedOnce, Nvidia
    <3> DEFINE h == gpus[i].hist
    <3>1. \A k \in 1..(Len(h) - 1) : h[k][2] < h[k + 1][2]
      BY DEF Histories, Ordered
    <3>2. gpus[i].util /\ ~resumed => Ends(h, lastSeq)
      BY DEF Histories
    <3> HIDE DEF h
    <3>3. Ends(h, lastSeq) => h # <<>> /\ Last(h)[2] = lastSeq
      BY DEF Ends, Last
    <3> QED
      BY <3>1, <3>2, <3>3 DEF h
  <2> QED
    BY <2>2, <2>3 DEF DeviceHistories
<1> QED
  BY <1>1, <1>2, <1>3, PTL DEF Spec
-----------------------------------------------------------------------------
(* The processes.                                                          *)

\* What holds of zero and of a number's successor holds of every number.
LEMMA NatInduct ==
    ASSUME NEW T, T \subseteq Nat, 0 \in T, \A n \in T : n + 1 \in T
    PROVE  T = Nat
<1> SUFFICES ASSUME Nat \ T # {} PROVE FALSE
  OBVIOUS
<1> DEFINE D == {0..n : n \in Nat \ T}
<1>1. D # {} /\ D \subseteq FiniteSubsetsOf(Nat)
  <2>1. ASSUME NEW n \in Nat PROVE 0..n \in FiniteSubsetsOf(Nat)
    BY FS_Interval DEF FiniteSubsetsOf
  <2> QED
    BY <2>1
<1>2. PICK d \in D : \A e \in D : ~ (<<e, d>> \in StrictSubsetOrdering(Nat))
  <2> HIDE DEF D
  <2> QED
  BY <1>1, WFMin, FS_StrictSubsetOrderingWellFounded
<1>3. PICK n \in Nat \ T : d = 0..n
  OBVIOUS
<1>4. n - 1 \in Nat \ T
  OBVIOUS
<1>5. 0..(n - 1) \in D
  BY <1>4
<1>6. <<0..(n - 1), 0..n>> \in StrictSubsetOrdering(Nat)
  <2>1. n \in 0..n /\ n \notin 0..(n - 1) /\ 0..(n - 1) \subseteq 0..n /\ 0..n \subseteq Nat
    OBVIOUS
  <2> QED
    BY <2>1 DEF StrictSubsetOrdering
<1> QED
  BY <1>2, <1>3, <1>5, <1>6


\* What the rows of a sample are, and what is added up of them.
Row == [dev : Nat, pid : Nat \ {None}, mem : 0..MaxMem]
Proc == [pid : Nat \ {None}, devs : Seq(Nat), mem : 0..MaxMem, whole : BOOLEAN]

LEMMA Memory == MaxMem \in Nat /\ None \in 0..MaxMem
  BY GpuMergeAssumption DEF None

\* One row goes to the process that is there, or to a new one.
NewProc(pid) == [pid |-> pid, devs |-> <<>>, mem |-> None, whole |-> TRUE]
MoreDevs(p, row) == IF Contains(p.devs, row.dev) THEN p.devs ELSE Append(p.devs, row.dev)
MoreMem(p, row) == IF p.mem > MaxMem - row.mem THEN MaxMem ELSE p.mem + row.mem
More(p, row) == [pid |-> p.pid, devs |-> MoreDevs(p, row), mem |-> MoreMem(p, row),
                 whole |-> p.whole /\ row.mem # None]

LEMMA MoreOfProc ==
    ASSUME NEW p \in Proc, NEW row \in Row
    PROVE  /\ More(p, row) \in Proc
           /\ More(p, row) = [p EXCEPT
                !.devs = IF Contains(@, row.dev) THEN @ ELSE Append(@, row.dev),
                !.mem = IF @ > MaxMem - row.mem THEN MaxMem ELSE @ + row.mem,
                !.whole = @ /\ row.mem # None]
<1>1. /\ p.pid \in Nat \ {None} /\ p.devs \in Seq(Nat) /\ p.mem \in 0..MaxMem /\ p.whole \in BOOLEAN
      /\ row.dev \in Nat /\ row.mem \in 0..MaxMem
  BY DEF Proc, Row
<1>2. MoreDevs(p, row) \in Seq(Nat)
  BY <1>1 DEF MoreDevs
<1>3. MoreMem(p, row) \in 0..MaxMem
  BY <1>1, Memory DEF MoreMem
<1>4. (p.whole /\ row.mem # None) \in BOOLEAN
  OBVIOUS
<1>5. More(p, row) \in Proc
  BY <1>1, <1>2, <1>3, <1>4 DEF More, Proc
<1>6. p = [pid |-> p.pid, devs |-> p.devs, mem |-> p.mem, whole |-> p.whole]
  BY DEF Proc
<1>7. [p EXCEPT !.devs = IF Contains(@, row.dev) THEN @ ELSE Append(@, row.dev),
                !.mem = IF @ > MaxMem - row.mem THEN MaxMem ELSE @ + row.mem,
                !.whole = @ /\ row.mem # None]
      = [p EXCEPT !.devs = MoreDevs(p, row), !.mem = MoreMem(p, row), !.whole = p.whole /\ row.mem # None]
  BY <1>6 DEF MoreDevs, MoreMem
<1> DEFINE whole == p.whole /\ row.mem # None
           devs == MoreDevs(p, row)
           mem == MoreMem(p, row)
<1>8. [p EXCEPT !.devs = devs, !.mem = mem, !.whole = whole]
      = [pid |-> p.pid, devs |-> devs, mem |-> mem, whole |-> whole]
  <2> DEFINE q == [p EXCEPT !.devs = devs, !.mem = mem, !.whole = whole]
  <2>1. devs \in Seq(Nat) /\ mem \in 0..MaxMem /\ whole \in BOOLEAN
    BY <1>2, <1>3
  <2> HIDE DEF whole, devs, mem
  <2>2. q \in Proc /\ q.pid = p.pid /\ q.devs = devs /\ q.mem = mem /\ q.whole = whole
    BY <2>1 DEF Proc
  <2> HIDE DEF q
  <2>3. q = [pid |-> q.pid, devs |-> q.devs, mem |-> q.mem, whole |-> q.whole]
    BY <2>2 DEF Proc
  <2> QED
    BY <2>2, <2>3 DEF q
<1> QED
  BY <1>5, <1>7, <1>8 DEF More

LEMMA RowAdded ==
    ASSUME NEW ps \in Seq(Proc), NEW row \in Row
    PROVE  LET new == AddRow(ps, row)
           IN \E i \in Nat, old \in Proc :
                /\ new \in Seq(Proc) /\ i \in DOMAIN new /\ new[i] = More(old, row) /\ old.pid = row.pid
                /\ \A j \in DOMAIN ps : j \in DOMAIN new /\ (j # i => new[j] = ps[j])
                /\ \A j \in DOMAIN new : j = i \/ j \in DOMAIN ps
                /\ \/ i \in DOMAIN ps /\ old = ps[i]
                   \/ i \notin DOMAIN ps /\ old = NewProc(row.pid) /\ \A j \in DOMAIN ps : ps[j].pid # row.pid
<1> DEFINE at == {i \in DOMAIN ps : ps[i].pid = row.pid}
           first == CHOOSE i \in at : TRUE
           p == IF at = {} THEN NewProc(row.pid) ELSE ps[first]
           new == AddRow(ps, row)
<1>1. NewProc(row.pid) \in Proc
  <2>1. <<>> \in Seq(Nat) /\ row.pid \in Nat \ {None}
    BY DEF Row
  <2> QED
    BY <2>1, Memory DEF NewProc, Proc
<1>2. p \in Proc /\ p.pid = row.pid
  BY <1>1 DEF NewProc
<1>3. new = IF at = {} THEN Append(ps, More(p, row)) ELSE [ps EXCEPT ![first] = More(p, row)]
  <2> DEFINE q == [p EXCEPT !.devs = IF Contains(@, row.dev) THEN @ ELSE Append(@, row.dev),
                            !.mem = IF @ > MaxMem - row.mem THEN MaxMem ELSE @ + row.mem,
                            !.whole = @ /\ row.mem # None]
  <2>1. new = IF at = {} THEN Append(ps, q) ELSE [ps EXCEPT ![first] = q]
    BY DEF AddRow, NewProc
  <2> HIDE DEF p, at, new
  <2>2. q = More(p, row)
    BY <1>2, MoreOfProc
  <2> HIDE DEF q
  <2> QED
    BY <2>1, <2>2
<1>4. More(p, row) \in Proc
  <2> HIDE DEF p
  <2> QED
    BY <1>2, MoreOfProc
<1>5. Len(ps) \in Nat /\ DOMAIN ps = 1..Len(ps)
  OBVIOUS
<1>6. CASE at = {}
  <2>1. new = Append(ps, More(p, row)) /\ p = NewProc(row.pid) /\ \A j \in DOMAIN ps : ps[j].pid # row.pid
    BY <1>3, <1>6
  <2> HIDE DEF p, new
  <2>2. /\ new \in Seq(Proc) /\ Len(new) = Len(ps) + 1 /\ new[Len(ps) + 1] = More(p, row)
        /\ \A j \in 1..Len(ps) : new[j] = ps[j]
    BY <1>4, <2>1, AppendProperties
  <2>3. DOMAIN new = 1..(Len(ps) + 1)
    BY <2>2
  <2> DEFINE i == Len(ps) + 1
  <2>4. i \in Nat /\ i \in DOMAIN new /\ new[i] = More(p, row)
    BY <1>5, <2>2, <2>3
  <2>5. \A j \in DOMAIN ps : j \in DOMAIN new /\ new[j] = ps[j]
    BY <1>5, <2>2, <2>3
  <2>6. \A j \in DOMAIN new : j = i \/ j \in DOMAIN ps
    BY <1>5, <2>3
  <2>7. i \notin DOMAIN ps
    BY <1>5
  <2> HIDE DEF i
  <2> QED
    BY <1>2, <2>1, <2>2, <2>4, <2>5, <2>6, <2>7 DEF new
<1>7. CASE at # {}
  <2>1. first \in at
    BY <1>7
  <2>2. new = [ps EXCEPT ![first] = More(p, row)] /\ p = ps[first]
    BY <1>3, <1>7
  <2>3. first \in DOMAIN ps /\ first \in Nat
    BY <2>1, <1>5
  <2> HIDE DEF p, new, first
  <2>4. new \in Seq(Proc) /\ DOMAIN new = DOMAIN ps /\ new[first] = More(p, row)
    BY <1>4, <2>2, <2>3
  <2>5. \A j \in DOMAIN ps : j # first => new[j] = ps[j]
    BY <2>2
  <2> QED
    BY <1>2, <2>2, <2>3, <2>4, <2>5 DEF new
<1> QED
  BY <1>6, <1>7

\* The sums as functions of the number of rows.
SumsStep(f, rows, cards, n) ==
    IF n = 0 THEN <<>>
    ELSE IF rows[n].dev < cards THEN AddRow(f[n - 1], rows[n]) ELSE f[n - 1]
UsedStep(f, rows, pid, n) ==
    IF n = 0 THEN 0 ELSE f[n - 1] + (IF rows[n].pid = pid THEN rows[n].mem ELSE 0)
SumsOf(rows, cards) == CHOOSE f : f = [n \in 0..Len(rows) |-> SumsStep(f, rows, cards, n)]
UsedOf(rows, pid) == CHOOSE f : f = [n \in 0..Len(rows) |-> UsedStep(f, rows, pid, n)]

LEMMA SumsDefined ==
    ASSUME NEW rows, NEW cards, Len(rows) \in Nat
    PROVE  /\ Added(rows, cards) = SumsOf(rows, cards)[Len(rows)]
           /\ \A n \in 0..Len(rows) :
                SumsOf(rows, cards)[n] = SumsStep(SumsOf(rows, cards), rows, cards, n)
<1> DEFINE Upto(f, n) == f = [i \in 0..n |-> SumsStep(f, rows, cards, i)]
           T == {n \in Nat : \E f : Upto(f, n)}
<1>1. 0 \in T
  <2>1. Upto([i \in 0..0 |-> <<>>], 0)
    BY DEF SumsStep
  <2> QED
    BY <2>1
<1>2. ASSUME NEW n \in T PROVE n + 1 \in T
  <2>1. PICK f : Upto(f, n)
    OBVIOUS
  <2> DEFINE g == [i \in 0..(n + 1) |-> IF i = n + 1 THEN SumsStep(f, rows, cards, n + 1) ELSE f[i]]
  <2>2. ASSUME NEW i \in 0..(n + 1) PROVE g[i] = SumsStep(g, rows, cards, i)
    <3>1. i # 0 => i - 1 \in 0..n /\ g[i - 1] = f[i - 1]
      OBVIOUS
    <3>2. SumsStep(g, rows, cards, i) = SumsStep(f, rows, cards, i)
      BY <3>1 DEF SumsStep
    <3>3. g[i] = SumsStep(f, rows, cards, i)
      BY <2>1
    <3> QED
      BY <3>2, <3>3
  <2>3. Upto(g, n + 1)
    BY <2>2
  <2> QED
    BY <2>3, SMTT(30)
<1>3. T = Nat
  <2> HIDE DEF T
  <2>1. T \subseteq Nat
    BY DEF T
  <2> QED
    BY <1>1, <1>2, <2>1, NatInduct
<1>4. PICK f : Upto(f, Len(rows))
  BY <1>3
<1> DEFINE all == SumsOf(rows, cards)
<1>5. all = [n \in 0..Len(rows) |-> SumsStep(all, rows, cards, n)]
  BY <1>4 DEF SumsOf
<1>6. Added(rows, cards) = all[Len(rows)]
  BY DEF Added, SumsOf, SumsStep
<1> HIDE DEF all
<1>7. \A n \in 0..Len(rows) : all[n] = SumsStep(all, rows, cards, n)
  BY <1>5
<1> QED
  BY <1>6, <1>7 DEF all

LEMMA UsedDefined ==
    ASSUME NEW rows \in Seq(Row), NEW pid
    PROVE  \A n \in 0..Len(rows) : /\ UsedOf(rows, pid)[n] = UsedStep(UsedOf(rows, pid), rows, pid, n)
                                   /\ UsedOf(rows, pid)[n] \in Nat
<1> DEFINE Upto(f, n) == f = [i \in 0..n |-> UsedStep(f, rows, pid, i)]
           T == {n \in Nat : \E f : Upto(f, n)}
<1>1. 0 \in T
  <2>1. Upto([i \in 0..0 |-> 0], 0)
    BY DEF UsedStep
  <2> QED
    BY <2>1
<1>2. ASSUME NEW n \in T PROVE n + 1 \in T
  <2>1. PICK f : Upto(f, n)
    OBVIOUS
  <2> DEFINE g == [i \in 0..(n + 1) |-> IF i = n + 1 THEN UsedStep(f, rows, pid, n + 1) ELSE f[i]]
  <2>2. ASSUME NEW i \in 0..(n + 1) PROVE g[i] = UsedStep(g, rows, pid, i)
    <3>1. i # 0 => i - 1 \in 0..n /\ g[i - 1] = f[i - 1]
      OBVIOUS
    <3>2. UsedStep(g, rows, pid, i) = UsedStep(f, rows, pid, i)
      BY <3>1 DEF UsedStep
    <3>3. CASE i = n + 1
      BY <3>2, <3>3
    <3>4. CASE i # n + 1
      <4>1. i \in 0..n /\ g[i] = f[i]
        BY <3>4
      <4>2. f[i] = UsedStep(f, rows, pid, i)
        <5> HIDE DEF g
        <5> QED
          BY <2>1, <4>1
      <4> QED
        BY <3>2, <4>1, <4>2
    <3> QED
      BY <3>3, <3>4
  <2>3. n + 1 \in Nat /\ DOMAIN g = 0..(n + 1) /\ g = [i \in 0..(n + 1) |-> g[i]]
    OBVIOUS
  <2>4. Upto(g, n + 1)
    <3> HIDE DEF g
    <3> QED
      BY <2>2, <2>3
  <2> HIDE DEF g, Upto
  <2> QED
    BY <2>3, <2>4
<1>3. T = Nat
  <2> HIDE DEF T
  <2>1. T \subseteq Nat
    BY DEF T
  <2> QED
    BY <1>1, <1>2, <2>1, NatInduct
<1>4. PICK f : Upto(f, Len(rows))
  BY <1>3
<1> DEFINE all == UsedOf(rows, pid)
<1>5. all = [n \in 0..Len(rows) |-> UsedStep(all, rows, pid, n)]
  BY <1>4 DEF UsedOf
<1> HIDE DEF all
<1>6. \A n \in 0..Len(rows) : all[n] = UsedStep(all, rows, pid, n)
  BY <1>5
<1> DEFINE N == {n \in Nat : n <= Len(rows) => all[n] \in Nat}
<1>7. 0 \in N
  BY <1>6 DEF UsedStep
<1>8. ASSUME NEW n \in N PROVE n + 1 \in N
  <2> SUFFICES ASSUME n + 1 <= Len(rows) PROVE all[n + 1] \in Nat
    OBVIOUS
  <2>1. n + 1 \in 0..Len(rows) /\ n + 1 \in 1..Len(rows) /\ n + 1 - 1 = n
    OBVIOUS
  <2>2. rows[n + 1] \in Row /\ all[n] \in Nat
    BY <2>1
  <2>3. all[n + 1] = all[n] + (IF rows[n + 1].pid = pid THEN rows[n + 1].mem ELSE 0)
    BY <1>6, <2>1 DEF UsedStep
  <2>4. rows[n + 1].mem \in Nat
    BY <2>2, Memory DEF Row
  <2> QED
    BY <2>2, <2>3, <2>4
<1>9. N = Nat
  <2> HIDE DEF N
  <2>1. N \subseteq Nat
    BY DEF N
  <2> QED
    BY <1>7, <1>8, <2>1, NatInduct
<1>10. \A n \in 0..Len(rows) : all[n] \in Nat
  BY <1>9
<1> QED
  BY <1>6, <1>10 DEF all

\* What an entry has to say after n rows.
Of(rows, pid, n) == {j \in 1..n : rows[j].pid = pid}
Capped(m) == IF m > MaxMem THEN MaxMem ELSE m
Devices(p, rows, n) == IsInjective(p.devs) /\ ToSet(p.devs) = {rows[j].dev : j \in Of(rows, p.pid, n)}
Whole(p, rows, n) == p.whole <=> \A j \in Of(rows, p.pid, n) : rows[j].mem # None
Summed(p, rows, n) == p.mem = Capped(UsedOf(rows, p.pid)[n])
IsTotal(p, rows, n) == Devices(p, rows, n) /\ Whole(p, rows, n) /\ Summed(p, rows, n)

Totals(ps, rows, n) ==
    /\ \A j \in 1..n : \E i \in DOMAIN ps : ps[i].pid = rows[j].pid
    /\ \A i, j \in DOMAIN ps : ps[i].pid = ps[j].pid => i = j
    /\ \A i \in DOMAIN ps : IsTotal(ps[i], rows, n)

LEMMA RowAt ==
    ASSUME NEW rows \in Seq(Row), NEW n \in Nat, n < Len(rows)
    PROVE  /\ rows[n + 1] \in Row /\ n + 1 \in 1..Len(rows) /\ n + 1 \in 0..Len(rows) /\ n \in 0..Len(rows)
           /\ \A pid : Of(rows, pid, n + 1) = IF rows[n + 1].pid = pid THEN Of(rows, pid, n) \cup {n + 1}
                                              ELSE Of(rows, pid, n)
<1>1. rows[n + 1] \in Row /\ n + 1 \in 1..Len(rows) /\ n + 1 \in 0..Len(rows) /\ n \in 0..Len(rows)
  OBVIOUS
<1>2. 1..(n + 1) = (1..n) \cup {n + 1}
  OBVIOUS
<1>3. \A pid : Of(rows, pid, n + 1) = IF rows[n + 1].pid = pid THEN Of(rows, pid, n) \cup {n + 1}
                                      ELSE Of(rows, pid, n)
  BY <1>2 DEF Of
<1> QED
  BY <1>1, <1>3

\* A process that no row names uses nothing.
LEMMA Unused ==
    ASSUME NEW rows \in Seq(Row), NEW pid, NEW n \in 0..Len(rows), Of(rows, pid, n) = {}
    PROVE  UsedOf(rows, pid)[n] = 0
<1> DEFINE used == UsedOf(rows, pid)
           T == {k \in Nat : k <= n => used[k] = 0}
<1>1. Len(rows) \in Nat /\ n \in Nat /\ n <= Len(rows)
  OBVIOUS
<1>2. \A k \in 0..Len(rows) : used[k] = UsedStep(used, rows, pid, k)
  BY UsedDefined
<1> HIDE DEF used
<1>3. 0 \in T
  BY <1>1, <1>2 DEF UsedStep
<1>4. ASSUME NEW k \in T PROVE k + 1 \in T
  <2> SUFFICES ASSUME k + 1 <= n PROVE used[k + 1] = 0
    OBVIOUS
  <2>1. k \in Nat /\ k + 1 \in 1..n /\ k + 1 \in 0..Len(rows) /\ k + 1 # 0 /\ k + 1 - 1 = k /\ used[k] = 0
    BY <1>1
  <2>2. rows[k + 1].pid # pid
    BY <2>1 DEF Of
  <2>3. used[k + 1] = used[k] + 0
    BY <1>2, <2>1, <2>2 DEF UsedStep
  <2> QED
    BY <2>1, <2>3
<1>5. T = Nat
  <2> HIDE DEF T
  <2>1. T \subseteq Nat
    BY DEF T
  <2> QED
    BY <1>3, <1>4, <2>1, NatInduct
<1> QED
  BY <1>1, <1>5 DEF used

\* A card is put at the end of those of the process unless it is one of them.
LEMMA DevicesAdded ==
    ASSUME NEW p \in Proc, NEW row \in Row, IsInjective(p.devs)
    PROVE  IsInjective(MoreDevs(p, row)) /\ ToSet(MoreDevs(p, row)) = ToSet(p.devs) \cup {row.dev}
<1> DEFINE devs == p.devs
           dev == row.dev
<1>1. devs \in Seq(Nat) /\ dev \in Nat /\ IsInjective(devs)
  BY DEF Proc, Row
<1>2. MoreDevs(p, row) = IF Contains(devs, dev) THEN devs ELSE Append(devs, dev)
  BY DEF MoreDevs
<1> HIDE DEF devs, dev
<1>3. DOMAIN devs = 1..Len(devs) /\ Len(devs) \in Nat
  BY <1>1
<1>4. CASE Contains(devs, dev)
  <2>1. dev \in ToSet(devs)
    BY <1>3, <1>4 DEF Contains, ToSet
  <2>2. MoreDevs(p, row) = devs
    BY <1>2, <1>4
  <2> QED
    BY <1>1, <2>1, <2>2 DEF devs, dev
<1>5. CASE ~Contains(devs, dev)
  <2> DEFINE new == Append(devs, dev)
  <2>1. /\ new \in Seq(Nat) /\ Len(new) = Len(devs) + 1 /\ new[Len(devs) + 1] = dev
        /\ \A i \in 1..Len(devs) : new[i] = devs[i]
    BY <1>1, AppendProperties
  <2>2. MoreDevs(p, row) = new
    BY <1>2, <1>5
  <2> HIDE DEF new
  <2>3. DOMAIN new = 1..(Len(devs) + 1)
    BY <2>1
  <2>4. \A i \in 1..Len(devs) : devs[i] # dev
    BY <1>5 DEF Contains
  <2>5. IsInjective(new)
    <3> SUFFICES ASSUME NEW a \in DOMAIN new, NEW b \in DOMAIN new, new[a] = new[b] PROVE a = b
      BY DEF IsInjective
    <3>1. (a \in 1..Len(devs) \/ a = Len(devs) + 1) /\ (b \in 1..Len(devs) \/ b = Len(devs) + 1)
      BY <1>3, <2>3
    <3>2. CASE a \in 1..Len(devs) /\ b \in 1..Len(devs)
      <4>1. devs[a] = devs[b]
        BY <2>1, <3>2
      <4> QED
        BY <1>1, <1>3, <3>2, <4>1 DEF IsInjective
    <3> QED
      BY <2>1, <2>4, <3>1, <3>2
  <2>6. ToSet(new) = ToSet(devs) \cup {dev}
    <3>1. \A x \in ToSet(new) : x \in ToSet(devs) \cup {dev}
      <4> SUFFICES ASSUME NEW i \in 1..(Len(devs) + 1) PROVE new[i] \in ToSet(devs) \cup {dev}
        BY <2>3 DEF ToSet
      <4>1. CASE i = Len(devs) + 1
        BY <2>1, <4>1
      <4>2. CASE i \in 1..Len(devs)
        BY <1>3, <2>1, <4>2 DEF ToSet
      <4> QED
        BY <1>3, <4>1, <4>2
    <3>2. ASSUME NEW i \in 1..Len(devs) PROVE devs[i] \in ToSet(new)
      <4>1. i \in DOMAIN new /\ new[i] = devs[i]
        BY <1>3, <2>1, <2>3
      <4> QED
        BY <4>1 DEF ToSet
    <3>3. dev \in ToSet(new)
      <4>1. Len(devs) + 1 \in DOMAIN new
        BY <1>3, <2>3
      <4> QED
        BY <2>1, <4>1 DEF ToSet
    <3> QED
      BY <1>3, <3>1, <3>2, <3>3 DEF ToSet
  <2> QED
    BY <2>2, <2>5, <2>6 DEF devs, dev
<1> QED
  BY <1>4, <1>5

\* An entry stays right when its own row is added to it,
LEMMA OwnRow ==
    ASSUME NEW rows \in Seq(Row), NEW n \in Nat, n < Len(rows), NEW p \in Proc,
           p.pid = rows[n + 1].pid, IsTotal(p, rows, n)
    PROVE  IsTotal(More(p, rows[n + 1]), rows, n + 1)
<1> DEFINE row == rows[n + 1]
           q == More(p, row)
           pid == p.pid
<1>1. row \in Row /\ Of(rows, pid, n + 1) = Of(rows, pid, n) \cup {n + 1}
  BY RowAt
<1>2. q.pid = pid /\ q.devs = MoreDevs(p, row) /\ q.mem = MoreMem(p, row) /\ q.whole = (p.whole /\ row.mem # None)
  BY DEF More
<1>3. Devices(p, rows, n) /\ Whole(p, rows, n) /\ Summed(p, rows, n)
  BY DEF IsTotal
<1> HIDE DEF q
<1>4. Devices(q, rows, n + 1)
  <2>1. IsInjective(MoreDevs(p, row)) /\ ToSet(MoreDevs(p, row)) = ToSet(p.devs) \cup {row.dev}
    BY <1>1, <1>3, DevicesAdded DEF Devices
  <2>2. {rows[j].dev : j \in Of(rows, pid, n + 1)} = {rows[j].dev : j \in Of(rows, pid, n)} \cup {row.dev}
    BY <1>1
  <2>3. ToSet(p.devs) = {rows[j].dev : j \in Of(rows, pid, n)}
    BY <1>3 DEF Devices
  <2> HIDE DEF row, pid
  <2> QED
    BY <1>2, <2>1, <2>2, <2>3 DEF Devices
<1>5. Whole(q, rows, n + 1)
  BY <1>1, <1>2, <1>3 DEF Whole
<1>6. Summed(q, rows, n + 1)
  <2> DEFINE used == UsedOf(rows, pid)
             u == used[n]
             m == row.mem
  <2>1. u \in Nat /\ used[n + 1] = UsedStep(used, rows, pid, n + 1)
    BY UsedDefined, RowAt
  <2>2. used[n + 1] = u + m
    <3>1. n + 1 # 0 /\ n + 1 - 1 = n
      OBVIOUS
    <3> HIDE DEF used
    <3> QED
      BY <2>1, <3>1 DEF UsedStep
  <2>3. m \in 0..MaxMem
    BY <1>1 DEF Row
  <2>4. p.mem = Capped(u)
    BY <1>3 DEF Summed
  <2>5. q.mem = IF p.mem > MaxMem - m THEN MaxMem ELSE p.mem + m
    BY <1>2 DEF MoreMem
  <2> HIDE DEF u, m
  <2>6. q.mem = Capped(u + m)
    BY <2>1, <2>3, <2>4, <2>5, Memory DEF Capped
  <2> HIDE DEF used
  <2> QED
    BY <1>2, <2>2, <2>6 DEF Summed, used
<1> QED
  BY <1>4, <1>5, <1>6 DEF IsTotal, q

\* and when the row is one of another process.
LEMMA OtherRow ==
    ASSUME NEW rows \in Seq(Row), NEW n \in Nat, n < Len(rows), NEW p \in Proc,
           p.pid # rows[n + 1].pid, IsTotal(p, rows, n)
    PROVE  IsTotal(p, rows, n + 1)
<1> DEFINE pid == p.pid
           used == UsedOf(rows, pid)
<1>1. Of(rows, pid, n + 1) = Of(rows, pid, n)
  BY RowAt
<1>2. Devices(p, rows, n) /\ Whole(p, rows, n) /\ Summed(p, rows, n)
  BY DEF IsTotal
<1>3. used[n + 1] = used[n]
  <2>1. used[n] \in Nat /\ used[n + 1] = UsedStep(used, rows, pid, n + 1)
    BY UsedDefined, RowAt
  <2>2. n + 1 # 0 /\ n + 1 - 1 = n
    OBVIOUS
  <2> HIDE DEF used
  <2>3. used[n + 1] = used[n] + 0
    BY <2>1, <2>2 DEF UsedStep
  <2> QED
    BY <2>1, <2>3
<1>4. Devices(p, rows, n + 1)
  BY <1>1, <1>2 DEF Devices
<1>5. Whole(p, rows, n + 1)
  BY <1>1, <1>2 DEF Whole
<1>6. Summed(p, rows, n + 1)
  BY <1>2, <1>3 DEF Summed
<1> QED
  BY <1>4, <1>5, <1>6 DEF IsTotal

\* A process that has had no row begins with nothing.
LEMMA NothingYet ==
    ASSUME NEW rows \in Seq(Row), NEW n \in 0..Len(rows), NEW pid, Of(rows, pid, n) = {}
    PROVE  IsTotal(NewProc(pid), rows, n)
<1> DEFINE p == NewProc(pid)
<1>1. p.pid = pid /\ p.devs = <<>> /\ p.mem = 0 /\ p.whole = TRUE
  BY DEF NewProc, None
<1> HIDE DEF p
<1>2. ToSet(<<>>) = {} /\ IsInjective(<<>>)
  BY DEF ToSet, IsInjective
<1>3. Devices(p, rows, n) /\ Whole(p, rows, n)
  BY <1>1, <1>2 DEF Devices, Whole
<1>4. Summed(p, rows, n)
  BY <1>1, Unused, Memory DEF Summed, Capped
<1> QED
  BY <1>3, <1>4 DEF IsTotal, p

\* So every row leaves the entries right,
LEMMA RowKeepsTotals ==
    ASSUME NEW rows \in Seq(Row), NEW n \in Nat, n < Len(rows),
           NEW ps \in Seq(Proc), Totals(ps, rows, n)
    PROVE  AddRow(ps, rows[n + 1]) \in Seq(Proc) /\ Totals(AddRow(ps, rows[n + 1]), rows, n + 1)
<1> DEFINE row == rows[n + 1]
           new == AddRow(ps, row)
<1>1. row \in Row /\ n \in 0..Len(rows)
  BY RowAt
<1>2. PICK i \in Nat, old \in Proc :
        /\ new \in Seq(Proc) /\ i \in DOMAIN new /\ new[i] = More(old, row) /\ old.pid = row.pid
        /\ \A j \in DOMAIN ps : j \in DOMAIN new /\ (j # i => new[j] = ps[j])
        /\ \A j \in DOMAIN new : j = i \/ j \in DOMAIN ps
        /\ \/ i \in DOMAIN ps /\ old = ps[i]
           \/ i \notin DOMAIN ps /\ old = NewProc(row.pid) /\ \A j \in DOMAIN ps : ps[j].pid # row.pid
  <2> HIDE DEF row
  <2> QED
    BY <1>1, RowAdded
<1> HIDE DEF new
<1>3. new[i].pid = row.pid
  BY <1>2 DEF More
<1>4. \A j \in DOMAIN ps : j # i => ps[j].pid # row.pid
  BY <1>2 DEF Totals
<1>5. IsTotal(old, rows, n)
  <2>1. CASE i \in DOMAIN ps /\ old = ps[i]
    BY <2>1 DEF Totals
  <2>2. CASE old = NewProc(row.pid) /\ \A j \in DOMAIN ps : ps[j].pid # row.pid
    <3>1. Of(rows, row.pid, n) = {}
      BY <2>2 DEF Totals, Of
    <3> QED
      BY <1>1, <2>2, <3>1, NothingYet
  <2> QED
    BY <1>2, <2>1, <2>2
<1>6. IsTotal(new[i], rows, n + 1)
  BY <1>2, <1>5, OwnRow
<1>7. ASSUME NEW j \in DOMAIN new, j # i PROVE IsTotal(new[j], rows, n + 1) /\ new[j].pid # row.pid
  <2>1. j \in DOMAIN ps /\ new[j] = ps[j] /\ ps[j] \in Proc /\ ps[j].pid # row.pid
    BY <1>2, <1>4, <1>7
  <2>2. IsTotal(ps[j], rows, n)
    BY <2>1 DEF Totals
  <2> QED
    BY <2>1, <2>2, OtherRow
<1>8. \A j \in DOMAIN new : IsTotal(new[j], rows, n + 1)
  BY <1>6, <1>7
<1>9. \A j, k \in DOMAIN new : new[j].pid = new[k].pid => j = k
  <2> SUFFICES ASSUME NEW j \in DOMAIN new, NEW k \in DOMAIN new, new[j].pid = new[k].pid PROVE j = k
    OBVIOUS
  <2>1. CASE j = i \/ k = i
    BY <1>3, <1>7, <2>1
  <2>2. CASE j # i /\ k # i
    <3>1. j \in DOMAIN ps /\ k \in DOMAIN ps /\ new[j] = ps[j] /\ new[k] = ps[k]
      BY <1>2, <2>2
    <3> QED
      BY <3>1 DEF Totals
  <2> QED
    BY <2>1, <2>2
<1>10. \A j \in 1..(n + 1) : \E k \in DOMAIN new : new[k].pid = rows[j].pid
  <2> SUFFICES ASSUME NEW j \in 1..(n + 1) PROVE \E k \in DOMAIN new : new[k].pid = rows[j].pid
    OBVIOUS
  <2>1. CASE rows[j].pid = row.pid
    BY <1>2, <1>3, <2>1
  <2>2. CASE rows[j].pid # row.pid
    <3>1. j # n + 1
      BY <2>2
    <3>2. j \in 1..n
      BY <3>1
    <3>3. PICK k \in DOMAIN ps : ps[k].pid = rows[j].pid
      BY <3>2 DEF Totals
    <3>4. k \in DOMAIN new
      BY <1>2
    <3>5. CASE k = i
      BY <1>2, <2>2, <3>3, <3>5
    <3>6. CASE k # i
      BY <1>2, <3>3, <3>4, <3>6
    <3> QED
      BY <3>5, <3>6
  <2> QED
    BY <2>1, <2>2
<1> QED
  BY <1>2, <1>8, <1>9, <1>10 DEF Totals, new

\* and what is added up in the end is the total of each process.
LEMMA AllAdded ==
    ASSUME NEW rows \in Seq(Row), NEW cards, \A j \in 1..Len(rows) : rows[j].dev < cards
    PROVE  Added(rows, cards) \in Seq(Proc) /\ Totals(Added(rows, cards), rows, Len(rows))
<1> DEFINE all == SumsOf(rows, cards)
           T == {n \in Nat : n <= Len(rows) => all[n] \in Seq(Proc) /\ Totals(all[n], rows, n)}
<1>1. Len(rows) \in Nat
  OBVIOUS
<1>2. Added(rows, cards) = all[Len(rows)] /\ \A n \in 0..Len(rows) : all[n] = SumsStep(all, rows, cards, n)
  BY <1>1, SumsDefined
<1> HIDE DEF all
<1>3. 0 \in T
  <2>1. all[0] = <<>>
    BY <1>1, <1>2 DEF SumsStep
  <2>2. <<>> \in Seq(Proc) /\ Totals(<<>>, rows, 0)
    BY DEF Totals
  <2> QED
    BY <2>1, <2>2
<1>4. ASSUME NEW n \in T PROVE n + 1 \in T
  <2> SUFFICES ASSUME n + 1 <= Len(rows)
               PROVE  all[n + 1] \in Seq(Proc) /\ Totals(all[n + 1], rows, n + 1)
    OBVIOUS
  <2>1. n \in Nat /\ n < Len(rows) /\ n + 1 \in 1..Len(rows) /\ n + 1 \in 0..Len(rows)
        /\ n + 1 # 0 /\ n + 1 - 1 = n
    BY <1>1
  <2>2. all[n] \in Seq(Proc) /\ Totals(all[n], rows, n)
    BY <1>1, <2>1
  <2>3. rows[n + 1].dev < cards
    BY <2>1
  <2>4. all[n + 1] = AddRow(all[n], rows[n + 1])
    BY <1>2, <2>1, <2>3 DEF SumsStep
  <2> HIDE DEF T
  <2> QED
    BY <2>1, <2>2, <2>4, RowKeepsTotals
<1>5. T = Nat
  <2> HIDE DEF T
  <2>1. T \subseteq Nat
    BY DEF T
  <2> QED
    BY <1>3, <1>4, <2>1, NatInduct
<1> QED
  BY <1>1, <1>2, <1>5

\* What the bridge holds: nothing yet, or a sample of Frames.
Held ==
    /\ snap.has \in BOOLEAN
    /\ snap.has => \E f \in Frames : snap.devices = f.devices /\ snap.rows = f.rows
    /\ ~snap.has => snap.rows = <<>>

LEMMA RowsOfFrame ==
    ASSUME NEW f \in Frames
    PROVE  /\ f.rows \in Seq(Row) /\ Len(f.devices) \in Nat
           /\ \A j \in 1..Len(f.rows) : f.rows[j].dev \in 0..(Len(f.devices) - 1)
<1> DEFINE of == [dev : 0..(Len(f.devices) - 1), pid : Nat \ {None}, mem : 0..MaxMem]
<1>1. f.rows \in Seq(of) /\ f.devices \in Seq(Device)
  BY GpuMergeAssumption
<1>2. Len(f.devices) \in Nat
  BY <1>1
<1>3. \A x \in of : x \in Row /\ x.dev \in 0..(Len(f.devices) - 1)
  BY <1>2, Memory DEF Row
<1> HIDE DEF of
<1>4. \A j \in 1..Len(f.rows) : f.rows[j] \in of
  BY <1>1
<1>5. f.rows \in Seq(Row)
  BY <1>1, <1>3
<1> QED
  BY <1>2, <1>3, <1>4, <1>5

\* What the property adds up is what the lemmas do.
LEMMA SameSum == \A pid : UsedBy(pid) = UsedOf(snap.rows, pid)[Len(snap.rows)]
  BY DEF UsedBy, UsedOf, UsedStep

\* Entries ps are the totals of rows, for n cards.
Told(ps, rows, n) ==
    /\ n > 0 => \A j \in DOMAIN rows : \E i \in DOMAIN ps : ps[i].pid = rows[j].pid
    /\ \A i, j \in DOMAIN ps : ps[j].pid = ps[i].pid => i = j
    /\ \A i \in DOMAIN ps :
         LET p == ps[i]
             I == {j \in DOMAIN rows : rows[j].pid = p.pid}
             used == UsedOf(rows, p.pid)[Len(rows)]
         IN /\ IsInjective(p.devs) /\ ToSet(p.devs) = {rows[j].dev : j \in I}
            /\ ToSet(p.devs) \subseteq 0..(n - 1)
            /\ p.mem = IF \E j \in I : rows[j].mem = None THEN None
                       ELSE IF used > MaxMem THEN MaxMem ELSE used

\* The entries that are shown are those of the sample that the bridge holds.
Adding == Told(processes, snap.rows, nvidia)

LEMMA TotalsTold ==
    ASSUME NEW rows \in Seq(Row), NEW n \in Nat, \A j \in 1..Len(rows) : rows[j].dev \in 0..(n - 1),
           NEW sums, sums = Added(rows, n), NEW ps,
           ps = [i \in DOMAIN sums |-> [pid |-> sums[i].pid, devs |-> sums[i].devs,
                                        mem |-> IF sums[i].whole THEN sums[i].mem ELSE None]]
    PROVE  Told(ps, rows, n)
<1>1. sums \in Seq(Proc) /\ Totals(sums, rows, Len(rows))
  BY AllAdded
<1>2. /\ DOMAIN ps = DOMAIN sums /\ DOMAIN rows = 1..Len(rows)
      /\ \A i \in DOMAIN sums : /\ ps[i].pid = sums[i].pid /\ ps[i].devs = sums[i].devs
                                /\ ps[i].mem = IF sums[i].whole THEN sums[i].mem ELSE None
  OBVIOUS
<1>3. \A j \in DOMAIN rows : \E i \in DOMAIN ps : ps[i].pid = rows[j].pid
  BY <1>1, <1>2 DEF Totals
<1>4. \A i, j \in DOMAIN ps : ps[j].pid = ps[i].pid => i = j
  BY <1>1, <1>2 DEF Totals
<1>5. ASSUME NEW i \in DOMAIN ps
      PROVE  LET p == ps[i]
                 I == {j \in DOMAIN rows : rows[j].pid = p.pid}
                 used == UsedOf(rows, p.pid)[Len(rows)]
             IN /\ IsInjective(p.devs) /\ ToSet(p.devs) = {rows[j].dev : j \in I}
                /\ ToSet(p.devs) \subseteq 0..(n - 1)
                /\ p.mem = IF \E j \in I : rows[j].mem = None THEN None
                           ELSE IF used > MaxMem THEN MaxMem ELSE used
  <2> DEFINE p == ps[i]
             q == sums[i]
             I == {j \in DOMAIN rows : rows[j].pid = p.pid}
             used == UsedOf(rows, p.pid)[Len(rows)]
  <2>1. p.pid = q.pid /\ p.devs = q.devs /\ p.mem = IF q.whole THEN q.mem ELSE None
    BY <1>2
  <2>2. IsTotal(q, rows, Len(rows)) /\ q \in Proc
    BY <1>1, <1>2 DEF Totals
  <2>3. I = Of(rows, q.pid, Len(rows))
    BY <1>2, <2>1 DEF Of
  <2>4. \A j \in I : rows[j].dev \in 0..(n - 1)
    BY <1>2
  <2> HIDE DEF p, q, I
  <2>5. IsInjective(p.devs) /\ ToSet(p.devs) = {rows[j].dev : j \in I}
    BY <2>1, <2>2, <2>3 DEF IsTotal, Devices
  <2>6. ToSet(p.devs) \subseteq 0..(n - 1)
    BY <2>4, <2>5
  <2>7. q.whole = ~(\E j \in I : rows[j].mem = None) /\ q.whole \in BOOLEAN
    <3>1. q.whole \in BOOLEAN
      BY <2>2 DEF Proc
    <3> QED
      BY <2>2, <2>3, <3>1 DEF IsTotal, Whole
  <2>8. q.mem = IF used > MaxMem THEN MaxMem ELSE used
    BY <2>1, <2>2 DEF IsTotal, Summed, Capped
  <2>9. p.mem = IF \E j \in I : rows[j].mem = None THEN None
                ELSE IF used > MaxMem THEN MaxMem ELSE used
    <3> HIDE DEF used
    <3> QED
      BY <2>1, <2>7, <2>8
  <2> QED
    BY <2>5, <2>6, <2>9 DEF p, I
<1> QED
  BY <1>3, <1>4, <1>5 DEF Told

LEMMA NothingTold ==
    ASSUME NEW rows, NEW cards, rows = <<>>
    PROVE  Added(rows, cards) = <<>>
<1>1. Len(rows) = 0
  OBVIOUS
<1>2. 0 \in 0..Len(rows)
  BY <1>1
<1>3. Added(rows, cards) = SumsOf(rows, cards)[0] /\ SumsOf(rows, cards)[0] = SumsStep(SumsOf(rows, cards), rows, cards, 0)
  BY <1>1, <1>2, SumsDefined
<1> QED
  BY <1>3 DEF SumsStep

LEMMA PolledHeld ==
    ASSUME Held, NEW s \in Polled
    PROVE  /\ s.has \in BOOLEAN
           /\ s.has => \E f \in Frames : s.devices = f.devices /\ s.rows = f.rows
           /\ ~s.has => s.rows = <<>>
<1>1. CASE s = snap
  BY <1>1 DEF Held
<1>2. CASE s # snap
  <2>1. s.has = TRUE
    BY <1>2 DEF Polled
  <2>2. \E f \in Frames : s.devices = f.devices /\ s.rows = f.rows
    BY <1>2 DEF Polled
  <2> QED
    BY <2>1, <2>2
<1> QED
  BY <1>1, <1>2

LEMMA HeldKept ==
    ASSUME Held, [Next]_vars
    PROVE  Held'
<1>1. CASE Collect
  <2>1. \E s \in Polled : snap' = s
    BY <1>1 DEF Collect
  <2> QED
    BY <2>1, PolledHeld DEF Held
<1>2. CASE UNCHANGED snap
  BY <1>2 DEF Held
<1> QED
  BY <1>1, <1>2 DEF Next, vars, merged, CollectNothing, Draw, Stopped, KeyBox, ToggleBox, KeyView, Resize,
     Resized, Tick, ShownGpus

LEMMA TotalsKept ==
    ASSUME Held, Adding, enabled \in BOOLEAN, [Next]_vars
    PROVE  Adding'
<1>1. CASE Collect
  <2>1. PICK s \in Polled :
          LET n == IF s.has /\ enabled THEN Len(s.devices) ELSE 0
          IN snap' = s /\ nvidia' = n /\ processes' = Processes(s)
    BY <1>1 DEF Collect
  <2>2. /\ s.has \in BOOLEAN
        /\ s.has => \E f \in Frames : s.devices = f.devices /\ s.rows = f.rows
        /\ ~s.has => s.rows = <<>>
    BY PolledHeld
  <2>3. Told(processes', s.rows, nvidia')
    <3>1. CASE enabled /\ s.has
      <4>1. PICK f \in Frames : s.devices = f.devices /\ s.rows = f.rows
        BY <2>2, <3>1
      <4> DEFINE sums == Added(s.rows, Len(s.devices))
      <4>2. /\ nvidia' = Len(s.devices)
            /\ processes' = [i \in DOMAIN sums |->
                  [pid |-> sums[i].pid, devs |-> sums[i].devs,
                   mem |-> IF sums[i].whole THEN sums[i].mem ELSE None]]
        BY <2>1, <3>1 DEF Processes
      <4>3. /\ s.rows \in Seq(Row) /\ Len(s.devices) \in Nat
            /\ \A j \in 1..Len(s.rows) : s.rows[j].dev \in 0..(Len(s.devices) - 1)
        BY <4>1, RowsOfFrame
      <4>4. sums = Added(s.rows, Len(s.devices))
        OBVIOUS
      <4> HIDE DEF sums
      <4>5. Told(processes', s.rows, Len(s.devices))
        BY <4>2, <4>3, <4>4, TotalsTold
      <4> QED
        BY <4>2, <4>5
    <3>2. CASE ~(enabled /\ s.has)
      <4>1. nvidia' = 0
        BY <2>1, <2>2, <3>2
      <4>2. (IF enabled THEN s.rows ELSE <<>>) = <<>>
        BY <2>2, <3>2
      <4> DEFINE sums == Added(IF enabled THEN s.rows ELSE <<>>, Len(s.devices))
      <4>3. sums = <<>>
        BY <4>2, NothingTold
      <4>4. DOMAIN processes' = DOMAIN sums
        BY <2>1 DEF Processes
      <4>5. DOMAIN processes' = {}
        BY <4>3, <4>4
      <4> QED
        BY <4>1, <4>5 DEF Told
    <3> QED
      BY <3>1, <3>2
  <2> QED
    BY <2>1, <2>3 DEF Adding
<1>2. CASE UNCHANGED <<snap, nvidia, processes>>
  BY <1>2 DEF Adding
<1> QED
  BY <1>1, <1>2 DEF Next, vars, merged, CollectNothing, Draw, Stopped, KeyBox, ToggleBox, KeyView, Resize,
     Resized, Tick, ShownGpus

\* What is shown of a process is all of it: one entry, with every card it uses and
\* the sum of its memory, or no value when a card did not tell it, and no process is
\* left out (Gpu::collect() adds the rows of the sample to gpu_processes).
THEOREM ProcessesAddUp == Spec => []ProcessTotals
<1> DEFINE Inv == Held /\ Adding /\ enabled \in BOOLEAN /\ resumed \in BOOLEAN
<1>1. Init => Inv
  <2> SUFFICES ASSUME Init PROVE Inv
    OBVIOUS
  <2>1. Held /\ enabled \in BOOLEAN /\ resumed \in BOOLEAN
    BY DEF Init, Held
  <2>2. processes = <<>> /\ nvidia = 0
    BY DEF Init
  <2>3. Adding
    BY <2>2 DEF Adding, Told
  <2> QED
    BY <2>1, <2>3
<1>2. Inv /\ [Next]_vars => Inv'
  BY HeldKept, TotalsKept, Switches
<1>3. Inv => ProcessTotals
  <2> SUFFICES ASSUME Adding PROVE ProcessTotals
    OBVIOUS
  <2>1. Told(processes, snap.rows, nvidia) /\ \A pid : UsedBy(pid) = UsedOf(snap.rows, pid)[Len(snap.rows)]
    BY SameSum DEF Adding
  <2>2. ASSUME NEW i \in DOMAIN processes
        PROVE  LET p == processes[i]
                   I == {j \in DOMAIN snap.rows : snap.rows[j].pid = p.pid}
               IN /\ \A j \in DOMAIN processes : processes[j].pid = p.pid => i = j
                  /\ IsInjective(p.devs) /\ ToSet(p.devs) = {snap.rows[j].dev : j \in I}
                  /\ ToSet(p.devs) \subseteq 0..(nvidia - 1)
                  /\ p.mem = IF \E j \in I : snap.rows[j].mem = None THEN None
                             ELSE IF UsedBy(p.pid) > MaxMem THEN MaxMem ELSE UsedBy(p.pid)
    <3>1. UsedBy(processes[i].pid) = UsedOf(snap.rows, processes[i].pid)[Len(snap.rows)]
      BY <2>1
    <3> QED
      BY <2>1, <3>1 DEF Told
  <2>3. nvidia > 0 => \A j \in DOMAIN snap.rows :
          \E i \in DOMAIN processes : processes[i].pid = snap.rows[j].pid
    BY <2>1 DEF Told
  <2> QED
    BY <2>2, <2>3 DEF ProcessTotals
<1> QED
  BY <1>1, <1>2, <1>3, PTL DEF Spec
-----------------------------------------------------------------------------
(* The types.                                                              *)

\* Boxes, each once, of which one is added or taken out.
Boxes(b) == b \in Seq(0..TopBox) /\ IsInjective(b)

LEMMA BoxAdded ==
    ASSUME NEW b, Boxes(b), NEW k \in 0..TopBox, ~Contains(b, k)
    PROVE  Boxes(Append(b, k))
<1> DEFINE new == Append(b, k)
<1>1. /\ DOMAIN b = 1..Len(b) /\ Len(b) \in Nat /\ new \in Seq(0..TopBox)
      /\ Len(new) = Len(b) + 1 /\ new[Len(b) + 1] = k /\ \A i \in 1..Len(b) : new[i] = b[i]
  BY AppendProperties DEF Boxes
<1> HIDE DEF new
<1>2. DOMAIN new = 1..(Len(b) + 1)
  BY <1>1
<1>3. \A i \in 1..Len(b) : b[i] # k
  BY DEF Contains
<1>4. ASSUME NEW i \in DOMAIN new, NEW j \in DOMAIN new, new[i] = new[j] PROVE i = j
  <2>1. (i \in 1..Len(b) \/ i = Len(b) + 1) /\ (j \in 1..Len(b) \/ j = Len(b) + 1)
    BY <1>1, <1>2
  <2>2. CASE i \in 1..Len(b) /\ j \in 1..Len(b)
    BY <1>1, <1>4, <2>2 DEF Boxes, IsInjective
  <2> QED
    BY <1>1, <1>3, <1>4, <2>1, <2>2
<1>5. IsInjective(new)
  BY <1>4 DEF IsInjective
<1> QED
  BY <1>1, <1>5 DEF Boxes, new

LEMMA Least ==
    ASSUME NEW I, I \subseteq Nat, I # {}
    PROVE  \E x \in I : \A y \in I : x <= y
<1> SUFFICES ASSUME \A x \in I : \E y \in I : ~(x <= y) PROVE FALSE
  OBVIOUS
<1> DEFINE T == {n \in Nat : \A x \in I : n <= x}
<1>1. 0 \in T
  OBVIOUS
<1>2. ASSUME NEW n \in T PROVE n + 1 \in T
  <2>1. n \notin I
    OBVIOUS
  <2>2. ASSUME NEW x \in I PROVE n + 1 <= x
    BY <2>1
  <2> QED
    BY <2>2
<1>3. T = Nat
  <2> HIDE DEF T
  <2>1. T \subseteq Nat
    BY DEF T
  <2> QED
    BY <1>1, <1>2, <2>1, NatInduct
<1>4. PICK x \in I : TRUE
  OBVIOUS
<1>5. x + 1 \in T
  BY <1>3
<1> QED
  BY <1>5

LEMMA BoxRemoved ==
    ASSUME NEW b, Boxes(b), NEW k, Contains(b, k)
    PROVE  Boxes(RemoveFirst(b, k))
<1>1. b \in Seq(0..TopBox) /\ Len(b) \in Nat /\ DOMAIN b = 1..Len(b)
  BY DEF Boxes
<1> DEFINE i == SelectInSeq(b, LAMBDA v : v = k)
           new == RemoveAt(b, i)
<1>2. i \in 1..Len(b)
  <2> DEFINE I == {j \in 1..Len(b) : b[j] = k}
  <2>1. I # {}
    BY DEF Contains
  <2>2. i = CHOOSE x \in I : \A y \in I : x <= y
    BY <2>1 DEF SelectInSeq, Min
  <2>3. \E x \in I : \A y \in I : x <= y
    <3>1. I \subseteq Nat
      OBVIOUS
    <3> HIDE DEF I
    <3> QED
      BY <2>1, <3>1, Least
  <2> QED
    BY <2>2, <2>3
<1>3. RemoveFirst(b, k) = new
  BY DEF RemoveFirst, Contains
<1> HIDE DEF i
<1>10. \A j \in Nat : 1 <= j /\ j <= Len(b) => b[j] \in 0..TopBox
  <2>1. \A j \in 1..Len(b) : b[j] \in 0..TopBox
    BY <1>1, ElementOfSeq
  <2> QED
    BY <1>1, <2>1
<1>4. /\ new \in Seq(0..TopBox) /\ Len(new) = Len(b) - 1
      /\ \A j \in 1..(Len(b) - 1) : new[j] = IF j < i THEN b[j] ELSE b[j + 1]
  <2> DEFINE front == SubSeq(b, 1, i - 1)
             back == SubSeq(b, i + 1, Len(b))
  <2>1. /\ front \in Seq(0..TopBox) /\ Len(front) = i - 1
        /\ \A j \in 1..(i - 1) : front[j] = b[j]
    <3>1. \A j \in 1..(i - 1) : b[j] \in 0..TopBox
      BY <1>1, <1>2, <1>10
    <3> QED
      BY <1>1, <1>2, <3>1, SubSeqProperties
  <2>2. /\ back \in Seq(0..TopBox) /\ Len(back) = Len(b) - i
        /\ \A j \in 1..(Len(b) - i) : back[j] = b[i + j]
    <3>1. \A j \in (i + 1)..Len(b) : b[j] \in 0..TopBox
      BY <1>1, <1>2, <1>10
    <3>2. i + 1 \in Int /\ Len(b) \in Int
      BY <1>1, <1>2
    <3>3. /\ back \in Seq(0..TopBox)
          /\ Len(back) = IF i + 1 <= Len(b) THEN Len(b) - (i + 1) + 1 ELSE 0
          /\ \A j \in 1..(Len(b) - (i + 1) + 1) : back[j] = b[i + 1 + j - 1]
      BY <1>1, <3>1, <3>2, SubSeqProperties
    <3> HIDE DEF back
    <3>4. Len(back) = Len(b) - i
      <4> DEFINE m == Len(b)
      <4>1. m \in Nat /\ i \in 1..m /\ Len(back) = IF i + 1 <= m THEN m - (i + 1) + 1 ELSE 0
        BY <1>1, <1>2, <3>3
      <4> HIDE DEF m
      <4>2. Len(back) = m - i
        BY <4>1
      <4> QED
        BY <4>2 DEF m
    <3>5. ASSUME NEW j \in 1..(Len(b) - i) PROVE back[j] = b[i + j]
      <4>1. j \in 1..(Len(b) - (i + 1) + 1) /\ i + 1 + j - 1 = i + j
        BY <1>1, <1>2
      <4> QED
        BY <3>3, <4>1
    <3> QED
      BY <3>3, <3>4, <3>5
  <2>3. new = front \o back
    BY DEF RemoveAt
  <2> HIDE DEF front, back, new
  <2>4. /\ new \in Seq(0..TopBox) /\ Len(new) = Len(front) + Len(back)
        /\ \A j \in 1..(Len(front) + Len(back)) :
             new[j] = IF j <= Len(front) THEN front[j] ELSE back[j - Len(front)]
    BY <2>1, <2>2, <2>3, ConcatProperties
  <2>5. ASSUME NEW j \in 1..(Len(b) - 1) PROVE new[j] = IF j < i THEN b[j] ELSE b[j + 1]
    <3>0. j \in 1..(Len(front) + Len(back)) /\ j \in Nat
      BY <1>1, <1>2, <2>1, <2>2
    <3>1. CASE j < i
      <4>1. j \in 1..(i - 1) /\ j <= Len(front)
        BY <1>1, <1>2, <2>1, <3>0, <3>1
      <4> QED
        BY <2>1, <2>4, <3>0, <3>1, <4>1
    <3>2. CASE ~(j < i)
      <4>1. j - (i - 1) \in 1..(Len(b) - i) /\ i + (j - (i - 1)) = j + 1 /\ ~(j <= i - 1)
        BY <1>1, <1>2, <3>2
      <4>2. new[j] = back[j - (i - 1)]
        <5>1. ~(j <= Len(front)) /\ j - Len(front) = j - (i - 1)
          BY <2>1, <4>1
        <5> QED
          BY <2>4, <3>0, <5>1
      <4> QED
        BY <2>2, <3>2, <4>1, <4>2
    <3> QED
      BY <3>1, <3>2
  <2> QED
    BY <1>1, <1>2, <2>1, <2>2, <2>4, <2>5
<1> HIDE DEF new
<1>5. DOMAIN new = 1..(Len(b) - 1)
  BY <1>1, <1>4
<1>6. ASSUME NEW j \in DOMAIN new, NEW l \in DOMAIN new, new[j] = new[l] PROVE j = l
  <2> DEFINE at(x) == IF x < i THEN x ELSE x + 1
  <2>1. /\ at(j) \in 1..Len(b) /\ at(l) \in 1..Len(b)
        /\ new[j] = b[at(j)] /\ new[l] = b[at(l)]
    BY <1>1, <1>2, <1>4, <1>5
  <2>2. at(j) = at(l)
    <3> HIDE DEF at
    <3> QED
      BY <1>1, <1>6, <2>1 DEF Boxes, IsInjective
  <2> QED
    BY <1>1, <1>2, <1>5, <2>2
<1>7. IsInjective(new)
  BY <1>6 DEF IsInjective
<1> QED
  BY <1>3, <1>4, <1>7 DEF Boxes

\* What TypeOK says, and that boxes and panels are sequences of numbers.
Cards == gpus \in Seq(Card) /\ Len(offsets) = count /\ (collects > 0 => count = Len(gpus))
Layouts ==
    /\ Boxes(boxes) /\ layout.panels \in Seq(0..TopBox) /\ Len(layout.heights) = Len(layout.panels)
    /\ key \in 0..TopBox \cup {NoKey}
Phases ==
    /\ snap.seq \in 0..MaxSamples /\ lastSeq \in 0..snap.seq
    /\ {enabled, ml, resized, resumed} \subseteq BOOLEAN /\ events \in 0..MaxEvents
    /\ job.at \in {"idle", "started", "collected"} /\ (job.at = "idle" => job = Idle)

LEMMA TrimTyped ==
    ASSUME NEW h \in Seq(Owners \X Nat)
    PROVE  Trimmed(h) \in Seq(Owners \X Nat)
<1>1. CASE layout.wide /\ Len(h) > Limit
  <2>1. Len(h) \in Nat /\ Limit \in Nat \ {0} /\ Len(h) > Limit
    BY <1>1, GpuMergeAssumption
  <2> DEFINE m == Len(h) - Limit + 1
  <2>2. m \in 1..Len(h)
    BY <2>1
  <2>3. Trimmed(h) = SubSeq(h, m, Len(h))
    BY <1>1 DEF Trimmed
  <2> HIDE DEF m
  <2>4. \A i \in m..Len(h) : h[i] \in Owners \X Nat
    <3>1. \A i \in 1..Len(h) : h[i] \in Owners \X Nat
      BY ElementOfSeq
    <3> QED
      BY <2>1, <2>2, <3>1
  <2> QED
    BY <2>1, <2>2, <2>3, <2>4, SubSeqProperties
<1>2. CASE ~(layout.wide /\ Len(h) > Limit)
  BY <1>2 DEF Trimmed
<1> QED
  BY <1>1, <1>2

\* A record of the sample becomes a card,
LEMMA MergedTyped ==
    ASSUME Lists, Behind, Current, gpus \in Seq(Card), NEW s, \E f \in Frames : s.devices = f.devices,
           s.seq \in Nat, NEW i \in 1..Len(s.devices)
    PROVE  Merged(s, i) \in Card
<1> DEFINE r == s.devices[i]
           j == Old(r, i)
           old == OldHistory(s, i)
<1>1. r \in Device /\ i \in Nat /\ r.uuid \in {r.of, None} /\ r.pci \in {r.of, None} /\ r.of \in Ids
  <2>1. PICK f \in Frames : s.devices = f.devices
    OBVIOUS
  <2>2. s.devices \in Seq(Device)
    BY <2>1, GpuMergeAssumption
  <2>3. r \in Device /\ i \in Nat
    BY <2>2, ElementOfSeq
  <2>4. r.of \in Ids
    BY <2>3 DEF Device
  <2> QED
    BY <2>3, <2>4, Identities
<1> HIDE DEF r
<1>2. j = None \/ j \in 1..nvidia
  BY <1>1, OldCard
<1> HIDE DEF j
<1>3. old = <<>> \/ (j # None /\ old = gpus[j].hist)
  BY DEF OldHistory, j, r
<1> HIDE DEF old
<1>4. old \in Seq(Owners \X Nat)
  <2>1. CASE old = <<>>
    BY <2>1
  <2>2. CASE j # None /\ old = gpus[j].hist
    <3>1. j \in 1..Len(gpus)
      BY <1>2, <2>2, OthersLength DEF Behind, Lists
    <3>2. gpus[j] \in Card
      BY <3>1, ElementOfSeq
    <3> QED
      BY <2>2, <3>2 DEF Card
  <2> QED
    BY <1>3, <2>1, <2>2
<1>5. <<r.of, s.seq>> \in Owners \X Nat
  BY <1>1 DEF Owners
<1>6. Append(old, <<r.of, s.seq>>) \in Seq(Owners \X Nat)
  BY <1>4, <1>5, AppendProperties
<1> DEFINE hist == IF NewSample(s) /\ r.util THEN Append(old, <<r.of, s.seq>>) ELSE old
<1>7. hist \in Seq(Owners \X Nat)
  BY <1>4, <1>6
<1>8. Merged(s, i) = [of |-> r.of, uuid |-> r.uuid, pci |-> r.pci, util |-> r.util, hist |-> hist]
  BY DEF Merged, r, old
<1>9. r.of \in Owners /\ r.uuid \in Ids \cup {None} /\ r.pci \in Ids \cup {None} /\ r.util \in BOOLEAN
  BY <1>1 DEF Device, Owners
<1> HIDE DEF hist
<1> QED
  BY <1>7, <1>8, <1>9 DEF Card

\* a card of another vendor stays one,
LEMMA SampledTyped ==
    ASSUME NEW c \in Card, NEW of \in ToSet(Others), NEW n \in Nat
    PROVE  [c EXCEPT !.hist = Append(@, <<of, n>>)] \in Card
<1>1. c.hist \in Seq(Owners \X Nat) /\ <<of, n>> \in Owners \X Nat
  BY DEF Card, Owners
<1>2. Append(c.hist, <<of, n>>) \in Seq(Owners \X Nat)
  BY <1>1, AppendProperties
<1> QED
  BY <1>2 DEF Card

\* and so does every card whose history is cut.
LEMMA CutTyped ==
    ASSUME NEW c \in Card
    PROVE  [c EXCEPT !.hist = Trimmed(@)] \in Card
<1>1. Trimmed(c.hist) \in Seq(Owners \X Nat)
  BY TrimTyped DEF Card
<1> QED
  BY <1>1 DEF Card

LEMMA CardsCollected ==
    ASSUME Lists, Behind, Current, Cards, snap.seq \in 0..MaxSamples, Collect
    PROVE  Cards' /\ collects' \in Nat
<1>1. PICK s \in Polled :
        LET n     == IF s.has /\ enabled THEN Len(s.devices) ELSE 0
            next  == [i \in 1..n |-> Merged(s, i)] \o Sampled(Rest(n))
            total == Len(next)
        IN /\ gpus' = [i \in 1..total |-> [next[i] EXCEPT !.hist = Trimmed(@)]]
           /\ count' = total /\ offsets' = [i \in 1..total |-> Height(next[i])]
  BY DEF Collect
<1> DEFINE n == IF s.has /\ enabled THEN Len(s.devices) ELSE 0
           next == [i \in 1..n |-> Merged(s, i)] \o Sampled(Rest(n))
           total == n + Len(Others)
<1>2. n \in Nat /\ (n # 0 => n = Len(s.devices) /\ \E f \in Frames : s.devices = f.devices)
  BY PolledSample, GpuMergeAssumption
<1>3. /\ Len(next) = total
      /\ \A i \in 1..n : next[i] = Merged(s, i)
      /\ \A i \in 1..Len(Others) :
           next[n + i] = [gpus[nvidia + i] EXCEPT !.hist = Append(@, <<Others[i], collects + 1>>)]
  BY <1>2, NextList
<1>4. /\ gpus' = [i \in 1..total |-> [next[i] EXCEPT !.hist = Trimmed(@)]]
      /\ count' = total /\ offsets' = [i \in 1..total |-> Height(next[i])]
  BY <1>1, <1>3
<1>5. collects' = collects + 1 /\ collects \in Nat
  BY DEF Collect, Behind
<1>6. s.seq \in Nat
  <2>1. CASE s = snap
    BY <2>1, GpuMergeAssumption
  <2>2. CASE s # snap
    <3> DEFINE to == IF snap.seq + 2 <= MaxSamples THEN snap.seq + 2 ELSE MaxSamples
    <3>1. \E m \in (snap.seq + 1)..to : s.seq = m
      BY <2>2 DEF Polled
    <3>2. to \in Nat /\ snap.seq \in Nat
      BY GpuMergeAssumption
    <3> HIDE DEF to
    <3> QED
      BY <3>1, <3>2
  <2> QED
    BY <2>1, <2>2
<1> HIDE DEF n, next
<1>7. total \in Nat
  BY <1>2, OthersLength
<1>8. ASSUME NEW i \in 1..total PROVE next[i] \in Card
  <2>1. CASE i \in 1..n
    <3>1. n # 0
      BY <1>2, <2>1
    <3> QED
      BY <1>2, <1>3, <1>6, <2>1, <3>1, MergedTyped DEF Cards
  <2>2. CASE i \notin 1..n
    <3> DEFINE k == i - n
    <3>1. k \in 1..Len(Others) /\ i = n + k
      BY <1>2, <2>2, OthersLength
    <3> HIDE DEF k
    <3>2. nvidia + k \in 1..Len(gpus)
      BY <3>1, OthersLength DEF Behind, Lists
    <3>3. gpus[nvidia + k] \in Card
      BY <3>2, ElementOfSeq DEF Cards
    <3>4. Others[k] \in ToSet(Others)
      BY <3>1, OthersLength DEF ToSet
    <3>5. collects + 1 \in Nat
      BY <1>5
    <3> DEFINE c == [gpus[nvidia + k] EXCEPT !.hist = Append(@, <<Others[k], collects + 1>>)]
    <3>6. c \in Card
      BY <3>3, <3>4, <3>5, SampledTyped
    <3>7. next[n + k] = c
      BY <1>3, <3>1
    <3> HIDE DEF c
    <3> QED
      BY <3>1, <3>6, <3>7
  <2> QED
    BY <2>1, <2>2
<1> HIDE DEF total
<1>9. gpus' \in [1..total -> Card]
  BY <1>4, <1>8, CutTyped
<1>10. gpus' \in Seq(Card) /\ Len(gpus') = total
  BY <1>7, <1>9
<1>11. Len(offsets') = total
  BY <1>4, <1>7
<1>12. collects' \in Nat
  BY <1>5
<1>13. count' = total
  BY <1>4
<1> QED
  BY <1>10, <1>11, <1>12, <1>13 DEF Cards

LEMMA CardsKept ==
    ASSUME Lists, Behind, Current, Cards, snap.seq \in 0..MaxSamples, [Next]_vars
    PROVE  Cards'
<1>1. CASE Collect
  BY <1>1, CardsCollected
<1>2. CASE UNCHANGED merged
  BY <1>2 DEF merged, Cards
<1> QED
  BY <1>1, <1>2 DEF Next, vars, merged, CollectNothing, Draw, Stopped, KeyBox, ToggleBox, KeyView, Resize,
     Resized, Tick, ShownGpus

\* A layout of boxes has a height for every panel.
LEMMA LayoutTyped ==
    ASSUME NEW b \in Seq(0..TopBox), CalcSizes(b)
    PROVE  layout'.panels \in Seq(0..TopBox) /\ Len(layout'.heights) = Len(layout'.panels)
<1> DEFINE panels == IF count > 0 THEN b ELSE <<>>
<1>1. panels \in Seq(0..TopBox)
  <2>1. panels = b \/ panels = <<>>
    OBVIOUS
  <2>2. <<>> \in Seq(0..TopBox)
    OBVIOUS
  <2> HIDE DEF panels
  <2> QED
    BY <2>1, <2>2
<1>2. layout'.panels = panels /\ layout'.heights = Heights(panels)
  BY DEF CalcSizes
<1> HIDE DEF panels
<1>3. DOMAIN panels = 1..Len(panels) /\ Len(panels) \in Nat
  BY <1>1
<1>4. Len(Heights(panels)) = Len(panels)
  BY <1>3 DEF Heights
<1> QED
  BY <1>1, <1>2, <1>4

LEMMA LayoutsKept ==
    ASSUME Layouts, [Next]_vars
    PROVE  Layouts'
<1>1. CASE Collect \/ CollectNothing \/ Draw \/ Stopped \/ Resize \/ Tick \/ ShownGpus \/ UNCHANGED vars
  BY <1>1 DEF Layouts, Boxes, vars, Collect, CollectNothing, Draw, Stopped, Resize, Tick, ShownGpus
<1>2. ASSUME NEW k \in 0..TopBox, KeyBox(k) PROVE Layouts'
  BY <1>2 DEF Layouts, Boxes, KeyBox
<1>3. CASE ToggleBox
  <2>1. key # NoKey /\ key' = NoKey /\ CalcSizes(boxes')
        /\ boxes' = IF Contains(boxes, key) THEN RemoveFirst(boxes, key) ELSE Append(boxes, key)
    BY <1>3 DEF ToggleBox
  <2>2. key \in 0..TopBox /\ Boxes(boxes)
    BY <2>1 DEF Layouts
  <2>3. Boxes(boxes')
    BY <2>1, <2>2, BoxAdded, BoxRemoved
  <2>4. layout'.panels \in Seq(0..TopBox) /\ Len(layout'.heights) = Len(layout'.panels)
    BY <2>1, <2>3, LayoutTyped DEF Boxes
  <2> QED
    BY <2>1, <2>3, <2>4 DEF Layouts, Boxes
<1>4. CASE KeyView
  <2>1. CalcSizes(boxes) /\ UNCHANGED <<boxes, key>>
    BY <1>4 DEF KeyView
  <2>2. boxes \in Seq(0..TopBox)
    BY DEF Layouts, Boxes
  <2>3. layout'.panels \in Seq(0..TopBox) /\ Len(layout'.heights) = Len(layout'.panels)
    BY <2>1, <2>2, LayoutTyped
  <2> QED
    BY <2>1, <2>3 DEF Layouts, Boxes
<1>5. CASE Resized
  <2>1. (CalcSizes(boxes) \/ UNCHANGED layout) /\ UNCHANGED <<boxes, key>>
    BY <1>5 DEF Resized
  <2>2. boxes \in Seq(0..TopBox)
    BY DEF Layouts, Boxes
  <2>3. layout'.panels \in Seq(0..TopBox) /\ Len(layout'.heights) = Len(layout'.panels)
    <3>1. CASE CalcSizes(boxes)
      BY <2>2, <3>1, LayoutTyped
    <3>2. CASE UNCHANGED layout
      BY <3>2 DEF Layouts
    <3> QED
      BY <2>1, <3>1, <3>2
  <2> QED
    BY <2>1, <2>3 DEF Layouts, Boxes
<1> QED
  BY <1>1, <1>2, <1>3, <1>4, <1>5 DEF Next

LEMMA PhasesKept ==
    ASSUME Panels, Phases, [Next]_vars
    PROVE  Phases'
<1>1. MaxSamples \in Nat /\ MaxEvents \in Nat
  BY GpuMergeAssumption
<1>2. snap'.seq \in 0..MaxSamples /\ lastSeq' \in 0..snap'.seq
  <2>1. CASE Collect
    <3>1. PICK s \in Polled : snap' = s /\ lastSeq' = IF s.has THEN s.seq ELSE IF enabled THEN lastSeq ELSE 0
      BY <2>1 DEF Collect
    <3>2. s.seq \in 0..MaxSamples /\ snap.seq <= s.seq
      <4>1. CASE s = snap
        BY <1>1, <4>1 DEF Phases
      <4>2. CASE s # snap
        <5> DEFINE to == IF snap.seq + 2 <= MaxSamples THEN snap.seq + 2 ELSE MaxSamples
        <5>1. \E m \in (snap.seq + 1)..to : s.seq = m
          BY <4>2 DEF Polled
        <5>2. to \in 0..MaxSamples /\ snap.seq \in Nat
          BY <1>1 DEF Phases
        <5> HIDE DEF to
        <5> QED
          BY <1>1, <5>1, <5>2
      <4> QED
        BY <4>1, <4>2
    <3>3. snap.seq \in Nat /\ lastSeq \in 0..snap.seq
      BY <1>1 DEF Phases
    <3> QED
      BY <1>1, <3>1, <3>2, <3>3
  <2>2. CASE UNCHANGED <<snap, lastSeq>>
    BY <2>2 DEF Phases
  <2> QED
    BY <2>1, <2>2 DEF Next, vars, merged, CollectNothing, Draw, Stopped, KeyBox, ToggleBox, KeyView, Resize,
       Resized, Tick, ShownGpus
<1>3. {enabled', ml', resized', resumed'} \subseteq BOOLEAN
  <2>1. enabled \in BOOLEAN /\ ml \in BOOLEAN /\ resized \in BOOLEAN /\ resumed \in BOOLEAN
    BY DEF Phases
  <2>2. enabled' \in BOOLEAN /\ resumed' \in BOOLEAN
    BY <2>1, Switches
  <2>3. ml' \in BOOLEAN
    BY <2>1 DEF Next, vars, merged, Collect, CollectNothing, Draw, Stopped, KeyBox, ToggleBox, KeyView, Resize,
       Resized, Tick, ShownGpus
  <2>4. resized' \in BOOLEAN
    BY <2>1 DEF Next, vars, merged, Collect, CollectNothing, Draw, Stopped, KeyBox, ToggleBox, KeyView, Resize,
       Resized, Tick, ShownGpus
  <2> QED
    BY <2>2, <2>3, <2>4
<1>4. events' \in 0..MaxEvents
  <2>1. events' = events \/ Event
    BY DEF Next, vars, merged, Collect, CollectNothing, Draw, Stopped, KeyBox, ToggleBox, KeyView, Resize,
       Resized, Tick, ShownGpus, Event
  <2> QED
    BY <1>1, <2>1 DEF Event, Phases
<1>5. job'.at \in {"idle", "started", "collected"} /\ (job'.at = "idle" => job' = Idle)
  <2>1. Idle.at = "idle"
    BY DEF Idle
  <2>2. \/ job' = job \/ job' = Idle
        \/ job' = [job EXCEPT !.at = "collected"] /\ job.at = "started"
        \/ \E b, c : job' = [at |-> "started", boxes |-> b, cached |-> c]
    BY DEF Next, vars, merged, Collect, CollectNothing, Draw, Stopped, KeyBox, ToggleBox, KeyView, Resize,
       Resized, Tick, ShownGpus, Run
  <2>3. job = [at |-> job.at, boxes |-> job.boxes, cached |-> job.cached]
    BY DEF Panels
  <2>4. [job EXCEPT !.at = "collected"].at = "collected"
    BY <2>3
  <2>5. \A b, c : [at |-> "started", boxes |-> b, cached |-> c].at = "started"
    OBVIOUS
  <2> QED
    BY <2>1, <2>2, <2>4, <2>5 DEF Phases
<1> QED
  BY <1>2, <1>3, <1>4, <1>5 DEF Phases

\* The merged list, its names, heights and boxes always fit together.
THEOREM TypesOfCards == Spec => []TypeOK
<1> DEFINE Inv == /\ Lists /\ Panels /\ Behind /\ Current /\ Histories
                  /\ Held /\ Cards /\ Layouts /\ Phases
<1>1. Init => Inv
  <2> SUFFICES ASSUME Init PROVE Inv
    OBVIOUS
  <2>1. Lists /\ Panels /\ Behind
    BY Start, StartBehind
  <2>2. Current /\ Histories
    BY DEF Init, Current, Histories
  <2>3. Held /\ Phases
    <3>1. 0 \in 0..MaxSamples /\ 0 \in 0..MaxEvents
      BY GpuMergeAssumption
    <3>2. Held
      BY DEF Init, Held
    <3>3. job = Idle /\ Idle.at = "idle"
      BY DEF Init, Idle
    <3>4. snap.seq = 0 /\ lastSeq = 0 /\ 0 \in 0..0 /\ events = 0
      BY DEF Init
    <3>5. enabled \in BOOLEAN /\ ml \in BOOLEAN /\ resized \in BOOLEAN /\ resumed \in BOOLEAN
      BY DEF Init
    <3> QED
      BY <3>1, <3>2, <3>3, <3>4, <3>5 DEF Phases
  <2>4. Layouts
    BY DEF Init, Layouts, Boxes, IsInjective
  <2>5. Cards
    <3>1. ASSUME NEW i \in 1..Len(Others) PROVE gpus[i] \in Card
      <4>1. Others[i] \in ToSet(Others)
        BY OthersLength DEF ToSet
      <4>2. <<Others[i], 0>> \in Owners \X Nat /\ Others[i] \in Owners
        BY <4>1 DEF Owners
      <4>3. gpus[i] = [of |-> Others[i], uuid |-> None, pci |-> None,
                       util |-> TRUE, hist |-> <<<<Others[i], 0>>>>]
        BY OthersLength DEF Init
      <4>4. <<<<Others[i], 0>>>> \in Seq(Owners \X Nat)
        BY <4>2
      <4> QED
        BY <4>2, <4>3, <4>4 DEF Card
    <3>2. gpus \in [1..Len(Others) -> Card]
      BY <3>1, OthersLength DEF Init
    <3>3. gpus \in Seq(Card)
      BY <3>2, OthersLength
    <3> QED
      BY <3>3 DEF Init, Cards
  <2> QED
    BY <2>1, <2>2, <2>3, <2>4, <2>5
<1>2. Inv /\ [Next]_vars => Inv'
  <2> SUFFICES ASSUME Inv, [Next]_vars PROVE Inv'
    OBVIOUS
  <2>1. enabled \in BOOLEAN /\ resumed \in BOOLEAN /\ snap.seq \in 0..MaxSamples
    BY DEF Phases
  <2>2. Lists' /\ Panels' /\ Behind'
    BY ListsKept, PanelsKept, BehindKept
  <2>3. Current' /\ Histories'
    BY <2>1, HistoriesKept
  <2>4. Cards'
    BY <2>1, CardsKept
  <2>5. Layouts' /\ Phases'
    BY LayoutsKept, PhasesKept
  <2>6. Held'
    BY <2>1, HeldKept
  <2> QED
    BY <2>2, <2>3, <2>4, <2>5, <2>6
<1>3. Inv => TypeOK
  <2> SUFFICES ASSUME Inv PROVE TypeOK
    OBVIOUS
  <2>1. nvidia \in 0..Len(gpus) /\ Len(names) = Len(gpus) /\ collects \in Nat
    BY OthersLength DEF Behind, Lists
  <2>2. ToSet(boxes) \subseteq 0..TopBox /\ IsInjective(boxes)
    <3>9. boxes \in Seq(0..TopBox)
      BY DEF Layouts, Boxes
    <3>1. \A i \in DOMAIN boxes : boxes[i] \in 0..TopBox
      <4>1. \A i \in 1..Len(boxes) : boxes[i] \in 0..TopBox
        BY <3>9, ElementOfSeq
      <4>2. DOMAIN boxes = 1..Len(boxes)
        BY <3>9
      <4> QED
        BY <4>1, <4>2
    <3> QED
      BY <3>1 DEF Layouts, Boxes, ToSet
  <2> QED
    BY <2>1, <2>2 DEF Held, Cards, Layouts, Phases, TypeOK
<1> QED
  BY <1>1, <1>2, <1>3, PTL DEF Spec
===============================================================================
