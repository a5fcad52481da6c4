-------------------------- MODULE ConfigStore_proofs --------------------------
(***************************************************************************)
(* The two copies of the boxes, the settings that come back, and what      *)
(* values they can have.                                                   *)
(***************************************************************************)
EXTENDS ConfigStore, SequenceTheorems, FiniteSetTheorems, TLAPS

Fields == {"boxes", "presets", "disable", "save", "look"}
Presets == Seq(STRING)

\* A function with the fields of the settings, and one with some of them.
Record(r) ==
    r = [k \in DOMAIN r |-> r[k]] /\ DOMAIN r = Fields /\ r["presets"] \in PresetTexts
Partial(g) ==
    /\ g = [k \in DOMAIN g |-> g[k]] /\ DOMAIN g \subseteq Fields
    /\ "presets" \in DOMAIN g => g["presets"] \in PresetTexts

\* What all results need to know of the values.
Formed ==
    /\ Record(conf) /\ Partial(tmp)
    /\ file \notin {Missing, Torn} => Record(file)
    /\ list \in Seq(Presets) /\ Len(list) > 0 /\ preset \in Int

LEMMA OverrideFormed ==
    ASSUME NEW f, NEW g, Record(f), Partial(g)
    PROVE  /\ Record(Override(f, g))
           /\ \A k \in Fields : Override(f, g)[k] = IF k \in DOMAIN g THEN g[k] ELSE f[k]
  BY DEF Override, Record, Partial, Fields

LEMMA NothingIsEmpty == DOMAIN Nothing = {} /\ Partial(Nothing)
  BY DEF Nothing, Partial

\* The changes that keys and menus make.
LEMMA Changes ==
    /\ \A b : Partial([boxes |-> b]) /\ DOMAIN [boxes |-> b] = {"boxes"}
    /\ \A b : Partial([look |-> b]) /\ DOMAIN [look |-> b] = {"look"}
    /\ \A b : Partial([look |-> b, boxes |-> b]) /\ DOMAIN [look |-> b, boxes |-> b] = {"look", "boxes"}
    /\ \A p \in PresetTexts : Partial([presets |-> p]) /\ DOMAIN [presets |-> p] = {"presets"}
    /\ \A mode : Partial([disable |-> mode]) /\ DOMAIN [disable |-> mode] = {"disable"}
    /\ \A save : Partial([save |-> save]) /\ DOMAIN [save |-> save] = {"save"}
  BY DEF Partial, Fields

LEMMA OverrideNothing ==
    ASSUME NEW f, Record(f) PROVE Override(f, Nothing) = f
  BY NothingIsEmpty DEF Override, Record

LEMMA PresetListFormed ==
    ASSUME NEW p \in PresetTexts
    PROVE  PresetList(p) \in Seq(Presets) /\ Len(PresetList(p)) > 0
  <1>1. p \in Seq(Presets)
    BY ConfigStoreAssumption DEF Presets
  <1>2. <<Default>> \in Seq(Presets) /\ Len(<<Default>>) = 1
    BY ConfigStoreAssumption DEF Presets
  <1> QED
    BY <1>1, <1>2 DEF PresetList

\* What a change does to the settings as they will be.
LEMMA Changed ==
    ASSUME Formed, NEW g, Partial(g), Change(g)
    PROVE  /\ Record(conf') /\ Partial(tmp')
           /\ \A k \in Fields : Effective'[k] = IF k \in DOMAIN g THEN g[k] ELSE Effective[k]
<1>1. CASE active
  <2>1. conf' = conf /\ tmp' = Put(tmp, g)
    BY <1>1 DEF Change
  <2>2. /\ DOMAIN tmp' = DOMAIN tmp \cup DOMAIN g
        /\ \A k \in DOMAIN tmp' : tmp'[k] = IF k \in DOMAIN g THEN g[k] ELSE tmp[k]
        /\ tmp' = [k \in DOMAIN tmp' |-> tmp'[k]]
    BY <2>1 DEF Put
  <2>3. Partial(tmp) /\ Partial(tmp')
    BY <2>2 DEF Partial, Formed
  <2>4. Record(conf) /\ Record(conf')
    BY <2>1 DEF Formed
  <2>5. \A k \in Fields : Effective'[k] = IF k \in DOMAIN tmp' THEN tmp'[k] ELSE conf[k]
    BY <2>1, <2>3, <2>4, OverrideFormed DEF Effective
  <2>6. \A k \in Fields : Effective[k] = IF k \in DOMAIN tmp THEN tmp[k] ELSE conf[k]
    BY <2>3, <2>4, OverrideFormed DEF Effective
  <2> QED
    BY <2>2, <2>3, <2>4, <2>5, <2>6
<1>2. CASE ~active
  <2>1. conf' = Override(Effective, g) /\ tmp' = Nothing
    BY <1>2 DEF Change
  <2>2. Record(Effective)
    BY OverrideFormed DEF Effective, Formed
  <2>3. Record(conf') /\ \A k \in Fields : conf'[k] = IF k \in DOMAIN g THEN g[k] ELSE Effective[k]
    BY <2>1, <2>2, OverrideFormed
  <2>4. Effective' = conf'
    BY <2>1, <2>3, OverrideNothing DEF Effective
  <2> QED
    BY <2>1, <2>3, <2>4, NothingIsEmpty
<1> QED
  BY <1>1, <1>2
-----------------------------------------------------------------------------
BInv == Formed /\ BoxesShown

LEMMA DefaultsFormed == Record(Defaults) /\ \A c \in Contents : Record(c)
<1>1. Record(Defaults)
  BY ConfigStoreAssumption DEF Record, Defaults, Fields
<1>2. ASSUME NEW b \in BoxTexts, NEW p \in PresetTexts
      PROVE  Record(Typed(b, p))
  BY <1>1 DEF Record, Fields, Typed
<1>3. ASSUME NEW c \in Contents PROVE Record(c)
  <2>1. PICK b \in BoxTexts, p \in PresetTexts : c = Typed(b, p)
    BY DEF Contents
  <2> QED
    BY <1>2, <2>1
<1> QED
  BY <1>1, <1>3

LEMMA LoadedFormed ==
    ASSUME NEW c, NEW old, Record(old), c \notin {Missing, Torn} => Record(c)
    PROVE  Record(Loaded(c, old))
  BY DEF Loaded, Record, Fields

LEMMA InitBoxes == Init => BInv
  <1>1. <<Default>> \in Seq(Presets) /\ Len(<<Default>>) = 1
    BY ConfigStoreAssumption DEF Presets
  <1> QED
    BY <1>1, DefaultsFormed, NothingIsEmpty
       DEF Init, BInv, Formed, BoxesShown, BoxesAgree, PresetIsShown, NoPreset

\* A step that leaves list and preset alone and does not touch the boxes.
LEMMA QuietChange ==
    ASSUME BInv, NEW g, Partial(g), "boxes" \notin DOMAIN g, Change(g)
    PROVE  /\ Record(conf') /\ Partial(tmp')
           /\ Effective'.boxes = Effective.boxes
  BY Changed DEF BInv, Fields

\* A key that waited for the runner: every setting has its new value at once.
LEMMA ChangedNow ==
    ASSUME Formed, NEW g, Partial(g), SetAndUnlock(g)
    PROVE  /\ Record(conf') /\ Partial(tmp')
           /\ \A k \in Fields : Effective'[k] = IF k \in DOMAIN g THEN g[k] ELSE Effective[k]
  <1>1. conf' = Override(Effective, g) /\ tmp' = Nothing
    BY DEF SetAndUnlock
  <1>2. Record(Effective)
    BY OverrideFormed DEF Effective, Formed
  <1>3. Record(conf') /\ \A k \in Fields : conf'[k] = IF k \in DOMAIN g THEN g[k] ELSE Effective[k]
    BY <1>1, <1>2, OverrideFormed
  <1>4. Effective' = conf'
    BY <1>1, <1>3, OverrideNothing DEF Effective
  <1> QED
    BY <1>1, <1>3, <1>4, NothingIsEmpty

LEMMA StartBoxes ==
    ASSUME BInv, NEW p \in -1..MaxPresets, Start(p) PROVE BInv'
  <1> DEFINE c == Loaded(file, Defaults)
  <1>1. Record(c)
    BY LoadedFormed, DefaultsFormed DEF BInv, Formed
  <1>2. Record(conf') /\ conf'.boxes = boxes'
    BY <1>1 DEF Start, Record, Fields
  <1>3. tmp' = Nothing /\ file' = file
    BY DEF Start
  <1>4. Effective'.boxes = boxes'
    BY <1>2, <1>3, OverrideNothing DEF Effective
  <1>5. ~reloaded' => preset' = NoPreset
    BY DEF Start
  <1>6. list' \in Seq(Presets) /\ Len(list') > 0
    BY <1>1, PresetListFormed DEF Start, Record
  <1>7. preset' \in Int
    BY <1>1, <1>6 DEF Start, NoPreset
  <1> QED
    BY <1>2, <1>3, <1>4, <1>5, <1>6, <1>7, NothingIsEmpty
       DEF BInv, Formed, BoxesShown, BoxesAgree, PresetIsShown

LEMMA ReloadBoxes ==
    ASSUME BInv, NEW c \in Contents \cup {file}, Reload(c) PROVE BInv'
  <1>1. Record(Effective)
    BY OverrideFormed DEF Effective, BInv, Formed
  <1>2. c \notin {Missing, Torn} => Record(c)
    BY DefaultsFormed DEF BInv, Formed
  <1>3. Record(conf')
    BY <1>1, <1>2, LoadedFormed DEF Reload
  <1>4. list' \in Seq(Presets) /\ Len(list') > 0
    <2>1. CASE LoadedNew(c)
      BY <2>1 DEF Reload, BInv, Formed
    <2>2. CASE ~LoadedNew(c)
      BY <1>2, <2>2, PresetListFormed DEF Reload, LoadedNew, Record
    <2> QED
      BY <2>1, <2>2
  <1> QED
    BY <1>2, <1>3, <1>4, NothingIsEmpty
       DEF Reload, BInv, Formed, BoxesShown, BoxesAgree, PresetIsShown

\* The file and the end of the program: the settings stay, or are unlocked.
LEMMA FileBoxes ==
    ASSUME BInv, Write \/ Quit \/ Crash \/ \E c \in Contents : EditFile(c)
    PROVE  BInv'
  <1>1. CASE Write
    BY <1>1 DEF Write, runner, ghosts, BInv, Formed, BoxesShown, BoxesAgree, PresetIsShown, Effective
  <1>2. CASE Quit
    <2>1. file' \in {file, Torn} /\ UNCHANGED <<boxes, list, preset, reloaded>>
      BY <1>2 DEF Quit, Ends, Truncate, GivesUp
    <2>2. /\ Record(conf') /\ Partial(tmp')
          /\ Effective'.boxes = Effective.boxes
      <3>1. CASE Change(Nothing)
        BY <3>1, QuietChange, NothingIsEmpty
      <3>2. CASE UNCHANGED <<conf, tmp, locked>>
        BY <3>2 DEF BInv, Formed, Effective
      <3> QED
        BY <3>1, <3>2, <1>2 DEF Quit
    <2>3. phase = "running"
      BY <1>2 DEF Quit
    <2> QED
      BY <2>1, <2>2, <2>3 DEF BInv, Formed, BoxesShown, BoxesAgree, PresetIsShown
  <1>3. CASE Crash
    BY <1>3 DEF Crash, runner, BInv, Formed, BoxesShown, BoxesAgree, PresetIsShown
  <1>4. ASSUME NEW c \in Contents, EditFile(c) PROVE BInv'
    BY <1>4, DefaultsFormed
       DEF EditFile, runner, BInv, Formed, BoxesShown, BoxesAgree, PresetIsShown
  <1> QED
    BY <1>1, <1>2, <1>3, <1>4

LEMMA RunnerBoxes == ASSUME BInv, Work \/ Collected PROVE BInv'
  <1>1. CASE Work
    <2>1. conf' = Effective /\ tmp' = Nothing
      BY <1>1 DEF Work
    <2>2. Record(conf')
      BY <2>1, OverrideFormed DEF BInv, Formed, Effective
    <2>3. Effective' = Effective
      BY <2>1, <2>2, OverrideNothing DEF Effective
    <2> QED
      BY <1>1, <2>1, <2>2, <2>3, NothingIsEmpty
         DEF Work, ghosts, BInv, Formed, BoxesShown, BoxesAgree, PresetIsShown
  <1>2. CASE Collected
    BY <1>2 DEF Collected, ghosts, BInv, Formed, BoxesShown, BoxesAgree, PresetIsShown, Effective
  <1> QED
    BY <1>1, <1>2

LEMMA KeyBoxBoxes ==
    ASSUME BInv, NEW b \in Names, KeyBox(b) PROVE BInv'
  <1>1. UNCHANGED <<file, list, phase, reloaded>>
    BY DEF KeyBox, ghosts
  <1>2. CASE Fits(Toggled(b))
    <2>1. SetAndUnlock([boxes |-> Toggled(b)]) /\ boxes' = Toggled(b) /\ preset' = NoPreset
      BY <1>2 DEF KeyBox
    <2>2. /\ Record(conf') /\ Partial(tmp')
          /\ Effective'.boxes = boxes'
      BY <2>1, Changes, ChangedNow DEF BInv, Fields
    <2> QED
      BY <1>1, <2>1, <2>2 DEF BInv, Formed, BoxesShown, BoxesAgree, PresetIsShown, NoPreset
  <1>3. CASE ~Fits(Toggled(b))
    <2>1. Change(Nothing) /\ UNCHANGED <<boxes, preset>>
      BY <1>3 DEF KeyBox
    <2>2. /\ Record(conf') /\ Partial(tmp')
          /\ Effective'.boxes = Effective.boxes
      BY <2>1, QuietChange, NothingIsEmpty
    <2>3. phase # "down"
      BY DEF KeyBox, Key
    <2> QED
      BY <1>1, <2>1, <2>2, <2>3 DEF BInv, Formed, BoxesShown, BoxesAgree, PresetIsShown
  <1> QED
    BY <1>2, <1>3

\* Without a reload, p and P find a preset.
LEMMA CycledInList ==
    ASSUME BInv, ~reloaded, phase = "running", NEW forwards \in BOOLEAN,
           Read.disable = "Default" => Len(list) > 1
    PROVE  Cycled(forwards) + 1 \in DOMAIN list
  <1>1. Len(list) \in Nat \ {0} /\ DOMAIN list = 1..Len(list) /\ preset \in Int
    BY DEF BInv, Formed
  <1>2. First \in {0, 1} /\ (First = 1 => Len(list) > 1)
    BY DEF First
  <1>3. preset # NoPreset => preset + 1 \in DOMAIN list
    BY DEF BInv, BoxesShown, PresetIsShown
  <1> QED
    BY <1>1, <1>2, <1>3 DEF Cycled, NoPreset

LEMMA KeyPresetBoxes ==
    ASSUME BInv, NEW forwards \in BOOLEAN, KeyPreset(forwards) PROVE BInv'
  <1> DEFINE n == Cycled(forwards)
             b == list[n + 1]
  <1>1. phase = "running" /\ preset \in Int /\ UNCHANGED <<list, reloaded>>
    BY DEF KeyPreset, Key, BInv, Formed, ghosts, Apply
  <1>2. CASE n + 1 \in DOMAIN list /\ Fits(b) /\ Known(b, found)
    <2>1. /\ SetAndUnlock([look |-> b, boxes |-> b]) /\ boxes' = b /\ preset' = n
          /\ UNCHANGED <<file, list, phase, reloaded>>
      BY <1>2 DEF KeyPreset, Apply, ghosts
    <2>2. /\ Record(conf') /\ Partial(tmp')
          /\ Effective'.boxes = boxes'
      BY <2>1, Changes, ChangedNow DEF BInv, Fields
    <2>3. n \in Int
      BY DEF Cycled, First, BInv, Formed
    <2> QED
      BY <1>2, <2>1, <2>2, <2>3 DEF BInv, Formed, BoxesShown, BoxesAgree, PresetIsShown
  <1>3. CASE n + 1 \in DOMAIN list /\ ~(Fits(b) /\ Known(b, found))
    <2>1. UNCHANGED <<boxes, preset, file, list, phase, reloaded>>
      BY <1>3 DEF KeyPreset, Apply, ghosts
    <2>2. Change([look |-> b]) \/ Change(Nothing)
      BY <1>3 DEF KeyPreset, Apply, Set
    <2>3. /\ Record(conf') /\ Partial(tmp')
          /\ Effective'.boxes = Effective.boxes
      BY <2>2, Changes, QuietChange, NothingIsEmpty
    <2> QED
      BY <1>1, <2>1, <2>3 DEF BInv, Formed, BoxesShown, BoxesAgree, PresetIsShown
  <1>4. CASE n + 1 \notin DOMAIN list
    <2>1. /\ Change(Nothing) /\ Ends /\ UNCHANGED <<boxes, list, reloaded>>
          /\ preset' = n
      BY <1>4 DEF KeyPreset
    <2>2. reloaded
      BY <1>1, <1>4, CycledInList DEF KeyPreset
    <2>3. /\ Record(conf') /\ Partial(tmp')
      BY <2>1, QuietChange, NothingIsEmpty
    <2>4. file' \in {file, Torn}
      BY <2>1 DEF Ends, Truncate, GivesUp
    <2>5. n \in Int
      BY DEF Cycled, First, BInv, Formed
    <2> QED
      BY <2>1, <2>2, <2>3, <2>4, <2>5 DEF BInv, Formed, BoxesShown, BoxesAgree, PresetIsShown
  <1> QED
    BY <1>2, <1>3, <1>4

LEMMA EditBoxesBoxes == ASSUME BInv, NEW b \in BoxTexts, EditBoxes(b) PROVE BInv'
  <1>1. /\ SetAndUnlock([boxes |-> b]) /\ boxes' = b /\ preset' = NoPreset
        /\ UNCHANGED <<file, list, phase, reloaded>>
    BY DEF EditBoxes, ghosts
  <1>2. /\ Record(conf') /\ Partial(tmp')
        /\ Effective'.boxes = boxes'
    BY <1>1, Changes, ChangedNow DEF BInv, Fields
  <1> QED
    BY <1>1, <1>2 DEF BInv, Formed, BoxesShown, BoxesAgree, PresetIsShown, NoPreset

LEMMA EditPresetsBoxes == ASSUME BInv, NEW p \in PresetTexts, EditPresets(p) PROVE BInv'
  <1>1. /\ SetAndUnlock([presets |-> p]) /\ preset' = NoPreset /\ list' = PresetList(p)
        /\ UNCHANGED <<file, boxes, phase, reloaded>> /\ phase = "running"
    BY DEF EditPresets, Key, ghosts
  <1>2. /\ Record(conf') /\ Partial(tmp')
        /\ Effective'.boxes = Effective.boxes
    BY <1>1, Changes, ChangedNow DEF BInv, Fields
  <1>3. list' \in Seq(Presets) /\ Len(list') > 0
    BY <1>1, PresetListFormed
  <1> QED
    BY <1>1, <1>2, <1>3 DEF BInv, Formed, BoxesShown, BoxesAgree, PresetIsShown, NoPreset

LEMMA EditDisableBoxes == ASSUME BInv, NEW mode \in Modes, EditDisable(mode) PROVE BInv'
  <1>1. /\ Change([disable |-> mode]) /\ preset' \in {preset, NoPreset}
        /\ UNCHANGED <<file, boxes, list, phase, reloaded>> /\ phase = "running"
    BY DEF EditDisable, Set, Key, ghosts
  <1>2. /\ Record(conf') /\ Partial(tmp')
        /\ Effective'.boxes = Effective.boxes
    BY <1>1, Changes, QuietChange
  <1> QED
    BY <1>1, <1>2 DEF BInv, Formed, BoxesShown, BoxesAgree, PresetIsShown, NoPreset

LEMMA EditSaveBoxes == ASSUME BInv, EditSave PROVE BInv'
  <1>1. /\ Change([save |-> ~Effective.save])
        /\ UNCHANGED <<boxes, list, preset, reloaded>> /\ phase = "running"
    BY DEF EditSave, Set, Key, ghosts
  <1>2. /\ Record(conf') /\ Partial(tmp')
        /\ Effective'.boxes = Effective.boxes
    BY <1>1, Changes, QuietChange
  <1>3. file' \in {file, Torn}
    BY DEF EditSave, Truncate, GivesUp
  <1> QED
    BY <1>1, <1>2, <1>3 DEF BInv, Formed, BoxesShown, BoxesAgree, PresetIsShown

LEMMA NextBoxes == BInv /\ [Next]_vars => BInv'
<1> SUFFICES ASSUME BInv, [Next]_vars PROVE BInv'
  OBVIOUS
<1>1. CASE UNCHANGED vars
  BY <1>1 DEF vars, runner, ghosts, BInv, Formed, BoxesShown, BoxesAgree, PresetIsShown, Effective
<1>2. CASE Next
  BY <1>2, StartBoxes, ReloadBoxes, FileBoxes, RunnerBoxes, KeyBoxBoxes, KeyPresetBoxes,
     EditBoxesBoxes, EditPresetsBoxes, EditDisableBoxes, EditSaveBoxes DEF Next
<1> QED
  BY <1>1, <1>2

\* Whatever is pressed, edited, saved or interrupted, the boxes that are drawn are
\* those of the setting, and the preset that is named is the one that is shown,
\* as long as the file has not been loaded again: btop_config.cpp keeps each of
\* them twice.
THEOREM TwoCopiesAgree == Spec => []BoxesShown
  <1>1. BInv => BoxesShown
    BY DEF BInv
  <1> QED
    BY <1>1, InitBoxes, NextBoxes, PTL DEF Spec
-----------------------------------------------------------------------------
(* The settings that come back.                                            *)

\* Settings are neither of the marks of a file that cannot be read.
Readable == \A r : Record(r) => r \notin {Missing, Torn}

\* Presets in effect, or about to be, are accepted when they are read.
Accepted ==
    /\ PresetsValid(conf.presets)
    /\ "presets" \in DOMAIN tmp => PresetsValid(tmp["presets"])

\* Settings that do not count as changed are those of the file.
Saved ==
    /\ phase = "running" /\ ~writeNew => file = conf /\ tmp = Nothing
    /\ phase = "menu" => writeNew
    /\ phase = "end" /\ kept # Missing => conf = kept
    /\ phase = "down" /\ kept # Missing => file = kept /\ Record(kept) /\ PresetsValid(kept.presets)
    /\ phase = "running" => kept = Missing
    /\ phase = "menu" => kept = Missing

Stored == BInv /\ Accepted /\ Saved

LEMMA AcceptedEffective == ASSUME Formed, Accepted PROVE PresetsValid(Effective.presets)
<1>1. Effective["presets"] = IF "presets" \in DOMAIN tmp THEN tmp["presets"] ELSE conf["presets"]
  BY OverrideFormed DEF Formed, Effective, Fields
<1> QED
  BY <1>1 DEF Accepted

\* A change of other settings, and one that takes effect at once.
LEMMA ChangeAccepted ==
    ASSUME Formed, Accepted, NEW g, Partial(g), Change(g) \/ SetAndUnlock(g),
           "presets" \in DOMAIN g => PresetsValid(g["presets"])
    PROVE  Accepted'
<1>1. CASE active /\ Change(g)
  BY <1>1 DEF Change, Put, Accepted
<1>2. CASE (~active /\ Change(g)) \/ SetAndUnlock(g)
  <2>1. conf' = Override(Effective, g) /\ tmp' = Nothing
    BY <1>2 DEF Change, SetAndUnlock
  <2>2. Record(Effective)
    BY OverrideFormed DEF Effective, Formed
  <2>3. conf'["presets"] = IF "presets" \in DOMAIN g THEN g["presets"] ELSE Effective["presets"]
    BY <2>1, <2>2, OverrideFormed DEF Fields
  <2> QED
    BY <2>1, <2>3, AcceptedEffective, NothingIsEmpty DEF Accepted
<1> QED
  BY <1>1, <1>2

\* Nothing changes where nothing waits.
LEMMA NothingChanges ==
    ASSUME Formed, tmp = Nothing, Change(Nothing)
    PROVE  UNCHANGED <<conf, tmp>>
<1>1. Effective = conf
  BY OverrideNothing DEF Effective, Formed
<1>2. CASE active
  BY <1>2 DEF Change, Put, Nothing
<1>3. CASE ~active
  BY <1>1, <1>3, OverrideNothing DEF Change, Formed
<1> QED
  BY <1>2, <1>3

LEMMA DefaultsAccepted == PresetsValid(Defaults.presets)
  BY ConfigStoreAssumption DEF PresetsValid, Defaults, ToSet

LEMMA LoadedAccepted ==
    ASSUME NEW c, NEW old, Record(old), c \notin {Missing, Torn} => Record(c),
           PresetsValid(old.presets)
    PROVE  PresetsValid(Loaded(c, old).presets) /\ (~LoadedNew(c) => Loaded(c, old) = c)
  BY DEF Loaded, LoadedNew, Record, Fields

\* An end that is clean: what is kept is in the file, or is about to be.
LEMMA EndSaves ==
    ASSUME Formed, Accepted, Saved, phase = "running", Ends, UNCHANGED writeNew,
           Change(Nothing) \/ UNCHANGED <<conf, tmp>>
    PROVE  Accepted' /\ Saved'
<1>1. Accepted'
  BY ChangeAccepted, NothingIsEmpty DEF Accepted
<1>2. CASE writeNew
  BY <1>1, <1>2 DEF Ends, Truncate, GivesUp, Saved, Accepted
<1>3. CASE ~writeNew
  <2>1. file = conf /\ UNCHANGED <<conf, tmp>>
    BY <1>3, NothingChanges DEF Saved
  <2> QED
    BY <1>1, <1>3, <2>1 DEF Ends, GivesUp, Truncate, Formed, Saved, Accepted
<1> QED
  BY <1>1, <1>2, <1>3

LEMMA StartSaves ==
    ASSUME Stored, NEW p \in -1..MaxPresets, Start(p)
    PROVE  Accepted' /\ Saved'
<1> DEFINE c == Loaded(file, Defaults)
<1>1. Record(c) /\ PresetsValid(c.presets) /\ (~LoadedNew(file) => c = file)
  BY LoadedFormed, LoadedAccepted, DefaultsFormed, DefaultsAccepted DEF Stored, BInv, Formed
<1> HIDE DEF c
<1>2. conf'.presets = c.presets /\ (~writeNew' => conf' = c /\ ~LoadedNew(file))
  BY <1>1 DEF Start, Record, Fields, c
<1>3. tmp' = Nothing /\ phase' = "running" /\ kept' = Missing /\ UNCHANGED file
  BY DEF Start
<1> QED
  BY <1>1, <1>2, <1>3, NothingIsEmpty DEF Accepted, Saved, Start

LEMMA ReloadSaves ==
    ASSUME Stored, NEW c \in Contents \cup {file}, Reload(c)
    PROVE  Accepted' /\ Saved'
<1>1. Record(Effective) /\ PresetsValid(Effective.presets)
  BY OverrideFormed, AcceptedEffective DEF Effective, Stored, BInv, Formed
<1>2. c \notin {Missing, Torn} => Record(c)
  BY DefaultsFormed DEF Stored, BInv, Formed
<1>3. PresetsValid(conf'.presets) /\ (~LoadedNew(c) => conf' = c)
  BY <1>1, <1>2, LoadedAccepted DEF Reload
<1> QED
  BY <1>3, NothingIsEmpty DEF Reload, Stored, Accepted, Saved

LEMMA FileSaves ==
    ASSUME Stored, Write \/ Quit \/ Crash \/ \E c \in Contents : EditFile(c)
    PROVE  Accepted' /\ Saved'
<1>1. CASE Write
  BY <1>1 DEF Write, ghosts, Stored, BInv, Formed, Accepted, Saved
<1>2. CASE Quit
  BY <1>2, EndSaves DEF Quit, Stored, BInv
<1>3. CASE Crash
  BY <1>3 DEF Crash, Stored, Accepted, Saved
<1>4. CASE \E c \in Contents : EditFile(c)
  BY <1>4 DEF EditFile, Stored, Accepted, Saved
<1> QED
  BY <1>1, <1>2, <1>3, <1>4

LEMMA RunnerSaves == ASSUME Stored, Work \/ Collected PROVE Accepted' /\ Saved'
<1>1. CASE Work
  <2>1. tmp = Nothing => conf' = conf
    BY <1>1, OverrideNothing DEF Work, Effective, Stored, BInv, Formed
  <2> QED
    BY <1>1, <2>1, AcceptedEffective, NothingIsEmpty DEF Work, ghosts, Stored, BInv, Accepted, Saved
<1>2. CASE Collected
  BY <1>2 DEF Collected, ghosts, Stored, Accepted, Saved
<1> QED
  BY <1>1, <1>2

\* A key or a menu that sets something, or refuses.
LEMMA KeySaves ==
    ASSUME Stored, phase = "running", NEW g, Partial(g), Change(g) \/ SetAndUnlock(g),
           "presets" \in DOMAIN g => PresetsValid(g["presets"]),
           UNCHANGED <<file, phase, kept>>, writeNew' = TRUE \/ (g = Nothing /\ UNCHANGED writeNew)
    PROVE  Accepted' /\ Saved'
<1>1. Accepted'
  BY ChangeAccepted DEF Stored, BInv
<1>2. CASE writeNew'
  BY <1>1, <1>2 DEF Saved, Stored
<1>3. CASE ~writeNew'
  <2>1. g = Nothing /\ tmp = Nothing /\ file = conf
    BY <1>3 DEF Saved, Stored
  <2>2. UNCHANGED <<conf, tmp>>
    <3>1. CASE Change(g)
      BY <2>1, <3>1, NothingChanges DEF Stored, BInv
    <3>2. CASE SetAndUnlock(g)
      BY <1>3, <3>2 DEF SetAndUnlock
    <3> QED
      BY <3>1, <3>2
  <2> QED
    BY <1>1, <2>1, <2>2 DEF Saved, Stored
<1> QED
  BY <1>2, <1>3

LEMMA KeysSave ==
    ASSUME Stored,
           \/ \E b \in Names : KeyBox(b)
           \/ \E forwards \in BOOLEAN : KeyPreset(forwards)
           \/ \E b \in BoxTexts : EditBoxes(b)
           \/ \E p \in PresetTexts : EditPresets(p)
           \/ \E mode \in Modes : EditDisable(mode)
    PROVE  Accepted' /\ Saved'
<1>1. ASSUME NEW b \in Names, KeyBox(b) PROVE Accepted' /\ Saved'
  <2>1. UNCHANGED <<file, phase, kept>> /\ phase = "running"
    BY <1>1 DEF KeyBox, Key, ghosts
  <2>2. \/ SetAndUnlock([boxes |-> Toggled(b)])
        \/ Change(Nothing) /\ UNCHANGED writeNew
    BY <1>1 DEF KeyBox
  <2> QED
    BY <2>1, <2>2, KeySaves, Changes, NothingIsEmpty DEF SetAndUnlock
<1>2. ASSUME NEW forwards \in BOOLEAN, KeyPreset(forwards) PROVE Accepted' /\ Saved'
  <2> DEFINE n == Cycled(forwards)
             b == list[n + 1]
  <2>1. phase = "running"
    BY <1>2 DEF KeyPreset, Key
  <2>2. CASE n + 1 \in DOMAIN list
    <3>1. UNCHANGED <<file, phase, kept>>
      BY <1>2, <2>2 DEF KeyPreset, ghosts
    <3>2. \/ SetAndUnlock([look |-> b, boxes |-> b])
          \/ Set([look |-> b])
          \/ Change(Nothing) /\ UNCHANGED writeNew
      BY <1>2, <2>2 DEF KeyPreset, Apply
    <3> QED
      BY <2>1, <3>1, <3>2, KeySaves, Changes, NothingIsEmpty DEF Set, SetAndUnlock
  <2>3. CASE n + 1 \notin DOMAIN list
    BY <1>2, <2>1, <2>3, EndSaves DEF KeyPreset, Stored, BInv
  <2> QED
    BY <2>2, <2>3
<1>3. ASSUME NEW b \in BoxTexts, EditBoxes(b) PROVE Accepted' /\ Saved'
  BY <1>3, KeySaves, Changes DEF EditBoxes, Key, SetAndUnlock, ghosts
<1>4. ASSUME NEW p \in PresetTexts, EditPresets(p) PROVE Accepted' /\ Saved'
  <2>1. /\ SetAndUnlock([presets |-> p]) /\ writeNew' = TRUE /\ PresetsValid(p)
        /\ UNCHANGED <<file, phase, kept>> /\ phase = "running"
    BY <1>4 DEF EditPresets, Key, SetAndUnlock, ghosts
  <2>2. [presets |-> p]["presets"] = p
    OBVIOUS
  <2> QED
    BY <2>1, <2>2, KeySaves, Changes
<1>5. ASSUME NEW mode \in Modes, EditDisable(mode) PROVE Accepted' /\ Saved'
  BY <1>5, KeySaves, Changes DEF EditDisable, Key, Set, ghosts
<1> QED
  BY <1>1, <1>2, <1>3, <1>4, <1>5

LEMMA EditSaveSaves == ASSUME Stored, EditSave PROVE Accepted' /\ Saved'
<1>1. /\ Change([save |-> ~Effective.save]) /\ writeNew' = TRUE /\ phase = "running"
      /\ phase' \in {"running", "menu"} /\ UNCHANGED kept
  BY DEF EditSave, Set, Key, Truncate, GivesUp, ghosts
<1>2. Accepted'
  BY <1>1, ChangeAccepted, Changes DEF Stored, BInv
<1> QED
  BY <1>1, <1>2 DEF Stored, Saved

LEMMA AlwaysStored == Spec => []Stored
<1>1. Init => Stored
  BY InitBoxes, DefaultsAccepted, NothingIsEmpty DEF Init, Stored, Accepted, Saved
<1>2. Stored /\ [Next]_vars => Stored'
  <2> SUFFICES ASSUME Stored, [Next]_vars PROVE Accepted' /\ Saved'
    BY NextBoxes DEF Stored
  <2>1. CASE UNCHANGED vars
    BY <2>1 DEF vars, ghosts, Stored, Accepted, Saved
  <2> QED
    BY <2>1, StartSaves, ReloadSaves, FileSaves, RunnerSaves, KeysSave, EditSaveSaves DEF Next
<1> QED
  BY <1>1, <1>2, PTL DEF Spec

\* Only the start begins a run, and without --preset it takes the file as it is.
LEMMA StartRestores ==
    ASSUME Readable, Stored, [Next]_vars, Starts, kept # Missing
    PROVE  conf' = IF Known(kept.boxes, FALSE) THEN kept ELSE [kept EXCEPT !.boxes = Default]
<1>1. PICK p \in -1..MaxPresets : Start(p)
  BY DEF Starts, Next, vars, Reload, Write, Quit, Crash, EditFile, Work, Collected, KeyBox, KeyPreset,
     EditBoxes, EditPresets, EditDisable, EditSave, Key, Truncate, GivesUp
<1>2. kept = file /\ Record(kept) /\ PresetsValid(file.presets)
  BY DEF Stored, Saved, Starts
<1>3. Record(file)
  BY <1>2
<1>4. Loaded(file, Defaults) = file
  BY <1>2, <1>3 DEF Loaded, Readable
<1>5. p = NoPreset
  <2>1. list' \in Seq(Presets) /\ Len(list') > 0
    BY NextBoxes DEF Stored, BInv, Formed
  <2>2. preset' = IF p = NoPreset THEN p ELSE IF p < Len(list') THEN p ELSE Len(list') - 1
    BY <1>1 DEF Start
  <2> QED
    BY <2>1, <2>2 DEF Starts, NoPreset
<1>6. conf' = [file EXCEPT !.boxes = IF Known(file.boxes, FALSE) THEN file.boxes ELSE Default]
  <2>1. conf' = [file EXCEPT !.boxes = IF Known(file.boxes, FALSE) THEN file.boxes ELSE Default,
                             !.look = file.look]
    BY <1>1, <1>4, <1>5 DEF Start
  <2> QED
    BY <1>3, <2>1 DEF Record, Fields
<1> QED
  BY <1>2, <1>3, <1>6 DEF Record, Fields

\* What was in effect at a clean end comes back, whatever was edited, refused, loaded or
\* forced in between: every change that matters sets write_new, and nothing is written that
\* load() would refuse. Boxes that need a card do not come back (btop.cpp:1248).
THEOREM CleanEndIsKept == ASSUME Readable PROVE Spec => SettingsRestored
<1>1. Stored /\ [Next]_vars
        => (Starts /\ kept # Missing
              => conf' = IF Known(kept.boxes, FALSE) THEN kept ELSE [kept EXCEPT !.boxes = Default])
  BY StartRestores
<1> QED
  BY <1>1, AlwaysStored, PTL DEF Spec, SettingsRestored
-----------------------------------------------------------------------------
(* The types.                                                              *)

\* What each setting may be, and settings that are all, or some, such values.
Allowed == [boxes |-> BoxTexts \cup {Default} \cup Seq(Names), presets |-> PresetTexts,
            disable |-> Modes, save |-> BOOLEAN, look |-> Seq(Names)]
Good(r) == Record(r) /\ \A k \in Fields : r[k] \in Allowed[k]
Some(g) == Partial(g) /\ \A k \in DOMAIN g : g[k] \in Allowed[k]

Values ==
    /\ Good(conf) /\ Some(tmp) /\ (active => locked) /\ (~locked => tmp = Nothing)
    /\ file \in {Missing, Torn} \/ Good(file)
    /\ kept = Missing \/ Good(kept)
Shown ==
    /\ boxes \in Seq(Names) /\ list \in Seq(Seq(Names)) /\ list[1] = Default
    /\ Len(list) \in 1..(MaxPresets + 1) /\ preset \in -1..MaxPresets
Flags ==
    /\ phase \in {"down", "running", "menu", "end"} /\ events \in 0..MaxEvents
    /\ locked \in BOOLEAN /\ active \in BOOLEAN /\ writeNew \in BOOLEAN
    /\ found \in BOOLEAN /\ threw \in BOOLEAN /\ reloaded \in BOOLEAN

LEMMA GoodIsSetting == \A r : Good(r) <=> r \in Settings
<1>1. ASSUME NEW r, Good(r) PROVE r \in Settings
  <2>1. r = [k \in Fields |-> r[k]]
    BY <1>1 DEF Good, Record
  <2>2. /\ r.boxes \in BoxTexts \cup {Default} \cup Seq(Names) /\ r.presets \in PresetTexts
        /\ r.disable \in Modes /\ r.save \in BOOLEAN /\ r.look \in Seq(Names)
    BY <1>1 DEF Good, Allowed, Fields
  <2> QED
    BY <2>1, <2>2 DEF Settings, Fields
<1>2. ASSUME NEW r \in Settings PROVE Good(r)
  BY DEF Settings, Good, Record, Fields, Allowed
<1> QED
  BY <1>1, <1>2

LEMMA OverrideGood ==
    ASSUME NEW f, NEW g, Good(f), Some(g)
    PROVE  Good(Override(f, g))
  BY OverrideFormed DEF Good, Some

LEMMA PutSome ==
    ASSUME NEW f, NEW g, Some(f), Some(g)
    PROVE  Some(Put(f, g))
  BY DEF Put, Some, Partial

LEMMA NothingSome == Some(Nothing)
  BY NothingIsEmpty DEF Some

\* The changes of keys and menus are to allowed values.
LEMMA ChangesGood ==
    /\ \A b \in Seq(Names) : Some([boxes |-> b]) /\ Some([look |-> b]) /\ Some([look |-> b, boxes |-> b])
    /\ \A b \in BoxTexts : Some([boxes |-> b])
    /\ \A p \in PresetTexts : Some([presets |-> p])
    /\ \A mode \in Modes : Some([disable |-> mode])
    /\ \A save \in BOOLEAN : Some([save |-> save])
<1>1. ASSUME NEW b \in Seq(Names) PROVE Some([boxes |-> b]) /\ Some([look |-> b]) /\ Some([look |-> b, boxes |-> b])
  BY Changes DEF Some, Allowed
<1>2. ASSUME NEW b \in BoxTexts PROVE Some([boxes |-> b])
  BY Changes DEF Some, Allowed
<1>3. ASSUME NEW p \in PresetTexts PROVE Some([presets |-> p])
  BY Changes DEF Some, Allowed
<1>4. ASSUME NEW mode \in Modes PROVE Some([disable |-> mode])
  BY Changes DEF Some, Allowed
<1>5. ASSUME NEW save \in BOOLEAN PROVE Some([save |-> save])
  BY Changes DEF Some, Allowed
<1> QED
  BY <1>1, <1>2, <1>3, <1>4, <1>5

\* A change, or one that takes effect at once, leaves allowed values.
LEMMA ChangeGood ==
    ASSUME Values, Flags, NEW g, Some(g),
           (Change(g) /\ active' \in {active, FALSE}) \/ SetAndUnlock(g)
    PROVE  Good(conf') /\ Some(tmp') /\ (active' => locked') /\ (~locked' => tmp' = Nothing) /\ locked' \in BOOLEAN
<1>1. CASE active /\ Change(g) /\ active' \in {active, FALSE}
  <2>1. tmp' = Put(tmp, g) /\ UNCHANGED <<conf, locked>> /\ locked
    BY <1>1 DEF Change, Values
  <2> QED
    BY <2>1, PutSome DEF Values, Flags
<1>2. CASE (~active /\ Change(g) /\ active' \in {active, FALSE}) \/ SetAndUnlock(g)
  <2>1. conf' = Override(Effective, g) /\ tmp' = Nothing /\ locked' = FALSE
    BY <1>2 DEF Change, SetAndUnlock
  <2>2. Good(Effective)
    BY OverrideGood DEF Effective, Values
  <2>3. Good(conf')
    BY <2>1, <2>2, OverrideGood
  <2>4. ~active'
    BY <1>2 DEF SetAndUnlock
  <2> QED
    BY <2>1, <2>3, <2>4, NothingSome
<1> QED
  BY <1>1, <1>2

LEMMA DefaultsGood == Default \in Seq(Names) /\ Good(Defaults) /\ \A c \in Contents : Good(c)
<1>1. Default \in Seq(Names)
  <2>1. Default \in [1..Len(Default) -> Names] /\ Len(Default) \in Nat
    BY ConfigStoreAssumption
  <2> QED
    BY <2>1
<1>2. Good(Defaults)
  <2>1. <<>> \in Seq(Names) /\ DefaultPresets \in PresetTexts
    BY ConfigStoreAssumption
  <2> QED
    BY <2>1, DefaultsFormed DEF Good, Defaults, Allowed, Fields, NoLook, Modes
<1>3. ASSUME NEW b \in BoxTexts, NEW p \in PresetTexts PROVE Good(Typed(b, p))
  <2>1. Typed(b, p) \in Contents
    BY DEF Contents
  <2>2. Record(Typed(b, p))
    BY <2>1, DefaultsFormed
  <2> QED
    BY <1>2, <2>2 DEF Good, Typed, Allowed, Fields, Record
<1> QED
  BY <1>1, <1>2, <1>3 DEF Contents

LEMMA LoadedGood ==
    ASSUME NEW c, NEW old, Good(old), c \in {Missing, Torn} \/ Good(c)
    PROVE  Good(Loaded(c, old))
<1>1. CASE c \in {Missing, Torn}
  BY <1>1 DEF Loaded
<1>2. CASE c \notin {Missing, Torn} /\ PresetsValid(c.presets)
  BY <1>2 DEF Loaded
<1>3. CASE c \notin {Missing, Torn} /\ ~PresetsValid(c.presets)
  <2>1. Loaded(c, old) = [c EXCEPT !.presets = old.presets]
    BY <1>3 DEF Loaded
  <2>2. old.presets \in PresetTexts
    BY DEF Good, Record
  <2> QED
    BY <1>3, <2>1, <2>2 DEF Good, Record, Allowed, Fields
<1> QED
  BY <1>1, <1>2, <1>3

\* Presets that are accepted make a list.
LEMMA ListGood ==
    ASSUME NEW p \in PresetTexts, PresetsValid(p)
    PROVE  /\ PresetList(p) \in Seq(Seq(Names)) /\ PresetList(p)[1] = Default
           /\ Len(PresetList(p)) \in 1..(MaxPresets + 1)
<1>1. p \in Seq(Seq(STRING)) /\ MaxPresets \in Nat
  BY ConfigStoreAssumption
<1>2. p \in Seq(Seq(Names))
  <2>1. ASSUME NEW i \in 1..Len(p) PROVE p[i] \in Seq(Names)
    <3> DEFINE q == p[i]
    <3>1. q \in Seq(STRING)
      BY <1>1
    <3>2. \A k \in DOMAIN q : q[k] \in Names
      BY <1>1 DEF PresetsValid
    <3> HIDE DEF q
    <3>3. q \in [1..Len(q) -> Names] /\ Len(q) \in Nat
      BY <3>1, <3>2
    <3>4. q \in Seq(Names)
      BY <3>3
    <3> QED
      BY <3>4 DEF q
  <2>2. p \in [1..Len(p) -> Seq(Names)] /\ Len(p) \in Nat
    BY <1>1, <2>1
  <2> QED
    BY <2>2
<1>3. <<Default>> \in Seq(Seq(Names)) /\ Len(<<Default>>) = 1 /\ <<Default>>[1] = Default
  BY DefaultsGood
<1>4. Len(p) \in 0..MaxPresets
  BY <1>1 DEF PresetsValid
<1> DEFINE one == <<Default>>
           all == one \o p
<1> HIDE DEF one
<1>5. one \in Seq(Seq(Names)) /\ Len(one) = 1 /\ one[1] = Default
  BY <1>3 DEF one
<1>6. all \in Seq(Seq(Names)) /\ Len(all) = 1 + Len(p) /\ all[1] = one[1]
  <2>1. /\ all \in Seq(Seq(Names)) /\ Len(all) = Len(one) + Len(p)
        /\ \A i \in 1..(Len(one) + Len(p)) : all[i] = IF i <= Len(one) THEN one[i] ELSE p[i - Len(one)]
    BY <1>2, <1>5, ConcatProperties
  <2> HIDE DEF all
  <2>2. 1 \in 1..(Len(one) + Len(p))
    BY <1>4, <1>5
  <2> QED
    BY <1>5, <2>1, <2>2
<1> QED
  BY <1>1, <1>4, <1>5, <1>6 DEF PresetList, one

\* Boxes that are all known are a sequence of names.
LEMMA KnownGood ==
    ASSUME NEW b \in BoxTexts \cup {Default} \cup Seq(Names), NEW card, Known(b, card)
    PROVE  b \in Seq(Names)
<1>1. b \in Seq(STRING) \/ b \in Seq(Names)
  BY ConfigStoreAssumption
<1>2. CASE b \in Seq(STRING)
  <2>1. \A i \in DOMAIN b : b[i] \in Names
    BY DEF Known
  <2>2. b \in [1..Len(b) -> Names] /\ Len(b) \in Nat
    BY <1>2, <2>1
  <2> QED
    BY <2>2
<1> QED
  BY <1>1, <1>2

\* What holds of zero and of a number's successor holds of every number.
LEMMA NatInduct ==
    ASSUME NEW T, T \subseteq Nat, 0 \in T, \A n \in T : n + 1 \in T
    PROVE  T = Nat
<1> SUFFICES ASSUME Nat \ T # {} PROVE FALSE
  OBVIOUS
<1> DEFINE D == {0..n : n \in Nat \ T}
<1>1. D # {} /\ D \subseteq FiniteSubsetsOf(Nat)
  <2>1. ASSUME NEW n \in Nat PROVE 0..n \in FiniteSubsetsOf(Nat)
    BY FS_Interval DEF FiniteSubsetsOf
  <2> QED
    BY <2>1
<1>2. PICK d \in D : \A e \in D : ~ (<<e, d>> \in StrictSubsetOrdering(Nat))
  <2> HIDE DEF D
  <2> QED
  BY <1>1, WFMin, FS_StrictSubsetOrderingWellFounded
<1>3. PICK n \in Nat \ T : d = 0..n
  OBVIOUS
<1>4. n - 1 \in Nat \ T
  OBVIOUS
<1>5. 0..(n - 1) \in D
  BY <1>4
<1>6. <<0..(n - 1), 0..n>> \in StrictSubsetOrdering(Nat)
  <2>1. n \in 0..n /\ n \notin 0..(n - 1) /\ 0..(n - 1) \subseteq 0..n /\ 0..n \subseteq Nat
    OBVIOUS
  <2> QED
    BY <2>1 DEF StrictSubsetOrdering
<1> QED
  BY <1>2, <1>3, <1>5, <1>6


\* Numbers have a least one.
LEMMA Least ==
    ASSUME NEW I, I \subseteq Nat, I # {}
    PROVE  \E x \in I : \A y \in I : x <= y
<1> SUFFICES ASSUME \A x \in I : \E y \in I : ~(x <= y) PROVE FALSE
  OBVIOUS
<1> DEFINE T == {n \in Nat : \A x \in I : n <= x}
<1>1. 0 \in T
  OBVIOUS
<1>2. ASSUME NEW n \in T PROVE n + 1 \in T
  <2>1. n \notin I
    OBVIOUS
  <2>2. ASSUME NEW x \in I PROVE n + 1 <= x
    BY <2>1
  <2> QED
    BY <2>2
<1>3. T = Nat
  <2> HIDE DEF T
  <2>1. T \subseteq Nat
    BY DEF T
  <2> QED
    BY <1>1, <1>2, <2>1, NatInduct
<1>4. PICK x \in I : TRUE
  OBVIOUS
<1>5. x + 1 \in T
  BY <1>3
<1> QED
  BY <1>5

\* One box more or less, as rng::find() and erase() do it: of two, the first goes.
LEMMA ToggledGood ==
    ASSUME NEW b \in Names, boxes \in Seq(Names)
    PROVE  Toggled(b) \in Seq(Names)
<1>1. CASE ~Contains(boxes, b)
  BY <1>1, AppendProperties DEF Toggled
<1>2. CASE Contains(boxes, b)
  <2> DEFINE i == SelectInSeq(boxes, LAMBDA v : v = b)
             new == RemoveAt(boxes, i)
  <2>1. Len(boxes) \in Nat /\ DOMAIN boxes = 1..Len(boxes) /\ \A j \in 1..Len(boxes) : boxes[j] \in Names
    BY ElementOfSeq
  <2>2. i \in 1..Len(boxes)
    <3> DEFINE I == {j \in 1..Len(boxes) : boxes[j] = b}
    <3>1. I # {} /\ I \subseteq Nat
      BY <1>2 DEF Contains
    <3>2. i = CHOOSE x \in I : \A y \in I : x <= y
      BY <3>1 DEF SelectInSeq, Min
    <3>3. \E x \in I : \A y \in I : x <= y
      <4> HIDE DEF I
      <4> QED
        BY <3>1, Least
    <3> QED
      BY <3>2, <3>3
  <2>3. Toggled(b) = new
    BY <1>2 DEF Toggled, RemoveFirst, Contains
  <2> HIDE DEF i
  <2>4. SubSeq(boxes, 1, i - 1) \in Seq(Names)
    <3>1. \A j \in 1..(i - 1) : boxes[j] \in Names
      BY <2>1, <2>2
    <3> QED
      BY <2>1, <2>2, <3>1, SubSeqProperties
  <2>5. SubSeq(boxes, i + 1, Len(boxes)) \in Seq(Names)
    <3>1. \A j \in (i + 1)..Len(boxes) : boxes[j] \in Names
      BY <2>1, <2>2
    <3>2. i + 1 \in Int /\ Len(boxes) \in Int
      BY <2>1, <2>2
    <3> QED
      BY <3>1, <3>2, SubSeqProperties
  <2> QED
    BY <2>3, <2>4, <2>5, ConcatProperties DEF RemoveAt
<1> QED
  BY <1>1, <1>2

TypesOK == Values /\ Shown /\ Flags

LEMMA Numbers == MaxEvents \in Nat /\ MaxPresets \in Nat
  BY ConfigStoreAssumption

LEMMA StartTypes ==
    ASSUME TypesOK, NEW p \in -1..MaxPresets, Start(p) PROVE Values' /\ Shown'
<1> DEFINE c     == Loaded(file, Defaults)
           l     == PresetList(c.presets)
           n     == IF p < Len(l) THEN p ELSE Len(l) - 1
           asked == l[n + 1]
           fits  == p # NoPreset /\ Len(SelectSeq(asked, LAMBDA b : b # Gpu)) <= Room
           shown == IF fits /\ Known(asked, FALSE) THEN asked
                    ELSE IF Known(c.boxes, FALSE) THEN c.boxes ELSE Default
<1>1. Good(c) /\ c.presets \in PresetTexts /\ c.boxes \in BoxTexts \cup {Default} \cup Seq(Names)
  <2>1. Good(c)
    BY LoadedGood, DefaultsGood DEF TypesOK, Values
  <2> HIDE DEF c
  <2> QED
    BY <2>1 DEF Good, Record, Allowed, Fields
<1>2. PresetsValid(c.presets)
  BY LoadedAccepted, DefaultsFormed, DefaultsAccepted DEF TypesOK, Values, Good
<1> HIDE DEF c
<1>3. l \in Seq(Seq(Names)) /\ l[1] = Default /\ Len(l) \in 1..(MaxPresets + 1)
  BY <1>1, <1>2, ListGood
<1> HIDE DEF l
<1>4. p # NoPreset => n \in 0..(Len(l) - 1) /\ asked \in Seq(Names)
  <2>1. p # NoPreset => n \in 0..(Len(l) - 1)
    BY <1>3, Numbers DEF NoPreset
  <2> HIDE DEF n
  <2>2. p # NoPreset => n + 1 \in 1..Len(l)
    BY <1>3, <2>1, Numbers
  <2> QED
    BY <1>3, <2>1, <2>2, ElementOfSeq
<1>5. fits => asked \in Seq(Names)
  BY <1>4
<1>6. /\ conf' = [c EXCEPT !.boxes = shown, !.look = IF fits THEN asked ELSE @]
      /\ boxes' = shown /\ list' = l /\ preset' = (IF p = NoPreset THEN p ELSE n)
      /\ tmp' = Nothing /\ active' = FALSE /\ kept' = Missing /\ UNCHANGED file
  BY DEF Start, c, l
<1>7. shown \in Seq(Names)
  <2>1. Known(c.boxes, FALSE) => c.boxes \in Seq(Names)
    BY <1>1, KnownGood
  <2> HIDE DEF fits, asked
  <2> QED
    BY <1>5, <2>1, DefaultsGood
<1> HIDE DEF shown
<1>8. Good(conf')
  <2> HIDE DEF fits, asked
  <2>1. (IF fits THEN asked ELSE c.look) \in Seq(Names)
    BY <1>1, <1>5 DEF Good, Allowed, Fields
  <2>2. \A look \in Seq(Names) : Good([c EXCEPT !.boxes = shown, !.look = look])
    <3> SUFFICES ASSUME NEW look \in Seq(Names) PROVE Good([c EXCEPT !.boxes = shown, !.look = look])
      OBVIOUS
    <3> DEFINE d == [c EXCEPT !.boxes = shown, !.look = look]
    <3>1. /\ DOMAIN c = Fields /\ c.presets \in PresetTexts /\ c.disable \in Modes /\ c.save \in BOOLEAN
      BY <1>1 DEF Good, Record, Allowed, Fields
    <3>2. /\ DOMAIN d = Fields /\ d = [k \in DOMAIN d |-> d[k]]
          /\ d.boxes = shown /\ d.presets = c.presets /\ d.disable = c.disable
          /\ d.save = c.save /\ d.look = look
      BY <3>1 DEF Fields
    <3> HIDE DEF d
    <3>3. Record(d)
      BY <3>1, <3>2 DEF Record
    <3>4. \A k \in Fields : d[k] \in Allowed[k]
      BY <1>7, <3>1, <3>2 DEF Allowed, Fields
    <3> QED
      BY <3>3, <3>4 DEF Good, d
  <2> QED
    BY <1>6, <2>1, <2>2
<1>9. Values'
  BY <1>6, <1>8, NothingSome DEF TypesOK, Values
<1>10. preset' \in -1..MaxPresets
  <2>1. CASE p = NoPreset
    BY <1>6, <2>1
  <2>2. CASE p # NoPreset
    <3>1. n \in 0..(Len(l) - 1)
      BY <1>4, <2>2
    <3> HIDE DEF n
    <3> QED
      BY <1>3, <1>6, <2>2, <3>1, Numbers
  <2> QED
    BY <2>1, <2>2
<1>11. Shown'
  BY <1>3, <1>6, <1>7, <1>10 DEF Shown
<1> QED
  BY <1>9, <1>11

LEMMA ReloadTypes ==
    ASSUME TypesOK, NEW c \in Contents \cup {file}, Reload(c) PROVE Values' /\ Shown'
<1>1. c \in {Missing, Torn} \/ Good(c)
  BY DefaultsGood DEF TypesOK, Values
<1>2. Good(Effective)
  BY OverrideGood DEF Effective, TypesOK, Values
<1>3. Good(conf')
  BY <1>1, <1>2, LoadedGood DEF Reload
<1>4. Values'
  BY <1>1, <1>3, NothingSome DEF Reload, TypesOK, Values
<1>5. list' \in Seq(Seq(Names)) /\ list'[1] = Default /\ Len(list') \in 1..(MaxPresets + 1)
  <2>1. CASE LoadedNew(c)
    BY <2>1 DEF Reload, TypesOK, Shown
  <2>2. CASE ~LoadedNew(c)
    <3>1. c.presets \in PresetTexts /\ PresetsValid(c.presets)
      BY <1>1, <2>2 DEF LoadedNew, Good, Record
    <3> QED
      BY <2>2, <3>1, ListGood DEF Reload
  <2> QED
    BY <2>1, <2>2
<1> QED
  BY <1>4, <1>5 DEF Reload, TypesOK, Shown

LEMMA EndsTypes ==
    ASSUME TypesOK, Change(Nothing) \/ UNCHANGED <<conf, tmp, locked>>, UNCHANGED active, Ends
    PROVE  Values'
<1>1. Good(conf') /\ Some(tmp') /\ (active' => locked') /\ (~locked' => tmp' = Nothing)
  <2>1. CASE Change(Nothing)
    BY <2>1, ChangeGood, NothingSome DEF TypesOK
  <2>2. CASE UNCHANGED <<conf, tmp, locked>>
    BY <2>2 DEF TypesOK, Values
  <2> QED
    BY <2>1, <2>2
<1> QED
  BY <1>1 DEF Ends, Truncate, GivesUp, TypesOK, Values

LEMMA FileTypes ==
    ASSUME TypesOK, Write \/ Quit \/ Crash \/ \E c \in Contents : EditFile(c)
    PROVE  Values' /\ Shown'
<1>1. CASE Write
  BY <1>1 DEF Write, runner, ghosts, TypesOK, Values, Shown
<1>2. CASE Quit
  <2>1. Values'
    BY <1>2, EndsTypes DEF Quit
  <2> QED
    BY <1>2, <2>1 DEF Quit, TypesOK, Shown
<1>3. CASE Crash
  BY <1>3 DEF Crash, runner, TypesOK, Values, Shown
<1>4. CASE \E c \in Contents : EditFile(c)
  BY <1>4, DefaultsGood DEF EditFile, runner, TypesOK, Values, Shown
<1> QED
  BY <1>1, <1>2, <1>3, <1>4

LEMMA RunnerTypes ==
    ASSUME TypesOK, Work \/ Collected PROVE Values' /\ Shown'
<1>1. CASE Work
  <2>1. Good(Effective)
    BY OverrideGood DEF Effective, TypesOK, Values
  <2> QED
    BY <1>1, <2>1, NothingSome DEF Work, ghosts, TypesOK, Values, Shown
<1>2. CASE Collected
  BY <1>2 DEF Collected, ghosts, TypesOK, Values, Shown
<1> QED
  BY <1>1, <1>2

\* What a key sets, when the file is not touched.
LEMMA KeyValues ==
    ASSUME TypesOK, NEW g, Some(g),
           (Change(g) /\ active' \in {active, FALSE}) \/ SetAndUnlock(g), UNCHANGED <<file, kept>>
    PROVE  Values'
BY ChangeGood DEF TypesOK, Values

LEMMA KeyBoxTypes ==
    ASSUME TypesOK, NEW b \in Names, KeyBox(b) PROVE Values' /\ Shown'
<1>1. UNCHANGED <<file, list, kept>> /\ Toggled(b) \in Seq(Names)
  BY ToggledGood DEF KeyBox, ghosts, TypesOK, Shown
<1>2. CASE Fits(Toggled(b))
  <2>1. SetAndUnlock([boxes |-> Toggled(b)]) /\ boxes' = Toggled(b) /\ preset' = NoPreset
    BY <1>2 DEF KeyBox
  <2>2. Values'
    BY <1>1, <2>1, KeyValues, ChangesGood
  <2>3. NoPreset \in -1..MaxPresets
    BY Numbers DEF NoPreset
  <2> QED
    BY <1>1, <2>1, <2>2, <2>3 DEF TypesOK, Shown
<1>3. CASE ~Fits(Toggled(b))
  <2>1. Change(Nothing) /\ active' = FALSE /\ UNCHANGED <<boxes, preset>>
    BY <1>3 DEF KeyBox
  <2>2. Values'
    BY <1>1, <2>1, KeyValues, NothingSome
  <2> QED
    BY <1>1, <2>1, <2>2 DEF TypesOK, Shown
<1> QED
  BY <1>2, <1>3

LEMMA CycledTypes ==
    ASSUME TypesOK, NEW forwards \in BOOLEAN, Read.disable = "Default" => Len(list) > 1
    PROVE  Cycled(forwards) \in 0..MaxPresets
<1>1. Len(list) \in 1..(MaxPresets + 1) /\ MaxPresets \in Nat /\ preset \in -1..MaxPresets
  BY Numbers DEF TypesOK, Shown
<1>2. First \in {0, 1} /\ (First = 1 => Len(list) > 1)
  BY DEF First
<1> QED
  BY <1>1, <1>2 DEF Cycled, NoPreset

LEMMA KeyPresetTypes ==
    ASSUME TypesOK, NEW forwards \in BOOLEAN, KeyPreset(forwards) PROVE Values' /\ Shown'
<1> DEFINE n == Cycled(forwards)
           b == list[n + 1]
<1>1. n \in 0..MaxPresets /\ UNCHANGED list
  BY CycledTypes DEF KeyPreset
<1>2. n \in -1..MaxPresets
  BY <1>1, Numbers
<1>3. CASE n + 1 \in DOMAIN list
  <2>1. Apply(n) /\ UNCHANGED <<file, kept>>
    BY <1>3 DEF KeyPreset, ghosts
  <2>2. b \in Seq(Names)
    <3>1. list \in Seq(Seq(Names)) /\ DOMAIN list = 1..Len(list)
      BY DEF TypesOK, Shown
    <3> HIDE DEF n
    <3> QED
      BY <1>3, <3>1, ElementOfSeq
  <2>3. \/ SetAndUnlock([look |-> b, boxes |-> b]) /\ boxes' = b /\ preset' = n
        \/ (Change([look |-> b]) \/ Change(Nothing)) /\ active' = FALSE /\ UNCHANGED <<boxes, preset>>
    BY <2>1 DEF Apply, Set
  <2> HIDE DEF n, b
  <2>4. Values'
    BY <2>1, <2>2, <2>3, KeyValues, ChangesGood, NothingSome
  <2>5. boxes' \in Seq(Names) /\ preset' \in -1..MaxPresets
    BY <1>2, <2>2, <2>3 DEF TypesOK, Shown
  <2> QED
    BY <1>1, <2>4, <2>5 DEF TypesOK, Shown
<1>4. CASE n + 1 \notin DOMAIN list
  <2>1. /\ Change(Nothing) /\ Ends /\ UNCHANGED <<active, boxes, list>>
        /\ preset' = n
    BY <1>4 DEF KeyPreset
  <2>2. Values'
    BY <2>1, EndsTypes
  <2> HIDE DEF n
  <2> QED
    BY <1>2, <2>1, <2>2 DEF TypesOK, Shown
<1> QED
  BY <1>3, <1>4

LEMMA EditsTypes ==
    ASSUME TypesOK,
           \/ \E b \in BoxTexts : EditBoxes(b)
           \/ \E p \in PresetTexts : EditPresets(p)
           \/ \E mode \in Modes : EditDisable(mode)
           \/ EditSave
    PROVE  Values' /\ Shown'
<1>9. NoPreset \in -1..MaxPresets
  BY Numbers DEF NoPreset
<1>1. ASSUME NEW b \in BoxTexts, EditBoxes(b) PROVE Values' /\ Shown'
  <2>1. SetAndUnlock([boxes |-> b]) /\ boxes' = b /\ preset' = NoPreset /\ Known(b, found)
        /\ UNCHANGED <<file, list, kept>>
    BY <1>1 DEF EditBoxes, ghosts
  <2>2. Values'
    BY <2>1, KeyValues, ChangesGood
  <2>3. b \in Seq(Names)
    BY <2>1, KnownGood
  <2> QED
    BY <1>9, <2>1, <2>2, <2>3 DEF TypesOK, Shown
<1>2. ASSUME NEW p \in PresetTexts, EditPresets(p) PROVE Values' /\ Shown'
  <2>1. PresetsValid(p) /\ list' = PresetList(p) /\ preset' = NoPreset
        /\ SetAndUnlock([presets |-> p]) /\ UNCHANGED <<file, boxes, kept>>
    BY <1>2 DEF EditPresets, ghosts
  <2>2. Values'
    BY <2>1, KeyValues, ChangesGood
  <2> QED
    BY <1>9, <2>1, <2>2, ListGood DEF TypesOK, Shown
<1>3. ASSUME NEW mode \in Modes, EditDisable(mode) PROVE Values' /\ Shown'
  <2>1. Change([disable |-> mode]) /\ preset' \in {preset, NoPreset}
        /\ UNCHANGED <<file, active, boxes, list, kept>>
    BY <1>3 DEF EditDisable, Set, ghosts
  <2>2. Values'
    BY <2>1, KeyValues, ChangesGood
  <2> QED
    BY <1>9, <2>1, <2>2 DEF TypesOK, Shown
<1>4. CASE EditSave
  <2>1. Change([save |-> ~Effective.save]) /\ file' \in {file, Torn}
        /\ UNCHANGED <<active, boxes, list, preset, kept>>
    BY <1>4 DEF EditSave, Set, Truncate, GivesUp, ghosts
  <2>2. Some([save |-> ~Effective.save])
    BY ChangesGood
  <2>3. Good(conf') /\ Some(tmp') /\ (active' => locked') /\ (~locked' => tmp' = Nothing)
    BY <2>1, <2>2, ChangeGood DEF TypesOK
  <2> QED
    BY <2>1, <2>3 DEF TypesOK, Values, Shown
<1> QED
  BY <1>1, <1>2, <1>3, <1>4

LEMMA FlagsKept == ASSUME TypesOK, [Next]_vars PROVE Flags'
<1>1. events' \in 0..MaxEvents
  <2>1. UNCHANGED events \/ Event
    BY DEF Next, vars, ghosts, Start, Reload, Write, Quit, Crash, EditFile, Work, Collected, KeyBox,
       KeyPreset, EditBoxes, EditPresets, EditDisable, EditSave, Key
  <2> QED
    BY <2>1, Numbers DEF Event, TypesOK, Flags
<1>2. locked' \in BOOLEAN
  <2>1. UNCHANGED locked \/ locked' \in {TRUE, FALSE}
    BY DEF Next, vars, runner, Start, Reload, Write, Quit, Crash, EditFile, Work, Collected, KeyBox,
       KeyPreset, Apply, Set, SetAndUnlock, Change, EditBoxes, EditPresets, EditDisable, EditSave
  <2> QED
    BY <2>1 DEF TypesOK, Flags
<1>3. active' \in BOOLEAN /\ found' \in BOOLEAN
  <2>1. UNCHANGED active \/ active' \in {TRUE, FALSE}
    BY DEF Next, vars, runner, Start, Reload, Write, Quit, Crash, EditFile, Work, Collected, KeyBox,
       KeyPreset, Apply, Set, SetAndUnlock, Change, EditBoxes, EditPresets, EditDisable, EditSave
  <2>2. UNCHANGED found \/ found' \in BOOLEAN
    BY DEF Next, vars, runner, Start, Reload, Write, Quit, Crash, EditFile, Work, Collected, KeyBox,
       KeyPreset, EditBoxes, EditPresets, EditDisable, EditSave
  <2> QED
    BY <2>1, <2>2 DEF TypesOK, Flags
<1>4. writeNew' \in BOOLEAN
  <2>1. UNCHANGED writeNew \/ writeNew' \in BOOLEAN
    BY DEF Next, vars, Start, Reload, Write, Quit, Crash, EditFile, Work, Collected, KeyBox,
       KeyPreset, Apply, Set, SetAndUnlock, EditBoxes, EditPresets, EditDisable, EditSave
  <2> QED
    BY <2>1 DEF TypesOK, Flags
<1>5. threw' \in BOOLEAN /\ reloaded' \in BOOLEAN
  <2>1. UNCHANGED threw \/ threw' \in BOOLEAN
    BY DEF Next, vars, Start, Reload, Write, Quit, Crash, EditFile, Work, Collected, KeyBox,
       KeyPreset, EditBoxes, EditPresets, EditDisable, EditSave
  <2>2. UNCHANGED reloaded \/ reloaded' \in BOOLEAN
    BY DEF Next, vars, ghosts, Start, Reload, Write, Quit, Crash, EditFile, Work, Collected, KeyBox,
       KeyPreset, EditBoxes, EditPresets, EditDisable, EditSave
  <2> QED
    BY <2>1, <2>2 DEF TypesOK, Flags
<1>6. phase' \in {"down", "running", "menu", "end"}
  <2>1. UNCHANGED phase \/ phase' \in {"down", "running", "menu", "end"}
    BY DEF Next, vars, Start, Reload, Write, Quit, Crash, EditFile, Work, Collected, KeyBox,
       KeyPreset, Ends, Truncate, GivesUp, EditBoxes, EditPresets, EditDisable, EditSave
  <2> QED
    BY <2>1 DEF TypesOK, Flags
<1> QED
  BY <1>1, <1>2, <1>3, <1>4, <1>5, <1>6 DEF Flags

\* Settings, file and Tmp map hold values that are allowed, the list of presets is one
\* that can be shown and the boxes that are drawn have names that are known, however
\* the file was edited and wherever the program was killed; and what waits in a Tmp
\* map waits under the lock (load() refuses or replaces what it cannot use).
THEOREM TypesOfSettings == Spec => []TypeOK
<1>1. Init => TypesOK
  <2> SUFFICES ASSUME Init PROVE TypesOK
    OBVIOUS
  <2>1. Values
    BY DefaultsGood, NothingSome DEF Init, Values
  <2>2. <<Default>> \in Seq(Seq(Names)) /\ Len(<<Default>>) = 1 /\ <<Default>>[1] = Default
    BY DefaultsGood
  <2>3. Shown
    BY <2>2, Numbers DEF Init, Shown, NoPreset
  <2>4. Flags
    <3>1. 0 \in 0..MaxEvents
      BY Numbers
    <3> QED
      BY <3>1 DEF Init, Flags
  <2> QED
    BY <2>1, <2>3, <2>4 DEF TypesOK
<1>2. TypesOK /\ [Next]_vars => TypesOK'
  <2> SUFFICES ASSUME TypesOK, [Next]_vars PROVE Values' /\ Shown'
    BY FlagsKept DEF TypesOK
  <2>1. CASE UNCHANGED vars
    BY <2>1 DEF vars, ghosts, TypesOK, Values, Shown
  <2> QED
    BY <2>1, StartTypes, ReloadTypes, FileTypes, RunnerTypes, KeyBoxTypes, KeyPresetTypes, EditsTypes DEF Next
<1>3. TypesOK => TypeOK
  <2> SUFFICES ASSUME TypesOK PROVE TypeOK
    OBVIOUS
  <2>1. Good(Effective) /\ DOMAIN tmp \subseteq DOMAIN conf
    BY OverrideGood DEF Effective, TypesOK, Values, Good, Some, Record, Partial
  <2>2. conf \in Settings /\ Effective \in Settings /\ (file \in {Missing, Torn} \/ file \in Settings)
        /\ kept \in Settings \cup {Missing}
    BY <2>1, GoodIsSetting DEF TypesOK, Values
  <2>3. {locked, active, writeNew, found, threw, reloaded} \subseteq BOOLEAN
    BY DEF TypesOK, Flags
  <2> QED
    BY <2>1, <2>2, <2>3 DEF TypesOK, Values, Shown, Flags, TypeOK
<1> QED
  BY <1>1, <1>2, <1>3, PTL DEF Spec
=============================================================================
