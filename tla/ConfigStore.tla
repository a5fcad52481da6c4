----------------------------- MODULE ConfigStore ------------------------------
(***************************************************************************)
(* The settings of boxes and presets, and their file: what is loaded,      *)
(* checked, changed by keys and menus, and saved.                          *)
(*                                                                         *)
(* Three values are kept twice. Boxes are the setting shown_boxes and the  *)
(* list current_boxes, presets the setting and the list preset_list; and a *)
(* setting has a second value, in a Tmp map, while the runner works. The   *)
(* file is truncated before it is written, and written when the program    *)
(* ends, which can end at any other point too.                             *)
(*                                                                         *)
(* One box stands for those of graphics cards, which the collector finds   *)
(* some time after the start. A preset is the list of its boxes; where it  *)
(* puts them and how it draws them is one value, its look.                 *)
(***************************************************************************)
EXTENDS Integers, SequencesExt

CONSTANTS
    Names,           \* the names of boxes
    Gpu,             \* that of the box of a graphics card
    Default,         \* the boxes of the default, and of preset 0
    DefaultPresets,  \* the presets of the default
    BoxTexts,        \* what is typed for shown_boxes
    PresetTexts,     \* what is typed for presets: lists of lists of boxes
    MaxPresets,      \* 9 in the code
    Room,            \* boxes that fit into the terminal
    Missing, Torn,   \* no file, or what a crash or an error in write() leaves of it
    MaxEvents        \* bound on starts, keys, edits and crashes

NoPreset == -1
NoLook  == <<>>

ASSUME ConfigStoreAssumption ==
    /\ Default \in Seq(STRING) /\ Len(Default) <= Room
    /\ \A i \in DOMAIN Default : Default[i] \in Names \ {Gpu}
    /\ DefaultPresets \in PresetTexts /\ Len(DefaultPresets) <= MaxPresets
    /\ \A i \in DOMAIN DefaultPresets : ToSet(DefaultPresets[i]) \subseteq Names
    /\ BoxTexts \subseteq Seq(STRING) /\ PresetTexts \subseteq Seq(Seq(STRING))
    /\ MaxPresets \in Nat /\ Room \in Nat /\ MaxEvents \in Nat

VARIABLES
    file,      \* the configuration file
    conf,      \* Config::strings and bools
    tmp,       \* stringsTmp and boolsTmp
    locked,    \* Config::locked
    active,    \* Runner::active
    boxes,     \* current_boxes
    list,      \* preset_list
    preset,    \* current_preset
    writeNew,  \* write_new
    found,     \* Gpu::count is not zero
    phase,     \* down, running, or in write(): for the menu or at the end
    threw,     \* a preset outside of the list was asked for
    reloaded,  \* the file was loaded again, or a preset forced at the start
    kept,      \* the settings of the last clean end, if they are to come back
    events

vars == <<file, conf, tmp, locked, active, boxes, list, preset, writeNew, found,
          phase, threw, reloaded, kept, events>>
runner == <<locked, active, found>>
ghosts == <<reloaded, kept>>

Event == events < MaxEvents /\ events' = events + 1
Modes == {"Off", "Default", "Custom", "All"}
Settings == [boxes : BoxTexts \cup {Default} \cup Seq(Names), presets : PresetTexts,
             disable : Modes, save : BOOLEAN, look : Seq(Names)]
Defaults == [boxes |-> Default, presets |-> DefaultPresets, disable |-> "Off", save |-> TRUE,
             look |-> NoLook]
\* What is typed into the file.
Typed(b, p) == [Defaults EXCEPT !.boxes = b, !.presets = p]
Contents == {Typed(b, p) : b \in BoxTexts, p \in PresetTexts}
Nothing == [k \in {} |-> Missing]

\* Settings f with what g sets.
Override(f, g) == [k \in DOMAIN f |-> IF k \in DOMAIN g THEN g[k] ELSE f[k]]
Put(f, g) == [k \in DOMAIN f \cup DOMAIN g |-> IF k \in DOMAIN g THEN g[k] ELSE f[k]]
Effective == Override(conf, tmp)

TypeOK ==
    /\ file \in {Missing, Torn} \/ file \in Settings
    /\ conf \in Settings /\ DOMAIN tmp \subseteq DOMAIN conf /\ Effective \in Settings
    /\ (active => locked) /\ (~locked => tmp = Nothing)
    /\ boxes \in Seq(Names) /\ list \in Seq(Seq(Names)) /\ list[1] = Default
    /\ Len(list) \in 1..(MaxPresets + 1) /\ preset \in -1..MaxPresets
    /\ phase \in {"down", "running", "menu", "end"}
    /\ {locked, active, writeNew, found, threw, reloaded} \subseteq BOOLEAN
    /\ kept \in Settings \cup {Missing} /\ events \in 0..MaxEvents

Init ==
    /\ file = Missing /\ conf = Defaults /\ tmp = Nothing /\ locked = FALSE
    /\ active = FALSE /\ boxes = <<>> /\ list = <<Default>> /\ preset = NoPreset
    /\ writeNew = FALSE /\ found = FALSE /\ phase = "down" /\ threw = FALSE
    /\ reloaded = FALSE /\ kept = Missing /\ events = 0
-----------------------------------------------------------------------------
(* What is accepted.                                                       *)

\* Term::get_min_size(): a card's box has a height once there is a card.
Fits(b) == Cardinality({i \in DOMAIN b : b[i] # Gpu \/ found}) <= Room

\* set_boxes(): every name is known, and a card's box has its card.
Known(b, card) == \A i \in DOMAIN b : b[i] \in Names /\ (b[i] = Gpu => card)

PresetsValid(p) == Len(p) <= MaxPresets /\ \A i \in DOMAIN p : \A k \in DOMAIN p[i] : p[i][k] \in Names
PresetList(p) == <<Default>> \o p

\* A key unlocks the settings if the runner is idle. What it changes then takes
\* effect at once, or else waits for an unlock.
Change(changes) ==
    IF active THEN tmp' = Put(tmp, changes) /\ UNCHANGED <<conf, locked>>
    ELSE conf' = Override(Effective, changes) /\ tmp' = Nothing /\ locked' = FALSE
\* What a key reads: the main loop unlocks the settings for it, unless the runner is active.
Read == IF active THEN conf ELSE Effective

\* Faulty: the change is not remembered for the end.
SetOnly(changes) == Change(changes) /\ UNCHANGED writeNew
\* Config::set(): the setting counts as changed, so that it is written.
Set(changes) == Change(changes) /\ writeNew' = TRUE

\* The same for a key that has waited for the runner and calls calcSizes().
SetAndUnlock(changes) ==
    /\ active' = FALSE
    /\ conf' = Override(Effective, changes) /\ tmp' = Nothing /\ locked' = FALSE
    /\ writeNew' = TRUE
-----------------------------------------------------------------------------
(* The file.                                                               *)

\* Whether load() finds something to write anew.
LoadedNew(c) == c \in {Missing, Torn} \/ ~PresetsValid(c.presets)

\* Faulty: presets are taken as they are read.
Unchecked(c, old) == IF c \in {Missing, Torn} THEN old ELSE c
\* load() of content c: a value that is refused leaves the old one, boxes are not
\* checked.
Loaded(c, old) ==
    IF c \in {Missing, Torn} THEN old
    ELSE IF PresetsValid(c.presets) THEN c
    ELSE [c EXCEPT !.presets = old.presets]

\* The program starts, with preset p if one is asked for on the command line.
\* No card has been found when the boxes are checked.
Start(p) ==
    LET c     == Loaded(file, Defaults)
        known == Known(c.boxes, FALSE)
        l     == PresetList(c.presets)
        n     == IF p < Len(l) THEN p ELSE Len(l) - 1
        asked == l[n + 1]
        fits  == p # NoPreset /\ Len(SelectSeq(asked, LAMBDA b : b # Gpu)) <= Room
        shown == IF fits /\ Known(asked, FALSE) THEN asked
                 ELSE IF known THEN c.boxes ELSE Default
    IN /\ phase = "down" /\ Event /\ phase' = "running"
       /\ conf' = [c EXCEPT !.boxes = shown, !.look = IF fits THEN asked ELSE @]
       /\ boxes' = shown /\ list' = l /\ preset' = (IF p = NoPreset THEN p ELSE n)
       /\ writeNew' = (LoadedNew(file) \/ ~known \/ fits)
       /\ tmp' = Nothing /\ locked' = FALSE /\ active' = FALSE /\ found' = FALSE
       /\ threw' = FALSE /\ reloaded' = (p # NoPreset) /\ kept' = Missing
       /\ UNCHANGED file

\* The file is edited, and loaded by SIGUSR2: runner stopped, settings unlocked.
\* Nothing that has been made of the settings is renewed, but preset_list.
Reload(c) ==
    /\ phase = "running" /\ Event /\ file' = c
    /\ conf' = Loaded(c, Effective) /\ tmp' = Nothing /\ locked' = FALSE /\ active' = FALSE
    /\ list' = (IF LoadedNew(c) THEN list ELSE PresetList(c.presets))
    /\ writeNew' = (writeNew \/ LoadedNew(c)) /\ reloaded' = TRUE
    /\ UNCHANGED <<boxes, preset, found, phase, threw, kept>>

\* write(), first half; it gives up without a word if there is no path, the user id
\* cannot be set or the file cannot be opened.
Truncate(next) == phase' = next /\ file' = Torn
GivesUp(next) == phase' = next /\ UNCHANGED file

\* The rest of write(), which can fail half way. What waits in a Tmp map is not part
\* of it.
Write ==
    /\ phase \in {"menu", "end"}
    /\ \/ file' = conf /\ UNCHANGED kept
       \/ file' = Torn /\ kept' = Missing
    /\ phase' = IF phase = "menu" THEN "running" ELSE "down"
    /\ UNCHANGED <<conf, tmp, runner, boxes, list, preset, writeNew, threw, reloaded, events>>

\* clean_quit(): nothing is unlocked, and written only if something was set.
\* Ghost kept: what is to come back at the next start.
Ends ==
    \/ /\ IF conf'.save /\ writeNew THEN Truncate("end") ELSE GivesUp("down")
       /\ kept' = IF conf'.save /\ tmp' = Nothing THEN conf' ELSE Missing
    \/ conf'.save /\ writeNew /\ GivesUp("down") /\ kept' = Missing

\* By a key, which unlocks the settings if it can, or by a signal.
Quit ==
    /\ phase = "running"
    /\ Change(Nothing) \/ UNCHANGED <<conf, tmp, locked>>
    /\ Ends
    /\ UNCHANGED <<active, found, boxes, list, preset, writeNew, threw, reloaded, events>>

\* SIGKILL, or no more power.
Crash ==
    /\ phase # "down" /\ Event /\ phase' = "down" /\ kept' = Missing
    /\ UNCHANGED <<file, conf, tmp, runner, boxes, list, preset, writeNew, threw, reloaded>>

\* The file is edited between two runs.
EditFile(c) ==
    /\ phase = "down" /\ Event /\ file' = c /\ kept' = Missing
    /\ UNCHANGED <<conf, tmp, runner, boxes, list, preset, writeNew, phase, threw, reloaded>>
-----------------------------------------------------------------------------
(* The runner.                                                             *)

Work ==
    /\ phase = "running" /\ ~active /\ active' = TRUE /\ locked' = TRUE
    /\ conf' = Effective /\ tmp' = Nothing
    /\ UNCHANGED <<file, boxes, list, preset, writeNew, found, phase, threw, ghosts, events>>

Collected ==
    /\ active /\ active' = FALSE /\ found' \in BOOLEAN /\ (found' # found => Event)
    /\ (found' = found => UNCHANGED events)
    /\ UNCHANGED <<file, conf, tmp, locked, boxes, list, preset, writeNew, phase, threw, ghosts>>
-----------------------------------------------------------------------------
(* Keys and menus.                                                         *)

Key == phase = "running" /\ Event

Toggled(b) ==
    IF Contains(boxes, b) THEN RemoveFirst(boxes, b) ELSE Append(boxes, b)

\* Faulty: the list is changed before the size is looked at, and stays.
ToggledEarly(b) ==
    /\ Key /\ (b = Gpu => found) /\ boxes' = Toggled(b)
    /\ IF Fits(Toggled(b))
         THEN SetAndUnlock([boxes |-> Toggled(b)]) /\ preset' = NoPreset
         ELSE Change(Nothing) /\ active' = FALSE /\ UNCHANGED <<writeNew, preset>>
    /\ UNCHANGED <<file, list, found, phase, threw, ghosts>>
\* A digit key: refused for a card that is not there, or by the terminal's size.
KeyBox(b) ==
    /\ Key /\ (b = Gpu => found)
    /\ IF Fits(Toggled(b))
         THEN SetAndUnlock([boxes |-> Toggled(b)]) /\ boxes' = Toggled(b) /\ preset' = NoPreset
         ELSE Change(Nothing) /\ active' = FALSE /\ UNCHANGED <<writeNew, boxes, preset>>
    /\ UNCHANGED <<file, list, found, phase, threw, ghosts>>

\* The preset that p (forwards) or P goes to.
First == IF Read.disable = "Default" THEN 1 ELSE 0
Cycled(forwards) ==
    IF Read.disable = "Custom" THEN 0
    ELSE IF preset = NoPreset THEN (IF forwards THEN First ELSE Len(list) - 1)
    ELSE IF forwards THEN (IF preset + 1 >= Len(list) THEN First ELSE preset + 1)
    ELSE IF preset - 1 < First THEN Len(list) - 1 ELSE preset - 1

\* apply_preset() of preset n. The look is set before the boxes are looked at.
Apply(n) ==
    LET b == list[n + 1]
    IN IF Fits(b) /\ Known(b, found)
         THEN /\ SetAndUnlock([look |-> b, boxes |-> b]) /\ boxes' = b /\ preset' = n
         ELSE /\ active' = FALSE
              /\ IF Fits(b) THEN Set([look |-> b]) ELSE Change(Nothing) /\ UNCHANGED writeNew
              /\ UNCHANGED <<boxes, preset>>

KeyPreset(forwards) ==
    LET n == Cycled(forwards)
    IN /\ Key /\ Read.disable # "All" /\ (Read.disable = "Default" => Len(list) > 1)
       /\ n # preset
       /\ IF n + 1 \in DOMAIN list
            THEN Apply(n) /\ UNCHANGED <<file, list, found, phase, threw, ghosts>>
            ELSE /\ Change(Nothing) /\ threw' = TRUE /\ preset' = n /\ Ends
                 /\ UNCHANGED <<active, found, boxes, list, writeNew, reloaded>>

\* The options menu: boxes are checked by putting them into current_boxes.
EditBoxes(b) ==
    /\ Key /\ b # <<>> /\ Fits(b) /\ Known(b, found)
    /\ SetAndUnlock([boxes |-> b]) /\ boxes' = b /\ preset' = NoPreset
    /\ UNCHANGED <<file, list, found, phase, threw, ghosts>>

EditPresets(p) ==
    /\ Key /\ PresetsValid(p) /\ list' = PresetList(p) /\ preset' = NoPreset
    /\ SetAndUnlock([presets |-> p])
    /\ UNCHANGED <<file, boxes, found, phase, threw, ghosts>>

\* disable_presets: any value but "Off" forgets the preset.
EditDisable(mode) ==
    /\ Key /\ Set([disable |-> mode])
    /\ preset' = IF mode = "Off" THEN preset ELSE NoPreset
    /\ UNCHANGED <<file, active, boxes, list, found, phase, threw, ghosts>>

\* save_config_on_exit: turned off, the settings are written now, unless the
\* change itself waits for the runner.
EditSave ==
    /\ Key /\ Set([save |-> ~Effective.save])
    /\ (~conf'.save /\ Truncate("menu")) \/ GivesUp(phase)
    /\ UNCHANGED <<active, boxes, list, preset, found, threw, ghosts>>

Next ==
    \/ \E p \in -1..MaxPresets : Start(p)
    \/ \E c \in Contents \cup {file} : Reload(c)
    \/ Write \/ Quit \/ Crash \/ Work \/ Collected
    \/ \E c \in Contents : EditFile(c)
    \/ \E b \in Names : KeyBox(b)
    \/ \E forwards \in BOOLEAN : KeyPreset(forwards)
    \/ \E b \in BoxTexts : EditBoxes(b)
    \/ \E p \in PresetTexts : EditPresets(p)
    \/ \E mode \in Modes : EditDisable(mode)
    \/ EditSave

Spec == Init /\ [][Next]_vars
-----------------------------------------------------------------------------
\* The boxes that are drawn are those of the setting, be it in a Tmp map: every
\* handler that changes one changes the other, or neither when the terminal or a
\* missing card refuses. A reload does not: it renews only the setting.
BoxesAgree == phase # "down" /\ ~reloaded => boxes = Effective.boxes

\* The number in the title is that of a preset, and its boxes are shown, unless
\* the command line has forced it or the presets were loaded again.
PresetIsShown ==
    phase # "down" /\ preset # NoPreset /\ ~reloaded =>
        preset + 1 \in DOMAIN list /\ boxes = list[preset + 1]

BoxesShown == BoxesAgree /\ PresetIsShown

Starts == phase = "down" /\ phase' = "running" /\ preset' = NoPreset

\* Settings that were in effect at a clean end come back at the next start, if
\* nothing waited in a Tmp map: write_new is set by every change that matters,
\* and what is written is accepted when it is read. Boxes of cards do not.
SettingsRestored ==
    [][Starts /\ kept # Missing =>
         conf' = IF Known(kept.boxes, FALSE) THEN kept ELSE [kept EXCEPT !.boxes = Default]]_vars

\* The comment in the file: "Manually set which boxes to show. Available values
\* are "cpu mem net proc" and "gpu0" through "gpu5"". What was saved is shown.
BoxesSurviveRestart ==
    [][Starts /\ kept # Missing /\ ~reloaded => conf'.boxes = kept.boxes]_vars
===============================================================================
