# BetterTop in TLA+

BetterTop is a terminal monitor: btop's host and process view with NVIDIA data
from a separate helper process. This directory holds TLA+ models of the parts
of it that are hard to get right by testing, the TLC configurations that check
them, and TLAPS proofs. Paths below are relative to the repository; line
numbers are those of the commit the models were written from. `PROJECT.json`
(which puts another `src/` in front of the paths) maps every definition that models code to the lines it stands for.

## 1. The system

| Part | State | Operations | Model |
|---|---|---|---|
| GPU bridge, `src/linux/btop_gpu_bridge.cpp` | `Controller`: pid, pipe, input buffer, retry / frame / kill times, back-off, sequence, flags; `Snapshot` | `start`, `poll`, `retry`, `shutdown` | `GpuBridge`; what it promises: `Supervisor` |
| NVIDIA helper, `src/bettertop_gpu.c` | driver state, frame counter | start-up, sample and write a frame per interval | `GpuHelper` |
| Wire protocol, `src/bettertop_gpu_protocol.h` | frames | header, device and process records | partly, in both |
| Main loop and runner, `src/btop.cpp` | `active`, `do_work`, `mtx`, `stopping`, `resized`, `quitting`, signal flags, `current_conf` | main loop, `run`, `stop`, `_runner`, `term_resize`, `_sleep`, `clean_quit`, hot reload | `Runner`; what it promises: `DrawSlot` |
| Settings, `src/btop_config.cpp` | maps, Tmp maps, `locked`, `current_boxes`, `preset_list`, `current_preset`, file | `lock`, `unlock`, `set`, `toggle_box`, `set_boxes`, `apply_preset`, `load`, `write` | lock and Tmp maps in `Runner`; boxes, presets and file in `ConfigStore` |
| Terminal, `src/btop_tools.cpp` | size, mode, `output_blocked` | `init`, `refresh`, `output`, `restore` | partly, in `Runner` |
| Keyboard, `src/btop_input.cpp` | `input`, `polling` | `poll`, `get`, `process` | by subject: `Runner`, `ProcList`, `ProcView`, `GpuMerge`, `NetBox`, `ConfigStore` |
| Process list, `src/linux/btop_collect.cpp`, `src/btop_shared.cpp` | `current_procs`, `current_sort`, collapse requests, `filter_found`, `numpids` | `Proc::collect`, `proc_sorter`, `_tree_gen`, `tree_sort` | `ProcList` |
| Layout and drawing, `src/btop_draw.cpp` | box geometry, redraw flags, cursor of the process box | `calcSizes`, the draw functions, `Proc::selection` | `calcSizes` in `Runner` and `GpuMerge`; cursor in `ProcView` |
| Menus, `src/btop_menu.cpp` | open menu, selection, `s_pid` | `process`, `show` | dialogs in `ProcView`, options in `ConfigStore` |
| Compact view, `src/btop_ml.cpp` | page start, rows | `draw` | its layout in `Runner` |
| Network, `src/linux/btop_collect.cpp`, `src/btop_draw.cpp` | `current_net`, `interfaces`, `selected_iface`, `graph_max`, `max_count`, `rescale` | `Net::collect`, `Net::draw`, keys b, n, z, y, a | `NetBox` |
| GPU merge, `src/linux/btop_collect.cpp` | `gpus`, `gpu_names`, counts, histories, `gpu_processes` | `Gpu::collect` | `GpuMerge` |
| Other collectors, logger, themes, command line, vendored nvtop, intel_gpu_top, fmt | | | not modelled |

How they interact. Main sleeps in `Input::poll`, is woken by keys, signals and
a timer, and hands jobs to the runner thread through `run()`: it waits until
the runner is idle, commits and locks the settings, writes `current_conf`,
releases the semaphore and waits up to 10 ms for the runner to set `active`.
The runner collects (which calls `Gpu::Bridge::poll()`), draws, and writes the
frame with `Term::output()`. `stop()` waits for the runner and sends it through
one empty round. Signals set flags that only the head of the main loop reads.
The helper writes one frame per second into a pipe; the bridge reads it, times
it out, kills it, reaps it and starts it again with a doubling back-off. Its
samples become the front of the list of cards; processes become a list that
outlives a collection and a cursor of which both threads keep copies.

Hard parts: the settings, the layout, the job and the terminal are shared by
two threads with no lock but the flag `active`; every wait has a time-out, and
each time-out is a path of its own; the helper can hang in a driver call that
not even SIGKILL interrupts; a frame may be cut, dropped or refused; suspend,
resize, reload and quit can meet each other and a runner that is drawing; lists,
cursors, presets and histories are kept from one update to the next, while
what they are about changes. The hazards are listed in `PROJECT.json` with the
line where each bites.

## 2. The modules

`GpuHelper` is the helper and the kernel around it: process table, pipe,
pending signals, clock. `GpuBridge` EXTENDS it with the monitor's side;
`Runner` is main and the runner thread together. The other five take up one
part each and say how they see the rest: `ProcList` what a collection makes of
the processes, `ProcView` the cursor on that list, `GpuMerge` what the
collector makes of the bridge's snapshots, `NetBox` the network box, `ConfigStore` boxes, presets and
their file. `Supervisor` and `DrawSlot` are abstract: what the bridge promises
to the monitor and the runner to main. Each `MC...` module gives the constants
of one of them small values; each `..._proofs` module holds TLAPS proofs (those about
the bridge are in two, `GpuBridge_proofs`, the refinement included, and
`GpuStream_proofs`). A *Faulty* variant before a definition (`SpawnsBesideOld`
before `MaySpawn`) is a plausible bug that a property must catch; no specification uses it.

The parts are separate modules because the two abstract specifications allow
it: `ImplementsDrawSlot` says that what a job reads does not change while it
runs, so `ProcList` and `GpuMerge` may take a collection as one step with the
settings of its start (`NetBox` cuts it, because `rescale` is outside that promise); and `ImplementsSupervisor` says that there is one
source of samples, so `GpuMerge` may take them as they come.

### GpuBridge

`poll()` is cut at its system calls. `pc` is where the process is: `idle`,
`spawn`, `read`, `reap`, `timeouts`, `reapAgain`, `finish` within a poll,
`termWait` and `killWait` within `shutdown()`. Steps of the helper, the kernel,
the user and the clock fall between any two. The controller's fields have the
code's names, with the times made relative to now: `retryIn`, `killIn` count
down to 0, `frameAge`, `sampleAge` count up to just above `StaleAfter`. The
code only compares times with now, so nothing is lost and no bound on time is
needed. A frame is a `head` chunk and, if its status is OK, a `body` chunk;
`GARBAGE` stands for everything `frame_size_is_valid()` and `decode_frame()`
refuse.

Details of the code the model keeps:

- a helper started by `poll()` is a child of the runner thread and inherits its
  blocked SIGTERM (`btop.cpp:509-520`, `posix_spawn` without attributes at
  bridge line 154), one started by `start()` is not. Only SIGKILL ends the
  former, and after a crash of the monitor only SIGPIPE does: `OrphansEnd`
  states the exception;
- if `fcntl()` fails after the spawn, the child is signalled and kept as `pid`
  with the kill time of the helper before it;
- a diagnostics toggle counts as a failure for the back-off, a retry does not;
- frames still in the pipe of a helper that was cut off are dropped.

`sampled` is a ghost: how long ago a helper last took a sample, wherever its frame is now.
The bridge knows that only from the frames it has decoded. `HealthMatchesHelpers` relates
the health that `poll()` returns to the ghost and to the process table.

`Supervisor` has three variables: the helpers the kernel lists, the one that is
read, and whether the monitor is closing. `ImplementsSupervisor` maps the
process table to the first and the tracked, not cut-off pid to the second.

Not in the model: the limit of 1 MiB on the bytes one call reads, which only
fleets with thousands of GPU processes reach, the branch for a full input
buffer, which no valid frame size reaches, `poll()`'s `catch`, and
`diagnose_gpu()` (`--gpu-check`), which uses the bridge from main. `started`
is `pc # "boot"`.

### Runner

`mpc` and `rpc` are the places of the two threads. `run`, `stop`, `calcSizes`
and `term_resize` are called from several places, so main keeps a stack of
return labels. The settings are three (`boxes` is `shown_boxes`, `view` is
`ml_view`, `sort` any other), enough to tell the live maps, the Tmp maps, the
file and `current_boxes` apart. `drawn` is what the screen shows: the terminal
size, the boxes, the view and the settings of the last frame that was really
written. `StartViews` are the views the configuration file may ask for at the start. `redraw` and `frame` tell a frame that redraws whole boxes from one
that updates values. The classic view draws boxes where `calcSizes()` put them,
the compact view fits itself to the terminal. A job has all boxes or one; a run
of one box (`run("proc")`, `run("cpu")`) is taken like a run of all, which
differs only in the boxes left for the next timer. `screen` is the terminal's
mode: `raw`, `restored`, or `spoilt` once a frame has been written to a
restored terminal.

Time-outs are steps. Those of 5 s and more (`run`, `stop`, `join_for`) are taken
only when the runner is `stalled` or can never move. The waits of 10 and 100 ms
end at any moment, or, when `Prompt`, only once the runner has done all it would
do: `Prompt` is the assumption that the runner is scheduled within 10 ms.
All runs make that assumption; section 4 says what happens without it.

`ImplementsDrawSlot` maps the six places in which the runner works to `busy`, and
settings, layout, job and size to its inputs: to main a job is one atomic step
on inputs nobody changes, whose result is the picture of these inputs or no
change.

Not in the model: menus and the filter editor (`ProcView` and `ConfigStore` have
parts of them); the loop for a small terminal before the first frame; a failing
`Term::init()`; the branch "failed to get active lock" (only the runner sets
`active`); `term_resize`'s branch for `Input::polling` (main does not poll while
it resizes); the time after which main wakes up for `Global::resized` (at most
1 s); the fatal-signal handler; the wait of up to 1 s after a full redraw.
`Config::unlock()` is one step: its wait and its commit cannot be separated by
the runner, which becomes active only after a trigger of main, unless it starts
late (section 4).

### ProcList

A collection is one operator, `Collected`: `Mode` is what the settings and the last
collection make of it, `Arranged` the code's phases in their order: `Scanned` and
`Swept` (not in a cached one), `Filtered`, `Sorted`, and
`Tree`, which is `Toggled`, `Grouped`, `AutoCollapsed`, `Gen` and `Numbered`. What
lives on is kept with each entry as in the code: parent, usage, the filter mark,
the collapsed flag, the tree index and whether the process is dead. `Rows` is
what the drawing makes of them. A key is one step with the collection it asks
for, full or cached as in the code; `Interrupted` is a collection that finds
`stopping` set inside the scan. `Pids` are numbers in the order in which they
are born (those that run at the start are the lowest) and are not given twice; two
processes use the same, so that stability of the sort shows. The sorts are by pid and by
usage: the others compare other fields.

`_tree_gen` and `tree_sort` recurse over the tree and write into the entries as
they go. The model says what each leaves, by functions that are recursive along
the parents (which are older, so that the recursion ends). `Calls` are the
arguments with which `_tree_gen` reaches a process, from its parent's; `Out`,
`keeps` and `hides` in `Gen` are the branches a call takes; `Accumulated` is the
usage once the children have added to it, each with its own sum. In `Numbered` a
process gets the number after those of its parent and of the elder siblings with
all below them, and the wrong `index_max` that the recursive call hands down
(section 4) is `max`. A stable sort orders the processes by a key and, where it
is equal, by where they were (`Earlier`). `Visited` are the processes the
recursion comes to: what hangs below a process that is not listed is left as it was.

### ProcView

Four copies of the cursor: `conf` (live maps), `tmp` (Tmp maps), `proc` (the
statics of `Proc::draw()`, which `unlock()` copies back) and `screen`. `Drawn` is
what a drawing makes of the statics (following a process, banner, bounds),
`DrawingSets` what it sets, `Moved` and `Selection` what `Proc::selection()`
does. `Read` and `Set` are what a key reads and sets: settings as they are about
to be replaced, if the runner is at work. A key with two jobs is three steps
(`Handled`, `Run`, `RunCpu`). The dialog's process is taken after the key's wait.
The list is flat and unfiltered and any list of `Lists` may follow another, as
processes end, up to `MaxProcs`, the kernel's limit; the box is higher than the details
and the banner.

### GpuMerge

`Collect` is `Gpu::collect()`: a poll that may give a sample, the merge of its
devices with the old prefix by UUID, PCI address or index, the cards of other
vendors behind it, names, trimming, processes, and the question for a new
layout. A history is a sequence of the card and the sample it came from, which
is all the properties need. `CalcSizes`, `ToggleBox`, `KeyView` and `Resized` are
main's side. `resumed` is a ghost: NVIDIA is on again, and its sample is the
one from before. What GPU boxes do with a device that is gone is in section 4.

### NetBox

`Update` is the loop over interfaces and directions (`Sampled` and `Count` one
turn of it), `Select` the choice of an interface, `MakeScale` and `Clear` the end of
`Net::collect()`, between which a key can set `rescale`; `Cached`, `Fails` and
`Skipped` are collections without an update, `Draw` is what `Net::draw()` keeps and
redraws. `KeySwitch` (b, n), `KeyZero` (z) and `KeyScale` (y, a) are the keys, `EditScale` with
`Layout` the same settings in the options menu. The kernel's counters are `bytes`;
`Traffic` says what can happen between two updates. `since`, `all`, `steady` and
`missed` are ghosts.

An update comes once per unit of time, so a speed is the bytes since the last
one, and the first is 0 (the code divides by the time since 1970). `Patience`,
`Average` and `Fraction` are 5, 5 and 10 in the code, `Floor` 10 KiB; that a scale is made
of no more speeds than there were updates to wait for is an assumption (`Average <= Patience`). Addresses,
top speeds, a box that is hidden, output that is paused under a menu, two updates
within a millisecond and counters near 2^64 are left out.

### ConfigStore

A text typed for boxes or presets is a list of names. `Start`, `Reload`,
`EditFile` and `EditBoxes`, `EditPresets`, `EditDisable`, `EditSave` (the options
menu), `KeyBox` and `KeyPreset` are its operations; `Write` is the second half of
`write()`, which begins with the truncation, and `Crash` may come between; the file may not be
opened at all (`GivesUp`) and a write may fail half way, of which the code takes no notice. `Work`
and `Collected` are the runner, which finds the card. One name stands for the
boxes of cards. `kept` is a ghost, the settings of an end that was clean;
`reloaded` marks what the two exceptions of `BoxesShown` are about: a reload, and a
preset forced by the command line.

## 3. The runs

| Run | Checks | Bounds |
|---|---|---|
| `bridge_safety` | `TypeOK`, `CutOffIsFinal`, `ShutdownLeavesNoHelper`, `NoProcessStorm`, `HonestFramesAccepted`, `HealthMatchesHelpers`, `ImplementsSupervisor` | 2 process ids, 2 faults, 1 user action, 2 frames per helper, driver calls that cannot be interrupted |
| `bridge_liveness` | `HelperReplaced` (reaped if it hangs, started again), `HelpersEnd` (shutdown returns, no orphan stays) | 2 faults, uninterruptible calls, no relation between the speeds of polls, helper and clock |
| `bridge_recovers` | `RecoversHealthy`, `FreshSampleClearsStale` | 2 faults, 1 user action, a poll every 4 ticks, 4 frames per poll, machine keeps up |
| `runner_safety` | `TypeOK`, `SemaphoreBounded`, `SuspendNeverQuits`, `DrawsLaidOutBoxes`, `ImplementsDrawSlot`, `StopQuiesces` | classic view, 3 events, 1 fault, 2 sizes, one of them too small for all boxes |
| `runner_live` | `ShowsLatest`, `QuitHonoured` | start in either view, the key that changes it, 2 sizes, one of them too small for all boxes, 2 events, 1 fault, all signals |
| `proc_list` | `TypeOK`, `TreeDrawn` (with `FamiliesFound`), `SubtreeUsage`, `PausedFrozen` | 4 processes, 5 events, updates without bound |
| `proc_list_reverse` | `CollapsedStaysHidden`, violated | 3 events |
| `proc_view` | `TypeOK`, `CursorOnRow`, `DialogHighlighted`, `CursorMoves`, `FollowedInView` | lists of 2 to 5 processes in a box of 4 rows, 6 events |
| `gpu_merge` | `TypeOK`, `DeviceHistories`, `OthersKept`, `PanelsLaidOut`, `ProcessTotals` | 5 samples to choose from, 3 in a behaviour, 2 NVIDIA cards and another, 6 events |
| `config_store` | `TypeOK`, `BoxesShown`, `SettingsRestored` | 3 boxes, 4 lists of presets, room for 2 boxes, 5 events |
| `config_restart` | `BoxesSurviveRestart`, violated | 5 events |
| `net_box` | `TypeOK`, `TotalsAdd`, `ScalesFollow`, `BoxOfOneInterface` | 2 interfaces, 3 kinds of traffic, 5 updates, 2 events, no update after 2 failures |

Bounds. `StaleAfter`, `InitialBackoff` and the other delays keep the order of
the code's values and not their size; `MaximumBackoff = 4 * InitialBackoff` lets
the back-off double twice and saturate. Two process ids are enough for a second
helper to exist beside the first. Two faults let a failure hit the recovery
from another, and an event on top of it. `MaxSeq` frames per helper: one that
has written them all stalls, which is one more hang to recover from, and the
numbering begins again with the next helper. Three events on the runner let a
key and a signal meet a resize or a terminal that fills; tokens are counted up
to one more than the semaphore's maximum. Four processes make a grandchild, a
sibling and a root of its own; five events fold, filter, pause, end a process
and start one. Lists shorter, equal and longer than the box, with and without
details and banner, are all among those of `proc_view`; its box of 4 rows has a
middle, an upper and a lower half, and one of its lists is a row shorter than it. The samples of `gpu_merge` hold a change of
order, a card without UUID, one without PCI address, both without either, one
card less and none; `Limit = 2` trims after the third sample; memory up to
`MaxMem` saturates. The lists of presets hold none, a valid one, an unknown name
and one too many. The traffic of `net_box` has an interface that is quiet, busy,
connected or not, that goes, comes back with its counters and counts from zero again; with `Patience = 2`
five updates make a scale grow, shrink and settle. Two events let a key meet a
resize, a failure or another key.

Deadlock is checked where the system goes on by itself: a process that is gone,
or waits under the small-terminal message, stutters explicitly in `Runner`. In
`proc_view`, `gpu_merge`, `net_box` and the `config` runs everything waits for the user at the
end of the bound on events, so the check is off there.

Fairness. `GpuBridge!FairSpec`: main triggers a collection every `update_ms` and
the runner runs it to its end (weak fairness of the poll steps), time passes,
the kernel delivers signals and init reaps orphans. `LiveSpec` adds that the
helper process is scheduled; its driver calls may still hang. `bridge_recovers`
also assumes `Timely`, a machine where helper and polls are done within a tick.
`Runner!FairSpec`: both threads are scheduled; the timer fires again and again,
although it is asked for only at one place of the loop (strong fairness of
`TimerDue`: `update_ms` goes by in every few passes); the message loop looks at
the size every 10 ms; a suspended process is continued. Nothing is assumed of
the user, signals, faults, or the end of a hanging collector.

Exceptions the properties name, each a thing the code really does:
`QuitHonoured` leaves out a wait without a time-out for a collector that hangs
(`HeldByHang`) and the loop under the message of a terminal that is too small, which
looks at no signal (`HeldByMessage`),
`PausedFrozen` leaves out a tree with a filter, `RowsCounted` a filter over
collapsed processes, `InTree` a paused list with an erased parent, `CursorMoves` the
key that leaves a process that ends at the same time (`FollowsNobody`), the first
drawing after the details of one process are closed while another is followed (`ThenFollows`)
and, for an arrow with which the banner goes, the row it moves too far down in a list one row
shorter than the box (`Slip`; that closing the details moves the highlight is no arrow and
nothing the property asks),
`FollowedInView` a list shorter than the box, `SampleCountedOnce` a card found
again after NVIDIA was off, `BoxesShown` a reload, `OneScale` and, in sync, `SteadyFits` a setting changed without
a scale made for it (`missed`). What happens there is in section 4.

## 4. What the models show beyond what holds

The violated runs, each a trace of the code's own steps against a line of the
repository that says otherwise (quoted in `PROJECT.json`):

- `proc_list_reverse`: `tree_sort()` leaves `index_max` out when it calls itself
  (`btop_shared.cpp:180`), so after `r` the children of collapsed processes are shown
  until the next full collection.
- `config_restart`: a saved `gpu` box is refused at the start, because no card has
  been counted yet (`btop.cpp:1248`); the default boxes take the place of all, and
  the next exit writes them.

More was seen while modelling and has no run of its own.

Bridge and runner:

- Four frames are taken per poll and one arrives per second, so with `update_ms`
  of 5000 or more a healthy helper is shown as stale (`btop_gpu_bridge.cpp:290`;
  `bridge_recovers` with a poll every 5 ticks).
- SIGTERM is not looked at under the message "Terminal size too small"
  (`btop.cpp:204`), so that the process ends only once the terminal is enlarged:
  `QuitHonoured` names this exception (`HeldByMessage`). The message's keys 1 to 4 change boxes that are not looked at again
  (`btop.cpp:212`).
- A hot reload changes `shown_boxes` and not `current_boxes`
  (`btop_config.cpp:621`): the boxes laid out are not those drawn.
  `runner_safety` leaves the signal out; with it `DrawsLaidOutBoxes` fails.
- On exit nothing is unlocked (`btop.cpp:258`): settings changed while the runner
  was at work are not in the file.
- On exit the terminal is restored before the runner is joined (`btop.cpp:238`),
  and the rest of a frame can follow (`screen = "spoilt"` is reachable).
- A key handled while the process box is drawn makes both threads insert into
  the same Tmp maps without a lock (`btop.cpp:1371`; the comment at `btop.cpp:540`
  wants it blocked).
- `Prompt = FALSE` (a runner that starts later than the 10 ms of `btop.cpp:904`)
  violates `ImplementsDrawSlot`, because the next key unlocks and changes the
  settings under it; `SemaphoreBounded`, because triggers are left behind until
  a `counting_semaphore<2>` holds three; and `ShowsLatest`, because a job asking
  for a whole redraw is overwritten before it is read.
- A suspend handled before the runner has taken its mutex ends the process with
  "Runner thread died unexpectedly!" (`StopBegin` with `mtx` free and `rpc` at
  `boot`): `outcome = "died"` is reachable.
- With a collector that hangs for ever a layout waits for ever, and SIGTERM with
  it: `atomic_wait(Runner::active)` at `btop_input.cpp:324` and `btop_draw.cpp:2276` has
  no time-out. `QuitHonoured` names this exception (`HeldByHang`).

Processes:

- With a filter over collapsed processes, matching processes below stay hidden
  and `numpids` is not the number of rows. In tree mode `r` and the filter key,
  which collect with `no_update`, also count too few rows until the next update.
- In a paused list a process whose parent was erased before is under no root of
  the tree and keeps its old place. A paused, filtered tree may exchange
  siblings in its first update. With `keep_dead_proc_usage` the sums of a paused
  tree grow with every update.
- A collection that is interrupted has already taken note of the new sorting;
  while paused the list then stays unsorted.
- `E` with a selection that has ended, and `enter` on a process that is removed
  while the runner is busy, use the end of the list as a process
  (`linux/btop_collect.cpp:3440`, 2938).
- Closing the details near the bottom of the list puts the highlight on the next
  process; following in a list shorter than the box highlights a wrong row
  (`btop_draw.cpp:1757`); in a list one row shorter than the box, up and down with
  a banner that goes move by two or not at all, which `CursorMoves` states (`Slip`).
- Closing the details of one process while another is followed goes to the one with this
  drawing and to the other with the next (`btop_draw.cpp:1747`).
- A key that moves nothing (`end` at the end) stops following without a drawing
  that says so. A move whose drawing is stopped by a resize is lost.
- A dialog that is drawn again after a resize names the pid it is about with the
  name of the process now selected.
- A resize of the compact view with a menu open is drawn when the menu closes.

Network:

- `rescale` set by a key in the middle of a collection is cleared by it, although
  the scale was made for the old settings (`linux/btop_collect.cpp:2900`); the options
  menu does not set it at all. Two graphs "in sync" then keep different scales until
  the traffic asks for new ones; the slower direction does not count in sync, so its graph
  can stay cut off for as long as the traffic is steady.
- In sync both graphs take the scale of the first direction that asks, download
  before upload, also if the other is faster (`linux/btop_collect.cpp:2890`);
  `btop_config.cpp:246` says "whichever currently has the highest scale".
- Key `z` before anything was collected (the first collection was stopped by a
  resize, or `getifaddrs()` failed) throws in `current_net.at()` (`btop_input.cpp:699`),
  which ends the program: `main = "threw"` is reachable.
- After three failures of `getifaddrs()` nothing is updated until the next start.
- `rollover + val` is 64 bits wide, so the test that it exceeds 64 bits
  (`linux/btop_collect.cpp:2799`) is never true.

Cards and settings:

- After a reload with fewer presets the key `P` asks `preset_list.at()` for a preset
  past its end (`btop_input.cpp:350`), which throws.
- Turning "nvidia" off and on again gives a card an empty history, whose `.back()`
  is drawn (`btop_draw.cpp:986`, 1119); the menu says that a restart is required
  (`btop_menu.cpp:609`), but the change applies at once.
- A box of a card that goes away is drawn past the end of the lists
  (`btop_draw.cpp:2326`, `btop.cpp:680`), and keeps the old name in its title.
  A digit key compares with `Gpu::count` before it waits (`btop_input.cpp:317`), and
  key 0 opens `gpu5` with exactly five cards.
- Histories are not trimmed while no GPU panel has a width
  (`linux/btop_collect.cpp:2047`).
- `apply_preset()` sets the look of a preset before `set_boxes()` refuses its boxes,
  and `p` cannot pass a preset whose card is missing. `--preset` with such a
  preset keeps its number.
- `save_config_on_exit` turned off while the runner works is not written. A torn
  or empty file gives the defaults without a word.

## 5. What is proved

All theorems hold for every value of the constants that satisfies the named
ASSUME of the module: delays, process ids, fault bounds, boxes, presets, lists,
heights.

`GpuBridge_proofs`, from `HelperAssumption` and `BridgeAssumption` (all delays
positive, `MaximumBackoff >= InitialBackoff`, `None` not a process id):

- `TypeCorrect`: `Spec => []TypeOK`.
- `Supervision`: `Spec => [](TypeOK /\ Supervised)`.
- `AtMostOneHelper`, `TerminatedHelperUnread`, `ShutdownKills`, `RestartsArePaced`:
  `OneHelper` (which the runs check as part of `ImplementsSupervisor`), `CutOffIsFinal`, `ShutdownLeavesNoHelper` and `NoProcessStorm`.

`Supervised` is the inductive invariant. `OneHelper` alone is inductive given the
types: a spawn needs `pid = None`, and then there is no process. `CutOffIsFinal`
needs to know that a poll that reads has a pipe and that a waiting shutdown has
none (`PipeHeld`), or a decoded frame could belong to a helper that is gone.
`ShutdownLeavesNoHelper` needs `KillPending`: from the SIGKILL on, the tracked
child carries it. `NoProcessStorm` needs `CoolingDown`: while there is no helper the
retry time covers what is left of the cool-down, and this in turn needs
`PipeHeld`, because a good sample clears the retry time, and only `PipeHeld` says
that a helper is still tracked when it is decoded. The lemmas named `...Quiet`
say which steps add no process and take no signal back, `...Channel` what
the pieces of the controller do to the pipe, `...Cools` to the back-off.

`GpuBridgeImplementsSupervisor`, in the same module, is the refinement. The initial
states map to `Supervisor!Init`; every step of the bridge, under the invariant
above, is a launch, a give-up, a collection, a closing or a stutter of the
supervisor. The invariant is needed where a child is launched (there is none)
and where a frame is decoded (its helper is the one that is served).

`GpuStream_proofs`: `FramesInOrder` is the invariant `Stream` about the frames under way, which
are the input buffer followed by the pipe. They are well framed (a body follows its header, a
header with status OK is followed by its body or is the last chunk); the numbers of honest
frames rise, are above the last one accepted and at most that of the helper; a header whose
body is still to come belongs to a helper that is writing or has died; and nothing is left of
a helper that was cut off. `HonestHelperServed` is `Spec => []HonestFramesAccepted`: with `Stream`, the
header that a poll decodes has a greater number than the one before and its body is there or comes,
so nothing honest is refused. `HealthReturnedIsTrue` is `Spec => HealthMatchesHelpers`. `SamplesTaken`
says that no frame, in the pipe, in the input buffer or decoded, is younger than the last sample
taken, so that what the bridge takes for fresh is fresh; `Accounted` that the child it remembers
exists, has been signalled if it is cut off, and is cut off when a poll that is disabled
computes the health.

`ConfigStore_proofs`: `TwoCopiesAgree` is `Spec => []BoxesShown`. `BoxesShown` is
inductive together with `Formed`: the live maps have all five settings and the Tmp
maps some of them, the file is a settings record unless it cannot be read, and
the list of presets is not empty. One lemma says that committing what waits
changes nothing of what is in effect, and each handler changes both copies or
neither. `CleanEndIsKept` is `Spec => SettingsRestored`, if a settings record is
neither a missing nor a torn file (`Readable`). It needs `Accepted`, the presets in
effect are accepted when they are read again, and `Saved`: settings nobody has changed
are those of the file, and what `kept` remembers is in the file or about to be.
`TypesOfSettings` is `Spec => []TypeOK`: `Values` says that both maps and the file hold allowed
values and that Tmp maps wait under the lock only, `Shown` that the boxes drawn are known and
that the list of presets starts with the default and is not too long, `Flags` the rest.

`ProcView_proofs`: `HighlightIsTarget` is `Spec => []CursorOnRow`. The invariant
`Cursor` carries the types of the numbers and flags through live and Tmp maps
and says that the statics are on a row of the list that is drawn, be it still
on its way to the screen; that a drawing establishes this whatever keys have
set is `DrawnOnRow`. `ViewFollows` is `Spec => FollowedInView`: if the list fills the
box, the window's arithmetic puts the process on its row (`CentredInWindow`)
and the bounds do not move it. That the details can be shown instead needs a
second invariant, `Details`: the pid of the details and the flag that shows them
are set together.

`DialogKeepsTarget` is `Spec => []DialogHighlighted`. `Aimed` says where the selected process and the
details are the same in settings, statics and on the screen, and what may be in a Tmp map
meanwhile: no key and no drawing sets `selected_pid` there, and the details only on the way
to a job that draws them. `ArrowsAndDrawings` is `Spec => []CursorMoves`. `Settled` says what a
drawing leaves for the next: nothing to go to, a banner that is there for what is followed or
paused, a cursor within the view, and, between the two jobs of a key, that the statics
and the Tmp maps are those of one drawing. `DrawnAgain` then shows that the drawing of its own
result is the same, and `DownOne` and `UpOne` do the arithmetic of the rows, of which
banner and details take some away, also for the list one row too short, where a banner that
goes brings the row more that `Slip` states. `ThenFollows` is the one drawing that does leave the next
something to do. `TypesOfCursor` is `Spec => []TypeOK`: `Ranges` adds that a key
that can be read finds a row of the box selected, so that it selects at most one below it.

`GpuMerge_proofs`: `PanelsFit` is `Spec => []PanelsLaidOut`. `Lists` says that the
list of cards is a sequence and the bridge's sample one of `Frames`. `Panels` says
that a job has the boxes that are chosen, and that in the classic view the
layout has the panels of these boxes and the heights of the cards whenever
`resized` is not set or a job has collected: a collection that changes a height
sets `resized` and ends its own job, and a box changes only while the runner is
idle and is laid out before the next job.

`OthersStay` is `Spec => []OthersKept`. `Behind` gives each of the other cards its
place behind the prefix, its name and a `Continuous` history; cutting the list at
the old count and putting it behind the new cards keeps it, whatever the two
counts are. `HistoriesAreOwn` is `Spec => []DeviceHistories`. `Current` says that the
cards of NVIDIA are those of the sample the bridge holds, so that a key of
`nvidia_devices` finds at most one card (`Found`), the old card of a record with an
identity is the same card (`OldCard`), and a sample merged a second time finds
every card at its place (`SameCard`).

`ProcessesAddUp` is `Spec => []ProcessTotals`, for samples with any number of rows. The loop over
the rows is a recursive function (`Added`); `Totals` says what the entries are after n rows
(each process once, its cards once each, the memory summed up to `MaxMem` or unknown, none
left out), `RowAdded` that one more row keeps it, and `AllAdded` is the induction. `TypesOfCards`
is `Spec => []TypeOK`: the lists, panels and histories above, and that a box that is
toggled leaves each box once (`Boxes`).

`NetBox_proofs`: `TotalsAreSums` and `OneInterfaceShown` are `Spec => []TotalsAdd` and
`Spec => []BoxOfOneInterface`. `Sums` balances four fields with the ghosts: what a
counter has counted is in `last` and `rollover`, and what was counted since it was
zeroed is that less `offset`. `Chosen` says that once there are interfaces the shown
one is among them, except between an update and the choice. `Redrawn` says that what
is on the screen is either the shown interface at its scale, or is about to be
redrawn: `redraw` is set, the job forces it, or main is on its way to such a job
or to a layout, which is why a key's job that is given up before a resize does no harm.

`ScaleOfTraffic` is `Spec => []ScalesFollow`. `Follows` says that steady traffic fills the end of
the record of speeds (`Tailed`), that a direction over its scale has counted nearly as often
as the traffic was steady (`Waits`), and that in sync the slower direction asks for nothing
(`LowerRests`); `Adds` is the induction over the speeds of which a scale is made. `Synced` says that
two graphs in sync have got one scale, or a setting waits that has none yet, or was `missed`: a
key in the middle of a collection and the options menu are excepted, in sync. The proof needed
`Average <= Patience` and showed the exception of `SteadyFits` in sync. `TypesOfTheBox` is
`Spec => []TypeOK`: `Measured` for what is counted, and `Counters`, which says that a
counter reaches its limit only on the way to the new scale that sets it back.

`Runner_proofs`, without any assumption about time: `TypeCorrect` is
`Spec => []TypeOK`. It needs `Framed`, which says what the stack of main holds at
each place, or a return could lead anywhere. The rest assumes `Prompt`:

- `OnePermit`, `SuspendSucceeds`, `NothingUnderWay`: `SemaphoreBounded`,
  `SuspendNeverQuits` and `StopQuiesces`.
- `RunnerImplementsDrawSlot`: the refinement of `DrawSlot`. Main's steps map to
  `Prepare` or a stutter, the runner's to `Begin`, `Finish` or a stutter.
- `BoxesLaidOut`: `DrawsLaidOutBoxes`, if in addition no reload is asked for;
  section 4 says what a reload does.

The invariant is `Handshake`: at each place main is in, what the semaphore holds
and where the runner can be. `Calm` (nothing under way or triggered) is where
settings, layout and size change; `Steady` (nothing triggered, `active` just while
the runner works) is where main goes its way beside a job; `Launching` is the wait
of `run()`, `Kicked` that of `stop()`, `Leaving` the way out. `Prompt` is used at two
places, the ends of these two waits: without it main could leave them with a
trigger not taken. All else follows, because a wait for `active` to fall leads
from `Steady` to `Calm`. `Boxed` is what `BoxesLaidOut` adds: `current_boxes` is what
`shown_boxes` is or will be, and both are what was laid out, except in `calcSizes()`,
on the way out, and after a digit under the message of a terminal that is too
small, when `resized` sees to a layout before the next job.

`ProcList_proofs`, from `ProcListAssumption` (finitely many pids, pid 1 among those
that run at the start, and these the lowest): `ProcListTypeOK`, `ProcListTreeDrawn`,
`ProcListSubtreeUsage` and `ProcListPausedFrozen` are `Spec => []TypeOK`, `[]TreeDrawn`,
`[]SubtreeUsage` and `PausedFrozen`, for any tree, matches, usages and settings.

- The invariant is `IInv`. `Sound` is about the list itself: each process once, nothing known of
  the others, parents with lower pids, dead entries marked. `ListKept` adds what a collection
  leaves: no request waits, the settings it was made with are remembered, the hidden and the
  rows are not more than are listed, no process that runs is marked dead, and init is listed once
  anything was collected. `World` is what the kernel grants. Of usage, filter
  marks and indices `IInv` says no more than their types, because a full collection must make
  them right whatever cached, paused and interrupted ones left.
- `Drawn` says that after a full collection the list is as the properties ask (`DrawnIn`) and
  that it is settled (`Stands`). Both are shown of one collection, from any list that is `Sound`:
  `FreshIs` is about the phases up to the tree (usage read again, marks reset), the lemmas from
  `FamilyKept` on about the tree.
- A sort is reasoned about as a `Line`: a sequence that has each member of a set once, in a strict
  total order. The stable sort, the erasures and the rows that are drawn each are the line
  of a set in an order that can be named (`StableSortLine`, `OnlyLine`, `RowsLine`), and the same set in the same order is
  the same list (`OrderedSame`).
- Usage: `Accumulated` is the sum over a process and the families of those that add to it;
  the families of siblings are disjoint, so that none is counted twice.
- Order: the numbers `tree_sort` gives to a family are an interval that starts at its head
  and is as long as it has shown processes, with the intervals of siblings side by side
  (`TreeBetween`), so the sort by index puts each family together, head first.
- `PausedFrozen`: a second collection of a paused list finds the same processes and order.
  In the flat list `Stands` says that the filter's marks are those it will set again. In the tree it
  says how marks, numbers and order hang together: hidden is what is below a collapsed
  process, a number is that of the parent and of the elder siblings' rows, the order is by
  number and then by parent. So regrouping by parent keeps siblings as they are, and
  numbering gives the shown ones the numbers they have (`NumbersStay`).

`PausedFrozen` leaves out a filtered tree because there the first update may exchange
siblings, and `InTree`, on which most of `TreeDrawn` depends, a paused list with processes
whose parent is not listed, which keep their old place (section 4): without these
conditions the two do not hold.

Induction. The library's induction theorems take an operator as a parameter, which no installed
prover can instantiate. `GpuMerge_proofs`, `NetBox_proofs` and `ProcList_proofs` therefore state
induction for a set of numbers (`NatInduct`: a set with 0 and with every successor of its members
has all numbers), proved from the well-foundedness of finite sets; what is said of a number is
a set `{n \in Nat : ...}`. A recursive function is a CHOOSE, so that it exists is itself
shown by this induction (`SumsDefined`, `UsedDefined`, `AccumulatedIs`, and `TopDown` for
what goes down the tree).

Only model-checked: `FreshSampleClearsStale`, which
is about the speeds of helper, clock and polls under `Timely`; and everything that needs
fairness or ENABLED (the liveness of bridge and runner). All other properties of the passing
runs are theorems.

## 6. What is left

Next: a model of the compact view's pages and of the menus' navigation, and pids that
wrap around and are given again, for which `ProcList` would have to drop the order of pids.

Not modelled, and why:

- Arithmetic of the wire format (sizes, limits, validation): `frame_size_is_valid()`
  and `decode_frame()` appear as one decision, accepted or `GARBAGE`. They keep no
  state.
- The filter editor's text, mouse mappings and the scroll bar; the menus' own
  navigation; the pages of the compact view: state of one thread, set and used
  within one key.
- The collectors of CPU, memory, disks, sensors and battery, and those of
  other systems: they read counters and subtract; the systems other than Linux
  share the list's functions that `ProcList` models.
- `Gpu::Nvml`, `Rsmi`, `Intel`, the vendored nvtop extraction and
  `intel_gpu_top`: calls into drivers. What the bridge needs of them is that they can hang.
- Logger, themes, colours, graphs, the command line, `fmt`, `widechar_width`: no
  state that lives across threads or updates, or third-party code.
