# Miriway in TLA+

Miriway is a Wayland compositor built on Mir's MirAL library. This directory
specifies the parts of it that have a state of their own, model-checks them with
TLC and proves the safety of all of them with TLAPS, for instances of any size.

## The system

| part | source | state | operations | talks to |
|---|---|---|---|---|
| workspace manager | `miriway_workspace_manager.cpp/.h` | list of workspaces, the active one, per workspace the window that was active, per window `WorkspaceInfo` | `workspace_begin/end/up/down`, the activator callback, window hooks (new, modify, raise, adding to workspace) | MirAL (window trees, workspaces, focus), `WorkspaceHooks` |
| window management policy | `miriway_policy.cpp/.h` | the zones, two flags about a window being moved | docking, next output, maximize, always on top, hooks | MirAL, `ShellCommands` |
| ext-workspace-v1 | `miriway_ext_workspace_v1.cpp/.h` | registries of workspaces and of outputs, per client a list of handles, queue of the Wayland main loop | `on_workspace_*` and `on_output_*` hooks, `bind`, `activate`, `destroy` | workspace manager, panels |
| child control | `miriway_child_control.cpp/.h` | pids of shell components, per component its restart history and timer | launch, reap, restart, shutdown | the kernel, `LockScreen`, Wayland extension filter |
| shell commands | `miriway_commands.cpp/.h`, `CommandIndex` in `miriway.cpp` | shortcuts on or off, count of application windows, command maps | key events, `exit`, live reload | policy, child control, application switcher |
| application switcher | `miriway_app_switcher.cpp` | `is_running` | key events | MirAL |
| lock screen | `LockScreen`, `main` in `miriway.cpp` | `is_locked` | lock, unlock, idle | child control, event filter |
| settings | `migrate_config_to_settings`, `miriway_documenting_store.cpp` | the settings file, the keys it has | migrate, add attribute | the user's editor, MirAL's live config |
| the rest | magnifier, `miriway-run-shell`, scripts, generated bindings | none | | |

### Threads

* Window management runs under Mir's lock: `invoke_under_lock` for commands, and
  Mir calls the policy's hooks under the same lock. So each operation is one step
  of `Workspaces`.
* The Wayland main loop serves clients and runs the lambdas given to
  `run_on_wayland_mainloop`, in order. It shares the registry (one mutex) with the
  window management thread and waits for its lock in the activator callback. So
  the operations are split into their critical sections in `ExtWorkspace`.
* The main loop of the runner handles SIGCHLD, the restart timers, and the start and
  stop callbacks. Shortcuts, and the listeners for lock and idle, start processes from
  other threads (so `is_locked` is atomic, and `shell_component_mutex` exists): in
  `ChildControl` their fork and their insert are two steps, and they fall between any two of
  the steps of the main loop that the mutex does not join: `waitpid`, the lookup of the pid, the
  predicate, the launch.

### What is hard here

* A window's visibility depends on the layer it was opened in, on its family, on
  the workspace it is in, on the one that is active and on the state its client
  asks for, and five kinds of operation change these in different orders.
* `active_workspace_` is an iterator into a list that the same operations append
  to and erase from; the activator takes a workspace from another thread.
* What a panel is told is a snapshot followed by notifications that were queued
  before it, while it, or after it was taken.
* Children die at any time, one signal may stand for several deaths, pids are used again,
  and a command waits for its restart while the session is locked and unlocked.
* What the next dock does is told from the width a window happens to have, which its
  client, the outputs and integer division change; zones come, go and move in between.
* The settings file is the user's as well as the program's: it is written again in place
  by every start that has something to migrate, and any start may be the one that crashes.

`PROJECT.json` lists every hazard at its line, with the properties that cover it.

## Modules

| module | what it is |
|---|---|
| `Rows` | the lists of the program: find, erase, the pass of `remove_if`, the elements of a kind (`Those`), and a loop of turns (`Loop`) |
| `WorkspaceList` | abstract specification: what users of workspaces are promised |
| `Workspaces` | the workspace manager, with the hooks of `WorkspaceWMStrategy` and the policy's operations on workspaces |
| `ExtWorkspace` | the protocol: registry, notifications and clients, over the transitions `WorkspaceList` allows |
| `Supervisor` | abstract specification: what becomes of a command that is kept running |
| `ChildControl` | the shell's processes: launch, reap, throttled restart, lock screen, shutdown; it implements `Supervisor` for components |
| `Docking` | the policy's placement of windows: docking, the next output, the end of a drag, zones |
| `Settings` | the settings file through starts, crashes and edits: migration and documentation |
| `Shortcuts` | key events, command indexes with live reload, the application switcher, `exit` |
| `MCWorkspaces`, `MCExtWorkspace`, `MCChildControl`, `MCShortcuts`, `MCDocking`, `MCSettings` | instances, symmetry and constraints for TLC |
| `RowsProofs` | lemmas about `Rows`, and the least and the greatest of positions |
| `WorkspacesProofs` | the invariant of `Workspaces` and its refinement of `WorkspaceList` |
| `ChildControlProofs` | the invariant of `ChildControl` |
| `SupervisorProofs` | its refinement of `Supervisor` |
| `ExtWorkspaceProofs` | the invariant of `ExtWorkspace` and its safety properties |
| `ShortcutsProofs` | the invariant of `Shortcuts` and its properties |
| `DockingProofs` | the invariant of `Docking` and its properties |
| `SettingsProofs` | the invariant of `Settings` and its properties |

A name in a model is the name in the code wherever there is one. Definitions whose
name ends in `_mutant` are plausible wrong versions of the next definition; no
action uses them, and each property is shown to reject one.

### Workspaces

State: `workspaces`, `active` and `remembered` are the manager's three members.
`info` is each window's `WorkspaceInfo` together with its `MirWindowState`.
`live`, `parent`, `layer`, `member` and `focus` belong to MirAL and are modelled
from how this code uses them.

Actions: the four commands (each with and without "take the active window along"),
the activator callback, `toggle_always_on_top`, `toggle_maximized_restored`, and the
hooks for a new, deleted, modified and raised window; `FocusMoves` is the user.
`change_active_workspace` keeps the order of the code, because it shows: the
remembered window first, then the window taken along, then the new workspace's
windows, then the old one's, the active window last.

Assumptions about MirAL:

* a child window is in its parent's workspaces, families are two deep, and a child is
  in a shell layer exactly when its parent is;
* where the focus goes when the active window goes out of view is any visible window,
  or none; a window that is shown takes the focus when nothing has it;
* an identity (a window, a workspace) is not used again while something still
  refers to it;
* the state of a new window is one its client may ask for; a window's state changes
  only as the modelled operations change it;
* `on_workspace_destroy(*old_workspace)` reads the pointer of a list node that has
  just been erased: the model takes the pointer to be intact.

`StaleActivation = FALSE` says that the activator is only called for a listed
workspace. Whether that is so is the business of `ExtWorkspace`, which shows that it
is not: see `ext_stale` below. The theorems carry it as an assumption.

### ExtWorkspace

The window manager's operations are those of `WorkspaceList`, whose promise
`Workspaces` is proved to keep. Each leaves a list of hook calls (`todo`); a hook is
two steps, as in the code: the registry under its mutex (`UpdateRegistry`), then the
notification (`PostNotification`). The main loop delivers one notification, or serves
one request, at a time. While it serves `activate` it waits for the manager's lock.
`Alive` is `weak_ptr::lock`: the list, the registry and the queued lambdas hold
shared pointers, except the one of `workspace_destroyed`.

Outputs go the same way: `OutputPlugged` and `OutputUnplugged` are Mir's calls of the
policy, `outputs` is `all_the_outputs`, and a client's group enters those of its
`wl_output`s that it has when it is told (`for_each_binding`). `bind` is two steps, since
it reads the two registries under two mutexes. `wl_output` also records, for the
properties alone, whether a `wl_output` was bound in time, and `discarded` whether the
client has destroyed a handle. Assumed of Mir: a client can bind the `wl_output` of an
output only once the policy knows the output, and an output plugged in again is a new one.

Not in it: `done`, the empty handlers (`commit`, `stop`, `deactivate`,
`assign`, `remove`, `create_workspace`), the life of `Global`.

### ChildControl

State: `child` is the kernel's, every process not yet reaped with the command it runs.
`shell_component_pids` is the code's map; `runs_in_quick_succession` and `handle` are
members of `ShellComponentRunInfo`. `aged` stands for `last_run_time`: whether more than
three seconds have passed since. `abandoned` is what the log says of commands given up.
`recording` holds the pids between a fork and its insert on another thread. `doing` is where the main
loop is between two steps: it has waited for a process and not looked its pid up (`reaped`), is about to
ask the predicate in `on_reap`, or has asked it and is about to launch (`launch`, `relaunch`). `early` and
`late` are history, for the properties alone: the pids handed out before `reap()` had looked up the
process that had them, and the lock screens restarted since the session was last unlocked.

Actions of the main loop: `LaunchComponent` (the start callback), `HandleSignal`, then for each
iteration of the loop in `reap()` the steps `Reap` (`waitpid`, which frees the pid), `Lookup` (find and
erase, under the mutex), `OnReap` (the predicate) and `Launch`; `ReapEnd`; `TimerFires` (the predicate, in
the timer's handler) and `Relaunch`; `Shutdown`. Nothing else of the main loop runs between these steps,
while children die and other threads fork, insert, lock and unlock. Actions of other threads: `Press`
and `Insert` (shortcuts), `Lock`, `Idle`, `Unlock`. `Lock` sets `is_locked` and forks the lock screen in one
step, being two listeners of one event. A timer whose predicate is false when it fires returns with its handle
still registered and its descriptor unread, so it fires again: `TimerFires` then changes
nothing, and the restart happens when the session is next locked, beside the lock screen that this lock
launches.

So a pid can be handed out between `waitpid` and the lookup, and what `Lookup` finds and erases is
whatever the map has by then. That is
what `OneEach` and `StaysRecorded` have to except (see Findings): a lock screen may have one
process more, and a shell process may run unrecorded, if its own pid was handed out there. A
component is launched by the main loop alone and is never in either case, which both properties say.
Likewise a lock screen for which `is_locked` has been read may be launched after the unlock:
`OneLateAtMost` says that there is never a second one.

Assumptions: a pid that has been forked for is not handed out again before the thread that forked it has
recorded it (the pid that `reap()` has waited for may be, at once); one call of `reap()` takes less than three
seconds; fork succeeds; a lock screen is configured; once the stop callback has run the main loop runs
nothing more.

`Supervisor` forgets processes, pids, signals and timers: a command runs, fails, is started
again at once after a long run and after a pause after a short one, and never after three
short ones in a row. The refinement (`ImplementsSupervisor`) is for components. It does not
hold for lock screens: one that is lost before its pid is recorded leaves its pid in the map, and
when a process that was given that pid fails, the lock screen is started in its place.
That a component with such a pid is not restarted is why `Restarted` asks for its entry.

### Docking

State: `application_zones`, `moving_window` and `window_moved` are the policy's members;
`zones`, `win` and `active` are Mir's. `presses` is history, the widths of the last docks in a
row. Geometry is one-dimensional: outputs stand side by side, a zone is its output, and what the
vertical dimension adds to the end of a drag is an input (`above`, the margins of the
cursor). Every operation is one step, as Mir calls the policy under its lock.

Actions: the two docks and the two moves to the next output, the three hooks for zones,
the start of a drag, `PointerConsumed` and `PointerPassed` (`handle_pointer_event` when the
base policy consumes the event and when it does not), `toggle_maximized_restored`; clients
commit sizes of their own and the user moves the focus.

Assumptions about Mir: the active zone is the one that shows most of the active window (any
of them when several do); `place_and_size_for_state` puts an attached window at its edge, a
maximized one over the zone, and leaves a restored one where it is; no window is empty; zones do
not overlap and one always remains; a zone is at least five wide, so that its half, its third and two thirds of it
differ.

### Settings

State: `file` is the settings file as the sequence of its lines that matter, `ended` whether the last
has a newline; `settings_lines`, `existing_keys` and `added` are what a start has in memory;
`phase` is how far the start is. `base` and `whole` remember the file as the user left it,
`damaged` and `settled` whether a rewrite was cut short, or a start completed, since.

Actions: `Migrate` reads both files and truncates the settings file, `Written` writes it,
`OpenStore` reads the keys again, one `AddAttribute` per attribute, `Started`. A crash while the
file is written (`CrashWriting`) leaves any prefix, the last line possibly cut; `Exit` is a crash or
an end anywhere else. Users add, set, comment out and remove lines, leave the last one
without newline, and put a `.config` file of their own in front of the system's.

`Migrated` is two loops over the keys in the order of the map, as in the code: the first puts
values behind placeholders (a turn of it is `PlaceNew`), the second appends the rest
(`AppendNew`). `Those` picks lines and options.

Assumptions: the documentation of one attribute is flushed as a whole; a cut line is not taken
for one of another key; users do not edit the file while the shell starts. The keys are distinct,
since they are those of a `std::map`, and `main` adds each attribute once.

### Shortcuts

The input thread: `KeyEvent` is the filter of `main`, which reads `is_locked` once;
`SwitcherTakes` is `process_event` when it consumes the event, `keyboard_shortcuts` what
follows when it does not, and `try_command_for` the search of the shell's index and then
of the other, a step each. The main loop: `Reload` reads the file, and each `ReloadStep`
clears one index or adds one line, so that searches fall in between; `loading` is how far it
is, an index (`at`) and a line of it, 0 before the index is cleared (`ReloadPoint`). `Lock` is the
session's.

A reload can go wrong in two ways, which the code tells apart. A line that is not well formed is
`mir::fatal_error`, which ends the compositor. An unknown key makes `to_key` throw `mir::AbnormalExit` out of
the handler that MirAL called, with the index cleared and partly filled (`to_key_throws`). Where that
exception ends is MirAL's, and nothing in this repository says: the model has all three outcomes that
it may have, the end of the compositor, the reload going on with the next attribute, and the reload
given up. `threw` remembers it until the next reload. A reload that threw leaves its index neither as it was
nor as the file has it, so `ReloadIsRestart` is about reloads that did not throw, whatever
earlier ones have left. `Init` is a start that came through: one with such a key, or such a line, is left
out.

The window manager's hooks keep `app_windows`, which `exit` reads. Commands
other than `exit` have their effects in `Workspaces` and `ChildControl` (`Press`), and
change nothing here. A key held down repeats without effect and is left out.

A search that meets a map in the middle of one operation is a data race, whose outcomes
are not enumerated: the model takes each operation on the map as a whole. A line whose
colon is missing has `split = npos`, and `split + 1` wraps, as in the code: it is then
not invalid, and binds the key it names if it names one.

## Runs

| run | instance | shows |
|---|---|---|
| `workspaces` | 3 workspaces, 2 windows, all layers, states hidden/restored/maximized | types, a valid `active_workspace_`, windows hidden exactly where they should be, dialogs with their parents, states and homes kept across switches, refinement of `WorkspaceList`, the inductive invariant of the proofs |
| `shell_focus` | as `workspaces` | violation: focus is given to a window remembered from another workspace, or destroyed |
| `ext` | 2 workspaces, 1 output, 1 panel | registry and manager agree; the panel agrees with the registries at rest, and comes to (liveness); removals are never lost; numbering; no group keeps an output that is gone, or misses one in time; the inductive invariant of the proofs |
| `ext_stale` | 2 workspaces, 1 panel | violation: activating a workspace whose removal is still queued leaves `active_workspace_` at `end()` |
| `ext_twice` | 2 workspaces, 1 panel | violation: two handles for one workspace |
| `ext_outputs` | 2 workspaces, 1 output, 1 panel | violation: a `wl_output` bound late is never entered |
| `child` | 2 lock screens, 1 shortcut, 4 pids | two locks, or a lock and an idle timeout, with restarts of both pending: no launch duplicates a command that runs or waits for its restart; shell processes stay recorded across restarts and reuse of pids, but for those whose pid was handed out between `waitpid` and the lookup; once the session is unlocked one lock screen is restarted at most; the inductive invariant of the proofs |
| `child_restarts` | 1 component, 1 lock screen, 3 pids | refinement of `Supervisor`; a component that fails runs again or is announced as given up (liveness) |
| `child_lost` | 1 component, 1 lock screen, 3 pids | violation: a process reaped before its pid is inserted is not restarted |
| `shortcuts` | 2 windows, 3 modifiers, 4 keys, 3 settings files | the window count is right whatever happens to layers, `exit` loses no work, a live reload that no unknown key cuts short leaves what a restart would, the switcher is not left open |
| `docking` | 2 outputs, 3 extents, 2 windows, one of which can dock | the policy's zones are Mir's; three docks in a row are the three widths whatever came before; a window moved on is shown by the next output, and by no other unless it reaches beyond that one's edges; only windows that can dock are docked |
| `settings` | 3 keys, 3 attributes, 2 `.config` files, 3 edits, 2 crashes | the user's settings survive every start; what the `.config` file sets arrives, once; every attribute is documented once; a completed start leaves nothing to do for the next |

### Bounds

* Three workspaces give a first, a last and one in between, and a free one to append
  to a list of two. Two windows give one that is moved or focused and one that is
  left, or a parent and its dialog. For larger families, and for everything else, the theorems
  take over.
* `Asked` and `Opened` bound what clients ask for.
* `View` forgets the `old_state` of a window in view, which nothing reads before it is
  written again.
* Two workspaces are enough for the one a panel activates and the one it leaves, and are
  used again after they are destroyed; one panel, since panels share nothing but the queue
  and the wait of the main loop; one output, since outputs do not meet.
* `MaxQueue` (8) bounds the notifications waiting: two operations of up to five
  hooks each overlap. A command only starts when its hooks fit, and
  leaves room for an `activate` request, so that the bound never blocks a hook.
* `child`: two lock screens are a second lock and two at once, and with a shortcut enough for two deaths
  under one signal, a stale entry met by another command, and a pid taken between `waitpid` and the
  lookup. There are as many pids as infos and shortcuts together, and one more for a second process of
  a lock screen; they are used again at once, from `waitpid` on, which covers every later reuse. (With
  a second process of each lock screen and the shortcut, a fork waits for a pid.) `child_restarts` has
  the component, and a pid for each process that there can be, so that no restart waits; it leaves the
  shortcut out. `LockInfo` bounds the lock screens launched and `MaxPresses` the shortcuts. The limit of three
  restarts is the code's. For all of them together the theorems take over.
* The settings of `shortcuts`: one file has a key bound twice and then to an unknown command, and in
  another index a line without a colon; one has an unknown key between two lines, with another index to
  come, so that the reload may end there or go on; one has a line with nothing after the colon, which is
  fatal. Two windows are one to close and one to lose.
  Ctrl, Alt and Shift are all that the chords in them need.
* `docking`: outputs 6 and 9 wide, one of which changes its width; windows of 4 come wider
  than a half and narrower, exactly half of 9, and hang over either end; one at 11 is within the
  wide output and not within the narrow one, and 5 from the edge of its own, so that on the other it
  reaches beyond. Three docks are one
  round of the cycle. The dialog is the window that must not dock.
* `settings`: a list of two commands, a key that two options set, in another order than the
  file's, an attribute of two presets that nothing sets. `MaxLines` is a file with a line of
  each kind; three edits are one before and two after a start, or a `.config` file put in place
  between two; two crashes are one that tears the file and one that meets it torn.
* Symmetry: over windows in `shortcuts`; over workspaces and windows in `Workspaces`; over workspaces in
  the violation runs of `ExtWorkspace`; over pids in `child`; none in `ext` and
  `child_restarts`, which check liveness, nor in `docking` and `settings`.

### Fairness

`ExtWorkspace`: weak fairness of the steps of the lock's holder
and of `bind` and the callback: a thread that runs is scheduled. Strong fairness of `Deliver`:
the main loop turns to the queue in each iteration however many requests clients
make, so a notification that can be delivered again and again is. Commands and
client requests are under no fairness. `Converges` is stated for behaviours in which
the list stops changing.

`ChildControl`: weak fairness of the steps of the main loop, of the loop of `reap()`,
which goes on as long as `waitpid` finds a child, whichever, and of `Lookup`, `OnReap`, `Launch` and
`Relaunch`, since a callback that has begun returns. Strong fairness of `TimerFires`, of
components, which are all that `Restarted` is about:
the main loop is not always in `reap()`, which is bounded because a command launched in
it has not aged when it dies, and a descriptor that stays readable is served between two
calls. Nothing is assumed of users or of processes: none has to die, and none to live.

## Findings

1. `shell_focus`: the window remembered by `workspace_to_active` is selected without
   checking that it still is in the workspace (or exists).
2. `ext_stale`: the activator does not look at whether `std::find` found the workspace.
3. `ext_twice`: registry update and notification are not atomic, and the notification
   is asynchronous: a client that binds in between has two handles, the second of which
   never hears of later states.
4. `child_lost`: launching and inserting the pid are not atomic with respect to `reap()`.
   The entry left behind names the lock screen for whatever process has its pid next.
5. `ext_outputs`: `output_enter` is sent only for the `wl_output`s a client has when it is told
   of an output; for a monitor that is plugged in it hardly ever has one yet.

Two more are not runs of their own, but what properties have to except:

* `waitpid` frees a pid before the map is locked, so what `reap()` finds may be the entry of a new process,
  whose `on_reap` it calls: a lock screen that runs is started again, at once or by a timer, beside itself
  (`OneEach` excepts it). In the same gap an insert can meet the old entry, which `std::map::insert` keeps, or be
  undone by the erase: a shell process then runs without its privileges, and is not restarted
  (`StaysRecorded` excepts it). Both need the kernel to hand out the very pid just freed, which it does
  only once it has come round to it. Without the exceptions TLC finds each.
* After a client destroys a handle of a living workspace, a new workspace reuses coordinates, which the
  protocol wants to be unique within a group (`Numbered` excepts such clients).

Seen while modelling, and promised by nothing: a drag that ends at the top maximizes windows that
are not eligible to dock; `MovesOn` has to except an offset that is exactly the width of the
next output (`>` in line 200 of `miriway_policy.cpp`), which leaves the window just beyond it, and a
window that reaches beyond the next output's edges, most of which may still be on the output it came
from, since its own width is not taken into account; a
settings file without a final newline loses its last value to a comment; after a crash in the
middle of a migrated list the rest of the list is not migrated again; a lock screen can be restarted
just after an unlock, because `is_locked` is read (lines 201 and 219 of `miriway_child_control.cpp`) before
the launch (207 and 218) - the comment at line 200 asks only that the predicate be read again, and
`OneLateAtMost` bounds it to one; if MirAL goes on after the exception of an unknown key, the index
of that attribute stays partly filled until the settings are changed again.

## Proofs

`WorkspacesProofs` proves, for any sets of workspaces, windows and states, and from the
assumptions of `Workspaces` and `~StaleActivation`:

* `Invariance`: `Spec => []IInv`, and from it `TypeCorrect`, `AlwaysListed`,
  `HiddenWhereItShould`, `StaysHidden`, `Homes`, `Families`;
* `Implements`: `Spec => WL!Spec`.

The invariant. `HiddenIffElsewhere`, which is what a user notices, is not inductive. To
know that hiding and showing do nothing twice one needs `HiddenStaysHidden`; that a
window left behind has nowhere else to be needs `OneHome`; that a window taken along
takes its family needs `TreeTogether`, and that in turn `Kinship` (families are flat and
of one kind) and `Forgotten` (a new window starts from nothing). That a command acts on a
window of the active workspace, and not on one hidden elsewhere, is `FocusSeen`.

The argument. `HideShow` says what hiding and showing do to one window. `Changed`, the
longest proof, computes for every window what `change_active_workspace` leaves: it
establishes every part of the invariant with the new workspace for the active one.
`LeaveKeeps` adds the erasure of the workspace left behind, `GoToKeeps` and
`GoToNewKeeps` the list, with the lemmas of `RowsProofs`. Then there is one lemma
per action, and `NextKeeps` puts them together.

`ChildControlProofs` proves, for any commands, lock screens and pids and any bound on the
shortcuts, from the assumptions of `ChildControl`: `Invariance`, and from it `TypeCorrect`,
`OneProcessEach`, `RecordedWhileRunning` and `OneRestartTooLate`.

The invariant. That a command has at most one process is not inductive: `reap()` restarts
whatever command the map names, and an entry may be stale, since a lock screen can be reaped
before its pid is inserted, and what `Lookup` finds can belong to a process started after the one
waited for. What holds is that everything known of a command - its process, its
entry, the insert another thread has still to make - is one pid at most, and none while its
restart is pending or its `on_reap` is running (`OneTrace`). A process whose pid was handed out early is
not counted among these (`Known` is the table of children without them): once `Lookup` has erased its
entry nothing knows it any more. `Early` says that such a process is never a component's, and that there
is no other way for a pid that has been waited for to be in use. `Fresh` says the same as `OneTrace` of a
command not launched yet, `Allowed` that a pending restart has not used up the limit, which bounds
`runs_in_quick_succession`. `Late` is why there is one late restart at most: after it the main loop is
in the middle of nothing, and before it asks the predicate again, which is false.

The argument. The lemmas of the first part (`LaunchSound`, `WaitSound`, `EraseSound`, `ForkSound`,
`InsertSound`, `PauseSound`) take the tables as arguments (`Sound`), so that they can be applied to
those without the pids handed out early. Then one lemma per action.

`SupervisorProofs` proves `Refinement`, `Spec => ImplementsSupervisor`. It needs one more invariant,
`Owned`: the entry of a component is that of its own process, or of the one waited for, because only
the main loop launches components. `View` is how a component stands, given the tables; one that `reap()` has
waited for, or is about to launch (`Pendings`), still counts as failed. `Moves` lists the ways in
which it may change, which `Steps` shows to be the actions of `Supervisor`; for each action one lemma
shows that one component moves, or none, and that the others stay as they are (`UntouchedSame`).

`ExtWorkspaceProofs` proves, for any workspaces, outputs and clients and any bound on the
queue, from the assumptions of `ExtWorkspace`: `Invariance`, and from it `TypeCorrect`,
`RegistryIsTheList`, `NoDeadHandleStays`, `PanelsAgree`, `NumbersInOrder` and `OutputsSettle`.

The invariant. That panels agree at rest says nothing of the states in between, which are most
of them. What holds throughout is what each party has still to catch up with. `Standing` is what the
registry will say of a workspace once the hooks left in `todo` have run, and `RegistryCatchesUp` that
this is the manager's list; `HooksInOrder` says where in `todo` a hook may stand (a creation is
first and its activation second, a removal last), without which the registry could pass over one.
`NotificationsTrue`: the last notification on its way about a workspace says what the registry
has, its creation is the first and its removal the last. `HandlesCatchUp` and `OutputsCatchUp`
relate what a panel has been told to what is on its way, one notification at a time: a handle of
a dead workspace has its removal queued; a workspace without a handle has its creation queued; a
state that is out of date has a later one queued. A panel in the middle of `bind()` and one that
has destroyed handles are told less, and excepted just where they are. `Pending` counts the
notification that is about to be queued, since the registry has changed by then.

The argument. Lemmas first say what appending to the queue, taking its head and running one hook do
to "last about" and "is on its way"; `DestroyedHandles` (from `SelectedKeeps` of `RowsProofs`) what
`workspace_destroyed` leaves of a row of handles. Then a lemma per action, of which the two halves of a
hook and `Deliver` are the long ones.

`ShortcutsProofs` proves, for any keys, windows, programs and settings files of any length, from the
assumptions of `Shortcuts`: `Invariance`, and from it `TypeCorrect`, `CountedRight`,
`ReloadedAsRestarted`, `SwitcherCloses` and `NoWorkLost`.

The invariant. `ReloadSoFar` says what the indexes hold in the middle of a reload: those already passed
what the new file binds, the current one what its lines up to here bind (`InForceUpTo`), unless a handler
threw; since every handler clears its index first, the next reload needs nothing of what that one
left. `AtALine` keeps `loading` within the lines there are, thrown or not. That the
last line for a key wins is `UpToNext`, the lemma about one more line. `EventIsLast` and `AltIsUp` relate the event
being handled, the modifiers held and the switcher: open with Alt up only until the event that let go of
Alt has been handled. `NoWorkLost` needs `Counted` in the state in which `exit` reads the count.

`DockingProofs` proves, for any outputs and windows, for zones of any width from 5, and for windows of
any size and place, from the assumptions of `Docking`: `Invariance`, and from it `TypeCorrect`,
`Mirrored`, `Cycles` and `ShownWhereMoved`.

The invariant. The width after next depends on the zone that is active when the key is pressed, and
`DockCycle` says that it is the same zone each time. So `PressesFollow` keeps, for a row of docks, the
zone they went to, that the window is still at its edge with the last of the widths, and that each
width is the one after (`After`) the one before. That the zone is active again follows because the
window is within it (`Thirds`: none of the widths exceeds it), because zones do not overlap
(`ZonesApart`) and because the window is not empty (`NoneEmpty`): `OnlyZone`. `Cycles` is then
arithmetic (`CycleOfThree`). `ShownWhereMoved` uses the same `OnlyZone` argument for the target, which
is a zone because `std::find` finds the active one (`Mirrored`).

Two things came out of the proofs. `MovesOn` used to say that a moved window is shown by the next output
and no other, unless its offset is exactly that output's width. The proof has no case for an offset that
is smaller and leaves the window reaching beyond the output, and with such a place in the instance TLC
found the step; now it says this only of a window that ends up within the output. And the
numbers in `Thirds` need zones at least 5 wide, which `WidthAssumption` names.

`StatesKept` and `HomesKept` (in `WorkspacesProofs`) are the action properties of `Workspaces`: `Changed`
and `LeaveKeeps` say of each window that hiding and showing leave the state the user gave it
(`HideShowKeep`), and that a window that was in a workspace is in one afterwards; what is erased with an
empty workspace is not a home of any application window.

`SettingsProofs` proves, for any keys, options, attributes and `.config` files, for settings files of
any length and any number of edits and crashes, from the assumptions of `Settings`: `Invariance`, and
from it `TypeCorrect`, `UsersFileKept`, `AllOrNothing`, `Restored`, `NeverTwice` and `LeftAlone`.

The invariant. While the file is written again it is empty, and what counts for it is in memory:
`UsersKept`, `AllMigrated` and `DocumentedAtMostOnce` say of `Lines`, which is one or the other,
what the properties say of the file. That a key is documented once needs
`DocumentedSoFar`: `existing_keys` is what the file mentioned when it was opened, so with the
attributes added since it is what the file mentions now. `MigratedFirst` is for the crash: what a
rewrite had in memory holds no more places than the user's file, because nothing is documented
while anything is left to migrate, so what is left of it can be documented anew. `LeftUnended`: only
the user leaves the last line unended, so only the user's last line can run into a comment.
`WritesWhatIsMissing` and `AllDocumented` are why a completed start leaves nothing to the next.

The argument. `ThoseConcat` says that the lines of a kind in two pieces put together are those
of each, and from it `InsertedSets`, `AppendedSets` and `DocumentsKey` that an insertion
concerns one key, wherever it falls. `LoopSets` is the loop over the keys: after n turns the first
n keys are set and the others are as they were. Loops and passes are recursive functions (`Rows`), so
this is an induction, done by hand: of the turns after which it fails there would be a first
(`Least`). `MigratedSets` puts the two loops together; then there is one lemma per action.
`AllOrNothing` follows from `UsersFileKept` and `Restored`: a key the user's file leaves out has
none of the `.config` file's values or all of them, and if there are any it has some.

Two assumptions came out of these proofs, since a key that came twice would be migrated
or documented twice: `KeysAssumption`, and the second conjunct of `AttributesAssumption`. Both are
how the code is (a `std::map`, one `add_..._attribute` per name), and had gone unsaid.

TLC checks the invariants of `Workspaces`, `ExtWorkspace` and `ChildControl` in their runs. Those
of `Shortcuts`, `Docking` and `Settings` were tried on the instances of their runs before they were
proved, and are not checked again.

### Only model-checked

* Liveness: `Converges` and `Restarted`, as TLAPS has neither fairness nor ENABLED.
* The violation runs, which need only their counterexamples.

Every invariant and every other action property that a passing run checks is a theorem, and so are
both refinements.

## Plan

Every component that keeps state is modelled, and its safety proved. What could follow is wider models: the vertical
dimension in `Docking`, the outcomes of a data race on the command map in `Shortcuts`, editing
while the shell starts in `Settings`, and the hazards that `PROJECT.json` lists with a note.

## Not modelled

Scripts, packaging and systemd units (no state), the generated bindings, the
magnifier (one stateless key test), `miriway-run-shell` (stateless overrides). Of the modelled
parts: `done` events, which carry no state; the life of `Global` and what other threads do while
Mir's server stops, which is decided outside this repository; what MirAL's live configuration
makes of a value. `PROJECT.json` gives the reason for each.
