----------------------------- MODULE Shortcuts -----------------------------
(***************************************************************************)
(* Keyboard shortcuts: the event filter and the command indexes of main    *)
(* (miriway.cpp), ShellCommands (miriway_commands.cpp), the application    *)
(* switcher's keys (miriway_app_switcher.cpp) and the count of application *)
(* windows that decides whether exit may stop the compositor.              *)
(*                                                                         *)
(* Four threads.  The input thread handles one key event at a time; the    *)
(* main loop reloads the settings, without a lock, index by index and line *)
(* by line; Wayland locks and unlocks the session; the window manager      *)
(* opens, changes and closes windows.                                      *)
(*                                                                         *)
(* A definition whose name ends in _mutant is a wrong version of the next  *)
(* one: no action uses it, and the properties are shown to reject it.      *)
(***************************************************************************)
EXTENDS Integers, Sequences, FiniteSets

CONSTANTS
    Modifier,       \* those of ctrl, alt, shift and meta that the user has
    Key,            \* the other keys, by keysym
    SwitchKey,      \* Tab and Grave
    Escape, Delete,
    Program,        \* what a command launches
    Setting,        \* the settings files the user may write
    Window,
    None

Chord == {"ctrl_alt", "meta", "alt", "plain"}
Rights == {"shell", "app"}              \* run_shell or run_app
Index == Rights \X Chord
Command == Program \cup {"exit"}        \* exit stands for the commands of wm_command
\* A line of the settings: where its colon is and how long it is, the key its
\* first part names (None: none) and what the rest asks for (None: an unknown @).
SizeModulus == 2 ^ 16                   \* for 2 ^ 64
npos == SizeModulus - 1
Line ==
    [split : 0 .. 2 \cup {npos}, size : 1 .. 4, key : Key \cup {None}, does : Command \cup {None}]

ASSUME KeyAssumption ==
    /\ Modifier \subseteq {"ctrl", "alt", "shift", "meta"}
    /\ SwitchKey \cup {Escape, Delete} \subseteq Key
    /\ None \notin Key \cup Command /\ "exit" \notin Program
ASSUME SettingAssumption ==
    Setting # {} /\ \A file \in Setting : DOMAIN file = Index /\ \A ix \in Index : file[ix] \in Seq(Line)

VARIABLES
    held,                   \* the modifiers held down
    event,                  \* the key event the input thread is handling
    lookup,                 \* the index try_command_for is about to search
    is_locked,
    shell_commands_active,
    is_running,             \* the application switcher, and so MirAL's on the screen
    missed,                 \* history: it was not shown that Alt went up
    commands,               \* Index -> (Key -> command)
    file, loaded,           \* the settings as written, and as last read
    loading,                \* the attribute and line the reload is at, or None
    threw,                  \* history: a key of the settings last read is unknown
    layer,                  \* the windows
    app_windows,
    ended                   \* why the compositor stops

input == <<held, event, lookup, missed>>
switches == <<shell_commands_active, is_running>>
settings == <<commands, file, loaded, loading, threw>>
windows == <<layer, app_windows>>
vars == <<input, switches, is_locked, settings, windows, ended>>

Event == [action : {"down", "up"}, key : Key \cup Modifier, mods : SUBSET Modifier]
Search == [rights : Rights, chord : Chord, key : Key, shift : BOOLEAN]
Layer == {"application", "always_on_top", "shell"}

\* The handlers are called in the order of their registration.
Attributes == <<<<"shell", "meta">>, <<"shell", "ctrl_alt">>, <<"shell", "alt">>,
    <<"app", "meta">>, <<"app", "ctrl_alt">>, <<"app", "alt">>,
    <<"shell", "plain">>, <<"app", "plain">>>>
\* Before its first line a handler clears its index: line 0.
ReloadPoint == [at : 1 .. Len(Attributes), line : Nat]

ASSUME NoneAssumption == None \notin Event \cup Search \cup Layer \cup ReloadPoint
ASSUME WindowAssumption == IsFiniteSet(Window)

Running == ended = "no"
-----------------------------------------------------------------------------
\* The window manager.

is_application_mutant(l) == l = "application"                \* as eligible_to_dock

is_application(l) == l \in {"application", "always_on_top"}
Applications == {w \in Window : layer[w] # None /\ is_application(layer[w])}

advise_new_window(w) ==
    /\ Running /\ layer[w] = None
    /\ \E l \in Layer :
        /\ layer' = [layer EXCEPT ![w] = l]
        /\ app_windows' = IF is_application(l) THEN app_windows + 1 ELSE app_windows
    /\ UNCHANGED <<input, switches, is_locked, settings, ended>>

toggle_always_on_top(w) ==
    /\ Running /\ layer[w] \in {"application", "always_on_top"}
    /\ layer' = [layer EXCEPT ![w] =
                    IF @ = "application" THEN "always_on_top" ELSE "application"]
    /\ UNCHANGED <<app_windows, input, switches, is_locked, settings, ended>>

advise_delete_window_mutant(w) ==                            \* any layer counts
    /\ Running /\ layer[w] # None
    /\ layer' = [layer EXCEPT ![w] = None]
    /\ app_windows' = app_windows - 1
    /\ UNCHANGED <<input, switches, is_locked, settings, ended>>

advise_delete_window(w) ==
    /\ Running /\ layer[w] # None
    /\ layer' = [layer EXCEPT ![w] = None]
    /\ app_windows' = IF is_application(layer[w]) THEN app_windows - 1 ELSE app_windows
    /\ UNCHANGED <<input, switches, is_locked, settings, ended>>
-----------------------------------------------------------------------------
\* The settings, and their reload on the main loop.

Edit ==
    /\ Running
    /\ file' \in Setting \ {file}
    /\ UNCHANGED <<commands, loaded, loading, threw, input, switches, is_locked, windows, ended>>

Reload ==
    /\ Running /\ loading = None /\ loaded # file
    /\ loaded' = file
    /\ loading' = [at |-> 1, line |-> 0]
    /\ threw' = FALSE
    /\ UNCHANGED <<commands, file, input, switches, is_locked, windows, ended>>

\* Without a colon, split is npos and split + 1 wraps to 0.
WellFormed(line) == line.split >= 1 /\ (line.split + 1) % SizeModulus < line.size

Cleared_mutant(ix) == commands                               \* no clear
Cleared(ix) == [commands EXCEPT ![ix] = [k \in Key |-> None]]

LoadingIndex == Attributes[loading.at]
LoadingLine == loaded[LoadingIndex][loading.line]

NextAttribute ==
    IF loading.at < Len(Attributes) THEN [at |-> loading.at + 1, line |-> 0] ELSE None

NextPoint ==
    IF loading.line < Len(loaded[LoadingIndex]) THEN [loading EXCEPT !.line = @ + 1]
    ELSE NextAttribute

ReloadStep ==
    /\ Running /\ loading # None
    /\ \/ /\ loading.line = 0
          /\ commands' = Cleared(LoadingIndex)
          /\ UNCHANGED ended
       \/ /\ loading.line > 0 /\ WellFormed(LoadingLine) /\ LoadingLine.key # None
          /\ commands' = IF LoadingLine.does = None THEN commands
                         ELSE [commands EXCEPT ![LoadingIndex] =
                                  [@ EXCEPT ![LoadingLine.key] = LoadingLine.does]]
          /\ UNCHANGED ended
       \/ /\ loading.line > 0 /\ ~WellFormed(LoadingLine)
          /\ ended' = "fatal_error"
          /\ UNCHANGED commands
    /\ loading' = NextPoint
    /\ UNCHANGED <<file, loaded, threw, input, switches, is_locked, windows>>

\* to_key throws AbnormalExit out of the handler, with the index partly filled.
\* The caller, MirAL, may end the compositor, go on with the next attribute or
\* give the reload up.
to_key_throws ==
    /\ Running /\ loading # None
    /\ loading.line > 0 /\ WellFormed(LoadingLine) /\ LoadingLine.key = None
    /\ threw' = TRUE
    /\ \/ /\ ended' = "exception"
          /\ UNCHANGED loading
       \/ /\ loading' \in {NextAttribute, None}
          /\ UNCHANGED ended
    /\ UNCHANGED <<commands, file, loaded, input, switches, is_locked, windows>>
-----------------------------------------------------------------------------
\* The session lock.

Lock ==
    /\ Running
    /\ is_locked' = ~is_locked
    /\ UNCHANGED <<input, switches, settings, windows, ended>>
-----------------------------------------------------------------------------
\* The input thread.

\* The filter of main lets everything pass while the session is locked.
KeyEvent(action, key, mods) ==
    /\ Running /\ event = None /\ lookup = None
    /\ held' = mods
    /\ event' = IF is_locked THEN None ELSE [action |-> action, key |-> key, mods |-> mods]
    /\ missed' = (missed \/ (is_locked /\ is_running /\ "alt" \notin mods))
    /\ UNCHANGED <<lookup, switches, is_locked, settings, windows, ended>>

PressModifier(m) == m \notin held /\ KeyEvent("down", m, held \cup {m})
ReleaseModifier(m) == m \in held /\ KeyEvent("up", m, held \ {m})
Press(k) == KeyEvent("down", k, held)
Release(k) == KeyEvent("up", k, held)

Down == event.action = "down"
Switches == "alt" \in event.mods /\ Down /\ event.key \in SwitchKey
Cancels == is_running /\ Down /\ event.key = Escape

Confirms_mutant ==                              \* waits for the switch key
    is_running /\ event.action = "up" /\ event.key \in SwitchKey /\ "alt" \notin event.mods

Confirms == is_running /\ event.action = "up" /\ "alt" \notin event.mods

\* AppSwitcher::process_event, when it consumes the event.
SwitcherTakes ==
    /\ Running /\ event # None
    /\ shell_commands_active
    /\ Cancels \/ Switches \/ Confirms
    /\ is_running' = (~Cancels /\ Switches)
    /\ event' = None
    /\ missed' = FALSE
    /\ UNCHANGED <<shell_commands_active, held, lookup, is_locked, settings, windows, ended>>

SwitcherPasses == ~(shell_commands_active /\ (Cancels \/ Switches \/ Confirms))
Toggles == {"ctrl", "alt"} \subseteq event.mods /\ Down /\ event.key = Delete
ChordOf(mods) ==
    IF {"ctrl", "alt"} \subseteq mods THEN "ctrl_alt"
    ELSE IF "meta" \in mods THEN "meta"
    ELSE IF "alt" \in mods THEN "alt"
    ELSE IF mods = {} THEN "plain" ELSE None

\* ShellCommands::keyboard_shortcuts.
keyboard_shortcuts ==
    /\ Running /\ event # None
    /\ SwitcherPasses
    /\ event' = None
    /\ shell_commands_active' = IF Toggles THEN ~shell_commands_active ELSE shell_commands_active
    /\ lookup' =
        IF ~Toggles /\ shell_commands_active /\ Down /\ event.key \in Key /\ ChordOf(event.mods) # None
        THEN [rights |-> "shell", chord |-> ChordOf(event.mods), key |-> event.key,
              shift |-> "shift" \in event.mods]
        ELSE None
    /\ missed' = (missed \/ (is_running /\ ~shell_commands_active /\ "alt" \notin event.mods))
    /\ UNCHANGED <<held, is_running, is_locked, settings, windows, ended>>

exit(shift) == IF app_windows = 0 \/ shift THEN "exit" ELSE ended

Searched == <<lookup.rights, lookup.chord>>

\* CommandIndex::try_command_for, first in the shell's index, then in the other.
try_command_for ==
    /\ Running /\ lookup # None
    /\ LET command == commands[Searched][lookup.key] IN
        \/ /\ command # None
           /\ ended' = IF command = "exit" THEN exit(lookup.shift) ELSE ended
           /\ lookup' = None
        \/ /\ command = None
           /\ lookup' = IF lookup.rights = "shell" THEN [lookup EXCEPT !.rights = "app"] ELSE None
           /\ UNCHANGED ended
    /\ UNCHANGED <<held, event, missed, switches, is_locked, settings, windows>>
-----------------------------------------------------------------------------
\* What a compositor started with these settings has in an index: the last line
\* for the key that asks for something known.
InForce(lines, k) ==
    LET mine == {i \in 1 .. Len(lines) : lines[i].key = k /\ lines[i].does # None}
    IN  IF mine = {} THEN None
        ELSE lines[CHOOSE i \in mine : \A j \in mine : j <= i].does

\* The settings have been read once.  A line that is not well formed ends main;
\* a start with an unknown key is left out.
Init ==
    /\ held = {} /\ event = None /\ lookup = None /\ missed = FALSE
    /\ is_locked = FALSE /\ shell_commands_active = TRUE /\ is_running = FALSE
    /\ file \in Setting /\ loaded = file /\ loading = None /\ threw = FALSE
    /\ \A ix \in Index : \A i \in 1 .. Len(file[ix]) :
          WellFormed(file[ix][i]) /\ file[ix][i].key # None
    /\ commands = [ix \in Index |-> [k \in Key |-> InForce(file[ix], k)]]
    /\ layer = [w \in Window |-> None] /\ app_windows = 0
    /\ ended = "no"

Next ==
    \/ \E w \in Window :
        advise_new_window(w) \/ toggle_always_on_top(w) \/ advise_delete_window(w)
    \/ Edit \/ Reload \/ ReloadStep \/ to_key_throws
    \/ Lock
    \/ \E m \in Modifier : PressModifier(m) \/ ReleaseModifier(m)
    \/ \E k \in Key : Press(k) \/ Release(k)
    \/ SwitcherTakes \/ keyboard_shortcuts \/ try_command_for

Spec == Init /\ [][Next]_vars
-----------------------------------------------------------------------------
TypeOK ==
    /\ held \subseteq Modifier
    /\ event \in Event \cup {None}
    /\ lookup \in Search \cup {None}
    /\ {is_locked, shell_commands_active, is_running, missed, threw} \subseteq BOOLEAN
    /\ commands \in [Index -> [Key -> Command \cup {None}]]
    /\ file \in Setting /\ loaded \in Setting /\ loading \in ReloadPoint \cup {None}
    /\ layer \in [Window -> Layer \cup {None}]
    /\ app_windows \in 0 .. Cardinality(Window)
    /\ ended \in {"no", "exit", "fatal_error", "exception"}

\* The count that decides about exit is the number of application windows
\* open, although a window may change its layer between the hook that counts
\* it and the one that discounts it.
Counted == app_windows = Cardinality(Applications)

\* exit without Shift never ends a session in which an application window is
\* open, whatever was opened, raised above or closed since the key was pressed.
ExitKeepsWork ==
    [][(Running /\ ended' = "exit") => (Applications = {} \/ lookup.shift)]_vars

\* A live reload gives what a restart would: once one is over that has met no
\* unknown key, every index has exactly the commands of the settings last read,
\* none of an earlier file and none that a reload which threw has left in a
\* partly filled index, and the last line for a key wins.
ReloadIsRestart ==
    (Running /\ loading = None /\ ~threw) =>
        \A ix \in Index : \A k \in Key : commands[ix][k] = InForce(loaded[ix], k)

\* The application switcher is not left on the screen with Alt released, unless
\* the session was locked, or the shortcuts off, when Alt went up.
NotLeftOpen ==
    (is_running /\ "alt" \notin held /\ event = None) => missed
=============================================================================
