----------------------------- MODULE Workspaces -----------------------------
(***************************************************************************)
(* miriway::WorkspaceManager (miriway_workspace_manager.cpp) together with *)
(* the window hooks of WorkspaceWMStrategy and of WindowManagerPolicy that *)
(* touch its state.  Every public operation runs inside invoke_under_lock, *)
(* and every hook is called by Mir under the same lock, so each of them is *)
(* one action.                                                             *)
(*                                                                         *)
(* Mir's own window manager (miral::WindowManagerTools) is outside src/.   *)
(* What this code relies on it for is modelled as external: window trees,  *)
(* the workspaces a window is in, the active window, and where focus goes  *)
(* when the active window disappears from view.                            *)
(*                                                                         *)
(* A definition whose name ends in _mutant is a wrong version of the next  *)
(* one: no action uses it, and the properties are shown to reject it.      *)
(***************************************************************************)
EXTENDS Rows, FiniteSets

CONSTANTS
    Workspace,          \* the pool of miral::Workspace objects (bounds their number)
    Window,             \* the pool of miral::Window identities
    NoWorkspace,        \* workspaces.end()
    NoWindow,           \* Window{}
    WState,             \* the MirWindowState values
    Asked,              \* those clients ask for (bounds an instance)
    Opened,             \* the depth layers windows are opened in (bounds an instance)
    StaleActivation     \* may the activator be called for a workspace already erased?

Layer == {"application", "always_on_top", "shell"}

ASSUME NoneAssumption == NoWorkspace \notin Workspace /\ NoWindow \notin Window
ASSUME StateAssumption ==
    {"hidden", "restored", "maximized"} \subseteq WState /\ Asked \subseteq WState
ASSUME LayerAssumption == Opened \subseteq Layer
ASSUME StaleAssumption == StaleActivation \in BOOLEAN

VARIABLES
    workspaces,         \* the list of workspaces
    active,             \* the element active_workspace_ points at
    remembered,         \* workspace_to_active
    live,               \* external: the windows Mir knows
    parent,             \* external: WindowInfo::parent()
    layer,              \* external: WindowInfo::depth_layer()
    member,             \* external: the workspaces each window has been added to
    info,               \* WorkspaceInfo of each window, and its WindowInfo::state()
    focus               \* external: tools_.active_window()

tools == <<live, parent, layer>>
vars == <<workspaces, active, remembered, tools, member, info, focus>>

Info == [in_hidden_workspace : BOOLEAN, old_state : WState \cup {"unknown"}, state : WState]

\* make_workspace_info, and the state Mir gives a new window.
make_workspace_info(st) ==
    [in_hidden_workspace |-> FALSE, old_state |-> "unknown", state |-> st]
-----------------------------------------------------------------------------
\* Helpers.

is_application(l) == l \in {"application", "always_on_top"}

App(w) == w \in live /\ is_application(layer[w])

\* external: the windows that move between workspaces together.
Root(w) == IF parent[w] = NoWindow THEN w ELSE parent[w]
Tree_mutant(w) == {w} \ {NoWindow}                                 \* the window alone
Tree(w) == IF w = NoWindow THEN {} ELSE {v \in live : Root(v) = Root(w)}

\* external: add_tree_to_workspace and remove_tree_from_workspace.
AddTree(m, w, ws) == [v \in Window |-> IF v \in Tree(w) THEN m[v] \cup {ws} ELSE m[v]]
RemoveTree(m, w, ws) == [v \in Window |-> IF v \in Tree(w) THEN m[v] \ {ws} ELSE m[v]]

MoveTree_mutant(m, w, from, to) == AddTree(m, w, to)               \* not removed

\* What remove_tree then add_tree leave, and the windows advise_adding hears of.
MoveTree(m, w, from, to) == AddTree(RemoveTree(m, w, from), w, to)
Added(m, w, ws) == {v \in Tree(w) : ws \notin m[v]}

apply_workspace_hidden_to(i) ==
    IF i.in_hidden_workspace THEN i
    ELSE [in_hidden_workspace |-> TRUE, old_state |-> i.state, state |-> "hidden"]

apply_workspace_visible_to_mutant1(i) ==                           \* no guard
    [i EXCEPT !.in_hidden_workspace = FALSE, !.state = i.old_state]
apply_workspace_visible_to_mutant2(i) ==                           \* old_state forgotten
    IF i.in_hidden_workspace
    THEN [i EXCEPT !.in_hidden_workspace = FALSE, !.state = "restored"] ELSE i

apply_workspace_visible_to(i) ==
    IF i.in_hidden_workspace
    THEN [i EXCEPT !.in_hidden_workspace = FALSE, !.state = i.old_state]
    ELSE i

HideAll(i, ws) ==
    [w \in Window |-> IF w \in ws THEN apply_workspace_hidden_to(i[w]) ELSE i[w]]
ShowAll(i, ws) ==
    [w \in Window |-> IF w \in ws THEN apply_workspace_visible_to(i[w]) ELSE i[w]]

AppsIn(m, ws) == {w \in Window : App(w) /\ ws \in m[w]}

\* The test of erase_if_empty.
Empty_mutant(m, ws) ==                                             \* one layer forgotten
    \A w \in AppsIn(m, ws) : layer[w] # "application"
Empty(m, ws) == AppsIn(m, ws) = {}

Seen(i) == {w \in live : i[w].state \notin {"hidden", "minimized"}}

\* external: the active window w went out of view in i; another one or none follows.
FocusShift(i, w) == (Seen(i) \ {w}) \cup {NoWindow}
KeepOrShift(i) ==
    IF focus \in Seen(i) \cup {NoWindow} THEN {focus} ELSE FocusShift(i, focus)

ShellFocused == focus # NoWindow /\ ~is_application(layer[focus])

\* "If there's no active window, the first shown grabs focus: get the right one"
RightOne(new) == IF focus = NoWindow \/ ShellFocused THEN remembered[new] ELSE NoWindow

(* The values change_active_workspace leaves, old # new.  Showing comes first,
   then hiding, the active window last of all; focus is the set of windows
   that may be active at the end.                                           *)
change_active_workspace(new, old, window) ==
    LET first  == RightOne(new)
        early  == ShowAll(info, {w \in {first} \cap live : new \in member[w]})
        moved  == MoveTree(member, window, old, new)
        shown  == ShowAll(early, AppsIn(moved, new)
                                   \cup Added(RemoveTree(member, window, old), window, new))
        last   == {focus} \cap AppsIn(moved, old)
        others == HideAll(shown, AppsIn(moved, old) \ last)
        final  == HideAll(others, last)
        grabs  == IF Seen(early) \ Seen(info) # {} THEN {first} ELSE Seen(shown) \ Seen(info)
    IN  [member     |-> moved,
         info       |-> final,
         remembered |-> IF last = {} THEN remembered ELSE [remembered EXCEPT ![old] = focus],
         focus      |->
            IF focus = NoWindow THEN IF grabs = {} THEN {NoWindow} ELSE grabs
            ELSE IF last # {} THEN FocusShift(others, focus)
            ELSE IF ~ShellFocused \/ first = NoWindow THEN KeepOrShift(final)
            ELSE IF first \in Seen(final) THEN {first}
            ELSE FocusShift(final, NoWindow) \cup {focus}]

\* change_active_workspace, then erase_if_empty on the workspace left behind.
\* external: a destroyed workspace forgets the windows (of the shell) it held.
Leave(row, new, window) ==
    LET c     == change_active_workspace(new, active, window)
        empty == Empty(c.member, active)
    IN  /\ workspaces' = IF empty THEN Erase(row, active) ELSE row
        /\ remembered' = IF empty THEN [c.remembered EXCEPT ![active] = NoWindow]
                                  ELSE c.remembered
        /\ member' = IF empty THEN [w \in Window |-> c.member[w] \ {active}]
                              ELSE c.member
        /\ info' = c.info
        /\ focus' \in c.focus
        /\ UNCHANGED tools

GoTo(ws, window) ==
    /\ active' = ws
    /\ Leave(workspaces, ws, window)

GoToNew_mutant(window) ==                                          \* added in front
    \E ws \in Workspace \ Listed(workspaces) :
        /\ active' = ws
        /\ Leave(<<ws>> \o workspaces, ws, window)

\* append_new_workspace, with the rest of the operation that calls it.
GoToNew(window) ==
    \E ws \in Workspace \ Listed(workspaces) :
        /\ active' = ws
        /\ Leave(Append(workspaces, ws), ws, window)

Taken(take_active) == IF take_active THEN focus ELSE NoWindow
-----------------------------------------------------------------------------
\* The shell's commands.

workspace_begin_mutant(take_active) ==                             \* no guard
    GoTo(Head(workspaces), Taken(take_active))
workspace_begin(take_active) ==
    /\ active # Head(workspaces)
    /\ GoTo(Head(workspaces), Taken(take_active))

workspace_end(take_active) == GoToNew(Taken(take_active))

workspace_up(take_active) ==
    /\ active # Head(workspaces)
    /\ GoTo(workspaces[Position(workspaces, active) - 1], Taken(take_active))

workspace_down(take_active) ==
    IF active = workspaces[Len(workspaces)]
    THEN GoToNew(Taken(take_active))
    ELSE GoTo(workspaces[Position(workspaces, active) + 1], Taken(take_active))

\* The callback given to set_workspace_activator_callback.  For a workspace no
\* longer listed std::find leaves active_workspace_ at end().
ActivateRequest(ws) ==
    /\ ws # active
    /\ ws \in Listed(workspaces) \/ StaleActivation
    /\ active' = IF ws \in Listed(workspaces) THEN ws ELSE NoWorkspace
    /\ Leave(workspaces, ws, NoWindow)

\* The active window's depth layer is toggled; its whole tree leaves or joins
\* the active workspace.
toggle_always_on_top ==
    /\ App(focus)
    /\ IF layer[focus] = "application"
       THEN /\ layer' = [layer EXCEPT ![focus] = "always_on_top"]
            /\ member' = RemoveTree(member, focus, active)
            /\ UNCHANGED info
       ELSE /\ layer' = [layer EXCEPT ![focus] = "application"]
            /\ member' = AddTree(member, focus, active)
            /\ info' = ShowAll(info, Added(member, focus, active))
    /\ UNCHANGED <<workspaces, active, remembered, live, parent, focus>>

toggle_maximized_restored ==
    /\ App(focus)
    /\ layer[focus] = "application"
    /\ info' = [info EXCEPT ![focus].state =
                    IF @ = "restored" THEN "maximized" ELSE "restored"]
    /\ UNCHANGED <<workspaces, active, remembered, tools, member, focus>>
-----------------------------------------------------------------------------
\* What Mir calls on behalf of clients and of the user.

NewInfo_mutant(p, st) == make_workspace_info(st)                   \* parent not looked at
NewInfo(p, st) ==
    IF p # NoWindow /\ info[p].in_hidden_workspace
    THEN apply_workspace_hidden_to(make_workspace_info(st))
    ELSE make_workspace_info(st)

\* A client opens a window, a toplevel or the child of one.
\* external: a child is put in its parent's workspaces; an identity is not
\* used again while workspace_to_active still refers to it.
advise_new_window(w, p, l, st) ==
    /\ w \in Window \ live
    /\ \A ws \in Workspace : remembered[ws] # w
    /\ p # NoWindow => /\ p \in live /\ parent[p] = NoWindow
                       /\ is_application(l) <=> is_application(layer[p])
    /\ live' = live \cup {w}
    /\ parent' = [parent EXCEPT ![w] = p]
    /\ layer' = [layer EXCEPT ![w] = l]
    /\ member' = [member EXCEPT ![w] = IF p = NoWindow THEN {active} ELSE member[p]]
    /\ info' = [info EXCEPT ![w] = NewInfo(p, st)]
    /\ UNCHANGED <<workspaces, active, remembered, focus>>

\* advise_delete_window changes nothing of the WorkspaceManager's; Mir forgets
\* the window, and its children become toplevels.
advise_delete_window(w) ==
    /\ w \in live
    /\ live' = live \ {w}
    /\ parent' = [v \in Window |-> IF v = w \/ parent[v] = w THEN NoWindow ELSE parent[v]]
    /\ layer' = [layer EXCEPT ![w] = "application"]
    /\ member' = [member EXCEPT ![w] = {}]
    /\ info' = [info EXCEPT ![w] = make_workspace_info("restored")]
    /\ focus' \in IF focus = w THEN FocusShift(info, w) ELSE {focus}
    /\ UNCHANGED <<workspaces, active, remembered>>

Modified_mutant(i, st) == [i EXCEPT !.state = st]                  \* nothing dropped
Modified(i, st) == IF i.in_hidden_workspace THEN i ELSE [i EXCEPT !.state = st]

\* A client asks for another state; dropped in a hidden workspace.
handle_modify_window(w, st) ==
    /\ w \in live
    /\ info' = [info EXCEPT ![w] = Modified(@, st)]
    /\ focus' \in KeepOrShift(info')
    /\ UNCHANGED <<workspaces, active, remembered, tools, member>>

\* activate_workspace_containing for a hidden window (which has one workspace,
\* see OneHome), then the base policy gives it the focus.  No erase_if_empty.
handle_raise_window(w) ==
    /\ w \in live
    /\ IF info[w].in_hidden_workspace
       THEN \E ws \in member[w] \ {active} :
               LET c == change_active_workspace(ws, active, NoWindow)
               IN  /\ active' = ws
                   /\ remembered' = c.remembered
                   /\ member' = c.member
                   /\ info' = c.info
                   /\ focus' \in IF w \in Seen(c.info) THEN {w} ELSE c.focus
       ELSE /\ focus' = IF w \in Seen(info) THEN w ELSE focus
            /\ UNCHANGED <<active, remembered, member, info>>
    /\ UNCHANGED <<workspaces, tools>>

\* external: the user's pointer or keyboard moves the focus.
FocusMoves ==
    /\ focus' \in Seen(info) \cup {NoWindow}
    /\ UNCHANGED <<workspaces, active, remembered, tools, member, info>>
-----------------------------------------------------------------------------
Init ==
    /\ \E ws \in Workspace : workspaces = <<ws>> /\ active = ws
    /\ remembered = [ws \in Workspace |-> NoWindow]
    /\ live = {}
    /\ parent = [w \in Window |-> NoWindow]
    /\ layer = [w \in Window |-> "application"]
    /\ member = [w \in Window |-> {}]
    /\ info = [w \in Window |-> make_workspace_info("restored")]
    /\ focus = NoWindow

Command ==
    \/ \E take \in BOOLEAN :
          workspace_begin(take) \/ workspace_end(take) \/ workspace_up(take) \/ workspace_down(take)
    \/ toggle_always_on_top
    \/ toggle_maximized_restored

Hook ==
    \/ \E w \in Window, p \in Window \cup {NoWindow}, l \in Opened, st \in Asked :
          advise_new_window(w, p, l, st)
    \/ \E w \in Window : advise_delete_window(w) \/ handle_raise_window(w)
    \/ \E w \in Window, st \in Asked : handle_modify_window(w, st)
    \/ FocusMoves
    \/ \E ws \in Workspace : ActivateRequest(ws)

\* Every operation reads *active_workspace_: beyond end() nothing is defined.
Next == active # NoWorkspace /\ (Command \/ Hook)

Spec == Init /\ [][Next]_vars
-----------------------------------------------------------------------------
TypeOK ==
    /\ workspaces \in Seq(Workspace)
    /\ active \in Workspace \cup {NoWorkspace}
    /\ remembered \in [Workspace -> Window \cup {NoWindow}]
    /\ live \subseteq Window
    /\ parent \in [Window -> Window \cup {NoWindow}]
    /\ layer \in [Window -> Layer]
    /\ member \in [Window -> SUBSET Workspace]
    /\ info \in [Window -> Info]
    /\ focus \in Window \cup {NoWindow}

\* active_workspace_ is dereferenced by every operation: it always points at
\* an element of the list, and no workspace is listed twice (std::find and the
\* iterators kept across operations then mean the same element).
ActiveIsListed ==
    /\ NoRepeats(workspaces)
    /\ active \in Listed(workspaces)

\* A window is hidden by the WorkspaceManager exactly when it belongs to the
\* application layers and its workspace is another than the active one; that
\* workspace is still in the list, so the window can be reached again.
HiddenIffElsewhere ==
    \A w \in live :
        /\ info[w].in_hidden_workspace
              <=> App(w) /\ member[w] # {} /\ active \notin member[w]
        /\ member[w] \subseteq Listed(workspaces)

\* "Don't allow state changes in hidden workspaces": whatever clients and
\* commands ask for, a window hidden with its workspace stays out of view, and
\* has a state to come back to.
HiddenStaysHidden ==
    \A w \in live :
        info[w].in_hidden_workspace =>
            info[w].state = "hidden" /\ info[w].old_state \in WState

\* No application window is in two workspaces: activate_workspace_containing
\* would otherwise visit both, and leaving one would hide it in the other.
OneHome ==
    \A w \in live : App(w) => \A a, b \in member[w] : a = b

\* A dialog is always in the workspaces of its parent, and hidden with it.
TreeTogether ==
    \A w \in live :
        parent[w] # NoWindow =>
            /\ parent[w] \in live
            /\ member[w] = member[parent[w]]
            /\ info[w].in_hidden_workspace = info[parent[w]].in_hidden_workspace

\* Families are two deep, and no member of one is a shell window and another not.
Kinship ==
    \A w \in Window :
        parent[w] # NoWindow =>
            /\ w \in live /\ parent[w] \in live
            /\ parent[parent[w]] = NoWindow
            /\ is_application(layer[w]) <=> is_application(layer[parent[w]])

\* Nothing is left of a window that has been deleted.
Forgotten ==
    \A w \in Window \ live :
        parent[w] = NoWindow /\ member[w] = {} /\ ~info[w].in_hidden_workspace

\* The active window can be seen.
FocusSeen == focus \in Seen(info) \cup {NoWindow}

\* The inductive invariant: the properties above need one another, and that the
\* commands act on a window in view.
IInv ==
    /\ TypeOK
    /\ ActiveIsListed
    /\ HiddenIffElsewhere
    /\ HiddenStaysHidden
    /\ OneHome
    /\ TreeTogether
    /\ Kinship
    /\ Forgotten
    /\ FocusSeen

\* The state the user gave a window, hidden or not.
OwnState(i) == IF i.in_hidden_workspace THEN i.old_state ELSE i.state

\* Changing workspace, however often and by whatever route, never changes the
\* state (maximized, minimized, ...) any window will be seen in again.
SwitchKeepsState ==
    [][active' # active =>
          \A w \in live \cap live' : OwnState(info'[w]) = OwnState(info[w])]_vars

\* Changing workspace, and the erasure of an empty one that goes with it, never
\* leaves an application window without a workspace that it had.
SwitchKeepsHome ==
    [][active' # active =>
          \A w \in live \cap live' :
              App(w) /\ member[w] # {} => member'[w] # {}]_vars

\* "If focus was on a shell window, put it on an app": when a switch finds the
\* focus on a shell window, the window it hands to select_active_window is a
\* window of the workspace being activated.
ShellFocusGoesToRightOne ==
    [][active' # active /\ ShellFocused /\ active' \in Workspace =>
          \/ remembered[active'] = NoWindow
          \/ active' \in member[remembered[active']]]_vars

\* The manager keeps the promise of WorkspaceList.
WL == INSTANCE WorkspaceList
ImplementsList == WL!Spec
=============================================================================
