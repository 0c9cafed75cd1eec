------------------------------ MODULE Docking ------------------------------
(***************************************************************************)
(* The part of miriway::WindowManagerPolicy (miriway_policy.cpp) that      *)
(* places windows: docking to an edge, moving to the next output, and the  *)
(* docking that ends a drag.  Mir calls all of it under one lock, so each  *)
(* operation is one action.                                                *)
(*                                                                         *)
(* Geometry is horizontal: outputs stand in a row, an output and its       *)
(* application zone have the same left and width, and what the vertical    *)
(* dimension adds to a test is an input.  Mir's window manager is          *)
(* external: which zone is active, where it puts a window of a given       *)
(* state, what it makes of a pointer event.                                *)
(*                                                                         *)
(* A definition whose name ends in _mutant is a wrong version of the next  *)
(* one: no action uses it, and the properties are shown to reject it.      *)
(***************************************************************************)
EXTENDS Integers, Rows

CONSTANTS
    Output,         \* outputs, each with the identity of its zone
    Extents,        \* where an output may be: [left, width] records
    Window,
    Dockable,       \* normal and freestyle windows of the application layer
    NoWindow,
    Lefts, Widths   \* where users drag windows to, the sizes clients commit

ASSUME ExtentsAssumption == \A e \in Extents : e.left \in Int /\ e.width \in Nat
\* A half, a third and two thirds of every zone differ.
ASSUME WidthAssumption == \A e \in Extents : e.width >= 5
ASSUME WindowAssumption == Dockable \subseteq Window /\ NoWindow \notin Window
\* Mir makes no window empty.
ASSUME PlaceAssumption == Lefts \subseteq Int /\ Widths \subseteq Nat \ {0}

VARIABLES
    zones,              \* external: the zone of each output that is plugged in
    application_zones,
    win,                \* external: the WindowInfo of each window
    active,             \* external: tools.active_window()
    moving_window,
    window_moved,
    presses             \* history: the widths of the docks in a row to one edge

display == <<zones, application_zones>>
drag == <<moving_window, window_moved>>
vars == <<display, win, active, drag, presses>>

Edge == {"left", "right"}
Zone == [id : Output, left : Int, width : Nat]
Info == [left : Int, width : Nat, state : {"restored", "maximized", "attached"}, edge : Edge]
-----------------------------------------------------------------------------
\* external: Mir.

MaxOf(a, b) == IF a > b THEN a ELSE b
MinOf(a, b) == IF a < b THEN a ELSE b
Overlap(w, z) ==
    MaxOf(0, MinOf(w.left + w.width, z.left + z.width) - MaxOf(w.left, z.left))

\* active_application_zone: the zone that shows most of the active window.
ActiveZones == {z \in zones : \A y \in zones : Overlap(win[active], z) >= Overlap(win[active], y)}

\* place_and_size_for_state.
Placed(w, z) ==
    CASE w.state = "restored"  -> w
      [] w.state = "maximized" -> [w EXCEPT !.left = z.left, !.width = z.width]
      [] w.state = "attached"  -> [w EXCEPT !.left =
             IF w.edge = "left" THEN z.left ELSE z.left + z.width - w.width]

Modify(w, z) == win' = [win EXCEPT ![active] = Placed(w, z)]
-----------------------------------------------------------------------------
\* Docking.

third_mutant(width, half, z) == width <= half                    \* for ==
third(width, half, z) == width = half

\* The next of the three widths.
NextWidth(w, e, z) ==
    LET half == z.width \div 2 IN
    IF w.state # "attached" \/ w.edge # e THEN half
    ELSE IF third(w.width, half, z) THEN z.width \div 3
    ELSE IF w.width < half THEN (2 * z.width) \div 3
    ELSE half

dock_active_window_under_lock_mutant(e) ==                       \* any window
    IF active # NoWindow
    THEN \E z \in ActiveZones :
            LET w == win[active] IN
            Modify([w EXCEPT !.state = "attached", !.edge = e, !.width = NextWidth(w, e, z)], z)
    ELSE UNCHANGED win

\* With no active window, or one that is not eligible_to_dock, nothing changes.
dock_active_window_under_lock(e) ==
    IF active \in Dockable
    THEN \E z \in ActiveZones :
            LET w == win[active] IN
            Modify([w EXCEPT !.state = "attached", !.edge = e, !.width = NextWidth(w, e, z)], z)
    ELSE UNCHANGED win

\* The history restarts with each edge, and with whatever else happens.
Pressed(e) ==
    IF active \notin Dockable THEN <<>>
    ELSE IF presses # <<>> /\ win[active].edge = e /\ Len(presses) < 3
    THEN Append(presses, win'[active].width)
    ELSE <<win'[active].width>>

\* dock_active_window_left and _right, without shift.
dock_active_window(e) ==
    /\ dock_active_window_under_lock(e)
    /\ presses' = Pressed(e)
    /\ UNCHANGED <<display, active, drag>>
-----------------------------------------------------------------------------
\* Moving to the next output.

\* std::find, then one step with wrap-around.
TargetZone(z, e) ==
    LET n  == Len(application_zones)
        at == Position(application_zones, z)
    IN  IF e = "right" THEN application_zones[IF at = n THEN 1 ELSE at + 1]
        ELSE application_zones[IF at = 1 THEN n ELSE at - 1]

Offset_mutant(w, z, target) == w.left - z.left                   \* not clamped
Offset(w, z, target) ==
    LET dx == w.left - z.left IN
    IF dx < 0 \/ dx > target.width THEN 0 ELSE dx

move_active_window_to_next_output(e) ==
    /\ Len(application_zones) >= 2 /\ active # NoWindow
    /\ \E z \in ActiveZones :
          LET w == win[active]
              target == TargetZone(z, e)
          IN  Modify([w EXCEPT !.left = target.left + Offset(w, z, target)], target)
    /\ presses' = <<>>
    /\ UNCHANGED <<display, active, drag>>
-----------------------------------------------------------------------------
\* Zones.

Apart(e, others) ==
    \A z \in others : e.left + e.width <= z.left \/ z.left + z.width <= e.left
ZoneOf(o, e) == [id |-> o, left |-> e.left, width |-> e.width]

advise_application_zone_create(o, e) ==
    /\ \A z \in zones : z.id # o
    /\ Apart(e, zones)
    /\ zones' = zones \cup {ZoneOf(o, e)}
    /\ application_zones' = Append(application_zones, ZoneOf(o, e))
    /\ presses' = <<>>
    /\ UNCHANGED <<win, active, drag>>

Updated_mutant(row, z) == Append(row, z)                         \* not replaced
Updated(row, z) == [i \in 1..Len(row) |-> IF row[i].id = z.id THEN z ELSE row[i]]

advise_application_zone_update(o, e) ==
    /\ \E z \in zones :
          /\ z.id = o
          /\ Apart(e, zones \ {z})
          /\ zones' = (zones \ {z}) \cup {ZoneOf(o, e)}
    /\ application_zones' = Updated(application_zones, ZoneOf(o, e))
    /\ presses' = <<>>
    /\ UNCHANGED <<win, active, drag>>

\* external: one output stays.
advise_application_zone_delete(o) ==
    /\ \E z \in zones : z.id = o /\ zones' = zones \ {z} /\ zones' # {}
    /\ LET keep == {i \in 1..Len(application_zones) : application_zones[i].id # o}
       IN  application_zones' = Selected(application_zones, keep)
    /\ presses' = <<>>
    /\ UNCHANGED <<win, active, drag>>
-----------------------------------------------------------------------------
\* Dragging.

\* external: any window of a client may be the one, active or not.
handle_request_move ==
    /\ moving_window' = TRUE /\ window_moved' = FALSE
    /\ UNCHANGED <<display, win, active, presses>>

\* The base policy consumes the event, and may move the active window.
PointerConsumed ==
    /\ window_moved' = (window_moved \/ moving_window)
    /\ \/ UNCHANGED <<win, presses>>
       \/ /\ active # NoWindow
          /\ \E x \in Lefts :
                win' = [win EXCEPT ![active] = [@ EXCEPT !.left = x, !.state = "restored"]]
          /\ presses' = <<>>
    /\ UNCHANGED <<display, active, moving_window>>

\* The margins the cursor is in; above: part of the window is beyond the top.
Dropped(cursor, above, z) ==
    LET w == win[active]
        beside == Overlap(w, z) < w.width
    IN  IF above /\ "top" \in cursor
        THEN Modify([w EXCEPT !.state = "maximized"], z)
        ELSE IF beside /\ "left" \in cursor /\ w.left <= z.left
        THEN dock_active_window_under_lock("left")
        ELSE IF beside /\ "right" \in cursor
        THEN dock_active_window_under_lock("right")
        ELSE UNCHANGED win

\* The base policy does not consume it: a drag, if there was one, has ended.
PointerPassed(cursor, above) ==
    /\ moving_window' = FALSE
    /\ IF moving_window /\ window_moved /\ active # NoWindow
       THEN /\ \E z \in ActiveZones : Dropped(cursor, above, z)
            /\ presses' = <<>>
       ELSE UNCHANGED <<win, presses>>
    /\ UNCHANGED <<display, active, window_moved>>

\* external: the size is unknown to the policy, restore_rect is Mir's.
toggle_maximized_restored ==
    /\ active \in Dockable
    /\ \E z \in ActiveZones, x \in Lefts, n \in Widths :
          LET w == win[active] IN
          IF w.state = "restored" THEN Modify([w EXCEPT !.state = "maximized"], z)
          ELSE Modify([w EXCEPT !.state = "restored", !.left = x, !.width = n], z)
    /\ presses' = <<>>
    /\ UNCHANGED <<display, active, drag>>

\* external: a client commits a buffer of a size of its own.
ClientCommits(v) ==
    /\ \E n \in Widths : win' = [win EXCEPT ![v] = [@ EXCEPT !.width = n]]
    /\ presses' = <<>>
    /\ UNCHANGED <<display, active, drag>>

FocusMoves ==
    /\ active' \in Window \cup {NoWindow}
    /\ presses' = <<>>
    /\ UNCHANGED <<display, win, drag>>
-----------------------------------------------------------------------------
Init ==
    /\ \E o \in Output, e \in Extents :
          zones = {ZoneOf(o, e)} /\ application_zones = <<ZoneOf(o, e)>>
    /\ win \in [Window -> [left : Lefts, width : Widths, state : {"restored"}, edge : {"left"}]]
    /\ active = NoWindow
    /\ moving_window = FALSE /\ window_moved = FALSE
    /\ presses = <<>>

ZoneChange ==
    \E o \in Output :
        \/ \E e \in Extents :
              advise_application_zone_create(o, e) \/ advise_application_zone_update(o, e)
        \/ advise_application_zone_delete(o)

Cursor == {c \in SUBSET {"top", "left", "right"} : ~{"left", "right"} \subseteq c}

Next ==
    \/ \E e \in Edge : dock_active_window(e) \/ move_active_window_to_next_output(e)
    \/ ZoneChange
    \/ handle_request_move \/ PointerConsumed
    \/ \E cursor \in Cursor, above \in BOOLEAN : PointerPassed(cursor, above)
    \/ toggle_maximized_restored \/ FocusMoves
    \/ \E v \in Window : ClientCommits(v)

Spec == Init /\ [][Next]_vars
-----------------------------------------------------------------------------
\* Only windows that are eligible_to_dock are ever attached to an edge, by a
\* shortcut or at the end of a drag (lines 375-384).
TypeOK ==
    /\ zones \subseteq Zone
    /\ application_zones \in Seq(Zone)
    /\ win \in [Window -> Info]
    /\ \A v \in Window : win[v].state = "attached" => v \in Dockable
    /\ active \in Window \cup {NoWindow}
    /\ {moving_window, window_moved} \subseteq BOOLEAN
    /\ presses \in Seq(Nat)

\* The policy's own list of zones has each of Mir's zones as it is now, once:
\* std::find for the active zone never reaches end(), which lines 190 and 194
\* would dereference or step over.
ZonesMirrored ==
    /\ ToSet(application_zones) = zones
    /\ \A i, j \in DOMAIN application_zones :
          application_zones[i].id = application_zones[j].id => i = j

\* Whatever width a window comes with, and whatever was done to it, outputs or
\* sizes in between, three docks in a row to one edge go through a half, a
\* third and two thirds of the zone.
DockCycle ==
    Len(presses) = 3 =>
        \E z \in zones :
            ToSet(presses) = {z.width \div 2, z.width \div 3, (2 * z.width) \div 3}

\* Where a window is within the edges of a zone.
Within(w, z) == z.left <= w.left /\ w.left + w.width <= z.left + z.width

\* Moved to the next output, the active window is shown there, and nowhere else
\* unless it reaches beyond that output's edges: then its offset, which line 200
\* bounds without its width, may leave most of it where it was.  An offset of
\* exactly the target's width leaves it just beyond.
MovesOn ==
    [][\A e \in Edge :
          move_active_window_to_next_output(e) =>
              \E z \in ActiveZones :
                  LET target == TargetZone(z, e)
                      w      == win'[active]
                  IN  \/ w.left = target.left + target.width
                      \/ /\ Overlap(w, target) > 0
                         /\ Within(w, target) => ActiveZones' = {target}]_vars

\* The invariant of the proofs.

\* Zones do not overlap, and each is wide enough for three widths to differ.
ZonesApart ==
    /\ \A z \in zones : z.width >= 5
    /\ \A y, z \in zones :
          y # z => y.left + y.width <= z.left \/ z.left + z.width <= y.left

NoneEmpty == \A v \in Window : win[v].width > 0

\* The three widths of a zone, and the one after each.
ThreeWidths(z) == {z.width \div 2, z.width \div 3, (2 * z.width) \div 3}
After(n, z) ==
    IF n = z.width \div 2 THEN z.width \div 3
    ELSE IF n < z.width \div 2 THEN (2 * z.width) \div 3
    ELSE z.width \div 2

\* While docks follow each other the window stays where the last one put it.
PressesFollow ==
    presses # <<>> =>
        /\ active \in Dockable /\ win[active].state = "attached" /\ Len(presses) <= 3
        /\ \E z \in zones :
              /\ win[active].left = IF win[active].edge = "left" THEN z.left
                                    ELSE z.left + z.width - win[active].width
              /\ win[active].width = presses[Len(presses)]
              /\ \A i \in 1..Len(presses) : presses[i] \in ThreeWidths(z)
              /\ \A i \in 1..(Len(presses) - 1) : presses[i + 1] = After(presses[i], z)

IInv == TypeOK /\ ZonesMirrored /\ ZonesApart /\ NoneEmpty /\ PressesFollow
=============================================================================
