--------------------------- MODULE DockingProofs ---------------------------
(***************************************************************************)
(* The invariant of Docking, for any number of outputs and windows, and    *)
(* for outputs, windows and drags of any size and place, and what follows  *)
(* from it: the policy's list is Mir's set of zones, three docks to one    *)
(* edge give three widths, and a window moved on is shown where it went.   *)
(***************************************************************************)
EXTENDS Docking, RowsProofs
-----------------------------------------------------------------------------
\* Widths.

\* The three widths of a zone differ, and none is empty or wider than it.
LEMMA Thirds ==
    ASSUME NEW n \in Nat, n >= 5
    PROVE  /\ n \div 3 \in Nat /\ n \div 2 \in Nat /\ (2 * n) \div 3 \in Nat
           /\ 0 < n \div 3 /\ n \div 3 < n \div 2
           /\ n \div 2 < (2 * n) \div 3 /\ (2 * n) \div 3 <= n
  OBVIOUS

\* A dock gives one of the three widths, and to the edge where the window is
\* already the one after that it has.
LEMMA DockWidth ==
    ASSUME NEW w \in Info, NEW e \in Edge, NEW z \in Zone, z.width >= 5
    PROVE  /\ NextWidth(w, e, z) \in ThreeWidths(z)
           /\ NextWidth(w, e, z) \in 1..z.width
           /\ w.state = "attached" /\ w.edge = e =>
                  NextWidth(w, e, z) = After(w.width, z)
  <1>1. z.width \in Nat /\ w.width \in Nat
    BY DEF Zone, Info
  <1>2. NextWidth(w, e, z) =
          IF w.state # "attached" \/ w.edge # e THEN z.width \div 2
          ELSE IF w.width = z.width \div 2 THEN z.width \div 3
          ELSE IF w.width < z.width \div 2 THEN (2 * z.width) \div 3
          ELSE z.width \div 2
    BY DEF NextWidth, third
  <1>3. NextWidth(w, e, z) \in ThreeWidths(z)
    BY <1>2 DEF ThreeWidths
  <1>4. ThreeWidths(z) \subseteq 1..z.width
    BY <1>1, Thirds DEF ThreeWidths
  <1>5. w.state = "attached" /\ w.edge = e => NextWidth(w, e, z) = After(w.width, z)
    BY <1>2 DEF After
  <1> QED BY <1>3, <1>4, <1>5

\* From any of the three widths, two more docks go through the other two.
LEMMA CycleOfThree ==
    ASSUME NEW z \in Zone, z.width >= 5,
           NEW a \in ThreeWidths(z), NEW b \in ThreeWidths(z), NEW c \in ThreeWidths(z),
           b = After(a, z), c = After(b, z)
    PROVE  {a, b, c} = ThreeWidths(z)
  <1>1. z.width \in Nat
    BY DEF Zone
  <1>2. /\ z.width \div 3 \in Nat /\ z.width \div 2 \in Nat /\ (2 * z.width) \div 3 \in Nat
        /\ z.width \div 3 < z.width \div 2 /\ z.width \div 2 < (2 * z.width) \div 3
    BY <1>1, Thirds
  <1>3. CASE a = z.width \div 2
    BY <1>2, <1>3 DEF After, ThreeWidths
  <1>4. CASE a = z.width \div 3
    BY <1>2, <1>4 DEF After, ThreeWidths
  <1>5. CASE a = (2 * z.width) \div 3
    BY <1>2, <1>5 DEF After, ThreeWidths
  <1> QED BY <1>3, <1>4, <1>5 DEF ThreeWidths
-----------------------------------------------------------------------------
\* Places.

\* Where a window shares columns with a zone.
LEMMA Overlaps ==
    ASSUME NEW w \in Info, NEW z \in Zone
    PROVE  /\ Overlap(w, z) \in Nat
           /\ Overlap(w, z) <= w.width
           /\ Within(w, z) => Overlap(w, z) = w.width
           /\ w.left + w.width <= z.left \/ z.left + z.width <= w.left =>
                  Overlap(w, z) = 0
           /\ /\ w.width > 0 /\ z.width > 0
              /\ w.left < z.left + z.width /\ z.left < w.left + w.width
              => Overlap(w, z) > 0
  <1>1. w.left \in Int /\ w.width \in Nat /\ z.left \in Int /\ z.width \in Nat
    BY DEF Info, Zone
  <1> DEFINE right == MinOf(w.left + w.width, z.left + z.width)
             left  == MaxOf(w.left, z.left)
  <1>2. /\ right \in Int /\ left \in Int
        /\ right <= w.left + w.width /\ right <= z.left + z.width
        /\ right = w.left + w.width \/ right = z.left + z.width
        /\ w.left <= left /\ z.left <= left
        /\ left = w.left \/ left = z.left
    BY <1>1 DEF MaxOf, MinOf
  <1>3. Overlap(w, z) = IF 0 > right - left THEN 0 ELSE right - left
    BY DEF Overlap, MaxOf
  <1> HIDE DEF left, right
  <1> QED BY <1>1, <1>2, <1>3 DEF Within

\* Zones do not overlap: one that a window is within is where most of it is,
\* and the only one.
LEMMA OnlyZone ==
    ASSUME zones \subseteq Zone, ZonesApart, active \in Window, win[active] \in Info,
           win[active].width > 0,
           NEW z \in zones, Within(win[active], z)
    PROVE  ActiveZones = {z}
  <1> DEFINE w == win[active]
  <1>1. /\ w.left \in Int /\ w.width \in Nat /\ w.width > 0
        /\ z.left \in Int /\ z.width \in Nat
    BY DEF Info, Zone
  <1>2. Overlap(w, z) = w.width
    BY Overlaps
  <1>3. ASSUME NEW y \in zones, y # z PROVE Overlap(w, y) = 0
    <2>1. y.left \in Int /\ y.width \in Nat
      BY DEF Zone
    <2>2. y.left + y.width <= z.left \/ z.left + z.width <= y.left
      BY <1>3 DEF ZonesApart
    <2>3. w.left + w.width <= y.left \/ y.left + y.width <= w.left
      BY <1>1, <2>1, <2>2 DEF Within
    <2> QED BY <2>3, Overlaps
  <1>4. \A y \in zones : Overlap(w, y) \in Nat
    BY Overlaps
  <1>5. \A y \in zones : Overlap(w, z) >= Overlap(w, y)
    <2> TAKE y \in zones
    <2>1. CASE y = z
      BY <1>1, <1>2, <2>1
    <2>2. CASE y # z
      BY <1>1, <1>2, <1>3, <2>2
    <2> QED BY <2>1, <2>2
  <1>6. \A y \in zones : y # z => ~(Overlap(w, y) >= Overlap(w, z))
    BY <1>1, <1>2, <1>3
  <1> QED BY <1>5, <1>6 DEF ActiveZones

\* What Mir makes of a window in each of its states.
LEMMA PlacedByState ==
    ASSUME NEW w \in Info, NEW z \in Zone
    PROVE  /\ w.state = "restored" => Placed(w, z) = w
           /\ w.state = "maximized" =>
                  Placed(w, z) = [w EXCEPT !.left = z.left, !.width = z.width]
           /\ w.state = "attached" =>
                  Placed(w, z) = [w EXCEPT !.left =
                      IF w.edge = "left" THEN z.left ELSE z.left + z.width - w.width]
  <1>1. CASE w.state = "restored"
    <2>1. Placed(w, z) = w
      BY <1>1, Zenon DEF Placed
    <2> QED BY <1>1, <2>1
  <1>2. CASE w.state = "maximized"
    <2>1. Placed(w, z) = [w EXCEPT !.left = z.left, !.width = z.width]
      BY <1>2, Zenon DEF Placed
    <2> QED BY <1>2, <2>1
  <1>3. CASE w.state = "attached"
    <2>1. Placed(w, z) = [w EXCEPT !.left =
              IF w.edge = "left" THEN z.left ELSE z.left + z.width - w.width]
      BY <1>3, Zenon DEF Placed
    <2> QED BY <1>3, <2>1
  <1> QED BY <1>1, <1>2, <1>3 DEF Info

\* A window that is placed is a window of the same state.
LEMMA PlacedKeeps ==
    ASSUME NEW w \in Info, NEW z \in Zone, w.width > 0, z.width >= 5
    PROVE  /\ Placed(w, z) \in Info
           /\ Placed(w, z).state = w.state /\ Placed(w, z).edge = w.edge
           /\ Placed(w, z).width > 0
  <1>1. w.left \in Int /\ w.width \in Nat /\ z.left \in Int /\ z.width \in Nat
    BY DEF Info, Zone
  <1>2. CASE w.state = "restored"
    BY <1>2, PlacedByState
  <1>3. CASE w.state = "maximized"
    <2>1. Placed(w, z) = [w EXCEPT !.left = z.left, !.width = z.width]
      BY <1>3, PlacedByState
    <2>2. Placed(w, z) \in Info
      BY <1>1, <2>1 DEF Info
    <2>3. Placed(w, z).state = w.state /\ Placed(w, z).edge = w.edge
      BY <2>1 DEF Info
    <2>4. Placed(w, z).width = z.width
      BY <2>1 DEF Info
    <2> QED BY <1>1, <2>2, <2>3, <2>4
  <1>4. CASE w.state = "attached"
    <2>1. Placed(w, z) = [w EXCEPT !.left =
              IF w.edge = "left" THEN z.left ELSE z.left + z.width - w.width]
      BY <1>4, PlacedByState
    <2>2. (IF w.edge = "left" THEN z.left ELSE z.left + z.width - w.width) \in Int
      BY <1>1
    <2> QED BY <2>1, <2>2 DEF Info
  <1> QED BY <1>2, <1>3, <1>4 DEF Info
-----------------------------------------------------------------------------
\* Windows.

\* One window changes: it is of a type, not empty, and attached only if it may
\* be docked.
LEMMA WindowChanges ==
    ASSUME TypeOK, NoneEmpty, NEW v \in Window, NEW w \in Info, w.width > 0,
           w.state = "attached" => v \in Dockable,
           win' = [win EXCEPT ![v] = w]
    PROVE  /\ win' \in [Window -> Info]
           /\ \A u \in Window : win'[u].state = "attached" => u \in Dockable
           /\ NoneEmpty'
           /\ win'[v] = w
  BY DEF TypeOK, NoneEmpty

\* What a dock makes of an active window that may be docked.
LEMMA DockEffect ==
    ASSUME TypeOK, ZonesApart, NoneEmpty, NEW e \in Edge,
           active \in Dockable, dock_active_window_under_lock(e)
    PROVE  \E z \in ActiveZones : \E w \in Info :
              /\ win' = [win EXCEPT ![active] = w]
              /\ w.state = "attached" /\ w.edge = e
              /\ w.width = NextWidth(win[active], e, z)
              /\ w.width \in 1..z.width
              /\ w.left = IF e = "left" THEN z.left ELSE z.left + z.width - w.width
  <1> DEFINE v == win[active]
  <1>1. v \in Info
    BY WindowAssumption DEF TypeOK
  <1>2. PICK z \in ActiveZones :
            Modify([v EXCEPT !.state = "attached", !.edge = e,
                             !.width = NextWidth(v, e, z)], z)
    BY DEF dock_active_window_under_lock
  <1>3. z \in Zone /\ z.width >= 5
    BY DEF ActiveZones, TypeOK, ZonesApart
  <1> DEFINE n == NextWidth(v, e, z)
             d == [v EXCEPT !.state = "attached", !.edge = e, !.width = n]
             w == Placed(d, z)
  <1>4. n \in 1..z.width /\ z.width \in Nat /\ z.left \in Int
    BY <1>1, <1>3, DockWidth DEF Zone
  <1>5. d \in Info /\ d.state = "attached" /\ d.edge = e /\ d.width = n
    <2>1. n \in Nat
      BY <1>4
    <2> HIDE DEF n
    <2> QED BY <1>1, <2>1 DEF Info, Edge
  <1>6. win' = [win EXCEPT ![active] = w]
    BY <1>2 DEF Modify
  <1> HIDE DEF n, d, v
  <1>7. w = [d EXCEPT !.left = IF d.edge = "left" THEN z.left ELSE z.left + z.width - d.width]
    BY <1>3, <1>5, PlacedByState
  <1>8. w \in Info
    BY <1>3, <1>4, <1>5, PlacedKeeps
  <1>9. /\ w.state = "attached" /\ w.edge = e /\ w.width = n
        /\ w.left = IF e = "left" THEN z.left ELSE z.left + z.width - n
    BY <1>5, <1>7 DEF Info
  <1>10. n = NextWidth(win[active], e, z)
    BY DEF n, v
  <1> HIDE DEF w
  <1> QED BY <1>4, <1>6, <1>8, <1>9, <1>10
-----------------------------------------------------------------------------
\* Zones.

\* The part of the invariant that is about outputs.
Zones ==
    /\ zones \subseteq Zone
    /\ application_zones \in Seq(Zone)
    /\ ZonesMirrored
    /\ ZonesApart

\* No two zones are of one output.
LEMMA OneZoneEach ==
    ASSUME Zones, NEW y \in zones, NEW z \in zones, y.id = z.id
    PROVE  y = z
  <1>1. PICK i \in DOMAIN application_zones : application_zones[i] = y
    BY DEF Zones, ZonesMirrored, ToSet
  <1>2. PICK j \in DOMAIN application_zones : application_zones[j] = z
    BY DEF Zones, ZonesMirrored, ToSet
  <1> QED BY <1>1, <1>2 DEF Zones, ZonesMirrored

\* An output's zone is a zone, wide enough for three widths.
LEMMA ZoneIsZone ==
    ASSUME NEW o \in Output, NEW e \in Extents
    PROVE  /\ ZoneOf(o, e) \in Zone /\ ZoneOf(o, e).width >= 5
           /\ ZoneOf(o, e).id = o
           /\ ZoneOf(o, e).left = e.left /\ ZoneOf(o, e).width = e.width
  BY ExtentsAssumption, WidthAssumption DEF ZoneOf, Zone

\* A zone that overlaps none joins the others.
LEMMA ApartWithOne ==
    ASSUME ZonesApart, zones \subseteq Zone, NEW old \in SUBSET zones,
           NEW o \in Output, NEW e \in Extents, Apart(e, old),
           zones' = old \cup {ZoneOf(o, e)}
    PROVE  zones' \subseteq Zone /\ ZonesApart'
  <1> DEFINE new == ZoneOf(o, e)
  <1>1. /\ new \in Zone /\ new.width >= 5
        /\ new.left = e.left /\ new.width = e.width
    BY ZoneIsZone
  <1> HIDE DEF new
  <1>2. zones' = old \cup {new}
    BY DEF new
  <1>3. ASSUME NEW z \in old
        PROVE  new.left + new.width <= z.left \/ z.left + z.width <= new.left
    BY <1>1 DEF Apart
  <1>4. \A y, z \in old :
            y # z => y.left + y.width <= z.left \/ z.left + z.width <= y.left
    BY DEF ZonesApart
  <1>5. \A z \in zones' : z.width >= 5
    BY <1>1, <1>2 DEF ZonesApart
  <1>6. \A y, z \in zones' :
            y # z => y.left + y.width <= z.left \/ z.left + z.width <= y.left
    BY <1>2, <1>3, <1>4
  <1> QED BY <1>1, <1>2, <1>5, <1>6 DEF ZonesApart

\* A zone that is new is listed last.
LEMMA ZoneCreated ==
    ASSUME Zones, NEW o \in Output, NEW e \in Extents,
           advise_application_zone_create(o, e)
    PROVE  Zones'
  <1> DEFINE new == ZoneOf(o, e)
             row == application_zones
  <1>1. new \in Zone /\ new.id = o
    BY ZoneIsZone
  <1>2. zones' \subseteq Zone /\ ZonesApart'
    BY ApartWithOne DEF advise_application_zone_create, Zones
  <1>3. /\ zones' = zones \cup {new}
        /\ application_zones' = Append(row, new)
        /\ \A z \in zones : z.id # o
    BY DEF advise_application_zone_create
  <1> HIDE DEF new
  <1>4. row \in Seq(Zone)
    BY DEF Zones
  <1>5. /\ application_zones' \in Seq(Zone)
        /\ Len(application_zones') = Len(row) + 1
        /\ \A i \in 1..Len(row) : application_zones'[i] = row[i]
        /\ application_zones'[Len(row) + 1] = new
    BY <1>1, <1>3, <1>4
  <1>6. zones = {row[i] : i \in 1..Len(row)}
    BY <1>4 DEF Zones, ZonesMirrored, ToSet
  <1>7. ToSet(application_zones') = zones'
    <2>1. ToSet(application_zones') = {application_zones'[i] : i \in 1..(Len(row) + 1)}
      BY <1>5 DEF ToSet
    <2>2. \A i \in 1..(Len(row) + 1) : i \in 1..Len(row) \/ i = Len(row) + 1
      BY <1>4
    <2>3. Len(row) + 1 \in 1..(Len(row) + 1) /\ 1..Len(row) \subseteq 1..(Len(row) + 1)
      BY <1>4
    <2> HIDE DEF row
    <2> QED BY <1>3, <1>5, <1>6, <2>1, <2>2, <2>3
  <1>8. ASSUME NEW i \in 1..(Len(row) + 1), NEW j \in 1..(Len(row) + 1),
               application_zones'[i].id = application_zones'[j].id
        PROVE  i = j
    <2>1. \A k \in 1..Len(row) : application_zones'[k].id # new.id
      BY <1>1, <1>3, <1>5, <1>6
    <2>2. \A k, l \in 1..Len(row) : row[k].id = row[l].id => k = l
      BY <1>4 DEF Zones, ZonesMirrored
    <2>3. CASE i \in 1..Len(row) /\ j \in 1..Len(row)
      BY <1>5, <1>8, <2>2, <2>3
    <2>4. CASE i = Len(row) + 1 /\ j \in 1..Len(row)
      BY <1>5, <1>8, <2>1, <2>4
    <2>5. CASE j = Len(row) + 1 /\ i \in 1..Len(row)
      BY <1>5, <1>8, <2>1, <2>5
    <2>6. \A k \in 1..(Len(row) + 1) : k \in 1..Len(row) \/ k = Len(row) + 1
      BY <1>4
    <2> QED BY <2>3, <2>4, <2>5, <2>6
  <1>9. DOMAIN application_zones' = 1..(Len(row) + 1)
    BY <1>5
  <1>10. ZonesMirrored'
    BY <1>7, <1>8, <1>9 DEF ZonesMirrored
  <1> QED BY <1>2, <1>5, <1>10 DEF Zones

\* A zone that changes is replaced where it is listed.
LEMMA ZoneUpdated ==
    ASSUME Zones, NEW o \in Output, NEW e \in Extents,
           advise_application_zone_update(o, e)
    PROVE  Zones'
  <1> DEFINE new == ZoneOf(o, e)
             row == application_zones
  <1>1. new \in Zone /\ new.id = o
    BY ZoneIsZone
  <1>2. PICK old \in zones : /\ old.id = o
                             /\ Apart(e, zones \ {old})
                             /\ zones' = (zones \ {old}) \cup {new}
    BY DEF advise_application_zone_update
  <1>3. zones' \subseteq Zone /\ ZonesApart'
    <2>1. zones \ {old} \in SUBSET zones
      OBVIOUS
    <2> QED BY <1>2, <2>1, ApartWithOne DEF Zones
  <1> HIDE DEF new
  <1>4. row \in Seq(Zone) /\ DOMAIN row = 1..Len(row) /\ Len(row) \in Nat
    BY DEF Zones
  <1>5. application_zones' = [i \in 1..Len(row) |-> IF row[i].id = o THEN new ELSE row[i]]
    BY <1>1 DEF advise_application_zone_update, Updated, new
  <1>6. /\ application_zones' \in Seq(Zone)
        /\ DOMAIN application_zones' = 1..Len(row)
    BY <1>1, <1>4, <1>5
  <1>7. zones = {row[i] : i \in 1..Len(row)}
    BY <1>4 DEF Zones, ZonesMirrored, ToSet
  <1>8. \A z \in zones : z.id = o <=> z = old
    BY <1>2, OneZoneEach
  <1>9. \A i \in 1..Len(row) :
            application_zones'[i] = IF row[i] = old THEN new ELSE row[i]
    BY <1>5, <1>7, <1>8
  <1>10. ToSet(application_zones') = zones'
    <2>1. PICK p \in 1..Len(row) : row[p] = old
      BY <1>7
    <2>2. ToSet(application_zones') = {application_zones'[i] : i \in 1..Len(row)}
      BY <1>6 DEF ToSet
    <2> HIDE DEF row
    <2> QED BY <1>2, <1>7, <1>9, <2>1, <2>2
  <1>11. \A i \in 1..Len(row) : application_zones'[i].id = row[i].id
    BY <1>1, <1>2, <1>9
  <1>12. ZonesMirrored'
    BY <1>4, <1>6, <1>10, <1>11 DEF Zones, ZonesMirrored
  <1> QED BY <1>3, <1>6, <1>12 DEF Zones

\* A zone that goes leaves the others in their order.
LEMMA ZoneDeleted ==
    ASSUME Zones, NEW o \in Output, advise_application_zone_delete(o)
    PROVE  Zones'
  <1> DEFINE row  == application_zones
             keep == {i \in 1..Len(row) : row[i].id # o}
             new  == Selected(row, keep)
  <1>1. PICK old \in zones : old.id = o /\ zones' = zones \ {old}
    BY DEF advise_application_zone_delete
  <1>2. application_zones' = new
    BY DEF advise_application_zone_delete
  <1>3. row \in Seq(Zone) /\ DOMAIN row = 1..Len(row)
    BY DEF Zones
  <1>4. keep \cap (1..Len(row)) = keep
    OBVIOUS
  <1>5. new \in Seq(Zone) /\ \E f : Keeps(f, new, row, keep \cap (1..Len(row)))
    <2> HIDE DEF keep
    <2> QED BY <1>3, SelectedKeeps
  <1>6. PICK f : Keeps(f, new, row, keep)
    BY <1>4, <1>5
  <1>7. zones = {row[i] : i \in 1..Len(row)}
    BY <1>3 DEF Zones, ZonesMirrored, ToSet
  <1>8. \A z \in zones : z.id = o <=> z = old
    BY <1>1, OneZoneEach
  <1> HIDE DEF new
  <1>9. /\ \A i \in 1..Len(new) : f[i] \in keep /\ new[i] = row[f[i]]
        /\ \A i, j \in 1..Len(new) : i < j => f[i] < f[j]
        /\ \A k \in keep : \E i \in 1..Len(new) : f[i] = k
    BY <1>6 DEF Keeps
  <1>10. DOMAIN new = 1..Len(new) /\ Len(new) \in Nat
    BY <1>5
  <1>11. ToSet(new) = zones'
    <2>1. ToSet(new) = {new[i] : i \in 1..Len(new)}
      BY <1>10 DEF ToSet
    <2>2. ASSUME NEW i \in 1..Len(new) PROVE new[i] \in zones \ {old}
      BY <1>1, <1>7, <1>9
    <2>3. ASSUME NEW z \in zones \ {old} PROVE \E i \in 1..Len(new) : new[i] = z
      <3>1. PICK k \in 1..Len(row) : row[k] = z
        BY <1>7
      <3>2. k \in keep
        BY <1>8, <3>1
      <3> QED BY <1>9, <3>1, <3>2
    <2> QED BY <1>1, <2>1, <2>2, <2>3
  <1>12. ASSUME NEW i \in 1..Len(new), NEW j \in 1..Len(new), new[i].id = new[j].id
         PROVE  i = j
    <2>1. f[i] \in 1..Len(row) /\ f[j] \in 1..Len(row)
      BY <1>9
    <2>2. f[i] = f[j]
      BY <1>3, <1>9, <1>12, <2>1 DEF Zones, ZonesMirrored
    <2>3. ~(i < j) /\ ~(j < i)
      BY <1>9, <2>1, <2>2
    <2> QED BY <1>10, <2>3
  <1>13. ZonesMirrored'
    BY <1>2, <1>10, <1>11, <1>12 DEF ZonesMirrored
  <1>14. zones' \subseteq Zone /\ ZonesApart'
    BY <1>1 DEF Zones, ZonesApart
  <1> QED BY <1>2, <1>5, <1>13, <1>14 DEF Zones
-----------------------------------------------------------------------------
\* Docks in a row.

\* The window of the last dock is within that dock's zone, so it is docked to
\* the same zone again, at the width after the one it has.
LEMMA DockedAgain ==
    ASSUME IInv, presses # <<>>
    PROVE  \E y \in zones :
              /\ ActiveZones = {y}
              /\ win[active].width = presses[Len(presses)]
              /\ \A i \in 1..Len(presses) : presses[i] \in ThreeWidths(y)
              /\ \A i \in 1..(Len(presses) - 1) : presses[i + 1] = After(presses[i], y)
  <1>1. PICK y \in zones :
              /\ win[active].left = IF win[active].edge = "left" THEN y.left
                                    ELSE y.left + y.width - win[active].width
              /\ win[active].width = presses[Len(presses)]
              /\ \A i \in 1..Len(presses) : presses[i] \in ThreeWidths(y)
              /\ \A i \in 1..(Len(presses) - 1) : presses[i + 1] = After(presses[i], y)
    BY DEF IInv, PressesFollow
  <1>2. active \in Window /\ win[active] \in Info /\ win[active].width > 0
    BY WindowAssumption DEF IInv, PressesFollow, TypeOK, NoneEmpty
  <1>3. presses \in Seq(Nat) /\ Len(presses) \in 1..Len(presses)
    BY DEF IInv, TypeOK
  <1>4. win[active].width \in ThreeWidths(y)
    BY <1>1, <1>3
  <1>5. y \in Zone /\ y.width \in Nat /\ y.width >= 5 /\ y.left \in Int
    BY DEF IInv, TypeOK, ZonesApart, Zone
  <1>6. win[active].width <= y.width
    BY <1>4, <1>5, Thirds DEF ThreeWidths
  <1>7. Within(win[active], y)
    <2>1. win[active].width \in Nat
      BY <1>2 DEF Info
    <2> QED BY <1>1, <1>5, <1>6, <2>1 DEF Within
  <1>8. ActiveZones = {y}
    BY <1>2, <1>7, OnlyZone DEF IInv, TypeOK
  <1> QED BY <1>1, <1>8

\* A shortcut's dock keeps the invariant.
LEMMA DockStep ==
    ASSUME IInv, NEW e \in Edge, dock_active_window(e)
    PROVE  IInv'
  <1>1. /\ dock_active_window_under_lock(e) /\ presses' = Pressed(e)
        /\ UNCHANGED <<zones, application_zones, active, moving_window, window_moved>>
    BY DEF dock_active_window, display, drag
  <1>2. ZonesMirrored' /\ ZonesApart'
    BY <1>1 DEF IInv, ZonesMirrored, ZonesApart
  <1>3. CASE active \notin Dockable
    <2>1. win' = win /\ presses' = <<>>
      BY <1>1, <1>3 DEF dock_active_window_under_lock, Pressed
    <2>2. TypeOK' /\ NoneEmpty' /\ PressesFollow'
      BY <1>1, <2>1 DEF IInv, TypeOK, NoneEmpty, PressesFollow
    <2> QED BY <1>2, <2>2 DEF IInv
  <1>4. CASE active \in Dockable
    <2>1. PICK z \in ActiveZones, w \in Info :
              /\ win' = [win EXCEPT ![active] = w]
              /\ w.state = "attached" /\ w.edge = e
              /\ w.width = NextWidth(win[active], e, z)
              /\ w.width \in 1..z.width
              /\ w.left = IF e = "left" THEN z.left ELSE z.left + z.width - w.width
      BY <1>1, <1>4, DockEffect DEF IInv
    <2>2. /\ z \in zones /\ z \in Zone /\ z.width >= 5
          /\ active \in Window /\ win[active] \in Info
      BY <1>4, WindowAssumption DEF ActiveZones, IInv, TypeOK, ZonesApart
    <2>3. w.width > 0 /\ w.width \in Nat
      BY <2>1 DEF Info
    <2>4. /\ win' \in [Window -> Info]
          /\ \A u \in Window : win'[u].state = "attached" => u \in Dockable
          /\ NoneEmpty'
          /\ win'[active] = w
      BY <1>4, <2>1, <2>2, <2>3, WindowChanges DEF IInv
    <2>5. w.width \in ThreeWidths(z)
      BY <2>1, <2>2, DockWidth
    <2>6. presses \in Seq(Nat) /\ Len(presses) \in Nat
      BY DEF IInv, TypeOK
    <2>7. presses' \in Seq(Nat) /\ PressesFollow'
      <3>1. CASE presses # <<>> /\ win[active].edge = e /\ Len(presses) < 3
        <4>1. presses' = Append(presses, w.width)
          BY <1>1, <1>4, <2>4, <3>1 DEF Pressed
        <4>2. PICK y \in zones :
                /\ ActiveZones = {y}
                /\ win[active].width = presses[Len(presses)]
                /\ \A i \in 1..Len(presses) : presses[i] \in ThreeWidths(y)
                /\ \A i \in 1..(Len(presses) - 1) : presses[i + 1] = After(presses[i], y)
          BY <3>1, DockedAgain
        <4>3. z = y
          BY <4>2
        <4>4. w.width = After(presses[Len(presses)], z)
          <5>1. win[active].state = "attached"
            BY <3>1 DEF IInv, PressesFollow
          <5> QED BY <2>1, <2>2, <3>1, <4>2, <5>1, DockWidth
        <4>5. /\ presses' \in Seq(Nat) /\ Len(presses') = Len(presses) + 1
              /\ \A i \in 1..Len(presses) : presses'[i] = presses[i]
              /\ presses'[Len(presses) + 1] = w.width
          BY <2>3, <2>6, <4>1
        <4>6. Len(presses) >= 1 /\ Len(presses') <= 3
          BY <2>6, <3>1, <4>5
        <4>7. \A i \in 1..Len(presses') : presses'[i] \in ThreeWidths(z)
          <5> TAKE i \in 1..Len(presses')
          <5>1. CASE i = Len(presses) + 1
            BY <2>5, <4>5, <5>1
          <5>2. CASE i # Len(presses) + 1
            <6>1. i \in 1..Len(presses)
              BY <2>6, <4>5, <5>2
            <6> QED BY <4>2, <4>3, <4>5, <6>1
          <5> QED BY <5>1, <5>2
        <4>8. \A i \in 1..(Len(presses') - 1) : presses'[i + 1] = After(presses'[i], z)
          <5> TAKE i \in 1..(Len(presses') - 1)
          <5>1. i \in 1..Len(presses)
            BY <2>6, <4>5
          <5>2. CASE i = Len(presses)
            BY <4>4, <4>5, <5>1, <5>2
          <5>3. CASE i # Len(presses)
            <6>1. i \in 1..(Len(presses) - 1) /\ i + 1 \in 1..Len(presses)
              BY <2>6, <5>1, <5>3
            <6> QED BY <4>2, <4>3, <4>5, <6>1
          <5> QED BY <5>2, <5>3
        <4>9. presses'[Len(presses')] = w.width
          BY <4>5
        <4>10. PressesFollow'
          BY <1>1, <1>4, <2>1, <2>2, <2>4, <4>6, <4>7, <4>8, <4>9 DEF PressesFollow
        <4> QED BY <4>5, <4>10
      <3>2. CASE ~(presses # <<>> /\ win[active].edge = e /\ Len(presses) < 3)
        <4>1. presses' = <<w.width>>
          BY <1>1, <1>4, <2>4, <3>2 DEF Pressed
        <4>2. presses' \in Seq(Nat) /\ Len(presses') = 1 /\ presses'[1] = w.width
          BY <2>3, <4>1
        <4>3. /\ \A i \in 1..Len(presses') : presses'[i] \in ThreeWidths(z)
              /\ \A i \in 1..(Len(presses') - 1) : presses'[i + 1] = After(presses'[i], z)
              /\ presses'[Len(presses')] = w.width /\ Len(presses') <= 3
          BY <2>5, <4>2
        <4>4. PressesFollow'
          BY <1>1, <1>4, <2>1, <2>2, <2>4, <4>3 DEF PressesFollow
        <4> QED BY <4>2, <4>4
      <3> QED BY <3>1, <3>2
    <2>8. TypeOK'
      BY <1>1, <2>4, <2>7 DEF IInv, TypeOK
    <2> QED BY <1>2, <2>4, <2>7, <2>8 DEF IInv
  <1> QED BY <1>3, <1>4
-----------------------------------------------------------------------------
\* The other operations.

\* At most one window changes, to a window in a state it may be in.
WindowMade ==
    \/ UNCHANGED win
    \/ \E v \in Window : \E w \in Info :
         /\ w.width > 0 /\ (w.state = "attached" => v \in Dockable)
         /\ win' = [win EXCEPT ![v] = w]

\* An operation that ends the row of docks and leaves the outputs alone keeps
\* the invariant if what it makes of a window is a window.
LEMMA WindowStep ==
    ASSUME IInv, presses' = <<>>, UNCHANGED display,
           active' \in Window \cup {NoWindow},
           moving_window' \in BOOLEAN, window_moved' \in BOOLEAN,
           WindowMade
    PROVE  IInv'
  <1>1. zones' = zones /\ application_zones' = application_zones
    BY DEF display
  <1>2. ZonesMirrored' /\ ZonesApart'
    BY <1>1 DEF IInv, ZonesMirrored, ZonesApart
  <1>3. PressesFollow' /\ presses' \in Seq(Nat)
    BY DEF PressesFollow
  <1>4. /\ win' \in [Window -> Info]
        /\ \A u \in Window : win'[u].state = "attached" => u \in Dockable
        /\ NoneEmpty'
    <2>1. CASE UNCHANGED win
      BY <2>1 DEF IInv, TypeOK, NoneEmpty
    <2>2. CASE \E v \in Window : \E w \in Info :
                 /\ w.width > 0 /\ (w.state = "attached" => v \in Dockable)
                 /\ win' = [win EXCEPT ![v] = w]
      BY <2>2, WindowChanges DEF IInv
    <2> QED BY <2>1, <2>2 DEF WindowMade
  <1>5. TypeOK'
    BY <1>1, <1>3, <1>4 DEF IInv, TypeOK
  <1> QED BY <1>2, <1>3, <1>4, <1>5 DEF IInv

\* An operation that ends the row of docks and leaves the windows alone keeps
\* the invariant if it keeps the part about outputs.
LEMMA ZoneStep ==
    ASSUME IInv, Zones', presses' = <<>>, UNCHANGED <<win, active, drag>>
    PROVE  IInv'
  <1>1. PressesFollow' /\ presses' \in Seq(Nat)
    BY DEF PressesFollow
  <1>2. TypeOK' /\ NoneEmpty'
    BY <1>1 DEF IInv, TypeOK, NoneEmpty, Zones, drag
  <1> QED BY <1>1, <1>2 DEF IInv, Zones

\* Placing a window in a zone, in a state it may be in, makes a window.
LEMMA ModifyMakesWindow ==
    ASSUME IInv, active \in Window, NEW z \in zones, NEW w \in Info, w.width > 0,
           w.state = "attached" => active \in Dockable,
           Modify(w, z)
    PROVE  WindowMade
  <1>1. z \in Zone /\ z.width >= 5
    BY DEF IInv, TypeOK, ZonesApart
  <1>2. /\ Placed(w, z) \in Info /\ Placed(w, z).width > 0
        /\ Placed(w, z).state = w.state
    BY <1>1, PlacedKeeps
  <1>3. win' = [win EXCEPT ![active] = Placed(w, z)]
    BY DEF Modify
  <1> QED BY <1>2, <1>3 DEF WindowMade

\* Docking makes a window, or changes nothing.
LEMMA DockMakesWindow ==
    ASSUME IInv, NEW e \in Edge, dock_active_window_under_lock(e)
    PROVE  WindowMade
  <1>1. CASE active \in Dockable
    <2>1. PICK z \in ActiveZones, w \in Info :
              win' = [win EXCEPT ![active] = w] /\ w.width \in 1..z.width
      BY <1>1, DockEffect DEF IInv
    <2>2. z.width \in Nat
      BY DEF ActiveZones, IInv, TypeOK, Zone
    <2>3. w.width > 0
      BY <2>1, <2>2
    <2> QED BY <1>1, <2>1, <2>3, WindowAssumption DEF WindowMade
  <1>2. CASE active \notin Dockable
    BY <1>2 DEF dock_active_window_under_lock, WindowMade
  <1> QED BY <1>1, <1>2

\* The active window, when there is one, is a window.
LEMMA ActiveIsWindow ==
    ASSUME IInv, active # NoWindow
    PROVE  active \in Window /\ win[active] \in Info /\ win[active].width > 0
                /\ (win[active].state = "attached" => active \in Dockable)
  BY DEF IInv, TypeOK, NoneEmpty

\* A moved window is placed within the target's width of the target's edge.
LEMMA OffsetBounded ==
    ASSUME NEW w \in Info, NEW z \in Zone, NEW target \in Zone
    PROVE  Offset(w, z, target) \in 0..target.width
  BY DEF Offset, Info, Zone

\* The target of a move is a zone: the list has each of them.
LEMMA TargetIsZone ==
    ASSUME IInv, NEW z \in zones, NEW e \in Edge
    PROVE  TargetZone(z, e) \in zones
  <1>1. /\ application_zones \in Seq(Zone) /\ z \in Listed(application_zones)
        /\ zones = {application_zones[i] : i \in 1..Len(application_zones)}
    BY DEF IInv, TypeOK, ZonesMirrored, Listed, ToSet
  <1> DEFINE n  == Len(application_zones)
             at == Position(application_zones, z)
  <1>2. at \in 1..n /\ n \in Nat
    BY <1>1, PositionFinds
  <1>3. TargetZone(z, e) = IF e = "right" THEN application_zones[IF at = n THEN 1 ELSE at + 1]
                           ELSE application_zones[IF at = 1 THEN n ELSE at - 1]
    BY DEF TargetZone
  <1> HIDE DEF at
  <1>4. (IF at = n THEN 1 ELSE at + 1) \in 1..n /\ (IF at = 1 THEN n ELSE at - 1) \in 1..n
    BY <1>2
  <1> HIDE DEF n
  <1>5. \A i \in 1..n : application_zones[i] \in zones
    BY <1>1 DEF n
  <1> QED BY <1>3, <1>4, <1>5
-----------------------------------------------------------------------------
\* The invariant.

\* The first output is listed, and windows are where their clients put them.
LEMMA InitInvariant ==
    ASSUME Init
    PROVE  IInv
  <1>1. PICK o \in Output, e \in Extents :
            zones = {ZoneOf(o, e)} /\ application_zones = <<ZoneOf(o, e)>>
    BY DEF Init
  <1>2. ZoneOf(o, e) \in Zone /\ ZoneOf(o, e).width >= 5
    BY ZoneIsZone
  <1> DEFINE z == ZoneOf(o, e)
  <1> HIDE DEF z
  <1>3. zones = {z} /\ application_zones = <<z>> /\ z \in Zone /\ z.width >= 5
    BY <1>1, <1>2 DEF z
  <1>4. /\ win \in [Window -> Info]
        /\ \A v \in Window : win[v].state = "restored" /\ win[v].width > 0
    <2>1. win \in [Window -> [left : Lefts, width : Widths, state : {"restored"}, edge : {"left"}]]
      BY DEF Init
    <2>2. ASSUME NEW w \in [left : Lefts, width : Widths, state : {"restored"}, edge : {"left"}]
          PROVE  w \in Info /\ w.state = "restored" /\ w.width > 0
      <3>1. w.left \in Lefts /\ w.width \in Widths /\ w.state = "restored" /\ w.edge = "left"
        OBVIOUS
      <3>2. w = [left |-> w.left, width |-> w.width, state |-> w.state, edge |-> w.edge]
        OBVIOUS
      <3>3. w.left \in Int /\ w.width \in Nat /\ w.width > 0
        <4>1. \A n \in Widths : n \in Nat /\ n > 0
          BY PlaceAssumption
        <4>2. \A x \in Lefts : x \in Int
          BY PlaceAssumption
        <4> QED BY <3>1, <4>1, <4>2, Zenon
      <3>4. w.edge \in Edge
        BY <3>1 DEF Edge
      <3>5. w \in Info
        BY <3>1, <3>2, <3>3, <3>4 DEF Info
      <3> QED BY <3>1, <3>3, <3>5
    <2> QED BY <2>1, <2>2
  <1>5. TypeOK
    <2>1. zones \subseteq Zone /\ application_zones \in Seq(Zone)
      BY <1>3
    <2>2. presses \in Seq(Nat) /\ active \in Window \cup {NoWindow}
      BY DEF Init
    <2>3. {moving_window, window_moved} \subseteq BOOLEAN
      BY DEF Init
    <2> QED BY <1>4, <2>1, <2>2, <2>3 DEF TypeOK
  <1>6. ZonesMirrored
    BY <1>3 DEF ZonesMirrored, ToSet
  <1>7. ZonesApart /\ NoneEmpty /\ PressesFollow
    BY <1>3, <1>4 DEF Init, ZonesApart, NoneEmpty, PressesFollow
  <1> QED BY <1>5, <1>6, <1>7 DEF IInv

\* Moving the active window to the next output keeps it.
LEMMA MoveStep ==
    ASSUME IInv, NEW e \in Edge, move_active_window_to_next_output(e)
    PROVE  IInv'
  <1>1. active \in Window /\ win[active] \in Info /\ win[active].width > 0
        /\ (win[active].state = "attached" => active \in Dockable)
    BY ActiveIsWindow DEF move_active_window_to_next_output
  <1>2. PICK z \in ActiveZones :
            Modify([win[active] EXCEPT !.left =
                TargetZone(z, e).left + Offset(win[active], z, TargetZone(z, e))],
                TargetZone(z, e))
    BY DEF move_active_window_to_next_output
  <1> DEFINE target == TargetZone(z, e)
             w      == [win[active] EXCEPT !.left = target.left + Offset(win[active], z, target)]
  <1>3. z \in zones /\ z \in Zone /\ target \in zones /\ target \in Zone
    BY TargetIsZone DEF ActiveZones, IInv, TypeOK
  <1> HIDE DEF target
  <1>4. target.left + Offset(win[active], z, target) \in Int
    <2>1. Offset(win[active], z, target) \in 0..target.width
      BY <1>1, <1>3, OffsetBounded
    <2>2. target.left \in Int /\ target.width \in Nat
      BY <1>3 DEF Zone
    <2> QED BY <2>1, <2>2
  <1>5. w \in Info /\ w.width = win[active].width /\ w.state = win[active].state
    BY <1>1, <1>4 DEF Info
  <1>6. Modify(w, target)
    BY <1>2 DEF target
  <1> HIDE DEF w
  <1>7. WindowMade
    BY <1>1, <1>3, <1>5, <1>6, ModifyMakesWindow
  <1> QED BY <1>7, WindowStep
          DEF move_active_window_to_next_output, display, drag, IInv, TypeOK

\* The end of a drag keeps it, wherever the window is dropped.
LEMMA DropStep ==
    ASSUME IInv, NEW cursor, NEW above, PointerPassed(cursor, above)
    PROVE  IInv'
  <1>1. /\ UNCHANGED <<display, active, window_moved>> /\ moving_window' = FALSE
        /\ window_moved \in BOOLEAN /\ active \in Window \cup {NoWindow}
    BY DEF PointerPassed, IInv, TypeOK
  <1>2. CASE moving_window /\ window_moved /\ active # NoWindow
    <2>1. PICK z \in ActiveZones : Dropped(cursor, above, z)
      BY <1>2 DEF PointerPassed
    <2>2. presses' = <<>>
      BY <1>2 DEF PointerPassed
    <2>3. z \in zones
      BY DEF ActiveZones
    <2>4. active \in Window /\ win[active] \in Info /\ win[active].width > 0
      BY <1>2, ActiveIsWindow
    <2>5. ASSUME Modify([win[active] EXCEPT !.state = "maximized"], z)
          PROVE  WindowMade
      <3> DEFINE w == [win[active] EXCEPT !.state = "maximized"]
      <3>1. w \in Info /\ w.width > 0 /\ w.state = "maximized"
        BY <2>4 DEF Info
      <3>2. Modify(w, z)
        BY <2>5
      <3> HIDE DEF w
      <3> QED BY <2>3, <2>4, <3>1, <3>2, ModifyMakesWindow
    <2>6. ASSUME NEW e \in Edge, dock_active_window_under_lock(e)
          PROVE  WindowMade
      BY <2>6, DockMakesWindow
    <2>7. WindowMade
      <3>1. \/ Modify([win[active] EXCEPT !.state = "maximized"], z)
            \/ dock_active_window_under_lock("left")
            \/ dock_active_window_under_lock("right")
            \/ UNCHANGED win
        BY <2>1 DEF Dropped
      <3>2. "left" \in Edge /\ "right" \in Edge
        BY DEF Edge
      <3>3. UNCHANGED win => WindowMade
        BY DEF WindowMade
      <3> QED BY <2>5, <2>6, <3>1, <3>2, <3>3
    <2> QED BY <1>1, <2>2, <2>7, WindowStep
  <1>3. CASE ~(moving_window /\ window_moved /\ active # NoWindow)
    <2>1. UNCHANGED <<zones, application_zones, win, active, presses, window_moved>>
      BY <1>3 DEF PointerPassed, display
    <2> QED BY <1>1, <2>1
            DEF IInv, TypeOK, ZonesMirrored, ZonesApart, NoneEmpty, PressesFollow
  <1> QED BY <1>2, <1>3

\* Maximizing and restoring the active window keep it.
LEMMA ToggleStep ==
    ASSUME IInv, toggle_maximized_restored
    PROVE  IInv'
  <1>1. PICK z \in ActiveZones, x \in Lefts, n \in Widths :
            IF win[active].state = "restored"
            THEN Modify([win[active] EXCEPT !.state = "maximized"], z)
            ELSE Modify([win[active] EXCEPT !.state = "restored", !.left = x, !.width = n], z)
    BY DEF toggle_maximized_restored
  <1>2. /\ active \in Window /\ win[active] \in Info /\ win[active].width > 0
        /\ z \in zones /\ x \in Int /\ n \in Nat /\ n > 0
    BY WindowAssumption, PlaceAssumption
       DEF toggle_maximized_restored, ActiveZones, IInv, TypeOK, NoneEmpty
  <1> DEFINE up   == [win[active] EXCEPT !.state = "maximized"]
             back == [win[active] EXCEPT !.state = "restored", !.left = x, !.width = n]
  <1>3. up \in Info /\ up.width > 0 /\ up.state = "maximized"
    BY <1>2 DEF Info
  <1>4. back \in Info /\ back.width > 0 /\ back.state = "restored"
    BY <1>2 DEF Info
  <1>5. Modify(up, z) \/ Modify(back, z)
    BY <1>1
  <1> HIDE DEF up, back
  <1>6. WindowMade
    <2>1. CASE Modify(up, z)
      BY <1>2, <1>3, <2>1, ModifyMakesWindow
    <2>2. CASE Modify(back, z)
      BY <1>2, <1>4, <2>2, ModifyMakesWindow
    <2> QED BY <1>5, <2>1, <2>2
  <1> QED BY <1>6, WindowStep DEF toggle_maximized_restored, drag, IInv, TypeOK

\* A client's buffer of another size keeps it.
LEMMA CommitStep ==
    ASSUME IInv, NEW v \in Window, ClientCommits(v)
    PROVE  IInv'
  <1>1. PICK n \in Widths : win' = [win EXCEPT ![v] = [win[v] EXCEPT !.width = n]]
    BY DEF ClientCommits
  <1> DEFINE w == [win[v] EXCEPT !.width = n]
  <1>2. /\ win[v] \in Info /\ n \in Nat /\ n > 0
        /\ win[v].state = "attached" => v \in Dockable
    BY PlaceAssumption DEF IInv, TypeOK
  <1>3. w \in Info /\ w.width > 0 /\ (w.state = "attached" => v \in Dockable)
    BY <1>2 DEF Info
  <1>4. win' = [win EXCEPT ![v] = w]
    BY <1>1
  <1> HIDE DEF w
  <1>5. WindowMade
    BY <1>3, <1>4 DEF WindowMade
  <1> QED BY <1>5, WindowStep DEF ClientCommits, drag, IInv, TypeOK

\* A pointer event that Mir consumes keeps it.
LEMMA ConsumedStep ==
    ASSUME IInv, PointerConsumed
    PROVE  IInv'
  <1>1. /\ UNCHANGED <<display, active, moving_window>>
        /\ window_moved' \in BOOLEAN /\ moving_window' \in BOOLEAN
        /\ active' \in Window \cup {NoWindow}
    BY DEF PointerConsumed, IInv, TypeOK
  <1>2. CASE UNCHANGED <<win, presses>>
    BY <1>1, <1>2
       DEF display, IInv, TypeOK, ZonesMirrored, ZonesApart, NoneEmpty, PressesFollow
  <1>3. CASE /\ active # NoWindow /\ presses' = <<>>
             /\ \E x \in Lefts :
                   win' = [win EXCEPT ![active] =
                              [win[active] EXCEPT !.left = x, !.state = "restored"]]
    <2>1. PICK x \in Lefts :
              win' = [win EXCEPT ![active] =
                              [win[active] EXCEPT !.left = x, !.state = "restored"]]
      BY <1>3
    <2>2. active \in Window /\ win[active] \in Info /\ win[active].width > 0
      BY <1>3, ActiveIsWindow
    <2> DEFINE w == [win[active] EXCEPT !.left = x, !.state = "restored"]
    <2>3. w \in Info /\ w.width > 0 /\ w.state = "restored"
      BY <2>2, PlaceAssumption DEF Info
    <2>4. win' = [win EXCEPT ![active] = w]
      BY <2>1
    <2> HIDE DEF w
    <2>5. WindowMade
      BY <2>2, <2>3, <2>4 DEF WindowMade
    <2> QED BY <1>1, <1>3, <2>5, WindowStep
  <1> QED BY <1>2, <1>3 DEF PointerConsumed

\* Every operation, and a step of something else, keeps the invariant.
LEMMA StepInvariant ==
    ASSUME IInv, [Next]_vars
    PROVE  IInv'
  <1>1. CASE \E e \in Edge : dock_active_window(e)
    BY <1>1, DockStep
  <1>2. CASE \E e \in Edge : move_active_window_to_next_output(e)
    BY <1>2, MoveStep
  <1>3. CASE ZoneChange
    <2>1. Zones
      BY DEF IInv, TypeOK, Zones
    <2>2. ASSUME NEW o \in Output, NEW e \in Extents, advise_application_zone_create(o, e)
          PROVE  IInv'
      <3>1. Zones'
        BY <2>1, <2>2, ZoneCreated
      <3> QED BY <2>2, <3>1, ZoneStep DEF advise_application_zone_create
    <2>3. ASSUME NEW o \in Output, NEW e \in Extents, advise_application_zone_update(o, e)
          PROVE  IInv'
      <3>1. Zones'
        BY <2>1, <2>3, ZoneUpdated
      <3> QED BY <2>3, <3>1, ZoneStep DEF advise_application_zone_update
    <2>4. ASSUME NEW o \in Output, advise_application_zone_delete(o)
          PROVE  IInv'
      <3>1. Zones'
        BY <2>1, <2>4, ZoneDeleted
      <3> QED BY <2>4, <3>1, ZoneStep DEF advise_application_zone_delete
    <2> QED BY <1>3, <2>2, <2>3, <2>4 DEF ZoneChange
  <1>4. CASE handle_request_move
    BY <1>4 DEF handle_request_move, display, IInv, TypeOK, ZonesMirrored, ZonesApart,
                NoneEmpty, PressesFollow
  <1>5. CASE PointerConsumed
    BY <1>5, ConsumedStep
  <1>6. CASE \E cursor \in Cursor, above \in BOOLEAN : PointerPassed(cursor, above)
    BY <1>6, DropStep
  <1>7. CASE toggle_maximized_restored
    BY <1>7, ToggleStep
  <1>8. CASE FocusMoves
    BY <1>8, WindowStep DEF FocusMoves, drag, IInv, TypeOK, WindowMade
  <1>9. CASE \E v \in Window : ClientCommits(v)
    BY <1>9, CommitStep
  <1>10. CASE UNCHANGED vars
    BY <1>10 DEF vars, display, drag, IInv, TypeOK, ZonesMirrored, ZonesApart,
                 NoneEmpty, PressesFollow
  <1> QED BY <1>1, <1>2, <1>3, <1>4, <1>5, <1>6, <1>7, <1>8, <1>9, <1>10 DEF Next

\* IInv is an invariant, whatever the outputs, the windows and the drags.
THEOREM Invariance == Spec => []IInv
  <1>1. Init => IInv
    BY InitInvariant
  <1>2. IInv /\ [Next]_vars => IInv'
    BY StepInvariant
  <1> QED BY <1>1, <1>2, PTL DEF Spec

\* Only windows that are eligible_to_dock are ever attached to an edge.
THEOREM TypeCorrect == Spec => []TypeOK
  <1>1. IInv => TypeOK
    BY DEF IInv
  <1> QED BY <1>1, Invariance, PTL

\* The policy's list has each of Mir's zones as it is now, once: the search for
\* the active zone always finds it (lines 186-195).
THEOREM Mirrored == Spec => []ZonesMirrored
  <1>1. IInv => ZonesMirrored
    BY DEF IInv
  <1> QED BY <1>1, Invariance, PTL

\* Three docks in a row to one edge give the three widths of a zone, from any
\* width and after any history (lines 346-365).
THEOREM Cycles == Spec => []DockCycle
  <1>1. ASSUME IInv PROVE DockCycle
    <2> SUFFICES ASSUME Len(presses) = 3
                 PROVE  \E z \in zones : ToSet(presses) = ThreeWidths(z)
      BY DEF DockCycle, ThreeWidths
    <2>1. presses \in Seq(Nat) /\ presses # <<>>
      <3>1. presses \in Seq(Nat)
        BY <1>1 DEF IInv, TypeOK
      <3>2. presses = <<>> => Len(presses) = 0
        OBVIOUS
      <3> QED BY <3>1, <3>2
    <2>2. PICK z \in zones :
              /\ \A i \in 1..3 : presses[i] \in ThreeWidths(z)
              /\ \A i \in 1..2 : presses[i + 1] = After(presses[i], z)
      BY <1>1, <2>1 DEF IInv, PressesFollow
    <2>3. presses[2] = After(presses[1], z) /\ presses[3] = After(presses[2], z)
      BY <2>2
    <2>4. z \in Zone /\ z.width >= 5
      BY <1>1 DEF IInv, TypeOK, ZonesApart
    <2>5. {presses[1], presses[2], presses[3]} = ThreeWidths(z)
      BY <2>2, <2>3, <2>4, CycleOfThree
    <2>6. ToSet(presses) = {presses[1], presses[2], presses[3]}
      BY <2>1 DEF ToSet
    <2> QED BY <2>5, <2>6
  <1> QED BY <1>1, Invariance, PTL
-----------------------------------------------------------------------------
\* Where a window is after it is moved on: at the target's right edge, or on the
\* target, and if it reaches beyond neither edge then nowhere else.
LEMMA MovedOn ==
    ASSUME IInv, IInv', NEW e \in Edge, move_active_window_to_next_output(e)
    PROVE  \E z \in ActiveZones :
              LET target == TargetZone(z, e)
                  w      == win'[active]
              IN  \/ w.left = target.left + target.width
                  \/ /\ Overlap(w, target) > 0
                     /\ Within(w, target) => ActiveZones' = {target}
  <1>1. PICK z \in ActiveZones :
            Modify([win[active] EXCEPT !.left =
                TargetZone(z, e).left + Offset(win[active], z, TargetZone(z, e))],
                TargetZone(z, e))
    BY DEF move_active_window_to_next_output
  <1> DEFINE target == TargetZone(z, e)
             off    == Offset(win[active], z, target)
             v      == [win[active] EXCEPT !.left = target.left + off]
             w      == Placed(v, target)
  <1>2. active \in Window /\ win[active] \in Info /\ win[active].width > 0
    BY ActiveIsWindow DEF move_active_window_to_next_output
  <1>3. z \in zones /\ z \in Zone /\ target \in zones /\ target \in Zone /\ target.width >= 5
    BY TargetIsZone DEF ActiveZones, IInv, TypeOK, ZonesApart
  <1>4. target.left \in Int /\ target.width \in Nat /\ off \in 0..target.width
    <2> HIDE DEF target
    <2> QED BY <1>2, <1>3, OffsetBounded DEF Zone
  <1>5. win' = [win EXCEPT ![active] = w]
    BY <1>1 DEF Modify
  <1> HIDE DEF off, target
  <1>6. v \in Info /\ v.width > 0 /\ v.left = target.left + off
    <2>1. target.left + off \in Int
      BY <1>4
    <2> QED BY <1>2, <2>1 DEF Info
  <1> HIDE DEF v
  <1>7. w \in Info /\ w.width > 0
    BY <1>3, <1>6, PlacedKeeps
  <1>8. w.left = target.left + target.width
        \/ (w.left < target.left + target.width /\ target.left < w.left + w.width)
    <2>1. w.left \in Int /\ w.width \in Nat
      BY <1>7 DEF Info
    <2>2. CASE v.state = "restored"
      <3>1. w.left = target.left + off
        BY <1>3, <1>6, <2>2, PlacedByState
      <3> HIDE DEF w
      <3> QED BY <1>4, <1>7, <2>1, <3>1
    <2>3. CASE v.state = "maximized"
      <3>1. w = [v EXCEPT !.left = target.left, !.width = target.width]
        BY <1>3, <1>6, <2>3, PlacedByState
      <3> HIDE DEF w
      <3>2. w.left = target.left
        BY <1>6, <3>1 DEF Info
      <3> QED BY <1>3, <1>4, <1>7, <2>1, <3>2
    <2>4. CASE v.state = "attached"
      <3>1. w = [v EXCEPT !.left = IF v.edge = "left" THEN target.left
                                   ELSE target.left + target.width - v.width]
        BY <1>3, <1>6, <2>4, PlacedByState
      <3> HIDE DEF w
      <3>2. /\ w.width = v.width
            /\ w.left = IF v.edge = "left" THEN target.left
                        ELSE target.left + target.width - v.width
        BY <1>6, <3>1 DEF Info
      <3> QED BY <1>3, <1>4, <1>7, <2>1, <3>2
    <2> QED BY <1>6, <2>2, <2>3, <2>4 DEF Info
  <1> HIDE DEF w
  <1>9. win'[active] = w
    BY <1>2, <1>5 DEF IInv, TypeOK
  <1>10. target.width > 0
    BY <1>3, <1>4
  <1>11. w.left # target.left + target.width => Overlap(w, target) > 0
    BY <1>3, <1>7, <1>8, <1>10, Overlaps
  <1>12. ASSUME Within(w, target) PROVE ActiveZones' = {target}
    <2>1. zones' = zones /\ active' = active
      BY DEF move_active_window_to_next_output, display
    <2>2. \A y \in zones : Overlap(w, target) >= Overlap(w, y)
                           /\ (y # target => ~(Overlap(w, y) >= Overlap(w, target)))
      <3> TAKE y \in zones
      <3>1. y \in Zone /\ y.left \in Int /\ y.width \in Nat
        BY DEF IInv, TypeOK, Zone
      <3>2. w.left \in Int /\ w.width \in Nat
        BY <1>7 DEF Info
      <3>3. Overlap(w, target) = w.width
        BY <1>3, <1>7, <1>12, Overlaps
      <3>4. CASE y = target
        BY <3>2, <3>3, <3>4
      <3>5. CASE y # target
        <4>1. y.left + y.width <= target.left \/ target.left + target.width <= y.left
          BY <1>3, <3>5 DEF IInv, ZonesApart
        <4>2. w.left + w.width <= y.left \/ y.left + y.width <= w.left
          BY <1>4, <1>12, <3>1, <3>2, <4>1 DEF Within
        <4>3. Overlap(w, y) = 0
          BY <1>7, <3>1, <4>2, Overlaps
        <4> QED BY <1>7, <3>2, <3>3, <4>3
      <3> QED BY <3>4, <3>5
    <2>3. ActiveZones' = {y \in zones : \A x \in zones : Overlap(w, y) >= Overlap(w, x)}
      BY <1>9, <2>1 DEF ActiveZones
    <2> QED BY <1>3, <2>2, <2>3
  <1> QED BY <1>9, <1>11, <1>12 DEF target

\* Moved to the next output, the active window is shown there and nowhere else,
\* but for the two cases that MovesOn names (lines 175-214).
THEOREM ShownWhereMoved == Spec => MovesOn
  <1>1. ASSUME IInv, IInv', [Next]_vars
        PROVE  [\A e \in Edge :
                  move_active_window_to_next_output(e) =>
                      \E z \in ActiveZones :
                          LET target == TargetZone(z, e)
                              w      == win'[active]
                          IN  \/ w.left = target.left + target.width
                              \/ /\ Overlap(w, target) > 0
                                 /\ Within(w, target) => ActiveZones' = {target}]_vars
    BY <1>1, MovedOn
  <1>2. Spec => [][Next]_vars
    BY DEF Spec
  <1> QED BY <1>1, <1>2, Invariance, PTL DEF MovesOn
=============================================================================
