-------------------------- MODULE WorkspacesProofs --------------------------
(***************************************************************************)
(* Workspaces keeps its invariant and implements WorkspaceList, whatever   *)
(* the workspaces, the windows and their states, as long as the activator  *)
(* is not called for a workspace that has been erased.                     *)
(***************************************************************************)
EXTENDS Workspaces, RowsProofs

\* What an info of the invariant looks like.
Sound(i) ==
    /\ i \in Info
    /\ i.in_hidden_workspace => i.state = "hidden" /\ i.old_state \in WState

\* Hiding and showing keep an info sound, and do nothing twice.
LEMMA HideShow ==
    ASSUME NEW i, Sound(i)
    PROVE  /\ Sound(apply_workspace_hidden_to(i))
           /\ apply_workspace_hidden_to(i).in_hidden_workspace
           /\ apply_workspace_hidden_to(i).state = "hidden"
           /\ Sound(apply_workspace_visible_to(i))
           /\ ~apply_workspace_visible_to(i).in_hidden_workspace
           /\ i.in_hidden_workspace => apply_workspace_hidden_to(i) = i
           /\ ~i.in_hidden_workspace => apply_workspace_visible_to(i) = i
  BY StateAssumption DEF Sound, Info, apply_workspace_hidden_to, apply_workspace_visible_to

\* Neither of them changes the state the user gave the window.
LEMMA HideShowKeep ==
    ASSUME NEW i, Sound(i)
    PROVE  /\ OwnState(apply_workspace_hidden_to(i)) = OwnState(i)
           /\ OwnState(apply_workspace_visible_to(i)) = OwnState(i)
  BY DEF Sound, Info, OwnState, apply_workspace_hidden_to, apply_workspace_visible_to

\* What a change of workspace keeps of every window: the state the user gave it,
\* and that it is in a workspace.
Kept ==
    \A w \in live \cap live' :
        /\ OwnState(info'[w]) = OwnState(info[w])
        /\ App(w) /\ member[w] # {} => member'[w] # {}

\* The infos of an invariant state are sound, those of dead windows included.
LEMMA InfoSound ==
    ASSUME IInv
    PROVE  \A w \in Window : Sound(info[w])
  BY DEF IInv, TypeOK, HiddenStaysHidden, Forgotten, Sound

\* active is a workspace, not end().
LEMMA ActiveIsWorkspace ==
    ASSUME IInv
    PROVE  active \in Workspace /\ workspaces \in Seq(Workspace)
                /\ workspaces # <<>> /\ Len(workspaces) \in Nat /\ Len(workspaces) >= 1
  <1>1. workspaces \in Seq(Workspace) /\ active \in Listed(workspaces)
    BY DEF IInv, TypeOK, ActiveIsListed
  <1>2. PICK i \in 1..Len(workspaces) : workspaces[i] = active
    BY <1>1 DEF Listed, ToSet
  <1>3. Len(workspaces) \in Nat /\ workspaces[i] \in Workspace
    BY <1>1, <1>2
  <1> QED
    BY <1>1, <1>2, <1>3

\* The windows of one tree share their workspaces, their being hidden and
\* their kind of layer.
LEMMA TreeAlike ==
    ASSUME IInv, NEW v \in live, NEW w \in live, Root(v) = Root(w)
    PROVE  /\ member[v] = member[w]
           /\ info[v].in_hidden_workspace = info[w].in_hidden_workspace
           /\ App(v) <=> App(w)
  <1>1. \A x \in live : /\ Root(x) \in live
                        /\ member[x] = member[Root(x)]
                        /\ info[x].in_hidden_workspace = info[Root(x)].in_hidden_workspace
                        /\ App(x) <=> App(Root(x))
    BY DEF IInv, TypeOK, TreeTogether, Kinship, Root, App
  <1> QED
    BY <1>1

\* The tree a command may act on is in view and in no workspace but the active one.
LEMMA TreeOfFocus ==
    ASSUME IInv, NEW window \in {focus, NoWindow}, NEW w \in Tree(window)
    PROVE  /\ window = focus /\ focus \in live
           /\ w \in live /\ ~info[w].in_hidden_workspace
           /\ member[w] = member[focus]
           /\ App(w) <=> App(focus)
           /\ App(w) => member[w] \subseteq {active}
  <1>1. window # NoWindow /\ w \in live /\ Root(w) = Root(window)
    BY DEF Tree
  <1>2. focus \in live /\ info[focus].state # "hidden" /\ window = focus
    BY <1>1 DEF IInv, FocusSeen, Seen
  <1>3. ~info[focus].in_hidden_workspace
    BY <1>2 DEF IInv, HiddenStaysHidden
  <1>4. /\ member[w] = member[focus] /\ ~info[w].in_hidden_workspace
        /\ App(w) <=> App(focus)
    BY <1>1, <1>2, <1>3, TreeAlike
  <1>5. App(w) => member[w] = {} \/ active \in member[w]
    BY <1>1, <1>4 DEF IInv, HiddenIffElsewhere
  <1>6. App(w) => member[w] \subseteq {active}
    BY <1>1, <1>5 DEF IInv, OneHome
  <1> QED
    BY <1>1, <1>2, <1>4, <1>6

\* What change_active_workspace leaves of a state of the invariant, before
\* anything is erased: every part of the invariant with new for active.
LEMMA Changed ==
    ASSUME IInv, NEW new \in Workspace \ {active}, NEW window \in {focus, NoWindow},
           NEW c, c = change_active_workspace(new, active, window)
    PROVE  /\ c.member \in [Window -> SUBSET Workspace]
           /\ c.info \in [Window -> Info]
           /\ c.remembered \in [Workspace -> Window \cup {NoWindow}]
           /\ c.focus \subseteq Seen(c.info) \cup {NoWindow}
           /\ \A w \in Window :
                 /\ Sound(c.info[w])
                 /\ OwnState(c.info[w]) = OwnState(info[w])
                 /\ c.member[w] \subseteq member[w] \cup {new}
                 /\ member[w] # {} => c.member[w] # {}
                 /\ w \notin live => c.member[w] = {} /\ c.info[w] = info[w]
                 /\ App(w) => \A a, b \in c.member[w] : a = b
                 /\ w \in live => (c.info[w].in_hidden_workspace <=>
                        App(w) /\ c.member[w] # {} /\ new \notin c.member[w])
                 /\ parent[w] # NoWindow =>
                        /\ c.member[w] = c.member[parent[w]]
                        /\ c.info[w].in_hidden_workspace = c.info[parent[w]].in_hidden_workspace
  <1> DEFINE first  == RightOne(new)
             early  == ShowAll(info, {w \in {first} \cap live : new \in member[w]})
             moved  == MoveTree(member, window, active, new)
             added  == Added(RemoveTree(member, window, active), window, new)
             shown  == ShowAll(early, AppsIn(moved, new) \cup added)
             last   == {focus} \cap AppsIn(moved, active)
             others == HideAll(shown, AppsIn(moved, active) \ last)
             final  == HideAll(others, last)
             grabs  == IF Seen(early) \ Seen(info) # {} THEN {first}
                       ELSE Seen(shown) \ Seen(info)
  <1>1. /\ c.member = moved
        /\ c.info = final
        /\ c.remembered = IF last = {} THEN remembered
                          ELSE [remembered EXCEPT ![active] = focus]
        /\ c.focus =
             IF focus = NoWindow THEN IF grabs = {} THEN {NoWindow} ELSE grabs
             ELSE IF last # {} THEN FocusShift(others, focus)
             ELSE IF ~ShellFocused \/ first = NoWindow THEN KeepOrShift(final)
             ELSE IF first \in Seen(final) THEN {first}
             ELSE FocusShift(final, NoWindow) \cup {focus}
    BY DEF change_active_workspace
  <1>2. active \in Workspace /\ new # active /\ new \in Workspace
    BY ActiveIsWorkspace
  <1>3. \A w \in Window : Sound(info[w])
    BY InfoSound
  <1>4. \A w \in Window :
            moved[w] = IF w \in Tree(window) THEN (member[w] \ {active}) \cup {new}
                       ELSE member[w]
    BY DEF MoveTree, AddTree, RemoveTree
  <1>5. \A w \in live : live \subseteq Window /\ member[w] \subseteq Workspace /\ w \in Window
    BY DEF IInv, TypeOK
  <1>6. \A w \in Tree(window) :
            /\ window = focus /\ focus \in live
            /\ w \in live /\ ~info[w].in_hidden_workspace
            /\ App(w) => member[w] \subseteq {active}
    BY TreeOfFocus
  <1>7. \A w \in Window : App(w) => \A a, b \in moved[w] : a = b
    BY <1>4, <1>6 DEF IInv, OneHome, App
  <1> HIDE DEF moved
  <1>8. \A w \in Window : shown[w] = IF App(w) /\ new \in moved[w]
                                     THEN apply_workspace_visible_to(info[w]) ELSE info[w]
    <2> SUFFICES ASSUME NEW w \in Window
                 PROVE  shown[w] = IF App(w) /\ new \in moved[w]
                                   THEN apply_workspace_visible_to(info[w]) ELSE info[w]
      OBVIOUS
    <2>1. shown[w] = IF w \in AppsIn(moved, new) \cup added
                     THEN apply_workspace_visible_to(early[w]) ELSE early[w]
      BY DEF ShowAll
    <2>2. early[w] = IF w = first /\ w \in live /\ new \in member[w]
                     THEN apply_workspace_visible_to(info[w]) ELSE info[w]
      BY DEF ShowAll
    <2>3. w \in AppsIn(moved, new) <=> App(w) /\ new \in moved[w]
      BY DEF AppsIn
    <2>4. apply_workspace_visible_to(apply_workspace_visible_to(info[w]))
             = apply_workspace_visible_to(info[w])
      BY <1>3, HideShow
    <2>5. ~info[w].in_hidden_workspace => apply_workspace_visible_to(info[w]) = info[w]
      BY <1>3, HideShow
    <2>6. w \in added => ~info[w].in_hidden_workspace
      BY <1>6 DEF Added
    <2>7. w \in live /\ new \in member[w] /\ info[w].in_hidden_workspace
             => App(w) /\ new \in moved[w]
      BY <1>4, <1>6 DEF IInv, HiddenIffElsewhere
    <2> HIDE DEF early, added, shown, first
    <2> QED
      BY <2>1, <2>2, <2>3, <2>4, <2>5, <2>6, <2>7
  <1>9. \A w \in Window : /\ w \in AppsIn(moved, active) => App(w) /\ active \in moved[w]
                          /\ App(w) /\ active \in moved[w] => w \in AppsIn(moved, active)
    BY DEF AppsIn
  <1>10. \A w \in Window : App(w) /\ active \in moved[w] => new \notin moved[w] /\ shown[w] = info[w]
    BY <1>2, <1>7, <1>8
  <1>11. \A w \in Window :
            /\ others[w] = IF App(w) /\ active \in moved[w] /\ w # focus
                           THEN apply_workspace_hidden_to(info[w]) ELSE shown[w]
            /\ final[w] = IF App(w) /\ active \in moved[w]
                          THEN apply_workspace_hidden_to(info[w]) ELSE shown[w]
    BY <1>9, <1>10 DEF HideAll
  <1>12. final \in [Window -> Info] /\ \A w \in Window : Sound(final[w])
    <2>2. final = [w \in Window |-> final[w]]
      BY DEF HideAll
    <2> HIDE DEF final, shown, others
    <2>1. ASSUME NEW w \in Window PROVE Sound(final[w])
      <3>1. /\ Sound(info[w])
            /\ Sound(apply_workspace_hidden_to(info[w]))
            /\ Sound(apply_workspace_visible_to(info[w]))
        BY <1>3, HideShow
      <3> QED BY <1>8, <1>11, <3>1
    <2> QED BY <2>1, <2>2 DEF Sound
  <1> HIDE DEF final, others, shown, early, added
  <1>13. moved \in [Window -> SUBSET Workspace]
    <2>1. moved = [w \in Window |-> moved[w]]
      BY DEF moved, MoveTree, AddTree
    <2>2. \A w \in Window : moved[w] \subseteq Workspace
      BY <1>2, <1>4 DEF IInv, TypeOK
    <2> QED BY <2>1, <2>2
  <1>14. ASSUME NEW w \in live
         PROVE  final[w].in_hidden_workspace <=>
                    App(w) /\ moved[w] # {} /\ new \notin moved[w]
    <2>1. w \in Window
      BY <1>5
    <2>2. CASE App(w) /\ active \in moved[w]
      BY <1>3, <1>10, <1>11, <2>1, <2>2, HideShow
    <2>3. CASE App(w) /\ new \in moved[w]
      BY <1>2, <1>3, <1>8, <1>7, <1>11, <2>1, <2>3, HideShow
    <2>4. CASE ~(App(w) /\ active \in moved[w]) /\ ~(App(w) /\ new \in moved[w])
      <3>1. final[w] = info[w]
        BY <1>8, <1>11, <2>1, <2>4
      <3>2. CASE ~App(w)
        BY <3>1, <3>2 DEF IInv, HiddenIffElsewhere
      <3>3. CASE App(w)
        <4>1. w \notin Tree(window)
          BY <1>4, <2>1, <2>4, <3>3
        <4>2. moved[w] = member[w]
          BY <1>4, <2>1, <4>1
        <4>3. info[w].in_hidden_workspace <=> member[w] # {} /\ active \notin member[w]
          BY <3>3 DEF IInv, HiddenIffElsewhere
        <4>4. active \notin moved[w] /\ new \notin moved[w]
          BY <2>4, <3>3
        <4> QED BY <3>1, <3>3, <4>2, <4>3, <4>4
      <3> QED BY <3>2, <3>3
    <2> QED BY <2>2, <2>3, <2>4
  <1>15. ASSUME NEW w \in Window, w \notin live
         PROVE  moved[w] = {} /\ final[w] = info[w]
    <2>1. ~App(w) /\ w \notin Tree(window)
      BY <1>15 DEF App, Tree
    <2> QED BY <1>4, <1>8, <1>11, <1>15, <2>1 DEF IInv, Forgotten
  <1>16. ASSUME NEW w \in Window, parent[w] # NoWindow
         PROVE  /\ moved[w] = moved[parent[w]]
                /\ final[w].in_hidden_workspace = final[parent[w]].in_hidden_workspace
    <2>1. /\ w \in live /\ parent[w] \in live /\ parent[parent[w]] = NoWindow
          /\ parent[w] \in Window
          /\ App(w) <=> App(parent[w])
      BY <1>5, <1>16 DEF IInv, Kinship, App
    <2>2. member[w] = member[parent[w]]
      BY <1>16, <2>1 DEF IInv, TreeTogether
    <2>3. Root(w) = Root(parent[w])
      BY <1>16, <2>1 DEF Root
    <2>4. w \in Tree(window) <=> parent[w] \in Tree(window)
      BY <2>1, <2>3 DEF Tree
    <2>5. moved[w] = moved[parent[w]]
      BY <1>4, <2>1, <2>2, <2>4
    <2>6. /\ final[w].in_hidden_workspace \in BOOLEAN
          /\ final[parent[w]].in_hidden_workspace \in BOOLEAN
      BY <1>12, <2>1 DEF Info
    <2> QED BY <1>14, <2>1, <2>5, <2>6
  <1>17. c.remembered \in [Workspace -> Window \cup {NoWindow}]
    BY <1>1, <1>2 DEF IInv, TypeOK
  <1>18. c.focus \subseteq Seen(final) \cup {NoWindow}
    <2>1. \A i, x : x \in Seen(i) <=> x \in live /\ i[x].state \notin {"hidden", "minimized"}
      BY DEF Seen
    <2>2. \A i, x : FocusShift(i, x) \subseteq Seen(i) \cup {NoWindow}
      BY DEF FocusShift
    <2>3. ASSUME NEW x \in grabs
          PROVE  x \in Seen(final)
      <3>1. CASE Seen(early) \ Seen(info) # {}
        <4>1. PICK y : y \in Seen(early) /\ y \notin Seen(info)
          BY <3>1
        <4>2. y \in live /\ y \in Window /\ early[y] # info[y]
          BY <1>5, <2>1, <4>1
        <4>3. /\ y = first /\ new \in member[y]
              /\ early[y] = apply_workspace_visible_to(info[y])
          BY <4>2 DEF ShowAll, early
        <4>4. info[y].in_hidden_workspace
          BY <1>3, <4>2, <4>3, HideShow
        <4>5. App(y) /\ y \notin Tree(window)
          BY <1>6, <4>2, <4>4 DEF IInv, HiddenIffElsewhere
        <4>6. new \in moved[y] /\ active \notin moved[y]
          BY <1>2, <1>4, <1>7, <4>2, <4>3, <4>5
        <4>7. final[y] = early[y]
          BY <1>8, <1>11, <4>2, <4>3, <4>5, <4>6
        <4> QED BY <2>1, <2>3, <3>1, <4>1, <4>3, <4>7
      <3>2. CASE ~(Seen(early) \ Seen(info) # {})
        <4>1. x \in Seen(shown) /\ x \notin Seen(info)
          BY <2>3, <3>2
        <4>2. x \in Window /\ shown[x] # info[x]
          BY <1>5, <2>1, <4>1
        <4>3. App(x) /\ new \in moved[x]
          BY <1>8, <4>2
        <4>4. final[x] = shown[x]
          BY <1>2, <1>7, <1>11, <4>2, <4>3
        <4> QED BY <2>1, <4>1, <4>4
      <3> QED BY <3>1, <3>2
    <2>4. FocusShift(others, focus) \subseteq Seen(final) \cup {NoWindow}
      <3>1. \A x \in Window : x # focus => final[x] = others[x]
        BY <1>11
      <3> QED BY <1>5, <2>1, <3>1 DEF FocusShift
    <2>5. KeepOrShift(final) \subseteq Seen(final) \cup {NoWindow}
      BY <2>2 DEF KeepOrShift
    <2>6. ShellFocused => focus \in Seen(final)
      <3> SUFFICES ASSUME ShellFocused PROVE focus \in Seen(final)
        OBVIOUS
      <3>1. focus \in Seen(info) /\ focus \in Window /\ ~App(focus)
        BY <1>5, <2>1 DEF ShellFocused, IInv, FocusSeen, App
      <3>2. final[focus] = info[focus]
        BY <1>8, <1>11, <3>1
      <3> QED BY <2>1, <3>1, <3>2
    <2> HIDE DEF first, grabs, last
    <2> QED BY <1>1, <2>2, <2>3, <2>4, <2>5, <2>6
  <1>19. \A w \in Window : /\ moved[w] \subseteq member[w] \cup {new}
                           /\ member[w] # {} => moved[w] # {}
    BY <1>4
  <1>20. \A w \in Window : OwnState(final[w]) = OwnState(info[w])
    <2> TAKE w \in Window
    <2>1. /\ OwnState(apply_workspace_hidden_to(info[w])) = OwnState(info[w])
          /\ OwnState(apply_workspace_visible_to(info[w])) = OwnState(info[w])
      BY <1>3, HideShowKeep
    <2> QED BY <1>8, <1>11, <2>1
  <1> HIDE DEF first, last, grabs
  <1>21. /\ c.member \in [Window -> SUBSET Workspace]
         /\ c.info \in [Window -> Info]
         /\ c.focus \subseteq Seen(c.info) \cup {NoWindow}
    BY <1>1, <1>12, <1>13, <1>18
  <1>22. ASSUME NEW w \in Window
         PROVE  /\ Sound(c.info[w])
                /\ OwnState(c.info[w]) = OwnState(info[w])
                /\ c.member[w] \subseteq member[w] \cup {new}
                /\ member[w] # {} => c.member[w] # {}
                /\ w \notin live => c.member[w] = {} /\ c.info[w] = info[w]
                /\ App(w) => \A a, b \in c.member[w] : a = b
                /\ w \in live => (c.info[w].in_hidden_workspace <=>
                       App(w) /\ c.member[w] # {} /\ new \notin c.member[w])
                /\ parent[w] # NoWindow =>
                       /\ c.member[w] = c.member[parent[w]]
                       /\ c.info[w].in_hidden_workspace = c.info[parent[w]].in_hidden_workspace
    BY <1>1, <1>7, <1>12, <1>14, <1>15, <1>16, <1>19, <1>20
  <1> QED
    BY <1>17, <1>21, <1>22

\* Leaving the active workspace for new, which row lists, keeps the invariant.
LEMMA LeaveKeeps ==
    ASSUME IInv, NEW new \in Workspace \ {active}, NEW window \in {focus, NoWindow},
           NEW row \in Seq(Workspace), NoRepeats(row),
           Listed(row) = Listed(workspaces) \cup {new},
           Leave(row, new, window), active' = new
    PROVE  IInv' /\ workspaces' \in {row, Erase(row, active)} /\ Kept
  <1> DEFINE c     == change_active_workspace(new, active, window)
             empty == Empty(c.member, active)
  <1>1. /\ workspaces' = IF empty THEN Erase(row, active) ELSE row
        /\ remembered' = IF empty THEN [c.remembered EXCEPT ![active] = NoWindow]
                                  ELSE c.remembered
        /\ member' = IF empty THEN [w \in Window |-> c.member[w] \ {active}] ELSE c.member
        /\ info' = c.info
        /\ focus' \in c.focus
        /\ UNCHANGED <<live, parent, layer>>
    BY DEF Leave, tools
  <1>2. /\ c.member \in [Window -> SUBSET Workspace]
        /\ c.info \in [Window -> Info]
        /\ c.remembered \in [Workspace -> Window \cup {NoWindow}]
        /\ c.focus \subseteq Seen(c.info) \cup {NoWindow}
        /\ \A w \in Window :
              /\ Sound(c.info[w])
              /\ OwnState(c.info[w]) = OwnState(info[w])
              /\ c.member[w] \subseteq member[w] \cup {new}
              /\ member[w] # {} => c.member[w] # {}
              /\ w \notin live => c.member[w] = {} /\ c.info[w] = info[w]
              /\ App(w) => \A a, b \in c.member[w] : a = b
              /\ w \in live => (c.info[w].in_hidden_workspace <=>
                     App(w) /\ c.member[w] # {} /\ new \notin c.member[w])
              /\ parent[w] # NoWindow =>
                     /\ c.member[w] = c.member[parent[w]]
                     /\ c.info[w].in_hidden_workspace = c.info[parent[w]].in_hidden_workspace
    BY Changed
  <1>3. empty => \A w \in Window : App(w) => active \notin c.member[w]
    BY DEF Empty, AppsIn
  <1> HIDE DEF c, empty
  <1>4. active \in Workspace /\ active \in Listed(row) /\ new # active
    BY ActiveIsWorkspace DEF IInv, ActiveIsListed
  <1>5. /\ Erase(row, active) \in Seq(Workspace)
        /\ Listed(Erase(row, active)) = Listed(row) \ {active}
        /\ NoRepeats(Erase(row, active))
    BY <1>4, EraseListed
  <1>6. /\ workspaces' \in Seq(Workspace)
        /\ NoRepeats(workspaces')
        /\ Listed(workspaces') = IF empty THEN Listed(row) \ {active} ELSE Listed(row)
    BY <1>1, <1>5
  <1>7. ActiveIsListed'
    BY <1>4, <1>6 DEF ActiveIsListed
  <1>8. \A w \in Window : member'[w] = IF empty THEN c.member[w] \ {active} ELSE c.member[w]
    BY <1>1
  <1>9. \A w \in Window : /\ App(w)' <=> App(w)
                          /\ App(w) => member'[w] = c.member[w]
    BY <1>1, <1>3, <1>8 DEF App
  <1>10. live \subseteq Window /\ \A w \in Window : member[w] \subseteq Listed(workspaces)
    <2>1. live \subseteq Window
      BY DEF IInv, TypeOK
    <2>2. \A w \in live : member[w] \subseteq Listed(workspaces)
      BY DEF IInv, HiddenIffElsewhere
    <2>3. \A w \in Window \ live : member[w] = {}
      BY DEF IInv, Forgotten
    <2> QED BY <2>1, <2>2, <2>3
  <1>11. TypeOK'
    <2>1. member' \in [Window -> SUBSET Workspace]
      BY <1>1, <1>2
    <2>2. focus' \in Window \cup {NoWindow}
      BY <1>1, <1>2, <1>10 DEF Seen
    <2>3. remembered' \in [Workspace -> Window \cup {NoWindow}]
      BY <1>1, <1>2
    <2> QED BY <1>1, <1>2, <1>6, <2>1, <2>2, <2>3 DEF TypeOK, IInv
  <1>12. HiddenIffElsewhere'
    <2> SUFFICES ASSUME NEW w \in live
                 PROVE  /\ info'[w].in_hidden_workspace
                             <=> App(w)' /\ member'[w] # {} /\ active' \notin member'[w]
                        /\ member'[w] \subseteq Listed(workspaces')
      BY <1>1 DEF HiddenIffElsewhere
    <2>1. w \in Window
      BY <1>10
    <2>2. info'[w].in_hidden_workspace
              <=> App(w)' /\ member'[w] # {} /\ active' \notin member'[w]
      BY <1>1, <1>2, <1>9, <2>1
    <2>3. c.member[w] \subseteq Listed(row)
      BY <1>2, <1>10, <2>1
    <2> QED BY <1>6, <1>8, <2>1, <2>2, <2>3
  <1>13. HiddenStaysHidden'
    BY <1>1, <1>2, <1>10 DEF HiddenStaysHidden, Sound
  <1>14. OneHome'
    <2> SUFFICES ASSUME NEW w \in live, App(w), NEW a \in member'[w], NEW b \in member'[w]
                 PROVE  a = b
      BY <1>1, <1>9, <1>10 DEF OneHome
    <2> QED BY <1>2, <1>9, <1>10
  <1>15. TreeTogether'
    <2>1. ASSUME NEW w \in live, parent[w] # NoWindow
          PROVE  /\ parent[w] \in live
                 /\ member'[w] = member'[parent[w]]
                 /\ info'[w].in_hidden_workspace = info'[parent[w]].in_hidden_workspace
      <3>1. w \in Window /\ parent[w] \in live /\ parent[w] \in Window
        BY <1>10, <2>1 DEF IInv, TreeTogether
      <3> QED BY <1>1, <1>2, <1>8, <2>1, <3>1
    <2>2. live' = live /\ parent' = parent
      BY <1>1
    <2> QED BY <2>1, <2>2 DEF TreeTogether
  <1>16. Kinship'
    BY <1>1 DEF IInv, Kinship
  <1>17. Forgotten'
    BY <1>1, <1>2, <1>8 DEF IInv, Forgotten
  <1>18. FocusSeen'
    BY <1>1, <1>2 DEF FocusSeen, Seen
  <1>19. Kept
    BY <1>1, <1>2, <1>9, <1>10 DEF Kept
  <1> QED
    BY <1>1, <1>7, <1>11, <1>12, <1>13, <1>14, <1>15, <1>16, <1>17, <1>18, <1>19 DEF IInv

\* WorkspaceList reads the list with the same operators.
LEMMA SameRows ==
    ASSUME NEW row, NEW x
    PROVE  WL!Listed(row) = Listed(row) /\ WL!Erase(row, x) = Erase(row, x)
  BY DEF WL!Listed, Listed, WL!ToSet, ToSet, WL!Erase, Erase, WL!RemoveAt, RemoveAt,
         WL!Position, Position

\* Switching to a listed workspace keeps the invariant, and is a Switch of
\* WorkspaceList.
LEMMA GoToKeeps ==
    ASSUME IInv, NEW ws \in Listed(workspaces) \ {active}, NEW window \in {focus, NoWindow},
           GoTo(ws, window)
    PROVE  IInv' /\ WL!Next /\ Kept
  <1>1. ws \in Workspace \ {active} /\ workspaces \in Seq(Workspace)
    BY ActiveIsWorkspace DEF Listed, ToSet
  <1>2. NoRepeats(workspaces) /\ Listed(workspaces) = Listed(workspaces) \cup {ws}
    BY DEF IInv, ActiveIsListed
  <1>3. Leave(workspaces, ws, window) /\ active' = ws
    BY DEF GoTo
  <1>4. IInv' /\ workspaces' \in {workspaces, Erase(workspaces, active)} /\ Kept
    BY <1>1, <1>2, <1>3, LeaveKeeps
  <1> QED
    BY <1>1, <1>3, <1>4, SameRows DEF WL!Next, WL!Switch, WL!Leave

\* Appending a workspace and switching to it keeps the invariant, and is an
\* Extend of WorkspaceList.
LEMMA GoToNewKeeps ==
    ASSUME IInv, NEW window \in {focus, NoWindow}, GoToNew(window)
    PROVE  IInv' /\ WL!Next /\ Kept
  <1>1. PICK ws \in Workspace \ Listed(workspaces) :
            active' = ws /\ Leave(Append(workspaces, ws), ws, window)
    BY DEF GoToNew
  <1>2. workspaces \in Seq(Workspace) /\ NoRepeats(workspaces) /\ active \in Listed(workspaces)
    BY DEF IInv, TypeOK, ActiveIsListed
  <1>3. /\ Append(workspaces, ws) \in Seq(Workspace)
        /\ Listed(Append(workspaces, ws)) = Listed(workspaces) \cup {ws}
        /\ NoRepeats(Append(workspaces, ws))
    BY <1>2, AppendListed
  <1>4. ws \in Workspace \ {active}
    BY <1>2
  <1>5. /\ IInv' /\ Kept
        /\ workspaces' \in {Append(workspaces, ws), Erase(Append(workspaces, ws), active)}
    BY <1>1, <1>3, <1>4, LeaveKeeps
  <1> QED
    BY <1>1, <1>5, SameRows DEF WL!Next, WL!Extend, WL!Leave

\* A window a command may take along.
LEMMA TakenIs ==
    \A take : Taken(take) \in {focus, NoWindow}
  BY DEF Taken

\* workspace_begin, _up, _down and _end: the neighbours are listed, and other
\* than the active workspace.
LEMMA BeginKeeps ==
    ASSUME IInv, NEW take \in BOOLEAN, workspace_begin(take)
    PROVE  IInv' /\ WL!Next /\ Kept
  <1>1. Head(workspaces) \in Listed(workspaces) \ {active}
    BY ActiveIsWorkspace DEF workspace_begin, Listed, ToSet
  <1> QED
    BY <1>1, TakenIs, GoToKeeps DEF workspace_begin

LEMMA EndKeeps ==
    ASSUME IInv, NEW take \in BOOLEAN, workspace_end(take)
    PROVE  IInv' /\ WL!Next /\ Kept
  BY TakenIs, GoToNewKeeps DEF workspace_end

LEMMA UpKeeps ==
    ASSUME IInv, NEW take \in BOOLEAN, workspace_up(take)
    PROVE  IInv' /\ WL!Next /\ Kept
  <1> DEFINE p == Position(workspaces, active)
  <1>1. p \in 1..Len(workspaces) /\ workspaces[p] = active
    BY PositionFinds DEF IInv, TypeOK, ActiveIsListed
  <1> HIDE DEF p
  <1>2. p # 1
    BY <1>1, ActiveIsWorkspace DEF workspace_up
  <1>3. p - 1 \in 1..Len(workspaces)
    BY <1>1, <1>2, ActiveIsWorkspace
  <1>4. workspaces[p - 1] # active
    BY <1>1, <1>3 DEF IInv, ActiveIsListed, NoRepeats
  <1>5. workspaces[p - 1] \in Listed(workspaces) \ {active}
    BY <1>3, <1>4, ActiveIsWorkspace DEF Listed, ToSet
  <1> QED
    BY <1>5, TakenIs, GoToKeeps DEF workspace_up, p

LEMMA DownKeeps ==
    ASSUME IInv, NEW take \in BOOLEAN, workspace_down(take)
    PROVE  IInv' /\ WL!Next /\ Kept
  <1> DEFINE p == Position(workspaces, active)
  <1>1. p \in 1..Len(workspaces) /\ workspaces[p] = active
    BY PositionFinds DEF IInv, TypeOK, ActiveIsListed
  <1>2. CASE active = workspaces[Len(workspaces)]
    BY <1>2, TakenIs, GoToNewKeeps DEF workspace_down
  <1>3. CASE active # workspaces[Len(workspaces)]
    <2>1. GoTo(workspaces[p + 1], Taken(take))
      BY <1>3 DEF workspace_down
    <2> HIDE DEF p
    <2>2. p + 1 \in 1..Len(workspaces)
      BY <1>1, <1>3, ActiveIsWorkspace
    <2>3. workspaces[p + 1] # active
      BY <1>1, <2>2 DEF IInv, ActiveIsListed, NoRepeats
    <2>4. workspaces[p + 1] \in Listed(workspaces) \ {active}
      BY <2>2, <2>3, ActiveIsWorkspace DEF Listed, ToSet
    <2> QED BY <2>1, <2>4, TakenIs, GoToKeeps
  <1> QED
    BY <1>2, <1>3

\* The activator callback, for a workspace still listed.
LEMMA ActivateKeeps ==
    ASSUME IInv, ~StaleActivation, NEW ws \in Workspace, ActivateRequest(ws)
    PROVE  IInv' /\ WL!Next /\ Kept
  <1>1. ws \in Listed(workspaces) \ {active} /\ GoTo(ws, NoWindow)
    BY DEF ActivateRequest, GoTo
  <1> QED
    BY <1>1, GoToKeeps

\* A step that only moves the focus, to a window in view or to none.
LEMMA FocusKeeps ==
    ASSUME IInv, focus' \in Seen(info) \cup {NoWindow},
           UNCHANGED <<workspaces, active, remembered, live, parent, layer, member, info>>
    PROVE  IInv'
  <1>1. TypeOK'
    BY DEF IInv, TypeOK, Seen
  <1>2. /\ ActiveIsListed' /\ HiddenIffElsewhere' /\ HiddenStaysHidden' /\ OneHome'
        /\ TreeTogether' /\ Kinship' /\ Forgotten' /\ FocusSeen'
    BY DEF IInv, ActiveIsListed, HiddenIffElsewhere, HiddenStaysHidden, OneHome, App,
           TreeTogether, Kinship, Forgotten, FocusSeen, Seen
  <1> QED
    BY <1>1, <1>2 DEF IInv

\* Raising a hidden window switches to the workspace it is in.
LEMMA RaiseKeeps ==
    ASSUME IInv, NEW w \in Window, handle_raise_window(w)
    PROVE  IInv' /\ ((WL!Next /\ Kept) \/ UNCHANGED <<workspaces, active>>)
  <1>1. w \in live /\ UNCHANGED <<workspaces, live, parent, layer>>
    BY DEF handle_raise_window, tools
  <1>2. CASE info[w].in_hidden_workspace
    <2>1. PICK ws \in member[w] \ {active} :
             LET c == change_active_workspace(ws, active, NoWindow)
             IN  /\ active' = ws
                 /\ remembered' = c.remembered
                 /\ member' = c.member
                 /\ info' = c.info
                 /\ focus' \in IF w \in Seen(c.info) THEN {w} ELSE c.focus
      BY <1>2 DEF handle_raise_window
    <2> DEFINE c == change_active_workspace(ws, active, NoWindow)
    <2>2. ws \in Listed(workspaces) /\ ws \in Workspace \ {active}
      BY <1>1, <2>1 DEF IInv, HiddenIffElsewhere, TypeOK
    <2>3. /\ c.member \in [Window -> SUBSET Workspace]
          /\ c.info \in [Window -> Info]
          /\ c.remembered \in [Workspace -> Window \cup {NoWindow}]
          /\ c.focus \subseteq Seen(c.info) \cup {NoWindow}
          /\ \A v \in Window :
                /\ Sound(c.info[v])
                /\ OwnState(c.info[v]) = OwnState(info[v])
                /\ c.member[v] \subseteq member[v] \cup {ws}
                /\ member[v] # {} => c.member[v] # {}
                /\ v \notin live => c.member[v] = {} /\ c.info[v] = info[v]
                /\ App(v) => \A a, b \in c.member[v] : a = b
                /\ v \in live => (c.info[v].in_hidden_workspace <=>
                       App(v) /\ c.member[v] # {} /\ ws \notin c.member[v])
                /\ parent[v] # NoWindow =>
                       /\ c.member[v] = c.member[parent[v]]
                       /\ c.info[v].in_hidden_workspace = c.info[parent[v]].in_hidden_workspace
      BY <2>2, Changed
    <2>4. /\ active' = ws /\ remembered' = c.remembered
          /\ member' = c.member /\ info' = c.info
          /\ focus' \in Seen(c.info) \cup {NoWindow}
      BY <2>1, <2>3
    <2> HIDE DEF c
    <2>5. live \subseteq Window /\ \A v \in Window : App(v)' <=> App(v)
      BY <1>1 DEF IInv, TypeOK, App
    <2>6. TypeOK'
      <3>1. focus' \in Window \cup {NoWindow}
        BY <2>4, <2>5 DEF Seen
      <3> QED BY <1>1, <2>2, <2>3, <2>4, <3>1 DEF IInv, TypeOK
    <2>7. ActiveIsListed'
      BY <1>1, <2>2, <2>4 DEF IInv, ActiveIsListed
    <2>8. HiddenIffElsewhere'
      <3> SUFFICES ASSUME NEW v \in live
                   PROVE  /\ info'[v].in_hidden_workspace
                               <=> App(v)' /\ member'[v] # {} /\ active' \notin member'[v]
                          /\ member'[v] \subseteq Listed(workspaces)
        BY <1>1 DEF HiddenIffElsewhere
      <3> QED BY <2>2, <2>3, <2>4, <2>5 DEF IInv, HiddenIffElsewhere
    <2>9. HiddenStaysHidden'
      BY <1>1, <2>3, <2>4, <2>5 DEF HiddenStaysHidden, Sound
    <2>10. OneHome'
      <3> SUFFICES ASSUME NEW v \in live, App(v), NEW a \in member'[v], NEW b \in member'[v]
                   PROVE  a = b
        BY <1>1, <2>5 DEF OneHome
      <3> QED BY <2>3, <2>4, <2>5
    <2>11. TreeTogether'
      <3>1. \A v \in live : parent[v] # NoWindow => parent[v] \in live
        BY DEF IInv, TreeTogether
      <3> QED BY <1>1, <2>3, <2>4, <2>5, <3>1 DEF TreeTogether
    <2>12. Kinship' /\ Forgotten' /\ FocusSeen'
      BY <1>1, <2>3, <2>4 DEF IInv, Kinship, Forgotten, FocusSeen, Seen
    <2>13. IInv'
      BY <2>6, <2>7, <2>8, <2>9, <2>10, <2>11, <2>12 DEF IInv
    <2>14. WL!Next
      BY <1>1, <2>2, <2>4, SameRows DEF WL!Next, WL!Switch, WL!Leave
    <2>15. Kept
      BY <2>3, <2>4, <2>5 DEF Kept
    <2> QED BY <2>13, <2>14, <2>15
  <1>3. CASE ~info[w].in_hidden_workspace
    <2>1. /\ UNCHANGED <<workspaces, active, remembered, live, parent, layer, member, info>>
          /\ focus' = IF w \in Seen(info) THEN w ELSE focus
      BY <1>1, <1>3 DEF handle_raise_window
    <2>2. focus' \in Seen(info) \cup {NoWindow}
      BY <2>1 DEF IInv, FocusSeen
    <2> QED BY <2>1, <2>2, FocusKeeps
  <1> QED
    BY <1>2, <1>3

\* Toggling always_on_top takes the family out of the active workspace, or puts
\* it there; either way it stays in view.
LEMMA AlwaysOnTopKeeps ==
    ASSUME IInv, toggle_always_on_top
    PROVE  IInv' /\ UNCHANGED <<workspaces, active>>
  <1>1. /\ App(focus)
        /\ UNCHANGED <<workspaces, active, remembered, live, parent, focus>>
        /\ layer' \in [Window -> Layer]
        /\ \A w \in Window : is_application(layer'[w]) <=> is_application(layer[w])
    BY DEF toggle_always_on_top, IInv, TypeOK, Layer, App, is_application
  <1>2. \A w \in Tree(focus) : /\ w \in live /\ ~info[w].in_hidden_workspace
                               /\ App(w) /\ member[w] \subseteq {active}
    BY <1>1, TreeOfFocus
  <1>3. /\ active \in Workspace /\ active \in Listed(workspaces)
        /\ live \subseteq Window
    BY ActiveIsWorkspace DEF IInv, ActiveIsListed, TypeOK
  <1>4. info' = info
    <2>1. CASE layer[focus] = "application"
      BY <2>1 DEF toggle_always_on_top
    <2>2. CASE layer[focus] # "application"
      <3>1. info' = ShowAll(info, Added(member, focus, active))
        BY <2>2 DEF toggle_always_on_top
      <3>2. \A w \in Window : w \in Added(member, focus, active) =>
                apply_workspace_visible_to(info[w]) = info[w]
        BY <1>2, InfoSound, HideShow DEF Added
      <3>3. info = [w \in Window |-> info[w]]
        BY DEF IInv, TypeOK
      <3> QED BY <3>1, <3>2, <3>3 DEF ShowAll
    <2> QED BY <2>1, <2>2
  <1>5. \/ \A w \in Window : member'[w] = IF w \in Tree(focus) THEN member[w] \ {active}
                                          ELSE member[w]
        \/ \A w \in Window : member'[w] = IF w \in Tree(focus) THEN member[w] \cup {active}
                                          ELSE member[w]
    BY DEF toggle_always_on_top, RemoveTree, AddTree
  <1>6. \A w \in Window : /\ w \in Tree(focus) => member'[w] \subseteq {active}
                          /\ w \notin Tree(focus) => member'[w] = member[w]
    BY <1>2, <1>5
  <1>7. TypeOK'
    <2>1. member' \in [Window -> SUBSET Workspace]
      <3>1. member' = [w \in Window |-> member'[w]]
        BY DEF toggle_always_on_top, RemoveTree, AddTree
      <3>2. \A w \in Window : member'[w] \subseteq Workspace
        BY <1>3, <1>6 DEF IInv, TypeOK
      <3> QED BY <3>1, <3>2
    <2> QED BY <1>1, <1>4, <2>1 DEF IInv, TypeOK
  <1>8. HiddenIffElsewhere'
    <2> SUFFICES ASSUME NEW w \in live
                 PROVE  /\ info[w].in_hidden_workspace
                             <=> App(w) /\ member'[w] # {} /\ active \notin member'[w]
                        /\ member'[w] \subseteq Listed(workspaces)
      BY <1>1, <1>3, <1>4 DEF HiddenIffElsewhere, App
    <2>1. CASE w \in Tree(focus)
      BY <1>2, <1>3, <1>6, <2>1
    <2>2. CASE w \notin Tree(focus)
      BY <1>3, <1>6, <2>2 DEF IInv, HiddenIffElsewhere
    <2> QED BY <2>1, <2>2
  <1>9. OneHome'
    <2> SUFFICES ASSUME NEW w \in live, App(w), NEW a \in member'[w], NEW b \in member'[w]
                 PROVE  a = b
      BY <1>1, <1>3 DEF OneHome, App
    <2> QED BY <1>3, <1>6 DEF IInv, OneHome
  <1>10. TreeTogether'
    <2>1. ASSUME NEW w \in live, parent[w] # NoWindow
          PROVE  /\ parent[w] \in live
                 /\ member'[w] = member'[parent[w]]
                 /\ info[w].in_hidden_workspace = info[parent[w]].in_hidden_workspace
      <3>1. /\ parent[w] \in live /\ member[w] = member[parent[w]]
            /\ info[w].in_hidden_workspace = info[parent[w]].in_hidden_workspace
        BY <2>1 DEF IInv, TreeTogether
      <3>2. Root(w) = Root(parent[w])
        BY <1>3, <2>1 DEF IInv, Kinship, Root
      <3>3. w \in Tree(focus) <=> parent[w] \in Tree(focus)
        BY <3>1, <3>2 DEF Tree
      <3> QED BY <1>3, <1>5, <3>1, <3>3
    <2> QED BY <1>1, <1>4, <2>1 DEF TreeTogether
  <1>11. Kinship'
    BY <1>1, <1>3 DEF IInv, Kinship
  <1>12. Forgotten'
    <2>1. \A w \in Window \ live : w \notin Tree(focus)
      BY <1>2
    <2> QED BY <1>1, <1>4, <1>6, <2>1 DEF IInv, Forgotten
  <1>13. ActiveIsListed' /\ HiddenStaysHidden' /\ FocusSeen'
    BY <1>1, <1>4 DEF IInv, ActiveIsListed, HiddenStaysHidden, FocusSeen, Seen
  <1> QED
    BY <1>1, <1>7, <1>8, <1>9, <1>10, <1>11, <1>12, <1>13 DEF IInv

\* A change of the state of one window not hidden with its workspace.
LEMMA StateKeeps ==
    ASSUME IInv, NEW w \in Window, w \in live, ~info[w].in_hidden_workspace,
           NEW st \in WState, info' = [info EXCEPT ![w].state = st],
           focus' \in Seen(info') \cup {NoWindow},
           UNCHANGED <<workspaces, active, remembered, live, parent, layer, member>>
    PROVE  IInv'
  <1>1. /\ info' \in [Window -> Info]
        /\ \A v \in Window : /\ info'[v].in_hidden_workspace = info[v].in_hidden_workspace
                             /\ v # w => info'[v] = info[v]
    BY DEF IInv, TypeOK, Info
  <1>2. live \subseteq Window
    BY DEF IInv, TypeOK
  <1>3. TypeOK'
    BY <1>1, <1>2 DEF IInv, TypeOK, Seen
  <1>4. ActiveIsListed' /\ HiddenIffElsewhere' /\ OneHome'
    BY <1>1, <1>2 DEF IInv, ActiveIsListed, HiddenIffElsewhere, OneHome, App
  <1>5. HiddenStaysHidden'
    BY <1>1, <1>2 DEF IInv, HiddenStaysHidden
  <1>6. TreeTogether'
    BY <1>1, <1>2 DEF IInv, TreeTogether
  <1>7. Kinship' /\ Forgotten' /\ FocusSeen'
    BY <1>1 DEF IInv, Kinship, Forgotten, FocusSeen, Seen
  <1> QED
    BY <1>3, <1>4, <1>5, <1>6, <1>7 DEF IInv

\* toggle_maximized_restored acts on the active window, which is in view.
LEMMA MaximizedKeeps ==
    ASSUME IInv, toggle_maximized_restored
    PROVE  IInv' /\ UNCHANGED <<workspaces, active>>
  <1> DEFINE st == IF info[focus].state = "restored" THEN "maximized" ELSE "restored"
  <1>1. /\ focus \in live /\ focus \in Window /\ focus # NoWindow
        /\ UNCHANGED <<workspaces, active, remembered, live, parent, layer, member, focus>>
    BY NoneAssumption DEF toggle_maximized_restored, App, tools, IInv, TypeOK
  <1>2. info' = [info EXCEPT ![focus].state = st]
    BY DEF toggle_maximized_restored
  <1>3. ~info[focus].in_hidden_workspace
    BY <1>1 DEF IInv, FocusSeen, Seen, HiddenStaysHidden
  <1>4. st \in WState /\ st \notin {"hidden", "minimized"}
    BY StateAssumption
  <1> HIDE DEF st
  <1>5. focus' \in Seen(info')
    BY <1>1, <1>2, <1>4 DEF Seen, IInv, TypeOK, Info
  <1> QED
    BY <1>1, <1>2, <1>3, <1>4, <1>5, StateKeeps

\* A client's request for another state.
LEMMA ModifyKeeps ==
    ASSUME IInv, NEW w \in Window, NEW st \in WState, handle_modify_window(w, st)
    PROVE  IInv' /\ UNCHANGED <<workspaces, active>>
  <1>1. /\ w \in live
        /\ info' = [info EXCEPT ![w] = Modified(info[w], st)]
        /\ focus' \in Seen(info') \cup {NoWindow}
        /\ UNCHANGED <<workspaces, active, remembered, live, parent, layer, member>>
    BY DEF handle_modify_window, KeepOrShift, FocusShift, tools
  <1>2. CASE info[w].in_hidden_workspace
    <2>1. info' = info
      BY <1>1, <1>2 DEF Modified, IInv, TypeOK
    <2> QED BY <1>1, <2>1, FocusKeeps
  <1>3. CASE ~info[w].in_hidden_workspace
    <2>1. info' = [info EXCEPT ![w].state = st]
      BY <1>1, <1>3 DEF Modified
    <2> QED BY <1>1, <1>3, <2>1, StateKeeps
  <1> QED
    BY <1>2, <1>3

\* A new window joins the active workspace, or its parent wherever that is.
LEMMA NewKeeps ==
    ASSUME IInv, NEW w \in Window, NEW p \in Window \cup {NoWindow}, NEW l \in Layer,
           NEW st \in WState, advise_new_window(w, p, l, st)
    PROVE  IInv' /\ UNCHANGED <<workspaces, active>>
  <1>1. /\ w \notin live /\ live' = live \cup {w}
        /\ p # NoWindow => /\ p \in live /\ parent[p] = NoWindow
                           /\ is_application(l) <=> is_application(layer[p])
        /\ parent' = [parent EXCEPT ![w] = p]
        /\ layer' = [layer EXCEPT ![w] = l]
        /\ member' = [member EXCEPT ![w] = IF p = NoWindow THEN {active} ELSE member[p]]
        /\ info' = [info EXCEPT ![w] = NewInfo(p, st)]
        /\ UNCHANGED <<workspaces, active, remembered, focus>>
    BY DEF advise_new_window
  <1>2. /\ live \subseteq Window
        /\ parent \in [Window -> Window \cup {NoWindow}]
        /\ layer \in [Window -> Layer]
        /\ member \in [Window -> SUBSET Workspace]
        /\ info \in [Window -> Info]
        /\ active \in Workspace /\ active \in Listed(workspaces)
    BY ActiveIsWorkspace DEF IInv, TypeOK, ActiveIsListed
  <1>3. /\ Sound(NewInfo(p, st))
        /\ NewInfo(p, st).in_hidden_workspace
              = (p # NoWindow /\ info[p].in_hidden_workspace)
    <2>1. Sound(make_workspace_info(st)) /\ make_workspace_info(st).in_hidden_workspace = FALSE
      BY DEF Sound, Info, make_workspace_info
    <2>2. /\ Sound(apply_workspace_hidden_to(make_workspace_info(st)))
          /\ apply_workspace_hidden_to(make_workspace_info(st)).in_hidden_workspace = TRUE
      BY <2>1, HideShow DEF Sound, Info
    <2>3. CASE p # NoWindow /\ info[p].in_hidden_workspace
      BY <2>2, <2>3 DEF NewInfo
    <2>4. CASE ~(p # NoWindow /\ info[p].in_hidden_workspace)
      BY <2>1, <2>4 DEF NewInfo
    <2> QED BY <2>3, <2>4
  <1>4. \A v \in Window : /\ v # w => /\ parent'[v] = parent[v] /\ layer'[v] = layer[v]
                                      /\ member'[v] = member[v] /\ info'[v] = info[v]
                                      /\ App(v)' <=> App(v)
                          /\ v \in live => v # w
                          /\ parent[v] # w
    <2>1. \A v \in Window : parent[v] # w
      BY <1>1, NoneAssumption DEF IInv, Kinship
    <2> QED BY <1>1, <1>2, <2>1 DEF App
  <1>5. /\ parent'[w] = p /\ layer'[w] = l /\ info'[w] = NewInfo(p, st)
        /\ member'[w] = IF p = NoWindow THEN {active} ELSE member[p]
        /\ App(w)' <=> is_application(l)
    BY <1>1, <1>2 DEF App
  <1>6. p # NoWindow => (App(p) <=> is_application(l)) /\ p \in Window /\ p # w
    BY <1>1, <1>2 DEF App
  <1>7. TypeOK'
    BY <1>1, <1>2, <1>3 DEF IInv, TypeOK, Sound
  <1>8. HiddenIffElsewhere'
    <2>1. ASSUME NEW v \in live
          PROVE  /\ info'[v].in_hidden_workspace
                      <=> App(v)' /\ member'[v] # {} /\ active \notin member'[v]
                 /\ member'[v] \subseteq Listed(workspaces)
      BY <1>2, <1>4 DEF IInv, HiddenIffElsewhere
    <2>2. /\ info'[w].in_hidden_workspace
                <=> App(w)' /\ member'[w] # {} /\ active \notin member'[w]
          /\ member'[w] \subseteq Listed(workspaces)
      <3>1. CASE p = NoWindow
        BY <1>2, <1>3, <1>5, <3>1
      <3>2. CASE p # NoWindow
        <4>1. /\ info[p].in_hidden_workspace
                    <=> App(p) /\ member[p] # {} /\ active \notin member[p]
              /\ member[p] \subseteq Listed(workspaces)
          BY <1>1, <3>2 DEF IInv, HiddenIffElsewhere
        <4> QED BY <1>3, <1>5, <1>6, <3>2, <4>1
      <3> QED BY <3>1, <3>2
    <2> QED BY <1>1, <2>1, <2>2 DEF HiddenIffElsewhere
  <1>9. HiddenStaysHidden'
    BY <1>1, <1>2, <1>3, <1>4, <1>5 DEF IInv, HiddenStaysHidden, Sound
  <1>10. OneHome'
    <2>1. ASSUME NEW v \in live, App(v)', NEW a \in member'[v], NEW b \in member'[v]
          PROVE  a = b
      BY <1>2, <1>4, <2>1 DEF IInv, OneHome
    <2>2. ASSUME App(w)', NEW a \in member'[w], NEW b \in member'[w]
          PROVE  a = b
      BY <1>1, <1>5, <1>6, <2>2 DEF IInv, OneHome
    <2> QED BY <1>1, <2>1, <2>2 DEF OneHome
  <1>11. TreeTogether'
    <2>1. ASSUME NEW v \in live, parent'[v] # NoWindow
          PROVE  /\ parent'[v] \in live'
                 /\ member'[v] = member'[parent'[v]]
                 /\ info'[v].in_hidden_workspace = info'[parent'[v]].in_hidden_workspace
      BY <1>1, <1>2, <1>4, <2>1 DEF IInv, TreeTogether
    <2>2. ASSUME p # NoWindow
          PROVE  /\ p \in live'
                 /\ member'[w] = member'[p]
                 /\ info'[w].in_hidden_workspace = info'[p].in_hidden_workspace
      <3>1. info[p].in_hidden_workspace \in BOOLEAN
        BY <1>2, <1>6, <2>2 DEF Info
      <3> QED BY <1>1, <1>3, <1>4, <1>5, <1>6, <2>2, <3>1
    <2> QED BY <1>1, <1>5, <2>1, <2>2 DEF TreeTogether
  <1>12. Kinship'
    BY <1>1, <1>2, <1>4, <1>5, <1>6 DEF IInv, Kinship
  <1>13. Forgotten'
    BY <1>1, <1>4 DEF IInv, Forgotten
  <1>14. ActiveIsListed' /\ FocusSeen'
    BY <1>1, <1>2, <1>4 DEF IInv, ActiveIsListed, FocusSeen, Seen
  <1> QED
    BY <1>1, <1>7, <1>8, <1>9, <1>10, <1>11, <1>12, <1>13, <1>14 DEF IInv

\* A deleted window leaves nothing behind in the invariant.
LEMMA DeleteKeeps ==
    ASSUME IInv, NEW w \in Window, advise_delete_window(w)
    PROVE  IInv' /\ UNCHANGED <<workspaces, active>>
  <1>1. /\ w \in live /\ live' = live \ {w}
        /\ parent' = [v \in Window |-> IF v = w \/ parent[v] = w THEN NoWindow ELSE parent[v]]
        /\ layer' = [layer EXCEPT ![w] = "application"]
        /\ member' = [member EXCEPT ![w] = {}]
        /\ info' = [info EXCEPT ![w] = make_workspace_info("restored")]
        /\ focus' \in IF focus = w THEN FocusShift(info, w) ELSE {focus}
        /\ UNCHANGED <<workspaces, active, remembered>>
    BY DEF advise_delete_window
  <1>2. /\ live \subseteq Window
        /\ parent \in [Window -> Window \cup {NoWindow}]
        /\ layer \in [Window -> Layer]
        /\ member \in [Window -> SUBSET Workspace]
        /\ info \in [Window -> Info]
    BY DEF IInv, TypeOK
  <1>3. /\ make_workspace_info("restored") \in Info
        /\ make_workspace_info("restored").in_hidden_workspace = FALSE
    BY StateAssumption DEF make_workspace_info, Info
  <1>4. \A v \in Window : v # w =>
            /\ layer'[v] = layer[v] /\ member'[v] = member[v] /\ info'[v] = info[v]
            /\ App(v)' <=> App(v)
            /\ parent'[v] = IF parent[v] = w THEN NoWindow ELSE parent[v]
    BY <1>1, <1>2 DEF App
  <1>5. /\ parent'[w] = NoWindow /\ member'[w] = {} /\ ~info'[w].in_hidden_workspace
    BY <1>1, <1>2, <1>3
  <1>6. \A v \in live' : v \in live /\ v \in Window /\ v # w
    BY <1>1, <1>2
  <1>7. focus' \in Seen(info)' \cup {NoWindow}
    <2>1. \A v : v \in Seen(info) /\ v # w => v \in Seen(info)'
      BY <1>1, <1>2, <1>4 DEF Seen
    <2>2. CASE focus = w
      BY <1>1, <2>1, <2>2 DEF FocusShift
    <2>3. CASE focus # w
      BY <1>1, <2>1, <2>3 DEF IInv, FocusSeen
    <2> QED BY <2>2, <2>3
  <1>8. TypeOK'
    <2>1. /\ parent' \in [Window -> Window \cup {NoWindow}]
          /\ layer' \in [Window -> Layer]
          /\ member' \in [Window -> SUBSET Workspace]
          /\ info' \in [Window -> Info]
      BY <1>1, <1>2, <1>3 DEF Layer
    <2>2. live' \subseteq Window /\ focus' \in Window \cup {NoWindow}
      BY <1>1, <1>2, <1>7 DEF Seen
    <2> QED BY <1>1, <2>1, <2>2 DEF IInv, TypeOK
  <1>9. HiddenIffElsewhere'
    BY <1>1, <1>4, <1>6 DEF IInv, HiddenIffElsewhere
  <1>10. HiddenStaysHidden'
    BY <1>4, <1>6 DEF IInv, HiddenStaysHidden
  <1>11. OneHome'
    BY <1>4, <1>6 DEF IInv, OneHome
  <1>12. TreeTogether'
    <2> SUFFICES ASSUME NEW v \in live', parent'[v] # NoWindow
                 PROVE  /\ parent'[v] \in live'
                        /\ member'[v] = member'[parent'[v]]
                        /\ info'[v].in_hidden_workspace = info'[parent'[v]].in_hidden_workspace
      BY DEF TreeTogether
    <2>1. parent'[v] = parent[v] /\ parent[v] # w /\ parent[v] # NoWindow
      BY <1>4, <1>6
    <2>2. parent[v] \in live /\ parent[v] \in Window
      BY <1>2, <1>6, <2>1 DEF IInv, TreeTogether
    <2> QED BY <1>1, <1>4, <1>6, <2>1, <2>2 DEF IInv, TreeTogether
  <1>13. Kinship'
    <2> SUFFICES ASSUME NEW v \in Window, parent'[v] # NoWindow
                 PROVE  /\ v \in live' /\ parent'[v] \in live'
                        /\ parent'[parent'[v]] = NoWindow
                        /\ is_application(layer'[v]) <=> is_application(layer'[parent'[v]])
      BY DEF Kinship
    <2>1. v # w /\ parent'[v] = parent[v] /\ parent[v] # w /\ parent[v] # NoWindow
      BY <1>4, <1>5
    <2>2. /\ v \in live /\ parent[v] \in live /\ parent[v] \in Window
          /\ parent[parent[v]] = NoWindow
          /\ is_application(layer[v]) <=> is_application(layer[parent[v]])
      BY <1>2, <2>1 DEF IInv, Kinship
    <2> QED BY <1>1, <1>4, <2>1, <2>2
  <1>14. Forgotten'
    <2> SUFFICES ASSUME NEW v \in Window, v \notin live'
                 PROVE  parent'[v] = NoWindow /\ member'[v] = {} /\ ~info'[v].in_hidden_workspace
      BY DEF Forgotten
    <2>1. CASE v = w
      BY <1>5, <2>1
    <2>2. CASE v # w
      BY <1>1, <1>4, <2>2 DEF IInv, Forgotten
    <2> QED BY <2>1, <2>2
  <1>15. ActiveIsListed'
    BY <1>1 DEF IInv, ActiveIsListed
  <1>16. FocusSeen'
    BY <1>7 DEF FocusSeen
  <1> QED
    BY <1>1, <1>8, <1>9, <1>10, <1>11, <1>12, <1>13, <1>14, <1>15, <1>16 DEF IInv
-----------------------------------------------------------------------------
\* A manager just constructed: one workspace, active, and no window.
LEMMA InitKeeps ==
    ASSUME Init
    PROVE  IInv /\ WL!Init
  <1>1. PICK ws \in Workspace : workspaces = <<ws>> /\ active = ws
    BY DEF Init
  <1>2. /\ workspaces \in Seq(Workspace) /\ Len(workspaces) = 1 /\ workspaces[1] = ws
    BY <1>1
  <1>3. ActiveIsListed
    BY <1>1, <1>2 DEF ActiveIsListed, NoRepeats, Listed, ToSet
  <1>4. TypeOK
    BY <1>1, <1>2, StateAssumption
       DEF Init, TypeOK, Info, make_workspace_info, Layer
  <1>5. HiddenIffElsewhere /\ HiddenStaysHidden /\ OneHome /\ TreeTogether
    BY DEF Init, HiddenIffElsewhere, HiddenStaysHidden, OneHome, TreeTogether
  <1>6. Kinship /\ Forgotten
    BY DEF Init, Kinship, Forgotten, make_workspace_info
  <1>7. FocusSeen
    BY DEF Init, FocusSeen
  <1>8. WL!Init
    BY <1>1 DEF WL!Init
  <1> QED
    BY <1>3, <1>4, <1>5, <1>6, <1>7, <1>8 DEF IInv

\* Every step keeps the invariant, and is a step of WorkspaceList or none.
LEMMA NextKeeps ==
    ASSUME ~StaleActivation, IInv, [Next]_vars
    PROVE  IInv' /\ [WL!Next /\ Kept]_<<workspaces, active>>
  <1>1. ASSUME NEW take \in BOOLEAN, workspace_begin(take)
        PROVE  IInv' /\ WL!Next /\ Kept
    BY <1>1, BeginKeeps
  <1>2. ASSUME NEW take \in BOOLEAN, workspace_end(take)
        PROVE  IInv' /\ WL!Next /\ Kept
    BY <1>2, EndKeeps
  <1>3. ASSUME NEW take \in BOOLEAN, workspace_up(take)
        PROVE  IInv' /\ WL!Next /\ Kept
    BY <1>3, UpKeeps
  <1>4. ASSUME NEW take \in BOOLEAN, workspace_down(take)
        PROVE  IInv' /\ WL!Next /\ Kept
    BY <1>4, DownKeeps
  <1>5. CASE toggle_always_on_top
    BY <1>5, AlwaysOnTopKeeps
  <1>6. CASE toggle_maximized_restored
    BY <1>6, MaximizedKeeps
  <1>7. ASSUME NEW w \in Window, NEW p \in Window \cup {NoWindow}, NEW l \in Opened,
               NEW st \in Asked, advise_new_window(w, p, l, st)
        PROVE  IInv' /\ UNCHANGED <<workspaces, active>>
    <2>1. l \in Layer /\ st \in WState
      BY LayerAssumption, StateAssumption
    <2> QED BY <1>7, <2>1, NewKeeps
  <1>8. ASSUME NEW w \in Window, advise_delete_window(w)
        PROVE  IInv' /\ UNCHANGED <<workspaces, active>>
    BY <1>8, DeleteKeeps
  <1>9. ASSUME NEW w \in Window, handle_raise_window(w)
        PROVE  IInv' /\ ((WL!Next /\ Kept) \/ UNCHANGED <<workspaces, active>>)
    BY <1>9, RaiseKeeps
  <1>10. ASSUME NEW w \in Window, NEW st \in Asked, handle_modify_window(w, st)
         PROVE  IInv' /\ UNCHANGED <<workspaces, active>>
    <2>1. st \in WState
      BY StateAssumption
    <2> QED BY <1>10, <2>1, ModifyKeeps
  <1>11. CASE FocusMoves
    <2>1. /\ focus' \in Seen(info) \cup {NoWindow}
          /\ UNCHANGED <<workspaces, active, remembered, live, parent, layer, member, info>>
      BY <1>11 DEF FocusMoves, tools
    <2> QED BY <2>1, FocusKeeps
  <1>12. ASSUME NEW ws \in Workspace, ActivateRequest(ws)
         PROVE  IInv' /\ WL!Next /\ Kept
    BY <1>12, ActivateKeeps
  <1>13. CASE UNCHANGED vars
    <2>1. /\ focus' \in Seen(info) \cup {NoWindow}
          /\ UNCHANGED <<workspaces, active, remembered, live, parent, layer, member, info>>
      BY <1>13 DEF vars, tools, IInv, FocusSeen
    <2> QED BY <2>1, FocusKeeps
  <1>14. CASE Command
    BY <1>1, <1>2, <1>3, <1>4, <1>5, <1>6, <1>14 DEF Command
  <1>15. CASE Hook
    BY <1>7, <1>8, <1>9, <1>10, <1>11, <1>12, <1>15 DEF Hook
  <1> QED
    BY <1>13, <1>14, <1>15 DEF Next
-----------------------------------------------------------------------------
\* The inductive invariant holds throughout, for any number of workspaces and
\* windows, when the activator is only ever called for listed workspaces.
THEOREM Invariance ==
    ASSUME ~StaleActivation
    PROVE  Spec => []IInv
  <1>1. Init => IInv
    BY InitKeeps
  <1>2. IInv /\ [Next]_vars => IInv'
    BY NextKeeps
  <1> QED
    BY <1>1, <1>2, PTL DEF Spec

\* Type correctness of the manager's and of Mir's state.
THEOREM TypeCorrect ==
    ASSUME ~StaleActivation
    PROVE  Spec => []TypeOK
  <1>1. IInv => TypeOK
    BY DEF IInv
  <1> QED
    BY <1>1, Invariance, PTL

\* active_workspace_ can always be dereferenced, and is the only element of the
\* list that compares equal to it.
THEOREM AlwaysListed ==
    ASSUME ~StaleActivation
    PROVE  Spec => []ActiveIsListed
  <1>1. IInv => ActiveIsListed
    BY DEF IInv
  <1> QED
    BY <1>1, Invariance, PTL

\* No window is ever hidden in the active workspace, seen in another one, or
\* lost in a workspace that has been erased.
THEOREM HiddenWhereItShould ==
    ASSUME ~StaleActivation
    PROVE  Spec => []HiddenIffElsewhere
  <1>1. IInv => HiddenIffElsewhere
    BY DEF IInv
  <1> QED
    BY <1>1, Invariance, PTL

\* Whatever clients ask for, a window hidden with its workspace stays out of
\* view and keeps a state to come back to.
THEOREM StaysHidden ==
    ASSUME ~StaleActivation
    PROVE  Spec => []HiddenStaysHidden
  <1>1. IInv => HiddenStaysHidden
    BY DEF IInv
  <1> QED
    BY <1>1, Invariance, PTL

\* An application window is never in two workspaces.
THEOREM Homes ==
    ASSUME ~StaleActivation
    PROVE  Spec => []OneHome
  <1>1. IInv => OneHome
    BY DEF IInv
  <1> QED
    BY <1>1, Invariance, PTL

\* A dialog is never in another workspace than its parent, nor hidden without
\* it, however many windows a family has.
THEOREM Families ==
    ASSUME ~StaleActivation
    PROVE  Spec => []TreeTogether
  <1>1. IInv => TreeTogether
    BY DEF IInv
  <1> QED
    BY <1>1, Invariance, PTL

\* The manager implements WorkspaceList: its users see a row that only grows at
\* the end and loses only the workspace being left.
THEOREM Implements ==
    ASSUME ~StaleActivation
    PROVE  Spec => ImplementsList
  <1>1. Init => WL!Init
    BY InitKeeps
  <1>2. IInv /\ [Next]_vars => [WL!Next]_<<workspaces, active>>
    BY NextKeeps
  <1> QED
    BY <1>1, <1>2, Invariance, PTL DEF Spec, ImplementsList, WL!Spec

\* Changing workspace never changes the state a window will be seen in again,
\* however many windows are shown and hidden on the way.
THEOREM StatesKept ==
    ASSUME ~StaleActivation
    PROVE  Spec => SwitchKeepsState
  <1>1. IInv /\ [Next]_vars =>
            [active' # active =>
                \A w \in live \cap live' : OwnState(info'[w]) = OwnState(info[w])]_vars
    BY NextKeeps DEF Kept
  <1>2. Spec => [][Next]_vars
    BY DEF Spec
  <1> QED
    BY <1>1, <1>2, Invariance, PTL DEF SwitchKeepsState

\* Changing workspace, and erasing the one left if it is empty, leaves no
\* application window without a workspace that it had.
THEOREM HomesKept ==
    ASSUME ~StaleActivation
    PROVE  Spec => SwitchKeepsHome
  <1>1. IInv /\ [Next]_vars =>
            [active' # active =>
                \A w \in live \cap live' :
                    App(w) /\ member[w] # {} => member'[w] # {}]_vars
    BY NextKeeps DEF Kept
  <1>2. Spec => [][Next]_vars
    BY DEF Spec
  <1> QED
    BY <1>1, <1>2, Invariance, PTL DEF SwitchKeepsHome
=============================================================================
