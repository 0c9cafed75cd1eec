-------------------------- MODULE ShortcutsProofs --------------------------
(***************************************************************************)
(* The invariant of Shortcuts, for any modifiers, keys, programs, windows  *)
(* and settings files, and what follows from it: the window count and with *)
(* it that exit ends no session that has work in it, that a live reload is *)
(* a restart unless it meets an unknown key, and that the switcher is not  *)
(* left on the screen.                                                     *)
(***************************************************************************)
EXTENDS Shortcuts, RowsProofs, FiniteSetTheorems

\* What the first n lines bind k to.
InForceUpTo(lines, n, k) ==
    LET mine == {i \in 1 .. n : lines[i].key = k /\ lines[i].does # None}
    IN  IF mine = {} THEN None
        ELSE lines[CHOOSE i \in mine : \A j \in mine : j <= i].does

\* The reload is at a line of the file, also after a handler that threw.
AtALine ==
    Running /\ loading # None => loading.line <= Len(loaded[Attributes[loading.at]])

\* How far the reload is, if no handler threw: indexes before the current one
\* are those of the new file, the current one is what its lines have made of it
\* since the clear.  What they held before does not matter.
ReloadSoFar ==
    Running /\ ~threw =>
        /\ loading = None =>
              \A ix \in Index : \A k \in Key : commands[ix][k] = InForce(loaded[ix], k)
        /\ loading # None =>
              /\ \A n \in 1 .. Len(Attributes) : n < loading.at =>
                    \A k \in Key :
                        commands[Attributes[n]][k] = InForce(loaded[Attributes[n]], k)
              /\ loading.line > 0 =>
                    \A k \in Key :
                        commands[Attributes[loading.at]][k] =
                            InForceUpTo(loaded[Attributes[loading.at]], loading.line - 1, k)

\* The event being handled is the last one: its modifiers are those held.
EventIsLast == event # None => event.mods = held

\* The switcher is open without Alt only until the event that let go of Alt has
\* been handled, or if that event was withheld from it.
AltIsUp ==
    is_running /\ "alt" \notin held =>
        missed \/ (event # None /\ event.action = "up")

\* TypeOK, but for the bound on the count, which is Counted's.
Typed ==
    /\ held \subseteq Modifier
    /\ event \in Event \cup {None}
    /\ lookup \in Search \cup {None}
    /\ is_locked \in BOOLEAN /\ shell_commands_active \in BOOLEAN
    /\ is_running \in BOOLEAN /\ missed \in BOOLEAN /\ threw \in BOOLEAN
    /\ commands \in [Index -> [Key -> Command \cup {None}]]
    /\ file \in Setting /\ loaded \in Setting /\ loading \in ReloadPoint \cup {None}
    /\ layer \in [Window -> Layer \cup {None}]
    /\ ended \in {"no", "exit", "fatal_error", "exception"}

IInv == Typed /\ Counted /\ AtALine /\ ReloadSoFar /\ EventIsLast /\ AltIsUp
-----------------------------------------------------------------------------
\* The largest of the lines that bind a key.

\* The lines of an index are lines.
LEMMA SettingLines ==
    ASSUME NEW f \in Setting, NEW ix \in Index
    PROVE  f[ix] \in Seq(Line)
  BY SettingAssumption

\* A command is typed: only a line that asks for something known binds its key.
LEMMA InForceTyped ==
    ASSUME NEW lines \in Seq(Line), NEW k \in Key
    PROVE  InForce(lines, k) \in Command \cup {None}
  <1> DEFINE mine == {i \in 1 .. Len(lines) : lines[i].key = k /\ lines[i].does # None}
             last == CHOOSE i \in mine : \A j \in mine : j <= i
  <1>1. CASE mine = {}
    BY <1>1 DEF InForce
  <1>2. CASE mine # {}
    <2>0. Len(lines) \in Nat /\ mine \subseteq 1 .. Len(lines)
      OBVIOUS
    <2> HIDE DEF mine
    <2>1. \E m \in mine : \A j \in mine : j <= m
      BY <2>0, <1>2, Greatest
    <2>2. last \in mine
      BY <2>1
    <2>3. last \in 1 .. Len(lines) /\ lines[last].does # None
      BY <2>2 DEF mine
    <2>4. lines[last] \in Line
      BY <2>3
    <2>5. lines[last].does \in Command \cup {None}
      BY <2>4 DEF Line
    <2>6. InForce(lines, k) = lines[last].does
      BY <1>2 DEF InForce, mine
    <2> QED BY <2>5, <2>6
  <1> QED BY <1>1, <1>2

\* Before the first line nothing is bound; the whole is what is in force.
LEMMA UpToEnds ==
    ASSUME NEW lines, NEW k
    PROVE  /\ InForceUpTo(lines, 0, k) = None
           /\ InForceUpTo(lines, Len(lines), k) = InForce(lines, k)
  <1>1. 1 .. 0 = {}
    OBVIOUS
  <1>2. InForceUpTo(lines, 0, k) = None
    BY <1>1 DEF InForceUpTo
  <1> QED BY <1>2 DEF InForceUpTo, InForce

\* One more line: it binds its key if it asks for something known.
LEMMA UpToNext ==
    ASSUME NEW lines, NEW n \in Nat, NEW k
    PROVE  InForceUpTo(lines, n + 1, k) =
               IF lines[n + 1].key = k /\ lines[n + 1].does # None THEN lines[n + 1].does
               ELSE InForceUpTo(lines, n, k)
  <1> DEFINE mine(m) == {i \in 1 .. m : lines[i].key = k /\ lines[i].does # None}
             last(S) == CHOOSE i \in S : \A j \in S : j <= i
             does(S) == IF S = {} THEN None ELSE lines[last(S)].does
  <1>3. InForceUpTo(lines, n, k) = does(mine(n))
    BY Zenon DEF InForceUpTo
  <1>4. InForceUpTo(lines, n + 1, k) = does(mine(n + 1))
    BY Zenon DEF InForceUpTo
  <1>1. CASE lines[n + 1].key = k /\ lines[n + 1].does # None
    <2>1. n + 1 \in mine(n + 1) /\ \A j \in mine(n + 1) : j <= n + 1
      BY <1>1
    <2>2. \A i \in mine(n + 1) : (\A j \in mine(n + 1) : j <= i) => i = n + 1
      <3> SUFFICES ASSUME NEW i \in mine(n + 1), \A j \in mine(n + 1) : j <= i
                   PROVE  i = n + 1
        OBVIOUS
      <3>1. i \in 1 .. (n + 1) /\ n + 1 <= i
        BY <2>1
      <3> QED BY <3>1
    <2> HIDE DEF mine
    <2>3. last(mine(n + 1)) = n + 1
      BY <2>1, <2>2
    <2>4. mine(n + 1) # {}
      BY <2>1
    <2> QED BY <1>1, <1>4, <2>3, <2>4
  <1>2. CASE ~(lines[n + 1].key = k /\ lines[n + 1].does # None)
    <2>1. ASSUME NEW i PROVE i \in mine(n + 1) <=> i \in mine(n)
      BY <1>2
    <2>2. mine(n + 1) = mine(n)
      BY <2>1
    <2> HIDE DEF mine, does
    <2>3. does(mine(n + 1)) = does(mine(n))
      BY <2>2
    <2> QED BY <1>2, <1>3, <1>4, <2>3
  <1> QED BY <1>1, <1>2
-----------------------------------------------------------------------------
\* The windows.

\* The bound of TypeOK on the count, and that no count means no window.
LEMMA CountBounds ==
    ASSUME Counted
    PROVE  /\ IsFiniteSet(Applications)
           /\ app_windows \in 0 .. Cardinality(Window)
           /\ app_windows = 0 => Applications = {}
  <1>1. Applications \in SUBSET Window
    BY DEF Applications
  <1>2. /\ IsFiniteSet(Applications) /\ Cardinality(Applications) <= Cardinality(Window)
    BY <1>1, FS_Subset, WindowAssumption
  <1>3. Cardinality(Window) \in Nat /\ Cardinality(Applications) \in Nat
    BY <1>2, FS_CardinalityType, WindowAssumption
  <1>4. Cardinality(Applications) = 0 => Applications = {}
    BY <1>2, FS_EmptySet
  <1> QED BY <1>2, <1>3, <1>4 DEF Counted

\* None is no layer.
LEMMA NoLayer == None \notin Layer
  BY NoneAssumption

\* A window of an application's layer is one application more.
LEMMA OpenKeeps ==
    ASSUME IInv, NEW w \in Window, advise_new_window(w)
    PROVE  IInv'
  <1> USE DEF IInv
  <1>1. PICK l \in Layer :
            /\ layer' = [layer EXCEPT ![w] = l]
            /\ app_windows' = IF is_application(l) THEN app_windows + 1 ELSE app_windows
    BY DEF advise_new_window
  <1>2. Counted'
    <2>1. w \notin Applications /\ IsFiniteSet(Applications)
      BY CountBounds DEF advise_new_window, Applications
    <2>2. CASE is_application(l)
      <3>1. Applications' = Applications \cup {w}
        BY <1>1, <2>2, NoLayer DEF Applications, Typed
      <3>2. Cardinality(Applications \cup {w}) = Cardinality(Applications) + 1
        BY <2>1, FS_AddElement
      <3> QED BY <1>1, <2>2, <3>1, <3>2 DEF Counted
    <2>3. CASE ~is_application(l)
      <3>1. Applications' = Applications
        BY <1>1, <2>1, <2>3 DEF Applications, Typed
      <3> QED BY <1>1, <2>3, <3>1 DEF Counted
    <2> QED BY <2>2, <2>3
  <1>3. Typed'
    BY <1>1 DEF Typed, advise_new_window, input, switches, settings
  <1>4. (AtALine /\ ReloadSoFar /\ EventIsLast /\ AltIsUp)'
    BY DEF AtALine, ReloadSoFar, EventIsLast, AltIsUp, advise_new_window, Running,
           input, switches, settings
  <1> QED BY <1>2, <1>3, <1>4

\* Raised above or not, an application's window stays one.
LEMMA ToggleKeeps ==
    ASSUME IInv, NEW w \in Window, toggle_always_on_top(w)
    PROVE  IInv'
  <1> USE DEF IInv
  <1>1. Applications' = Applications
    BY NoLayer DEF toggle_always_on_top, Applications, is_application, Typed, Layer
  <1>2. Counted'
    BY <1>1 DEF Counted, toggle_always_on_top
  <1>3. Typed'
    BY DEF Typed, toggle_always_on_top, input, switches, settings, Layer
  <1>4. (AtALine /\ ReloadSoFar /\ EventIsLast /\ AltIsUp)'
    BY DEF AtALine, ReloadSoFar, EventIsLast, AltIsUp, toggle_always_on_top, Running,
           input, switches, settings
  <1> QED BY <1>2, <1>3, <1>4

\* A window counted when it was opened is discounted when it goes.
LEMMA CloseKeeps ==
    ASSUME IInv, NEW w \in Window, advise_delete_window(w)
    PROVE  IInv'
  <1> USE DEF IInv
  <1>1. IsFiniteSet(Applications) /\ (w \in Applications <=> is_application(layer[w]))
    BY CountBounds DEF advise_delete_window, Applications
  <1>2. Applications' = Applications \ {w}
    BY DEF advise_delete_window, Applications, Typed
  <1>3. Cardinality(Applications \ {w}) =
            IF w \in Applications THEN Cardinality(Applications) - 1
            ELSE Cardinality(Applications)
    BY <1>1, FS_RemoveElement
  <1>4. Counted'
    BY <1>1, <1>2, <1>3 DEF Counted, advise_delete_window
  <1>5. Typed'
    BY DEF Typed, advise_delete_window, input, switches, settings
  <1>6. (AtALine /\ ReloadSoFar /\ EventIsLast /\ AltIsUp)'
    BY DEF AtALine, ReloadSoFar, EventIsLast, AltIsUp, advise_delete_window, Running,
           input, switches, settings
  <1> QED BY <1>4, <1>5, <1>6
-----------------------------------------------------------------------------
\* The reload.

\* The handlers are registered once for each index.
LEMMA AttributesAreIndexes ==
    /\ Len(Attributes) = 8
    /\ \A n \in 1 .. Len(Attributes) : Attributes[n] \in Index
    /\ \A m, n \in 1 .. Len(Attributes) : Attributes[m] = Attributes[n] => m = n
    /\ \A ix \in Index : \E n \in 1 .. Len(Attributes) : Attributes[n] = ix
  <1>1. Len(Attributes) = 8
    BY DEF Attributes
  <1>2. \A n \in 1 .. 8 : Attributes[n] \in Index
    BY DEF Attributes, Index, Rights, Chord
  <1>3. \A m, n \in 1 .. 8 : Attributes[m] = Attributes[n] => m = n
    BY DEF Attributes
  <1>4. \A ix \in Index : \E n \in 1 .. 8 : Attributes[n] = ix
    <2> SUFFICES ASSUME NEW r \in Rights, NEW c \in Chord
                 PROVE  \E n \in 1 .. 8 : Attributes[n] = <<r, c>>
      BY DEF Index
    <2>1. /\ Attributes[1] = <<"shell", "meta">> /\ Attributes[2] = <<"shell", "ctrl_alt">>
          /\ Attributes[3] = <<"shell", "alt">> /\ Attributes[7] = <<"shell", "plain">>
          /\ Attributes[4] = <<"app", "meta">> /\ Attributes[5] = <<"app", "ctrl_alt">>
          /\ Attributes[6] = <<"app", "alt">> /\ Attributes[8] = <<"app", "plain">>
      BY DEF Attributes
    <2>2. CASE r = "shell"
      BY <2>1, <2>2 DEF Chord
    <2>3. CASE r = "app"
      BY <2>1, <2>3 DEF Chord
    <2> QED BY <2>2, <2>3 DEF Rights
  <1> QED BY <1>1, <1>2, <1>3, <1>4

\* The file read becomes the one the reload works through, from its start.
LEMMA ReloadKeeps ==
    ASSUME IInv, Reload
    PROVE  IInv'
  <1> USE DEF IInv
  <1>1. loading' \in ReloadPoint /\ loading' = [at |-> 1, line |-> 0]
    BY AttributesAreIndexes DEF Reload, ReloadPoint
  <1>2. loading' # None
    BY <1>1, NoneAssumption
  <1>3. Typed'
    BY <1>1 DEF Typed, Reload, input, switches, windows
  <1>4. (\A n \in 1 .. Len(Attributes) : ~(n < loading.at))' /\ (loading.line = 0)'
    BY <1>1, AttributesAreIndexes
  <1>5. (loading.line <= Len(loaded[Attributes[loading.at]]))'
    <2>1. loaded' \in Setting /\ Attributes[1] \in Index
      BY AttributesAreIndexes DEF Typed, Reload
    <2>2. loaded'[Attributes[1]] \in Seq(Line)
      BY <2>1, SettingLines
    <2> QED BY <1>1, <2>2
  <1>6. AtALine' /\ ReloadSoFar'
    BY <1>2, <1>4, <1>5 DEF AtALine, ReloadSoFar
  <1>7. (Counted /\ EventIsLast /\ AltIsUp)'
    BY DEF Counted, Applications, EventIsLast, AltIsUp, Reload, input, switches, windows
  <1> QED BY <1>3, <1>6, <1>7

\* The commands one step of the reload leaves for the current index are those
\* of the lines up to and including the current one; others stay.
LEMMA StepCommands ==
    ASSUME IInv, ReloadStep, ended' = ended
    PROVE  /\ commands' \in [Index -> [Key -> Command \cup {None}]]
           /\ ~threw => \A k \in Key : commands'[LoadingIndex][k] =
                                 InForceUpTo(loaded[LoadingIndex], loading.line, k)
           /\ \A ix \in Index \ {LoadingIndex} : commands'[ix] = commands[ix]
  <1> DEFINE ix == LoadingIndex
             lines == loaded[ix]
  <1> USE DEF IInv
  <1>1. Running /\ loading \in ReloadPoint /\ loading # None
    BY DEF ReloadStep, Typed
  <1>2. loading.at \in 1 .. Len(Attributes) /\ loading.line \in Nat
    BY <1>1 DEF ReloadPoint
  <1>3. ix \in Index /\ lines \in Seq(Line)
    BY <1>2, AttributesAreIndexes, SettingLines DEF LoadingIndex, Typed
  <1>4. commands \in [Index -> [Key -> Command \cup {None}]]
    BY DEF Typed
  <1>5. CASE loading.line = 0
    <2>1. commands' = [commands EXCEPT ![ix] = [k \in Key |-> None]]
      BY <1>5 DEF ReloadStep, Cleared
    <2>2. \A k \in Key : InForceUpTo(lines, 0, k) = None
      BY UpToEnds
    <2> HIDE DEF ix, lines
    <2>3. [k \in Key |-> None] \in [Key -> Command \cup {None}]
      OBVIOUS
    <2>4. \A k \in Key : commands'[ix][k] = None
      BY <2>1, <1>3, <1>4
    <2>5. \A jx \in Index \ {ix} : commands'[jx] = commands[jx]
      BY <2>1, <1>3, <1>4
    <2>6. commands' \in [Index -> [Key -> Command \cup {None}]]
      BY <2>1, <2>3, <1>3, <1>4
    <2> QED BY <1>5, <2>2, <2>4, <2>5, <2>6 DEF ix, lines
  <1>6. CASE loading.line > 0
    <2> DEFINE line == LoadingLine
    <2>1. /\ loading.line <= Len(lines)
          /\ ~threw =>
                \A k \in Key : commands[ix][k] = InForceUpTo(lines, loading.line - 1, k)
      BY <1>1, <1>6 DEF AtALine, ReloadSoFar, LoadingIndex
    <2>2. line = lines[loading.line] /\ line \in Line
      BY <1>2, <1>3, <1>6, <2>1 DEF LoadingLine
    <2>3. line.key # None /\ commands' = IF line.does = None THEN commands
                         ELSE [commands EXCEPT ![ix] = [@ EXCEPT ![line.key] = line.does]]
      <3>1. ended' # "fatal_error"
        BY <1>1 DEF Running
      <3> QED BY <1>6, <3>1 DEF ReloadStep
    <2>4. line.key \in Key /\ line.does \in Command \cup {None}
      BY <2>2, <2>3 DEF Line
    <2>5. ASSUME ~threw
          PROVE  \A k \in Key : InForceUpTo(lines, loading.line, k) =
                    IF line.key = k /\ line.does # None THEN line.does ELSE commands[ix][k]
      <3> TAKE k \in Key
      <3> DEFINE n == loading.line - 1
      <3>1. n \in Nat /\ n + 1 = loading.line
        BY <1>2, <1>6
      <3>2. InForceUpTo(lines, n + 1, k) =
                IF lines[n + 1].key = k /\ lines[n + 1].does # None THEN lines[n + 1].does
                ELSE InForceUpTo(lines, n, k)
        BY <3>1, UpToNext
      <3>3. commands[ix][k] = InForceUpTo(lines, n, k)
        BY <2>1, <2>5
      <3> HIDE DEF n, line
      <3> QED BY <2>2, <3>1, <3>2, <3>3
    <2> HIDE DEF ix, lines, line
    <2>6. CASE line.does = None
      <3>1. commands' = commands
        BY <2>3, <2>6
      <3> QED BY <2>5, <2>6, <3>1, <1>4 DEF ix, lines
    <2>7. CASE line.does # None
      <3> DEFINE row == [commands[ix] EXCEPT ![line.key] = line.does]
      <3>1. commands' = [commands EXCEPT ![ix] = row]
        BY <2>3, <2>7
      <3>2. commands[ix] \in [Key -> Command \cup {None}]
        BY <1>3, <1>4
      <3>3. /\ row \in [Key -> Command \cup {None}]
            /\ \A k \in Key : row[k] = IF line.key = k THEN line.does ELSE commands[ix][k]
        BY <2>4, <3>2
      <3> HIDE DEF row
      <3>4. /\ commands' \in [Index -> [Key -> Command \cup {None}]]
            /\ commands'[ix] = row
            /\ \A jx \in Index \ {ix} : commands'[jx] = commands[jx]
        BY <1>3, <1>4, <3>1, <3>3
      <3> QED BY <2>5, <2>7, <3>3, <3>4 DEF ix, lines
    <2> QED BY <2>6, <2>7
  <1> QED BY <1>2, <1>5, <1>6

\* The reload goes on at a line of the file, or is over.
LEMMA NextLine ==
    ASSUME IInv, Running, loading # None, NEW point \in {NextAttribute, NextPoint}
    PROVE  /\ point \in ReloadPoint \cup {None}
           /\ point # None => point.line <= Len(loaded[Attributes[point.at]])
  <1> USE DEF IInv
  <1>1. /\ loading \in ReloadPoint /\ Len(Attributes) = 8
        /\ loading.at \in 1 .. Len(Attributes) /\ loading.line \in Nat
    BY AttributesAreIndexes DEF ReloadPoint, Typed
  <1>2. \A n \in 1 .. Len(Attributes) : loaded[Attributes[n]] \in Seq(Line)
    BY AttributesAreIndexes, SettingLines DEF Typed
  <1>3. CASE point = NextAttribute
    <2>1. CASE loading.at < Len(Attributes)
      <3>1. point = [at |-> loading.at + 1, line |-> 0]
        BY <1>3, <2>1 DEF NextAttribute
      <3>2. loading.at + 1 \in 1 .. Len(Attributes)
        BY <1>1, <2>1
      <3>3. loaded[Attributes[loading.at + 1]] \in Seq(Line)
        BY <1>2, <3>2
      <3>4. point \in ReloadPoint
        BY <3>1, <3>2 DEF ReloadPoint
      <3>5. point.line <= Len(loaded[Attributes[point.at]])
        BY <3>1, <3>3
      <3> QED BY <3>4, <3>5
    <2>2. CASE ~(loading.at < Len(Attributes))
      BY <1>3, <2>2 DEF NextAttribute
    <2> QED BY <2>1, <2>2
  <1>4. CASE loading.line < Len(loaded[LoadingIndex]) /\ point = NextPoint
    <2>1. point = [at |-> loading.at, line |-> loading.line + 1]
      BY <1>1, <1>4 DEF NextPoint, ReloadPoint
    <2>2. point \in ReloadPoint
      BY <1>1, <2>1 DEF ReloadPoint
    <2>3. Len(loaded[LoadingIndex]) \in Nat
      BY <1>1, <1>2 DEF LoadingIndex
    <2>4. point.line <= Len(loaded[Attributes[point.at]])
      BY <1>1, <1>4, <2>1, <2>3 DEF LoadingIndex
    <2> QED BY <2>2, <2>4
  <1>5. CASE ~(loading.line < Len(loaded[LoadingIndex])) /\ point = NextPoint
    BY <1>3, <1>5 DEF NextPoint
  <1> QED BY <1>3, <1>4, <1>5

\* One step of the reload.
LEMMA ReloadStepKeeps ==
    ASSUME IInv, ReloadStep
    PROVE  IInv'
  <1> USE DEF IInv
  <1>1. Running /\ loading \in ReloadPoint /\ loading # None
    BY DEF ReloadStep, Typed
  <1>2. loading.at \in 1 .. Len(Attributes) /\ loading.line \in Nat /\ Len(Attributes) = 8
    BY <1>1, AttributesAreIndexes DEF ReloadPoint
  <1>3. LoadingIndex \in Index /\ loaded[LoadingIndex] \in Seq(Line)
    BY <1>2, AttributesAreIndexes, SettingLines DEF LoadingIndex, Typed
  <1>4. loading' = NextPoint /\ loaded' = loaded /\ threw' = threw
    BY DEF ReloadStep
  <1>5. /\ loading' \in ReloadPoint \cup {None}
        /\ AtALine'
    BY <1>1, <1>4, NextLine DEF AtALine
  <1>6. (Counted /\ EventIsLast /\ AltIsUp)'
    BY DEF Counted, Applications, EventIsLast, AltIsUp, ReloadStep, input, switches, windows
  <1>7. CASE ended' = ended
    <2>1. /\ commands' \in [Index -> [Key -> Command \cup {None}]]
          /\ ~threw => \A k \in Key : commands'[LoadingIndex][k] =
                                InForceUpTo(loaded[LoadingIndex], loading.line, k)
          /\ \A ix \in Index \ {LoadingIndex} : commands'[ix] = commands[ix]
      BY <1>7, StepCommands
    <2>2. Typed'
      BY <1>5, <1>7, <2>1 DEF Typed, ReloadStep, input, switches, windows
    <2>3. CASE threw
      <3>1. ReloadSoFar'
        BY <1>4, <2>3 DEF ReloadSoFar
      <3> QED BY <1>5, <1>6, <2>2, <3>1
    <2>4. CASE ~threw
      <3>1. \A n \in 1 .. Len(Attributes) : n < loading.at =>
                \A k \in Key :
                    commands'[Attributes[n]][k] = InForce(loaded[Attributes[n]], k)
        <4> SUFFICES ASSUME NEW n \in 1 .. Len(Attributes), n < loading.at
                     PROVE  \A k \in Key :
                              commands'[Attributes[n]][k] = InForce(loaded[Attributes[n]], k)
          OBVIOUS
        <4>1. Attributes[n] \in Index \ {LoadingIndex}
          BY <1>2, AttributesAreIndexes DEF LoadingIndex
        <4>2. \A k \in Key : commands[Attributes[n]][k] = InForce(loaded[Attributes[n]], k)
          BY <1>1, <2>4 DEF ReloadSoFar
        <4> QED BY <2>1, <4>1, <4>2
      <3>2. CASE loading.line < Len(loaded[LoadingIndex])
        <4>1. loading' = [at |-> loading.at, line |-> loading.line + 1]
          BY <1>1, <1>4, <3>2 DEF NextPoint, ReloadPoint
        <4>2. loading' # None
          BY <1>2, <4>1, NoneAssumption DEF ReloadPoint
        <4>3. loading'.at = loading.at /\ loading'.line - 1 = loading.line
          BY <1>2, <4>1
        <4>4. ReloadSoFar'
          BY <1>4, <2>1, <2>4, <3>1, <4>2, <4>3 DEF ReloadSoFar, LoadingIndex
        <4> QED BY <1>5, <1>6, <2>2, <4>4
      <3>3. CASE ~(loading.line < Len(loaded[LoadingIndex]))
        <4>1. loading.line = Len(loaded[LoadingIndex])
          BY <1>1, <1>2, <1>3, <3>3 DEF AtALine, LoadingIndex
        <4>2. \A k \in Key : commands'[LoadingIndex][k] = InForce(loaded[LoadingIndex], k)
          BY <2>1, <2>4, <4>1, UpToEnds
        <4>3. \A n \in 1 .. Len(Attributes) : n < loading.at + 1 =>
                  \A k \in Key :
                      commands'[Attributes[n]][k] = InForce(loaded[Attributes[n]], k)
          <5> SUFFICES ASSUME NEW n \in 1 .. Len(Attributes), n < loading.at + 1
                       PROVE  \A k \in Key :
                                commands'[Attributes[n]][k] = InForce(loaded[Attributes[n]], k)
            OBVIOUS
          <5>1. n < loading.at \/ n = loading.at
            BY <1>2
          <5> QED BY <3>1, <4>2, <5>1 DEF LoadingIndex
        <4>4. CASE loading.at < Len(Attributes)
          <5>1. loading' = [at |-> loading.at + 1, line |-> 0]
            BY <1>4, <3>3, <4>4 DEF NextPoint, NextAttribute
          <5>2. loading' # None
            BY <1>2, <4>4, <5>1, NoneAssumption DEF ReloadPoint
          <5>3. ReloadSoFar'
            BY <1>4, <4>3, <5>1, <5>2 DEF ReloadSoFar
          <5> QED BY <1>5, <1>6, <2>2, <5>3
        <4>5. CASE ~(loading.at < Len(Attributes))
          <5>1. loading' = None
            BY <1>4, <3>3, <4>5 DEF NextPoint, NextAttribute
          <5>2. \A ix \in Index : \A k \in Key : commands'[ix][k] = InForce(loaded[ix], k)
            <6> TAKE ix \in Index
            <6>1. PICK n \in 1 .. Len(Attributes) : Attributes[n] = ix
              BY AttributesAreIndexes
            <6>2. n < loading.at + 1
              BY <1>2, <4>5
            <6> QED BY <4>3, <6>1, <6>2
          <5>3. ReloadSoFar'
            BY <1>4, <5>1, <5>2 DEF ReloadSoFar
          <5> QED BY <1>5, <1>6, <2>2, <5>3
        <4> QED BY <4>4, <4>5
      <3> QED BY <3>2, <3>3
    <2> QED BY <2>3, <2>4
  <1>8. CASE ended' # ended
    <2>1. ended' = "fatal_error" /\ commands' = commands
      BY <1>8 DEF ReloadStep
    <2>2. Typed'
      BY <1>5, <2>1 DEF Typed, ReloadStep, input, switches, windows
    <2>3. ReloadSoFar'
      BY <2>1 DEF ReloadSoFar, Running
    <2> QED BY <1>5, <1>6, <2>2, <2>3
  <1> QED BY <1>7, <1>8

\* An unknown key, whatever becomes of the reload.
LEMMA ThrowKeeps ==
    ASSUME IInv, to_key_throws
    PROVE  IInv'
  <1> USE DEF IInv
  <1>1. /\ Running /\ loading # None /\ threw' = TRUE
        /\ loaded' = loaded
        /\ \/ ended' = "exception" /\ loading' = loading
           \/ loading' \in {NextAttribute, None} /\ ended' = ended
        /\ UNCHANGED <<commands, file, loaded, input, switches, is_locked, windows>>
    BY DEF to_key_throws
  <1>2. /\ loading' \in ReloadPoint \cup {None}
        /\ AtALine'
    <2>1. CASE ended' = "exception" /\ loading' = loading
      BY <1>1, <2>1 DEF Typed, AtALine, Running
    <2>2. CASE loading' = NextAttribute
      BY <1>1, <2>2, NextLine DEF AtALine
    <2>3. CASE loading' = None
      BY <2>3 DEF AtALine
    <2> QED BY <1>1, <2>1, <2>2, <2>3
  <1>3. Typed'
    BY <1>1, <1>2 DEF Typed, input, switches, windows
  <1>4. (Counted /\ EventIsLast /\ AltIsUp)'
    BY <1>1 DEF Counted, Applications, EventIsLast, AltIsUp, input, switches, windows
  <1>5. ReloadSoFar'
    BY <1>1 DEF ReloadSoFar
  <1> QED BY <1>2, <1>3, <1>4, <1>5
-----------------------------------------------------------------------------
\* The input thread.

\* Editing the file and locking the session touch nothing the invariant relates.
LEMMA EditLockKeeps ==
    ASSUME IInv, Edit \/ Lock
    PROVE  IInv'
  <1>1. Typed'
    BY DEF IInv, Typed, Edit, Lock, input, switches, settings, windows
  <1>2. UNCHANGED <<commands, loaded, loading, threw, input, switches, windows, ended>>
    BY DEF Edit, Lock, settings
  <1>3. Counted' /\ AtALine' /\ ReloadSoFar'
    BY <1>2 DEF IInv, Counted, Applications, AtALine, ReloadSoFar, Running, windows
  <1>4. EventIsLast' /\ AltIsUp'
    BY <1>2 DEF IInv, EventIsLast, AltIsUp, input, switches
  <1> QED BY <1>1, <1>3, <1>4 DEF IInv

\* The count and the commands are not the input thread's.
LEMMA InputLeaves ==
    ASSUME IInv, UNCHANGED <<settings, windows>>, Running' => Running
    PROVE  Counted' /\ AtALine' /\ ReloadSoFar'
  BY DEF IInv, Counted, Applications, AtALine, ReloadSoFar, settings, windows

\* An event that changes the modifiers to mods: it is up if Alt goes.
LEMMA KeyEventKeeps ==
    ASSUME IInv,
           NEW action \in {"down", "up"}, NEW key \in Key \cup Modifier,
           NEW mods \in SUBSET Modifier,
           "alt" \in held /\ "alt" \notin mods => action = "up",
           KeyEvent(action, key, mods)
    PROVE  IInv'
  <1> DEFINE e == [action |-> action, key |-> key, mods |-> mods]
  <1>1. e \in Event /\ e # None
    BY NoneAssumption DEF Event
  <1>2. Typed'
    BY <1>1 DEF IInv, Typed, KeyEvent, switches, settings, windows
  <1>3. EventIsLast'
    BY DEF EventIsLast, KeyEvent
  <1>4. AltIsUp'
    <2> SUFFICES ASSUME is_running, "alt" \notin mods
                 PROVE  missed' \/ (event' # None /\ event'.action = "up")
      BY DEF AltIsUp, KeyEvent, switches
    <2>1. CASE is_locked
      BY <2>1 DEF KeyEvent
    <2>2. CASE ~is_locked /\ "alt" \in held
      <3>1. event' = e /\ action = "up"
        BY <2>2 DEF KeyEvent
      <3> QED BY <1>1, <3>1
    <2>3. CASE ~is_locked /\ "alt" \notin held
      BY <2>3 DEF IInv, AltIsUp, KeyEvent
    <2> QED BY <2>1, <2>2, <2>3
  <1>5. Counted' /\ AtALine' /\ ReloadSoFar'
    BY InputLeaves DEF KeyEvent, Running
  <1> QED BY <1>2, <1>3, <1>4, <1>5 DEF IInv

\* Keys and modifiers, pressed and released.
LEMMA KeysKeep ==
    ASSUME IInv,
           \/ \E m \in Modifier : PressModifier(m) \/ ReleaseModifier(m)
           \/ \E k \in Key : Press(k) \/ Release(k)
    PROVE  IInv'
  <1>1. held \in SUBSET Modifier
    BY DEF IInv, Typed
  <1>2. ASSUME NEW m \in Modifier, PressModifier(m)
        PROVE  IInv'
    <2>1. held \cup {m} \in SUBSET Modifier
      BY <1>1
    <2>2. KeyEvent("down", m, held \cup {m})
      BY <1>2 DEF PressModifier
    <2> QED BY <2>1, <2>2, KeyEventKeeps
  <1>3. ASSUME NEW m \in Modifier, ReleaseModifier(m)
        PROVE  IInv'
    <2>1. held \ {m} \in SUBSET Modifier
      BY <1>1
    <2>2. KeyEvent("up", m, held \ {m})
      BY <1>3 DEF ReleaseModifier
    <2> QED BY <2>1, <2>2, KeyEventKeeps
  <1>4. ASSUME NEW k \in Key, Press(k)
        PROVE  IInv'
    BY <1>1, <1>4, KeyEventKeeps DEF Press
  <1>5. ASSUME NEW k \in Key, Release(k)
        PROVE  IInv'
    BY <1>1, <1>5, KeyEventKeeps DEF Release
  <1> QED BY <1>2, <1>3, <1>4, <1>5

\* The switcher stays open, or opens, only with Alt held.
LEMMA SwitcherTakesKeeps ==
    ASSUME IInv, SwitcherTakes
    PROVE  IInv'
  <1>1. is_running' => "alt" \in held'
    BY DEF IInv, EventIsLast, SwitcherTakes, Switches
  <1>2. is_running' \in BOOLEAN
    BY DEF SwitcherTakes
  <1>3. Typed'
    BY <1>2 DEF IInv, Typed, SwitcherTakes, settings, windows
  <1>4. EventIsLast' /\ AltIsUp'
    BY <1>1 DEF EventIsLast, AltIsUp, SwitcherTakes
  <1>5. Counted' /\ AtALine' /\ ReloadSoFar'
    BY InputLeaves DEF SwitcherTakes, Running
  <1> QED BY <1>3, <1>4, <1>5 DEF IInv

\* A search names an index and a key.
LEMMA SearchTyped ==
    ASSUME Typed, event # None, event.key \in Key, ChordOf(event.mods) # None
    PROVE  [rights |-> "shell", chord |-> ChordOf(event.mods), key |-> event.key,
            shift |-> "shift" \in event.mods] \in Search
  <1>1. ChordOf(event.mods) \in Chord
    BY DEF ChordOf, Chord
  <1> QED BY <1>1 DEF Search, Rights

\* An event the switcher does not want is one that lets go of Alt only if the
\* shortcuts are off.
LEMMA ShortcutsKeep ==
    ASSUME IInv, keyboard_shortcuts
    PROVE  IInv'
  <1>1. lookup' \in Search \cup {None}
    BY SearchTyped DEF IInv, keyboard_shortcuts
  <1>2. Typed'
    <2>1. shell_commands_active' \in BOOLEAN /\ missed' \in BOOLEAN
      BY DEF IInv, Typed, keyboard_shortcuts
    <2> QED BY <1>1, <2>1 DEF IInv, Typed, keyboard_shortcuts, settings, windows
  <1>3. EventIsLast'
    BY DEF EventIsLast, keyboard_shortcuts
  <1>4. AltIsUp'
    BY DEF IInv, EventIsLast, AltIsUp, keyboard_shortcuts, SwitcherPasses, Confirms
  <1>5. Counted' /\ AtALine' /\ ReloadSoFar'
    BY InputLeaves DEF keyboard_shortcuts, Running
  <1> QED BY <1>2, <1>3, <1>4, <1>5 DEF IInv

\* A search ends, goes on in the other index, or ends the compositor.
LEMMA SearchKeeps ==
    ASSUME IInv, try_command_for
    PROVE  IInv'
  <1>1. lookup \in Search
    BY DEF IInv, Typed, try_command_for
  <1>2. [lookup EXCEPT !.rights = "app"] \in Search
    BY <1>1 DEF Search, Rights
  <1>3. lookup' \in Search \cup {None} /\ ended' \in {"no", "exit", "fatal_error", "exception"}
    BY <1>2 DEF IInv, Typed, try_command_for, exit
  <1>4. Typed'
    BY <1>3 DEF IInv, Typed, try_command_for, switches, settings, windows
  <1>5. EventIsLast' /\ AltIsUp'
    BY DEF IInv, EventIsLast, AltIsUp, try_command_for, switches
  <1>6. Counted' /\ AtALine' /\ ReloadSoFar'
    BY InputLeaves DEF try_command_for, Running
  <1> QED BY <1>4, <1>5, <1>6 DEF IInv
-----------------------------------------------------------------------------
LEMMA InitHolds == Init => IInv
  <1> SUFFICES ASSUME Init PROVE IInv
    OBVIOUS
  <1>1. ASSUME NEW ix \in Index, NEW k \in Key
        PROVE  InForce(file[ix], k) \in Command \cup {None}
    <2>1. file[ix] \in Seq(Line)
      BY SettingLines DEF Init
    <2> QED BY <2>1, InForceTyped
  <1>2. commands \in [Index -> [Key -> Command \cup {None}]]
    BY <1>1 DEF Init
  <1>3. Typed
    BY <1>2 DEF Init, Typed
  <1>4. Counted
    <2>1. Applications = {}
      BY DEF Init, Applications
    <2> QED BY <2>1, FS_EmptySet DEF Init, Counted
  <1>5. AtALine /\ ReloadSoFar
    BY DEF Init, AtALine, ReloadSoFar
  <1>6. EventIsLast /\ AltIsUp
    BY DEF Init, EventIsLast, AltIsUp
  <1> QED BY <1>3, <1>4, <1>5, <1>6 DEF IInv

LEMMA NextKeeps == IInv /\ [Next]_vars => IInv'
  <1> SUFFICES ASSUME IInv, [Next]_vars PROVE IInv'
    OBVIOUS
  <1>1. ASSUME NEW w \in Window,
               advise_new_window(w) \/ toggle_always_on_top(w) \/ advise_delete_window(w)
        PROVE  IInv'
    BY <1>1, OpenKeeps, ToggleKeeps, CloseKeeps
  <1>2. CASE Edit \/ Lock
    BY <1>2, EditLockKeeps
  <1>3. CASE Reload
    BY <1>3, ReloadKeeps
  <1>4. CASE ReloadStep
    BY <1>4, ReloadStepKeeps
  <1>10. CASE to_key_throws
    BY <1>10, ThrowKeeps
  <1>5. CASE \/ \E m \in Modifier : PressModifier(m) \/ ReleaseModifier(m)
             \/ \E k \in Key : Press(k) \/ Release(k)
    BY <1>5, KeysKeep
  <1>6. CASE SwitcherTakes
    BY <1>6, SwitcherTakesKeeps
  <1>7. CASE keyboard_shortcuts
    BY <1>7, ShortcutsKeep
  <1>8. CASE try_command_for
    BY <1>8, SearchKeeps
  <1>9. CASE UNCHANGED vars
    BY <1>9 DEF IInv, Typed, Counted, Applications, AtALine, ReloadSoFar, EventIsLast, AltIsUp,
                Running, vars, input, switches, settings, windows
  <1> QED BY <1>1, <1>2, <1>3, <1>4, <1>5, <1>6, <1>7, <1>8, <1>9, <1>10 DEF Next

\* The invariant holds of every behaviour.
THEOREM Invariance == Spec => []IInv
  BY InitHolds, NextKeeps, PTL DEF Spec

\* Types, and a window count between none and all of the windows.
THEOREM TypeCorrect == Spec => []TypeOK
  <1>1. IInv => TypeOK
    BY CountBounds DEF IInv, Typed, TypeOK
  <1> QED BY <1>1, Invariance, PTL

\* The count that exit reads is the number of application windows open.
THEOREM CountedRight == Spec => []Counted
  <1>1. IInv => Counted
    BY DEF IInv
  <1> QED BY <1>1, Invariance, PTL

\* A reload that is over, and has met no unknown key, has left what a start with
\* the new settings has, whatever the reloads before it have left.
THEOREM ReloadedAsRestarted == Spec => []ReloadIsRestart
  <1>1. IInv => ReloadIsRestart
    BY DEF IInv, ReloadSoFar, ReloadIsRestart
  <1> QED BY <1>1, Invariance, PTL

\* The switcher goes from the screen when Alt is released.
THEOREM SwitcherCloses == Spec => []NotLeftOpen
  <1>1. IInv => NotLeftOpen
    BY DEF IInv, AltIsUp, NotLeftOpen
  <1> QED BY <1>1, Invariance, PTL

\* exit without Shift ends no session with an application window open.
THEOREM NoWorkLost == Spec => ExitKeepsWork
  <1>1. IInv /\ [Next]_vars => [(Running /\ ended' = "exit") =>
                                    (Applications = {} \/ lookup.shift)]_vars
    <2> SUFFICES ASSUME IInv, Next, Running, ended' = "exit"
                 PROVE  Applications = {} \/ lookup.shift
      OBVIOUS
    <2>1. ended' # ended
      BY DEF Running
    <2>2. try_command_for
      BY <2>1 DEF Next, advise_new_window, toggle_always_on_top, advise_delete_window, Edit,
             Reload, ReloadStep, to_key_throws, Lock, PressModifier, ReleaseModifier, Press, Release, KeyEvent,
             SwitcherTakes, keyboard_shortcuts
    <2>3. app_windows = 0 \/ lookup.shift
      BY <2>1, <2>2 DEF try_command_for, exit
    <2> QED BY <2>3, CountBounds DEF IInv
  <1> QED BY <1>1, Invariance, PTL DEF Spec, ExitKeepsWork
=============================================================================
