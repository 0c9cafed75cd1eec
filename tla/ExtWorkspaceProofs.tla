------------------------- MODULE ExtWorkspaceProofs -------------------------
(***************************************************************************)
(* The invariant of ExtWorkspace, for any workspaces, outputs, clients and *)
(* bound on the queue, and what follows from it: between operations the    *)
(* registry is the manager's list, and at rest every panel agrees with the *)
(* registry, whatever overlapped on the way.                               *)
(***************************************************************************)
EXTENDS ExtWorkspace, RowsProofs, FiniteSetTheorems

-----------------------------------------------------------------------------
\* Sequences of hooks.

\* None is no hook, and a hook is given by its parts.
LEMMA HookParts ==
    /\ None \notin Hook
    /\ \A h \in Hook : h = Hk(h.op, h.of) /\ h.op \in Op \cup OutputOp
    /\ \A h \in Hook : h.op \in Op => h.of \in Workspace
    /\ \A h \in Hook : h.op \in OutputOp => h.of \in Output /\ h.of \notin Workspace
    /\ Op \cap OutputOp = {}
  BY NoneAssumption, PoolAssumption DEF Hook, Hk, Op, OutputOp

\* The indexes of a sequence with one more hook.
LEMMA AppendHook ==
    ASSUME NEW s \in Seq(Hook), NEW h \in Hook
    PROVE  LET t == Append(s, h) IN
           /\ t \in Seq(Hook) /\ Len(t) = Len(s) + 1 /\ Len(s) \in Nat
           /\ \A j \in 1..Len(s) : j \in 1..Len(t) /\ t[j] = s[j]
           /\ Len(s) + 1 \in 1..Len(t) /\ t[Len(s) + 1] = h
           /\ \A j \in 1..Len(t) : j \in 1..Len(s) \/ j = Len(s) + 1
           /\ \A j \in 1..Len(s) : LastAbout(t, j) <=> LastAbout(s, j) /\ h.of # s[j].of
           /\ \A j \in 1..Len(s) : FirstAbout(t, j) <=> FirstAbout(s, j)
           /\ \A g : Has(t, g) <=> Has(s, g) \/ g = h
  <1> DEFINE t == Append(s, h)
  <1>1. /\ t \in Seq(Hook) /\ Len(t) = Len(s) + 1 /\ Len(s) \in Nat
        /\ \A j \in 1..Len(s) : t[j] = s[j]
        /\ t[Len(s) + 1] = h
    OBVIOUS
  <1> HIDE DEF t
  <1>2. /\ \A j \in 1..Len(s) : j \in 1..Len(t)
        /\ Len(s) + 1 \in 1..Len(t)
        /\ \A j \in 1..Len(t) : j \in 1..Len(s) \/ j = Len(s) + 1
    BY <1>1
  <1>3. ASSUME NEW j \in 1..Len(s)
        PROVE  LastAbout(t, j) <=> LastAbout(s, j) /\ h.of # s[j].of
    BY <1>1, <1>2 DEF LastAbout
  <1>4. ASSUME NEW j \in 1..Len(s)
        PROVE  FirstAbout(t, j) <=> FirstAbout(s, j)
    BY <1>1, <1>2 DEF FirstAbout
  <1>5. ASSUME NEW g PROVE Has(t, g) <=> Has(s, g) \/ g = h
    BY <1>1, <1>2 DEF Has
  <1> QED BY <1>1, <1>2, <1>3, <1>4, <1>5 DEF t

\* The indexes of a sequence without its first hook.
LEMMA TailHook ==
    ASSUME NEW s \in Seq(Hook), s # <<>>
    PROVE  LET t == Tail(s) IN
           /\ t \in Seq(Hook) /\ Len(t) = Len(s) - 1 /\ Len(s) \in Nat /\ Len(s) >= 1
           /\ 1 \in 1..Len(s) /\ Head(s) = s[1] /\ s[1] \in Hook
           /\ \A j \in 1..Len(t) : j + 1 \in 1..Len(s) /\ t[j] = s[j + 1] /\ t[j] \in Hook
           /\ \A j \in 1..Len(s) : j = 1 \/ (j - 1 \in 1..Len(t) /\ t[j - 1] = s[j])
           /\ \A j \in 1..Len(t) : LastAbout(t, j) <=> LastAbout(s, j + 1)
           /\ \A j \in 1..Len(t) : FirstAbout(s, j + 1) => FirstAbout(t, j)
           /\ \A g : Has(s, g) <=> Has(t, g) \/ g = s[1]
  <1> DEFINE t == Tail(s)
  <1>1. /\ t \in Seq(Hook) /\ Len(t) = Len(s) - 1 /\ Len(s) \in Nat /\ Len(s) >= 1
        /\ Head(s) = s[1] /\ \A j \in 1..Len(t) : t[j] = s[j + 1]
    OBVIOUS
  <1> HIDE DEF t
  <1>2. /\ 1 \in 1..Len(s) /\ s[1] \in Hook
        /\ \A j \in 1..Len(t) : j + 1 \in 1..Len(s) /\ t[j] \in Hook
    BY <1>1
  <1>3. \A j \in 1..Len(s) : j = 1 \/ (j - 1 \in 1..Len(t) /\ t[j - 1] = s[j])
    <2> TAKE j \in 1..Len(s)
    <2>1. CASE j # 1
      <3>1. j - 1 \in 1..Len(t) /\ (j - 1) + 1 = j
        BY <1>1, <2>1
      <3> QED BY <1>1, <3>1
    <2> QED BY <2>1
  <1>4. ASSUME NEW j \in 1..Len(t)
        PROVE  LastAbout(t, j) <=> LastAbout(s, j + 1)
    <2>1. ASSUME LastAbout(t, j), NEW k \in 1..Len(s), k > j + 1
          PROVE  s[k].of # s[j + 1].of
      <3>1. k - 1 \in 1..Len(t) /\ t[k - 1] = s[k] /\ k - 1 > j
        BY <1>1, <1>3, <2>1
      <3> QED BY <1>1, <2>1, <3>1 DEF LastAbout
    <2>2. ASSUME LastAbout(s, j + 1), NEW k \in 1..Len(t), k > j
          PROVE  t[k].of # t[j].of
      <3>1. k + 1 \in 1..Len(s) /\ k + 1 > j + 1
        BY <1>1, <1>2, <2>2
      <3> QED BY <1>1, <2>2, <3>1 DEF LastAbout
    <2> QED BY <2>1, <2>2 DEF LastAbout
  <1>5. ASSUME NEW j \in 1..Len(t), FirstAbout(s, j + 1), NEW k \in 1..Len(t), k < j
        PROVE  t[k].of # t[j].of
    <2>1. k + 1 \in 1..Len(s) /\ k + 1 < j + 1
      BY <1>1, <1>2, <1>5
    <2> QED BY <1>1, <1>5, <2>1 DEF FirstAbout
  <1>6. ASSUME NEW g PROVE Has(s, g) <=> Has(t, g) \/ g = s[1]
    BY <1>1, <1>2, <1>3 DEF Has
  <1> QED BY <1>1, <1>2, <1>3, <1>4, <1>5, <1>6 DEF t, FirstAbout

\* Of the hooks about something there is a last one.
LEMMA SomeLast ==
    ASSUME NEW s \in Seq(Hook), NEW j \in 1..Len(s)
    PROVE  \E k \in 1..Len(s) : k >= j /\ s[k].of = s[j].of /\ LastAbout(s, k)
  <1> DEFINE T == {k \in 1..Len(s) : s[k].of = s[j].of}
  <1>1. T \subseteq 1..Len(s) /\ j \in T /\ Len(s) \in Nat
    OBVIOUS
  <1>2. PICK k \in T : \A i \in T : i <= k
    <2> HIDE DEF T
    <2> QED BY <1>1, Greatest
  <1>3. LastAbout(s, k)
    <2> SUFFICES ASSUME NEW i \in 1..Len(s), i > k, s[i].of = s[k].of
                 PROVE  FALSE
      BY DEF LastAbout
    <2>1. i \in T
      OBVIOUS
    <2>2. i <= k /\ k \in 1..Len(s)
      BY <1>2, <2>1
    <2> QED BY <2>2
  <1> QED BY <1>1, <1>2, <1>3
-----------------------------------------------------------------------------
\* Lists of handles.

\* A workspace that has a handle has a first one.
LEMMA SomeFirst ==
    ASSUME NEW hs, Len(hs) \in Nat, NEW i \in 1..Len(hs)
    PROVE  \E f \in First(hs, hs[i].ws) : TRUE
  <1> DEFINE T == {k \in 1..Len(hs) : hs[k].ws = hs[i].ws}
  <1>1. T \subseteq Nat /\ i \in T
    OBVIOUS
  <1>2. PICK f \in T : \A k \in T : f <= k
    <2> HIDE DEF T
    <2> QED BY <1>1, Least
  <1>3. ASSUME NEW j \in 1..(f - 1) PROVE hs[j].ws # hs[i].ws
    <2>1. f \in 1..Len(hs) /\ j \in 1..Len(hs) /\ ~(f <= j)
      OBVIOUS
    <2> QED BY <1>2, <2>1
  <1>4. f \in First(hs, hs[i].ws)
    BY <1>3 DEF First
  <1> QED BY <1>4

\* Only one is the first.
LEMMA OneFirst ==
    ASSUME NEW hs, Len(hs) \in Nat, NEW ws, NEW i \in First(hs, ws), NEW j \in First(hs, ws)
    PROVE  i = j
  <1>1. /\ i \in 1..Len(hs) /\ j \in 1..Len(hs) /\ hs[i].ws = ws /\ hs[j].ws = ws
        /\ \A k \in 1..(i - 1) : hs[k].ws # ws
        /\ \A k \in 1..(j - 1) : hs[k].ws # ws
    BY DEF First
  <1>2. ~(j \in 1..(i - 1)) /\ ~(i \in 1..(j - 1))
    BY <1>1
  <1> QED BY <1>1, <1>2

\* Whether the first handle of a workspace shows a state.
Shows(hs, ws, state) == \E i \in First(hs, ws) : hs[i].state = state
HasHandle(hs, ws) == \E i \in 1..Len(hs) : hs[i].ws = ws
InOrder(hs) == \A i \in 1..Len(hs) : hs[i].number = i

\* A workspace that is created gets a handle behind the others.
LEMMA CreatedHandles ==
    ASSUME NEW hs \in Seq(Handle), NEW ws \in Workspace, NEW state \in Told
    PROVE  LET new == workspace_created(hs, ws, state) IN
           /\ new \in Seq(Handle)
           /\ \A v : HasHandle(new, v) <=> HasHandle(hs, v) \/ v = ws
           /\ \A v, st : Shows(hs, v, st) => Shows(new, v, st)
           /\ InOrder(hs) => InOrder(new)
  <1> DEFINE h   == [ws |-> ws, state |-> state, number |-> Len(hs) + 1]
             new == workspace_created(hs, ws, state)
  <1>1. Len(hs) \in Nat /\ h \in Handle
    BY DEF Handle
  <1>2. /\ new \in Seq(Handle) /\ Len(new) = Len(hs) + 1
        /\ \A i \in 1..Len(hs) : new[i] = hs[i]
        /\ new[Len(hs) + 1] = h
    BY <1>1 DEF workspace_created
  <1> HIDE DEF new
  <1>3. /\ \A i \in 1..Len(hs) : i \in 1..Len(new)
        /\ Len(hs) + 1 \in 1..Len(new)
        /\ \A i \in 1..Len(new) : i \in 1..Len(hs) \/ i = Len(hs) + 1
    BY <1>1, <1>2
  <1>4. ASSUME NEW v PROVE HasHandle(new, v) <=> HasHandle(hs, v) \/ v = ws
    BY <1>2, <1>3 DEF HasHandle
  <1>5. ASSUME NEW v, NEW st, NEW i \in First(hs, v), hs[i].state = st
        PROVE  i \in First(new, v) /\ new[i].state = st
    <2>1. i \in 1..Len(hs) /\ hs[i].ws = v /\ \A j \in 1..(i - 1) : hs[j].ws # v
      BY DEF First
    <2>2. \A j \in 1..(i - 1) : j \in 1..Len(hs)
      BY <1>1, <2>1
    <2> QED BY <1>2, <1>3, <1>5, <2>1, <2>2 DEF First
  <1>6. ASSUME InOrder(hs) PROVE InOrder(new)
    BY <1>2, <1>3, <1>6 DEF InOrder
  <1> QED BY <1>2, <1>4, <1>5, <1>6 DEF new, Shows

\* A state is shown by the first handle of the workspace.
LEMMA StateSentHandles ==
    ASSUME NEW hs \in Seq(Handle), NEW ws, NEW state \in Told
    PROVE  LET new == state_sent(hs, ws, state) IN
           /\ new \in Seq(Handle)
           /\ \A v : HasHandle(new, v) <=> HasHandle(hs, v)
           /\ \A v, st : v # ws /\ Shows(hs, v, st) => Shows(new, v, st)
           /\ HasHandle(hs, ws) => Shows(new, ws, state)
           /\ InOrder(hs) => InOrder(new)
  <1> DEFINE new == state_sent(hs, ws, state)
             h(i) == IF i \in First(hs, ws) THEN [hs[i] EXCEPT !.state = state] ELSE hs[i]
  <1>1. Len(hs) \in Nat /\ \A i \in 1..Len(hs) : hs[i] \in Handle
    OBVIOUS
  <1>2. \A i \in 1..Len(hs) :
            /\ h(i) \in Handle /\ h(i).ws = hs[i].ws /\ h(i).number = hs[i].number
            /\ h(i).state = IF i \in First(hs, ws) THEN state ELSE hs[i].state
    BY <1>1 DEF Handle
  <1>3. new = [i \in 1..Len(hs) |-> h(i)]
    BY DEF state_sent
  <1> HIDE DEF new, h
  <1>4. /\ new \in Seq(Handle) /\ Len(new) = Len(hs)
        /\ \A i \in 1..Len(hs) : new[i] = h(i)
    BY <1>1, <1>2, <1>3
  <1>5. ASSUME NEW v PROVE HasHandle(new, v) <=> HasHandle(hs, v)
    BY <1>2, <1>4 DEF HasHandle
  <1>6. ASSUME NEW v PROVE First(new, v) = First(hs, v)
    <2>1. ASSUME NEW i \in 1..Len(hs), NEW j \in 1..(i - 1) PROVE new[j].ws = hs[j].ws
      <3>1. j \in 1..Len(hs)
        BY <1>1
      <3> QED BY <1>2, <1>4, <3>1
    <2>2. \A i \in 1..Len(hs) : new[i].ws = hs[i].ws
      BY <1>2, <1>4
    <2> QED BY <1>4, <2>1, <2>2 DEF First
  <1>7. ASSUME NEW v, v # ws, NEW i \in First(hs, v)
        PROVE  new[i].state = hs[i].state
    <2>1. i \in 1..Len(hs) /\ i \notin First(hs, ws)
      BY <1>7 DEF First
    <2> QED BY <1>2, <1>4, <2>1
  <1>8. ASSUME HasHandle(hs, ws) PROVE Shows(new, ws, state)
    <2>1. PICK i \in 1..Len(hs) : hs[i].ws = ws
      BY <1>8 DEF HasHandle
    <2>2. PICK f : f \in First(hs, ws)
      BY <1>1, <2>1, SomeFirst
    <2>3. f \in 1..Len(hs)
      BY <2>2 DEF First
    <2> QED BY <1>2, <1>4, <1>6, <2>2, <2>3 DEF Shows
  <1>9. ASSUME InOrder(hs) PROVE InOrder(new)
    BY <1>2, <1>4, <1>9 DEF InOrder
  <1> QED BY <1>4, <1>5, <1>6, <1>7, <1>8, <1>9 DEF new, Shows

\* A workspace that is destroyed loses its handles; the others keep their order
\* and are numbered again.
LEMMA DestroyedHandles ==
    ASSUME NEW hs \in Seq(Handle), NEW ws
    PROVE  LET new == workspace_destroyed(hs, ws) IN
           /\ new \in Seq(Handle)
           /\ \A v : HasHandle(new, v) <=> HasHandle(hs, v) /\ v # ws
           /\ \A v, st : v # ws /\ Shows(hs, v, st) => Shows(new, v, st)
           /\ InOrder(hs) => InOrder(new)
  <1> DEFINE keep  == {i \in 1..Len(hs) : hs[i].ws # ws}
             kept  == Others(hs, ws)
             new   == workspace_destroyed(hs, ws)
             Again(i) == \E f \in First(hs, ws) : i >= f
             h(i)  == IF Again(i) THEN [kept[i] EXCEPT !.number = i] ELSE kept[i]
  <1>1. Len(hs) \in Nat /\ keep \cap (1..Len(hs)) = keep /\ keep \subseteq Nat \ {0}
    OBVIOUS
  <1>2. kept \in Seq(Handle) /\ \E e : Keeps(e, kept, hs, keep)
    BY <1>1, SelectedKeeps DEF Others
  <1>3. PICK e : Keeps(e, kept, hs, keep)
    BY <1>2
  <1>4. new = [i \in 1..Len(kept) |-> h(i)]
    BY Zenon DEF workspace_destroyed
  <1> HIDE DEF kept, new
  <1>5. Len(kept) \in Nat /\ \A i \in 1..Len(kept) : kept[i] \in Handle
    BY <1>2
  <1>6. \A i \in 1..Len(kept) :
            /\ h(i) \in Handle /\ h(i).ws = kept[i].ws /\ h(i).state = kept[i].state
            /\ h(i).number = IF Again(i) THEN i ELSE kept[i].number
    BY <1>5 DEF Handle
  <1> HIDE DEF h, Again
  <1>7. /\ new \in Seq(Handle) /\ Len(new) = Len(kept)
        /\ \A i \in 1..Len(kept) : new[i] = h(i)
    BY <1>4, <1>5, <1>6
  <1>8. /\ \A i \in 1..Len(kept) : e[i] \in keep /\ kept[i] = hs[e[i]]
        /\ \A k \in keep : \E i \in 1..Len(kept) : e[i] = k
        /\ \A i, j \in 1..Len(kept) : i < j => e[i] < e[j]
    BY <1>3 DEF Keeps
  <1>9. ASSUME NEW v PROVE HasHandle(new, v) <=> HasHandle(hs, v) /\ v # ws
    <2>1. ASSUME NEW i \in 1..Len(new), new[i].ws = v
          PROVE  HasHandle(hs, v) /\ v # ws
      <3>1. i \in 1..Len(kept) /\ v = hs[e[i]].ws /\ e[i] \in keep
        BY <1>6, <1>7, <1>8, <2>1
      <3> QED BY <3>1 DEF HasHandle
    <2>2. ASSUME NEW k \in 1..Len(hs), hs[k].ws = v, v # ws
          PROVE  HasHandle(new, v)
      <3>1. PICK i \in 1..Len(kept) : e[i] = k
        BY <1>8, <2>2
      <3> QED BY <1>6, <1>7, <1>8, <2>2, <3>1 DEF HasHandle
    <2> QED BY <2>1, <2>2 DEF HasHandle
  <1>10. ASSUME NEW v, v # ws, NEW st, NEW k \in First(hs, v), hs[k].state = st
         PROVE  Shows(new, v, st)
    <2>1. k \in 1..Len(hs) /\ hs[k].ws = v /\ \A j \in 1..(k - 1) : hs[j].ws # v
      BY DEF First
    <2>2. PICK i \in 1..Len(kept) : e[i] = k
      BY <1>8, <1>10, <2>1
    <2>3. i \in 1..Len(new) /\ new[i].ws = v /\ new[i].state = st
      BY <1>6, <1>7, <1>8, <1>10, <2>1, <2>2
    <2>4. ASSUME NEW j \in 1..(i - 1) PROVE new[j].ws # v
      <3>1. j \in 1..Len(kept) /\ j < i
        BY <1>5
      <3>2. e[j] < k /\ e[j] \in Nat \ {0} /\ k \in Nat
        BY <1>1, <1>8, <2>1, <2>2, <3>1
      <3>3. e[j] \in 1..(k - 1)
        BY <3>2
      <3> QED BY <1>6, <1>7, <1>8, <2>1, <3>1, <3>3
    <2>5. i \in First(new, v)
      BY <2>3, <2>4 DEF First
    <2> QED BY <2>3, <2>5 DEF Shows
  <1>11. ASSUME InOrder(hs), NEW i \in 1..Len(kept), ~Again(i)
         PROVE  kept[i].number = i
    <2>1. e[i] = i
      <3>1. CASE First(hs, ws) = {}
        <4>1. \A k \in 1..Len(hs) : hs[k].ws # ws
          <5> SUFFICES ASSUME NEW k \in 1..Len(hs), hs[k].ws = ws PROVE FALSE
            OBVIOUS
          <5>1. First(hs, hs[k].ws) # {}
            BY <1>1, SomeFirst
          <5> QED BY <3>1, <5>1
        <4>2. 1..Len(hs) \subseteq keep
          BY <4>1
        <4>3. i <= e[i]
          <5> HIDE DEF keep
          <5> QED BY <1>1, <1>3, <1>5, KeepsClimb
        <4>4. i <= Len(hs)
          <5>1. e[i] \in 1..Len(hs)
            BY <1>8
          <5> QED BY <1>1, <4>3, <5>1
        <4> HIDE DEF keep
        <4> QED BY <1>1, <1>3, <1>5, <4>2, <4>4, KeepsFront
      <3>2. CASE First(hs, ws) # {}
        <4>1. PICK f : f \in First(hs, ws)
          BY <3>2
        <4>2. f \in 1..Len(hs) /\ \A k \in 1..(f - 1) : hs[k].ws # ws
          BY <4>1 DEF First
        <4>3. f - 1 \in Nat /\ i <= f - 1
          BY <1>11, <4>1, <4>2 DEF Again
        <4>4. 1..(f - 1) \subseteq keep
          BY <1>1, <4>2
        <4> HIDE DEF keep
        <4> QED BY <1>1, <1>3, <1>5, <4>3, <4>4, KeepsFront
      <3> QED BY <3>1, <3>2
    <2>2. i \in 1..Len(hs)
      BY <1>8, <2>1
    <2> QED BY <1>8, <1>11, <2>1, <2>2 DEF InOrder
  <1>12. ASSUME InOrder(hs) PROVE InOrder(new)
    <2>1. ASSUME NEW i \in 1..Len(new) PROVE new[i].number = i
      BY <1>6, <1>7, <1>11, <1>12
    <2> QED BY <2>1 DEF InOrder
  <1> QED BY <1>7, <1>9, <1>10, <1>12 DEF new, Shows
-----------------------------------------------------------------------------
\* The window manager's commands.

\* The notifications on their way are hooks.
LEMMA PendingType ==
    ASSUME TypeOK
    PROVE  Pending \in Seq(Hook) /\ Len(Pending) \in Nat
  BY DEF TypeOK, Pending

\* WorkspaceList reads the list with the same operators.
LEMMA SameList ==
    ASSUME NEW row, NEW x
    PROVE  WL!Listed(row) = Listed(row) /\ WL!Erase(row, x) = Erase(row, x)
  BY DEF WL!Listed, Listed, WL!ToSet, ToSet, WL!Erase, Erase, WL!RemoveAt, RemoveAt,
         WL!Position, Position

\* A command only gives the lock holder hooks to make: the rest is as it was.
LEMMA CommandKeeps ==
    ASSUME IInv, LockFree, UNCHANGED <<shared, clients>>,
           loop' = "binding" <=> loop = "binding", target' = target,
           TypeOK', ListSound', LoopSound', RegistryCatchesUp', HooksInOrder'
    PROVE  IInv'
  <1>1. Pending' = Pending
    BY DEF Pending, shared
  <1>2. todo = <<>>
    BY DEF LockFree
  <1>3. Numbered'
    BY DEF IInv, Numbered, clients
  <1>4. NotificationsTrue'
    BY <1>1, <1>2 DEF IInv, NotificationsTrue, shared
  <1>5. HandlesCatchUp'
    <2>1. Present' = Present
      BY DEF Present, shared
    <2>2. \A c \in Client \ bound' : handles'[c] = <<>>
      BY DEF IInv, HandlesCatchUp, clients
    <2>3. ASSUME NEW c \in bound
          PROVE  /\ \A i \in 1..Len(handles'[c]) :
                       registry'[handles'[c][i].ws] = "absent" =>
                          Has(Pending', Hk("destroy", handles'[c][i].ws))
                 /\ loop' = "binding" /\ target' = c => handles'[c] = <<>>
      BY <1>1 DEF IInv, HandlesCatchUp, clients, shared
    <2>4. ASSUME NEW c \in bound, c \notin discarded, ~(loop = "binding" /\ target = c),
                 NEW ws \in Present
          PROVE  /\ \/ Has(Pending', Hk("create", ws))
                    \/ \E i \in 1..Len(handles'[c]) : handles'[c][i].ws = ws
                 /\ \/ Has(Pending', Hk("activate", ws)) \/ Has(Pending', Hk("deactivate", ws))
                    \/ \E i \in First(handles'[c], ws) : handles'[c][i].state = registry'[ws]
      BY <1>1, <1>2, <2>4 DEF IInv, HandlesCatchUp, clients, shared
    <2> QED BY <2>1, <2>2, <2>3, <2>4 DEF HandlesCatchUp, clients
  <1>6. OutputsCatchUp'
    BY <1>1 DEF IInv, OutputsCatchUp, clients, shared
  <1> QED BY <1>3, <1>4, <1>5, <1>6 DEF IInv

\* One more hook, as a sequence of its own.
LEMMA OneMore ==
    ASSUME NEW s \in Seq(Hook), NEW h \in Hook
    PROVE  s \o <<h>> = Append(s, h) /\ s \o <<>> = s
  OBVIOUS

\* What the hooks of a switch leave of a sound registry.
LEMMA SwitchSound ==
    ASSUME IInv, LockFree, active # None, UNCHANGED <<shared, clients>>,
           NEW ws \in Workspace, ws # active,
           todo' = SwitchHooks(ws),
           Listed(workspaces') \subseteq Listed(workspaces),
           \A v \in Listed(workspaces) : v # active => v \in Listed(workspaces')
    PROVE  todo' \in Seq(Hook) /\ HooksInOrder' /\ (active' = ws /\ ws \in Listed(workspaces) => RegistryCatchesUp')
  <1>1. todo = <<>> /\ active \in Workspace /\ active \in Listed(workspaces)
    BY DEF LockFree, IInv, TypeOK, ListSound
  <1>2. \A v \in Workspace : registry[v] = Standing(v)
    BY <1>1 DEF IInv, RegistryCatchesUp
  <1>3. registry' = registry /\ Pending' = Pending /\ outputs' = outputs
    BY DEF shared, Pending
  <1>old. PICK old \in Workspace : old = active
    BY <1>1
  <1> DEFINE d == Hk("deactivate", old)
             a == Hk("activate", ws)
             x == Hk("destroy", old)
  <1>4. /\ d \in Hook /\ d.op = "deactivate" /\ d.of = old
        /\ a \in Hook /\ a.op = "activate" /\ a.of = ws
        /\ x \in Hook /\ x.op = "destroy" /\ x.of = old
    BY DEF Hook, Hk, Op
  <1>5. registry[old] = "active" /\ (ws \in Listed(workspaces) => registry[ws] = "hidden")
    BY <1>1, <1>2, <1>old DEF Standing
  <1>6. CASE active \in Listed(workspaces')
    <2>1. todo' = <<d, a>>
      BY <1>6, <1>old DEF SwitchHooks
    <2> HIDE DEF d, a, x
    <2>2. /\ todo' \in Seq(Hook) /\ Len(todo') = 2 /\ todo'[1] = d /\ todo'[2] = a
          /\ \A j \in 1..Len(todo') : j = 1 \/ j = 2
      BY <1>4, <2>1
    <2>3. HooksInOrder'
      BY <1>4, <2>2 DEF HooksInOrder
    <2>4. ASSUME active' = ws, ws \in Listed(workspaces) PROVE RegistryCatchesUp'
      <3>1. ASSUME NEW v \in Workspace, \A j \in 1..Len(todo') : todo'[j].of # v
            PROVE  registry[v] = Standing(v)'
        <4>1. v # old /\ v # ws
          BY <1>4, <2>2, <3>1
        <4> QED BY <1>2, <1>old, <2>4, <4>1 DEF Standing
      <3>2. Standing(old)' = "hidden" /\ Standing(ws)' = "active"
        BY <1>6, <1>old, <2>4 DEF Standing
      <3>3. ASSUME NEW j \in 1..Len(todo')
            PROVE  /\ Leaves(todo'[j].op) = Standing(todo[j].of)'
                   /\ registry[todo'[j].of] # "absent"
        BY <1>4, <1>5, <2>2, <2>4, <3>2 DEF Leaves, Standing
      <3> QED BY <1>3, <3>1, <3>3 DEF RegistryCatchesUp
    <2> QED BY <2>2, <2>3, <2>4
  <1>7. CASE active \notin Listed(workspaces')
    <2>1. todo' = Append(<<d, a>>, x)
      <3>1. todo' = <<d, a>> \o <<x>>
        BY <1>7, <1>old DEF SwitchHooks
      <3> HIDE DEF d, a, x
      <3> QED BY <1>4, <3>1, OneMore
    <2> HIDE DEF d, a, x
    <2>2. /\ todo' \in Seq(Hook) /\ Len(todo') = 3
          /\ todo'[1] = d /\ todo'[2] = a /\ todo'[3] = x
          /\ \A j \in 1..Len(todo') : j = 1 \/ j = 2 \/ j = 3
      BY <1>4, <2>1
    <2>3. HooksInOrder'
      BY <1>3, <1>4, <1>5, <2>2 DEF HooksInOrder
    <2>4. ASSUME active' = ws, ws \in Listed(workspaces) PROVE RegistryCatchesUp'
      <3>1. ASSUME NEW v \in Workspace, \A j \in 1..Len(todo') : todo'[j].of # v
            PROVE  registry[v] = Standing(v)'
        <4>1. v # old /\ v # ws
          BY <1>4, <2>2, <3>1
        <4> QED BY <1>2, <1>old, <2>4, <4>1 DEF Standing
      <3>2. Standing(old)' = "absent" /\ Standing(ws)' = "active"
        BY <1>7, <1>old, <2>4 DEF Standing
      <3>3. ~LastAbout(todo', 1)
        BY <1>4, <2>2 DEF LastAbout
      <3>4. ASSUME NEW j \in 1..Len(todo')
            PROVE  /\ LastAbout(todo', j) => Leaves(todo'[j].op) = Standing(todo[j].of)'
                   /\ registry[todo'[j].of] # "absent"
        BY <1>4, <1>5, <2>2, <2>4, <3>2, <3>3 DEF Leaves, Standing
      <3> QED BY <1>3, <3>1, <3>4 DEF RegistryCatchesUp
    <2> QED BY <2>2, <2>3, <2>4
  <1> QED BY <1>6, <1>7

\* What the hooks of an extension leave of a sound registry.
LEMMA ExtendSound ==
    ASSUME IInv, LockFree, active # None, UNCHANGED <<shared, clients>>,
           NEW ws \in Workspace, ws \notin Listed(workspaces), Unused(ws),
           todo' = ExtendHooks(ws), active' = ws,
           Listed(workspaces') \subseteq Listed(workspaces) \cup {ws},
           \A v \in Listed(workspaces) \cup {ws} : v # active => v \in Listed(workspaces')
    PROVE  todo' \in Seq(Hook) /\ HooksInOrder' /\ RegistryCatchesUp'
  <1>1. /\ todo = <<>> /\ posting = None /\ active \in Workspace /\ active \in Listed(workspaces)
        /\ ws # active /\ queue \in Seq(Hook)
    BY DEF LockFree, IInv, TypeOK, ListSound
  <1>2. \A v \in Workspace : registry[v] = Standing(v)
    BY <1>1 DEF IInv, RegistryCatchesUp
  <1>3. registry' = registry /\ Pending' = queue /\ outputs' = outputs
    BY <1>1 DEF shared, Pending
  <1>4. registry[ws] = "absent" /\ \A k \in 1..Len(queue) : queue[k].of # ws
    BY DEF Unused
  <1>old. PICK old \in Workspace : old = active
    BY <1>1
  <1>5. registry[old] = "active"
    BY <1>1, <1>2, <1>old DEF Standing
  <1> DEFINE c == Hk("create", ws)
             a == Hk("activate", ws)
             d == Hk("deactivate", old)
             x == Hk("destroy", old)
             gone == old \notin Listed(workspaces')
  <1>6. /\ c \in Hook /\ c.op = "create" /\ c.of = ws
        /\ d \in Hook /\ d.op = "deactivate" /\ d.of = old
        /\ a \in Hook /\ a.op = "activate" /\ a.of = ws
        /\ x \in Hook /\ x.op = "destroy" /\ x.of = old
    BY DEF Hook, Hk, Op
  <1>7. todo' = <<c, a>> \o (<<d, a>> \o IF gone THEN <<x>> ELSE <<>>)
    BY <1>old DEF ExtendHooks, SwitchHooks
  <1>8. Hk("activate", c.of) = a
    BY <1>6
  <1> HIDE DEF a, c, d, x
  <1>9. <<c, a>> \in Seq(Hook) /\ <<d, a>> \in Seq(Hook)
    BY <1>6
  <1>10. CASE ~gone
    <2>1. todo' = <<c, a>> \o <<d, a>>
      BY <1>7, <1>9, <1>10, <1>6, OneMore
    <2>2. /\ todo' \in Seq(Hook) /\ Len(todo') = 4
          /\ todo'[1] = c /\ todo'[2] = a /\ todo'[3] = d /\ todo'[4] = a
          /\ \A j \in 1..Len(todo') : j = 1 \/ j = 2 \/ j = 3 \/ j = 4
      BY <1>6, <2>1
    <2>3. HooksInOrder'
      BY <1>3, <1>4, <1>6, <1>8, <2>2 DEF HooksInOrder
    <2>4. ASSUME NEW v \in Workspace, \A j \in 1..Len(todo') : todo'[j].of # v
          PROVE  registry[v] = Standing(v)'
      <3>1. v # old /\ v # ws
        BY <1>6, <2>2, <2>4
      <3> QED BY <1>2, <1>old, <3>1 DEF Standing
    <2>5. Standing(old)' = "hidden" /\ Standing(ws)' = "active"
      BY <1>1, <1>10, <1>old DEF Standing
    <2>6. ~LastAbout(todo', 1)
      BY <1>6, <2>2 DEF LastAbout
    <2>7. ASSUME NEW j \in 1..Len(todo')
          PROVE  /\ LastAbout(todo', j) => Leaves(todo'[j].op) = Standing(todo[j].of)'
                 /\ todo'[j].op \in {"activate", "deactivate"} =>
                        registry[todo'[j].of] # "absent" \/ todo'[1] = Hk("create", todo'[j].of)
      <3>1. LastAbout(todo', j) => Leaves(todo'[j].op) = Standing(todo[j].of)'
        BY <1>6, <2>2, <2>5, <2>6 DEF Leaves, Standing
      <3>2. c = Hk("create", ws)
        BY DEF c
      <3> QED BY <1>5, <1>6, <2>2, <3>1, <3>2
    <2> QED BY <1>3, <2>2, <2>3, <2>4, <2>7 DEF RegistryCatchesUp
  <1>11. CASE gone
    <2>1. todo' = <<c, a>> \o Append(<<d, a>>, x)
      BY <1>7, <1>9, <1>11, <1>6, OneMore
    <2>2. /\ todo' \in Seq(Hook) /\ Len(todo') = 5
          /\ todo'[1] = c /\ todo'[2] = a /\ todo'[3] = d /\ todo'[4] = a /\ todo'[5] = x
          /\ \A j \in 1..Len(todo') : j = 1 \/ j = 2 \/ j = 3 \/ j = 4 \/ j = 5
      BY <1>6, <2>1
    <2>3. HooksInOrder'
      BY <1>3, <1>4, <1>5, <1>6, <1>8, <2>2 DEF HooksInOrder
    <2>4. ASSUME NEW v \in Workspace, \A j \in 1..Len(todo') : todo'[j].of # v
          PROVE  registry[v] = Standing(v)'
      <3>1. v # old /\ v # ws
        BY <1>6, <2>2, <2>4
      <3> QED BY <1>2, <1>old, <3>1 DEF Standing
    <2>5. Standing(old)' = "absent" /\ Standing(ws)' = "active"
      BY <1>1, <1>11, <1>old DEF Standing
    <2>6. ~LastAbout(todo', 1) /\ ~LastAbout(todo', 3)
      BY <1>6, <2>2 DEF LastAbout
    <2>7. ASSUME NEW j \in 1..Len(todo')
          PROVE  /\ LastAbout(todo', j) => Leaves(todo'[j].op) = Standing(todo[j].of)'
                 /\ todo'[j].op \in {"activate", "deactivate"} =>
                        registry[todo'[j].of] # "absent" \/ todo'[1] = Hk("create", todo'[j].of)
      <3>1. LastAbout(todo', j) => Leaves(todo'[j].op) = Standing(todo[j].of)'
        BY <1>6, <2>2, <2>5, <2>6 DEF Leaves, Standing
      <3>2. c = Hk("create", ws)
        BY DEF c
      <3> QED BY <1>5, <1>6, <2>2, <3>1, <3>2
    <2> QED BY <1>3, <2>2, <2>3, <2>4, <2>7 DEF RegistryCatchesUp
  <1> QED BY <1>10, <1>11

\* The list after the active workspace has been left, and perhaps erased.
LEMMA LeftRow ==
    ASSUME NEW row \in Seq(Workspace), NoRepeats(row), active \in Listed(row),
           workspaces' \in {row, Erase(row, active)}
    PROVE  /\ workspaces' \in Seq(Workspace) /\ NoRepeats(workspaces')
           /\ Listed(workspaces') \subseteq Listed(row)
           /\ \A v \in Listed(row) : v # active => v \in Listed(workspaces')
  BY EraseListed

\* Switching under the manager's lock keeps the invariant.
LEMMA SwitchCommandKeeps ==
    ASSUME IInv, NEW ws \in Workspace, SwitchCommand(ws)
    PROVE  IInv'
  <1>1. /\ LockFree /\ active # None /\ todo' = SwitchHooks(ws)
        /\ UNCHANGED <<shared, main, clients>>
        /\ ws \in Listed(workspaces) /\ ws # active /\ active' = ws
        /\ workspaces' \in {workspaces, Erase(workspaces, active)}
    BY SameList DEF SwitchCommand, WL!Switch, WL!Leave
  <1>2. workspaces \in Seq(Workspace) /\ NoRepeats(workspaces) /\ active \in Listed(workspaces)
    BY <1>1 DEF IInv, TypeOK, ListSound
  <1>3. /\ workspaces' \in Seq(Workspace) /\ NoRepeats(workspaces')
        /\ Listed(workspaces') \subseteq Listed(workspaces)
        /\ \A v \in Listed(workspaces) : v # active => v \in Listed(workspaces')
    BY <1>1, <1>2, LeftRow
  <1>4. todo' \in Seq(Hook) /\ HooksInOrder' /\ RegistryCatchesUp'
    BY <1>1, <1>3, SwitchSound
  <1>5. TypeOK'
    BY <1>1, <1>3, <1>4 DEF IInv, TypeOK, shared, main, clients
  <1>6. ListSound'
    BY <1>1, <1>3 DEF ListSound
  <1>7. LoopSound' /\ loop' = loop /\ target' = target
    BY <1>1 DEF IInv, LoopSound, main, clients
  <1> QED BY <1>1, <1>4, <1>5, <1>6, <1>7, CommandKeeps

\* So does extending the row.
LEMMA ExtendCommandKeeps ==
    ASSUME IInv, NEW ws \in Workspace, ExtendCommand(ws)
    PROVE  IInv'
  <1> DEFINE row == Append(workspaces, ws)
  <1>1. /\ LockFree /\ active # None /\ todo' = ExtendHooks(ws) /\ Unused(ws)
        /\ UNCHANGED <<shared, main, clients>>
        /\ ws \notin Listed(workspaces) /\ active' = ws
        /\ workspaces' \in {row, Erase(row, active)}
    BY SameList DEF ExtendCommand, WL!Extend, WL!Leave
  <1>2. workspaces \in Seq(Workspace) /\ NoRepeats(workspaces) /\ active \in Listed(workspaces)
    BY <1>1 DEF IInv, TypeOK, ListSound
  <1>3. row \in Seq(Workspace) /\ NoRepeats(row) /\ Listed(row) = Listed(workspaces) \cup {ws}
    BY <1>1, <1>2, AppendListed
  <1> HIDE DEF row
  <1>4. /\ workspaces' \in Seq(Workspace) /\ NoRepeats(workspaces')
        /\ Listed(workspaces') \subseteq Listed(workspaces) \cup {ws}
        /\ \A v \in Listed(workspaces) \cup {ws} : v # active => v \in Listed(workspaces')
    BY <1>1, <1>2, <1>3, LeftRow
  <1>5. todo' \in Seq(Hook) /\ HooksInOrder' /\ RegistryCatchesUp'
    BY <1>1, <1>4, ExtendSound
  <1>6. TypeOK'
    BY <1>1, <1>4, <1>5 DEF IInv, TypeOK, shared, main, clients
  <1>7. ListSound'
    BY <1>1, <1>2, <1>4 DEF ListSound
  <1>8. LoopSound' /\ loop' = loop /\ target' = target
    BY <1>1 DEF IInv, LoopSound, main, clients
  <1> QED BY <1>1, <1>5, <1>6, <1>7, <1>8, CommandKeeps

\* A client's activate request, once the callback has the lock, keeps it too,
\* even for a workspace that is no longer in the list.
LEMMA ActivatorKeeps ==
    ASSUME IInv, ActivatorCallback
    PROVE  IInv'
  <1>1. /\ loop = "waiting" /\ LockFree /\ active # None /\ loop' = "inside"
        /\ UNCHANGED <<shared, target, clients>>
    BY DEF ActivatorCallback
  <1>2. target \in Workspace
    BY <1>1 DEF IInv, LoopSound
  <1>3. /\ workspaces \in Seq(Workspace) /\ NoRepeats(workspaces)
        /\ active \in Listed(workspaces) /\ active \in Workspace
    BY <1>1 DEF IInv, TypeOK, ListSound
  <1>4. LoopSound'
    BY <1>1, <1>2 DEF LoopSound
  <1>5. CASE target = active
    <2>1. UNCHANGED manager
      BY <1>5 DEF ActivatorCallback
    <2>2. TypeOK'
      BY <1>1, <2>1 DEF IInv, TypeOK, shared, clients, manager
    <2>3. ListSound'
      BY <2>1 DEF IInv, ListSound, manager
    <2>4. HooksInOrder' /\ RegistryCatchesUp'
      BY <1>1, <2>1 DEF HooksInOrder, RegistryCatchesUp, LockFree, manager, shared, Standing, IInv
    <2> QED BY <1>1, <1>4, <2>2, <2>3, <2>4, CommandKeeps
  <1>6. CASE target # active /\ target \in Listed(workspaces)
    <2>1. /\ todo' = SwitchHooks(target) /\ active' = target
          /\ workspaces' \in {workspaces, Erase(workspaces, active)}
      BY <1>6, SameList DEF ActivatorCallback, WL!Switch, WL!Leave
    <2>2. /\ workspaces' \in Seq(Workspace) /\ NoRepeats(workspaces')
          /\ Listed(workspaces') \subseteq Listed(workspaces)
          /\ \A v \in Listed(workspaces) : v # active => v \in Listed(workspaces')
      BY <1>3, <2>1, LeftRow
    <2>3. PICK ws \in Workspace : ws = target
      BY <1>2
    <2>4. todo' \in Seq(Hook) /\ HooksInOrder' /\ RegistryCatchesUp'
      <3>1. ws # active /\ ws \in Listed(workspaces) /\ todo' = SwitchHooks(ws) /\ active' = ws
        BY <1>6, <2>1, <2>3
      <3> QED BY <1>1, <2>2, <3>1, SwitchSound
    <2>5. TypeOK'
      BY <1>1, <1>2, <2>1, <2>2, <2>4 DEF IInv, TypeOK, shared, clients
    <2>6. ListSound'
      BY <1>6, <2>1, <2>2 DEF ListSound
    <2> QED BY <1>1, <1>4, <2>4, <2>5, <2>6, CommandKeeps
  <1>7. CASE target # active /\ target \notin Listed(workspaces)
    <2>1. /\ todo' = SwitchHooks(target) /\ active' = None
          /\ workspaces' \in {workspaces, Erase(workspaces, active)}
      BY <1>7 DEF ActivatorCallback
    <2>2. /\ workspaces' \in Seq(Workspace) /\ NoRepeats(workspaces')
          /\ Listed(workspaces') \subseteq Listed(workspaces)
          /\ \A v \in Listed(workspaces) : v # active => v \in Listed(workspaces')
      BY <1>3, <2>1, LeftRow
    <2>3. PICK ws \in Workspace : ws = target
      BY <1>2
    <2>4. todo' \in Seq(Hook) /\ HooksInOrder'
      <3>1. ws # active /\ todo' = SwitchHooks(ws)
        BY <1>7, <2>1, <2>3
      <3> QED BY <1>1, <2>2, <3>1, SwitchSound
    <2>5. TypeOK'
      BY <1>1, <1>2, <2>1, <2>2, <2>4 DEF IInv, TypeOK, shared, clients
    <2>6. ListSound'
      BY <2>1, <2>2 DEF ListSound
    <2>7. RegistryCatchesUp'
      BY <2>1 DEF RegistryCatchesUp
    <2> QED BY <1>1, <1>4, <2>4, <2>5, <2>6, <2>7, CommandKeeps
  <1> QED BY <1>5, <1>6, <1>7

\* Outputs that come and go keep it.
LEMMA OutputCommandKeeps ==
    ASSUME IInv, NEW o \in Output, OutputPlugged(o) \/ OutputUnplugged(o)
    PROVE  IInv'
  <1>1. /\ LockFree /\ active # None /\ UNCHANGED <<list, shared, main, clients>>
        /\ todo = <<>> /\ posting = None
    BY DEF OutputPlugged, OutputUnplugged, LockFree
  <1>2. PICK h \in Hook :
            /\ todo' = <<h>> /\ h.of = o /\ h.op \in OutputOp
            /\ h.op = "output_create" =>
                  o \notin outputs /\ \A k \in 1..Len(queue) : queue[k].of # o
    <2>1. /\ Hk("output_create", o) \in Hook /\ Hk("output_create", o).of = o
          /\ Hk("output_create", o).op = "output_create"
          /\ Hk("output_destroy", o) \in Hook /\ Hk("output_destroy", o).of = o
          /\ Hk("output_destroy", o).op = "output_destroy"
      BY DEF Hook, Hk, OutputOp
    <2>2. CASE OutputPlugged(o)
      <3>1. /\ todo' = <<Hk("output_create", o)>>
            /\ o \notin outputs /\ \A k \in 1..Len(queue) : queue[k].of # o
        BY <2>2 DEF OutputPlugged
      <3> QED BY <2>1, <3>1 DEF OutputOp
    <2>3. CASE OutputUnplugged(o)
      <3>1. todo' = <<Hk("output_destroy", o)>>
        BY <2>3 DEF OutputUnplugged
      <3> QED BY <2>1, <3>1 DEF OutputOp
    <2> QED BY <2>2, <2>3
  <1>3. /\ todo' \in Seq(Hook) /\ Len(todo') = 1 /\ todo'[1] = h
        /\ \A j \in 1..Len(todo') : j = 1
    BY <1>2
  <1>4. Pending' = queue
    BY <1>1 DEF Pending, shared
  <1>5. h.op \notin Op /\ h.op # "create" /\ h.op # "destroy" /\ h.of \notin Workspace
    <2>1. h.of \notin Workspace
      BY <1>2, HookParts
    <2> QED BY <1>2, <2>1 DEF Op, OutputOp
  <1>6. HooksInOrder'
    BY <1>1, <1>2, <1>3, <1>4, <1>5 DEF HooksInOrder, shared
  <1>7. RegistryCatchesUp'
    <2>1. \A v \in Workspace : registry[v] = Standing(v)
      BY <1>1 DEF IInv, RegistryCatchesUp
    <2>2. \A v \in Workspace : registry'[v] = Standing(v)'
      BY <1>1, <2>1 DEF Standing, shared, list
    <2> QED BY <1>3, <1>5, <2>2 DEF RegistryCatchesUp
  <1>8. TypeOK'
    BY <1>1, <1>3 DEF IInv, TypeOK, list, shared, main, clients
  <1>9. ListSound'
    BY <1>1 DEF IInv, ListSound, list
  <1>10. LoopSound' /\ loop' = loop /\ target' = target
    BY <1>1 DEF IInv, LoopSound, main, clients
  <1> QED BY <1>1, <1>6, <1>7, <1>8, <1>9, <1>10, CommandKeeps
-----------------------------------------------------------------------------
\* The two halves of a hook.

\* Every client has a list of handles.
LEMMA HandlesTyped ==
    ASSUME TypeOK, NEW c \in bound
    PROVE  /\ c \in Client /\ handles[c] \in Seq(Handle) /\ Len(handles[c]) \in Nat
           /\ \A i \in 1..Len(handles[c]) : handles[c][i] \in Handle /\ handles[c][i].ws \in Workspace
  <1>1. c \in Client /\ handles[c] \in Seq(Handle)
    BY DEF TypeOK
  <1>2. \A i \in 1..Len(handles[c]) : handles[c][i] \in Handle
    BY <1>1
  <1>3. \A h \in Handle : h.ws \in Workspace
    BY DEF Handle
  <1> QED BY <1>1, <1>2, <1>3

\* What is left to do keeps its order.
LEMMA TodoTail ==
    ASSUME IInv, todo # <<>>, todo' = Tail(todo),
           Pending' \in Seq(Hook), registry' \in [Workspace -> {"absent", "active", "hidden"}],
           \A v \in Workspace : registry[v] # "absent" /\ registry'[v] = "absent" =>
                todo[1].op = "destroy"
    PROVE  HooksInOrder'
  <1>1. todo \in Seq(Hook)
    BY DEF IInv, TypeOK
  <1>2. /\ Len(todo) \in Nat /\ Len(todo') = Len(todo) - 1 /\ 1 \in 1..Len(todo)
        /\ \A j \in 1..Len(todo') :
              j + 1 \in 1..Len(todo) /\ todo'[j] = todo[j + 1] /\ todo'[j] \in Hook
    BY <1>1, TailHook
  <1>3. ASSUME NEW j \in 1..Len(todo')
        PROVE  /\ todo'[j].op # "create" /\ todo'[j].op # "output_create"
               /\ todo'[j].op = "destroy" => j = Len(todo') /\ registry'[todo'[j].of] # "absent"
    <2>1. j + 1 \in 1..Len(todo) /\ j \in Nat /\ j >= 1 /\ todo'[j] = todo[j + 1]
      BY <1>2
    <2>2. j + 1 # 1
      BY <2>1
    <2>3. todo[j + 1].op # "create" /\ todo[j + 1].op # "output_create"
      BY <2>1, <2>2 DEF IInv, HooksInOrder
    <2>4. ASSUME todo[j + 1].op = "destroy"
          PROVE  j = Len(todo') /\ registry'[todo[j + 1].of] # "absent"
      <3>1. j + 1 = Len(todo) /\ registry[todo[j + 1].of] # "absent"
        BY <2>1, <2>4 DEF IInv, HooksInOrder
      <3>2. 1 # Len(todo)
        BY <2>2, <3>1
      <3>3. todo[1].op # "destroy"
        BY <1>2, <3>2 DEF IInv, HooksInOrder
      <3>4. todo[j + 1].of \in Workspace
        BY <1>2, <2>1, <2>4, HookParts DEF Op
      <3>5. j = Len(todo')
        <4>1. j = Len(todo) - 1
          BY <2>1, <3>1
        <4> QED BY <1>2, <4>1
      <3>6. PICK v \in Workspace : v = todo[j + 1].of
        BY <3>4
      <3>7. registry[v] # "absent" /\ registry'[v] # "absent"
        BY <3>1, <3>3, <3>6
      <3> QED BY <3>5, <3>6, <3>7
    <2> QED BY <2>1, <2>3, <2>4
  <1> QED BY <1>3 DEF HooksInOrder

\* The first half of an output's hook keeps the invariant.
LEMMA OutputHookKeeps ==
    ASSUME IInv, posting = None, todo # <<>>, todo' = Tail(todo),
           NEW h \in Hook, h = todo[1], h.op \in OutputOp,
           outputs' = IF h.op = "output_create" THEN outputs \cup {h.of} ELSE outputs \ {h.of},
           posting' = h,
           UNCHANGED <<registry, list, queue, main, clients>>
    PROVE  IInv'
  <1>1. todo \in Seq(Hook) /\ queue \in Seq(Hook) /\ Pending = queue
    BY DEF IInv, TypeOK, Pending
  <1>2. h.of \in Output /\ h.of \notin Workspace /\ h.op \notin Op
    BY HookParts
  <1>3. Pending' = Append(queue, h)
    BY HookParts DEF Pending
  <1>4. /\ Len(todo) \in Nat /\ Len(todo') = Len(todo) - 1 /\ todo' \in Seq(Hook)
        /\ \A j \in 1..Len(todo') :
              j + 1 \in 1..Len(todo) /\ todo'[j] = todo[j + 1] /\ todo'[j] \in Hook
        /\ \A j \in 1..Len(todo) : j = 1 \/ (j - 1 \in 1..Len(todo') /\ todo'[j - 1] = todo[j])
        /\ \A j \in 1..Len(todo') : LastAbout(todo', j) <=> LastAbout(todo, j + 1)
    BY <1>1, TailHook
  <1>5. /\ Pending' \in Seq(Hook) /\ Len(Pending') = Len(queue) + 1 /\ Len(queue) \in Nat
        /\ \A j \in 1..Len(queue) : j \in 1..Len(Pending') /\ Pending'[j] = queue[j]
        /\ Len(queue) + 1 \in 1..Len(Pending') /\ Pending'[Len(queue) + 1] = h
        /\ \A j \in 1..Len(Pending') : j \in 1..Len(queue) \/ j = Len(queue) + 1
        /\ \A j \in 1..Len(queue) : LastAbout(Pending', j) <=> LastAbout(queue, j) /\ h.of # queue[j].of
        /\ \A j \in 1..Len(queue) : FirstAbout(Pending', j) <=> FirstAbout(queue, j)
        /\ \A g : Has(Pending', g) <=> Has(queue, g) \/ g = h
    BY <1>1, <1>3, AppendHook
  <1>6. TypeOK'
    BY <1>2, <1>4 DEF IInv, TypeOK, list, main, clients
  <1>7. ListSound' /\ LoopSound' /\ Numbered'
    BY DEF IInv, ListSound, LoopSound, Numbered, list, main, clients
  <1>8. RegistryCatchesUp'
    <2>1. ASSUME active # None, NEW v \in Workspace, \A j \in 1..Len(todo') : todo'[j].of # v
          PROVE  registry[v] = Standing(v)
      <3>1. \A j \in 1..Len(todo) : todo[j].of # v
        BY <1>2, <1>4, <2>1
      <3> QED BY <2>1, <3>1 DEF IInv, RegistryCatchesUp
    <2>2. ASSUME active # None, NEW j \in 1..Len(todo'), todo'[j].op \in Op
          PROVE  /\ LastAbout(todo', j) => Leaves(todo'[j].op) = Standing(todo[j + 1].of)
                 /\ todo'[j].op \in {"activate", "deactivate"} => registry[todo'[j].of] # "absent"
      <3>1. todo[1].op # "create"
        BY <1>2 DEF Op
      <3>2. \A v : todo[1] # Hk("create", v)
        BY <3>1 DEF Hk
      <3> QED BY <1>4, <2>2, <3>2 DEF IInv, RegistryCatchesUp
    <2> QED BY <1>4, <2>1, <2>2 DEF RegistryCatchesUp, Standing, list
  <1>9. HooksInOrder'
    BY <1>5, <1>6, TodoTail DEF TypeOK
  <1>10. \A v : todo[1] # Hk("activate", v)
    BY <1>2 DEF Op, Hk
  <1>11. NotificationsTrue'
    <2>1. ASSUME NEW j \in 1..Len(queue)
          PROVE  /\ queue[j].op \in Op /\ LastAbout(Pending', j) =>
                       registry[queue[j].of] = Leaves(queue[j].op)
                 /\ queue[j].op = "create" => FirstAbout(Pending', j) /\ ~LastAbout(Pending', j)
                 /\ queue[j].op = "destroy" => LastAbout(Pending', j)
      <3>1. queue[j] \in Hook
        BY <1>1
      <3>2. queue[j].op = "destroy" => queue[j].of \in Workspace
        BY <3>1, HookParts DEF Op
      <3> QED BY <1>1, <1>2, <1>5, <1>10, <3>2 DEF IInv, NotificationsTrue
    <2>2. h.op # "create" /\ h.op # "destroy"
      BY <1>2 DEF Op
    <2> QED BY <1>2, <1>5, <2>1, <2>2 DEF NotificationsTrue
  <1>12. HandlesCatchUp'
    <2>1. Present' = Present
      BY DEF Present
    <2>2. \A c \in Client \ bound : handles[c] = <<>>
      BY DEF IInv, HandlesCatchUp
    <2>3. ASSUME NEW c \in bound
          PROVE  /\ \A i \in 1..Len(handles[c]) :
                       registry[handles[c][i].ws] = "absent" =>
                          Has(Pending', Hk("destroy", handles[c][i].ws))
                 /\ loop = "binding" /\ target = c => handles[c] = <<>>
      BY <1>1, <1>5 DEF IInv, HandlesCatchUp
    <2>4. ASSUME NEW c \in bound, c \notin discarded, ~(loop = "binding" /\ target = c),
                 NEW ws \in Present
          PROVE  /\ \/ Has(Pending', Hk("create", ws))
                    \/ \E i \in 1..Len(handles[c]) : handles[c][i].ws = ws
                 /\ \/ Has(Pending', Hk("activate", ws)) \/ Has(Pending', Hk("deactivate", ws))
                    \/ \E i \in First(handles[c], ws) : handles[c][i].state = registry[ws]
      BY <1>1, <1>5, <1>10, <2>4 DEF IInv, HandlesCatchUp
    <2> QED BY <2>1, <2>2, <2>3, <2>4 DEF HandlesCatchUp, main, clients
  <1>13. OutputsCatchUp'
    <2>1. ASSUME NEW j \in 1..Len(Pending'), Pending'[j].op = "output_create",
                 Pending'[j].of \notin outputs'
          PROVE  \E k \in (j + 1)..Len(Pending') : Pending'[k] = Hk("output_destroy", Pending'[j].of)
      <3>1. j \in 1..Len(queue) /\ Pending'[j] = queue[j]
        BY <1>5, <2>1
      <3>2. CASE queue[j].of \notin outputs
        <4>1. PICK k \in (j + 1)..Len(queue) : queue[k] = Hk("output_destroy", queue[j].of)
          BY <1>1, <2>1, <3>1, <3>2 DEF IInv, OutputsCatchUp
        <4>2. k \in 1..Len(queue) /\ k \in (j + 1)..Len(Pending')
          BY <1>5, <3>1
        <4> QED BY <1>5, <3>1, <4>1, <4>2
      <3>3. CASE queue[j].of \in outputs
        <4>1. h.op # "output_create" /\ queue[j].of = h.of
          BY <2>1, <3>1, <3>3
        <4>2. h = Hk("output_destroy", queue[j].of)
          BY <4>1, HookParts DEF OutputOp
        <4>3. Len(queue) + 1 \in (j + 1)..Len(Pending')
          BY <1>5, <3>1
        <4> QED BY <1>5, <3>1, <4>2, <4>3
      <3> QED BY <3>2, <3>3
    <2>2. ASSUME NEW j \in 1..Len(Pending'), Pending'[j].op = "output_destroy"
          PROVE  Pending'[j].of \notin outputs'
      <3>1. CASE j = Len(queue) + 1
        BY <1>5, <2>2, <3>1
      <3>2. CASE j # Len(queue) + 1
        <4>1. j \in 1..Len(queue) /\ Pending'[j] = queue[j]
          BY <1>5, <3>2
        <4>2. queue[j].of \notin outputs
          BY <1>1, <2>2, <4>1 DEF IInv, OutputsCatchUp
        <4>3. 1 \in 1..Len(todo)
          BY <1>1
        <4>4. h.op = "output_create" => queue[j].of # h.of
          BY <1>1, <4>1, <4>3 DEF IInv, HooksInOrder
        <4> QED BY <4>1, <4>2, <4>4
      <3> QED BY <3>1, <3>2
    <2>3. ASSUME NEW c \in Client, NEW o \in Output
          PROVE  /\ wl_output[c][o] = "entered" => c \in bound
                 /\ c \in bound /\ o \in outputs' /\ wl_output[c][o] = "bound" =>
                       Has(Pending', Hk("output_create", o))
                 /\ wl_output[c][o] = "entered" /\ o \notin outputs' =>
                       Has(Pending', Hk("output_destroy", o))
      <3>1. h = Hk(h.op, h.of) /\ h.op \in {"output_create", "output_destroy"}
        BY HookParts DEF OutputOp
      <3> QED BY <1>1, <1>5, <3>1 DEF IInv, OutputsCatchUp
    <2> QED BY <2>1, <2>2, <2>3 DEF OutputsCatchUp, clients
  <1> QED BY <1>6, <1>7, <1>8, <1>9, <1>11, <1>12, <1>13 DEF IInv

\* The registry after the first half of a workspace's hook.
LEMMA RegisteredLeaves ==
    ASSUME IInv, todo # <<>>, NEW h \in Hook, h = todo[1], h.op \in Op,
           registry' = Registered(h)
    PROVE  /\ registry' \in [Workspace -> {"absent", "active", "hidden"}]
           /\ registry'[h.of] = Leaves(h.op)
           /\ \A v \in Workspace : v # h.of => registry'[v] = registry[v]
  <1>1. h.of \in Workspace /\ registry \in [Workspace -> {"absent", "active", "hidden"}]
    BY HookParts DEF IInv, TypeOK
  <1>2. h.op = "create" => registry[h.of] = "absent"
    <2>1. 1 \in 1..Len(todo)
      BY TailHook DEF IInv, TypeOK
    <2> QED BY <2>1 DEF IInv, HooksInOrder
  <1>3. CASE h.op = "create"
    BY <1>1, <1>2, <1>3 DEF Registered, Leaves
  <1>4. CASE h.op = "activate"
    BY <1>1, <1>4 DEF Registered, Leaves
  <1>5. CASE h.op = "deactivate"
    BY <1>1, <1>5 DEF Registered, Leaves
  <1>6. CASE h.op = "destroy"
    BY <1>1, <1>6 DEF Registered, Leaves
  <1> QED BY <1>3, <1>4, <1>5, <1>6 DEF Op

\* The first half of a workspace's hook keeps the invariant.
LEMMA WorkspaceHookKeeps ==
    ASSUME IInv, posting = None, todo # <<>>, todo' = Tail(todo),
           NEW h \in Hook, h = todo[1], h.op \in Op, ~PassedOver(h),
           registry' = Registered(h), posting' = h,
           UNCHANGED <<outputs, list, queue, main, clients>>
    PROVE  IInv'
  <1>1. /\ todo \in Seq(Hook) /\ queue \in Seq(Hook) /\ Pending = queue
        /\ h.of \in Workspace /\ h.op \notin OutputOp
    BY HookParts DEF IInv, TypeOK, Pending
  <1>2. /\ registry' \in [Workspace -> {"absent", "active", "hidden"}]
        /\ registry'[h.of] = Leaves(h.op)
        /\ \A v \in Workspace : v # h.of => registry'[v] = registry[v]
    BY RegisteredLeaves
  <1>3. Pending' = Append(queue, h)
    BY HookParts DEF Pending
  <1>4. /\ Len(todo) \in Nat /\ Len(todo') = Len(todo) - 1 /\ todo' \in Seq(Hook)
        /\ 1 \in 1..Len(todo)
        /\ \A j \in 1..Len(todo') :
              j + 1 \in 1..Len(todo) /\ todo'[j] = todo[j + 1] /\ todo'[j] \in Hook
        /\ \A j \in 1..Len(todo) : j = 1 \/ (j - 1 \in 1..Len(todo') /\ todo'[j - 1] = todo[j])
        /\ \A j \in 1..Len(todo') : LastAbout(todo', j) <=> LastAbout(todo, j + 1)
    BY <1>1, TailHook
  <1>5. /\ Pending' \in Seq(Hook) /\ Len(Pending') = Len(queue) + 1 /\ Len(queue) \in Nat
        /\ \A j \in 1..Len(queue) : j \in 1..Len(Pending') /\ Pending'[j] = queue[j]
        /\ Len(queue) + 1 \in 1..Len(Pending') /\ Pending'[Len(queue) + 1] = h
        /\ \A j \in 1..Len(Pending') : j \in 1..Len(queue) \/ j = Len(queue) + 1
        /\ \A j \in 1..Len(queue) : LastAbout(Pending', j) <=> LastAbout(queue, j) /\ h.of # queue[j].of
        /\ \A j \in 1..Len(queue) : FirstAbout(Pending', j) <=> FirstAbout(queue, j)
        /\ \A g : Has(Pending', g) <=> Has(queue, g) \/ g = h
    BY <1>1, <1>3, AppendHook
  <1>6. h = Hk(h.op, h.of)
    BY HookParts
  <1>7. h.op = "create" =>
            /\ Len(todo) >= 2 /\ todo[2] = Hk("activate", h.of)
            /\ registry[h.of] = "absent" /\ \A k \in 1..Len(queue) : queue[k].of # h.of
    BY <1>1, <1>4 DEF IInv, HooksInOrder
  <1>8. h.op = "destroy" => Len(todo) = 1 /\ registry[h.of] # "absent"
    BY <1>4 DEF IInv, HooksInOrder
  <1>9. h.op \in {"activate", "deactivate"} => registry[h.of] # "absent"
    BY DEF PassedOver
  <1>10. /\ h.op = "create" => todo' # <<>> /\ todo'[1] = Hk("activate", h.of)
         /\ h.op = "destroy" => todo' = <<>>
    <2>1. ASSUME h.op = "create" PROVE todo' # <<>> /\ todo'[1] = Hk("activate", h.of)
      <3>1. 1 \in 1..Len(todo')
        BY <1>4, <1>7, <2>1
      <3>2. todo'[1] = todo[2]
        BY <1>4, <3>1
      <3> QED BY <1>7, <2>1, <3>1, <3>2
    <2>2. ASSUME h.op = "destroy" PROVE todo' = <<>>
      <3>1. Len(todo') = 0
        BY <1>4, <1>8, <2>2
      <3> QED BY <1>4, <3>1
    <2> QED BY <2>1, <2>2
  <1>11. TypeOK'
    BY <1>2, <1>4 DEF IInv, TypeOK, list, main, clients
  <1>12. ListSound' /\ LoopSound' /\ Numbered'
    BY DEF IInv, ListSound, LoopSound, Numbered, list, main, clients
  <1>13. RegistryCatchesUp'
    <2>1. ASSUME active # None, NEW v \in Workspace, \A j \in 1..Len(todo') : todo'[j].of # v
          PROVE  registry'[v] = Standing(v)
      <3>1. CASE v = h.of
        <4>1. LastAbout(todo, 1)
          <5> SUFFICES ASSUME NEW k \in 1..Len(todo), k > 1 PROVE todo[k].of # h.of
            BY DEF LastAbout
          <5>1. k - 1 \in 1..Len(todo') /\ todo'[k - 1] = todo[k]
            BY <1>4
          <5> QED BY <2>1, <3>1, <5>1
        <4> QED BY <1>2, <1>4, <2>1, <3>1, <4>1 DEF IInv, RegistryCatchesUp
      <3>2. CASE v # h.of
        <4>1. \A j \in 1..Len(todo) : todo[j].of # v
          BY <1>4, <2>1, <3>2
        <4> QED BY <1>2, <2>1, <3>2, <4>1 DEF IInv, RegistryCatchesUp
      <3> QED BY <3>1, <3>2
    <2>2. ASSUME active # None, NEW j \in 1..Len(todo'), todo'[j].op \in Op
          PROVE  /\ LastAbout(todo', j) => Leaves(todo'[j].op) = Standing(todo[j + 1].of)
                 /\ todo'[j].op \in {"activate", "deactivate"} => registry'[todo'[j].of] # "absent"
      <3>1. /\ LastAbout(todo, j + 1) => Leaves(todo[j + 1].op) = Standing(todo[j + 1].of)
            /\ todo[j + 1].op \in {"activate", "deactivate"} =>
                  registry[todo[j + 1].of] # "absent" \/ todo[1] = Hk("create", todo[j + 1].of)
        BY <1>4, <2>2 DEF IInv, RegistryCatchesUp
      <3>2. PICK v \in Workspace : v = todo'[j].of
        BY <1>4, <2>2, HookParts
      <3>3. h.op # "destroy"
        <4>1. Len(todo) # 1
          BY <1>4
        <4> QED BY <1>8, <4>1
      <3>4. CASE v = h.of
        <4>1. registry'[v] # "absent"
          BY <1>2, <3>3, <3>4 DEF Leaves
        <4> QED BY <1>4, <3>1, <3>2, <4>1
      <3>5. CASE v # h.of
        <4>1. todo[1] # Hk("create", v)
          BY <3>5 DEF Hk
        <4> QED BY <1>2, <1>4, <3>1, <3>2, <3>5, <4>1
      <3> QED BY <3>4, <3>5
    <2> QED BY <1>4, <2>1, <2>2 DEF RegistryCatchesUp, Standing, list
  <1>14. HooksInOrder'
    <2>1. \A v \in Workspace : registry[v] # "absent" /\ registry'[v] = "absent" =>
              todo[1].op = "destroy"
      BY <1>2 DEF Leaves
    <2> QED BY <1>2, <1>5, <2>1, TodoTail
  <1>15. NotificationsTrue'
    <2>1. ASSUME NEW j \in 1..Len(queue), queue[j].op \in Op
          PROVE  /\ LastAbout(Pending', j) => registry'[queue[j].of] = Leaves(queue[j].op)
                 /\ queue[j].op = "create" => FirstAbout(Pending', j) /\ ~LastAbout(Pending', j)
                 /\ queue[j].op = "destroy" => LastAbout(Pending', j)
      <3>1. PICK v \in Workspace : v = queue[j].of
        BY <1>1, <2>1, HookParts
      <3>2. /\ LastAbout(queue, j) => registry[v] = Leaves(queue[j].op)
            /\ queue[j].op = "create" =>
                  /\ FirstAbout(queue, j)
                  /\ LastAbout(queue, j) => todo[1] = Hk("activate", v)
            /\ queue[j].op = "destroy" => LastAbout(queue, j)
        BY <1>1, <2>1, <3>1 DEF IInv, NotificationsTrue
      <3>3. LastAbout(Pending', j) => registry'[v] = Leaves(queue[j].op)
        BY <1>2, <1>5, <3>1, <3>2
      <3>4. queue[j].op = "create" => ~LastAbout(Pending', j)
        <4>1. Hk("activate", v).of = v
          BY DEF Hk
        <4> QED BY <1>5, <3>1, <3>2, <4>1
      <3>5. ASSUME queue[j].op = "destroy" PROVE h.of # v
        <4>1. registry[v] = "absent"
          BY <3>2, <3>5 DEF Leaves
        <4> QED BY <1>7, <1>8, <1>9, <3>1, <4>1 DEF Op
      <3> QED BY <1>5, <3>1, <3>2, <3>3, <3>4, <3>5
    <2>2. h.op = "create" => FirstAbout(Pending', Len(queue) + 1)
      <3> SUFFICES ASSUME h.op = "create", NEW k \in 1..Len(Pending'), k < Len(queue) + 1
                   PROVE  Pending'[k].of # h.of
        BY <1>5 DEF FirstAbout
      <3>1. k \in 1..Len(queue)
        BY <1>5
      <3> QED BY <1>5, <1>7, <3>1
    <2>3. LastAbout(Pending', Len(queue) + 1)
      BY <1>5 DEF LastAbout
    <2>4. ASSUME NEW j \in 1..Len(Pending')
          PROVE  /\ Pending'[j].op \in Op /\ LastAbout(Pending', j) =>
                       registry'[Pending'[j].of] = Leaves(Pending'[j].op)
                 /\ Pending'[j].op = "create" =>
                       /\ FirstAbout(Pending', j)
                       /\ LastAbout(Pending', j) => todo' # <<>> /\ todo'[1] = Hk("activate", Pending'[j].of)
                 /\ Pending'[j].op = "destroy" => LastAbout(Pending', j)
      <3>1. CASE j = Len(queue) + 1
        BY <1>2, <1>5, <1>10, <2>2, <2>3, <3>1
      <3>2. CASE j # Len(queue) + 1
        <4>1. j \in 1..Len(queue) /\ Pending'[j] = queue[j]
          BY <1>5, <3>2
        <4>2. "create" \in Op /\ "destroy" \in Op
          BY DEF Op
        <4> QED BY <2>1, <4>1, <4>2
      <3> QED BY <3>1, <3>2
    <2> QED BY <2>4 DEF NotificationsTrue
  <1>16. HandlesCatchUp'
    <2>1. \A c \in Client \ bound : handles[c] = <<>>
      BY DEF IInv, HandlesCatchUp
    <2>2. ASSUME NEW c \in bound, NEW i \in 1..Len(handles[c]),
                 registry'[handles[c][i].ws] = "absent"
          PROVE  Has(Pending', Hk("destroy", handles[c][i].ws))
      <3>1. PICK v \in Workspace : v = handles[c][i].ws
        BY HandlesTyped DEF IInv
      <3>2. CASE v = h.of
        <4>1. h.op = "destroy"
          BY <1>2, <2>2, <3>1, <3>2 DEF Leaves
        <4> QED BY <1>5, <1>6, <3>1, <3>2, <4>1
      <3>3. CASE v # h.of
        <4>1. registry[handles[c][i].ws] = "absent"
          BY <1>2, <2>2, <3>1, <3>3
        <4> QED BY <1>1, <1>5, <4>1 DEF IInv, HandlesCatchUp
      <3> QED BY <3>2, <3>3
    <2>3. ASSUME NEW c \in bound
          PROVE  loop = "binding" /\ target = c => handles[c] = <<>>
      BY DEF IInv, HandlesCatchUp
    <2>4. ASSUME NEW c \in bound, c \notin discarded, ~(loop = "binding" /\ target = c),
                 NEW ws \in Present'
          PROVE  /\ \/ Has(Pending', Hk("create", ws))
                    \/ \E i \in 1..Len(handles[c]) : handles[c][i].ws = ws
                 /\ \/ Has(Pending', Hk("activate", ws)) \/ Has(Pending', Hk("deactivate", ws))
                    \/ todo' # <<>> /\ todo'[1] = Hk("activate", ws)
                    \/ \E i \in First(handles[c], ws) : handles[c][i].state = registry'[ws]
      <3>1. ws \in Workspace /\ registry'[ws] # "absent"
        BY DEF Present
      <3>2. ws \in Present =>
               /\ \/ Has(queue, Hk("create", ws))
                  \/ \E i \in 1..Len(handles[c]) : handles[c][i].ws = ws
               /\ \/ Has(queue, Hk("activate", ws)) \/ Has(queue, Hk("deactivate", ws))
                  \/ todo[1] = Hk("activate", ws)
                  \/ \E i \in First(handles[c], ws) : handles[c][i].state = registry[ws]
        BY <1>1, <2>4 DEF IInv, HandlesCatchUp
      <3>3. CASE ws # h.of
        <4>1. ws \in Present /\ registry'[ws] = registry[ws]
          BY <1>2, <3>1, <3>3 DEF Present
        <4>2. todo[1] # Hk("activate", ws)
          BY <3>3 DEF Hk
        <4> QED BY <1>5, <3>2, <4>1, <4>2
      <3>4. CASE ws = h.of /\ h.op = "create"
        <4>1. h = Hk("create", ws)
          BY <1>6, <3>4
        <4> QED BY <1>5, <1>10, <3>4, <4>1
      <3>5. CASE ws = h.of /\ h.op # "create"
        <4>1. h.op # "destroy"
          BY <1>2, <3>1, <3>5 DEF Leaves
        <4>2. h.op \in {"activate", "deactivate"}
          BY <3>5, <4>1 DEF Op
        <4>3. ws \in Present
          BY <1>9, <3>5, <4>2 DEF Present
        <4>4. h = Hk("activate", ws) \/ h = Hk("deactivate", ws)
          BY <1>6, <3>5, <4>2
        <4> QED BY <1>5, <3>2, <4>3, <4>4
      <3> QED BY <3>3, <3>4, <3>5
    <2> QED BY <2>1, <2>2, <2>3, <2>4 DEF HandlesCatchUp, main, clients
  <1>17. OutputsCatchUp'
    <2>1. ASSUME NEW j \in 1..Len(Pending'), Pending'[j].op \in OutputOp
          PROVE  j \in 1..Len(queue) /\ Pending'[j] = queue[j]
      BY <1>1, <1>5, <2>1
    <2>2. ASSUME NEW j \in 1..Len(Pending'), Pending'[j].op = "output_create",
                 Pending'[j].of \notin outputs
          PROVE  \E k \in (j + 1)..Len(Pending') : Pending'[k] = Hk("output_destroy", Pending'[j].of)
      <3>1. j \in 1..Len(queue) /\ Pending'[j] = queue[j]
        BY <2>1, <2>2 DEF OutputOp
      <3>2. PICK k \in (j + 1)..Len(queue) : queue[k] = Hk("output_destroy", queue[j].of)
        BY <1>1, <2>2, <3>1 DEF IInv, OutputsCatchUp
      <3>3. k \in 1..Len(queue) /\ k \in (j + 1)..Len(Pending')
        BY <1>5, <3>1
      <3> QED BY <1>5, <3>1, <3>2, <3>3
    <2>3. ASSUME NEW j \in 1..Len(Pending'), Pending'[j].op = "output_destroy"
          PROVE  Pending'[j].of \notin outputs
      <3>1. j \in 1..Len(queue) /\ Pending'[j] = queue[j]
        BY <2>1, <2>3 DEF OutputOp
      <3> QED BY <1>1, <2>3, <3>1 DEF IInv, OutputsCatchUp
    <2>4. ASSUME NEW c \in Client, NEW o \in Output
          PROVE  /\ wl_output[c][o] = "entered" => c \in bound
                 /\ c \in bound /\ o \in outputs /\ wl_output[c][o] = "bound" =>
                       Has(Pending', Hk("output_create", o))
                 /\ wl_output[c][o] = "entered" /\ o \notin outputs =>
                       Has(Pending', Hk("output_destroy", o))
      BY <1>1, <1>5 DEF IInv, OutputsCatchUp
    <2> QED BY <2>2, <2>3, <2>4 DEF OutputsCatchUp, clients
  <1> QED BY <1>11, <1>12, <1>13, <1>14, <1>15, <1>16, <1>17 DEF IInv

\* So does a hook that is passed over: the manager has left its list then.
LEMMA PassedOverKeeps ==
    ASSUME IInv, posting = None, todo # <<>>, todo' = Tail(todo),
           NEW h \in Hook, h = todo[1], PassedOver(h),
           UNCHANGED <<registry, outputs, posting, list, queue, main, clients>>
    PROVE  IInv'
  <1>1. todo \in Seq(Hook) /\ Pending' = Pending /\ Pending \in Seq(Hook)
    BY PendingType DEF IInv, TypeOK, Pending
  <1>2. todo' \in Seq(Hook) /\ 1 \in 1..Len(todo)
    BY <1>1, TailHook
  <1>3. /\ h.op \in {"activate", "deactivate"} /\ registry[h.of] = "absent"
        /\ h.op \in Op /\ h.op # "create"
    BY DEF PassedOver, Op
  <1>4. active = None
    <2>1. todo[1] # Hk("create", h.of)
      BY <1>3 DEF Hk
    <2> QED BY <1>2, <1>3, <2>1 DEF IInv, RegistryCatchesUp
  <1>5. \A v : registry[v] # "absent" => todo[1] # Hk("activate", v)
    <2>1. \A v : Hk("activate", v).of = v
      BY DEF Hk
    <2> QED BY <1>3, <2>1
  <1>6. TypeOK' /\ ListSound' /\ LoopSound' /\ Numbered' /\ OutputsCatchUp'
    <2>1. TypeOK'
      BY <1>2 DEF IInv, TypeOK, list, main, clients
    <2>2. ListSound' /\ LoopSound' /\ Numbered'
      BY DEF IInv, ListSound, LoopSound, Numbered, list, main, clients
    <2>3. OutputsCatchUp'
      BY <1>1 DEF IInv, OutputsCatchUp, clients
    <2> QED BY <2>1, <2>2, <2>3
  <1>7. RegistryCatchesUp'
    BY <1>4 DEF RegistryCatchesUp, list
  <1>8. HooksInOrder'
    BY <1>1, TodoTail DEF IInv, TypeOK
  <1>9. NotificationsTrue'
    <2>1. ASSUME NEW j \in 1..Len(Pending), Pending[j].op = "create"
          PROVE  FirstAbout(Pending, j) /\ ~LastAbout(Pending, j)
      <3>1. LastAbout(Pending, j) => registry[Pending[j].of] = "hidden"
        BY <2>1 DEF IInv, NotificationsTrue, Leaves, Op
      <3>2. FirstAbout(Pending, j) /\ (LastAbout(Pending, j) => todo[1] = Hk("activate", Pending[j].of))
        BY <2>1 DEF IInv, NotificationsTrue
      <3> QED BY <1>5, <3>1, <3>2
    <2>2. ASSUME NEW j \in 1..Len(Pending)
          PROVE  /\ Pending[j].op \in Op /\ LastAbout(Pending, j) =>
                        registry[Pending[j].of] = Leaves(Pending[j].op)
                 /\ Pending[j].op = "destroy" => LastAbout(Pending, j)
      BY DEF IInv, NotificationsTrue
    <2> QED BY <1>1, <2>1, <2>2 DEF NotificationsTrue
  <1>10. HandlesCatchUp'
    <2>1. Present' = Present /\ \A ws \in Present : registry[ws] # "absent"
      BY DEF Present
    <2>2. \A c \in Client \ bound : handles[c] = <<>>
      BY DEF IInv, HandlesCatchUp
    <2>3. ASSUME NEW c \in bound
          PROVE  /\ \A i \in 1..Len(handles[c]) :
                       registry[handles[c][i].ws] = "absent" =>
                          Has(Pending, Hk("destroy", handles[c][i].ws))
                 /\ loop = "binding" /\ target = c => handles[c] = <<>>
      BY DEF IInv, HandlesCatchUp
    <2>4. ASSUME NEW c \in bound, c \notin discarded, ~(loop = "binding" /\ target = c),
                 NEW ws \in Present
          PROVE  /\ \/ Has(Pending, Hk("create", ws))
                    \/ \E i \in 1..Len(handles[c]) : handles[c][i].ws = ws
                 /\ \/ Has(Pending, Hk("activate", ws)) \/ Has(Pending, Hk("deactivate", ws))
                    \/ \E i \in First(handles[c], ws) : handles[c][i].state = registry[ws]
      BY <1>5, <2>1, <2>4 DEF IInv, HandlesCatchUp
    <2> QED BY <1>1, <2>1, <2>2, <2>3, <2>4 DEF HandlesCatchUp, main, clients
  <1> QED BY <1>6, <1>7, <1>8, <1>9, <1>10 DEF IInv

\* The first half of any hook keeps the invariant.
LEMMA UpdateRegistryKeeps ==
    ASSUME IInv, UpdateRegistry
    PROVE  IInv'
  <1>1. /\ posting = None /\ todo # <<>> /\ todo' = Tail(todo)
        /\ UNCHANGED <<list, queue, main, clients>>
    BY DEF UpdateRegistry
  <1>2. PICK h \in Hook : h = todo[1] /\ h = Head(todo)
    BY <1>1, TailHook DEF IInv, TypeOK
  <1>3. \/ /\ h.op \in OutputOp
           /\ outputs' = IF h.op = "output_create" THEN outputs \cup {h.of} ELSE outputs \ {h.of}
           /\ posting' = h
           /\ UNCHANGED registry
        \/ /\ h.op \in Op /\ ~PassedOver(h)
           /\ registry' = Registered(h)
           /\ posting' = h
           /\ UNCHANGED outputs
        \/ h.op \in Op /\ PassedOver(h) /\ UNCHANGED <<registry, outputs, posting>>
    BY <1>2, Zenon DEF UpdateRegistry
  <1> QED
    BY <1>1, <1>2, <1>3, OutputHookKeeps, WorkspaceHookKeeps, PassedOverKeeps

\* The second half moves a notification from one end of Pending to the other.
LEMMA PostNotificationKeeps ==
    ASSUME IInv, PostNotification
    PROVE  IInv'
  <1>1. /\ posting # None /\ posting' = None /\ queue' = Append(queue, posting)
        /\ UNCHANGED <<manager, registry, outputs, main, clients>>
    BY DEF PostNotification
  <1>2. Pending' = Pending
    BY <1>1 DEF Pending
  <1>3. TypeOK'
    BY <1>1 DEF IInv, TypeOK, manager, main, clients
  <1>4. ListSound' /\ LoopSound' /\ Numbered' /\ RegistryCatchesUp' /\ OutputsCatchUp'
    BY <1>1, <1>2 DEF IInv, ListSound, LoopSound, Numbered, RegistryCatchesUp, OutputsCatchUp,
                      Standing, manager, main, clients
  <1>5. HooksInOrder' /\ NotificationsTrue'
    BY <1>1, <1>2 DEF IInv, HooksInOrder, NotificationsTrue, manager
  <1>6. HandlesCatchUp'
    BY <1>1, <1>2 DEF IInv, HandlesCatchUp, Present, manager, main, clients
  <1> QED BY <1>3, <1>4, <1>5, <1>6 DEF IInv
-----------------------------------------------------------------------------
\* The main loop delivers a notification.

\* What a notification makes of a client's handles.
LEMMA NotifiedHandles ==
    ASSUME NEW hs \in Seq(Handle), NEW m \in Hook
    PROVE  LET new == Notified(hs, m) IN
           /\ new \in Seq(Handle)
           /\ InOrder(hs) => InOrder(new)
           /\ \A v \in Workspace :
                 /\ HasHandle(new, v) => HasHandle(hs, v) \/ m = Hk("create", v)
                 /\ HasHandle(new, v) => m # Hk("destroy", v)
                 /\ HasHandle(hs, v) /\ m # Hk("destroy", v) => HasHandle(new, v)
                 /\ m = Hk("create", v) => HasHandle(new, v)
                 /\ \A st : Shows(hs, v, st) /\ m # Hk("activate", v) /\ m # Hk("deactivate", v)
                       /\ m # Hk("destroy", v) => Shows(new, v, st)
                 /\ m = Hk("activate", v) /\ HasHandle(hs, v) => Shows(new, v, "active")
                 /\ m = Hk("deactivate", v) /\ HasHandle(hs, v) => Shows(new, v, "hidden")
  <1> DEFINE new == Notified(hs, m)
  <1>1. /\ m = Hk(m.op, m.of) /\ m.op \in Op \cup OutputOp
        /\ m.op \in Op => m.of \in Workspace
        /\ \A op, v : Hk(op, v).op = op /\ Hk(op, v).of = v
    BY HookParts DEF Hk
  <1>2. \A op, v : m = Hk(op, v) <=> m.op = op /\ m.of = v
    BY <1>1
  <1>3. "active" \in Told /\ "hidden" \in Told /\ "none" \in Told
    BY DEF Told
  <1>4. CASE m.op = "create"
    <2>1. new = workspace_created(hs, m.of, "none") /\ m.of \in Workspace
      <3>1. m.of \in Workspace
        BY <1>1, <1>4 DEF Op
      <3>2. m.op \notin OutputOp
        BY <1>4 DEF OutputOp
      <3> QED BY <1>4, <3>1, <3>2, Zenon DEF Notified
    <2> HIDE DEF new
    <2>2. /\ new \in Seq(Handle) /\ (InOrder(hs) => InOrder(new))
          /\ \A v : HasHandle(new, v) <=> HasHandle(hs, v) \/ v = m.of
          /\ \A v, st : Shows(hs, v, st) => Shows(new, v, st)
      BY <1>3, <2>1, CreatedHandles
    <2> QED BY <1>2, <1>4, <2>2 DEF new
  <1>5. CASE m.op \in {"activate", "deactivate"}
    <2> DEFINE state == IF m.op = "activate" THEN "active" ELSE "hidden"
    <2>1. new = state_sent(hs, m.of, state) /\ state \in Told
      <3>1. m.op \notin OutputOp /\ state \in Told
        BY <1>3, <1>5 DEF OutputOp
      <3>2. CASE m.op = "activate"
        <4>1. new = state_sent(hs, m.of, "active")
          BY <3>1, <3>2, Zenon DEF Notified
        <4> QED BY <3>1, <3>2, <4>1
      <3>3. CASE m.op = "deactivate"
        <4>1. new = state_sent(hs, m.of, "hidden")
          BY <3>1, <3>3, Zenon DEF Notified
        <4> QED BY <3>1, <3>3, <4>1
      <3> QED BY <1>5, <3>2, <3>3
    <2> HIDE DEF new, state
    <2>2. /\ new \in Seq(Handle) /\ (InOrder(hs) => InOrder(new))
          /\ \A v : HasHandle(new, v) <=> HasHandle(hs, v)
          /\ \A v, st : v # m.of /\ Shows(hs, v, st) => Shows(new, v, st)
          /\ HasHandle(hs, m.of) => Shows(new, m.of, state)
      BY <2>1, StateSentHandles
    <2> QED BY <1>2, <1>5, <2>2 DEF new, state
  <1>6. CASE m.op = "destroy"
    <2>1. new = workspace_destroyed(hs, m.of)
      <3>1. m.op \notin OutputOp
        BY <1>6 DEF OutputOp
      <3> QED BY <1>6, <3>1, Zenon DEF Notified
    <2> HIDE DEF new
    <2>2. /\ new \in Seq(Handle) /\ (InOrder(hs) => InOrder(new))
          /\ \A v : HasHandle(new, v) <=> HasHandle(hs, v) /\ v # m.of
          /\ \A v, st : v # m.of /\ Shows(hs, v, st) => Shows(new, v, st)
      BY <2>1, DestroyedHandles
    <2> QED BY <1>2, <1>6, <2>2 DEF new
  <1>7. CASE m.op \in OutputOp
    <2>1. m.op \notin {"create", "activate", "deactivate", "destroy"}
      BY <1>7 DEF OutputOp
    <2>2. new = hs
      BY <1>7, <2>1 DEF Notified
    <2> HIDE DEF new
    <2> QED BY <1>2, <2>1, <2>2 DEF new
  <1> QED BY <1>1, <1>4, <1>5, <1>6, <1>7 DEF Op

\* What it makes of the outputs shown to the client.
LEMMA NotifiedOutputs ==
    ASSUME NEW shown \in [Output -> Shown], NEW m \in Hook
    PROVE  LET new == OutputNotified(shown, m) IN
           /\ new \in [Output -> Shown]
           /\ \A o \in Output :
                 /\ new[o] = "entered" =>
                       m # Hk("output_destroy", o)
                       /\ (m = Hk("output_create", o) \/ shown[o] = "entered")
                 /\ new[o] = "bound" =>
                       m = Hk("output_destroy", o)
                       \/ (m # Hk("output_create", o) /\ shown[o] = "bound")
  <1> DEFINE new == OutputNotified(shown, m)
  <1>1. /\ m = Hk(m.op, m.of) /\ m.op \in Op \cup OutputOp
        /\ m.op \in OutputOp => m.of \in Output
        /\ \A op, o : Hk(op, o).op = op /\ Hk(op, o).of = o
    BY HookParts DEF Hk
  <1>2. \A op, o : m = Hk(op, o) <=> m.op = op /\ m.of = o
    BY <1>1
  <1>3. CASE m.op = "output_create"
    <2>1. new = [o \in Output |->
                    IF o \in {m.of} /\ shown[o] # "unbound" THEN "entered" ELSE shown[o]]
      <3>1. m.op \notin Op
        BY <1>3 DEF Op
      <3> QED BY <1>3, <3>1, Zenon DEF OutputNotified, output_added
    <2> HIDE DEF new
    <2>2. new \in [Output -> Shown]
      BY <2>1 DEF Shown
    <2>3. ASSUME NEW o \in Output
          PROVE  new[o] = IF o = m.of /\ shown[o] # "unbound" THEN "entered" ELSE shown[o]
      BY <2>1
    <2> QED BY <1>2, <1>3, <2>2, <2>3 DEF new
  <1>4. CASE m.op = "output_destroy"
    <2>1. new = IF shown[m.of] = "entered" THEN [shown EXCEPT ![m.of] = "bound"] ELSE shown
      <3>1. m.op \notin Op
        BY <1>4 DEF Op
      <3> QED BY <1>4, <3>1, Zenon DEF OutputNotified, output_deleted
    <2> HIDE DEF new
    <2>2. m.of \in Output
      BY <1>1, <1>4 DEF OutputOp
    <2>3. new \in [Output -> Shown]
      BY <2>1, <2>2 DEF Shown
    <2>4. ASSUME NEW o \in Output
          PROVE  new[o] = IF o = m.of /\ shown[o] = "entered" THEN "bound" ELSE shown[o]
      BY <2>1, <2>2
    <2> QED BY <1>2, <1>4, <2>3, <2>4 DEF new
  <1>5. CASE m.op \in Op
    <2>1. m.op # "output_create" /\ m.op # "output_destroy"
      BY <1>5 DEF Op
    <2>2. new = shown
      BY <1>5, <2>1 DEF OutputNotified
    <2> HIDE DEF new
    <2> QED BY <1>2, <2>1, <2>2 DEF new
  <1> QED BY <1>1, <1>3, <1>4, <1>5 DEF OutputOp

\* Delivering takes the first notification on its way.
LEMMA DeliverPending ==
    ASSUME TypeOK, queue # <<>>, queue' = Tail(queue), posting' = posting
    PROVE  /\ Pending # <<>> /\ Pending[1] = Head(queue) /\ Pending' = Tail(Pending)
           /\ Pending \in Seq(Hook)
  <1>1. queue \in Seq(Hook) /\ (posting # None => posting \in Hook)
    BY DEF TypeOK
  <1>2. CASE posting = None
    BY <1>1, <1>2 DEF Pending
  <1>3. CASE posting # None
    <2>1. Pending = Append(queue, posting) /\ Pending' = Append(Tail(queue), posting)
      BY <1>3 DEF Pending
    <2>2. Tail(Append(queue, posting)) = Append(Tail(queue), posting)
      BY <1>1, <1>3, HeadTailAppend
    <2>3. /\ Append(queue, posting) \in Seq(Hook) /\ Append(queue, posting) # <<>>
          /\ Append(queue, posting)[1] = Head(queue)
      BY <1>1, <1>3
    <2> QED BY <2>1, <2>2, <2>3
  <1> QED BY <1>2, <1>3

\* The first clauses of a client's handles, after the notification P[1].
LEMMA DeliveredHandles ==
    ASSUME IInv, NEW P \in Seq(Hook), P # <<>>, P = Pending, NEW c \in bound, loop = "idle"
    PROVE  LET T == Tail(P)
               new == Notified(handles[c], P[1])
           IN  /\ \A v \in Workspace : HasHandle(new, v) /\ registry[v] = "absent" =>
                      Has(T, Hk("destroy", v))
               /\ c \notin discarded => \A v \in Present :
                     /\ Has(T, Hk("create", v)) \/ HasHandle(new, v)
                     /\ \/ Has(T, Hk("activate", v)) \/ Has(T, Hk("deactivate", v))
                        \/ todo # <<>> /\ todo[1] = Hk("activate", v)
                        \/ Shows(new, v, registry[v])
  <1> DEFINE T   == Tail(P)
             m   == P[1]
             hs  == handles[c]
             new == Notified(hs, m)
  <1>1. /\ T \in Seq(Hook) /\ Len(T) = Len(P) - 1 /\ Len(P) \in Nat
        /\ 1 \in 1..Len(P) /\ m \in Hook
        /\ \A j \in 1..Len(P) : j = 1 \/ (j - 1 \in 1..Len(T) /\ T[j - 1] = P[j])
        /\ \A g : Has(P, g) <=> Has(T, g) \/ g = m
    BY TailHook
  <1>2. hs \in Seq(Handle)
    BY HandlesTyped DEF IInv
  <1>3. \A v \in Workspace :
            /\ HasHandle(new, v) => HasHandle(hs, v) \/ m = Hk("create", v)
            /\ HasHandle(new, v) => m # Hk("destroy", v)
            /\ HasHandle(hs, v) /\ m # Hk("destroy", v) => HasHandle(new, v)
            /\ m = Hk("create", v) => HasHandle(new, v)
            /\ \A st : Shows(hs, v, st) /\ m # Hk("activate", v) /\ m # Hk("deactivate", v)
                  /\ m # Hk("destroy", v) => Shows(new, v, st)
            /\ m = Hk("activate", v) /\ HasHandle(hs, v) => Shows(new, v, "active")
            /\ m = Hk("deactivate", v) /\ HasHandle(hs, v) => Shows(new, v, "hidden")
    BY <1>1, <1>2, NotifiedHandles
  <1>4. \A op, v : Hk(op, v).op = op /\ Hk(op, v).of = v
    BY DEF Hk
  <1>5. \A j \in 1..Len(P) :
            /\ P[j].op \in Op /\ LastAbout(P, j) => registry[P[j].of] = Leaves(P[j].op)
            /\ P[j].op = "create" => FirstAbout(P, j)
            /\ P[j].op = "destroy" => LastAbout(P, j)
    BY DEF IInv, NotificationsTrue
  <1>6. \A v \in Workspace : HasHandle(hs, v) /\ registry[v] = "absent" => Has(P, Hk("destroy", v))
    BY DEF IInv, HandlesCatchUp, HasHandle
  <1>7. c \notin discarded => \A v \in Present :
            /\ Has(P, Hk("create", v)) \/ HasHandle(hs, v)
            /\ \/ Has(P, Hk("activate", v)) \/ Has(P, Hk("deactivate", v))
               \/ todo # <<>> /\ todo[1] = Hk("activate", v)
               \/ Shows(hs, v, registry[v])
    BY DEF IInv, HandlesCatchUp, HasHandle, Shows
  \* The last notification about the workspace of the first.
  <1>8. ASSUME m.of \in Workspace
        PROVE  \E k \in 1..Len(P) : /\ P[k].of = m.of /\ P[k].op \in Op /\ LastAbout(P, k)
                                    /\ registry[m.of] = Leaves(P[k].op)
    <2>1. PICK k \in 1..Len(P) : P[k].of = m.of /\ LastAbout(P, k)
      BY <1>1, SomeLast
    <2>2. P[k] \in Hook
      BY <2>1
    <2>3. P[k].op \in Op
      BY <1>8, <2>1, <2>2, HookParts
    <2> QED BY <1>5, <2>1, <2>3
  <1> HIDE DEF T, m, hs, new
  <1>9. ASSUME NEW v \in Workspace, HasHandle(new, v), registry[v] = "absent"
        PROVE  Has(T, Hk("destroy", v))
    <2>1. CASE HasHandle(hs, v)
      BY <1>1, <1>3, <1>6, <1>9, <2>1
    <2>2. CASE m = Hk("create", v)
      <3>1. m.of = v /\ m.op = "create"
        BY <1>4, <2>2
      <3>2. PICK k \in 1..Len(P) : /\ P[k].of = v /\ P[k].op \in Op
                                   /\ registry[v] = Leaves(P[k].op)
        BY <1>8, <3>1
      <3>3. P[k].op = "destroy"
        BY <1>9, <3>2 DEF Leaves, Op
      <3>4. P[k] = Hk("destroy", v)
        BY <3>2, <3>3, HookParts
      <3>5. k # 1
        BY <3>1, <3>3 DEF m
      <3> QED BY <1>1, <3>4, <3>5 DEF Has
    <2> QED BY <1>3, <1>9, <2>1, <2>2
  <1>10. ASSUME c \notin discarded, NEW v \in Present
         PROVE  /\ Has(T, Hk("create", v)) \/ HasHandle(new, v)
                /\ \/ Has(T, Hk("activate", v)) \/ Has(T, Hk("deactivate", v))
                   \/ todo # <<>> /\ todo[1] = Hk("activate", v)
                   \/ Shows(new, v, registry[v])
    <2>1. v \in Workspace /\ registry[v] # "absent"
      BY DEF Present
    <2>2. m # Hk("destroy", v)
      <3> SUFFICES ASSUME m = Hk("destroy", v) PROVE FALSE
        OBVIOUS
      <3>1. m.op = "destroy" /\ m.of = v /\ m.op \in Op
        BY <1>4 DEF Op
      <3>2. registry[v] = Leaves(m.op)
        BY <1>1, <1>5, <3>1 DEF m
      <3> QED BY <2>1, <3>1, <3>2 DEF Leaves
    <2>3. Has(T, Hk("create", v)) \/ HasHandle(new, v)
      BY <1>1, <1>3, <1>7, <1>10, <2>1, <2>2
    <2>4. CASE m = Hk("activate", v) \/ m = Hk("deactivate", v)
      <3>1. m.of = v /\ m.op \in {"activate", "deactivate"}
        BY <1>4, <2>4
      <3>2. PICK k \in 1..Len(P) : /\ P[k].of = v /\ P[k].op \in Op
                                   /\ registry[v] = Leaves(P[k].op)
        BY <1>8, <2>1, <3>1
      <3>3. \A j \in 1..Len(P) : P[j] # Hk("create", v)
        <4> SUFFICES ASSUME NEW j \in 1..Len(P), P[j] = Hk("create", v) PROVE FALSE
          OBVIOUS
        <4>1. P[j].op = "create" /\ P[j].of = v /\ FirstAbout(P, j)
          BY <1>4, <1>5
        <4>2. j # 1
          BY <3>1, <4>1 DEF m
        <4>3. 1 < j
          BY <4>2
        <4>4. P[1].of # v
          BY <1>1, <4>1, <4>3 DEF FirstAbout
        <4> QED BY <3>1, <4>4 DEF m
      <3>4. HasHandle(hs, v)
        BY <1>7, <1>10, <3>3 DEF Has
      <3>5. CASE k = 1
        <4>1. registry[v] = IF m = Hk("activate", v) THEN "active" ELSE "hidden"
          BY <1>4, <2>4, <3>2, <3>5 DEF Leaves, m
        <4> QED BY <1>3, <2>1, <2>3, <2>4, <3>4, <4>1
      <3>6. CASE k # 1
        <4>1. P[k] = Hk(P[k].op, v)
          BY <3>2, HookParts
        <4>2. P[k].op \in {"activate", "deactivate"}
          BY <2>1, <3>2, <3>3, <4>1 DEF Leaves, Op
        <4>3. k - 1 \in 1..Len(T) /\ T[k - 1] = P[k]
          BY <1>1, <3>6
        <4> QED BY <2>3, <4>1, <4>2, <4>3 DEF Has
      <3> QED BY <3>5, <3>6
    <2>5. CASE m # Hk("activate", v) /\ m # Hk("deactivate", v)
      BY <1>1, <1>3, <1>7, <1>10, <2>1, <2>2, <2>3, <2>5
    <2> QED BY <2>4, <2>5
  <1> QED BY <1>9, <1>10 DEF T, m, hs, new

\* The main loop's delivery keeps the invariant.
LEMMA DeliverKeeps ==
    ASSUME IInv, Deliver
    PROVE  IInv'
  <1>1. /\ loop = "idle" /\ queue # <<>> /\ queue' = Tail(queue)
        /\ handles' = [c \in Client |->
              IF c \in bound THEN Notified(handles[c], Head(queue)) ELSE handles[c]]
        /\ wl_output' = [c \in Client |->
              IF c \in bound THEN OutputNotified(wl_output[c], Head(queue)) ELSE wl_output[c]]
        /\ UNCHANGED <<manager, posting, registry, outputs, main, bound, discarded>>
    BY DEF Deliver
  <1>type. TypeOK
    BY DEF IInv
  <1>2. /\ Pending # <<>> /\ Pending[1] = Head(queue) /\ Pending' = Tail(Pending)
        /\ Pending \in Seq(Hook)
    BY <1>1, <1>type, DeliverPending
  <1>P. PICK P \in Seq(Hook) : P = Pending
    BY <1>2
  <1> DEFINE T == Tail(P)
             m == P[1]
  <1>3. /\ T \in Seq(Hook) /\ Len(T) = Len(P) - 1 /\ Len(P) \in Nat
        /\ 1 \in 1..Len(P) /\ m \in Hook
        /\ \A j \in 1..Len(T) : j + 1 \in 1..Len(P) /\ T[j] = P[j + 1] /\ T[j] \in Hook
        /\ \A j \in 1..Len(P) : j = 1 \/ (j - 1 \in 1..Len(T) /\ T[j - 1] = P[j])
        /\ \A j \in 1..Len(T) : LastAbout(T, j) <=> LastAbout(P, j + 1)
        /\ \A j \in 1..Len(T) : FirstAbout(P, j + 1) => FirstAbout(T, j)
        /\ \A g : Has(P, g) <=> Has(T, g) \/ g = m
    BY <1>2, <1>P, TailHook
  <1>4. Pending' = T /\ m = Head(queue)
    BY <1>2, <1>P
  <1> HIDE DEF T, m
  <1>5. \A c \in Client : c \in bound =>
            handles'[c] = Notified(handles[c], m) /\ wl_output'[c] = OutputNotified(wl_output[c], m)
    BY <1>1, <1>4
  <1>6. \A c \in Client : c \notin bound => handles'[c] = handles[c] /\ wl_output'[c] = wl_output[c]
    BY <1>1
  <1>7. \A c \in Client : wl_output[c] \in [Output -> Shown] /\ handles[c] \in Seq(Handle)
    BY <1>type DEF TypeOK
  <1>8. TypeOK'
    <2>1. ASSUME NEW c \in Client PROVE handles'[c] \in Seq(Handle)
      <3>1. Notified(handles[c], m) \in Seq(Handle)
        BY <1>3, <1>7, NotifiedHandles
      <3> QED BY <1>5, <1>6, <1>7, <3>1
    <2>2. ASSUME NEW c \in Client PROVE wl_output'[c] \in [Output -> Shown]
      <3>1. OutputNotified(wl_output[c], m) \in [Output -> Shown]
        BY <1>3, <1>7, NotifiedOutputs
      <3> QED BY <1>5, <1>6, <1>7, <3>1
    <2>3. handles' \in [Client -> Seq(Handle)] /\ wl_output' \in [Client -> [Output -> Shown]]
      BY <1>1, <2>1, <2>2
    <2>4. queue' \in Seq(Hook)
      BY <1>1, <1>type DEF TypeOK
    <2> QED BY <1>1, <1>type, <2>3, <2>4 DEF TypeOK, manager, main
  <1>9. ListSound' /\ LoopSound' /\ RegistryCatchesUp'
    BY <1>1 DEF IInv, ListSound, LoopSound, RegistryCatchesUp, Standing, manager, main
  <1>10. Numbered'
    <2>1. ASSUME NEW c \in bound \ discarded PROVE InOrder(handles'[c])
      <3>1. c \in Client /\ InOrder(handles[c])
        BY <1>type DEF IInv, Numbered, InOrder, TypeOK
      <3> QED BY <1>3, <1>5, <1>7, <3>1, NotifiedHandles
    <2> QED BY <1>1, <2>1 DEF Numbered, InOrder
  <1>11. HooksInOrder'
    <2>1. \A x : (\A k \in 1..Len(P) : P[k].of # x) => \A k \in 1..Len(T) : T[k].of # x
      BY <1>3
    <2> QED BY <1>1, <1>4, <1>P, <2>1 DEF IInv, HooksInOrder, manager
  <1>12. NotificationsTrue'
    <2>1. ASSUME NEW j \in 1..Len(T)
          PROVE  /\ T[j].op \in Op /\ LastAbout(T, j) => registry[T[j].of] = Leaves(T[j].op)
                 /\ T[j].op = "create" =>
                       /\ FirstAbout(T, j)
                       /\ LastAbout(T, j) => todo # <<>> /\ todo[1] = Hk("activate", T[j].of)
                 /\ T[j].op = "destroy" => LastAbout(T, j)
      BY <1>3, <1>P DEF IInv, NotificationsTrue
    <2> QED BY <1>1, <1>4, <2>1 DEF NotificationsTrue, manager
  <1>13. HandlesCatchUp'
    <2>1. Present' = Present
      BY <1>1 DEF Present
    <2>2. \A c \in Client \ bound : handles'[c] = <<>>
      BY <1>6 DEF IInv, HandlesCatchUp
    <2>3. ASSUME NEW c \in bound
          PROVE  /\ \A v \in Workspace : HasHandle(handles'[c], v) /\ registry[v] = "absent" =>
                        Has(T, Hk("destroy", v))
                 /\ c \notin discarded => \A v \in Present :
                       /\ Has(T, Hk("create", v)) \/ HasHandle(handles'[c], v)
                       /\ \/ Has(T, Hk("activate", v)) \/ Has(T, Hk("deactivate", v))
                          \/ todo # <<>> /\ todo[1] = Hk("activate", v)
                          \/ Shows(handles'[c], v, registry[v])
      <3>1. c \in Client
        BY <1>type DEF TypeOK
      <3>2. handles'[c] = Notified(handles[c], P[1])
        BY <1>5, <3>1 DEF m
      <3>3. P # <<>>
        BY <1>2, <1>P
      <3> QED BY <1>1, <1>P, <3>2, <3>3, DeliveredHandles DEF T
    <2>4. ASSUME NEW c \in bound, NEW i \in 1..Len(handles'[c]),
                 registry[handles'[c][i].ws] = "absent"
          PROVE  Has(T, Hk("destroy", handles'[c][i].ws))
      <3>1. PICK v \in Workspace : v = handles'[c][i].ws
        <4>1. c \in Client /\ handles'[c] \in Seq(Handle)
          BY <1>type, <1>8 DEF TypeOK
        <4>2. handles'[c][i] \in Handle
          BY <4>1
        <4> QED BY <4>2 DEF Handle
      <3>2. HasHandle(handles'[c], v)
        BY <3>1 DEF HasHandle
      <3> QED BY <2>3, <2>4, <3>1, <3>2
    <2>5. ASSUME NEW c \in bound, c \notin discarded, NEW v \in Present
          PROVE  /\ \/ Has(T, Hk("create", v))
                    \/ \E i \in 1..Len(handles'[c]) : handles'[c][i].ws = v
                 /\ \/ Has(T, Hk("activate", v)) \/ Has(T, Hk("deactivate", v))
                    \/ todo # <<>> /\ todo[1] = Hk("activate", v)
                    \/ \E i \in First(handles'[c], v) : handles'[c][i].state = registry[v]
      BY <2>3, <2>5 DEF HasHandle, Shows
    <2>6. /\ bound' = bound /\ discarded' = discarded /\ registry' = registry /\ todo' = todo
          /\ loop' = "idle" /\ Pending' = T /\ Present' = Present
      BY <1>1, <1>4, <2>1 DEF manager, main
    <2> QED BY <2>2, <2>4, <2>5, <2>6 DEF HandlesCatchUp
  <1>14. OutputsCatchUp'
    <2>1. ASSUME NEW j \in 1..Len(P), P[j].op = "output_create", P[j].of \notin outputs
          PROVE  \E k \in j..Len(T) : T[k] = Hk("output_destroy", P[j].of)
      <3>1. PICK k \in (j + 1)..Len(P) : P[k] = Hk("output_destroy", P[j].of)
        BY <1>P, <2>1 DEF IInv, OutputsCatchUp
      <3>2. k \in 1..Len(P) /\ k # 1 /\ k - 1 \in j..Len(T)
        BY <1>3
      <3> QED BY <1>3, <3>1, <3>2
    <2>2. ASSUME NEW j \in 1..Len(T), T[j].op = "output_create", T[j].of \notin outputs
          PROVE  \E k \in (j + 1)..Len(T) : T[k] = Hk("output_destroy", T[j].of)
      BY <1>3, <2>1, <2>2
    <2>3. ASSUME NEW j \in 1..Len(T), T[j].op = "output_destroy"
          PROVE  T[j].of \notin outputs
      BY <1>3, <1>P, <2>3 DEF IInv, OutputsCatchUp
    <2>4. ASSUME NEW c \in Client, NEW o \in Output
          PROVE  /\ wl_output'[c][o] = "entered" => c \in bound
                 /\ c \in bound /\ o \in outputs /\ wl_output'[c][o] = "bound" =>
                       Has(T, Hk("output_create", o))
                 /\ wl_output'[c][o] = "entered" /\ o \notin outputs =>
                       Has(T, Hk("output_destroy", o))
      <3>1. /\ wl_output[c][o] = "entered" => c \in bound
            /\ c \in bound /\ o \in outputs /\ wl_output[c][o] = "bound" =>
                  Has(P, Hk("output_create", o))
            /\ wl_output[c][o] = "entered" /\ o \notin outputs =>
                  Has(P, Hk("output_destroy", o))
        BY <1>P DEF IInv, OutputsCatchUp
      <3>2. CASE c \notin bound
        BY <1>6, <3>1, <3>2
      <3>3. CASE c \in bound
        <4>1. /\ wl_output'[c][o] = "entered" =>
                    m # Hk("output_destroy", o)
                    /\ (m = Hk("output_create", o) \/ wl_output[c][o] = "entered")
              /\ wl_output'[c][o] = "bound" =>
                    m = Hk("output_destroy", o)
                    \/ (m # Hk("output_create", o) /\ wl_output[c][o] = "bound")
          BY <1>3, <1>5, <1>7, <3>3, NotifiedOutputs
        <4>2. \A op : m = Hk(op, o) => P[1].op = op /\ P[1].of = o
          BY DEF Hk, m
        <4>3. m = Hk("output_destroy", o) => o \notin outputs
          BY <1>3, <1>P, <4>2 DEF IInv, OutputsCatchUp
        <4>4. m = Hk("output_create", o) /\ o \notin outputs => Has(T, Hk("output_destroy", o))
          <5> SUFFICES ASSUME m = Hk("output_create", o), o \notin outputs
                       PROVE  Has(T, Hk("output_destroy", o))
            OBVIOUS
          <5>1. \E k \in 1..Len(T) : T[k] = Hk("output_destroy", o)
            BY <1>3, <2>1, <4>2
          <5> QED BY <5>1 DEF Has
        <4> QED BY <1>3, <3>1, <3>3, <4>1, <4>3, <4>4
      <3> QED BY <3>2, <3>3
    <2> QED BY <1>1, <1>4, <2>2, <2>3, <2>4 DEF OutputsCatchUp
  <1> QED BY <1>8, <1>9, <1>10, <1>11, <1>12, <1>13, <1>14 DEF IInv
-----------------------------------------------------------------------------
\* The clients.

\* A request of a client changes nothing of the manager's and of what is shared.
LEMMA RequestKeeps ==
    ASSUME IInv, UNCHANGED <<manager, shared>>,
           TypeOK', LoopSound', Numbered', HandlesCatchUp', OutputsCatchUp'
    PROVE  IInv'
  <1>1. Pending' = Pending
    BY DEF Pending, shared
  <1>2. ListSound' /\ RegistryCatchesUp'
    BY DEF IInv, ListSound, RegistryCatchesUp, Standing, manager, shared
  <1>3. HooksInOrder' /\ NotificationsTrue'
    BY <1>1 DEF IInv, HooksInOrder, NotificationsTrue, manager, shared
  <1> QED BY <1>2, <1>3 DEF IInv

\* What HandlesCatchUp says of one client whose snapshot is complete.
CaughtUp(c, hs) ==
    /\ \A i \in 1..Len(hs) : registry[hs[i].ws] = "absent" => Has(Pending, Hk("destroy", hs[i].ws))
    /\ c \notin discarded =>
          \A ws \in Present :
              /\ \/ Has(Pending, Hk("create", ws))
                 \/ \E i \in 1..Len(hs) : hs[i].ws = ws
              /\ \/ Has(Pending, Hk("activate", ws)) \/ Has(Pending, Hk("deactivate", ws))
                 \/ todo # <<>> /\ todo[1] = Hk("activate", ws)
                 \/ \E i \in First(hs, ws) : hs[i].state = registry[ws]

\* One client's handles change while the main loop is idle; the others' do not.
LEMMA HandlesOfOne ==
    ASSUME IInv, UNCHANGED <<manager, shared>>, TypeOK', NEW c \in Client, NEW hs,
           handles' = [handles EXCEPT ![c] = hs],
           \A b \in Client \ {c} : (b \in bound' <=> b \in bound) /\ (b \in discarded' <=> b \in discarded),
           \A b \in Client \ {c} : ~(loop = "binding" /\ target = b),
           loop' # "binding",
           c \notin bound' => hs = <<>>,
           c \in bound' => CaughtUp(c, hs)'
    PROVE  HandlesCatchUp'
  <1>1. Pending' = Pending /\ Present' = Present /\ registry' = registry /\ todo' = todo
    BY DEF Pending, Present, shared, manager
  <1>2. /\ handles'[c] = hs
        /\ \A b \in Client \ {c} : handles'[b] = handles[b]
    BY DEF IInv, TypeOK
  <1>3. \A b \in Client \ bound' : handles'[b] = <<>>
    BY <1>2 DEF IInv, HandlesCatchUp
  <1>4. ASSUME NEW b \in Client, b \in bound'
        PROVE  CaughtUp(b, handles[b])'
    <2>1. CASE b = c
      BY <1>2, <1>4, <2>1
    <2>2. CASE b # c
      <3>1. handles'[b] = handles[b] /\ b \in bound /\ (b \in discarded' <=> b \in discarded)
        BY <1>2, <1>4, <2>2
      <3>2. CaughtUp(b, handles[b])
        BY <2>2, <3>1 DEF CaughtUp, IInv, HandlesCatchUp
      <3> QED BY <1>1, <3>1, <3>2 DEF CaughtUp
    <2> QED BY <2>1, <2>2
  <1>5. \A b \in bound' : b \in Client
    BY DEF TypeOK
  <1> QED BY <1>3, <1>4, <1>5 DEF HandlesCatchUp, CaughtUp

\* An order of all the workspaces registered has each of them.
LEMMA OrderComplete ==
    ASSUME TypeOK, NEW order \in Orders(Present)
    PROVE  /\ order \in Seq(Present) /\ Len(order) \in Nat
           /\ \A i \in 1..Len(order) : order[i] \in Present
           /\ \A ws \in Present : \E i \in 1..Len(order) : order[i] = ws
  <1> DEFINE n == Cardinality(Present)
  <1>1. IsFiniteSet(Present)
    <2>1. Present \in SUBSET Workspace
      BY DEF Present
    <2> QED BY <2>1, PoolAssumption, FS_Subset
  <1>2. n \in Nat
    BY <1>1, FS_CardinalityType
  <1> HIDE DEF n
  <1>3. order \in [1..n -> Present] /\ NoRepeats(order)
    BY DEF Orders, n
  <1>4. order \in Seq(Present) /\ Len(order) = n
    BY <1>2, <1>3
  <1>5. order \in Injection(1..n, Present)
    BY <1>3, <1>4 DEF Injection, IsInjective, NoRepeats
  <1>6. Cardinality(1..n) = n
    BY <1>2, FS_Interval
  <1>7. order \in Surjection(1..n, Present)
    BY <1>1, <1>5, <1>6, FS_Injection DEF n
  <1>8. \A ws \in Present : \E i \in 1..n : order[i] = ws
    BY <1>7 DEF Surjection
  <1> QED BY <1>2, <1>3, <1>4, <1>8

\* Sending the outputs to a client that binds keeps the invariant.
LEMMA BindKeeps ==
    ASSUME IInv, NEW c \in Client, bind(c)
    PROVE  IInv'
  <1>1. /\ loop = "idle" /\ c \notin bound /\ loop' = "binding" /\ target' = c
        /\ bound' = bound \cup {c}
        /\ wl_output' = [wl_output EXCEPT ![c] = output_added(wl_output[c], outputs)]
        /\ UNCHANGED <<manager, shared, handles, discarded>>
    BY DEF bind
  <1>type. TypeOK
    BY DEF IInv
  <1>2. /\ wl_output'[c] = [o \in Output |->
               IF o \in outputs /\ wl_output[c][o] # "unbound" THEN "entered" ELSE wl_output[c][o]]
        /\ \A b \in Client \ {c} : wl_output'[b] = wl_output[b]
        /\ wl_output[c] \in [Output -> Shown]
    BY <1>1, <1>type DEF output_added, TypeOK
  <1>3. TypeOK'
    <2>1. wl_output'[c] \in [Output -> Shown]
      BY <1>2 DEF Shown
    <2>2. wl_output' \in [Client -> [Output -> Shown]]
      BY <1>1, <1>2, <1>type, <2>1 DEF TypeOK
    <2> QED BY <1>1, <1>type, <2>2 DEF TypeOK, manager, shared
  <1>4. LoopSound'
    BY <1>1 DEF LoopSound
  <1>5. handles[c] = <<>> /\ c \notin discarded
    BY <1>1, <1>type DEF IInv, HandlesCatchUp, TypeOK
  <1>6. Numbered'
    BY <1>1, <1>5 DEF IInv, Numbered
  <1>7. Pending' = Pending /\ Present' = Present
    BY <1>1 DEF Pending, Present, shared
  <1>8. HandlesCatchUp'
    <2>1. \A b \in Client \ bound' : handles[b] = <<>>
      BY <1>1 DEF IInv, HandlesCatchUp
    <2>2. ASSUME NEW b \in bound PROVE b # c /\ CaughtUp(b, handles[b])
      BY <1>1 DEF IInv, HandlesCatchUp, CaughtUp
    <2>3. ASSUME NEW b \in bound PROVE CaughtUp(b, handles[b])'
      BY <1>1, <1>7, <2>2 DEF CaughtUp, manager, shared
    <2> QED BY <1>1, <1>5, <2>1, <2>2, <2>3 DEF HandlesCatchUp, CaughtUp
  <1>9. OutputsCatchUp'
    <2>1. ASSUME NEW b \in Client, NEW o \in Output
          PROVE  /\ wl_output'[b][o] = "entered" => b \in bound'
                 /\ b \in bound' /\ o \in outputs /\ wl_output'[b][o] = "bound" =>
                       Has(Pending, Hk("output_create", o))
                 /\ wl_output'[b][o] = "entered" /\ o \notin outputs =>
                       Has(Pending, Hk("output_destroy", o))
      <3>1. /\ wl_output[b][o] = "entered" => b \in bound
            /\ b \in bound /\ o \in outputs /\ wl_output[b][o] = "bound" =>
                  Has(Pending, Hk("output_create", o))
            /\ wl_output[b][o] = "entered" /\ o \notin outputs =>
                  Has(Pending, Hk("output_destroy", o))
        BY DEF IInv, OutputsCatchUp
      <3> QED BY <1>1, <1>2, <3>1
    <2> QED BY <1>1, <1>7, <2>1 DEF IInv, OutputsCatchUp, shared
  <1> QED BY <1>1, <1>3, <1>4, <1>6, <1>8, <1>9, RequestKeeps

\* A request that is about neither outputs nor who is bound.
LEMMA OutputsUntouched ==
    ASSUME IInv, UNCHANGED <<shared, wl_output>>, bound' = bound
    PROVE  OutputsCatchUp'
  <1>1. Pending' = Pending
    BY DEF Pending, shared
  <1> QED BY <1>1 DEF IInv, OutputsCatchUp, shared

\* The snapshot of the workspaces completes a client's handles.
LEMMA BindReturnsKeeps ==
    ASSUME IInv, BindReturns
    PROVE  IInv'
  <1>1. /\ loop = "binding" /\ loop' = "idle" /\ target' = None
        /\ UNCHANGED <<manager, shared, bound, discarded, wl_output>>
    BY DEF BindReturns
  <1>2. PICK order \in Orders(Present) :
            handles' = [handles EXCEPT ![target] =
                [i \in 1..Len(order) |->
                    [ws |-> order[i], state |-> registry[order[i]], number |-> i]]]
    BY DEF BindReturns
  <1>type. TypeOK
    BY DEF IInv
  <1>3. PICK c \in bound : c = target
    BY <1>1 DEF IInv, LoopSound
  <1>4. c \in Client
    BY <1>type DEF TypeOK
  <1>5. PICK hs : hs = [i \in 1..Len(order) |->
                           [ws |-> order[i], state |-> registry[order[i]], number |-> i]]
    OBVIOUS
  <1>6. handles' = [handles EXCEPT ![c] = hs]
    BY <1>2, <1>3, <1>5
  <1>7. /\ order \in Seq(Present) /\ Len(order) \in Nat
        /\ \A i \in 1..Len(order) : order[i] \in Present
        /\ \A ws \in Present : \E i \in 1..Len(order) : order[i] = ws
    BY <1>type, OrderComplete
  <1>8. \A i \in 1..Len(order) :
            [ws |-> order[i], state |-> registry[order[i]], number |-> i] \in Handle
    <2>1. \A ws \in Present : ws \in Workspace /\ registry[ws] \in Told
      BY <1>type DEF Present, TypeOK, Told
    <2> QED BY <1>7, <2>1 DEF Handle
  <1>9. /\ hs \in Seq(Handle) /\ Len(hs) = Len(order)
        /\ \A i \in 1..Len(hs) : /\ hs[i].ws = order[i] /\ hs[i].number = i
                                 /\ hs[i].state = registry[order[i]]
    BY <1>5, <1>7, <1>8
  <1>10. TypeOK'
    <2>1. handles' \in [Client -> Seq(Handle)]
      BY <1>4, <1>6, <1>9, <1>type DEF TypeOK
    <2> QED BY <1>1, <1>type, <2>1 DEF TypeOK, manager, shared
  <1>11. LoopSound'
    BY <1>1 DEF LoopSound
  <1>12. handles'[c] = hs /\ \A b \in bound \ {c} : handles'[b] = handles[b]
    BY <1>4, <1>6, <1>type DEF TypeOK
  <1>13. Numbered'
    <2>1. ASSUME NEW b \in bound \ discarded, NEW i \in 1..Len(handles'[b])
          PROVE  handles'[b][i].number = i
      <3>1. CASE b = c
        BY <1>9, <1>12, <3>1
      <3>2. CASE b # c
        BY <1>12, <3>2 DEF IInv, Numbered
      <3> QED BY <3>1, <3>2
    <2> QED BY <1>1, <2>1 DEF Numbered
  <1>14. CaughtUp(c, hs)'
    <2>1. \A i \in 1..Len(hs) : registry[hs[i].ws] # "absent"
      BY <1>7, <1>9 DEF Present
    <2>2. ASSUME NEW ws \in Present
          PROVE  /\ \E i \in 1..Len(hs) : hs[i].ws = ws
                 /\ \E i \in First(hs, ws) : hs[i].state = registry[ws]
      <3>1. PICK i \in 1..Len(hs) : hs[i].ws = ws
        BY <1>7, <1>9
      <3>2. PICK f : f \in First(hs, ws)
        BY <1>7, <1>9, <3>1, SomeFirst
      <3>3. f \in 1..Len(hs) /\ hs[f].ws = ws
        BY <3>2 DEF First
      <3>4. hs[f].state = registry[ws]
        BY <1>9, <3>3
      <3> QED BY <3>1, <3>2, <3>4
    <2>3. registry' = registry /\ Present' = Present
      BY <1>1 DEF shared, Present
    <2> QED BY <2>1, <2>2, <2>3 DEF CaughtUp
  <1>15. HandlesCatchUp'
    <2>1. \A b \in Client \ {c} : ~(loop = "binding" /\ target = b)
      BY <1>3
    <2> QED BY <1>1, <1>4, <1>6, <1>10, <1>14, <2>1, HandlesOfOne
  <1>16. OutputsCatchUp'
    BY <1>1, OutputsUntouched
  <1> QED BY <1>1, <1>10, <1>11, <1>13, <1>15, <1>16, RequestKeeps

\* A client that leaves takes its handles and its outputs with it.
LEMMA DisconnectKeeps ==
    ASSUME IInv, NEW c \in Client, Disconnect(c)
    PROVE  IInv'
  <1>1. /\ loop = "idle" /\ c \in bound
        /\ bound' = bound \ {c} /\ discarded' = discarded \ {c}
        /\ handles' = [handles EXCEPT ![c] = <<>>]
        /\ wl_output' = [wl_output EXCEPT ![c] = [o \in Output |-> "unbound"]]
        /\ UNCHANGED <<manager, shared, main>>
    BY DEF Disconnect
  <1>type. TypeOK
    BY DEF IInv
  <1>2. /\ \A b \in Client \ {c} : wl_output'[b] = wl_output[b] /\ handles'[b] = handles[b]
        /\ \A o \in Output : wl_output'[c][o] = "unbound"
    BY <1>1, <1>type DEF TypeOK
  <1>3. TypeOK'
    <2>1. [o \in Output |-> "unbound"] \in [Output -> Shown] /\ <<>> \in Seq(Handle)
      BY DEF Shown
    <2>2. handles' \in [Client -> Seq(Handle)] /\ wl_output' \in [Client -> [Output -> Shown]]
      BY <1>1, <1>type, <2>1 DEF TypeOK
    <2> QED BY <1>1, <1>type, <2>2 DEF TypeOK, manager, shared, main
  <1>4. LoopSound'
    BY <1>1 DEF IInv, LoopSound, main
  <1>5. Numbered'
    <2>1. \A b \in bound' \ discarded' : b \in bound \ discarded /\ handles'[b] = handles[b]
      BY <1>1, <1>2, <1>type DEF TypeOK
    <2> QED BY <2>1 DEF IInv, Numbered
  <1>6. HandlesCatchUp'
    BY <1>1, <1>3, HandlesOfOne DEF main
  <1>7. OutputsCatchUp'
    <2>1. Pending' = Pending
      BY <1>1 DEF Pending, shared
    <2>2. ASSUME NEW b \in Client, NEW o \in Output
          PROVE  /\ wl_output'[b][o] = "entered" => b \in bound'
                 /\ b \in bound' /\ o \in outputs /\ wl_output'[b][o] = "bound" =>
                       Has(Pending, Hk("output_create", o))
                 /\ wl_output'[b][o] = "entered" /\ o \notin outputs =>
                       Has(Pending, Hk("output_destroy", o))
      BY <1>1, <1>2 DEF IInv, OutputsCatchUp
    <2> QED BY <1>1, <2>1, <2>2 DEF IInv, OutputsCatchUp, shared
  <1> QED BY <1>1, <1>3, <1>4, <1>5, <1>6, <1>7, RequestKeeps

\* A client binds or releases one of its wl_outputs.
LEMMA OutputRequestKeeps ==
    ASSUME IInv, NEW c \in Client, NEW o \in Output, BindOutput(c, o) \/ ReleaseOutput(c, o)
    PROVE  IInv'
  <1>1. UNCHANGED <<manager, shared, main, bound, handles, discarded>>
    BY DEF BindOutput, ReleaseOutput
  <1>type. TypeOK
    BY DEF IInv
  <1>2. PICK st \in Shown :
            /\ wl_output' = [wl_output EXCEPT ![c] = [wl_output[c] EXCEPT ![o] = st]]
            /\ st # "entered" /\ (st = "bound" => ToBeTold(c, o))
    <2>1. "bound" \in Shown /\ "late" \in Shown /\ "unbound" \in Shown
      BY DEF Shown
    <2>2. CASE BindOutput(c, o)
      <3>1. wl_output' = [wl_output EXCEPT ![c] =
                [wl_output[c] EXCEPT ![o] = IF ToBeTold(c, o) THEN "bound" ELSE "late"]]
        BY <2>2 DEF BindOutput
      <3> QED BY <2>1, <3>1
    <2>3. CASE ReleaseOutput(c, o)
      <3>1. wl_output' = [wl_output EXCEPT ![c] = [wl_output[c] EXCEPT ![o] = "unbound"]]
        BY <2>3 DEF ReleaseOutput
      <3> QED BY <2>1, <3>1
    <2> QED BY <2>2, <2>3
  <1>3. PICK new \in [Output -> Shown] : new = [wl_output[c] EXCEPT ![o] = st]
    BY <1>type DEF TypeOK
  <1>4. wl_output' = [wl_output EXCEPT ![c] = new]
    BY <1>2, <1>3
  <1>5. /\ \A b \in Client \ {c} : wl_output'[b] = wl_output[b]
        /\ wl_output'[c] = new
        /\ \A p \in Output : new[p] = IF p = o THEN st ELSE wl_output[c][p]
    BY <1>3, <1>4, <1>type DEF TypeOK
  <1>6. TypeOK'
    <2>1. wl_output' \in [Client -> [Output -> Shown]]
      BY <1>4, <1>type DEF TypeOK
    <2> QED BY <1>1, <1>type, <2>1 DEF TypeOK, manager, shared, main
  <1>7. LoopSound' /\ Numbered'
    BY <1>1 DEF IInv, LoopSound, Numbered, main
  <1>8. Pending' = Pending /\ Present' = Present
    BY <1>1 DEF Pending, Present, shared
  <1>9. HandlesCatchUp'
    BY <1>1, <1>8 DEF IInv, HandlesCatchUp, manager, shared, main
  <1>10. c \in bound /\ st = "bound" => Has(Pending, Hk("output_create", o))
    <2>1. ASSUME c \in bound, ToBeTold(c, o)
          PROVE  Has(Pending, Hk("output_create", o))
      <3>1. queue \in Seq(Hook)
        BY <1>type DEF TypeOK
      <3>2. CASE posting = None
        <4>1. posting # Hk("output_create", o) /\ Pending = queue
          BY <3>2, HookParts DEF Pending, Hk, Hook, OutputOp
        <4> QED BY <2>1, <4>1 DEF ToBeTold, Has
      <3>3. CASE posting # None
        <4>1. posting \in Hook /\ Pending = Append(queue, posting)
          BY <1>type, <3>3 DEF TypeOK, Pending
        <4>2. \A g : Has(Pending, g) <=> Has(queue, g) \/ g = posting
          BY <3>1, <4>1, AppendHook
        <4>3. posting = Hk("output_create", o) \/ Has(queue, Hk("output_create", o))
          BY <2>1 DEF ToBeTold, Has
        <4> QED BY <4>2, <4>3
      <3> QED BY <3>2, <3>3
    <2> QED BY <1>2, <2>1
  <1>11. OutputsCatchUp'
    <2>1. ASSUME NEW b \in Client, NEW p \in Output
          PROVE  /\ wl_output'[b][p] = "entered" => b \in bound
                 /\ b \in bound /\ p \in outputs /\ wl_output'[b][p] = "bound" =>
                       Has(Pending, Hk("output_create", p))
                 /\ wl_output'[b][p] = "entered" /\ p \notin outputs =>
                       Has(Pending, Hk("output_destroy", p))
      <3>1. /\ wl_output[b][p] = "entered" => b \in bound
            /\ b \in bound /\ p \in outputs /\ wl_output[b][p] = "bound" =>
                  Has(Pending, Hk("output_create", p))
            /\ wl_output[b][p] = "entered" /\ p \notin outputs =>
                  Has(Pending, Hk("output_destroy", p))
        BY DEF IInv, OutputsCatchUp
      <3> QED BY <1>2, <1>5, <1>10, <3>1
    <2> QED BY <1>1, <1>8, <2>1 DEF IInv, OutputsCatchUp, shared
  <1> QED BY <1>1, <1>6, <1>7, <1>9, <1>11, RequestKeeps

\* A client destroys a handle.
LEMMA OnDestroyKeeps ==
    ASSUME IInv, NEW c \in Client, NEW i \in 1..Len(handles[c]), on_destroy(c, i)
    PROVE  IInv'
  <1>1. /\ loop = "idle" /\ c \in bound
        /\ handles' = [handles EXCEPT ![c] = RemoveAt(handles[c], i)]
        /\ discarded' = discarded \cup {c}
        /\ UNCHANGED <<manager, shared, main, bound, wl_output>>
    BY DEF on_destroy, RemoveAt
  <1>type. TypeOK
    BY DEF IInv
  <1>2. PICK hs : hs = RemoveAt(handles[c], i)
    OBVIOUS
  <1>3. /\ handles[c] \in Seq(Handle)
        /\ hs \in Seq(Handle) /\ Len(hs) = Len(handles[c]) - 1 /\ Len(handles[c]) \in Nat
        /\ \A k \in 1..(Len(handles[c]) - 1) :
              hs[k] = IF k < i THEN handles[c][k] ELSE handles[c][k + 1]
    <2>1. handles[c] \in Seq(Handle)
      BY <1>type DEF TypeOK
    <2>2. PICK old \in Seq(Handle) : old = handles[c]
      BY <2>1
    <2>3. i \in 1..Len(old) /\ hs = RemoveAt(old, i) /\ Len(old) \in Nat
      BY <1>2, <2>2
    <2> QED BY <2>2, <2>3, RemoveAtMoves
  <1>4. TypeOK'
    <2>1. handles' \in [Client -> Seq(Handle)]
      BY <1>1, <1>2, <1>3, <1>type DEF TypeOK
    <2> QED BY <1>1, <1>type, <2>1 DEF TypeOK, manager, shared, main
  <1>5. LoopSound'
    BY <1>1 DEF IInv, LoopSound, main
  <1>6. Numbered'
    <2>1. \A b \in bound' \ discarded' : b \in bound \ discarded /\ handles'[b] = handles[b]
      BY <1>1, <1>type DEF TypeOK
    <2> QED BY <2>1 DEF IInv, Numbered
  <1>7. CaughtUp(c, hs)'
    <2>1. ASSUME NEW k \in 1..Len(hs), registry[hs[k].ws] = "absent"
          PROVE  Has(Pending, Hk("destroy", hs[k].ws))
      <3>1. k \in 1..Len(handles[c]) /\ k + 1 \in 1..Len(handles[c])
        BY <1>3
      <3>2. PICK j \in 1..Len(handles[c]) : hs[k] = handles[c][j]
        BY <1>3, <3>1
      <3> QED BY <1>1, <2>1, <3>2 DEF IInv, HandlesCatchUp
    <2>2. Pending' = Pending /\ registry' = registry /\ c \in discarded'
      BY <1>1 DEF Pending, shared
    <2> QED BY <2>1, <2>2 DEF CaughtUp
  <1>8. HandlesCatchUp'
    <2>1. handles' = [handles EXCEPT ![c] = hs]
      BY <1>1, <1>2
    <2> QED BY <1>1, <1>4, <1>7, <2>1, HandlesOfOne DEF main
  <1>9. OutputsCatchUp'
    BY <1>1, OutputsUntouched
  <1> QED BY <1>1, <1>4, <1>5, <1>6, <1>8, <1>9, RequestKeeps

\* A client asks for a workspace, and later the callback returns.
LEMMA ActivateRequestKeeps ==
    ASSUME IInv, CallbackReturns \/ \E c \in Client : \E i \in 1..Len(handles[c]) : on_activate(c, i)
    PROVE  IInv'
  <1>type. TypeOK
    BY DEF IInv
  <1>1. /\ UNCHANGED <<manager, shared, clients>>
        /\ loop # "binding" /\ loop' # "binding"
        /\ \/ loop' = "idle" /\ target' = None
           \/ loop' = "waiting" /\ target' \in Workspace
    <2>1. CASE CallbackReturns
      BY <2>1 DEF CallbackReturns
    <2>2. ASSUME NEW c \in Client, NEW i \in 1..Len(handles[c]), on_activate(c, i)
          PROVE  /\ UNCHANGED <<manager, shared, clients>>
                 /\ loop # "binding" /\ loop' = "waiting" /\ target' \in Workspace
      <3>1. c \in bound
        BY <2>2 DEF on_activate
      <3>2. handles[c][i].ws \in Workspace
        BY <1>type, <3>1, HandlesTyped
      <3> QED BY <2>2, <3>2 DEF on_activate
    <2> QED BY <2>1, <2>2
  <1>2. TypeOK' /\ LoopSound'
    BY <1>1, <1>type DEF TypeOK, LoopSound, manager, shared, clients
  <1>3. Numbered'
    BY <1>1 DEF IInv, Numbered, clients
  <1>4. HandlesCatchUp'
    <2>1. Pending' = Pending /\ Present' = Present
      BY <1>1 DEF Pending, Present, shared
    <2>2. \A b \in bound : CaughtUp(b, handles[b])
      BY <1>1 DEF IInv, HandlesCatchUp, CaughtUp
    <2>3. \A b \in bound : CaughtUp(b, handles[b])'
      BY <1>1, <2>1, <2>2 DEF CaughtUp, manager, shared, clients
    <2> QED BY <1>1, <2>3 DEF IInv, HandlesCatchUp, CaughtUp, clients
  <1>5. OutputsCatchUp'
    BY <1>1, OutputsUntouched DEF clients
  <1> QED BY <1>1, <1>2, <1>3, <1>4, <1>5, RequestKeeps
-----------------------------------------------------------------------------
\* The invariant holds at first.
LEMMA InitHolds ==
    ASSUME Init
    PROVE  IInv
  <1>1. PICK ws \in Workspace : workspaces = <<ws>> /\ active = ws
    BY DEF Init, WL!Init
  <1>2. /\ todo = <<>> /\ posting = None /\ queue = <<>> /\ Pending = <<>>
        /\ registry = [v \in Workspace |-> IF v = active THEN "active" ELSE "absent"]
        /\ outputs = {} /\ loop = "idle" /\ target = None
        /\ bound = {} /\ handles = [c \in Client |-> <<>>] /\ discarded = {}
        /\ wl_output = [c \in Client |-> [o \in Output |-> "unbound"]]
    BY DEF Init, Pending
  <1>3. TypeOK
    <2>1. <<>> \in Seq(Hook) /\ <<>> \in Seq(Handle) /\ <<ws>> \in Seq(Workspace)
      OBVIOUS
    <2>2. wl_output \in [Client -> [Output -> Shown]]
      BY <1>2 DEF Shown
    <2> QED BY <1>1, <1>2, <2>1, <2>2 DEF TypeOK
  <1>4. Listed(workspaces) = {ws}
    BY <1>1 DEF Listed, ToSet
  <1>5. ListSound
    BY <1>1, <1>4 DEF ListSound, NoRepeats
  <1>6. LoopSound /\ Numbered
    BY <1>2 DEF LoopSound, Numbered
  <1>7. RegistryCatchesUp
    BY <1>1, <1>2, <1>4 DEF RegistryCatchesUp, Standing
  <1>8. HooksInOrder /\ NotificationsTrue
    BY <1>2 DEF HooksInOrder, NotificationsTrue
  <1>9. HandlesCatchUp /\ OutputsCatchUp
    BY <1>2 DEF HandlesCatchUp, OutputsCatchUp
  <1> QED BY <1>3, <1>5, <1>6, <1>7, <1>8, <1>9 DEF IInv

\* Every step keeps it.
LEMMA NextKeeps ==
    ASSUME IInv, [Next]_vars
    PROVE  IInv'
  <1>1. CASE Command
    <2>1. CASE \E ws \in Workspace : SwitchCommand(ws) \/ ExtendCommand(ws)
      BY <2>1, SwitchCommandKeeps, ExtendCommandKeeps
    <2>2. CASE \E o \in Output : OutputPlugged(o) \/ OutputUnplugged(o)
      BY <2>2, OutputCommandKeeps
    <2> QED BY <1>1, <2>1, <2>2 DEF Command
  <1>2. CASE UpdateRegistry \/ PostNotification \/ Deliver
    BY <1>2, UpdateRegistryKeeps, PostNotificationKeeps, DeliverKeeps
  <1>3. CASE BindReturns \/ ActivatorCallback \/ CallbackReturns
    BY <1>3, BindReturnsKeeps, ActivatorKeeps, ActivateRequestKeeps
  <1>4. CASE ClientRequest
    <2>1. CASE \E c \in Client : bind(c) \/ Disconnect(c)
      BY <2>1, BindKeeps, DisconnectKeeps
    <2>2. CASE \E c \in Client, o \in Output : BindOutput(c, o) \/ ReleaseOutput(c, o)
      BY <2>2, OutputRequestKeeps
    <2>3. CASE \E c \in Client : \E i \in 1..Len(handles[c]) : on_destroy(c, i) \/ on_activate(c, i)
      BY <2>3, OnDestroyKeeps, ActivateRequestKeeps
    <2> QED BY <1>4, <2>1, <2>2, <2>3 DEF ClientRequest
  <1>5. CASE Undefined \/ UNCHANGED vars
    <2>1. /\ UNCHANGED <<workspaces, active, todo, posting, registry, outputs, queue>>
          /\ UNCHANGED <<loop, target, bound, handles, discarded, wl_output>>
      BY <1>5 DEF Undefined, vars, manager, shared, main, clients
    <2>2. Pending' = Pending /\ Present' = Present
      BY <2>1 DEF Pending, Present
    <2>3. TypeOK' /\ ListSound' /\ LoopSound' /\ Numbered'
      BY <2>1 DEF IInv, TypeOK, ListSound, LoopSound, Numbered
    <2>4. RegistryCatchesUp' /\ HooksInOrder' /\ NotificationsTrue'
      BY <2>1, <2>2 DEF IInv, RegistryCatchesUp, Standing, HooksInOrder, NotificationsTrue
    <2>5. HandlesCatchUp' /\ OutputsCatchUp'
      BY <2>1, <2>2 DEF IInv, HandlesCatchUp, OutputsCatchUp
    <2> QED BY <2>3, <2>4, <2>5 DEF IInv
  <1> QED BY <1>1, <1>2, <1>3, <1>4, <1>5 DEF Next

\* The invariant holds in every behaviour.
THEOREM Invariance == Spec => []IInv
  <1>1. Spec => Init /\ [][Next]_vars
    BY DEF Spec
  <1>2. Init => IInv
    BY InitHolds
  <1>3. IInv /\ [Next]_vars => IInv'
    BY NextKeeps
  <1> QED BY <1>1, <1>2, <1>3, PTL

\* Every variable keeps its type.
THEOREM TypeCorrect == Spec => []TypeOK
  <1>1. IInv => TypeOK
    BY DEF IInv
  <1> QED BY <1>1, Invariance, PTL

\* Between two operations of the window manager, all_the_workspaces holds its
\* list, the active workspace marked: what a panel that binds then is told is
\* the truth, whatever hooks the last operation made.
THEOREM RegistryIsTheList == Spec => []RegistryFollowsList
  <1>1. IInv => RegistryFollowsList
    <2> SUFFICES ASSUME IInv, LockFree, active # None
                 PROVE  /\ Present = Listed(workspaces)
                        /\ \A ws \in Present : registry[ws] = "active" <=> ws = active
      BY DEF RegistryFollowsList
    <2>1. /\ todo = <<>> /\ active \in Workspace /\ active \in Listed(workspaces)
          /\ workspaces \in Seq(Workspace)
      BY DEF IInv, TypeOK, ListSound, LockFree
    <2>2. Listed(workspaces) \subseteq Workspace
      BY <2>1 DEF Listed, ToSet
    <2>3. \A ws \in Workspace : registry[ws] = Standing(ws)
      BY <2>1 DEF IInv, RegistryCatchesUp
    <2> QED BY <2>1, <2>2, <2>3 DEF Present, Standing
  <1> QED BY <1>1, Invariance, PTL

\* A handle of a workspace that is gone is one whose removal is on its way.
THEOREM NoDeadHandleStays == Spec => []RemovalPending
  <1>1. IInv => RemovalPending
    <2> SUFFICES ASSUME IInv, NEW c \in bound, NEW i \in 1..Len(handles[c]),
                        registry[handles[c][i].ws] = "absent",
                        NEW gone, gone = Hk("destroy", handles[c][i].ws)
                 PROVE  posting = gone \/ \E j \in 1..Len(queue) : queue[j] = gone
      BY DEF RemovalPending
    <2>1. Has(Pending, gone)
      BY DEF IInv, HandlesCatchUp
    <2>2. CASE posting = None
      BY <2>1, <2>2 DEF Pending, Has
    <2>3. CASE posting # None
      <3>1. queue \in Seq(Hook) /\ posting \in Hook /\ Pending = Append(queue, posting)
        BY <2>3 DEF IInv, TypeOK, Pending
      <3>2. Has(queue, gone) \/ gone = posting
        BY <2>1, <3>1, AppendHook
      <3> QED BY <3>2 DEF Has
    <2> QED BY <2>2, <2>3
  <1> QED BY <1>1, Invariance, PTL

\* However bind, the two halves of each hook, the main loop's queue and other
\* clients interleave, at rest every panel agrees with all_the_workspaces.
THEOREM PanelsAgree == Spec => []AgreesAtRest
  <1>1. IInv => AgreesAtRest
    <2> SUFFICES ASSUME IInv, LockFree, queue = <<>>, loop # "binding", NEW c \in bound
                 PROVE  Agrees(c)
      BY DEF AgreesAtRest
    <2>1. todo = <<>> /\ \A g : ~Has(Pending, g)
      BY DEF LockFree, Pending, Has
    <2>2. ASSUME NEW i \in 1..Len(handles[c]) PROVE handles[c][i].ws \in Present
      <3>1. handles[c][i].ws \in Workspace
        BY HandlesTyped DEF IInv
      <3>2. registry[handles[c][i].ws] # "absent"
        BY <2>1 DEF IInv, HandlesCatchUp
      <3> QED BY <3>1, <3>2 DEF Present
    <2>3. ASSUME c \notin discarded, NEW ws \in Present
          PROVE  \E i \in First(handles[c], ws) : handles[c][i].state = registry[ws]
      BY <2>1, <2>3 DEF IInv, HandlesCatchUp
    <2> QED BY <2>2, <2>3 DEF Agrees
  <1> QED BY <1>1, Invariance, PTL

\* workspace_destroyed's renumbering leaves the workspaces of a panel numbered
\* in order, however many there are and wherever the one removed was.
THEOREM NumbersInOrder == Spec => []Numbered
  <1>1. IInv => Numbered
    BY DEF IInv
  <1> QED BY <1>1, Invariance, PTL

\* At rest no group has entered an output that is gone, and none lacks one
\* whose wl_output its client had when it was announced.
THEOREM OutputsSettle == Spec => []OutputsShown
  <1>1. IInv => OutputsShown
    <2> SUFFICES ASSUME IInv, LockFree, queue = <<>>, NEW c \in bound, NEW o \in Output
                 PROVE  /\ o \in outputs => wl_output[c][o] # "bound"
                        /\ o \notin outputs => wl_output[c][o] # "entered"
      BY DEF OutputsShown
    <2>1. \A g : ~Has(Pending, g)
      BY DEF LockFree, Pending, Has
    <2>2. c \in Client
      BY DEF IInv, TypeOK
    <2> QED BY <2>1, <2>2 DEF IInv, OutputsCatchUp
  <1> QED BY <1>1, Invariance, PTL
=============================================================================
