-------------------------- MODULE SupervisorProofs --------------------------
(***************************************************************************)
(* ChildControl implements Supervisor, for any commands, pids and          *)
(* shortcuts: every step of the processes, pids, signals and timers is, of *)
(* each component, a step of Supervisor or none.                           *)
(*                                                                         *)
(* The first part says how a component stands, given the tables as         *)
(* arguments; the second, which changes of one component are a step of     *)
(* Supervisor; the third has a lemma for each action of ChildControl.      *)
(***************************************************************************)
EXTENDS ChildControlProofs

\* reap() has waited for p and not looked it up yet.
Waited(p) == At("reaped") /\ doing.pid = p

\* The process p of c, in the tables.
Of(c, p, ch) == ch[p] # None /\ ch[p].owner = c

\* What the stale entries leave alone: an entry of a component is that of its
\* process, unless reap() is about to erase it, only the main loop launches
\* components, and the first launch is never too soon.
Owned ==
    /\ \A p \in Proc : shell_component_pids[p] \in Component =>
          Waited(p) \/ Of(shell_component_pids[p], p, child)
    /\ \A p \in Proc : recording[p] \notin Component
    /\ \A c \in Component \ launched : aged[c]

\* The components that reap() has waited for and may be about to launch.
Pendings == {c \in Component : Pending(c)}

\* Status, given the tables.
View(c, ch, hd, ln, pn) ==
    IF c \notin ln THEN "new"
    ELSE IF c \in hd THEN "paused"
    ELSE IF c \in pn THEN "failed"
    ELSE IF \E p \in Proc : Of(c, p, ch) /\ ch[p].state = "up" THEN "running"
    ELSE IF \E p \in Proc : Of(c, p, ch) /\ ch[p].state = "failed" THEN "failed"
    ELSE "over"

LEMMA StatusIs ==
    ASSUME NEW c \in Component
    PROVE  /\ Status(c) = View(c, child, handle, launched, Pendings)
           /\ Status(c)' = View(c, child', handle', launched', Pendings')
  BY DEF Status, View, Running, Of, Pendings

\* Nobody else's process matters.
LEMMA ViewSame ==
    ASSUME NEW c, NEW ch, NEW ch2, NEW hd, NEW hd2, NEW ln, NEW ln2, NEW pn, NEW pn2,
           c \in hd2 <=> c \in hd, c \in ln2 <=> c \in ln, c \in pn2 <=> c \in pn,
           \A p \in Proc : Of(c, p, ch2) <=> Of(c, p, ch),
           \A p \in Proc : Of(c, p, ch) => ch2[p] = ch[p]
    PROVE  View(c, ch2, hd2, ln2, pn2) = View(c, ch, hd, ln, pn)
  BY DEF View

\* A command stands as its only process does.
LEMMA ViewOne ==
    ASSUME NEW c, NEW ch, NEW hd, NEW ln, NEW pn, NEW p \in Proc,
           c \in ln, c \notin hd, c \notin pn, Of(c, p, ch),
           \A q \in Proc : Of(c, q, ch) => q = p
    PROVE  /\ ch[p].state = "up" => View(c, ch, hd, ln, pn) = "running"
           /\ ch[p].state = "failed" => View(c, ch, hd, ln, pn) = "failed"
           /\ ch[p].state = "done" => View(c, ch, hd, ln, pn) = "over"
  BY DEF View

\* Without a process it waits for its timer or for reap(), or is over.
LEMMA ViewNone ==
    ASSUME NEW c, NEW ch, NEW hd, NEW ln, NEW pn, c \in ln,
           \A q \in Proc : ~Of(c, q, ch)
    PROVE  View(c, ch, hd, ln, pn) = IF c \in hd THEN "paused"
                                     ELSE IF c \in pn THEN "failed" ELSE "over"
  BY DEF View

\* Who is pending, while the main loop is in the middle of nothing, of a wait
\* or of a command.
LEMMA NonePending ==
    /\ doing = None => Pendings = {}
    /\ doing' = None => Pendings' = {}
  BY DEF Pendings, Pending, Awaited, At

LEMMA WaitedPending ==
    ASSUME At("reaped"), doing # None
    PROVE  \A c \in Component :
              c \in Pendings <=> /\ doing.was.state = "failed"
                                 /\ shell_component_pids[doing.pid] = c
  BY DEF Pendings, Pending, Awaited, At

LEMMA AwaitedPending ==
    ASSUME At("on_reap") \/ At("launch")
    PROVE  \A c \in Component : c \in Pendings <=> doing.info = c
  BY DEF Pendings, Pending, Awaited, At
-----------------------------------------------------------------------------
\* What Supervisor sees of c does not change.
Same(c) ==
    /\ Status(c)' = Status(c)
    /\ runs_in_quick_succession'[c] = runs_in_quick_succession[c]
    /\ aged'[c] = aged[c] \/ Status(c) \notin {"running", "failed"}

\* The steps of Supervisor, of a command c.
Moves(c) ==
    \/ /\ Status(c) = "new" /\ Status(c)' = "running"
       /\ runs_in_quick_succession'[c] = 0 /\ ~aged'[c]
    \/ /\ Status(c) \in {"running", "failed"} /\ Status(c)' = Status(c)
       /\ runs_in_quick_succession'[c] = runs_in_quick_succession[c] /\ aged'[c]
    \/ /\ Status(c) = "running" /\ Status(c)' = "failed"
       /\ runs_in_quick_succession'[c] = runs_in_quick_succession[c] /\ aged'[c] = aged[c]
    \/ /\ Status(c) \in {"running", "failed"} /\ Status(c)' = "over"
       /\ runs_in_quick_succession'[c] = runs_in_quick_succession[c]
    \/ /\ Status(c) = "failed" /\ aged[c] /\ Status(c)' = "running"
       /\ runs_in_quick_succession'[c] = 0 /\ ~aged'[c]
    \/ /\ Status(c) = "failed" /\ ~aged[c] /\ Status(c)' = "paused"
       /\ ~GivesUp(c)
       /\ runs_in_quick_succession'[c] = runs_in_quick_succession[c]
    \/ /\ Status(c) = "paused" /\ Status(c)' = "running"
       /\ runs_in_quick_succession'[c] = runs_in_quick_succession[c] + 1 /\ ~aged'[c]

LEMMA Stutters ==
    ASSUME \A c \in Component : Same(c)
    PROVE  UNCHANGED S!vars
  BY DEF Same, S!vars

LEMMA Steps ==
    ASSUME TypeOK, NEW c \in Component, Moves(c),
           \A d \in Component \ {c} : Same(d)
    PROVE  S!Next
  <1> DEFINE st == [d \in Component |-> Status(d)]
             lg == {d \in Component : aged[d] /\ Status(d) \in {"running", "failed"}}
             qk == [d \in Component |-> runs_in_quick_succession[d]]
  <1>1. \A d \in Component \ {c} : /\ st'[d] = st[d]
                                   /\ d \in lg' <=> d \in lg
                                   /\ qk'[d] = qk[d]
    BY DEF Same
  <1>2. st' = [st EXCEPT ![c] = Status(c)']
    BY <1>1
  <1>3. qk' = [qk EXCEPT ![c] = runs_in_quick_succession'[c]]
    BY <1>1
  <1>4. lg' = IF aged'[c] /\ Status(c)' \in {"running", "failed"}
              THEN lg \cup {c} ELSE lg \ {c}
    BY <1>1
  <1>5. c \in lg <=> aged[c] /\ Status(c) \in {"running", "failed"}
    OBVIOUS
  <1>6. /\ st[c] = Status(c) /\ qk[c] = runs_in_quick_succession[c]
        /\ runs_in_quick_succession[c] \in Nat
        /\ [qk EXCEPT ![c] = runs_in_quick_succession[c]] = qk
        /\ [st EXCEPT ![c] = Status(c)] = st
    <2>1. runs_in_quick_succession[c] \in 0 .. 3
      BY DEF TypeOK, Info, max_too_short_reruns_in_a_row
    <2>2. runs_in_quick_succession[c] \in Nat
      BY <2>1
    <2>3. [qk EXCEPT ![c] = runs_in_quick_succession[c]] = qk
      OBVIOUS
    <2>4. [st EXCEPT ![c] = Status(c)] = st
      OBVIOUS
    <2> QED
      BY <2>2, <2>3, <2>4
  <1> HIDE DEF st, lg, qk
  <1>7. CASE /\ Status(c) = "new" /\ Status(c)' = "running"
             /\ runs_in_quick_succession'[c] = 0 /\ ~aged'[c]
    <2>1. lg' = lg
      BY <1>4, <1>5, <1>7
    <2>2. S!Start(c)
      BY <1>2, <1>3, <1>6, <1>7, <2>1 DEF S!Start, S!Becomes, st, lg, qk
    <2> QED
      BY <2>2 DEF S!Next
  <1>8. CASE /\ Status(c) \in {"running", "failed"} /\ Status(c)' = Status(c)
             /\ runs_in_quick_succession'[c] = runs_in_quick_succession[c] /\ aged'[c]
    <2>1. lg' = lg \cup {c} /\ st' = st /\ qk' = qk
      BY <1>2, <1>3, <1>4, <1>6, <1>8
    <2>2. S!Lasts(c)
      BY <1>6, <1>8, <2>1 DEF S!Lasts, st, lg, qk
    <2> QED
      BY <2>2 DEF S!Next
  <1>9. CASE /\ Status(c) = "running" /\ Status(c)' = "failed"
             /\ runs_in_quick_succession'[c] = runs_in_quick_succession[c]
             /\ aged'[c] = aged[c]
    <2>1. lg' = lg /\ qk' = qk
      BY <1>3, <1>4, <1>5, <1>6, <1>9
    <2>2. S!Fails(c)
      BY <1>2, <1>6, <1>9, <2>1 DEF S!Fails, S!Becomes, st, lg, qk
    <2> QED
      BY <2>2 DEF S!Next
  <1>10. CASE /\ Status(c) \in {"running", "failed"} /\ Status(c)' = "over"
              /\ runs_in_quick_succession'[c] = runs_in_quick_succession[c]
    <2>1. lg' = lg \ {c} /\ qk' = qk
      BY <1>3, <1>4, <1>6, <1>10
    <2>2. S!Ends(c)
      BY <1>2, <1>6, <1>10, <2>1 DEF S!Ends, S!Becomes, st, lg, qk
    <2> QED
      BY <2>2 DEF S!Next
  <1>11. CASE /\ Status(c) = "failed" /\ aged[c] /\ Status(c)' = "running"
              /\ runs_in_quick_succession'[c] = 0 /\ ~aged'[c]
    <2>1. lg' = lg \ {c} /\ c \in lg
      BY <1>4, <1>5, <1>11
    <2>2. S!RestartAtOnce(c)
      BY <1>2, <1>3, <1>6, <1>11, <2>1 DEF S!RestartAtOnce, S!Becomes, st, lg, qk
    <2> QED
      BY <2>2 DEF S!Next
  <1>12. CASE /\ Status(c) = "failed" /\ ~aged[c] /\ Status(c)' = "paused"
              /\ ~GivesUp(c)
              /\ runs_in_quick_succession'[c] = runs_in_quick_succession[c]
    <2>1. lg' = lg /\ c \notin lg /\ qk' = qk
      BY <1>3, <1>4, <1>5, <1>6, <1>12
    <2>2. qk[c] < max_too_short_reruns_in_a_row
      BY <1>6, <1>12 DEF GivesUp, max_too_short_reruns_in_a_row
    <2>3. S!Pause(c)
      BY <1>2, <1>6, <1>12, <2>1, <2>2 DEF S!Pause, S!Becomes, st, lg, qk
    <2> QED
      BY <2>3 DEF S!Next
  <1>13. CASE /\ Status(c) = "paused" /\ Status(c)' = "running"
              /\ runs_in_quick_succession'[c] = runs_in_quick_succession[c] + 1
              /\ ~aged'[c]
    <2>1. lg' = lg
      BY <1>4, <1>5, <1>13
    <2>2. qk' = [qk EXCEPT ![c] = @ + 1]
      BY <1>3, <1>6, <1>13
    <2>3. S!RestartAfterPause(c)
      BY <1>2, <1>6, <1>13, <2>1, <2>2
      DEF S!RestartAfterPause, S!Becomes, st, lg, qk
    <2> QED
      BY <2>3 DEF S!Next
  <1> QED
    BY <1>7, <1>8, <1>9, <1>10, <1>11, <1>12, <1>13 DEF Moves
-----------------------------------------------------------------------------
\* The first conjunct of Owned, in the tables, when reap() has waited for none.
OwnedPids(ch, pd) == \A p \in Proc : pd[p] \in Component => Of(pd[p], p, ch)

\* c has the same processes in both tables.
SameIn(c, ch, ch2) ==
    \A p \in Proc : /\ Of(c, p, ch2) <=> Of(c, p, ch)
                    /\ Of(c, p, ch) => ch2[p] = ch[p]

\* What a step that does not touch c leaves alone.
Untouched(c) ==
    /\ c \in handle' <=> c \in handle
    /\ c \in launched' <=> c \in launched
    /\ c \in Pendings' <=> c \in Pendings
    /\ runs_in_quick_succession'[c] = runs_in_quick_succession[c]
    /\ aged'[c] = aged[c]

LEMMA Components == Component \subseteq Info /\ None \notin Component
  BY OwnersDiffer DEF Info

LEMMA UntouchedSame ==
    ASSUME NEW c \in Component, SameIn(c, child, child'), Untouched(c)
    PROVE  Same(c)
  <1>1. View(c, child', handle', launched', Pendings')
            = View(c, child, handle, launched, Pendings)
    BY ViewSame DEF SameIn, Untouched
  <1> QED
    BY <1>1, StatusIs DEF Same, Untouched

\* The process of a component is known: its pid was not handed out early.
LEMMA ComponentKnown ==
    ASSUME Inv, NEW c \in Component, NEW p \in Proc, Of(c, p, child)
    PROVE  p \notin early /\ Has(c, p, Known, shell_component_pids, recording)
  <1>1. p \notin early
    BY DEF Inv, Early, Of
  <1> QED
    BY <1>1 DEF Has, Known, Of

\* One process at most, known as running, failed or over.
LEMMA StatusOne ==
    ASSUME Inv, NEW c \in Component, NEW p \in Proc, Of(c, p, child)
    PROVE  /\ \A q \in Proc : Of(c, q, child) => q = p
           /\ c \in launched /\ c \notin handle /\ c \notin Pendings
           /\ child[p].state = "up" => Status(c) = "running"
           /\ child[p].state = "failed" => Status(c) = "failed"
           /\ child[p].state = "done" => Status(c) = "over"
  <1>1. \A q \in Proc : Of(c, q, child) =>
            q \notin early /\ Has(c, q, Known, shell_component_pids, recording)
    BY ComponentKnown
  <1>2. c \in Info
    BY Components
  <1>3. /\ \A q, r \in Proc : (/\ Has(c, q, Known, shell_component_pids, recording)
                               /\ Has(c, r, Known, shell_component_pids, recording))
                                  => q = r
        /\ c \in launched /\ c \notin handle /\ ~Awaited(c)
    <2>1. \A q, r \in Proc : (/\ Has(c, q, Known, shell_component_pids, recording)
                              /\ Has(c, r, Known, shell_component_pids, recording))
                                 => q = r
      BY <1>2 DEF Inv, Tables, Sound
    <2>2. ~NoTrace(c, Known, shell_component_pids, recording)
      BY <1>1 DEF NoTrace
    <2>3. c \in launched /\ c \notin handle
      BY <1>2, <2>2 DEF Inv, Tables, Sound
    <2>4. ~Awaited(c)
      BY <1>2, <2>2 DEF Inv, Tables
    <2> QED
      BY <2>1, <2>3, <2>4
  <1>4. \A q \in Proc : Of(c, q, child) => q = p
    BY <1>1, <1>3
  <1>5. ~(At("reaped") /\ shell_component_pids[doing.pid] = c)
    <2> SUFFICES ASSUME At("reaped"), shell_component_pids[doing.pid] = c
                 PROVE  FALSE
      OBVIOUS
    <2>1. doing.pid \in Proc
      BY DoingIs DEF Inv
    <2>2. doing.pid = p
      BY <1>1, <1>3, <2>1 DEF Has
    <2> QED
      BY <1>1, <2>2 DEF Inv, Early, Of
  <1>6. c \notin Pendings
    BY <1>3, <1>5 DEF Pendings, Pending
  <1> QED
    BY <1>3, <1>4, <1>6, ViewOne, StatusIs

\* A command is launched on the main loop: it runs, the others are left alone.
LEMMA LaunchView ==
    ASSUME TypeOK, NEW i \in Info, LaunchAndInsert(i),
           OwnedPids(child, shell_component_pids)
    PROVE  /\ OwnedPids(child', shell_component_pids')
           /\ \E q \in Proc : Of(i, q, child') /\ child'[q].state = "up"
           /\ \A c \in Component \ {i} : SameIn(c, child, child')
  <1>0. child \in Children /\ shell_component_pids \in Pids
    BY DEF TypeOK, Children, Pids
  <1>1. PICK q \in Proc : /\ child[q] = None
                          /\ child' = Forked(child, q, i)
                          /\ shell_component_pids' = insert(shell_component_pids, q, i)
    BY DEF LaunchAndInsert, Available, Spawn, Forked
  <1>2. /\ child'[q] = [owner |-> i, state |-> "up"]
        /\ \A p \in Proc \ {q} : child'[p] = child[p]
    BY <1>0, <1>1, ForkedType DEF Owner
  <1>3. /\ shell_component_pids'[q] \in {shell_component_pids[q], i}
        /\ \A p \in Proc \ {q} : shell_component_pids'[p] = shell_component_pids[p]
    BY <1>0, <1>1, InsertType
  <1>4. child'[q] # None
    BY <1>2, NoneAssumption DEF Process, Owner
  <1>5. OwnedPids(child', shell_component_pids')
    <2> SUFFICES ASSUME NEW p \in Proc, shell_component_pids'[p] \in Component
                 PROVE  Of(shell_component_pids'[p], p, child')
      BY DEF OwnedPids
    <2>1. CASE p = q
      BY <1>1, <1>2, <1>3, <1>4, <2>1 DEF OwnedPids, Of
    <2>2. CASE p # q
      BY <1>2, <1>3, <2>2 DEF OwnedPids, Of
    <2> QED
      BY <2>1, <2>2
  <1>6. Of(i, q, child') /\ child'[q].state = "up"
    BY <1>2, <1>4 DEF Of
  <1>7. \A c \in Component \ {i} : SameIn(c, child, child')
    BY <1>1, <1>2 DEF Of, SameIn
  <1> QED
    BY <1>5, <1>6, <1>7

\* shell_launch of a command without a process.
LEMMA ShellLaunchMoves ==
    ASSUME TypeOK, NEW i \in Info, i \in launched', i \notin handle, doing' = None,
           \A p \in Proc : ~Of(i, p, child),
           OwnedPids(child, shell_component_pids), shell_launch(i)
    PROVE  /\ OwnedPids(child', shell_component_pids')
           /\ \A c \in Component \ {i} :
                 /\ SameIn(c, child, child')
                 /\ c \in handle' <=> c \in handle
                 /\ runs_in_quick_succession'[c] = runs_in_quick_succession[c]
                 /\ aged'[c] = aged[c]
           /\ i \in Component =>
                 \/ /\ aged[i] /\ Status(i)' = "running"
                    /\ runs_in_quick_succession'[i] = 0 /\ ~aged'[i]
                 \/ /\ ~aged[i] /\ Status(i)' = "over"
                    /\ runs_in_quick_succession'[i] = runs_in_quick_succession[i]
                 \/ /\ ~aged[i] /\ Status(i)' = "paused" /\ ~GivesUp(i)
                    /\ runs_in_quick_succession'[i] = runs_in_quick_succession[i]
  <1>0. Pendings' = {}
    BY NonePending
  <1>1. CASE aged[i] /\ LaunchAndInsert(i)
             /\ runs_in_quick_succession' = [runs_in_quick_succession EXCEPT ![i] = 0]
             /\ aged' = [aged EXCEPT ![i] = FALSE]
             /\ UNCHANGED <<handle, abandoned>>
    <2>1. /\ runs_in_quick_succession'[i] = 0
          /\ \A c \in Component \ {i} :
                runs_in_quick_succession'[c] = runs_in_quick_succession[c]
      BY <1>1, Components DEF TypeOK
    <2>2. ~aged'[i] /\ \A c \in Component \ {i} : aged'[c] = aged[c]
      BY <1>1, Components DEF TypeOK
    <2>3. /\ OwnedPids(child', shell_component_pids')
          /\ \E q \in Proc : Of(i, q, child') /\ child'[q].state = "up"
          /\ \A c \in Component \ {i} : SameIn(c, child, child')
      BY <1>1, LaunchView
    <2>4. View(i, child', handle', launched', Pendings') = "running"
      BY <1>0, <1>1, <2>3 DEF View
    <2> QED
      BY <1>1, <2>1, <2>2, <2>3, <2>4, StatusIs
  <1>2. CASE ~aged[i] /\ WaitOrGiveUp(i) /\ UNCHANGED <<child, shell_component_pids, aged>>
    <2>1. \/ handle' = handle
          \/ handle' = handle \cup {i} /\ ~GivesUp(i)
      BY <1>2 DEF WaitOrGiveUp
    <2>2. UNCHANGED runs_in_quick_succession
      BY <1>2 DEF WaitOrGiveUp
    <2>3. View(i, child', handle', launched', Pendings')
              = IF i \in handle' THEN "paused" ELSE "over"
      BY <1>0, <1>2, ViewNone
    <2>4. \A c : SameIn(c, child, child')
      BY <1>2 DEF SameIn
    <2> QED
      BY <1>2, <2>1, <2>2, <2>3, <2>4, StatusIs
  <1> QED
    BY <1>1, <1>2 DEF shell_launch

\* When reap() has waited for none, every entry of a component is its process's.
LEMMA OwnedIs ==
    /\ Owned /\ ~At("reaped") => OwnedPids(child, shell_component_pids)
    /\ (/\ OwnedPids(child', shell_component_pids')
        /\ \A p \in Proc : recording'[p] \notin Component
        /\ \A c \in Component \ launched' : aged'[c]) => Owned'
  BY DEF Owned, OwnedPids, Waited
-----------------------------------------------------------------------------
\* One lemma for each action that changes how a command stands.

LEMMA LaunchComponentMoves ==
    ASSUME Inv, Owned, NEW c \in Component, LaunchComponent(c)
    PROVE  (S!Next \/ UNCHANGED S!vars) /\ Owned'
  <1>1. /\ c \in Info \ launched /\ launched' = launched \cup {c}
        /\ shell_launch(c) /\ doing = None /\ doing' = None
        /\ UNCHANGED recording
    BY Components DEF LaunchComponent
  <1>2. /\ TypeOK /\ OwnedPids(child, shell_component_pids)
        /\ Pendings = {} /\ Pendings' = {}
    BY <1>1, OwnedIs, NonePending DEF Inv, At
  <1>3. /\ c \notin handle /\ \A p \in Proc : ~Of(c, p, child)
        /\ aged[c] /\ Status(c) = "new"
    <2>1. NoTrace(c, Known, shell_component_pids, recording) /\ c \notin handle
      BY <1>1 DEF Inv, Tables, Sound
    <2> QED
      BY <1>1, <2>1, ComponentKnown DEF NoTrace, Owned, Status
  <1>4. /\ OwnedPids(child', shell_component_pids')
        /\ \A d \in Component \ {c} :
              /\ SameIn(d, child, child')
              /\ d \in handle' <=> d \in handle
              /\ runs_in_quick_succession'[d] = runs_in_quick_succession[d]
              /\ aged'[d] = aged[d]
        /\ Status(c)' = "running" /\ runs_in_quick_succession'[c] = 0 /\ ~aged'[c]
    BY <1>1, <1>2, <1>3, ShellLaunchMoves
  <1>5. Moves(c)
    BY <1>3, <1>4 DEF Moves
  <1>6. \A d \in Component \ {c} : Same(d)
    BY <1>1, <1>2, <1>4, UntouchedSame DEF Untouched
  <1>7. Owned'
    <2>1. \A p \in Proc : recording'[p] \notin Component
      BY <1>1 DEF Owned
    <2>2. \A d \in Component \ launched' : aged'[d]
      BY <1>1, <1>4 DEF Owned
    <2> QED
      BY <1>4, <2>1, <2>2, OwnedIs
  <1> QED
    BY <1>2, <1>5, <1>6, <1>7, Steps

\* waitpid takes a process away.  A component that failed is pending when the
\* entry is its own, and over when it has none.
LEMMA ReapMoves ==
    ASSUME Inv, Owned, NEW r \in Proc, Reap(r)
    PROVE  (S!Next \/ UNCHANGED S!vars) /\ Owned'
  <1>0. PICK o : o = child[r].owner
    OBVIOUS
  <1>1. /\ child[r] # None /\ child[r].state # "up" /\ doing = None
        /\ doing' = [at |-> "reaped", pid |-> r, was |-> child[r]]
        /\ child' = [child EXCEPT ![r] = None]
        /\ UNCHANGED <<info, shell_component_pids, recording, launched>>
    BY DEF Reap, Zombies, control
  <1>2. TypeOK /\ child \in Children /\ child[r] \in Process
    BY <1>1 DEF Inv, TypeOK, Children
  <1>3. /\ child[r].state \in {"failed", "done"}
        /\ child'[r] = None /\ \A p \in Proc \ {r} : child'[p] = child[p]
    BY <1>1, <1>2 DEF Children, Process
  <1>4. /\ At("reaped")' /\ doing'.pid = r /\ doing'.was = child[r]
        /\ \A i : ~Awaited(i)'
    BY <1>1, <1>2, DoingReaped
  <1>5. shell_component_pids[r] \in Component => shell_component_pids[r] = o
    BY <1>0, <1>1 DEF Owned, Waited, At, Of
  <1>6. Pendings = {}
    BY <1>1, NonePending
  <1>7. \A c \in Component : c \in Pendings'
            <=> /\ c = o /\ child[r].state = "failed"
                /\ shell_component_pids[r] = c
    BY <1>1, <1>4, <1>5 DEF Pendings, Pending
  <1>8. \A c \in Component \ {o} : Same(c)
    <2> SUFFICES ASSUME NEW c \in Component \ {o} PROVE Same(c)
      OBVIOUS
    <2>1. SameIn(c, child, child')
      BY <1>0, <1>3 DEF SameIn, Of
    <2>2. Untouched(c)
      BY <1>1, <1>6, <1>7 DEF Untouched, info
    <2> QED
      BY <2>1, <2>2, UntouchedSame
  <1>9. Owned'
    <2>1. \A p \in Proc : shell_component_pids'[p] \in Component =>
              Waited(p)' \/ Of(shell_component_pids'[p], p, child')
      <3> SUFFICES ASSUME NEW p \in Proc \ {r}, shell_component_pids[p] \in Component
                   PROVE  Of(shell_component_pids[p], p, child')
        BY <1>1, <1>4 DEF Waited
      <3>1. Of(shell_component_pids[p], p, child)
        BY <1>1 DEF Owned, Waited, At
      <3> QED
        BY <1>3, <3>1 DEF Of
    <2> QED
      BY <1>1, <2>1 DEF Owned, info
  <1>10. CASE o \in Component
    <2>1. /\ \A q \in Proc : Of(o, q, child) => q = r
          /\ o \in launched /\ o \notin handle
          /\ Status(o) = IF child[r].state = "failed" THEN "failed" ELSE "over"
      BY <1>0, <1>1, <1>3, <1>10, StatusOne DEF Of
    <2>2. o \in launched' /\ o \notin handle' /\ \A q \in Proc : ~Of(o, q, child')
      BY <1>1, <1>3, <2>1 DEF Of, info
    <2>3. View(o, child', handle', launched', Pendings')
              = IF o \in Pendings' THEN "failed" ELSE "over"
      BY <2>2, ViewNone
    <2>4. Status(o)' = IF o \in Pendings' THEN "failed" ELSE "over"
      BY <1>10, <2>3, StatusIs
    <2>5. /\ runs_in_quick_succession'[o] = runs_in_quick_succession[o]
          /\ aged'[o] = aged[o]
      BY <1>1 DEF info
    <2>6. CASE child[r].state = "failed" /\ o \notin Pendings'
      <3>1. Moves(o)
        BY <2>1, <2>4, <2>5, <2>6 DEF Moves
      <3> QED
        BY <1>2, <1>8, <1>9, <1>10, <3>1, Steps
    <2>7. CASE ~(child[r].state = "failed" /\ o \notin Pendings')
      <3>1. Same(o)
        BY <1>7, <1>10, <2>1, <2>4, <2>5, <2>7 DEF Same
      <3> QED
        BY <1>8, <1>9, <3>1, Stutters
    <2> QED
      BY <2>6, <2>7
  <1>11. CASE o \notin Component
    BY <1>8, <1>9, <1>11, Stutters
  <1> QED
    BY <1>10, <1>11

\* The lookup finds what was pending, and erases the entry.
LEMMA LookupMoves ==
    ASSUME Inv, Owned, Lookup
    PROVE  UNCHANGED S!vars /\ Owned'
  <1> DEFINE r == doing.pid
             e == shell_component_pids[r]
  <1>1. /\ At("reaped")
        /\ doing' = IF doing.was.state = "failed" /\ e \in Info
                    THEN [at |-> "on_reap", info |-> e] ELSE None
        /\ shell_component_pids' = [shell_component_pids EXCEPT ![r] = None]
        /\ UNCHANGED <<info, child, recording, launched>>
    BY DEF Lookup, control
  <1>2. r \in Proc /\ shell_component_pids \in Pids
    BY <1>1, DoingIs DEF Inv, TypeOK, Pids
  <1>3. \A c \in Component : c \in Pendings <=> doing.was.state = "failed" /\ e = c
    BY <1>1, DoingIs DEF Inv, Pendings, Pending, Awaited
  <1>4. /\ ~At("reaped")'
        /\ \A c \in Component : c \in Pendings' <=> doing.was.state = "failed" /\ e = c
    <2>1. CASE doing.was.state = "failed" /\ e \in Info
      <3>1. doing' = [at |-> "on_reap", info |-> e]
        BY <1>1, <2>1
      <3> HIDE DEF e
      <3>2. doing' # None /\ doing'.at = "on_reap" /\ doing'.info = e /\ ~At("reaped")'
        BY <2>1, <3>1, DoingHandling
      <3> QED
        BY <2>1, <3>2 DEF Pendings, Pending, Awaited, At
    <2>2. CASE ~(doing.was.state = "failed" /\ e \in Info)
      <3>1. doing' = None
        BY <1>1, <2>2
      <3>2. Pendings' = {} /\ ~At("reaped")'
        BY <3>1, NonePending DEF At
      <3> QED
        BY <2>2, <3>2, Components
    <2> QED
      BY <2>1, <2>2
  <1> HIDE DEF e
  <1>5. \A c \in Component : Same(c)
    <2> SUFFICES ASSUME NEW c \in Component PROVE Same(c)
      OBVIOUS
    <2>1. SameIn(c, child, child') /\ Untouched(c)
      BY <1>1, <1>3, <1>4 DEF SameIn, Untouched, info
    <2> QED
      BY <2>1, UntouchedSame
  <1>6. OwnedPids(child', shell_component_pids')
    <2> SUFFICES ASSUME NEW p \in Proc, shell_component_pids'[p] \in Component
                 PROVE  Of(shell_component_pids'[p], p, child')
      BY DEF OwnedPids
    <2>1. p # r /\ shell_component_pids'[p] = shell_component_pids[p]
      BY <1>1, <1>2, Components DEF Pids
    <2> QED
      BY <1>1, <2>1 DEF Owned, Waited
  <1>7. Owned'
    BY <1>1, <1>6, OwnedIs DEF Owned, info
  <1> QED
    BY <1>5, <1>7, Stutters

\* A component is always wanted.
LEMMA OnReapMoves ==
    ASSUME Inv, Owned, OnReap
    PROVE  UNCHANGED S!vars /\ Owned'
  <1> DEFINE i == doing.info
  <1>1. /\ At("on_reap")
        /\ doing' = IF should_restart_predicate(i)
                    THEN [doing EXCEPT !.at = "launch"] ELSE None
        /\ UNCHANGED <<info, child, shell_component_pids, recording, launched>>
    BY DEF OnReap, processes, control
  <1>2. i \in Info /\ doing = [at |-> "on_reap", info |-> i]
    BY <1>1, DoingIs DEF Inv, At, Handling
  <1>3. \A c \in Component : c \in Pendings <=> i = c
    BY <1>1, AwaitedPending
  <1>4. ~At("reaped")' /\ \A c \in Component : c \in Pendings' <=> i = c
    <2>1. CASE should_restart_predicate(i)
      <3>1. doing' = [at |-> "launch", info |-> i]
        BY <1>1, <1>2, <2>1
      <3> HIDE DEF i
      <3>2. doing' # None /\ doing'.at = "launch" /\ doing'.info = i /\ ~At("reaped")'
        BY <1>2, <3>1, DoingHandling
      <3> QED
        BY <3>2 DEF Pendings, Pending, Awaited, At
    <2>2. CASE ~should_restart_predicate(i)
      <3>1. Pendings' = {} /\ ~At("reaped")' /\ i \notin Component
        BY <1>1, <2>2, NonePending DEF At, should_restart_predicate
      <3> QED
        BY <3>1
    <2> QED
      BY <2>1, <2>2
  <1>5. \A c \in Component : Same(c)
    <2> SUFFICES ASSUME NEW c \in Component PROVE Same(c)
      OBVIOUS
    <2>1. SameIn(c, child, child') /\ Untouched(c)
      BY <1>1, <1>3, <1>4 DEF SameIn, Untouched, info
    <2> QED
      BY <2>1, UntouchedSame
  <1>6. OwnedPids(child', shell_component_pids')
    <2>1. ~At("reaped")
      BY <1>1, DoingIs DEF Inv
    <2> QED
      BY <1>1, <2>1, OwnedIs
  <1>7. Owned'
    BY <1>1, <1>6, OwnedIs DEF Owned, info
  <1> QED
    BY <1>5, <1>7, Stutters

\* on_reap launches what was pending.
LEMMA LaunchMoves ==
    ASSUME Inv, Owned, Launch
    PROVE  (S!Next \/ UNCHANGED S!vars) /\ Owned'
  <1>0. PICK i : i = doing.info
    OBVIOUS
  <1>1. /\ At("launch") /\ doing' = None /\ shell_launch(i)
        /\ UNCHANGED <<recording, launched>>
    BY <1>0 DEF Launch, control
  <1>2. i \in Info /\ Awaited(i) /\ ~At("reaped")
    BY <1>0, <1>1, DoingIs DEF Inv, Awaited
  <1>3. \A c \in Component : c \in Pendings <=> i = c
    BY <1>0, <1>1, AwaitedPending
  <1>4. TypeOK /\ Pendings' = {} /\ OwnedPids(child, shell_component_pids)
    BY <1>1, <1>2, NonePending, OwnedIs DEF Inv
  <1>5. /\ i \in launched /\ i \notin handle
        /\ NoTrace(i, Known, shell_component_pids, recording)
    BY <1>2 DEF Inv, Tables, Allowed, TypeOK
  <1>6. CASE i \in Component
    <2>1. \A p \in Proc : ~Of(i, p, child)
      BY <1>5, <1>6, ComponentKnown DEF NoTrace
    <2>2. Status(i) = "failed"
      <3>1. View(i, child, handle, launched, Pendings) = "failed"
        BY <1>3, <1>5, <1>6 DEF View
      <3> QED
        BY <1>6, <3>1, StatusIs
    <2>3. /\ OwnedPids(child', shell_component_pids')
          /\ \A c \in Component \ {i} :
                /\ SameIn(c, child, child')
                /\ c \in handle' <=> c \in handle
                /\ runs_in_quick_succession'[c] = runs_in_quick_succession[c]
                /\ aged'[c] = aged[c]
          /\ \/ /\ aged[i] /\ Status(i)' = "running"
                /\ runs_in_quick_succession'[i] = 0 /\ ~aged'[i]
             \/ /\ ~aged[i] /\ Status(i)' = "over"
                /\ runs_in_quick_succession'[i] = runs_in_quick_succession[i]
             \/ /\ ~aged[i] /\ Status(i)' = "paused" /\ ~GivesUp(i)
                /\ runs_in_quick_succession'[i] = runs_in_quick_succession[i]
      BY <1>1, <1>2, <1>4, <1>5, <1>6, <2>1, ShellLaunchMoves
    <2>4. Moves(i)
      BY <2>2, <2>3 DEF Moves
    <2>5. \A c \in Component \ {i} : Same(c)
      BY <1>1, <1>3, <1>4, <2>3, UntouchedSame DEF Untouched
    <2>6. Owned'
      <3>1. \A c \in Component \ launched' : aged'[c]
        BY <1>1, <1>5, <2>3 DEF Owned
      <3>2. \A p \in Proc : recording'[p] \notin Component
        BY <1>1 DEF Owned
      <3> QED
        BY <2>3, <3>1, <3>2, OwnedIs
    <2> QED
      BY <1>4, <1>6, <2>4, <2>5, <2>6, Steps
  <1>7. CASE i \notin Component
    <2>1. /\ OwnedPids(child', shell_component_pids')
          /\ \A c \in Component : SameIn(c, child, child')
          /\ \A c \in Component : /\ c \in handle' <=> c \in handle
                                  /\ runs_in_quick_succession'[c] = runs_in_quick_succession[c]
                                  /\ aged'[c] = aged[c]
      <3>1. CASE LaunchAndInsert(i)
                 /\ runs_in_quick_succession' = [runs_in_quick_succession EXCEPT ![i] = 0]
                 /\ aged' = [aged EXCEPT ![i] = FALSE]
                 /\ UNCHANGED <<handle, abandoned>>
        <4>1. /\ OwnedPids(child', shell_component_pids')
              /\ \A c \in Component : SameIn(c, child, child')
          BY <1>2, <1>4, <1>7, <3>1, LaunchView
        <4> QED
          BY <1>4, <1>7, <3>1, <4>1, Components DEF TypeOK
      <3>2. CASE WaitOrGiveUp(i) /\ UNCHANGED <<child, shell_component_pids, aged>>
        BY <1>4, <1>7, <3>2 DEF WaitOrGiveUp, SameIn, OwnedPids
      <3> QED
        BY <1>1, <3>1, <3>2 DEF shell_launch
    <2>2. \A c \in Component : Same(c)
      BY <1>1, <1>3, <1>4, <1>7, <2>1, UntouchedSame DEF Untouched
    <2>3. Owned'
      BY <1>1, <2>1, OwnedIs DEF Owned
    <2> QED
      BY <2>2, <2>3, Stutters
  <1> QED
    BY <1>6, <1>7

LEMMA RelaunchMoves ==
    ASSUME Inv, Owned, Relaunch
    PROVE  (S!Next \/ UNCHANGED S!vars) /\ Owned'
  <1>0. PICK i : i = doing.info
    OBVIOUS
  <1>1. /\ At("relaunch") /\ doing' = None
        /\ handle' = handle \ {i}
        /\ runs_in_quick_succession' = [runs_in_quick_succession EXCEPT ![i] = @ + 1]
        /\ aged' = [aged EXCEPT ![i] = FALSE]
        /\ LaunchAndInsert(i)
        /\ UNCHANGED <<recording, launched>>
    BY <1>0 DEF Relaunch, Restart, control
  <1>2. /\ i \in Info /\ i \in handle /\ TypeOK
        /\ ~At("reaped") /\ Pendings = {} /\ Pendings' = {}
    <2>1. i \in Info /\ i \in handle /\ TypeOK /\ ~At("reaped")
      BY <1>0, <1>1, DoingIs DEF Inv, Allowed
    <2>2. Pendings = {}
      BY <1>1, DoingIs DEF Inv, Pendings, Pending, Awaited
    <2> QED
      BY <1>1, <2>1, <2>2, NonePending
  <1>3. i \in launched /\ OwnedPids(child, shell_component_pids)
    BY <1>2, OwnedIs DEF Inv, Tables, Sound
  <1>4. /\ OwnedPids(child', shell_component_pids')
        /\ \E q \in Proc : Of(i, q, child') /\ child'[q].state = "up"
        /\ \A c \in Component \ {i} : SameIn(c, child, child')
    BY <1>1, <1>2, <1>3, LaunchView
  <1>5. /\ runs_in_quick_succession'[i] = runs_in_quick_succession[i] + 1
        /\ \A c \in Component \ {i} :
              runs_in_quick_succession'[c] = runs_in_quick_succession[c]
    BY <1>1, <1>2, Components DEF TypeOK
  <1>6. ~aged'[i] /\ \A c \in Component \ {i} : aged'[c] = aged[c]
    BY <1>1, <1>2, Components DEF TypeOK
  <1>7. \A c \in Component \ {i} : Same(c)
    BY <1>1, <1>2, <1>4, <1>5, <1>6, UntouchedSame DEF Untouched
  <1>8. Owned'
    <2>1. \A c \in Component \ launched' : aged'[c]
      BY <1>1, <1>3, <1>6 DEF Owned
    <2>2. \A p \in Proc : recording'[p] \notin Component
      BY <1>1 DEF Owned
    <2> QED
      BY <1>4, <2>1, <2>2, OwnedIs
  <1>9. CASE i \in Component
    <2>1. Status(i) = "paused"
      BY <1>2, <1>3 DEF Status
    <2>2. View(i, child', handle', launched', Pendings') = "running"
      BY <1>1, <1>2, <1>3, <1>4 DEF View
    <2>3. Status(i)' = "running"
      BY <1>9, <2>2, StatusIs
    <2>4. Moves(i)
      BY <1>5, <1>6, <2>1, <2>3 DEF Moves
    <2> QED
      BY <1>2, <1>7, <1>8, <1>9, <2>4, Steps
  <1>10. CASE i \notin Component
    BY <1>7, <1>8, <1>10, Stutters
  <1> QED
    BY <1>9, <1>10

\* The other threads fork for others than components.
LEMMA ForkMoves ==
    ASSUME Inv, Owned, NEW o \in Owner \ Component, Fork(o),
           handle' = handle,
           \A c \in Component : c \in launched' <=> c \in launched,
           UNCHANGED runs_in_quick_succession,
           \A c \in Component : aged'[c] = aged[c]
    PROVE  UNCHANGED S!vars /\ Owned'
  <1>1. PICK q \in Proc :
            /\ child[q] = None
            /\ child' = Forked(child, q, o)
            /\ recording' = IF o = App THEN recording ELSE [recording EXCEPT ![q] = o]
            /\ UNCHANGED <<shell_component_pids, doing>>
    BY DEF Fork, Available, Spawn, Forked
  <1>2. child \in Children /\ recording \in Pids
    BY DEF Inv, TypeOK, Children, Pids
  <1>3. /\ child'[q] = [owner |-> o, state |-> "up"]
        /\ \A p \in Proc \ {q} : child'[p] = child[p]
    BY <1>1, <1>2, ForkedType
  <1>4. \A c \in Component : SameIn(c, child, child')
    BY <1>1, <1>3 DEF SameIn, Of
  <1>5. \A c \in Component : Same(c)
    <2>1. Pendings' = Pendings
      BY <1>1 DEF Pendings, Pending, Awaited, At
    <2> QED
      BY <1>4, <2>1, UntouchedSame DEF Untouched
  <1>6. \A p \in Proc : shell_component_pids'[p] \in Component =>
            Waited(p)' \/ Of(shell_component_pids'[p], p, child')
    <2> SUFFICES ASSUME NEW p \in Proc, shell_component_pids[p] \in Component, ~Waited(p)
                 PROVE  Of(shell_component_pids[p], p, child')
      BY <1>1 DEF Waited, At
    <2>1. Of(shell_component_pids[p], p, child)
      BY DEF Owned
    <2> QED
      BY <1>1, <1>3, <2>1 DEF Of
  <1>7. \A p \in Proc : recording'[p] \notin Component
    BY <1>1, <1>2 DEF Owned, Pids
  <1>8. \A c \in Component \ launched' : aged'[c]
    BY DEF Owned
  <1>9. Owned'
    BY <1>6, <1>7, <1>8 DEF Owned
  <1> QED
    BY <1>5, <1>9, Stutters

LEMMA DieMoves ==
    ASSUME Inv, Owned, NEW r \in Proc, Die(r)
    PROVE  (S!Next \/ UNCHANGED S!vars) /\ Owned'
  <1>0. PICK o : o = child[r].owner
    OBVIOUS
  <1>1. PICK s \in {"failed", "done"} :
            /\ child[r] # None /\ child[r].state = "up"
            /\ child' = [child EXCEPT ![r].state = s]
            /\ UNCHANGED <<info, shell_component_pids, recording, launched, doing>>
    BY DEF Die
  <1>2. child \in Children /\ child[r] \in Process /\ TypeOK
    BY <1>1 DEF Inv, TypeOK, Children
  <1>3. /\ child'[r] = [child[r] EXCEPT !.state = s]
        /\ \A p \in Proc \ {r} : child'[p] = child[p]
    BY <1>1, <1>2 DEF Children
  <1>4. child'[r] # None /\ child'[r].owner = o /\ child'[r].state = s
    <2>1. child'[r] \in Process /\ child'[r].owner = o /\ child'[r].state = s
      BY <1>0, <1>2, <1>3 DEF Process
    <2> QED
      BY <2>1, NoneAssumption
  <1>5. Pendings' = Pendings /\ \A p : Waited(p)' <=> Waited(p)
    BY <1>1 DEF Pendings, Pending, Awaited, At, Waited
  <1>6. \A c \in Component \ {o} : Same(c)
    <2>1. \A c \in Component \ {o} : SameIn(c, child, child')
      BY <1>0, <1>3, <1>4 DEF SameIn, Of
    <2> QED
      BY <1>1, <1>5, <2>1, UntouchedSame DEF Untouched, info
  <1>7. Owned'
    <2>1. \A p \in Proc : shell_component_pids'[p] \in Component =>
              Waited(p)' \/ Of(shell_component_pids'[p], p, child')
      BY <1>0, <1>1, <1>3, <1>4, <1>5 DEF Owned, Of
    <2> QED
      BY <1>1, <2>1 DEF Owned, info
  <1>8. CASE o \in Component
    <2>1. /\ \A q \in Proc : Of(o, q, child) => q = r
          /\ o \in launched /\ o \notin handle /\ o \notin Pendings /\ Status(o) = "running"
      BY <1>0, <1>1, <1>8, StatusOne DEF Of
    <2>2. Of(o, r, child') /\ \A q \in Proc : Of(o, q, child') => q = r
      BY <1>3, <1>4, <2>1 DEF Of
    <2>3. o \in launched' /\ o \notin handle' /\ o \notin Pendings'
      BY <1>1, <1>5, <2>1 DEF info
    <2>4. View(o, child', handle', launched', Pendings')
              = IF s = "failed" THEN "failed" ELSE "over"
      BY <1>4, <2>2, <2>3, ViewOne
    <2>5. Status(o)' = IF s = "failed" THEN "failed" ELSE "over"
      BY <1>8, <2>4, StatusIs
    <2>6. Moves(o)
      BY <1>1, <2>1, <2>5 DEF Moves, info
    <2> QED
      BY <1>2, <1>6, <1>7, <1>8, <2>6, Steps
  <1>9. CASE o \notin Component
    BY <1>6, <1>7, <1>9, Stutters
  <1> QED
    BY <1>8, <1>9

LEMMA AgesMoves ==
    ASSUME Inv, Owned, NEW i \in Info, Ages(i)
    PROVE  (S!Next \/ UNCHANGED S!vars) /\ Owned'
  <1>1. /\ aged' = [aged EXCEPT ![i] = TRUE]
        /\ UNCHANGED <<runs_in_quick_succession, handle, child, shell_component_pids,
                       recording, launched, doing>>
    BY DEF Ages, processes, control
  <1>2. TypeOK
    BY DEF Inv
  <1>3. aged'[i] /\ \A c \in Component \ {i} : aged'[c] = aged[c]
    BY <1>1, <1>2, Components DEF TypeOK
  <1>4. Pendings' = Pendings /\ \A p : Waited(p)' <=> Waited(p)
    BY <1>1 DEF Pendings, Pending, Awaited, At, Waited
  <1>5. \A c \in Component \ {i} : Same(c)
    BY <1>1, <1>3, <1>4, UntouchedSame DEF Untouched, SameIn
  <1>6. Owned'
    BY <1>1, <1>3, <1>4 DEF Owned
  <1>7. CASE i \in Component
    <2>1. View(i, child', handle', launched', Pendings')
              = View(i, child, handle, launched, Pendings)
      BY <1>1, <1>4
    <2>2. Status(i)' = Status(i)
      BY <1>7, <2>1, StatusIs
    <2>3. CASE Status(i) \in {"running", "failed"}
      <3>1. Moves(i)
        BY <1>1, <1>3, <2>2, <2>3 DEF Moves
      <3> QED
        BY <1>2, <1>5, <1>6, <1>7, <3>1, Steps
    <2>4. CASE Status(i) \notin {"running", "failed"}
      <3>1. Same(i)
        BY <1>1, <2>2, <2>4 DEF Same
      <3> QED
        BY <1>5, <1>6, <3>1, Stutters
    <2> QED
      BY <2>3, <2>4
  <1>8. CASE i \notin Component
    BY <1>5, <1>6, <1>8, Stutters
  <1> QED
    BY <1>7, <1>8

\* The steps that change no process, no info and nothing of what the main loop
\* is in the middle of.
LEMMA QuietMoves ==
    ASSUME Owned, UNCHANGED <<info, child, launched, doing>>,
           \A p \in Proc : /\ shell_component_pids'[p] \in Component
                                => shell_component_pids'[p] = shell_component_pids[p]
                           /\ recording'[p] \notin Component,
           At("reaped") => /\ doing.pid \in Proc
                           /\ shell_component_pids[doing.pid] \in Component
                                => shell_component_pids'[doing.pid] = shell_component_pids[doing.pid]
    PROVE  UNCHANGED S!vars /\ Owned'
  <1>1. \A c \in Component : c \in Pendings' <=> c \in Pendings
    BY DEF Pendings, Pending, Awaited, At
  <1>2. \A c \in Component : Same(c)
    BY <1>1, UntouchedSame DEF Untouched, SameIn, info
  <1>3. \A p : Waited(p)' <=> Waited(p)
    BY DEF Waited, At
  <1>4. Owned'
    BY <1>3 DEF Owned, info
  <1> QED
    BY <1>2, <1>4, Stutters

\* So does a timer, asked or refused.
LEMMA TimerFiresMoves ==
    ASSUME Inv, Owned, NEW i \in Info, TimerFires(i)
    PROVE  UNCHANGED S!vars /\ Owned'
  <1>1. /\ doing = None
        /\ doing' = IF should_restart_predicate(i)
                    THEN [at |-> "relaunch", info |-> i] ELSE None
        /\ UNCHANGED <<info, child, shell_component_pids, recording, launched>>
    BY DEF TimerFires, MainLoopIdle, processes, control
  <1>2. Pendings = {} /\ Pendings' = {}
    <2>1. CASE doing' = None
      BY <1>1, <2>1, NonePending
    <2>2. CASE doing' = [at |-> "relaunch", info |-> i]
      <3>1. doing'.at = "relaunch"
        BY <2>2, DoingHandling
      <3> QED
        BY <1>1, <3>1, NonePending DEF Pendings, Pending, Awaited, At
    <2> QED
      BY <1>1, <2>1, <2>2
  <1>3. \A c \in Component : Same(c)
    BY <1>1, <1>2, UntouchedSame DEF Untouched, SameIn, info
  <1>4. OwnedPids(child', shell_component_pids')
    BY <1>1, OwnedIs DEF At
  <1>5. Owned'
    BY <1>1, <1>4, OwnedIs DEF Owned, info
  <1> QED
    BY <1>3, <1>5, Stutters
-----------------------------------------------------------------------------
LEMMA InitSupervisor == Init => S!Init /\ Owned
  <1> SUFFICES ASSUME Init PROVE S!Init /\ Owned
    OBVIOUS
  <1>1. Owned
    BY Components DEF Init, Owned, Info
  <1>2. \A c \in Component : Status(c) = "new" /\ runs_in_quick_succession[c] = 0
    BY Components DEF Init, Status
  <1>3. S!Init
    BY <1>2 DEF S!Init
  <1> QED
    BY <1>1, <1>3

LEMMA NextSupervisor ==
    Inv /\ Owned /\ [Next]_vars => (S!Next \/ UNCHANGED S!vars) /\ Owned'
  <1> SUFFICES ASSUME Inv, Owned, [Next]_vars
               PROVE  (S!Next \/ UNCHANGED S!vars) /\ Owned'
    OBVIOUS
  <1> DEFINE Goal == (S!Next \/ UNCHANGED S!vars) /\ Owned'
  <1>0. At("reaped") => doing.pid \in Proc
    BY DoingIs DEF Inv
  <1>1. ASSUME NEW c \in Component, LaunchComponent(c) PROVE Goal
    BY <1>1, LaunchComponentMoves
  <1>2. CASE HandleSignal
    BY <1>0, <1>2, QuietMoves DEF HandleSignal, processes, Owned
  <1>3. ASSUME NEW p \in Proc, Reap(p) PROVE Goal
    BY <1>3, ReapMoves
  <1>4. CASE Lookup \/ OnReap \/ Launch \/ Relaunch
    BY <1>4, LookupMoves, OnReapMoves, LaunchMoves, RelaunchMoves
  <1>5. CASE ReapEnd
    BY <1>0, <1>5, QuietMoves DEF ReapEnd, processes, Owned
  <1>6. ASSUME NEW i \in Info, TimerFires(i) PROVE Goal
    BY <1>6, TimerFiresMoves
  <1>7. CASE Shutdown
    <2>1. ~At("reaped")
      BY <1>7 DEF Shutdown, MainLoopIdle, At
    <2> QED
      BY <1>7, <2>1, QuietMoves, Components DEF Shutdown, Owned
  <1>8. ASSUME NEW o \in {Shell, App}, Press(o) PROVE Goal
    <2>1. o \in Owner \ Component
      BY OwnersDiffer, Components DEF Owner
    <2>2. Fork(o) /\ UNCHANGED <<info, launched>>
      BY <1>8 DEF Press
    <2> QED
      BY <2>1, <2>2, ForkMoves DEF info
  <1>9. ASSUME NEW p \in Proc, Insert(p) PROVE Goal
    <2>1. /\ recording[p] \notin Component
          /\ recording[p] \in Info \cup {Shell}
          /\ shell_component_pids' = insert(shell_component_pids, p, recording[p])
          /\ recording' = [recording EXCEPT ![p] = None]
          /\ UNCHANGED <<info, child, launched, doing>>
      BY <1>9 DEF Insert, Owned, Inv, TypeOK, control
    <2>2. shell_component_pids \in Pids /\ recording \in Pids
      BY DEF Inv, TypeOK, Pids
    <2>3. \A q \in Proc :
              /\ shell_component_pids'[q] \in Component
                    => shell_component_pids'[q] = shell_component_pids[q]
              /\ shell_component_pids[q] \in Component
                    => shell_component_pids'[q] = shell_component_pids[q]
      BY <2>1, <2>2, InsertType, Components DEF insert, Pids
    <2>4. \A q \in Proc : recording'[q] \notin Component
      BY <2>1, <2>2, Components DEF Owned, Pids
    <2> QED
      BY <1>0, <2>1, <2>3, <2>4, QuietMoves
  <1>10. ASSUME NEW l \in LockInfo, Lock(l) \/ Idle(l) PROVE Goal
    <2>1. l \in Owner \ Component /\ l \in Info
      BY OwnerAssumption DEF Owner, Info
    <2>2. /\ Fork(l) /\ launched' = launched \cup {l}
          /\ aged' = [aged EXCEPT ![l] = FALSE]
          /\ UNCHANGED <<runs_in_quick_succession, handle>>
      BY <1>10 DEF Lock, Idle, launch_lockscreen
    <2>3. \A c \in Component : aged'[c] = aged[c] /\ (c \in launched' <=> c \in launched)
      BY <2>1, <2>2, Components DEF Inv, TypeOK
    <2> QED
      BY <2>1, <2>2, <2>3, ForkMoves
  <1>11. CASE Unlock
    BY <1>0, <1>11, QuietMoves DEF Unlock, processes, Owned
  <1>12. ASSUME NEW p \in Proc, Die(p) PROVE Goal
    BY <1>12, DieMoves
  <1>13. ASSUME NEW i \in Info, Ages(i) PROVE Goal
    BY <1>13, AgesMoves
  <1>14. CASE UNCHANGED vars
    BY <1>0, <1>14, QuietMoves DEF vars, info, processes, control, Owned
  <1> QED
    BY <1>1, <1>2, <1>3, <1>4, <1>5, <1>6, <1>7, <1>8, <1>9, <1>10, <1>11,
       <1>12, <1>13, <1>14 DEF Next

\* For its components, child control implements Supervisor, with pids used again,
\* deaths that one SIGCHLD stands for and inserts that come late, or between
\* waitpid and the lookup of the pid that it has freed.
THEOREM Refinement == Spec => ImplementsSupervisor
  <1>1. Init => S!Init /\ Owned /\ Inv
    BY InitSupervisor, InitInv, InvIs
  <1>2. Inv /\ Owned /\ [Next]_vars => Inv' /\ Owned' /\ [S!Next]_(S!vars)
    BY NextInv, NextSupervisor, InvIs, InvIsNext
  <1> QED
    BY <1>1, <1>2, PTL DEF Spec, ImplementsSupervisor, S!Spec
=============================================================================
