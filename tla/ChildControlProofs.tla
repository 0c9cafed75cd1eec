------------------------- MODULE ChildControlProofs -------------------------
(***************************************************************************)
(* ChildControl: types, one process for each command, and shell processes  *)
(* that stay recorded, for any commands, pids and shortcuts.               *)
(*                                                                         *)
(* The lemmas of the first part say what the operations on the kernel's    *)
(* and the code's tables do, given the tables as arguments: a table with   *)
(* prime is then one more argument.  The kernel's table is Known, without  *)
(* the processes whose pid was handed out early: what the invariant says   *)
(* of a command it says but for these.  The second part has a lemma for    *)
(* each action, and the theorems.                                          *)
(***************************************************************************)
EXTENDS ChildControl, FiniteSetTheorems, TLAPS

Children == [Proc -> Process \cup {None}]
Pids == [Proc -> Info \cup {Shell, None}]
Known == [p \in Proc |-> IF p \in early THEN None ELSE child[p]]
Forked(ch, p, o) == [ch EXCEPT ![p] = [owner |-> o, state |-> "up"]]

\* Does anything in the tables know p as a pid of i?
Has(i, p, ch, pd, rc) ==
    pd[p] = i \/ rc[p] = i \/ (ch[p] # None /\ ch[p].owner = i)
NoTrace(i, ch, pd, rc) == \A p \in Proc : ~Has(i, p, ch, pd, rc)

\* OneTrace and Fresh, but for what on_reap is about to launch.
Sound(ch, pd, rc, hd, ln) ==
    /\ \A i \in Info : \A p, q \in Proc :
          Has(i, p, ch, pd, rc) /\ Has(i, q, ch, pd, rc) => p = q
    /\ \A i \in hd : NoTrace(i, ch, pd, rc)
    /\ \A p, q \in Proc : pd[p] \in Info => rc[q] # pd[p]
    /\ \A i \in Info \ ln : NoTrace(i, ch, pd, rc) /\ i \notin hd

\* StaysRecorded, before the stop callback.
Recorded(ch, pd, rc) ==
    \A p \in Proc :
        (ch[p] # None /\ ch[p].owner # App /\ ch[p].state = "up" /\ rc[p] = None)
            => pd[p] # None
-----------------------------------------------------------------------------
\* The operators of shell commands and of the tables' entries differ.
LEMMA OwnersDiffer ==
    /\ None \notin Info /\ Shell \notin Info /\ App \notin Info
    /\ None # Shell /\ None # App /\ Shell # App
  BY OwnerAssumption

\* A process is forked for o, and its pid is in the table, or will be.
LEMMA ForkedType ==
    ASSUME NEW ch \in Children, NEW q \in Proc, NEW o \in Owner
    PROVE  /\ Forked(ch, q, o) \in Children
           /\ Forked(ch, q, o)[q] = [owner |-> o, state |-> "up"]
           /\ \A p \in Proc \ {q} : Forked(ch, q, o)[p] = ch[p]
  BY DEF Forked, Children, Process

LEMMA InsertType ==
    ASSUME NEW pd \in Pids, NEW q \in Proc, NEW o \in Info \cup {Shell}
    PROVE  /\ insert(pd, q, o) \in Pids
           /\ insert(pd, q, o)[q] # None
           /\ insert(pd, q, o)[q] \in {pd[q], o}
           /\ \A p \in Proc \ {q} : insert(pd, q, o)[p] = pd[p]
  BY OwnersDiffer DEF insert, Pids

\* The main loop launches a command that has no trace.
LEMMA LaunchSound ==
    ASSUME NEW ch \in Children, NEW pd \in Pids, NEW rc \in Pids,
           NEW hd \in SUBSET Info, NEW ln \in SUBSET Info,
           Sound(ch, pd, rc, hd, ln), Recorded(ch, pd, rc),
           NEW i \in ln, NoTrace(i, ch, pd, rc),
           NEW q \in Proc, ch[q] = None, rc[q] = None
    PROVE  /\ Sound(Forked(ch, q, i), insert(pd, q, i), rc, hd \ {i}, ln)
           /\ Recorded(Forked(ch, q, i), insert(pd, q, i), rc)
  <1> DEFINE ch2 == Forked(ch, q, i)
             pd2 == insert(pd, q, i)
  <1>1. /\ ch2[q] = [owner |-> i, state |-> "up"]
        /\ \A p \in Proc \ {q} : ch2[p] = ch[p]
    BY ForkedType DEF Owner
  <1>2. /\ pd2[q] # None /\ pd2[q] \in {pd[q], i}
        /\ \A p \in Proc \ {q} : pd2[p] = pd[p]
    BY InsertType
  <1> HIDE DEF ch2, pd2
  <1>3. \A j \in Info \ {i} : \A p \in Proc : Has(j, p, ch2, pd2, rc) => Has(j, p, ch, pd, rc)
    BY <1>1, <1>2 DEF Has
  <1>4. \A p \in Proc : Has(i, p, ch2, pd2, rc) => p = q
    BY <1>1, <1>2 DEF Has, NoTrace
  <1>5. \A p \in Proc : rc[p] # i
    BY DEF NoTrace, Has
  <1>6. Sound(ch2, pd2, rc, hd \ {i}, ln)
    <2>1. \A j \in Info : \A p, r \in Proc :
              Has(j, p, ch2, pd2, rc) /\ Has(j, r, ch2, pd2, rc) => p = r
      BY <1>3, <1>4 DEF Sound
    <2>2. \A j \in hd \ {i} : NoTrace(j, ch2, pd2, rc)
      BY <1>3 DEF Sound, NoTrace
    <2>3. \A p, r \in Proc : pd2[p] \in Info => rc[r] # pd2[p]
      BY <1>2, <1>5 DEF Sound
    <2>4. \A j \in Info \ ln : NoTrace(j, ch2, pd2, rc) /\ j \notin hd \ {i}
      BY <1>3 DEF Sound, NoTrace
    <2> QED
      BY <2>1, <2>2, <2>3, <2>4 DEF Sound
  <1>7. Recorded(ch2, pd2, rc)
    BY <1>1, <1>2 DEF Recorded
  <1> QED
    BY <1>6, <1>7 DEF ch2, pd2

\* waitpid frees a pid.
LEMMA WaitSound ==
    ASSUME NEW ch \in Children, NEW pd \in Pids, NEW rc \in Pids,
           NEW hd \in SUBSET Info, NEW ln \in SUBSET Info,
           Sound(ch, pd, rc, hd, ln), NEW r \in Proc, NEW ch2 \in Children,
           ch2[r] = None, \A p \in Proc \ {r} : ch2[p] = ch[p]
    PROVE  /\ Sound(ch2, pd, rc, hd, ln)
           /\ Recorded(ch, pd, rc) => Recorded(ch2, pd, rc)
  <1>1. \A j \in Info : \A p \in Proc : Has(j, p, ch2, pd, rc) => Has(j, p, ch, pd, rc)
    BY DEF Has
  <1>2. \A j \in Info : NoTrace(j, ch, pd, rc) => NoTrace(j, ch2, pd, rc)
    BY <1>1 DEF NoTrace
  <1>3. Sound(ch2, pd, rc, hd, ln)
    <2>1. \A j \in Info : \A p, q \in Proc :
              Has(j, p, ch2, pd, rc) /\ Has(j, q, ch2, pd, rc) => p = q
      BY <1>1 DEF Sound
    <2>2. \A j \in hd : NoTrace(j, ch2, pd, rc)
      BY <1>2 DEF Sound
    <2>3. \A j \in Info \ ln : NoTrace(j, ch2, pd, rc) /\ j \notin hd
      BY <1>2 DEF Sound
    <2> QED
      BY <2>1, <2>2, <2>3 DEF Sound
  <1>4. Recorded(ch, pd, rc) => Recorded(ch2, pd, rc)
    BY DEF Recorded
  <1> QED
    BY <1>3, <1>4

\* reap() erases the entry of a pid that it has waited for.  When the entry was
\* that of a command, the command has no trace left.
LEMMA EraseSound ==
    ASSUME NEW ch \in Children, NEW pd \in Pids, NEW rc \in Pids,
           NEW hd \in SUBSET Info, NEW ln \in SUBSET Info,
           Sound(ch, pd, rc, hd, ln), NEW r \in Proc, ch[r] = None
    PROVE  /\ [pd EXCEPT ![r] = None] \in Pids
           /\ Sound(ch, [pd EXCEPT ![r] = None], rc, hd, ln)
           /\ Recorded(ch, pd, rc) => Recorded(ch, [pd EXCEPT ![r] = None], rc)
           /\ pd[r] \in Info =>
                /\ NoTrace(pd[r], ch, [pd EXCEPT ![r] = None], rc)
                /\ pd[r] \notin hd /\ pd[r] \in ln
  <1> DEFINE pd2 == [pd EXCEPT ![r] = None]
  <1>1. /\ pd2 \in Pids /\ pd2[r] = None
        /\ \A p \in Proc \ {r} : pd2[p] = pd[p]
    BY DEF Pids
  <1> HIDE DEF pd2
  <1>2. \A j \in Info : \A p \in Proc : Has(j, p, ch, pd2, rc) => Has(j, p, ch, pd, rc)
    BY <1>1, OwnersDiffer DEF Has
  <1>3. Sound(ch, pd2, rc, hd, ln)
    <2>1. \A j \in Info : \A p, q \in Proc :
              Has(j, p, ch, pd2, rc) /\ Has(j, q, ch, pd2, rc) => p = q
      BY <1>2 DEF Sound
    <2>2. \A j \in hd : NoTrace(j, ch, pd2, rc)
      BY <1>2 DEF Sound, NoTrace
    <2>3. \A p, q \in Proc : pd2[p] \in Info => rc[q] # pd2[p]
      BY <1>1, OwnersDiffer DEF Sound
    <2>4. \A j \in Info \ ln : NoTrace(j, ch, pd2, rc) /\ j \notin hd
      BY <1>2 DEF Sound, NoTrace
    <2> QED
      BY <2>1, <2>2, <2>3, <2>4 DEF Sound
  <1>4. Recorded(ch, pd, rc) => Recorded(ch, pd2, rc)
    BY <1>1 DEF Recorded
  <1>5. ASSUME pd[r] \in Info
        PROVE  NoTrace(pd[r], ch, pd2, rc) /\ pd[r] \notin hd /\ pd[r] \in ln
    <2>1. Has(pd[r], r, ch, pd, rc)
      BY DEF Has
    <2>2. pd[r] \notin hd /\ pd[r] \in ln
      BY <1>5, <2>1 DEF Sound, NoTrace
    <2>3. \A p \in Proc : Has(pd[r], p, ch, pd, rc) => p = r
      BY <1>5, <2>1 DEF Sound
    <2>4. ~Has(pd[r], r, ch, pd2, rc)
      BY <1>1, <1>5, OwnersDiffer DEF Has, Sound
    <2> QED
      BY <1>2, <1>5, <2>2, <2>3, <2>4 DEF NoTrace
  <1> QED
    BY <1>1, <1>3, <1>4, <1>5 DEF pd2

\* Another thread forks a process for o, to be inserted unless it is an app.
\* The process is not among those known when its pid was handed out early.
LEMMA ForkSound ==
    ASSUME NEW ch \in Children, NEW ch2 \in Children,
           NEW pd \in Pids, NEW rc \in Pids, NEW rc2 \in Pids,
           NEW hd \in SUBSET Info, NEW ln \in SUBSET Info, NEW ln2 \in SUBSET Info,
           Sound(ch, pd, rc, hd, ln),
           NEW o \in Owner, NEW q \in Proc, ch[q] = None, rc[q] = None,
           rc2 = (IF o = App THEN rc ELSE [rc EXCEPT ![q] = o]),
           \A p \in Proc \ {q} : ch2[p] = ch[p],
           ch2[q] \in {None, [owner |-> o, state |-> "up"]},
           o \in Info => NoTrace(o, ch, pd, rc) /\ o \notin hd,
           ln2 = ln \cup ({o} \cap Info)
    PROVE  Sound(ch2, pd, rc2, hd, ln2)
  <1>1. /\ ch2[q] # None => ch2[q].owner = o
        /\ \A p \in Proc \ {q} : ch2[p] = ch[p]
    OBVIOUS
  <1>2. /\ \A p \in Proc \ {q} : rc2[p] = rc[p]
        /\ o # App => rc2[q] = o
        /\ o = App => rc2 = rc
    BY DEF Pids
  <1>3. \A j \in Info \ {o} : \A p \in Proc : Has(j, p, ch2, pd, rc2) => Has(j, p, ch, pd, rc)
    BY <1>1, <1>2 DEF Has
  <1>4. o \in Info => \A p \in Proc : Has(o, p, ch2, pd, rc2) => p = q
    BY <1>1, <1>2 DEF Has, NoTrace
  <1> QED
    <2>1. ASSUME NEW j \in Info, NEW p \in Proc, NEW r \in Proc,
                 Has(j, p, ch2, pd, rc2), Has(j, r, ch2, pd, rc2)
          PROVE  p = r
      <3>1. CASE j = o
        BY <1>4, <2>1, <3>1
      <3>2. CASE j # o
        BY <1>3, <2>1, <3>2 DEF Sound
      <3> QED
        BY <3>1, <3>2
    <2>2. \A j \in hd : NoTrace(j, ch2, pd, rc2)
      BY <1>3 DEF Sound, NoTrace
    <2>3. \A p, r \in Proc : pd[p] \in Info => rc2[r] # pd[p]
      <3> SUFFICES ASSUME NEW p \in Proc, NEW r \in Proc, pd[p] \in Info
                   PROVE  rc2[r] # pd[p]
        OBVIOUS
      <3>1. CASE r = q /\ o # App
        BY <1>2, <3>1, OwnersDiffer DEF NoTrace, Has
      <3>2. CASE ~(r = q /\ o # App)
        BY <1>2, <3>2 DEF Sound
      <3> QED
        BY <3>1, <3>2
    <2>4. \A j \in Info \ ln2 : NoTrace(j, ch2, pd, rc2) /\ j \notin hd
      BY <1>3 DEF Sound, NoTrace
    <2> QED
      BY <2>1, <2>2, <2>3, <2>4 DEF Sound

\* The other thread inserts the pid that it has forked.
LEMMA InsertSound ==
    ASSUME NEW ch \in Children, NEW pd \in Pids, NEW rc \in Pids,
           NEW hd \in SUBSET Info, NEW ln \in SUBSET Info,
           Sound(ch, pd, rc, hd, ln), Recorded(ch, pd, rc),
           NEW q \in Proc, rc[q] # None
    PROVE  /\ [rc EXCEPT ![q] = None] \in Pids
           /\ Sound(ch, insert(pd, q, rc[q]), [rc EXCEPT ![q] = None], hd, ln)
           /\ Recorded(ch, insert(pd, q, rc[q]), [rc EXCEPT ![q] = None])
  <1> DEFINE rc2 == [rc EXCEPT ![q] = None]
             pd2 == insert(pd, q, rc[q])
  <1>1. /\ rc2 \in Pids /\ rc2[q] = None
        /\ \A p \in Proc \ {q} : rc2[p] = rc[p]
    BY DEF Pids
  <1>2. /\ pd2[q] # None /\ pd2[q] \in {pd[q], rc[q]}
        /\ \A p \in Proc \ {q} : pd2[p] = pd[p]
    <2>1. rc[q] \in Info \cup {Shell}
      BY DEF Pids
    <2> QED
      BY <2>1, InsertType
  <1> HIDE DEF rc2, pd2
  <1>3. \A j \in Info : \A p \in Proc : Has(j, p, ch, pd2, rc2) => Has(j, p, ch, pd, rc)
    BY <1>1, <1>2, OwnersDiffer DEF Has
  <1>4. Sound(ch, pd2, rc2, hd, ln)
    <2>1. \A j \in Info : \A p, r \in Proc :
              Has(j, p, ch, pd2, rc2) /\ Has(j, r, ch, pd2, rc2) => p = r
      BY <1>3 DEF Sound
    <2>2. \A j \in hd : NoTrace(j, ch, pd2, rc2)
      BY <1>3 DEF Sound, NoTrace
    <2>3. \A p, r \in Proc : pd2[p] \in Info => rc2[r] # pd2[p]
      <3> SUFFICES ASSUME NEW p \in Proc, NEW r \in Proc, pd2[p] \in Info,
                          rc2[r] = pd2[p]
                   PROVE  FALSE
        OBVIOUS
      <3>1. r # q /\ rc2[r] = rc[r]
        BY <1>1, OwnersDiffer
      <3>2. CASE pd2[p] = pd[p]
        BY <3>1, <3>2 DEF Sound
      <3>3. CASE pd2[p] # pd[p]
        <4>1. p = q /\ pd2[p] = rc[q]
          BY <1>2, <3>3
        <4>2. Has(rc[q], q, ch, pd, rc) /\ Has(rc[q], r, ch, pd, rc)
          BY <3>1, <4>1 DEF Has
        <4> QED
          BY <3>1, <4>1, <4>2 DEF Sound
      <3> QED
        BY <3>2, <3>3
    <2>4. \A j \in Info \ ln : NoTrace(j, ch, pd2, rc2) /\ j \notin hd
      BY <1>3 DEF Sound, NoTrace
    <2> QED
      BY <2>1, <2>2, <2>3, <2>4 DEF Sound
  <1>5. Recorded(ch, pd2, rc2)
    BY <1>1, <1>2 DEF Recorded
  <1> QED
    BY <1>1, <1>4, <1>5 DEF rc2, pd2

\* Its timer is registered for a command that has no trace.
LEMMA PauseSound ==
    ASSUME NEW ch \in Children, NEW pd \in Pids, NEW rc \in Pids,
           NEW hd \in SUBSET Info, NEW ln \in SUBSET Info,
           Sound(ch, pd, rc, hd, ln), NEW i \in ln, NoTrace(i, ch, pd, rc)
    PROVE  Sound(ch, pd, rc, hd \cup {i}, ln)
  BY DEF Sound
-----------------------------------------------------------------------------
\* What the main loop may be in the middle of.
LEMMA DoingIs ==
    ASSUME TypeOK
    PROVE  /\ At("reaped") => /\ doing \in Reaped /\ doing.pid \in Proc
                              /\ doing.was \in Process
           /\ (At("on_reap") \/ At("launch") \/ At("relaunch"))
                  => doing \in Handling /\ doing.info \in Info
           /\ At("reaped") => ~(At("on_reap") \/ At("launch") \/ At("relaunch"))
           /\ At("relaunch") => ~(At("on_reap") \/ At("launch"))
           /\ doing = None => ~(At("reaped") \/ At("on_reap") \/ At("launch") \/ At("relaunch"))
  BY DEF TypeOK, At, Reaped, Handling

\* When it has nothing pending.
LEMMA DoingNone ==
    ASSUME doing' = None
    PROVE  /\ ~At("reaped")' /\ ~At("on_reap")' /\ ~At("launch")' /\ ~At("relaunch")'
           /\ \A i : ~Awaited(i)'
           /\ Late'
  BY DEF At, Awaited, Late

\* When it has waited for p, and when it is handling a command.
LEMMA DoingReaped ==
    ASSUME NEW p \in Proc, NEW x \in Process,
           doing' = [at |-> "reaped", pid |-> p, was |-> x]
    PROVE  /\ doing' \in Reaped /\ At("reaped")' /\ doing'.pid = p /\ doing'.was = x
           /\ ~At("on_reap")' /\ ~At("launch")' /\ ~At("relaunch")'
           /\ \A i : ~Awaited(i)'
           /\ Late'
  <1>1. doing' \in Reaped /\ doing'.at = "reaped" /\ doing'.pid = p /\ doing'.was = x
    BY DEF Reaped
  <1>2. doing' # None
    BY <1>1, NoneAssumption
  <1> QED
    BY <1>1, <1>2 DEF At, Awaited, Late

LEMMA DoingHandling ==
    ASSUME NEW i \in Info, NEW place \in {"on_reap", "launch", "relaunch"},
           doing' = [at |-> place, info |-> i]
    PROVE  /\ doing' \in Handling /\ doing' # None
           /\ doing'.at = place /\ doing'.info = i /\ ~At("reaped")'
  <1>1. doing' \in Handling /\ doing'.at = place /\ doing'.info = i
    BY DEF Handling
  <1>2. doing' # None
    BY <1>1, NoneAssumption
  <1> QED
    BY <1>1, <1>2 DEF At

\* The process that is not known has a pid that was handed out early.
LEMMA KnownIs ==
    ASSUME TypeOK
    PROVE  /\ Known \in Children
           /\ \A p \in Proc : Known[p] = IF p \in early THEN None ELSE child[p]
  BY DEF Known, TypeOK, Children

\* In terms of the tables.
LEMMA TracesAre ==
    /\ \A i, p : p \in Traces(i)
            <=> p \in Proc /\ Has(i, p, Known, shell_component_pids, recording)
    /\ \A i : Traces(i) = {} <=> NoTrace(i, Known, shell_component_pids, recording)
  <1>1. \A i, p : p \in Traces(i)
            <=> p \in Proc /\ Has(i, p, Known, shell_component_pids, recording)
    BY DEF Traces, Has, Known
  <1>2. \A i : Traces(i) = {} <=> NoTrace(i, Known, shell_component_pids, recording)
    BY <1>1 DEF NoTrace
  <1> QED
    BY <1>1, <1>2

LEMMA TracesAreNext ==
    /\ \A i, p : p \in Traces(i)'
            <=> p \in Proc /\ Has(i, p, Known', shell_component_pids', recording')
    /\ \A i : Traces(i)' = {} <=> NoTrace(i, Known', shell_component_pids', recording')
  <1>1. \A i, p : p \in Traces(i)'
            <=> p \in Proc /\ Has(i, p, Known', shell_component_pids', recording')
    BY DEF Traces, Has, Known
  <1>2. \A i : Traces(i)' = {} <=> NoTrace(i, Known', shell_component_pids', recording')
    BY <1>1 DEF NoTrace
  <1> QED
    BY <1>1, <1>2
-----------------------------------------------------------------------------
\* The tables, with what on_reap is about to launch: the conjuncts of IInv that
\* speak of them.
Tables ==
    /\ Sound(Known, shell_component_pids, recording, handle, launched)
    /\ \A i \in Info : Awaited(i) =>
          NoTrace(i, Known, shell_component_pids, recording) /\ i \in launched
    /\ stopped \/ Recorded(Known, shell_component_pids, recording)

\* The inductive invariant in terms of the tables.
Inv ==
    /\ TypeOK
    /\ Tables
    /\ Allowed
    /\ Early
    /\ Late
    /\ OneLateAtMost
    /\ Finished

LEMMA InvIs == IInv <=> Inv
  <1>1. TypeOK => (OneTrace /\ Fresh
            <=> /\ Sound(Known, shell_component_pids, recording, handle, launched)
                /\ \A i \in Info : Awaited(i) =>
                      NoTrace(i, Known, shell_component_pids, recording) /\ i \in launched)
    BY TracesAre DEF TypeOK, OneTrace, Fresh, Sound
  <1>2. Early => (StaysRecorded
            <=> stopped \/ Recorded(Known, shell_component_pids, recording))
    BY DEF Early, StaysRecorded, Recorded, Known, is_found
  <1> QED
    BY <1>1, <1>2 DEF IInv, Inv, Tables

\* The same of the next state.
LEMMA InvIsNext == IInv' <=> Inv'
  <1>1. TypeOK' => (OneTrace' /\ Fresh'
            <=> /\ Sound(Known', shell_component_pids', recording', handle', launched')
                /\ \A i \in Info : Awaited(i)' =>
                      NoTrace(i, Known', shell_component_pids', recording') /\ i \in launched')
    BY TracesAreNext DEF TypeOK, OneTrace, Fresh, Sound
  <1>2. Early' => (StaysRecorded'
            <=> stopped' \/ Recorded(Known', shell_component_pids', recording'))
    BY DEF Early, StaysRecorded, Recorded, Known, is_found
  <1> QED
    BY <1>1, <1>2 DEF IInv, Inv, Tables

\* A step that leaves the tables alone, and has nothing new launched by on_reap.
LEMMA TablesSame ==
    ASSUME Tables, UNCHANGED <<child, shell_component_pids, recording, early, handle, stopped>>,
           launched' = launched,
           \A i \in Info : Awaited(i)' => Awaited(i)
    PROVE  Tables'
  <1>1. Known' = Known
    BY DEF Known
  <1> QED
    BY <1>1 DEF Tables

\* The main loop launches a command that has no trace: its process is known.
LEMMA LaunchAndInsertSound ==
    ASSUME TypeOK, Early, launched' \in SUBSET Info, NEW i \in launched',
           Sound(Known, shell_component_pids, recording, handle, launched'),
           Recorded(Known, shell_component_pids, recording),
           NoTrace(i, Known, shell_component_pids, recording),
           LaunchAndInsert(i), UNCHANGED <<recording, early>>,
           handle' = handle \/ handle' = handle \ {i}, i \notin handle'
    PROVE  /\ child' \in Children /\ shell_component_pids' \in Pids
           /\ \A p \in Proc : child[p] # None => child'[p] = child[p]
           /\ Sound(Known', shell_component_pids', recording', handle', launched')
           /\ Recorded(Known', shell_component_pids', recording')
  <1>1. PICK q \in Proc :
            /\ child[q] = None /\ recording[q] = None
            /\ child' = Forked(child, q, i)
            /\ shell_component_pids' = insert(shell_component_pids, q, i)
    BY DEF LaunchAndInsert, Available, Spawn, Forked
  <1>2. /\ child \in Children /\ shell_component_pids \in Pids /\ recording \in Pids
        /\ handle \in SUBSET Info /\ handle' = handle \ {i} /\ i \in Owner
    BY DEF TypeOK, Children, Pids, Owner
  <1>3. /\ child' \in Children /\ shell_component_pids' \in Pids
        /\ child'[q] = [owner |-> i, state |-> "up"]
        /\ \A p \in Proc \ {q} : child'[p] = child[p]
    BY <1>1, <1>2, ForkedType, InsertType
  <1>4. q \notin early
    BY <1>1 DEF Early
  <1>5. Known \in Children /\ Known[q] = None
    BY <1>1, KnownIs
  <1>6. Known' = Forked(Known, q, i)
    BY <1>3, <1>4 DEF Known, Forked
  <1>7. /\ Sound(Forked(Known, q, i), insert(shell_component_pids, q, i), recording,
                 handle \ {i}, launched')
        /\ Recorded(Forked(Known, q, i), insert(shell_component_pids, q, i), recording)
    BY <1>1, <1>2, <1>5, LaunchSound
  <1> QED
    BY <1>1, <1>2, <1>3, <1>6, <1>7

\* shell_launch of a command that has no trace, by a main loop that is then in
\* the middle of nothing.
LEMMA ShellLaunchSound ==
    ASSUME TypeOK, Allowed, Early, launched' \in SUBSET Info, NEW i \in launched',
           i \notin handle, doing' = None, ~stopped,
           Sound(Known, shell_component_pids, recording, handle, launched'),
           Recorded(Known, shell_component_pids, recording),
           NoTrace(i, Known, shell_component_pids, recording),
           shell_launch(i),
           UNCHANGED <<recording, is_locked, sigchld, reaping, stopped, presses, early>>,
           late' \in 0 .. 1
    PROVE  Inv'
  <1>0. /\ ~At("reaped")' /\ ~At("on_reap")' /\ ~At("launch")' /\ ~At("relaunch")'
        /\ \A j : ~Awaited(j)'
        /\ Late'
    BY DoingNone
  <1>1. CASE aged[i] /\ LaunchAndInsert(i)
             /\ runs_in_quick_succession' = [runs_in_quick_succession EXCEPT ![i] = 0]
             /\ aged' = [aged EXCEPT ![i] = FALSE]
             /\ UNCHANGED <<handle, abandoned>>
    <2>1. /\ child' \in Children /\ shell_component_pids' \in Pids
          /\ \A p \in Proc : child[p] # None => child'[p] = child[p]
          /\ Sound(Known', shell_component_pids', recording', handle', launched')
          /\ Recorded(Known', shell_component_pids', recording')
      BY <1>1, LaunchAndInsertSound
    <2>2. TypeOK'
      BY <1>1, <2>1 DEF TypeOK, Children, Pids, max_too_short_reruns_in_a_row
    <2>3. Allowed'
      BY <1>0, <1>1 DEF Allowed, GivesUp, TypeOK, max_too_short_reruns_in_a_row
    <2>4. Early'
      BY <1>0, <2>1 DEF Early, TypeOK
    <2> QED
      BY <1>0, <2>1, <2>2, <2>3, <2>4 DEF Inv, Tables, OneLateAtMost, Finished
  <1>2. CASE WaitOrGiveUp(i) /\ UNCHANGED <<child, shell_component_pids, aged>>
    <2>1. handle' = handle \/ (~GivesUp(i) /\ handle' = handle \cup {i})
      BY <1>2 DEF WaitOrGiveUp
    <2>2. /\ UNCHANGED runs_in_quick_succession
          /\ abandoned' \in {abandoned, abandoned \cup ({i} \cap Component)}
      BY <1>2 DEF WaitOrGiveUp
    <2>3. TypeOK'
      BY <1>2, <2>1, <2>2 DEF TypeOK, Info
    <2>4. /\ Sound(Known', shell_component_pids', recording', handle', launched')
          /\ Recorded(Known', shell_component_pids', recording')
      <3>1. /\ recording \in Pids /\ shell_component_pids \in Pids
            /\ handle \in SUBSET Info /\ Known \in Children
        BY KnownIs DEF TypeOK, Pids
      <3>2. Sound(Known, shell_component_pids, recording, handle', launched')
        BY <2>1, <3>1, PauseSound
      <3>3. Known' = Known
        BY <1>2 DEF Known
      <3> QED
        BY <1>2, <3>2, <3>3
    <2>5. Allowed'
      BY <1>0, <2>1, <2>2 DEF Allowed, GivesUp
    <2>6. Early'
      BY <1>0, <1>2 DEF Early
    <2> QED
      BY <1>0, <2>3, <2>4, <2>5, <2>6 DEF Inv, Tables, OneLateAtMost, Finished
  <1> QED
    BY <1>1, <1>2 DEF shell_launch
-----------------------------------------------------------------------------
\* One lemma for each action.

LEMMA LaunchComponentStep ==
    ASSUME Inv, NEW c \in Component, LaunchComponent(c)
    PROVE  Inv'
  <1>1. /\ ~stopped /\ doing = None /\ c \in Info \ launched
        /\ launched' = launched \cup {c}
        /\ shell_launch(c)
        /\ UNCHANGED <<recording, is_locked, sigchld, reaping, stopped, presses>>
        /\ UNCHANGED <<doing, early, late>>
    BY DEF LaunchComponent, Info
  <1>2. launched' \in SUBSET Info
    BY <1>1 DEF Inv, TypeOK
  <1>3. /\ NoTrace(c, Known, shell_component_pids, recording) /\ c \notin handle
        /\ Sound(Known, shell_component_pids, recording, handle, launched')
        /\ Recorded(Known, shell_component_pids, recording)
    BY <1>1 DEF Inv, Tables, Sound
  <1>4. late' \in 0 .. 1
    BY <1>1 DEF Inv, TypeOK, OneLateAtMost
  <1> QED
    BY <1>1, <1>2, <1>3, <1>4, ShellLaunchSound DEF Inv

LEMMA HandleSignalStep ==
    ASSUME Inv, HandleSignal
    PROVE  Inv'
  <1>1. /\ UNCHANGED <<child, shell_component_pids, recording, early, handle, stopped>>
        /\ UNCHANGED <<launched, doing, late, is_locked, runs_in_quick_succession>>
        /\ TypeOK'
    BY DEF HandleSignal, Inv, TypeOK, info, processes
  <1>2. Tables'
    BY <1>1, TablesSame DEF Inv, Awaited, At
  <1> QED
    BY <1>1, <1>2 DEF Inv, Allowed, GivesUp, Early, Late, OneLateAtMost, Finished, At, Awaited

LEMMA ReapEndStep ==
    ASSUME Inv, ReapEnd
    PROVE  Inv'
  <1>1. /\ UNCHANGED <<child, shell_component_pids, recording, early, handle, stopped>>
        /\ UNCHANGED <<launched, doing, late, is_locked, runs_in_quick_succession>>
        /\ TypeOK'
    BY DEF ReapEnd, Inv, TypeOK, info, processes
  <1>2. Tables'
    BY <1>1, TablesSame DEF Inv, Awaited, At
  <1> QED
    BY <1>1, <1>2 DEF Inv, Allowed, GivesUp, Early, Late, OneLateAtMost, Finished, At, Awaited

LEMMA ReapStep ==
    ASSUME Inv, NEW r \in Proc, Reap(r)
    PROVE  Inv'
  <1>1. /\ ~stopped /\ child[r] # None
        /\ doing' = [at |-> "reaped", pid |-> r, was |-> child[r]]
        /\ child' = [child EXCEPT ![r] = None]
        /\ early' = early \ {r}
        /\ UNCHANGED <<info, shell_component_pids, recording, control, late>>
    BY DEF Reap, Zombies
  <1>2. /\ child \in Children /\ child[r] \in Process
        /\ shell_component_pids \in Pids /\ recording \in Pids
        /\ handle \in SUBSET Info /\ launched \in SUBSET Info
    BY <1>1 DEF Inv, TypeOK, Children, Pids
  <1>3. /\ doing' \in Reaped /\ At("reaped")' /\ doing'.pid = r
        /\ ~At("on_reap")' /\ ~At("launch")' /\ ~At("relaunch")'
        /\ \A i : ~Awaited(i)'
        /\ Late'
    BY <1>1, <1>2, DoingReaped
  <1>4. /\ child'[r] = None /\ child' \in Children
        /\ \A p \in Proc \ {r} : child'[p] = child[p]
    BY <1>1, <1>2 DEF Children
  <1>5. /\ Known \in Children /\ Known' \in Children /\ Known'[r] = None
        /\ \A p \in Proc \ {r} : Known'[p] = Known[p]
    BY <1>1, <1>4, KnownIs DEF Inv, Known, Children
  <1>6. /\ Sound(Known', shell_component_pids, recording, handle, launched)
        /\ Recorded(Known', shell_component_pids, recording)
    BY <1>1, <1>2, <1>5, WaitSound DEF Inv, Tables
  <1>7. Tables'
    BY <1>1, <1>3, <1>6 DEF Tables, info, control
  <1>8. TypeOK'
    BY <1>1, <1>3, <1>4 DEF Inv, TypeOK, Children, info, control
  <1>9. Allowed' /\ OneLateAtMost'
    BY <1>1, <1>3 DEF Inv, Allowed, GivesUp, OneLateAtMost, info
  <1>10. Early'
    BY <1>1, <1>3, <1>4 DEF Inv, Early
  <1> QED
    BY <1>1, <1>3, <1>7, <1>8, <1>9, <1>10 DEF Inv, Finished, control

LEMMA LookupStep ==
    ASSUME Inv, Lookup
    PROVE  Inv'
  <1> DEFINE r == doing.pid
             i == shell_component_pids[r]
  <1>1. /\ At("reaped")
        /\ doing' = IF doing.was.state = "failed" /\ i \in Info
                    THEN [at |-> "on_reap", info |-> i] ELSE None
        /\ shell_component_pids' = [shell_component_pids EXCEPT ![r] = None]
        /\ UNCHANGED <<info, child, recording, control, early, late>>
    BY DEF Lookup
  <1>2. /\ r \in Proc /\ (child[r] = None \/ r \in early)
        /\ shell_component_pids \in Pids /\ recording \in Pids
        /\ handle \in SUBSET Info /\ launched \in SUBSET Info
        /\ Known \in Children
    BY <1>1, DoingIs, KnownIs DEF Inv, TypeOK, Pids, Early
  <1>3. r \in Proc
    BY <1>1, DoingIs DEF Inv
  <1>4. Known[r] = None
    BY <1>2, <1>3 DEF Known
  <1> HIDE DEF r, i
  <1>5. /\ shell_component_pids' \in Pids
        /\ Sound(Known, shell_component_pids', recording, handle, launched)
        /\ Recorded(Known, shell_component_pids, recording)
              => Recorded(Known, shell_component_pids', recording)
        /\ i \in Info =>
             /\ NoTrace(i, Known, shell_component_pids', recording)
             /\ i \notin handle /\ i \in launched
    BY <1>1, <1>2, <1>3, <1>4, EraseSound DEF Inv, Tables, i
  <1>6. Known' = Known
    BY <1>1 DEF Known
  <1>7. \A j \in Info : Awaited(j)' => j = i /\ i \in Info
    <2>1. CASE doing' = None
      BY <2>1, DoingNone
    <2>2. CASE doing' = [at |-> "on_reap", info |-> i] /\ i \in Info
      BY <2>2, DoingHandling DEF Awaited
    <2> QED
      BY <1>1, <2>1, <2>2
  <1>8. /\ ~At("reaped")' /\ ~At("relaunch")' /\ ~At("launch")'
        /\ doing' \in Handling \cup {None}
    <2>1. CASE doing' = None
      BY <2>1, DoingNone
    <2>2. CASE doing' = [at |-> "on_reap", info |-> i] /\ i \in Info
      BY <2>2, DoingHandling DEF At
    <2> QED
      BY <1>1, <2>1, <2>2
  <1>9. Tables'
    BY <1>1, <1>5, <1>6, <1>7 DEF Inv, Tables, info, control
  <1>10. TypeOK'
    BY <1>1, <1>5, <1>8 DEF Inv, TypeOK, Pids, info, control
  <1>11. Allowed'
    BY <1>1, <1>5, <1>7, <1>8 DEF Inv, Allowed, GivesUp, info, TypeOK
  <1>12. Early' /\ Late' /\ OneLateAtMost' /\ Finished'
    BY <1>1, <1>8, DoingIs DEF Inv, Early, Late, OneLateAtMost, Finished, control
  <1> QED
    BY <1>9, <1>10, <1>11, <1>12 DEF Inv

LEMMA OnReapStep ==
    ASSUME Inv, OnReap
    PROVE  Inv'
  <1> DEFINE i == doing.info
  <1>1. /\ At("on_reap")
        /\ doing' = IF should_restart_predicate(i) THEN [doing EXCEPT !.at = "launch"] ELSE None
        /\ UNCHANGED <<child, shell_component_pids, recording, early, handle, stopped>>
        /\ UNCHANGED <<launched, late, is_locked, runs_in_quick_succession>>
        /\ UNCHANGED <<aged, abandoned, sigchld, reaping, presses>>
    BY DEF OnReap, info, processes, control
  <1>2. i \in Info /\ doing = [at |-> "on_reap", info |-> i] /\ Awaited(i)
    BY <1>1, DoingIs DEF Inv, At, Handling, Awaited
  <1>3. CASE doing' = None
    <2>1. TypeOK'
      BY <1>1, <1>3 DEF Inv, TypeOK
    <2>2. Tables'
      BY <1>1, <1>3, DoingNone, TablesSame DEF Inv
    <2> QED
      BY <1>1, <1>3, <2>1, <2>2, DoingNone
      DEF Inv, Allowed, GivesUp, Early, OneLateAtMost, Finished
  <1>4. CASE should_restart_predicate(i) /\ doing' = [doing EXCEPT !.at = "launch"]
    <2>0. doing' = [at |-> "launch", info |-> i]
      BY <1>2, <1>4
    <2>1. doing' \in Handling /\ doing'.at = "launch" /\ doing'.info = i /\ ~At("reaped")'
      BY <1>2, <2>0, DoingHandling
    <2> HIDE DEF i
    <2>2. \A j \in Info : Awaited(j)' => Awaited(j)
      BY <1>2, <2>1 DEF Awaited
    <2>3. TypeOK'
      BY <1>1, <2>1 DEF Inv, TypeOK
    <2>4. Tables'
      BY <1>1, <2>2, TablesSame DEF Inv
    <2>5. Allowed'
      BY <1>1, <2>1, <2>2 DEF Inv, Allowed, GivesUp, At, TypeOK
    <2>6. Late'
      BY <1>1, <1>4, <2>1, OwnerAssumption DEF Inv, Late, At, should_restart_predicate
    <2> QED
      BY <1>1, <1>2, <2>1, <2>3, <2>4, <2>5, <2>6, DoingIs
      DEF Inv, Early, OneLateAtMost, Finished
  <1> QED
    BY <1>1, <1>3, <1>4

\* The one restart that was decided before the unlock.
LEMMA CountLateStep ==
    ASSUME Inv, At("launch") \/ At("relaunch"), CountLate(doing.info)
    PROVE  late' \in 0 .. 1
  BY DEF Inv, TypeOK, Late, OneLateAtMost, CountLate

LEMMA LaunchStep ==
    ASSUME Inv, Launch
    PROVE  Inv'
  <1> DEFINE i == doing.info
  <1>1. /\ At("launch") /\ doing' = None
        /\ shell_launch(i) /\ CountLate(i)
        /\ UNCHANGED <<recording, control, early>>
    BY DEF Launch
  <1>2. i \in Info /\ Awaited(i) /\ ~stopped
    BY <1>1, DoingIs DEF Inv, Awaited, Finished
  <1>3. late' \in 0 .. 1
    BY <1>1, CountLateStep
  <1> HIDE DEF i
  <1>4. /\ launched' = launched /\ launched' \in SUBSET Info
        /\ i \in launched' /\ i \notin handle
        /\ NoTrace(i, Known, shell_component_pids, recording)
        /\ Sound(Known, shell_component_pids, recording, handle, launched')
        /\ Recorded(Known, shell_component_pids, recording)
    BY <1>1, <1>2 DEF Inv, Tables, Allowed, TypeOK, control
  <1>5. UNCHANGED <<recording, is_locked, sigchld, reaping, stopped, presses, early>>
    BY <1>1 DEF control
  <1> QED
    BY <1>1, <1>2, <1>3, <1>4, <1>5, ShellLaunchSound DEF Inv

LEMMA TimerFiresStep ==
    ASSUME Inv, NEW i \in Info, TimerFires(i)
    PROVE  Inv'
  <1>0. ~stopped
    BY DEF TimerFires, MainLoopIdle
  <1>1. /\ i \in handle /\ doing = None
        /\ doing' = IF should_restart_predicate(i)
                    THEN [at |-> "relaunch", info |-> i] ELSE None
        /\ UNCHANGED <<child, shell_component_pids, recording, early, handle, stopped>>
        /\ UNCHANGED <<launched, late, is_locked, runs_in_quick_succession>>
        /\ UNCHANGED <<aged, abandoned, sigchld, reaping, presses>>
    BY DEF TimerFires, MainLoopIdle, info, processes, control
  <1>2. CASE doing' = None
    <2>1. TypeOK'
      BY <1>1, <1>2 DEF Inv, TypeOK
    <2>2. Tables'
      BY <1>1, <1>2, DoingNone, TablesSame DEF Inv
    <2> QED
      BY <1>1, <1>2, <2>1, <2>2, DoingNone
      DEF Inv, Allowed, GivesUp, Early, OneLateAtMost, Finished
  <1>3. CASE should_restart_predicate(i) /\ doing' = [at |-> "relaunch", info |-> i]
    <2>1. doing' \in Handling /\ doing'.at = "relaunch" /\ doing'.info = i /\ ~At("reaped")'
      BY <1>3, DoingHandling
    <2>2. \A j \in Info : ~Awaited(j)'
      BY <2>1 DEF Awaited, At
    <2>3. TypeOK'
      BY <1>1, <2>1 DEF Inv, TypeOK
    <2>4. Tables'
      BY <1>1, <2>2, TablesSame DEF Inv
    <2>5. Allowed'
      BY <1>1, <2>1, <2>2 DEF Inv, Allowed, GivesUp, TypeOK
    <2>6. Late'
      BY <1>1, <1>3, <2>1, OwnerAssumption DEF Inv, Late, At, should_restart_predicate
    <2> QED
      BY <1>0, <1>1, <2>1, <2>3, <2>4, <2>5, <2>6
      DEF Inv, Early, OneLateAtMost, Finished
  <1> QED
    BY <1>1, <1>2, <1>3

LEMMA RelaunchStep ==
    ASSUME Inv, Relaunch
    PROVE  Inv'
  <1> DEFINE i == doing.info
  <1>1. /\ At("relaunch") /\ doing' = None
        /\ handle' = handle \ {i}
        /\ runs_in_quick_succession' = [runs_in_quick_succession EXCEPT ![i] = @ + 1]
        /\ aged' = [aged EXCEPT ![i] = FALSE]
        /\ LaunchAndInsert(i) /\ CountLate(i)
        /\ UNCHANGED <<abandoned, recording, control, early>>
    BY DEF Relaunch, Restart
  <1>2. i \in Info /\ i \in handle /\ ~stopped
    BY <1>1, DoingIs DEF Inv, Allowed, Finished
  <1>3. late' \in 0 .. 1
    BY <1>1, CountLateStep
  <1> HIDE DEF i
  <1>4. /\ launched' = launched /\ launched' \in SUBSET Info
        /\ i \in launched'
        /\ NoTrace(i, Known, shell_component_pids, recording)
        /\ Sound(Known, shell_component_pids, recording, handle, launched')
        /\ Recorded(Known, shell_component_pids, recording)
        /\ i \notin handle'
    BY <1>1, <1>2 DEF Inv, Tables, Sound, TypeOK, control
  <1>5. /\ child' \in Children /\ shell_component_pids' \in Pids
        /\ \A p \in Proc : child[p] # None => child'[p] = child[p]
        /\ Sound(Known', shell_component_pids', recording', handle', launched')
        /\ Recorded(Known', shell_component_pids', recording')
    BY <1>1, <1>4, LaunchAndInsertSound DEF Inv
  <1>6. runs_in_quick_succession' \in [Info -> 0 .. max_too_short_reruns_in_a_row]
    <2>1. /\ runs_in_quick_succession \in [Info -> 0 .. 3]
          /\ ~(runs_in_quick_succession[i] >= 3)
      BY <1>2 DEF Inv, TypeOK, Allowed, GivesUp, max_too_short_reruns_in_a_row
    <2> QED
      BY <1>1, <1>2, <2>1 DEF max_too_short_reruns_in_a_row
  <1>7. TypeOK'
    BY <1>1, <1>3, <1>5, <1>6 DEF Inv, TypeOK, Children, Pids, control
  <1>8. Allowed'
    BY <1>1, DoingNone DEF Inv, TypeOK, Allowed, GivesUp
  <1>9. Early'
    BY <1>1, <1>5, DoingNone DEF Inv, Early, TypeOK
  <1> QED
    BY <1>1, <1>3, <1>5, <1>7, <1>8, <1>9, DoingNone DEF Inv, Tables, OneLateAtMost, Finished

LEMMA ShutdownStep ==
    ASSUME Inv, Shutdown
    PROVE  Inv'
  <1>1. /\ stopped' = TRUE /\ doing = None
        /\ shell_component_pids' = [p \in Proc |-> None]
        /\ UNCHANGED <<info, child, recording, launched, is_locked, sigchld, reaping, presses>>
        /\ UNCHANGED <<doing, early, late>>
    BY DEF Shutdown, MainLoopIdle
  <1>2. TypeOK'
    BY <1>1 DEF Inv, TypeOK, info
  <1>3. Known' = Known
    BY <1>1 DEF Known
  <1>4. \A j \in Info : \A p \in Proc :
            Has(j, p, Known, shell_component_pids', recording)
                => Has(j, p, Known, shell_component_pids, recording)
    BY <1>1, OwnersDiffer DEF Has
  <1>5. \A p \in Proc : shell_component_pids'[p] \notin Info
    BY <1>1, OwnersDiffer
  <1>6. Sound(Known, shell_component_pids', recording, handle, launched)
    <2>1. handle \subseteq Info
      BY DEF Inv, TypeOK
    <2> QED
      BY <1>4, <1>5, <2>1 DEF Inv, Tables, Sound, NoTrace
  <1>7. Tables'
    BY <1>1, <1>3, <1>6, DoingNone DEF Tables, info
  <1>8. Early' /\ Allowed' /\ Finished' /\ OneLateAtMost' /\ Late'
    BY <1>1, DoingNone DEF Inv, Early, Allowed, GivesUp, Finished, OneLateAtMost, info
  <1> QED
    BY <1>2, <1>7, <1>8 DEF Inv

\* Another thread forks, while the main loop is in the middle of anything.
LEMMA ForkStep ==
    ASSUME Inv, NEW o \in Owner \ Component, Fork(o), ~stopped, UNCHANGED stopped,
           o \notin launched,
           launched' = launched \cup ({o} \cap Info), handle' = handle
    PROVE  /\ child' \in Children /\ recording' \in Pids /\ early' \subseteq Proc
           /\ UNCHANGED <<shell_component_pids, doing>>
           /\ Tables' /\ Early'
  <1>1. PICK q \in Proc :
            /\ child[q] = None /\ recording[q] = None
            /\ child' = Forked(child, q, o)
            /\ recording' = IF o = App THEN recording ELSE [recording EXCEPT ![q] = o]
            /\ early' = IF At("reaped") /\ doing.pid = q THEN early \cup {q} ELSE early
            /\ UNCHANGED <<shell_component_pids, doing>>
    BY DEF Fork, Available, Spawn, Forked
  <1>2. /\ child \in Children /\ shell_component_pids \in Pids /\ recording \in Pids
        /\ handle \in SUBSET Info /\ launched \in SUBSET Info /\ early \subseteq Proc
        /\ o \in Owner /\ Known \in Children
    BY KnownIs DEF Inv, TypeOK, Children, Pids
  <1>3. /\ child' \in Children /\ child'[q] = [owner |-> o, state |-> "up"]
        /\ child'[q] # None /\ child'[q].owner = o
        /\ \A p \in Proc \ {q} : child'[p] = child[p]
    BY <1>1, <1>2, ForkedType, NoneAssumption DEF Process
  <1>4. recording' \in Pids
    BY <1>1, <1>2 DEF Pids, Owner
  <1>5. q \notin early
    BY <1>1 DEF Inv, Early
  <1>6. /\ Known[q] = None /\ Known' \in Children
        /\ Known'[q] \in {None, [owner |-> o, state |-> "up"]}
        /\ \A p \in Proc \ {q} : Known'[p] = Known[p]
    BY <1>1, <1>3 DEF Known, Children
  <1>7. /\ Sound(Known', shell_component_pids, recording', handle, launched')
        /\ Recorded(Known', shell_component_pids, recording')
    <2>1. /\ Sound(Known, shell_component_pids, recording, handle, launched)
          /\ Recorded(Known, shell_component_pids, recording)
      BY DEF Inv, Tables
    <2>2. launched' \in SUBSET Info
      BY <1>2
    <2>3. o \in Info => NoTrace(o, Known, shell_component_pids, recording) /\ o \notin handle
      BY <2>1 DEF Sound
    <2>4. recording' = IF o = App THEN recording ELSE [recording EXCEPT ![q] = o]
      BY <1>1
    <2>5. child[q] = None /\ recording[q] = None /\ Known[q] = None
      BY <1>1, <1>6
    <2>6. launched' = launched \cup ({o} \cap Info)
      OBVIOUS
    <2> DEFINE ch2 == Known'
               rc2 == recording'
               ln2 == launched'
    <2>7. /\ ch2 \in Children /\ ch2[q] \in {None, [owner |-> o, state |-> "up"]}
          /\ \A p \in Proc \ {q} : ch2[p] = Known[p]
          /\ rc2 \in Pids /\ rc2 = IF o = App THEN recording ELSE [recording EXCEPT ![q] = o]
          /\ ln2 \in SUBSET Info /\ ln2 = launched \cup ({o} \cap Info)
      BY <1>4, <1>6, <2>2, <2>4, <2>6
    <2> HIDE DEF ch2, rc2, ln2
    <2>8. Sound(ch2, shell_component_pids, rc2, handle, ln2)
      BY <1>2, <2>1, <2>3, <2>5, <2>7, ForkSound
    <2>9. Recorded(ch2, shell_component_pids, rc2)
      <3>1. \A p \in Proc \ {q} : rc2[p] = recording[p]
        BY <1>2, <2>7 DEF Pids
      <3>2. o # App => rc2[q] # None
        BY <1>2, <2>7, OwnersDiffer DEF Pids, Owner
      <3>3. ch2[q] # None => ch2[q].owner = o
        BY <2>7
      <3> QED
        BY <2>1, <2>7, <3>1, <3>2, <3>3 DEF Recorded
    <2> QED
      BY <2>8, <2>9 DEF ch2, rc2, ln2
  <1>8. \A i \in Info : Awaited(i)' =>
           NoTrace(i, Known', shell_component_pids, recording') /\ i \in launched'
    <2> SUFFICES ASSUME NEW i \in Info, Awaited(i)'
                 PROVE  NoTrace(i, Known', shell_component_pids, recording') /\ i \in launched'
      OBVIOUS
    <2>1. Awaited(i)
      BY <1>1 DEF Awaited, At
    <2>2. NoTrace(i, Known, shell_component_pids, recording) /\ i \in launched
      BY <2>1 DEF Inv, Tables
    <2>3. i # o
      BY <2>2, <1>1 DEF Inv, Tables, Sound
    <2>4. recording'[q] # i /\ \A p \in Proc \ {q} : recording'[p] = recording[p]
      BY <1>1, <1>2, <2>2, <2>3 DEF Pids, NoTrace, Has
    <2> QED
      BY <1>6, <2>2, <2>3, <2>4 DEF NoTrace, Has
  <1>9. Early'
    <2>1. \A p \in early' : child'[p] # None /\ child'[p].owner \notin Component
      BY <1>1, <1>2, <1>3, <1>5 DEF Inv, Early
    <2>2. At("reaped")' => child'[doing'.pid] = None \/ doing'.pid \in early'
      <3> SUFFICES ASSUME At("reaped")
                   PROVE  child'[doing.pid] = None \/ doing.pid \in early'
        BY <1>1 DEF At
      <3>1. doing.pid \in Proc
        BY DoingIs DEF Inv
      <3> QED
        BY <1>1, <1>3, <3>1 DEF Inv, Early
    <2> QED
      BY <2>1, <2>2 DEF Early
  <1>10. early' \subseteq Proc
    BY <1>1, <1>2
  <1>11. Tables'
    BY <1>1, <1>7, <1>8 DEF Tables
  <1> QED
    BY <1>1, <1>3, <1>4, <1>9, <1>10, <1>11

LEMMA PressStep ==
    ASSUME Inv, NEW o \in {Shell, App}, Press(o)
    PROVE  Inv'
  <1>1. /\ Fork(o) /\ presses < MaxPresses /\ presses' = presses + 1 /\ ~stopped
        /\ UNCHANGED <<info, launched, is_locked, sigchld, reaping, stopped, late>>
    BY DEF Press
  <1>2. /\ o \in Owner \ Component /\ o \notin launched /\ {o} \cap Info = {}
    BY OwnersDiffer DEF Owner, Info, Inv, TypeOK
  <1>3. launched' = launched \cup ({o} \cap Info) /\ handle' = handle
    BY <1>1, <1>2 DEF info
  <1>4. /\ child' \in Children /\ recording' \in Pids /\ early' \subseteq Proc
        /\ UNCHANGED <<shell_component_pids, doing>>
        /\ Tables' /\ Early'
    BY <1>1, <1>2, <1>3, ForkStep
  <1>5. presses' \in 0 .. MaxPresses
    BY <1>1, PressesAssumption DEF Inv, TypeOK
  <1>6. TypeOK'
    BY <1>1, <1>4, <1>5 DEF Inv, TypeOK, Children, Pids, info
  <1>7. Allowed' /\ Late' /\ OneLateAtMost' /\ Finished'
    BY <1>1, <1>4 DEF Inv, Allowed, GivesUp, Late, OneLateAtMost, Finished, Awaited, At, info
  <1> QED
    BY <1>4, <1>6, <1>7 DEF Inv

\* A lock screen that has not been launched: Lock and Idle.
LEMMA LaunchLockscreenStep ==
    ASSUME Inv, NEW l \in LockInfo, launch_lockscreen(l),
           ~stopped, is_locked' \in {is_locked, TRUE}
    PROVE  Inv'
  <1>1. /\ Fork(l) /\ l \notin launched /\ launched' = launched \cup {l}
        /\ aged' = [aged EXCEPT ![l] = FALSE]
        /\ UNCHANGED <<runs_in_quick_succession, handle, abandoned>>
        /\ UNCHANGED <<sigchld, reaping, stopped, presses, late>>
    BY DEF launch_lockscreen
  <1>2. l \in Info /\ l \in Owner \ Component /\ {l} \cap Info = {l}
    BY OwnerAssumption DEF Owner, Info
  <1>3. /\ child' \in Children /\ recording' \in Pids /\ early' \subseteq Proc
        /\ UNCHANGED <<shell_component_pids, doing>>
        /\ Tables' /\ Early'
    BY <1>1, <1>2, ForkStep
  <1>4. TypeOK'
    BY <1>1, <1>2, <1>3 DEF Inv, TypeOK, Children, Pids
  <1>5. Allowed' /\ Late' /\ OneLateAtMost' /\ Finished'
    BY <1>1, <1>3 DEF Inv, Allowed, GivesUp, Late, OneLateAtMost, Finished, Awaited, At
  <1> QED
    BY <1>3, <1>4, <1>5 DEF Inv

LEMMA InsertStep ==
    ASSUME Inv, NEW r \in Proc, Insert(r)
    PROVE  Inv'
  <1> DEFINE pd2 == insert(shell_component_pids, r, recording[r])
             rc2 == [recording EXCEPT ![r] = None]
  <1>1. /\ ~stopped /\ recording[r] # None
        /\ shell_component_pids' = pd2 /\ recording' = rc2
        /\ UNCHANGED <<info, child, control, doing, early, late>>
    BY DEF Insert
  <1>2. /\ Known \in Children /\ shell_component_pids \in Pids /\ recording \in Pids
        /\ handle \in SUBSET Info /\ launched \in SUBSET Info
        /\ recording[r] \in Info \cup {Shell}
    BY <1>1, KnownIs DEF Inv, TypeOK, Pids
  <1>3. /\ pd2 \in Pids /\ pd2[r] \in {shell_component_pids[r], recording[r]}
        /\ \A p \in Proc \ {r} : pd2[p] = shell_component_pids[p]
        /\ rc2[r] = None /\ \A p \in Proc \ {r} : rc2[p] = recording[p]
    BY <1>2, InsertType DEF Pids
  <1>4. /\ rc2 \in Pids
        /\ Sound(Known, pd2, rc2, handle, launched)
        /\ Recorded(Known, pd2, rc2)
    BY <1>1, <1>2, InsertSound DEF Inv, Tables
  <1> HIDE DEF pd2, rc2
  <1>5. Known' = Known /\ \A j : Awaited(j)' <=> Awaited(j)
    BY <1>1 DEF Known, Awaited, At
  <1>6. \A j \in Info : Awaited(j) =>
           NoTrace(j, Known, pd2, rc2) /\ j \in launched
    BY <1>3, OwnersDiffer DEF Inv, Tables, NoTrace, Has
  <1>7. Tables'
    BY <1>1, <1>4, <1>5, <1>6 DEF Tables, info, control
  <1>8. TypeOK'
    BY <1>1, <1>3, <1>4 DEF Inv, TypeOK, Pids, info, control
  <1>9. Early' /\ Allowed' /\ Late' /\ OneLateAtMost' /\ Finished'
    BY <1>1 DEF Inv, Early, Allowed, GivesUp, Late, OneLateAtMost, Finished, Awaited, At,
                info, control
  <1> QED
    BY <1>7, <1>8, <1>9 DEF Inv

LEMMA DieStep ==
    ASSUME Inv, NEW r \in Proc, Die(r)
    PROVE  Inv'
  <1>1. PICK s \in {"failed", "done"} :
            /\ ~stopped /\ child[r] # None
            /\ child' = [child EXCEPT ![r].state = s]
            /\ sigchld' = TRUE
            /\ UNCHANGED <<info, shell_component_pids, recording>>
            /\ UNCHANGED <<launched, is_locked, reaping, stopped, presses, doing, early, late>>
    BY DEF Die
  <1>2. child \in Children /\ child[r] \in Process
    BY <1>1 DEF Inv, TypeOK, Children
  <1>3. child'[r] = [child[r] EXCEPT !.state = s]
    BY <1>1, <1>2 DEF Children
  <1>4. /\ child' \in Children /\ child'[r] \in Process
        /\ child'[r].owner = child[r].owner /\ child'[r].state = s
        /\ \A p \in Proc \ {r} : child'[p] = child[p]
    <2>1. /\ child'[r] \in Process
          /\ child'[r].owner = child[r].owner /\ child'[r].state = s
      BY <1>2, <1>3 DEF Process
    <2>2. \A p \in Proc \ {r} : child'[p] = child[p]
      BY <1>1, <1>2 DEF Children
    <2>3. child' \in Children
      BY <1>1, <1>2, <2>1, <1>3 DEF Children
    <2> QED
      BY <2>1, <2>2, <2>3
  <1>5. child'[r] # None
    BY <1>4, NoneAssumption
  <1>6. \A p \in Proc : /\ child'[p] = None <=> child[p] = None
                        /\ child[p] # None => child'[p].owner = child[p].owner
                        /\ child'[p] # None /\ child'[p].state = "up" => child[p].state = "up"
    BY <1>1, <1>4, <1>5
  <1>7. \A j, p : p \in Proc =>
           (Has(j, p, Known', shell_component_pids, recording)
               <=> Has(j, p, Known, shell_component_pids, recording))
    BY <1>1, <1>6 DEF Has, Known
  <1>8. Sound(Known', shell_component_pids, recording, handle, launched)
    BY <1>7 DEF Inv, Tables, Sound, NoTrace, TypeOK
  <1>9. Recorded(Known', shell_component_pids, recording)
    BY <1>1, <1>6 DEF Inv, Tables, Recorded, Known
  <1>10. Tables'
    BY <1>1, <1>7, <1>8, <1>9 DEF Inv, Tables, NoTrace, Awaited, At, info
  <1>11. TypeOK'
    BY <1>1, <1>4 DEF Inv, TypeOK, Children, info
  <1>12. Early'
    BY <1>1, <1>6, DoingIs DEF Inv, Early, At, TypeOK
  <1>13. Allowed' /\ Late' /\ OneLateAtMost' /\ Finished'
    BY <1>1 DEF Inv, Allowed, GivesUp, Late, OneLateAtMost, Finished, Awaited, At, info
  <1> QED
    BY <1>10, <1>11, <1>12, <1>13 DEF Inv

LEMMA UnlockStep ==
    ASSUME Inv, Unlock
    PROVE  Inv'
  <1>1. /\ UNCHANGED <<child, shell_component_pids, recording, early, handle, stopped>>
        /\ UNCHANGED <<launched, doing, runs_in_quick_succession>>
        /\ late' = 0 /\ TypeOK'
    BY DEF Unlock, Inv, TypeOK, info, processes
  <1>2. Tables'
    BY <1>1, TablesSame DEF Inv, Awaited, At
  <1> QED
    BY <1>1, <1>2 DEF Inv, Allowed, GivesUp, Early, Late, OneLateAtMost, Finished, At, Awaited

LEMMA AgesStep ==
    ASSUME Inv, NEW i \in Info, Ages(i)
    PROVE  Inv'
  <1>1. /\ UNCHANGED <<child, shell_component_pids, recording, early, handle, stopped>>
        /\ UNCHANGED <<launched, doing, late, is_locked, runs_in_quick_succession>>
        /\ TypeOK'
    BY DEF Ages, Inv, TypeOK, processes, control
  <1>2. Tables'
    BY <1>1, TablesSame DEF Inv, Awaited, At
  <1> QED
    BY <1>1, <1>2 DEF Inv, Allowed, GivesUp, Early, Late, OneLateAtMost, Finished, At, Awaited
-----------------------------------------------------------------------------
\* A step of the system preserves the invariant.
LEMMA NextInv ==
    ASSUME IInv, [Next]_vars
    PROVE  IInv'
  <1> SUFFICES ASSUME Inv PROVE Inv'
    BY InvIs, InvIsNext
  <1>1. CASE \E c \in Component : LaunchComponent(c)
    BY <1>1, LaunchComponentStep
  <1>2. CASE HandleSignal
    BY <1>2, HandleSignalStep
  <1>3. CASE \E p \in Proc : Reap(p)
    BY <1>3, ReapStep
  <1>4. CASE Lookup
    BY <1>4, LookupStep
  <1>5. CASE OnReap
    BY <1>5, OnReapStep
  <1>6. CASE Launch
    BY <1>6, LaunchStep
  <1>7. CASE ReapEnd
    BY <1>7, ReapEndStep
  <1>8. CASE \E i \in Info : TimerFires(i)
    BY <1>8, TimerFiresStep
  <1>9. CASE Relaunch
    BY <1>9, RelaunchStep
  <1>10. CASE Shutdown
    BY <1>10, ShutdownStep
  <1>11. CASE \E o \in {Shell, App} : Press(o)
    BY <1>11, PressStep
  <1>12. CASE \E p \in Proc : Insert(p)
    BY <1>12, InsertStep
  <1>13. CASE \E l \in LockInfo : Lock(l) \/ Idle(l)
    <2>1. PICK l \in LockInfo : Lock(l) \/ Idle(l)
      BY <1>13
    <2>2. launch_lockscreen(l) /\ ~stopped /\ is_locked' \in {is_locked, TRUE}
      BY <2>1 DEF Lock, Idle
    <2> QED
      BY <2>2, LaunchLockscreenStep
  <1>14. CASE Unlock
    BY <1>14, UnlockStep
  <1>15. CASE \E p \in Proc : Die(p)
    BY <1>15, DieStep
  <1>16. CASE \E i \in Info : Ages(i)
    BY <1>16, AgesStep
  <1>17. CASE UNCHANGED vars
    <2>1. /\ UNCHANGED <<child, shell_component_pids, recording, early, handle, stopped>>
          /\ UNCHANGED <<launched, doing, late, is_locked, runs_in_quick_succession>>
          /\ TypeOK'
      BY <1>17 DEF vars, Inv, TypeOK, info, processes, control
    <2>2. Tables'
      BY <2>1, TablesSame DEF Inv, Awaited, At
    <2> QED
      BY <2>1, <2>2
      DEF Inv, Allowed, GivesUp, Early, Late, OneLateAtMost, Finished, At, Awaited
  <1> QED
    BY <1>1, <1>2, <1>3, <1>4, <1>5, <1>6, <1>7, <1>8, <1>9, <1>10, <1>11, <1>12, <1>13,
       <1>14, <1>15, <1>16, <1>17 DEF Next

\* The invariant holds to begin with.
LEMMA InitInv ==
    ASSUME Init
    PROVE  IInv
  <1>1. /\ \A p \in Proc : Known[p] = None /\ shell_component_pids[p] = None
                           /\ recording[p] = None
        /\ handle = {} /\ launched = {} /\ doing = None
        /\ early = {} /\ late = 0 /\ stopped = FALSE
    BY DEF Init, Known
  <1>2. TypeOK
    <2>1. presses \in 0 .. MaxPresses
      BY PressesAssumption DEF Init
    <2>2. runs_in_quick_succession \in [Info -> 0 .. max_too_short_reruns_in_a_row]
      BY DEF Init, max_too_short_reruns_in_a_row
    <2>3. /\ child \in [Proc -> Process \cup {None}]
          /\ shell_component_pids \in [Proc -> Info \cup {Shell, None}]
          /\ recording \in [Proc -> Info \cup {Shell, None}]
          /\ aged \in [Info -> BOOLEAN]
      BY DEF Init
    <2>4. {is_locked, sigchld, reaping, stopped} \subseteq BOOLEAN /\ late \in Nat
      BY DEF Init
    <2> QED
      BY <1>1, <2>1, <2>2, <2>3, <2>4 DEF Init, TypeOK
  <1>3. \A j \in Info : NoTrace(j, Known, shell_component_pids, recording) /\ ~Awaited(j)
    BY <1>1, OwnersDiffer DEF NoTrace, Has, Awaited, At
  <1>4. Tables
    BY <1>1, <1>3, OwnersDiffer DEF Tables, Sound, Recorded, NoTrace
  <1>5. Allowed /\ Early /\ Late /\ OneLateAtMost /\ Finished
    BY <1>1 DEF Allowed, Early, Late, OneLateAtMost, Finished, At
  <1> QED
    BY <1>2, <1>4, <1>5, InvIs DEF Inv

\* The inductive invariant always holds.
THEOREM Invariance == Spec => []IInv
  <1>1. Init => IInv
    BY InitInv
  <1>2. IInv /\ [Next]_vars => IInv'
    BY NextInv
  <1> QED
    BY <1>1, <1>2, PTL DEF Spec

\* Type correctness; in particular no command is restarted more than three
\* times in quick succession (line 179).
THEOREM TypeCorrect == Spec => []TypeOK
  <1>1. IInv => TypeOK
    BY DEF IInv
  <1> QED
    BY <1>1, Invariance, PTL

\* Of a command's process, its restart timer and its on_reap there is at most
\* one, a lock screen's process with a pid handed out early apart.
THEOREM OneProcessEach == Spec => []OneEach
  <1>1. IInv => OneEach
    <2> SUFFICES ASSUME IInv, NEW i \in Info
                 PROVE  Cardinality({p \in Running(i) : i \in LockInfo => p \notin early})
                            + (IF i \in handle THEN 1 ELSE 0)
                            + (IF Awaited(i) THEN 1 ELSE 0) <= 1
      BY DEF OneEach
    <2> DEFINE known == {p \in Running(i) : i \in LockInfo => p \notin early}
    <2>1. known \subseteq Traces(i)
      <3> SUFFICES ASSUME NEW p \in known PROVE p \in Traces(i)
        OBVIOUS
      <3>1. p \in Proc /\ child[p] # None /\ child[p].owner = i
        BY DEF Running
      <3>2. p \notin early
        BY <3>1 DEF IInv, Early, Info
      <3> QED
        BY <3>1, <3>2 DEF Traces
    <2>2. ~(i \in handle /\ Awaited(i))
      BY DEF IInv, Allowed
    <2>3. i \in handle \/ Awaited(i) => known = {}
      BY <2>1 DEF IInv, OneTrace
    <2>4. \A p, q \in known : p = q
      BY <2>1 DEF IInv, OneTrace
    <2> HIDE DEF known
    <2>5. known = {} \/ \E p : known = {p}
      BY <2>4
    <2>6. Cardinality(known) \in {0, 1} /\ (known = {} => Cardinality(known) = 0)
      BY <2>5, FS_EmptySet, FS_Singleton
    <2> QED
      BY <2>2, <2>3, <2>6 DEF known
  <1> QED
    BY <1>1, Invariance, PTL

\* A shell process, once recorded, is found for as long as it runs, whatever is
\* waited for, looked up, forked and inserted in between; unless its own pid
\* was handed out between waitpid and the lookup.
THEOREM RecordedWhileRunning == Spec => []StaysRecorded
  <1>1. IInv => StaysRecorded
    BY DEF IInv
  <1> QED
    BY <1>1, Invariance, PTL

\* Once the session is unlocked one lock screen at most is restarted.
THEOREM OneRestartTooLate == Spec => []OneLateAtMost
  <1>1. IInv => OneLateAtMost
    BY DEF IInv
  <1> QED
    BY <1>1, Invariance, PTL
=============================================================================
