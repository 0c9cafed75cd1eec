---------------------------- MODULE ChildControl ----------------------------
(***************************************************************************)
(* Launching, reaping and restarting the processes of the shell            *)
(* (miriway_child_control.cpp), with the callers in miriway.cpp: the       *)
(* start callback, the shortcuts and the lock screen.                      *)
(*                                                                         *)
(* The main loop runs the start callback, reap() on SIGCHLD, the restart   *)
(* timers and the stop callback, one at a time.  Shortcuts and the lock    *)
(* and idle listeners run on other threads, between any two steps of the   *)
(* main loop: between waitpid and the lookup of the pid that it has freed, *)
(* between a predicate and the launch it decides.  There the fork and the  *)
(* insert of its pid are two steps.  On the main loop they are one, since  *)
(* nothing is reaped between them.                                         *)
(*                                                                         *)
(* A definition whose name ends in _mutant is a wrong version of the next  *)
(* one: no action uses it, and the properties are shown to reject it.      *)
(***************************************************************************)
EXTENDS Naturals, FiniteSets

CONSTANTS
    Component,      \* the commands of shell-component
    LockInfo,       \* bound: one ShellComponentRunInfo per lock screen launched
    Proc,           \* process ids, handed out again once reaped
    Shell, App,     \* owners of processes nobody restarts: run_shell and run_app
    None,           \* no process, or a pid that is not in shell_component_pids
    MaxPresses      \* bound on the processes started by shortcuts

Info == Component \cup LockInfo
Owner == Info \cup {Shell, App}

ASSUME OwnerAssumption ==
    /\ Component \cap LockInfo = {}
    /\ {Shell, App, None} \cap Info = {}
    /\ Shell # App /\ None \notin {Shell, App}
ASSUME PressesAssumption == MaxPresses \in Nat
\* A pid for each Info and each shortcut.  A fork waits for one only while they
\* are all in use because a lock screen has a second process.
ASSUME ProcAssumption ==
    /\ IsFiniteSet(Proc)
    /\ Cardinality(Proc) >= Cardinality(Info) + MaxPresses

max_too_short_reruns_in_a_row == 3

VARIABLES
    child,                      \* the processes that have not been reaped
    shell_component_pids,       \* pid -> what on_reap restarts
    recording,                  \* forked by another thread, not yet inserted
    runs_in_quick_succession,
    aged,           \* more than min_time_seconds_allowed_between_runs since last_run_time
    handle,         \* the infos whose restart timer is registered
    abandoned,      \* the components whose end the log has announced
    launched,       \* the infos that shell_launch has been called for
    is_locked,
    sigchld,        \* SIGCHLD pending
    reaping,        \* the main loop is in reap()
    doing,          \* what the main loop is in the middle of
    stopped,        \* the stop callback has run
    presses,
    early,          \* history: the pids handed out before reap() had looked them up
    late            \* history: lock screens restarted since the session was unlocked

info == <<runs_in_quick_succession, aged, handle, abandoned>>
processes == <<child, shell_component_pids, recording>>
control == <<launched, is_locked, sigchld, reaping, stopped, presses>>
vars == <<info, processes, control, doing, early, late>>

Process == [owner : Owner, state : {"up", "failed", "done"}]
\* After waitpid; in on_reap, before and after the predicate is asked; in the
\* timer's handler, after it.  was is the process waited for: the code has the
\* state, the properties the owner.
Reaped == [at : {"reaped"}, pid : Proc, was : Process]
Handling == [at : {"on_reap", "launch", "relaunch"}, info : Info]
ASSUME NoneAssumption == None \notin Process \cup Reaped \cup Handling
At(place) == doing # None /\ doing.at = place
Running(o) == {p \in Proc : child[p] # None /\ child[p].owner = o}
Zombies == {p \in Proc : child[p] # None /\ child[p].state # "up"}
should_restart_predicate(i) == i \in Component \/ is_locked
MainLoopIdle == ~reaping /\ ~stopped /\ doing = None /\ Component \subseteq launched
-----------------------------------------------------------------------------
\* ShellPids.  Like std::map::insert, insert keeps an entry that is there.

insert(pids, p, o) == IF pids[p] = None THEN [pids EXCEPT ![p] = o] ELSE pids
is_found(p) == shell_component_pids[p] # None

Spawn(p, o) == [child EXCEPT ![p] = [owner |-> o, state |-> "up"]]
Available == {p \in Proc : child[p] = None /\ recording[p] = None}

LaunchAndInsert_mutant(i) ==                               \* pid not kept
    \E p \in Available :
        /\ child' = Spawn(p, i)
        /\ UNCHANGED shell_component_pids

\* client_launcher.launch and insert, on the main loop.
LaunchAndInsert(i) ==
    \E p \in Available :
        /\ child' = Spawn(p, i)
        /\ shell_component_pids' = insert(shell_component_pids, p, i)

Restart_mutant1(i) ==                                      \* handle not reset
    /\ UNCHANGED handle
    /\ runs_in_quick_succession' = [runs_in_quick_succession EXCEPT ![i] = @ + 1]

Restart_mutant2(i) ==                                      \* run not counted
    /\ handle' = handle \ {i}
    /\ UNCHANGED runs_in_quick_succession

\* What the timer's handler changes in the info of the command it restarts.
Restart(i) ==
    /\ handle' = handle \ {i}
    /\ runs_in_quick_succession' = [runs_in_quick_succession EXCEPT ![i] = @ + 1]

GivesUp_mutant(i) ==                                       \* off by one
    runs_in_quick_succession[i] > max_too_short_reruns_in_a_row

GivesUp(i) == runs_in_quick_succession[i] >= max_too_short_reruns_in_a_row

\* The command died too soon: shell_launch gives it up, fails to make or set a
\* timer, or leaves it to the timer.
WaitOrGiveUp(i) ==
    /\ \/ /\ GivesUp(i)
          /\ abandoned' = abandoned \cup ({i} \cap Component)
          /\ UNCHANGED handle
       \/ /\ ~GivesUp(i)
          /\ abandoned' = abandoned \cup ({i} \cap Component)
          /\ UNCHANGED handle
       \/ /\ ~GivesUp(i)
          /\ handle' = handle \cup {i}
          /\ UNCHANGED abandoned
    /\ UNCHANGED runs_in_quick_succession

\* shell_launch on the main loop.
shell_launch(i) ==
    \/ /\ aged[i]
       /\ LaunchAndInsert(i)
       /\ runs_in_quick_succession' = [runs_in_quick_succession EXCEPT ![i] = 0]
       /\ aged' = [aged EXCEPT ![i] = FALSE]
       /\ UNCHANGED <<handle, abandoned>>
    \/ /\ ~aged[i]
       /\ WaitOrGiveUp(i)
       /\ UNCHANGED <<child, shell_component_pids, aged>>
-----------------------------------------------------------------------------
\* The main loop.

\* ShellComponents::launch_all, in the start callback.
LaunchComponent(c) ==
    /\ ~stopped /\ doing = None
    /\ c \notin launched
    /\ launched' = launched \cup {c}
    /\ shell_launch(c)
    /\ UNCHANGED <<recording, is_locked, sigchld, reaping, stopped, presses>>
    /\ UNCHANGED <<doing, early, late>>

HandleSignal ==
    /\ MainLoopIdle
    /\ sigchld
    /\ sigchld' = FALSE
    /\ reaping' = TRUE
    /\ UNCHANGED <<info, processes, launched, is_locked, stopped, presses>>
    /\ UNCHANGED <<doing, early, late>>

\* waitpid returns some zombie: from here on its pid is free.
Reap(p) ==
    /\ reaping /\ ~stopped /\ doing = None
    /\ p \in Zombies
    /\ doing' = [at |-> "reaped", pid |-> p, was |-> child[p]]
    /\ child' = [child EXCEPT ![p] = None]
    /\ early' = early \ {p}
    /\ UNCHANGED <<info, shell_component_pids, recording, control, late>>

\* Under shell_component_mutex, whoever has the pid by now.
Lookup ==
    /\ At("reaped")
    /\ LET entry == shell_component_pids[doing.pid]
       IN  doing' = IF doing.was.state = "failed" /\ entry \in Info
                    THEN [at |-> "on_reap", info |-> entry] ELSE None
    /\ shell_component_pids' = [shell_component_pids EXCEPT ![doing.pid] = None]
    /\ UNCHANGED <<info, child, recording, control, early, late>>

OnReap ==
    /\ At("on_reap")
    /\ doing' = IF should_restart_predicate(doing.info)
                THEN [doing EXCEPT !.at = "launch"] ELSE None
    /\ UNCHANGED <<info, processes, control, early, late>>

\* Counts a lock screen restarted in an unlocked session.
CountLate(i) ==
    late' = IF i \in LockInfo /\ ~is_locked /\ child' # child THEN late + 1 ELSE late

Launch ==
    /\ At("launch")
    /\ doing' = None
    /\ shell_launch(doing.info)
    /\ CountLate(doing.info)
    /\ UNCHANGED <<recording, control, early>>

ReapEnd_mutant ==                                   \* one child per SIGCHLD
    /\ reaping /\ ~stopped /\ doing = None
    /\ reaping' = FALSE
    /\ UNCHANGED <<info, processes, launched, is_locked, sigchld, stopped, presses>>
    /\ UNCHANGED <<doing, early, late>>

\* waitpid finds no zombie: the loop breaks.
ReapEnd ==
    /\ reaping /\ ~stopped /\ doing = None
    /\ Zombies = {}
    /\ reaping' = FALSE
    /\ UNCHANGED <<info, processes, launched, is_locked, sigchld, stopped, presses>>
    /\ UNCHANGED <<doing, early, late>>

TimerFires_mutant(i) ==                             \* predicate not asked again
    /\ MainLoopIdle
    /\ i \in handle
    /\ doing' = [at |-> "relaunch", info |-> i]
    /\ UNCHANGED <<info, processes, control, early, late>>

\* A timer refused stays registered, and its descriptor, never read, stays
\* readable: the handler is called again until the predicate holds.
TimerFires(i) ==
    /\ MainLoopIdle
    /\ i \in handle
    /\ doing' = IF should_restart_predicate(i)
                THEN [at |-> "relaunch", info |-> i] ELSE None
    /\ UNCHANGED <<info, processes, control, early, late>>

Relaunch ==
    /\ At("relaunch")
    /\ doing' = None
    /\ Restart(doing.info)
    /\ aged' = [aged EXCEPT ![doing.info] = FALSE]
    /\ LaunchAndInsert(doing.info)
    /\ CountLate(doing.info)
    /\ UNCHANGED <<abandoned, recording, control, early>>

\* The stop callback; the processes it signals are not waited for.
Shutdown ==
    /\ MainLoopIdle
    /\ stopped' = TRUE
    /\ shell_component_pids' = [p \in Proc |-> None]
    /\ UNCHANGED <<info, child, recording, launched, is_locked, sigchld, reaping, presses>>
    /\ UNCHANGED <<doing, early, late>>
-----------------------------------------------------------------------------
\* The other threads.

Fork(o) ==
    \E p \in Available :
        /\ child' = Spawn(p, o)
        /\ recording' = IF o = App THEN recording ELSE [recording EXCEPT ![p] = o]
        /\ early' = IF At("reaped") /\ doing.pid = p THEN early \cup {p} ELSE early
        /\ UNCHANGED <<shell_component_pids, doing>>

\* run_shell and run_app, from a shortcut.
Press(o) ==
    /\ ~stopped
    /\ presses < MaxPresses
    /\ presses' = presses + 1
    /\ Fork(o)
    /\ UNCHANGED <<info, launched, is_locked, sigchld, reaping, stopped, late>>

Insert(p) ==
    /\ ~stopped
    /\ recording[p] # None
    /\ shell_component_pids' = insert(shell_component_pids, p, recording[p])
    /\ recording' = [recording EXCEPT ![p] = None]
    /\ UNCHANGED <<info, child, control, doing, early, late>>

\* launch_lockscreen: shell_launch with a fresh info, of last_run_time 0.
launch_lockscreen(l) ==
    /\ l \in LockInfo \ launched
    /\ launched' = launched \cup {l}
    /\ aged' = [aged EXCEPT ![l] = FALSE]
    /\ Fork(l)
    /\ UNCHANGED <<runs_in_quick_succession, handle, abandoned>>
    /\ UNCHANGED <<sigchld, reaping, stopped, presses, late>>

\* Both listeners of a lock: is_locked is set first.
Lock(l) ==
    /\ ~stopped /\ ~is_locked
    /\ is_locked' = TRUE
    /\ launch_lockscreen(l)

Idle(l) ==
    /\ ~stopped
    /\ launch_lockscreen(l)
    /\ UNCHANGED is_locked

Unlock ==
    /\ ~stopped /\ is_locked
    /\ is_locked' = FALSE
    /\ late' = 0
    /\ UNCHANGED <<info, processes, launched, sigchld, reaping, stopped, presses>>
    /\ UNCHANGED <<doing, early>>
-----------------------------------------------------------------------------
\* The processes and the clock.

Die(p) ==
    /\ ~stopped
    /\ child[p] # None /\ child[p].state = "up"
    /\ \E s \in {"failed", "done"} : child' = [child EXCEPT ![p].state = s]
    /\ sigchld' = TRUE
    /\ UNCHANGED <<info, shell_component_pids, recording>>
    /\ UNCHANGED <<launched, is_locked, reaping, stopped, presses, doing, early, late>>

\* More than three seconds have gone by since i was last launched: reap() takes
\* less.
Ages(i) ==
    /\ ~reaping /\ ~stopped
    /\ ~aged[i]
    /\ aged' = [aged EXCEPT ![i] = TRUE]
    /\ UNCHANGED <<runs_in_quick_succession, handle, abandoned, processes, control>>
    /\ UNCHANGED <<doing, early, late>>
-----------------------------------------------------------------------------
Init ==
    /\ child = [p \in Proc |-> None]
    /\ shell_component_pids = [p \in Proc |-> None]
    /\ recording = [p \in Proc |-> None]
    /\ runs_in_quick_succession = [i \in Info |-> 0]
    /\ aged = [i \in Info |-> TRUE]
    /\ handle = {} /\ abandoned = {} /\ launched = {}
    /\ is_locked = FALSE /\ sigchld = FALSE /\ reaping = FALSE /\ stopped = FALSE
    /\ presses = 0
    /\ doing = None /\ early = {} /\ late = 0

Next ==
    \/ \E c \in Component : LaunchComponent(c)
    \/ HandleSignal
    \/ \E p \in Proc : Reap(p)
    \/ Lookup \/ OnReap \/ Launch
    \/ ReapEnd
    \/ \E i \in Info : TimerFires(i)
    \/ Relaunch
    \/ Shutdown
    \/ \E o \in {Shell, App} : Press(o)
    \/ \E p \in Proc : Insert(p)
    \/ \E l \in LockInfo : Lock(l) \/ Idle(l)
    \/ Unlock
    \/ \E p \in Proc : Die(p)
    \/ \E i \in Info : Ages(i)

\* The main loop serves its sources and callbacks return.  A timer waits for
\* the main loop to be between two calls of reap(), hence strong fairness.
Fairness ==
    /\ \A c \in Component : WF_vars(LaunchComponent(c))
    /\ WF_vars(HandleSignal)
    /\ WF_vars(\E p \in Proc : Reap(p))
    /\ WF_vars(Lookup) /\ WF_vars(OnReap) /\ WF_vars(Launch)
    /\ WF_vars(ReapEnd)
    /\ \A c \in Component : SF_vars(TimerFires(c))
    /\ WF_vars(Relaunch)

Spec == Init /\ [][Next]_vars
FairSpec == Spec /\ Fairness
-----------------------------------------------------------------------------
TypeOK ==
    /\ child \in [Proc -> Process \cup {None}]
    /\ shell_component_pids \in [Proc -> Info \cup {Shell, None}]
    /\ recording \in [Proc -> Info \cup {Shell, None}]
    /\ runs_in_quick_succession \in [Info -> 0 .. max_too_short_reruns_in_a_row]
    /\ aged \in [Info -> BOOLEAN]
    /\ handle \subseteq Info /\ abandoned \subseteq Info /\ launched \subseteq Info
    /\ {is_locked, sigchld, reaping, stopped} \subseteq BOOLEAN
    /\ presses \in 0 .. MaxPresses
    /\ doing \in Reaped \cup Handling \cup {None}
    /\ early \subseteq Proc
    /\ late \in Nat

\* on_reap has been called for i, and has not launched it yet.
Awaited(i) == (At("on_reap") \/ At("launch")) /\ doing.info = i

\* No launch ever duplicates a command: of its process, running or dead, its
\* restart timer and its on_reap there is one at most (reap() erases before it
\* restarts, the timer resets its handle first).  A lock screen may have one
\* more process, whose pid was handed out between waitpid and the lookup
\* (lines 105-111); a component never has.
OneEach ==
    \A i \in Info :
        LET known == {p \in Running(i) : i \in LockInfo => p \notin early}
        IN  Cardinality(known) + (IF i \in handle THEN 1 ELSE 0)
                               + (IF Awaited(i) THEN 1 ELSE 0) <= 1

\* A shell process keeps its privileges across restarts: once recorded it is
\* found by enable_for_shell_pids for as long as it runs, whichever pids have
\* been erased or used again in the meantime; unless its own pid was handed out
\* between waitpid and the lookup, which never happens to a component.
StaysRecorded ==
    \A p \in Proc :
        (/\ ~stopped /\ child[p] # None /\ child[p].owner # App
         /\ child[p].state = "up" /\ recording[p] = None
         /\ child[p].owner \in Component \/ p \notin early)
            => is_found(p)

\* The pids that anything knows as those of i.
Traces(i) ==
    {p \in Proc : \/ shell_component_pids[p] = i
                  \/ recording[p] = i
                  \/ child[p] # None /\ child[p].owner = i /\ p \notin early}

\* A command has one pid at most, none while its restart is pending, and the
\* pid is recorded once.
OneTrace ==
    /\ \A i \in Info : \A p, q \in Traces(i) : p = q
    /\ \A i \in Info : i \in handle \/ Awaited(i) => Traces(i) = {}
    /\ \A p, q \in Proc :
          shell_component_pids[p] \in Info => recording[q] # shell_component_pids[p]

\* Nothing is left of what has not been launched yet.
Fresh == \A i \in Info \ launched : Traces(i) = {} /\ i \notin handle /\ ~Awaited(i)

\* A restart that is pending is one of those allowed, and is one restart.
Allowed ==
    /\ \A i \in handle : ~GivesUp(i)
    /\ At("relaunch") => doing.info \in handle
    /\ \A i \in handle : ~Awaited(i)

\* A pid that has been waited for and is in use again was handed out early, by
\* another thread than the main loop.
Early ==
    /\ At("reaped") => child[doing.pid] = None \/ doing.pid \in early
    /\ \A p \in early : child[p] # None /\ child[p].owner \notin Component

\* What is left of a lock that is over: the one restart that the main loop had
\* decided before the unlock, or nothing.
Late ==
    ~is_locked /\ late # 0
        => ~((At("launch") \/ At("relaunch")) /\ doing.info \in LockInfo)

\* However many lock screens wait for their timers or have failed, the main loop
\* restarts at most one of them once the session is unlocked: the one for which
\* it had read is_locked before (lines 201 and 219) and not yet launched.
OneLateAtMost == late <= 1

\* The stop callback waits for the one before it.
Finished == stopped => doing = None

\* The inductive invariant.  An entry may be stale, with the pid of a process of
\* another command; it is then the only trace of its own, which is why acting on
\* it does not start a command twice.
IInv ==
    /\ TypeOK
    /\ OneTrace
    /\ Fresh
    /\ Allowed
    /\ Early
    /\ Late
    /\ OneLateAtMost
    /\ Finished
    /\ StaysRecorded

\* A component that fails is running again some time later, unless the log
\* says that it will not be or the compositor stops: no SIGCHLD that stands
\* for several deaths, no timer and no slow or quick run loses it.
Restarted ==
    \A c \in Component :
        (\E p \in Proc : /\ child[p] = [owner |-> c, state |-> "failed"]
                         /\ shell_component_pids[p] = c)
            ~> ((\E q \in Proc : child[q] = [owner |-> c, state |-> "up"])
                \/ c \in abandoned \/ stopped)

\* The main loop has waited for c and is on its way to restart it.
Pending(c) ==
    \/ /\ At("reaped")
       /\ doing.was.state = "failed" /\ shell_component_pids[doing.pid] = c
    \/ Awaited(c)

\* How a component stands, for the refinement below.
Status(c) ==
    IF c \notin launched THEN "new"
    ELSE IF c \in handle THEN "paused"
    ELSE IF Pending(c) THEN "failed"
    ELSE IF \E p \in Running(c) : child[p].state = "up" THEN "running"
    ELSE IF \E p \in Running(c) : child[p].state = "failed" THEN "failed"
    ELSE "over"

S == INSTANCE Supervisor WITH
        Command <- Component,
        MaxQuick <- max_too_short_reruns_in_a_row,
        status <- [c \in Component |-> Status(c)],
        long <- {c \in Component : aged[c] /\ Status(c) \in {"running", "failed"}},
        quick <- [c \in Component |-> runs_in_quick_succession[c]]

\* For its components, child control implements Supervisor: with pids used
\* again, deaths unseen and inserts that come late, each still runs once at a
\* time and is restarted as its last run deserves (lines 154-220).  A lock
\* screen does not: lost as in CallsOnReap, it is started again when a process
\* that was given its pid fails.
ImplementsSupervisor == S!Spec

\* "Keep track of interesting "shell" child processes and call the
\* corresponding `on_reap` if they fail": what reap() finds for a process that
\* failed is the restart of its own command.
CallsOnReap ==
    [][(Lookup /\ doing.was.state = "failed" /\ doing.was.owner \in Info)
            => shell_component_pids[doing.pid] = doing.was.owner]_vars
=============================================================================
