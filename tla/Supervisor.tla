----------------------------- MODULE Supervisor -----------------------------
(***************************************************************************)
(* What launch_shell promises for a command, without processes, pids,      *)
(* signals or timers: one run at a time; a run that fails is followed by   *)
(* another at once if it was long, after a pause if it was short, and by   *)
(* none after MaxQuick short ones in a row.                                *)
(***************************************************************************)
EXTENDS Naturals

CONSTANTS Command, MaxQuick

VARIABLES
    status,     \* of each command
    long,       \* the commands whose current run has been a long one
    quick       \* the restarts in a row that followed a pause

vars == <<status, long, quick>>

Becomes(i, s) == status' = [status EXCEPT ![i] = s]

Start(i) ==
    /\ status[i] = "new"
    /\ Becomes(i, "running")
    /\ quick' = [quick EXCEPT ![i] = 0]
    /\ UNCHANGED long

\* A run is as long as the time from its start until its end is noticed.
Lasts(i) ==
    /\ status[i] \in {"running", "failed"}
    /\ long' = long \cup {i}
    /\ UNCHANGED <<status, quick>>

Fails(i) ==
    /\ status[i] = "running"
    /\ Becomes(i, "failed")
    /\ UNCHANGED <<long, quick>>

\* A run that succeeds, one that failed after the last restart allowed, and
\* one whose restart is not wanted or cannot be arranged.
Ends(i) ==
    /\ status[i] \in {"running", "failed"}
    /\ Becomes(i, "over")
    /\ long' = long \ {i}
    /\ UNCHANGED quick

RestartAtOnce(i) ==
    /\ status[i] = "failed" /\ i \in long
    /\ Becomes(i, "running")
    /\ long' = long \ {i}
    /\ quick' = [quick EXCEPT ![i] = 0]

Pause(i) ==
    /\ status[i] = "failed" /\ i \notin long
    /\ quick[i] < MaxQuick
    /\ Becomes(i, "paused")
    /\ UNCHANGED <<long, quick>>

RestartAfterPause(i) ==
    /\ status[i] = "paused"
    /\ Becomes(i, "running")
    /\ quick' = [quick EXCEPT ![i] = @ + 1]
    /\ UNCHANGED long

Init ==
    /\ status = [i \in Command |-> "new"]
    /\ long = {}
    /\ quick = [i \in Command |-> 0]

Next ==
    \E i \in Command :
        \/ Start(i) \/ Lasts(i) \/ Fails(i) \/ Ends(i)
        \/ RestartAtOnce(i) \/ Pause(i) \/ RestartAfterPause(i)

Spec == Init /\ [][Next]_vars
=============================================================================
