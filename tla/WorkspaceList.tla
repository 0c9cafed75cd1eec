--------------------------- MODULE WorkspaceList ---------------------------
(***************************************************************************)
(* What a user of miriway's workspaces is promised, and nothing about how  *)
(* it is done: workspaces stand in a row, exactly one of them is active,   *)
(* new ones only ever appear at the end of the row, and the only workspace *)
(* that can disappear is the one being left.                               *)
(***************************************************************************)
EXTENDS Rows

CONSTANT Workspace          \* identities of workspaces (miral::Workspace)

VARIABLES
    workspaces,             \* the row, first to last
    active                  \* the workspace on screen

Init ==
    \E ws \in Workspace :
        /\ workspaces = <<ws>>
        /\ active = ws

\* Leave the active workspace for ws in the given row; what is left may go.
Leave(row, ws) ==
    /\ active' = ws
    /\ workspaces' \in {row, Erase(row, active)}

Switch(ws) ==
    /\ ws \in Listed(workspaces) \ {active}
    /\ Leave(workspaces, ws)

Extend(ws) ==
    /\ ws \in Workspace \ Listed(workspaces)
    /\ Leave(Append(workspaces, ws), ws)

Next == \E ws \in Workspace : Switch(ws) \/ Extend(ws)

Spec == Init /\ [][Next]_<<workspaces, active>>
=============================================================================
