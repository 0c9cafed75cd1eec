---------------------------- MODULE MCWorkspaces ----------------------------
(***************************************************************************)
(* Workspaces on small instances: two or three workspace objects and two   *)
(* windows.                                                                *)
(***************************************************************************)
EXTENDS Workspaces, TLC

Symmetry == Permutations(Workspace) \cup Permutations(Window)

\* old_state is read only while a window is hidden: states that differ in the
\* old_state of a window in view behave alike.
View ==
    <<workspaces, active, remembered, tools, member, focus,
      [w \in Window |-> IF info[w].in_hidden_workspace
                        THEN info[w] ELSE [info[w] EXCEPT !.old_state = "unknown"]]>>
=============================================================================
