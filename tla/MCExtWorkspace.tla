--------------------------- MODULE MCExtWorkspace ---------------------------
(***************************************************************************)
(* ExtWorkspace with a few workspace objects, an output and a panel.       *)
(***************************************************************************)
EXTENDS ExtWorkspace, TLC

Symmetry == Permutations(Workspace)
=============================================================================
