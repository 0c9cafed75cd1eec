--------------------------- MODULE MCChildControl ---------------------------
(***************************************************************************)
(* ChildControl on a few commands, lock screens and shortcuts.             *)
(***************************************************************************)
EXTENDS ChildControl, TLC

PidSymmetry == Permutations(Proc)
=============================================================================
