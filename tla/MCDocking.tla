----------------------------- MODULE MCDocking -----------------------------
(***************************************************************************)
(* Docking with two outputs of different widths, side by side, a normal    *)
(* window and a dialog.                                                    *)
(***************************************************************************)
EXTENDS Docking

E(left, width) == [left |-> left, width |-> width]
MCExtents == {E(0, 6), E(6, 9), E(6, 6)}
MCLefts == {-1, 11, 12}
=============================================================================
