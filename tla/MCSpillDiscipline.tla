------------------------- MODULE MCSpillDiscipline -------------------------
(***************************************************************************)
(* A small instance of SpillDiscipline: two pool registers, one high one.  *)
(***************************************************************************)
EXTENDS SpillDiscipline, TLC

CONSTANTS r10, r11, r16, v1, v2

ValueSymmetry == Permutations({v1, v2})
=============================================================================
