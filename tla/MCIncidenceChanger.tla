------------------------ MODULE MCIncidenceChanger ------------------------
(* Small instances of IncidenceChanger for TLC. *)
EXTENDS IncidenceChangerInductive, TLC

CONSTANTS i1, i2, i3
ItemSymmetry == Permutations(Items)
=============================================================================
