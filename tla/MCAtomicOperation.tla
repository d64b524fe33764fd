------------------------ MODULE MCAtomicOperation ------------------------
(* Small instances of AtomicOperation for TLC. *)
EXTENDS AtomicOperation
CONSTANTS i1, i2
=============================================================================
