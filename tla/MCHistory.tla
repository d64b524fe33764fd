----------------------------- MODULE MCHistory -----------------------------
(* Small instances of History for TLC; the values are in the .cfg files. *)
EXTENDS History
=============================================================================
