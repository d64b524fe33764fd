--------------------------- MODULE MCITIPHandler ---------------------------
(* Model-checks ITIPHandler. *)
EXTENDS ITIPHandler
=============================================================================
