--------------------------- MODULE MCRuntimeClose ---------------------------
(* Model-checking instance of RuntimeClose. *)
EXTENDS RuntimeClose
=============================================================================
