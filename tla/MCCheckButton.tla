--------------------------- MODULE MCCheckButton ---------------------------
(* TLC instance of CheckButton: the constants are given in the .cfg files. *)
EXTENDS CheckButton
=============================================================================
