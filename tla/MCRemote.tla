------------------------------ MODULE MCRemote ------------------------------
(* Model-checking instance of Remote. *)
EXTENDS Remote
=============================================================================
