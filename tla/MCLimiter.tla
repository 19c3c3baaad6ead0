----------------------------- MODULE MCLimiter -----------------------------
(* Model-checking instance of Limiter. *)
EXTENDS Limiter
=============================================================================
