----------------------------- MODULE MCListener -----------------------------
(* A small instance of Listener. *)
EXTENDS Listener

CONSTANTS w1, w2, m1
=============================================================================
