------------------------------ MODULE MCLease ------------------------------
(* A small instance of Lease: the timeout is just long enough.               *)
EXTENDS Lease

Timeout == LeaseBound
=============================================================================
