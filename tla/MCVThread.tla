------------------------------ MODULE MCVThread ------------------------------
(* Bounds for VThread: the main thread and two others, sleeps of at most     *)
(* one tick, and one call by handle.                                         *)
EXTENDS VThread
=============================================================================
