------------------------------- MODULE MCTcp -------------------------------
(* Tcp for TLC: two connections over sixteen numbers, both sides wrap.      *)
EXTENDS Tcp

MCIss == <<15, 6>>
MCIrs == <<14, 3>>
=============================================================================
