------------------------------- MODULE MCGrid -------------------------------
(* Grid for TLC: the constants are given in the configurations.            *)
EXTENDS Grid
=============================================================================
