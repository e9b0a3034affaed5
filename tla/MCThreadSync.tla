---------------------------- MODULE MCThreadSync ----------------------------
(* ThreadSync for TLC.                                                     *)
EXTENDS ThreadSync
=============================================================================
