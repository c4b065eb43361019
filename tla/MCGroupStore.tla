---------------------------- MODULE MCGroupStore ----------------------------
(* Instances of GroupStore for TLC.                                         *)
EXTENDS GroupStore
CONSTANTS t1, t2, t3, dflt, g1, a, c, d
=============================================================================
