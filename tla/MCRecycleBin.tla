---------------------------- MODULE MCRecycleBin ----------------------------
(* Model values for TLC.                                                   *)
EXTENDS RecycleBin

CONSTANTS i1, i2, w1
=============================================================================
