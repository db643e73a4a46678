--------------------------- MODULE MCOrphanJobs ----------------------------
(* Small instances of OrphanJobs.                                          *)
EXTENDS OrphanJobs

CONSTANTS r1, r2, i1, i2
=============================================================================
