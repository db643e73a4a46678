------------------------- MODULE MCSyncCoordinator -------------------------
(* Small instances of SyncCoordinator.                                     *)
EXTENDS SyncCoordinator

CONSTANTS d1, d2
=============================================================================
