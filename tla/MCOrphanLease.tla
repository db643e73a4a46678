--------------------------- MODULE MCOrphanLease ---------------------------
(* The instance of OrphanLease that TLC checks sits on the edge: a renewal *)
(* that is any later than Lateness comes after the expiry, and a statement *)
(* may be held up for longer than the whole lease.                         *)
EXTENDS OrphanLease

ASSUME OnTheEdge ==
    /\ Interval + 2 * Lateness = TTL
    /\ Gap > TTL

=============================================================================
