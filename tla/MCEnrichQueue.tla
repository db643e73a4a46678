--------------------------- MODULE MCEnrichQueue ---------------------------
(* Small instances of EnrichQueue.                                         *)
EXTENDS EnrichQueue

CONSTANTS w1, w2, w3
=============================================================================
