------------------------- MODULE MCOrphanOperation -------------------------
(* Small instances of OrphanOperation: inodes and paths are                *)
(* interchangeable.                                                        *)
EXTENDS OrphanOperation, TLC

Symmetry == Permutations(File) \cup Permutations(Slot)

=============================================================================
