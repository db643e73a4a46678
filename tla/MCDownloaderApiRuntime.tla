----------------------- MODULE MCDownloaderApiRuntime -----------------------
(* Small instances of DownloaderApiRuntime.                                *)
EXTENDS DownloaderApiRuntime, TLC

TwoThreads == [l \in Lane |-> 2]
OneThread  == [l \in Lane |-> 1]

Symmetry == Permutations(Call) \cup Permutations(Downloader)

=============================================================================
