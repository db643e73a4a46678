--------------------------- MODULE ResumableScan ---------------------------
(***************************************************************************)
(* What a persisted cursor promises, without runs, locks, versions or      *)
(* failures: the torrents of a downloader are written in the order of      *)
(* their hashes, and the cursor only ever stands behind torrents that have *)
(* been written since it last stood at the beginning, or that the pass     *)
(* begun there was not about.                                              *)
(***************************************************************************)
EXTENDS Naturals

CONSTANTS Scan,   \* the independent scans: a downloader and a kind of sync
          Partial,\* the scans that may begin a pass over a part of the torrents
          Length  \* torrents of a downloader, numbered by their sorted hash

VARIABLES cursor, \* the last torrent that need not be done again, 0 is none
          done    \* the torrents the pass has written or need not write

Torrent == 1..Length

Init ==
    /\ cursor = [s \in Scan |-> 0]
    /\ done = [s \in Scan |-> {}]

Write(s, torrents) ==
    /\ done' = [done EXCEPT ![s] = @ \cup torrents]
    /\ UNCHANGED cursor

Record(s, c) ==
    /\ 1..c \subseteq done[s]
    /\ cursor' = [cursor EXCEPT ![s] = c]
    /\ UNCHANGED done

(* A pass that begins at the first torrent owes nothing to earlier ones:   *)
(* all the torrents it is about are to be written.                         *)
BeginAgain(s, about) ==
    /\ cursor[s] = 0
    /\ about # Torrent => s \in Partial
    /\ done' = [done EXCEPT ![s] = Torrent \ about]
    /\ UNCHANGED cursor

(* A pass that is taken up again is about all that lies beyond its cursor. *)
TakeUp(s) ==
    /\ s \in Partial
    /\ done' = [done EXCEPT ![s] = @ \ (cursor[s] + 1)..Length]
    /\ UNCHANGED cursor

(* The pass is complete: the next one begins at the first torrent.         *)
Close(s) ==
    /\ cursor' = [cursor EXCEPT ![s] = 0]
    /\ done' = [done EXCEPT ![s] = {}]

Next ==
    \E s \in Scan :
        \/ TakeUp(s)
        \/ Close(s)
        \/ \E about \in SUBSET Torrent : BeginAgain(s, about)
        \/ \E torrents \in SUBSET Torrent : Write(s, torrents)
        \/ \E c \in 0..Length : Record(s, c)

Spec == Init /\ [][Next]_<<cursor, done>>

CursorBehindData == \A s \in Scan : 1..cursor[s] \subseteq done[s]
=============================================================================
