-------------------------- MODULE OrphanOperation --------------------------
(***************************************************************************)
(* One orphan file on its way through quarantine, purge and restore        *)
(* (backend/app/services/orphan_file_service.py, orphan_quarantine.py,     *)
(* orphan_lifecycle_service.py).  The row of orphan_current_candidate and  *)
(* the file system change in separate steps; the row carries a journal     *)
(* (operation_state, operation_target_path) that is written before a file  *)
(* is moved and read by _recover_interrupted_operations after a crash.     *)
(*                                                                         *)
(* The maintenance lease lets one worker at a time do this (OrphanLease    *)
(* says when), so there is one worker here.  Between two of its steps the  *)
(* process may die, an exception may end the operation, a downloader may   *)
(* start or stop to use the path, and other programs may touch the files.  *)
(***************************************************************************)
EXTENDS Naturals, FiniteSets

CONSTANTS File,         \* inodes
          Slot,         \* paths below a quarantine root
          None,
          LinkFallback, \* renameat2 is missing: link, then unlink
          Restoring,    \* restore_quarantined is called
          Intrusion,    \* when other programs touch the files
          MaxAborts     \* bound: crashes and exceptions in the middle

Source == "source"      \* the candidate's canonical_path
Place  == Slot \cup {Source}

ASSUME OrphanAssumption ==
    /\ None \notin File \cup Place \cup {"set", "clear"}
    /\ Source \notin Slot
    /\ LinkFallback \in BOOLEAN
    /\ Restoring \in BOOLEAN
    /\ Intrusion \in {"settled", "steps", "anytime"}
    /\ MaxAborts \in Nat

VARIABLES
    fs,         \* the inode each path names
    status,     \* of the candidate
    op,         \* its operation_state
    ident,      \* the inode it was recorded with
    qpath,      \* its quarantine_path
    target,     \* its operation_target_path
    cleaned,    \* is_deleted of its current detail
    expected,   \* a torrent of a downloader uses the canonical path
    ignored,    \* the candidate's is_ignored: a user protects the file
    ignoring,   \* the value a set_ignored call is about to commit, or None
    pc,         \* where the worker is
    referenced, \* expected, as the worker's manifest says
    spared,     \* ignored, as the worker's session has loaded it
    found,      \* the inode the scan has met at the canonical path
    aborts      \* operations cut short so far

row     == <<status, op, ident, qpath, target, cleaned>>
outside == <<expected, ignored, ignoring>>
view    == <<referenced, spared>>
vars    == <<fs, row, outside, pc, view, found, aborts>>

Exists(p) == p # None /\ fs[p] # None
Present(f) == \E p \in Place : fs[p] = f

(* verify_file_identity: size, mtime_ns, device and inode are the recorded *)
(* ones.                                                                   *)
Recorded(p) == p # None /\ fs[p] = ident

(* build_quarantine_path: a new private directory, so a path nobody names. *)
Fresh(s) == fs[s] = None /\ s \notin {qpath, target}

Init ==
    /\ \E f \in File : ident = f /\ fs = [p \in Place |-> IF p = Source THEN f ELSE None]
    /\ status = "candidate"
    /\ op = "stable"
    /\ qpath = None
    /\ target = None
    /\ cleaned = FALSE
    /\ expected = FALSE
    /\ ignored = FALSE
    /\ ignoring = None
    /\ pc = "idle"
    /\ referenced = FALSE
    /\ spared = FALSE
    /\ found = None
    /\ aborts = 0

-----------------------------------------------------------------------------
(* Shapes of steps.                                                        *)

Goto(from, to) == pc = from /\ pc' = to

(* A step of the worker on the row only, or on the files only.             *)
RowOnly  == UNCHANGED <<fs, outside, view, found, aborts>>
FileOnly == UNCHANGED <<row, outside, view, found, aborts>>

Settle(s, o, q, t, d) ==
    /\ status' = s
    /\ op' = o
    /\ qpath' = q
    /\ target' = t
    /\ cleaned' = d
    /\ UNCHANGED ident

(* _commit_candidate_state with the journal emptied; _mark_purged.         *)
Stabilise(s) == Settle(s, "stable", qpath, None, cleaned)

(***************************************************************************)
(* quarantine_file: move a file to a new path without replacing anything,  *)
(* then compare what was moved with the recorded identity and move it back *)
(* if it is another one.                                                   *)
(***************************************************************************)
Rename(from, to, here, check) ==
    /\ Goto(here, check)
    /\ Exists(from) /\ fs[to] = None
    /\ fs' = [fs EXCEPT ![to] = fs[from], ![from] = None]
    /\ FileOnly

Link(from, to, here, unlink) ==
    /\ LinkFallback
    /\ Goto(here, unlink)
    /\ Exists(from) /\ fs[to] = None
    /\ fs' = [fs EXCEPT ![to] = fs[from]]
    /\ FileOnly

Unlink(from, unlink, check) ==
    /\ Goto(unlink, check)
    /\ Exists(from)
    /\ fs' = [fs EXCEPT ![from] = None]
    /\ FileOnly

(* Mutant: a file that is not the recorded one goes on to the next step.   *)
MVerifyNothing(from, to, check, next) ==
    /\ Goto(check, next)
    /\ FileOnly
    /\ UNCHANGED fs

Verify(from, to, check, next) ==
    /\ pc = check
    /\ FileOnly
    /\ IF Recorded(to)
         THEN pc' = next /\ UNCHANGED fs
         ELSE /\ pc' = "idle"
              /\ fs' = IF Exists(from) \/ ~Exists(to) THEN fs
                       ELSE [fs EXCEPT ![from] = fs[to], ![to] = None]

-----------------------------------------------------------------------------
(* In a settled world no operation starts while a call of set_ignored is   *)
(* between its read and its commit.                                        *)
Undisturbed == Intrusion = "settled" => ignoring = None

(* A maintenance scope: recovery comes first in cleanup_orphans,           *)
(* auto_cleanup_expired, purge_quarantine_now and purge_expired_quarantine.*)
(* The manifest that recovery decides by is read here, once.               *)
Begin ==
    /\ Undisturbed
    /\ Goto("idle", "recover")
    /\ referenced' = expected
    /\ UNCHANGED <<fs, row, outside, spared, found, aborts>>

Leave ==
    /\ Goto("ready", "idle")
    /\ UNCHANGED <<fs, row, outside, view, found, aborts>>

(* The rows and the real-time manifest are read once for the whole batch.  *)
ReadManifest ==
    /\ Goto("ready", "checked")
    /\ referenced' = expected
    /\ spared' = ignored
    /\ UNCHANGED <<fs, row, outside, found, aborts>>

(* What the query of cleanable rows and the checks of the loop let pass.   *)
Cleanable ==
    /\ status = "candidate" /\ op = "stable" /\ ~cleaned
    /\ ~spared
    /\ ~referenced
    /\ Recorded(Source)

(* The journal entry of _quarantine_candidate.                             *)
CleanupJournal ==
    /\ Goto("checked", "qMove")
    /\ Cleanable
    /\ \E s \in Slot :
         /\ Fresh(s)
         /\ Settle(status, "quarantine_pending", qpath, s, cleaned)
    /\ RowOnly

CleanupRefused ==
    /\ Goto("checked", "idle")
    /\ ~Cleanable
    /\ UNCHANGED <<fs, row, outside, view, found, aborts>>

QuarantineMove ==
    \/ Rename(Source, target, "qMove", "qCheck")
    \/ Link(Source, target, "qMove", "qUnlink")
    \/ Unlink(Source, "qUnlink", "qCheck")
    \/ Verify(Source, target, "qCheck", "qFinalize")

(* Mutant: the journal entry is not cleared.                               *)
MFinalizeKeepsTarget ==
    /\ Goto("qFinalize", "ready")
    /\ ~cleaned
    /\ Settle("quarantined", "stable", target, target, TRUE)
    /\ RowOnly

(* _finalize_quarantine: candidate and detail in one transaction.          *)
FinalizeQuarantine ==
    /\ Goto("qFinalize", "ready")
    /\ ~cleaned
    /\ Settle("quarantined", "stable", target, None, TRUE)
    /\ RowOnly

(* Purge: _purge_single_candidate, and the loop of purge_expired_quarantine *)
(* which takes the same steps.  Nothing left to delete:                    *)
PurgeMissing ==
    /\ Goto("ready", "idle")
    /\ status = "quarantined" /\ op = "stable"
    /\ ~Exists(qpath)
    /\ Stabilise("purged")
    /\ RowOnly

(* The checks and the journal entry of a purge.  A torrent that uses the   *)
(* path stops it only if a manifest can be read, so it may go on anyway.   *)
PurgeJournal ==
    /\ Goto("ready", "pMove")
    /\ status = "quarantined" /\ op = "stable"
    /\ Recorded(qpath)
    /\ \E s \in Slot :
         /\ Fresh(s)
         /\ Settle(status, "purge_pending", qpath, s, cleaned)
    /\ RowOnly

PurgeMove ==
    \/ Rename(qpath, target, "pMove", "pCheck")
    \/ Link(qpath, target, "pMove", "pUnlink")
    \/ Unlink(qpath, "pUnlink", "pCheck")
    \/ Verify(qpath, target, "pCheck", "pRemove")

(* os.remove of the tombstone.                                             *)
PurgeRemove ==
    /\ Goto("pRemove", "pMark")
    /\ Recorded(target)
    /\ fs' = [fs EXCEPT ![target] = None]
    /\ FileOnly

MarkPurged ==
    /\ Goto("pMark", "ready")
    /\ Stabilise("purged")
    /\ RowOnly

(* restore_quarantined: the checks, then an await of the lease, then       *)
(* os.rename, which replaces what is at the canonical path.                *)
RestoreCheck ==
    /\ Restoring /\ Undisturbed
    /\ Goto("idle", "rMove")
    /\ status = "quarantined" /\ op = "stable"
    /\ Recorded(qpath)
    /\ ~Exists(Source)
    /\ UNCHANGED <<fs, row, outside, view, found, aborts>>

RestoreMove ==
    /\ Goto("rMove", "rFinalize")
    /\ Exists(qpath)
    /\ fs' = [fs EXCEPT ![Source] = fs[qpath], ![qpath] = None]
    /\ FileOnly

FinalizeRestore ==
    /\ Goto("rFinalize", "idle")
    /\ Settle("candidate", "stable", None, None, FALSE)
    /\ RowOnly

(* A full scan: the walk, and the reconciliation with what it has found.   *)
(* A file that comes back after it was resolved is no longer ignored.      *)
ScanWalk ==
    /\ Undisturbed
    /\ Goto("idle", "scanned")
    /\ found' = IF expected THEN None ELSE fs[Source]
    /\ UNCHANGED <<fs, row, outside, view, aborts>>

(* Mutant: clears the journal of a candidate the scan did not meet.        *)
MScanClearsJournal ==
    /\ Goto("scanned", "idle")
    /\ IF found # None
         THEN status' = "candidate" /\ ident' = found /\ cleaned' = FALSE
         ELSE /\ status' = IF status = "candidate" THEN "resolved" ELSE status
              /\ UNCHANGED <<ident, cleaned>>
    /\ ignored' = (ignored /\ ~(found # None /\ status # "candidate"))
    /\ op' = "stable"
    /\ target' = None
    /\ UNCHANGED <<qpath, fs, expected, ignoring, view, found, aborts>>

ScanReconcile ==
    /\ Goto("scanned", "idle")
    /\ IF found # None
         THEN /\ status' = "candidate"
              /\ op' = "stable"
              /\ target' = None
              /\ ident' = found
              /\ cleaned' = FALSE
         ELSE /\ status' = IF status = "candidate" THEN "resolved" ELSE status
              /\ UNCHANGED <<op, target, ident, cleaned>>
    /\ ignored' = (ignored /\ ~(found # None /\ status # "candidate"))
    /\ UNCHANGED <<qpath, fs, expected, ignoring, view, found, aborts>>

-----------------------------------------------------------------------------
(* _recover_interrupted_operations.                                        *)

(* Nothing pending, no manifest for a pending quarantine, or a state that  *)
(* is left to a human: go on, the journal stays.                           *)
Unrecoverable ==
    \/ op = "purge_pending" /\ Exists(qpath) /\ Exists(target)
    \/ Exists(target) /\ ~Recorded(target)
    \/ op = "quarantine_pending" /\ Exists(target) /\ Exists(Source)
                                 /\ fs[Source] # fs[target]
    \/ op = "quarantine_pending" /\ ~Exists(target) /\ ~Exists(Source)

RecoverNothing ==
    /\ Goto("recover", "ready")
    /\ op \in {"stable", "quarantine_pending"} \/ Unrecoverable
    /\ UNCHANGED <<fs, row, outside, view, found, aborts>>

(* Mutant: a pending purge whose file has not moved is taken as done.      *)
MRecoverPurgeMarks ==
    /\ op = "purge_pending" /\ ~Unrecoverable
    /\ \/ /\ Exists(target)
          /\ Goto("recover", "pMark")
          /\ fs' = [fs EXCEPT ![target] = None]
          /\ FileOnly
       \/ /\ ~Exists(target)
          /\ Goto("recover", "ready")
          /\ Stabilise("purged")
          /\ RowOnly

RecoverPurge ==
    /\ op = "purge_pending" /\ ~Unrecoverable
    /\ \/ /\ Exists(target)                       \* moved, not removed
          /\ Goto("recover", "pMark")
          /\ fs' = [fs EXCEPT ![target] = None]
          /\ FileOnly
       \/ /\ ~Exists(target) /\ Exists(qpath)     \* not moved
          /\ Goto("recover", "ready")
          /\ Stabilise("quarantined")
          /\ RowOnly
       \/ /\ ~Exists(target) /\ ~Exists(qpath)    \* removed, not marked
          /\ Goto("recover", "ready")
          /\ Stabilise("purged")
          /\ RowOnly

(* Mutant: both names of a linked file are removed.                        *)
MRecoverUnlinksBoth ==
    /\ op = "quarantine_pending" /\ ~Unrecoverable
    /\ Exists(target) /\ Exists(Source)
    /\ fs' = [fs EXCEPT ![Source] = None, ![target] = None]
    /\ Goto("recover", "ready")
    /\ FileOnly

(* Both names of the same inode: keep the one a torrent uses, else the     *)
(* quarantined one.                                                        *)
RecoverLinked ==
    /\ op = "quarantine_pending" /\ ~Unrecoverable
    /\ Exists(target) /\ Exists(Source)
    /\ IF referenced
         THEN /\ Goto("recover", "rqResolve")
              /\ fs' = [fs EXCEPT ![target] = None]
         ELSE /\ Goto("recover", "qFinalize")
              /\ fs' = [fs EXCEPT ![Source] = None]
    /\ FileOnly

RecoverResolve ==
    /\ Goto("rqResolve", "ready")
    /\ Stabilise("resolved")
    /\ RowOnly

(* Mutant: only a move that happened is recovered.                         *)
MRecoverMovedOnly ==
    /\ op = "quarantine_pending" /\ ~Unrecoverable
    /\ Exists(target) /\ ~Exists(Source)
    /\ Goto("recover", "qFinalize")
    /\ UNCHANGED <<fs, row, outside, view, found, aborts>>

(* One name only: finalize a move that happened; undo the entry of one     *)
(* that did not if a torrent uses the file by now, else do it.             *)
RecoverMoved ==
    /\ op = "quarantine_pending" /\ ~Unrecoverable
    /\ ~(Exists(target) /\ Exists(Source))
    /\ \/ /\ Exists(target)
          /\ Goto("recover", "qFinalize")
          /\ UNCHANGED <<fs, row, outside, view, found, aborts>>
       \/ /\ Exists(Source) /\ referenced
          /\ Goto("recover", "ready")
          /\ Stabilise("resolved")
          /\ RowOnly
       \/ /\ Exists(Source) /\ ~referenced
          /\ Goto("recover", "qMove")
          /\ UNCHANGED <<fs, row, outside, view, found, aborts>>

Recover == RecoverPurge \/ RecoverLinked \/ RecoverMoved

-----------------------------------------------------------------------------
(* A crash, an exception or a lost lease: the operation ends where it is.  *)
Abort ==
    /\ pc # "idle"
    /\ aborts < MaxAborts
    /\ pc' = "idle"
    /\ aborts' = aborts + 1
    /\ UNCHANGED <<fs, row, outside, view, found>>

(* A step that cannot be taken any more raises.                            *)
Raise ==
    /\ \/ pc = "qMove" /\ (~Exists(Source) \/ fs[target] # None)
       \/ pc = "qUnlink" /\ ~Exists(Source)
       \/ pc = "qFinalize" /\ cleaned
       \/ pc = "pMove" /\ (~Exists(qpath) \/ fs[target] # None)
       \/ pc = "pUnlink" /\ ~Exists(qpath)
       \/ pc = "pRemove" /\ ~Recorded(target)
       \/ pc = "rMove" /\ ~Exists(qpath)
    /\ pc' = "idle"
    /\ UNCHANGED <<fs, row, outside, view, found, aborts>>

(* Other programs: when no operation is under way or pending; at any time  *)
(* but between a link and its unlink or a restore's check and its rename,  *)
(* where a file that comes or goes is one the code does not look for; or   *)
(* without restriction.                                                    *)
MayIntrude ==
    \/ pc = "idle" /\ op = "stable"
    \/ Intrusion = "steps" /\ pc \notin {"qUnlink", "pUnlink", "rMove"}
    \/ Intrusion = "anytime"

FileAppears ==
    /\ MayIntrude
    /\ fs[Source] = None
    /\ \E f \in File : ~Present(f) /\ f # ident /\ fs' = [fs EXCEPT ![Source] = f]
    /\ UNCHANGED <<row, outside, pc, view, found, aborts>>

FileRemoved ==
    /\ MayIntrude
    /\ \E p \in Place : Exists(p) /\ fs' = [fs EXCEPT ![p] = None]
    /\ UNCHANGED <<row, outside, pc, view, found, aborts>>

(* Mutant: no look at the operation state.                                 *)
MIgnoreReadAnyState(v) ==
    /\ ignoring = None
    /\ Intrusion = "settled" => pc = "idle"
    /\ status = "candidate" /\ ~cleaned
    /\ ignoring' = v
    /\ UNCHANGED <<fs, row, expected, ignored, pc, view, found, aborts>>

(* set_ignored: it needs no lease, so maintenance may be under way.  The   *)
(* commit writes the flag whatever has become of the candidate; a call     *)
(* that fails is one that has not been made.                               *)
IgnoreRead(v) ==
    /\ ignoring = None
    /\ Intrusion = "settled" => pc = "idle"
    /\ status = "candidate" /\ op = "stable" /\ ~cleaned
    /\ ignoring' = v
    /\ UNCHANGED <<fs, row, expected, ignored, pc, view, found, aborts>>

IgnoreCommit ==
    /\ ignoring # None
    /\ ignored' = (ignoring = "set")
    /\ ignoring' = None
    /\ UNCHANGED <<fs, row, expected, pc, view, found, aborts>>

SetIgnored == IgnoreCommit \/ \E v \in {"set", "clear"} : IgnoreRead(v)

TorrentChange ==
    /\ expected' = ~expected
    /\ UNCHANGED <<fs, row, ignored, ignoring, pc, view, found, aborts>>

-----------------------------------------------------------------------------
Cleanup == ReadManifest \/ CleanupJournal \/ CleanupRefused \/ QuarantineMove \/ FinalizeQuarantine
Purge   == PurgeMissing \/ PurgeJournal \/ PurgeMove \/ PurgeRemove \/ MarkPurged
Restore == RestoreCheck \/ RestoreMove \/ FinalizeRestore
Scan    == ScanWalk \/ ScanReconcile

Next ==
    \/ Begin \/ Leave \/ Recover \/ RecoverNothing \/ RecoverResolve
    \/ Cleanup \/ Purge \/ Restore \/ Scan
    \/ Abort \/ Raise
    \/ FileAppears \/ FileRemoved \/ TorrentChange \/ SetIgnored

Spec == Init /\ [][Next]_vars

(* Maintenance runs again and again (its cron tasks), a step once begun is *)
(* carried on, and some recovery has a manifest.                           *)
FairSpec ==
    /\ Spec
    /\ SF_vars(Begin)
    /\ SF_vars(Recover)
    /\ WF_vars(RecoverNothing \/ RecoverResolve \/ Leave \/ Raise)
    /\ WF_vars(CleanupRefused \/ QuarantineMove \/ FinalizeQuarantine)
    /\ WF_vars(PurgeMove \/ PurgeRemove \/ MarkPurged)
    /\ WF_vars(IgnoreCommit)
    /\ WF_vars(RestoreMove \/ FinalizeRestore \/ ScanReconcile)

-----------------------------------------------------------------------------
(* Every variable stays in its range, and the journal names its target.    *)
TypeOK ==
    /\ fs \in [Place -> File \cup {None}]
    /\ status \in {"candidate", "resolved", "quarantined", "purged"}
    /\ op \in {"stable", "quarantine_pending", "purge_pending"}
    /\ ident \in File
    /\ qpath \in Slot \cup {None}
    /\ target \in Slot \cup {None}
    /\ cleaned \in BOOLEAN
    /\ expected \in BOOLEAN
    /\ ignored \in BOOLEAN
    /\ ignoring \in {None, "set", "clear"}
    /\ pc \in {"idle", "recover", "ready", "checked", "qMove", "qUnlink", "qCheck",
               "qFinalize", "pMove", "pUnlink", "pCheck", "pRemove", "pMark",
               "rMove", "rFinalize", "rqResolve", "scanned"}
    /\ referenced \in BOOLEAN
    /\ spared \in BOOLEAN
    /\ found \in File \cup {None}
    /\ aborts \in 0 .. MaxAborts
    /\ op = "stable" <=> target = None
    /\ op = "purge_pending" => qpath # None

(* The worker removes the last name of a file only when it purges the file *)
(* the candidate records: no crash, retry, recovery or file in the way     *)
(* loses anything else.                                                    *)
NothingLost ==
    [][pc' # pc => \A f \in File :
           Present(f) /\ ~Present(f)' => f = ident /\ op = "purge_pending"]_vars

(* A candidate marked purged is off the disk: "physically deleted" is true *)
(* when the row says so.                                                   *)
PurgedMeansGone == status = "purged" /\ pc = "idle" => ~Present(ident)

(* Between operations every quarantined file is one the candidate leads    *)
(* to, as its quarantine path or as the target of its journal entry, so    *)
(* that it can be purged or restored.                                      *)
QuarantineTracked ==
    pc = "idle" =>
        \A s \in Slot : Exists(s) => \/ s = qpath /\ status = "quarantined"
                                     \/ s = target

(* A candidate that stands as quarantined has its file, and it is the      *)
(* recorded one, unless another program removed it.                        *)
QuarantinedIsHeld ==
    status = "quarantined" /\ op = "stable" /\ Exists(qpath) => Recorded(qpath)

(* "Ignored means protected": the file of an ignored candidate is not on   *)
(* its way to quarantine, in it, or purged; neither cleanup nor a recovery *)
(* nor an ignore during a pending operation leads there.                   *)
IgnoredIsKept ==
    ignored => op = "stable" /\ status \in {"candidate", "resolved"}

(* A journal entry does not stay: whatever a crash left behind, recovery   *)
(* brings the candidate back to a stable state.                            *)
JournalConverges == op # "stable" ~> op = "stable"

=============================================================================
