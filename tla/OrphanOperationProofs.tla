----------------------- MODULE OrphanOperationProofs -----------------------
(* Theorems about OrphanOperation.                                         *)
EXTENDS OrphanOperation, TLAPS

USE DEF Goto, RowOnly, FileOnly, Settle, Stabilise, Exists, Recorded,
        row, outside, view, Place

(* Link gives a second name to a file that has one.                        *)
LEMMA LinkTypes ==
    ASSUME TypeOK, NEW from \in {Source, qpath}, NEW here, NEW unlink \in {"qUnlink", "pUnlink"},
           Link(from, target, here, unlink)
    PROVE  TypeOK'
<1>1. from \in Place /\ fs[from] \in File
  BY OrphanAssumption DEF Link, TypeOK
<1>2. fs' \in [Place -> File \cup {None}]
  BY <1>1 DEF Link, TypeOK
<1> QED BY <1>2 DEF Link, TypeOK

(* Every variable keeps its type through a step of the scope, the cleanup  *)
(* and its move to quarantine.                                             *)
LEMMA CleanupTypes ==
    ASSUME TypeOK,
           Begin \/ Leave \/ Cleanup
    PROVE  TypeOK'
<1> USE OrphanAssumption DEF TypeOK
<1>1. CASE Begin
  BY <1>1 DEF Begin
<1>2. CASE Leave
  BY <1>2 DEF Leave
<1>3. CASE ReadManifest
  BY <1>3 DEF ReadManifest
<1>4. CASE CleanupJournal
  BY <1>4 DEF CleanupJournal
<1>5. CASE CleanupRefused
  BY <1>5 DEF CleanupRefused
<1>6. CASE QuarantineMove
  <2>1. CASE Rename(Source, target, "qMove", "qCheck")
    BY <2>1 DEF Rename
  <2>2. CASE Link(Source, target, "qMove", "qUnlink")
    BY <2>2, LinkTypes
  <2>3. CASE Unlink(Source, "qUnlink", "qCheck")
    BY <2>3 DEF Unlink
  <2>4. CASE Verify(Source, target, "qCheck", "qFinalize")
    BY <2>4 DEF Verify
  <2> QED BY <1>6, <2>1, <2>2, <2>3, <2>4 DEF QuarantineMove
<1>7. CASE FinalizeQuarantine
  BY <1>7 DEF FinalizeQuarantine
<1> QED BY <1>1, <1>2, <1>3, <1>4, <1>5, <1>6, <1>7 DEF Cleanup

(* The same for purge, restore and scan.                                   *)
LEMMA PurgeTypes ==
    ASSUME TypeOK, Purge
    PROVE  TypeOK'
<1> USE OrphanAssumption DEF TypeOK
<1>1. CASE PurgeMissing
  BY <1>1 DEF PurgeMissing
<1>2. CASE PurgeJournal
  BY <1>2 DEF PurgeJournal
<1>3. CASE PurgeMove
  <2>1. CASE Rename(qpath, target, "pMove", "pCheck")
    BY <2>1 DEF Rename
  <2>2. CASE Link(qpath, target, "pMove", "pUnlink")
    BY <2>2, LinkTypes
  <2>3. CASE Unlink(qpath, "pUnlink", "pCheck")
    BY <2>3 DEF Unlink
  <2>4. CASE Verify(qpath, target, "pCheck", "pRemove")
    BY <2>4 DEF Verify
  <2> QED BY <1>3, <2>1, <2>2, <2>3, <2>4 DEF PurgeMove
<1>4. CASE PurgeRemove
  BY <1>4 DEF PurgeRemove
<1>5. CASE MarkPurged
  BY <1>5 DEF MarkPurged
<1> QED BY <1>1, <1>2, <1>3, <1>4, <1>5 DEF Purge

LEMMA RestoreAndScanTypes ==
    ASSUME TypeOK, Restore \/ Scan
    PROVE  TypeOK'
<1> USE OrphanAssumption DEF TypeOK
<1>1. CASE RestoreCheck
  BY <1>1 DEF RestoreCheck
<1>2. CASE RestoreMove
  BY <1>2 DEF RestoreMove
<1>3. CASE FinalizeRestore
  BY <1>3 DEF FinalizeRestore
<1>4. CASE ScanWalk
  BY <1>4 DEF ScanWalk
<1>5. CASE ScanReconcile
  <2>1. CASE found # None
    BY <1>5, <2>1 DEF ScanReconcile
  <2>2. CASE found = None
    BY <1>5, <2>2 DEF ScanReconcile
  <2> QED BY <2>1, <2>2
<1> QED BY <1>1, <1>2, <1>3, <1>4, <1>5 DEF Restore, Scan

(* The same for recovery and for an operation that ends early.             *)
LEMMA RecoverTypes ==
    ASSUME TypeOK, Recover \/ RecoverNothing \/ RecoverResolve \/ Abort \/ Raise
    PROVE  TypeOK'
<1> USE OrphanAssumption DEF TypeOK
<1>1. CASE RecoverPurge
  BY <1>1 DEF RecoverPurge
<1>2. CASE RecoverLinked
  BY <1>2 DEF RecoverLinked
<1>3. CASE RecoverMoved
  BY <1>3 DEF RecoverMoved
<1>4. CASE RecoverNothing
  BY <1>4 DEF RecoverNothing
<1>5. CASE RecoverResolve
  BY <1>5 DEF RecoverResolve
<1>6. CASE Abort
  BY <1>6 DEF Abort
<1>7. CASE Raise
  BY <1>7 DEF Raise
<1> QED BY <1>1, <1>2, <1>3, <1>4, <1>5, <1>6, <1>7 DEF Recover

(* The same for what moves outside the worker.                             *)
LEMMA OutsideTypes ==
    ASSUME TypeOK,
           FileAppears \/ FileRemoved \/ TorrentChange \/ SetIgnored
    PROVE  TypeOK'
<1> USE OrphanAssumption DEF TypeOK
<1>1. CASE FileAppears
  BY <1>1 DEF FileAppears
<1>2. CASE FileRemoved
  BY <1>2 DEF FileRemoved
<1>3. CASE TorrentChange
  BY <1>3 DEF TorrentChange
<1>4. CASE IgnoreCommit
  BY <1>4 DEF IgnoreCommit
<1>5. ASSUME NEW v \in {"set", "clear"}, IgnoreRead(v) PROVE TypeOK'
  BY <1>5 DEF IgnoreRead
<1> QED BY <1>1, <1>2, <1>3, <1>4, <1>5 DEF SetIgnored

LEMMA InitTypes == Init => TypeOK
<1> SUFFICES ASSUME Init PROVE TypeOK
  OBVIOUS
<1>1. PICK f \in File :
        ident = f /\ fs = [p \in Place |-> IF p = Source THEN f ELSE None]
  BY DEF Init
<1>2. fs \in [Place -> File \cup {None}]
  BY <1>1
<1>3. 0 \in 0 .. MaxAborts
  BY OrphanAssumption
<1> QED BY <1>1, <1>2, <1>3 DEF Init, TypeOK

LEMMA StepTypes == TypeOK /\ [Next]_vars => TypeOK'
<1> SUFFICES ASSUME TypeOK, [Next]_vars PROVE TypeOK'
  OBVIOUS
<1>1. CASE Next
  BY <1>1, CleanupTypes, PurgeTypes, RestoreAndScanTypes, RecoverTypes,
     OutsideTypes DEF Next
<1>2. CASE UNCHANGED vars
  BY <1>2 DEF vars, TypeOK
<1> QED BY <1>1, <1>2

(* The row, the files and the worker's position keep their types, the      *)
(* journal names its target exactly while an operation is pending, and a   *)
(* pending purge has a quarantine path.                                    *)
THEOREM TypeCorrect == Spec => []TypeOK
BY InitTypes, StepTypes, PTL DEF Spec

-----------------------------------------------------------------------------
(* What stands as quarantined is the recorded file.                        *)

Held(p) == p # None => fs[p] \in {None, ident}

(* The worker's position tells which entry the journal holds, and the      *)
(* paths that an entry or the row names hold the recorded file or none:    *)
(* the target of a purge from the entry on, that of a quarantine only      *)
(* after the moved file has been compared.                                 *)
HeldInv ==
    /\ TypeOK
    /\ pc \in {"qMove", "qUnlink", "qCheck", "qFinalize"} => op = "quarantine_pending"
    /\ pc \in {"pMove", "pUnlink", "pCheck", "pRemove", "pMark"} => op = "purge_pending"
    /\ op = "quarantine_pending" => status # "quarantined"
    /\ op = "purge_pending" => Held(qpath) /\ Held(target)
    /\ pc = "qFinalize" => Held(target)
    /\ status = "quarantined" /\ op = "stable" => Held(qpath)

LEMMA HeldCleanup ==
    ASSUME HeldInv, TypeOK', Begin \/ Leave \/ Cleanup
    PROVE  HeldInv'
<1> USE OrphanAssumption DEF HeldInv, Held
<1>1. CASE Begin
  BY <1>1 DEF Begin
<1>2. CASE Leave
  BY <1>2 DEF Leave
<1>3. CASE ReadManifest
  BY <1>3 DEF ReadManifest
<1>4. CASE CleanupJournal
  BY <1>4 DEF CleanupJournal, Cleanable
<1>5. CASE CleanupRefused
  BY <1>5 DEF CleanupRefused
<1>6. CASE QuarantineMove
  <2>1. CASE Rename(Source, target, "qMove", "qCheck")
    BY <2>1 DEF Rename
  <2>2. CASE Link(Source, target, "qMove", "qUnlink")
    BY <2>2 DEF Link
  <2>3. CASE Unlink(Source, "qUnlink", "qCheck")
    BY <2>3 DEF Unlink
  <2>4. CASE Verify(Source, target, "qCheck", "qFinalize")
    BY <2>4 DEF Verify
  <2> QED BY <1>6, <2>1, <2>2, <2>3, <2>4 DEF QuarantineMove
<1>7. CASE FinalizeQuarantine
  BY <1>7 DEF FinalizeQuarantine
<1> QED BY <1>1, <1>2, <1>3, <1>4, <1>5, <1>6, <1>7 DEF Cleanup

LEMMA HeldPurge ==
    ASSUME HeldInv, TypeOK', Purge
    PROVE  HeldInv'
<1> USE OrphanAssumption DEF HeldInv, Held
<1>1. CASE PurgeMissing
  BY <1>1 DEF PurgeMissing
<1>2. CASE PurgeJournal
  BY <1>2 DEF PurgeJournal, Fresh
<1>3. CASE PurgeMove
  <2>1. CASE Rename(qpath, target, "pMove", "pCheck")
    BY <2>1 DEF Rename, TypeOK
  <2>2. CASE Link(qpath, target, "pMove", "pUnlink")
    BY <2>2 DEF Link, TypeOK
  <2>3. CASE Unlink(qpath, "pUnlink", "pCheck")
    BY <2>3 DEF Unlink, TypeOK
  <2>4. CASE Verify(qpath, target, "pCheck", "pRemove")
    BY <2>4 DEF Verify, TypeOK
  <2> QED BY <1>3, <2>1, <2>2, <2>3, <2>4 DEF PurgeMove
<1>4. CASE PurgeRemove
  BY <1>4 DEF PurgeRemove, TypeOK
<1>5. CASE MarkPurged
  BY <1>5 DEF MarkPurged
<1> QED BY <1>1, <1>2, <1>3, <1>4, <1>5 DEF Purge

LEMMA HeldRestoreAndScan ==
    ASSUME HeldInv, TypeOK', Restore \/ Scan
    PROVE  HeldInv'
<1> USE OrphanAssumption DEF HeldInv, Held
<1>1. CASE RestoreCheck
  BY <1>1 DEF RestoreCheck
<1>2. CASE RestoreMove
  <2>1. Source # qpath /\ Source # target
    BY DEF TypeOK
  <2> QED BY <1>2, <2>1 DEF RestoreMove, TypeOK
<1>3. CASE FinalizeRestore
  BY <1>3 DEF FinalizeRestore
<1>4. CASE ScanWalk
  BY <1>4 DEF ScanWalk
<1>5. CASE ScanReconcile
  <2>1. CASE found # None
    BY <1>5, <2>1 DEF ScanReconcile
  <2>2. CASE found = None
    BY <1>5, <2>2 DEF ScanReconcile
  <2> QED BY <2>1, <2>2
<1> QED BY <1>1, <1>2, <1>3, <1>4, <1>5 DEF Restore, Scan

LEMMA HeldRecover ==
    ASSUME HeldInv, TypeOK',
           Recover \/ RecoverNothing \/ RecoverResolve \/ Abort \/ Raise
    PROVE  HeldInv'
<1> USE OrphanAssumption DEF HeldInv, Held
<1>1. CASE RecoverPurge
  BY <1>1 DEF RecoverPurge, TypeOK
<1>2. CASE RecoverLinked
  BY <1>2 DEF RecoverLinked, Unrecoverable, TypeOK
<1>3. CASE RecoverMoved
  BY <1>3 DEF RecoverMoved, Unrecoverable
<1>4. CASE RecoverNothing
  BY <1>4 DEF RecoverNothing
<1>5. CASE RecoverResolve
  BY <1>5 DEF RecoverResolve
<1>6. CASE Abort
  BY <1>6 DEF Abort
<1>7. CASE Raise
  BY <1>7 DEF Raise
<1> QED BY <1>1, <1>2, <1>3, <1>4, <1>5, <1>6, <1>7 DEF Recover

LEMMA HeldOutside ==
    ASSUME HeldInv, TypeOK',
           FileAppears \/ FileRemoved \/ TorrentChange \/ SetIgnored
    PROVE  HeldInv'
<1> USE OrphanAssumption DEF HeldInv, Held
<1>1. CASE FileAppears
  <2>1. Source # qpath /\ Source # target
    BY DEF TypeOK
  <2> QED BY <1>1, <2>1 DEF FileAppears, TypeOK
<1>2. CASE FileRemoved
  BY <1>2 DEF FileRemoved, TypeOK
<1>3. CASE TorrentChange
  BY <1>3 DEF TorrentChange
<1>4. CASE IgnoreCommit
  BY <1>4 DEF IgnoreCommit
<1>5. ASSUME NEW v \in {"set", "clear"}, IgnoreRead(v) PROVE HeldInv'
  BY <1>5 DEF IgnoreRead
<1> QED BY <1>1, <1>2, <1>3, <1>4, <1>5 DEF SetIgnored

(* The invariant holds at first and through every step.                    *)
LEMMA HeldInit == Init => HeldInv
  BY InitTypes DEF Init, HeldInv

LEMMA HeldStep == HeldInv /\ [Next]_vars => HeldInv'
<1> SUFFICES ASSUME HeldInv, [Next]_vars PROVE HeldInv'
  OBVIOUS
<1>1. TypeOK'
  BY StepTypes DEF HeldInv
<1>2. CASE Next
  BY <1>1, <1>2, HeldCleanup, HeldPurge, HeldRestoreAndScan, HeldRecover, HeldOutside DEF Next
<1>3. CASE UNCHANGED vars
  BY <1>1, <1>3 DEF vars, HeldInv, Held
<1> QED BY <1>2, <1>3

(* A candidate that stands as quarantined has the recorded file or none at *)
(* its quarantine path, whatever crashes, fallbacks of the rename, scans   *)
(* and other programs do.                                                  *)
THEOREM QuarantineHolds == Spec => []QuarantinedIsHeld
<1>1. HeldInv => QuarantinedIsHeld
  BY DEF HeldInv, Held, QuarantinedIsHeld, TypeOK
<1> QED BY <1>1, HeldInit, HeldStep, PTL DEF Spec

-----------------------------------------------------------------------------
(* What is ignored is left alone.                                          *)

(* A call of set_ignored is only open when nothing is under way or pending *)
(* on a candidate; a worker that has come past the check of the flag works *)
(* on a file that is not ignored.                                          *)
IgnoreInv ==
    /\ TypeOK
    /\ IgnoredIsKept
    /\ ignoring # None => pc = "idle" /\ op = "stable" /\ status = "candidate"
    /\ ignored => pc \in {"idle", "recover", "ready", "checked", "scanned"}
    /\ pc = "checked" => spared = ignored

LEMMA IgnoreCleanup ==
    ASSUME Intrusion = "settled", IgnoreInv, TypeOK', Begin \/ Leave \/ Cleanup
    PROVE  IgnoreInv'
<1> USE DEF IgnoreInv, IgnoredIsKept
<1>1. CASE Begin
  BY <1>1 DEF Begin, Undisturbed
<1>2. CASE Leave
  BY <1>2 DEF Leave
<1>3. CASE ReadManifest
  BY <1>3 DEF ReadManifest
<1>4. CASE CleanupJournal
  BY <1>4 DEF CleanupJournal, Cleanable
<1>5. CASE CleanupRefused
  BY <1>5 DEF CleanupRefused
<1>6. CASE QuarantineMove
  BY <1>6 DEF QuarantineMove, Rename, Link, Unlink, Verify
<1>7. CASE FinalizeQuarantine
  BY <1>7 DEF FinalizeQuarantine
<1> QED BY <1>1, <1>2, <1>3, <1>4, <1>5, <1>6, <1>7 DEF Cleanup

LEMMA IgnorePurgeRestoreScan ==
    ASSUME Intrusion = "settled", IgnoreInv, TypeOK', Purge \/ Restore \/ Scan
    PROVE  IgnoreInv'
<1> USE DEF IgnoreInv, IgnoredIsKept
<1>1. CASE PurgeMissing
  BY <1>1 DEF PurgeMissing
<1>2. CASE PurgeJournal
  BY <1>2 DEF PurgeJournal
<1>3. CASE PurgeMove
  BY <1>3 DEF PurgeMove, Rename, Link, Unlink, Verify
<1>4. CASE PurgeRemove \/ MarkPurged
  BY <1>4 DEF PurgeRemove, MarkPurged
<1>5. CASE RestoreCheck
  BY <1>5 DEF RestoreCheck, Undisturbed
<1>6. CASE RestoreMove \/ FinalizeRestore
  BY <1>6 DEF RestoreMove, FinalizeRestore
<1>7. CASE ScanWalk
  BY <1>7 DEF ScanWalk, Undisturbed
<1>8. CASE ScanReconcile
  BY <1>8 DEF ScanReconcile
<1> QED BY <1>1, <1>2, <1>3, <1>4, <1>5, <1>6, <1>7, <1>8 DEF Purge, Restore, Scan

LEMMA IgnoreRecover ==
    ASSUME Intrusion = "settled", IgnoreInv, TypeOK',
           Recover \/ RecoverNothing \/ RecoverResolve \/ Abort \/ Raise
    PROVE  IgnoreInv'
<1> USE DEF IgnoreInv, IgnoredIsKept
<1>1. CASE RecoverPurge
  BY <1>1 DEF RecoverPurge
<1>2. CASE RecoverLinked
  BY <1>2 DEF RecoverLinked
<1>3. CASE RecoverMoved
  BY <1>3 DEF RecoverMoved
<1>4. CASE RecoverNothing \/ RecoverResolve
  BY <1>4 DEF RecoverNothing, RecoverResolve
<1>5. CASE Abort \/ Raise
  BY <1>5 DEF Abort, Raise
<1> QED BY <1>1, <1>2, <1>3, <1>4, <1>5 DEF Recover

LEMMA IgnoreOutside ==
    ASSUME Intrusion = "settled", IgnoreInv, TypeOK',
           FileAppears \/ FileRemoved \/ TorrentChange \/ SetIgnored
    PROVE  IgnoreInv'
<1> USE DEF IgnoreInv, IgnoredIsKept
<1>1. CASE FileAppears \/ FileRemoved \/ TorrentChange
  BY <1>1 DEF FileAppears, FileRemoved, TorrentChange
<1>2. CASE IgnoreCommit
  BY <1>2 DEF IgnoreCommit
<1>3. ASSUME NEW v \in {"set", "clear"}, IgnoreRead(v) PROVE IgnoreInv'
  BY <1>3 DEF IgnoreRead
<1> QED BY <1>1, <1>2, <1>3 DEF SetIgnored

(* If set_ignored does not race a maintenance operation, the file of an    *)
(* ignored candidate is never moved, quarantined or purged: crashes,       *)
(* recovery, restores and scans do not lead around the flag.               *)
THEOREM IgnoreProtects ==
    ASSUME Intrusion = "settled"
    PROVE  Spec => []IgnoredIsKept
<1>1. Init => IgnoreInv
  BY InitTypes DEF Init, IgnoreInv, IgnoredIsKept
<1>2. IgnoreInv /\ [Next]_vars => IgnoreInv'
  <2> SUFFICES ASSUME IgnoreInv, [Next]_vars PROVE IgnoreInv'
    OBVIOUS
  <2>1. TypeOK'
    BY StepTypes DEF IgnoreInv
  <2>2. CASE Next
    BY <2>1, <2>2, IgnoreCleanup, IgnorePurgeRestoreScan, IgnoreRecover,
       IgnoreOutside DEF Next
  <2>3. CASE UNCHANGED vars
    BY <2>1, <2>3 DEF vars, IgnoreInv, IgnoredIsKept
  <2> QED BY <2>2, <2>3
<1>3. IgnoreInv => IgnoredIsKept
  BY DEF IgnoreInv
<1> QED BY <1>1, <1>2, <1>3, PTL DEF Spec

-----------------------------------------------------------------------------
(* Nothing but a purged file is lost.                                      *)

(* Between a link and its unlink both names are of one file; between a     *)
(* restore's check and its rename nothing is at the canonical path.        *)
LossInv ==
    /\ HeldInv
    /\ pc = "qUnlink" => fs[target] = fs[Source]
    /\ pc = "pUnlink" => qpath # target /\ fs[target] = fs[qpath]
    /\ pc = "rMove" => fs[Source] = None

(* The paths an operation moves a file between are different.              *)
LEMMA Apart ==
    ASSUME HeldInv
    PROVE  /\ qpath \in Slot \cup {None} /\ target \in Slot \cup {None} /\ fs \in [Place -> File \cup {None}]
           /\ Source \notin {qpath, target} /\ None \notin Place /\ None \notin File /\ Source \in Place
           /\ pc \in {"qMove", "qUnlink", "qCheck", "qFinalize", "pMove", "pUnlink", "pCheck", "pRemove", "pMark"} =>
                target \in Slot
           /\ pc \in {"pMove", "pUnlink", "pCheck", "pRemove", "pMark"} => qpath \in Slot
  BY OrphanAssumption DEF HeldInv, TypeOK

LEMMA LossStep ==
    ASSUME Intrusion # "anytime", LossInv, [Next]_vars
    PROVE  LossInv'
<1> USE DEF LossInv
<1>1. HeldInv'
  BY HeldStep
<1>2. CASE pc' = pc /\ UNCHANGED <<qpath, target>>
           /\ (pc \in {"qUnlink", "pUnlink", "rMove"} => fs' = fs)
  BY <1>1, <1>2
<1>3. CASE pc' \notin {"qUnlink", "pUnlink", "rMove"}
  BY <1>1, <1>3
<1>4. CASE Link(Source, target, "qMove", "qUnlink") \/ Link(qpath, target, "pMove", "pUnlink")
  BY <1>1, <1>4, Apart DEF Link
<1>5. CASE RestoreCheck
  BY <1>1, <1>5, Apart DEF RestoreCheck
<1>6. CASE FileAppears \/ FileRemoved
  BY <1>2, <1>6 DEF FileAppears, FileRemoved, MayIntrude
<1>7. CASE TorrentChange \/ SetIgnored \/ UNCHANGED vars
  BY <1>2, <1>7 DEF TorrentChange, SetIgnored, IgnoreRead, IgnoreCommit, vars
<1>8. CASE Begin \/ Leave \/ Recover \/ RecoverNothing \/ RecoverResolve \/ Scan \/ Abort \/ Raise
  BY <1>3, <1>8 DEF Begin, Leave, Recover, RecoverPurge, RecoverLinked, RecoverMoved, RecoverNothing,
                    RecoverResolve, Scan, ScanWalk, ScanReconcile, Abort, Raise
<1>9. CASE Cleanup
  BY <1>3, <1>4, <1>9 DEF Cleanup, ReadManifest, CleanupJournal, CleanupRefused, QuarantineMove,
                          Rename, Unlink, Verify, FinalizeQuarantine
<1>10. CASE Purge
  BY <1>3, <1>4, <1>10 DEF Purge, PurgeMissing, PurgeJournal, PurgeMove, Rename, Unlink, Verify,
                           PurgeRemove, MarkPurged
<1>11. CASE Restore
  BY <1>3, <1>5, <1>11 DEF Restore, RestoreMove, FinalizeRestore
<1> QED BY <1>6, <1>7, <1>8, <1>9, <1>10, <1>11 DEF Next

(* A step that moves a file to a free path, or gives it one more name,     *)
(* keeps every file.                                                       *)
LEMMA MoveKeeps ==
    ASSUME NEW from \in Place, NEW to \in Place, fs[from] # None, fs[to] = None,
           fs \in [Place -> File \cup {None}], None \notin File, NEW f \in File, Present(f),
           \/ fs' = [fs EXCEPT ![to] = fs[from], ![from] = None]
           \/ fs' = [fs EXCEPT ![to] = fs[from]]
    PROVE  Present(f)'
<1>1. PICK p \in Place : fs[p] = f
  BY DEF Present
<1>2. p # to /\ to # from
  BY <1>1
<1>3. fs'[to] = fs[from] /\ (p # from => fs'[p] = f)
  BY <1>1, <1>2
<1> QED BY <1>1, <1>2, <1>3 DEF Present

(* So does a step that removes one name of a file that has another.        *)
LEMMA NameKeeps ==
    ASSUME NEW from \in Place, NEW to \in Place, from # to, fs[from] = fs[to],
           fs \in [Place -> File \cup {None}], NEW f \in File, Present(f),
           fs' = [fs EXCEPT ![from] = None]
    PROVE  Present(f)'
<1>1. PICK p \in Place : fs[p] = f
  BY DEF Present
<1>2. fs'[to] = fs[to] /\ (p # from => fs'[p] = fs[p])
  BY <1>1
<1> QED BY <1>1, <1>2 DEF Present

(* The loss of a file by a step of the worker.                             *)
Loss(f) == Present(f) /\ ~Present(f)' => f = ident /\ op = "purge_pending"

LEMMA LossOfMove ==
    ASSUME LossInv, NEW f \in File, QuarantineMove \/ PurgeMove
    PROVE  Loss(f)
<1> DEFINE Kept == Present(f) => Present(f)'
<1>0. /\ qpath \in Slot \cup {None} /\ target \in Slot \cup {None} /\ fs \in [Place -> File \cup {None}]
      /\ Source \notin {qpath, target} /\ None \notin Place /\ None \notin File /\ Source \in Place
      /\ pc \in {"qMove", "qUnlink", "qCheck", "pMove", "pUnlink", "pCheck"} => target \in Place
      /\ pc \in {"pMove", "pUnlink", "pCheck"} => qpath \in Place
  BY Apart DEF LossInv
<1>1. ASSUME NEW from \in Place, target \in Place, NEW here, NEW there,
             Rename(from, target, here, there) \/ Link(from, target, here, there)
      PROVE  Kept
  BY <1>0, <1>1, MoveKeeps DEF Rename, Link
<1>2. ASSUME NEW from \in Place, target \in Place, NEW here, NEW there, Verify(from, target, here, there)
      PROVE  Kept
  <2>1. CASE fs' = fs
    BY <2>1 DEF Present
  <2>2. CASE fs[from] = None /\ fs[target] # None /\ fs' = [fs EXCEPT ![from] = fs[target], ![target] = None]
    BY <1>0, <1>2, <2>2, MoveKeeps
  <2> QED BY <1>0, <1>2, <2>1, <2>2 DEF Verify
<1>3. CASE Unlink(Source, "qUnlink", "qCheck")
  BY <1>0, <1>3, NameKeeps DEF Unlink, LossInv, Loss
<1>4. CASE Unlink(qpath, "pUnlink", "pCheck")
  BY <1>0, <1>4, NameKeeps DEF Unlink, LossInv, Loss
<1>5. CASE QuarantineMove /\ ~Unlink(Source, "qUnlink", "qCheck")
  <2>1. Kept
    BY <1>0, <1>1, <1>2, <1>5 DEF QuarantineMove, Rename, Link, Verify
  <2> QED BY <2>1 DEF Loss
<1>6. CASE PurgeMove /\ ~Unlink(qpath, "pUnlink", "pCheck")
  <2>1. Kept
    BY <1>0, <1>1, <1>2, <1>6 DEF PurgeMove, Rename, Link, Verify
  <2> QED BY <2>1 DEF Loss
<1> QED BY <1>3, <1>4, <1>5, <1>6

LEMMA LossOfStep ==
    ASSUME LossInv, [Next]_vars, pc' # pc, NEW f \in File
    PROVE  Loss(f)
<1>0. /\ qpath \in Slot \cup {None} /\ target \in Slot \cup {None} /\ fs \in [Place -> File \cup {None}]
      /\ Source \notin {qpath, target} /\ None \notin Place /\ None \notin File /\ Source \in Place
  BY Apart DEF LossInv
<1>1. CASE fs' = fs
  BY <1>1 DEF Loss, Present
<1>2. ASSUME target \in Place, fs[target] = ident, op = "purge_pending", fs' = [fs EXCEPT ![target] = None]
      PROVE  Loss(f)
  BY <1>0, <1>2 DEF Loss, Present
<1>3. CASE PurgeRemove
  <2>1. target \in Place /\ fs[target] = ident /\ op = "purge_pending"
    BY <1>3, Apart DEF PurgeRemove, LossInv, HeldInv
  <2> QED BY <1>2, <1>3, <2>1 DEF PurgeRemove
<1>4. CASE RecoverPurge
  <2>1. CASE Exists(target) /\ fs' = [fs EXCEPT ![target] = None]
    <3>1. target \in Place /\ fs[target] = ident /\ op = "purge_pending"
      BY <1>0, <1>4, <2>1 DEF RecoverPurge, Unrecoverable
    <3> QED BY <1>2, <2>1, <3>1
  <2> QED BY <1>1, <1>4, <2>1 DEF RecoverPurge
<1>5. CASE RecoverLinked
  <2>1. target \in Place /\ fs[target] = fs[Source] /\ target # Source
    BY <1>0, <1>5 DEF RecoverLinked, Unrecoverable
  <2>2. fs' = [fs EXCEPT ![target] = None] \/ fs' = [fs EXCEPT ![Source] = None]
    BY <1>5 DEF RecoverLinked
  <2> QED BY <1>0, <2>1, <2>2, NameKeeps DEF Loss
<1>6. CASE RestoreMove
  <2>1. qpath \in Place /\ fs[qpath] # None /\ fs[Source] = None
        /\ fs' = [fs EXCEPT ![Source] = fs[qpath], ![qpath] = None]
    BY <1>0, <1>6 DEF RestoreMove, LossInv
  <2> QED BY <1>0, <2>1, MoveKeeps DEF Loss
<1>7. CASE QuarantineMove \/ PurgeMove
  BY <1>7, LossOfMove
<1>8. CASE FileAppears \/ FileRemoved \/ TorrentChange \/ SetIgnored \/ UNCHANGED vars
  BY <1>8 DEF FileAppears, FileRemoved, TorrentChange, SetIgnored, IgnoreRead, IgnoreCommit, vars
<1>9. CASE Begin \/ Leave \/ RecoverMoved \/ RecoverNothing \/ RecoverResolve \/ Scan \/ Abort \/ Raise
  BY <1>1, <1>9 DEF Begin, Leave, RecoverMoved, RecoverNothing,
                    RecoverResolve, Scan, ScanWalk, ScanReconcile, Abort, Raise
<1>10. CASE ReadManifest \/ CleanupJournal \/ CleanupRefused \/ FinalizeQuarantine
  BY <1>1, <1>10 DEF ReadManifest, CleanupJournal, CleanupRefused, FinalizeQuarantine
<1>11. CASE PurgeMissing \/ PurgeJournal \/ MarkPurged \/ RestoreCheck \/ FinalizeRestore
  BY <1>1, <1>11 DEF PurgeMissing, PurgeJournal, MarkPurged, RestoreCheck, FinalizeRestore
<1> QED BY <1>3, <1>4, <1>5, <1>6, <1>7, <1>8, <1>9, <1>10, <1>11
        DEF Next, Recover, Cleanup, Purge, Restore

(* Unless other programs interfere between a link and its unlink, or       *)
(* between a restore's check and its rename, a step of the worker loses a  *)
(* file only by purging the one the candidate records, with or without     *)
(* renameat2, restores, crashes and exceptions.                            *)
THEOREM OnlyPurgeLoses ==
    ASSUME Intrusion # "anytime"
    PROVE  Spec => NothingLost
<1>1. Init => LossInv
  BY HeldInit DEF Init, LossInv
<1>2. LossInv /\ [Next]_vars => LossInv'
  BY LossStep
<1>3. LossInv /\ [Next]_vars =>
        [pc' # pc => \A f \in File :
           Present(f) /\ ~Present(f)' => f = ident /\ op = "purge_pending"]_vars
  BY LossOfStep DEF Loss
<1> QED BY <1>1, <1>2, <1>3, PTL DEF Spec, NothingLost

-----------------------------------------------------------------------------
(* A purge is what the row says.                                           *)

(* The recorded file is at these paths or nowhere; no file has two names.  *)
OnlyAt(S) == \A p \in Place : fs[p] = ident => p \in S
Unlinked == \A p, q \in Place : fs[p] = fs[q] /\ fs[p] # None => p = q

(* The recorded file of a quarantined candidate is where the row or the    *)
(* journal says or nowhere, and it is nowhere once it has been removed.    *)
GoneInv ==
    /\ HeldInv
    /\ Unlinked
    /\ pc \notin {"rMove", "rFinalize", "qUnlink", "pUnlink", "rqResolve"}
    /\ pc = "qFinalize" => fs[target] = ident
    /\ status = "quarantined" /\ op = "stable" => OnlyAt({qpath})
    /\ op = "purge_pending" => status = "quarantined" /\ OnlyAt({qpath, target})
    /\ op = "quarantine_pending" => status # "purged"
    /\ pc = "pMark" \/ status = "purged" => OnlyAt({})

(* Moving a file to a free path gives no file two names and takes the      *)
(* recorded one along.                                                     *)
LEMMA MoveOnly ==
    ASSUME NEW from \in Place, NEW to \in Place, fs[from] # None, fs[to] = None,
           fs \in [Place -> File \cup {None}], None \notin File, ident \in File, ident' = ident, Unlinked,
           fs' = [fs EXCEPT ![to] = fs[from], ![from] = None]
    PROVE  /\ Unlinked'
           /\ \A S : OnlyAt(S) => OnlyAt((S \ {from}) \cup {to})'
           /\ fs[from] = ident => OnlyAt({to})'
           /\ fs[from] # ident /\ OnlyAt({}) => OnlyAt({})'
<1>1. from # to /\ fs'[to] = fs[from] /\ fs'[from] = None
      /\ \A p \in Place : p \notin {from, to} => fs'[p] = fs[p]
  OBVIOUS
<1>2. Unlinked'
  BY <1>1 DEF Unlinked
<1>3. fs[from] = ident => \A p \in Place : fs[p] = ident => p = from
  BY DEF Unlinked
<1> QED BY <1>1, <1>2, <1>3 DEF OnlyAt

(* Removing a name is no worse.                                            *)
LEMMA RemoveOnly ==
    ASSUME NEW p \in Place, fs \in [Place -> File \cup {None}], None \notin File, ident \in File,
           ident' = ident, Unlinked, fs' = [fs EXCEPT ![p] = None]
    PROVE  /\ Unlinked'
           /\ \A S : OnlyAt(S) => OnlyAt(S)'
           /\ fs[p] = ident => OnlyAt({})'
<1>1. fs'[p] = None /\ \A q \in Place : q # p => fs'[q] = fs[q]
  OBVIOUS
<1> QED BY <1>1 DEF Unlinked, OnlyAt

LEMMA GoneStep ==
    ASSUME Intrusion = "settled", LinkFallback = FALSE, Restoring = FALSE, GoneInv, [Next]_vars
    PROVE  GoneInv'
<1> USE DEF GoneInv
<1>0. /\ HeldInv' /\ ident \in File
      /\ qpath \in Slot \cup {None} /\ target \in Slot \cup {None} /\ fs \in [Place -> File \cup {None}]
      /\ Source \notin {qpath, target} /\ None \notin Place /\ None \notin File /\ Source \in Place
      /\ pc \in {"qMove", "qCheck", "qFinalize", "pMove", "pCheck", "pRemove", "pMark"} => target \in Slot
      /\ pc \in {"pMove", "pCheck", "pRemove", "pMark"} => qpath \in Slot
      /\ pc \in {"qMove", "qCheck", "qFinalize"} => op = "quarantine_pending" /\ status # "quarantined"
      /\ pc \in {"pMove", "pCheck", "pRemove", "pMark"} => op = "purge_pending"
      /\ op = "stable" <=> target = None
      /\ op = "quarantine_pending" => status # "quarantined"
  BY Apart, HeldStep DEF HeldInv, TypeOK
<1>1. ASSUME fs' = fs, ident' = ident, UNCHANGED row, pc' \notin {"qFinalize", "pMark", "rMove", "rFinalize", "qUnlink", "pUnlink", "rqResolve"}
      PROVE  GoneInv'
  BY <1>0, <1>1 DEF Unlinked, OnlyAt
<1>2. CASE Begin \/ Leave \/ RecoverNothing \/ ReadManifest \/ CleanupRefused \/ ScanWalk \/ Abort \/ Raise
  BY <1>1, <1>2 DEF Begin, Leave, RecoverNothing, ReadManifest, CleanupRefused, ScanWalk, Abort, Raise
<1>3. CASE TorrentChange \/ SetIgnored \/ UNCHANGED vars
  <2>1. UNCHANGED <<fs, row, pc>>
    BY <1>3 DEF TorrentChange, SetIgnored, IgnoreRead, IgnoreCommit, vars
  <2> QED BY <1>0, <2>1 DEF Unlinked, OnlyAt
<1>4. CASE CleanupJournal
  BY <1>0, <1>4 DEF CleanupJournal, Cleanable, Unlinked, OnlyAt
<1>5. CASE PurgeJournal
  BY <1>0, <1>5 DEF PurgeJournal, Unlinked, OnlyAt
<1>6. CASE FinalizeQuarantine
  <2>1. OnlyAt({target})
    BY <1>0, <1>6 DEF FinalizeQuarantine, OnlyAt, Unlinked
  <2> QED BY <1>0, <1>6, <2>1 DEF FinalizeQuarantine, OnlyAt, Unlinked
<1>7. CASE PurgeMissing
  <2>1. OnlyAt({})
    BY <1>0, <1>7 DEF PurgeMissing, OnlyAt
  <2> QED BY <1>0, <1>7, <2>1 DEF PurgeMissing, OnlyAt, Unlinked
<1>8. CASE MarkPurged
  BY <1>0, <1>8 DEF MarkPurged, OnlyAt, Unlinked
<1>9. CASE QuarantineMove
  <2>1. op = "quarantine_pending" /\ status \notin {"quarantined", "purged"} /\ UNCHANGED row
    BY <1>0, <1>9 DEF QuarantineMove, Rename, Link, Unlink, Verify
  <2>2. CASE Rename(Source, target, "qMove", "qCheck")
    <3>1. Unlinked'
      BY <1>0, <2>1, <2>2, MoveOnly DEF Rename
    <3> QED BY <1>0, <2>1, <2>2, <3>1 DEF Rename
  <2>3. CASE Verify(Source, target, "qCheck", "qFinalize")
    <3>1. CASE fs' = fs
      BY <1>0, <2>1, <2>3, <3>1 DEF Verify, Unlinked
    <3>2. CASE fs' # fs
      <4>1. fs[target] # None /\ fs[Source] = None /\ pc' = "idle"
            /\ fs' = [fs EXCEPT ![Source] = fs[target], ![target] = None]
        BY <1>0, <2>3, <3>2 DEF Verify
      <4>2. Unlinked'
        BY <1>0, <2>1, <2>3, <4>1, MoveOnly DEF Verify
      <4> QED BY <1>0, <2>1, <4>1, <4>2
    <3> QED BY <3>1, <3>2
  <2> QED BY <1>9, <2>2, <2>3 DEF QuarantineMove, Link, Unlink
<1>10. CASE PurgeMove
  <2>1. op = "purge_pending" /\ status = "quarantined" /\ UNCHANGED row
    BY <1>0, <1>10 DEF PurgeMove, Rename, Link, Unlink, Verify
  <2>2. CASE Rename(qpath, target, "pMove", "pCheck")
    <3>1. Unlinked' /\ OnlyAt(({qpath, target} \ {qpath}) \cup {target})'
      BY <1>0, <2>1, <2>2, MoveOnly DEF Rename
    <3>2. OnlyAt({qpath, target})'
      BY <2>1, <3>1 DEF OnlyAt
    <3> QED BY <1>0, <2>1, <2>2, <3>1, <3>2 DEF Rename
  <2>3. CASE Verify(qpath, target, "pCheck", "pRemove")
    <3>1. CASE fs' = fs
      BY <1>0, <2>1, <2>3, <3>1 DEF Verify, Unlinked, OnlyAt
    <3>2. CASE fs' # fs
      <4>1. fs[target] # None /\ fs[qpath] = None /\ pc' = "idle"
            /\ fs' = [fs EXCEPT ![qpath] = fs[target], ![target] = None]
        BY <1>0, <2>3, <3>2 DEF Verify
      <4>2. Unlinked' /\ OnlyAt(({qpath, target} \ {target}) \cup {qpath})'
        BY <1>0, <2>1, <2>3, <4>1, MoveOnly DEF Verify
      <4>3. OnlyAt({qpath, target})'
        BY <2>1, <4>2 DEF OnlyAt
      <4> QED BY <1>0, <2>1, <4>1, <4>2, <4>3
    <3> QED BY <3>1, <3>2
  <2> QED BY <1>10, <2>2, <2>3 DEF PurgeMove, Link, Unlink
<1>11. CASE PurgeRemove
  <2>1. fs' = [fs EXCEPT ![target] = None] /\ fs[target] = ident /\ pc = "pRemove" /\ pc' = "pMark" /\ UNCHANGED row
    BY <1>11 DEF PurgeRemove
  <2>2. Unlinked' /\ OnlyAt({})'
    BY <1>0, <2>1, RemoveOnly
  <2>3. OnlyAt({qpath, target})'
    BY <2>2 DEF OnlyAt
  <2> QED BY <1>0, <2>1, <2>2, <2>3
<1>12. CASE RecoverPurge
  <2>0. op = "purge_pending" /\ status = "quarantined" /\ OnlyAt({qpath, target}) /\ target \in Slot
    BY <1>0, <1>12 DEF RecoverPurge
  <2>1. CASE Exists(target)
    <3>1. fs' = [fs EXCEPT ![target] = None] /\ fs[target] = ident /\ pc' = "pMark" /\ UNCHANGED row
      BY <1>12, <2>1 DEF RecoverPurge, Unrecoverable
    <3>2. Unlinked' /\ OnlyAt({})'
      BY <1>0, <2>0, <3>1, RemoveOnly
    <3>3. OnlyAt({qpath, target})'
      BY <3>2 DEF OnlyAt
    <3> QED BY <1>0, <2>0, <3>1, <3>2, <3>3
  <2>2. CASE ~Exists(target) /\ Exists(qpath)
    <3>1. OnlyAt({qpath})
      BY <1>0, <2>0, <2>2 DEF OnlyAt
    <3>2. /\ fs' = fs /\ pc' = "ready" /\ op' = "stable" /\ status' = "quarantined" /\ UNCHANGED <<qpath, ident>>
      BY <1>12, <2>2 DEF RecoverPurge
    <3> QED BY <1>0, <3>1, <3>2 DEF OnlyAt, Unlinked
  <2>3. CASE ~Exists(target) /\ ~Exists(qpath)
    <3>1. OnlyAt({})
      BY <1>0, <2>0, <2>3 DEF OnlyAt
    <3>2. /\ fs' = fs /\ pc' = "ready" /\ op' = "stable" /\ status' = "purged" /\ UNCHANGED <<qpath, ident>>
      BY <1>12, <2>3 DEF RecoverPurge
    <3> QED BY <1>0, <3>1, <3>2 DEF OnlyAt, Unlinked
  <2> QED BY <2>1, <2>2, <2>3
<1>13. CASE RecoverLinked
  BY <1>0, <1>13 DEF RecoverLinked, Unrecoverable, Unlinked
<1>14. CASE RecoverMoved
  <2>1. CASE Exists(target)
    BY <1>0, <1>14, <2>1 DEF RecoverMoved, Unrecoverable, Unlinked, OnlyAt
  <2>2. CASE ~Exists(target)
    BY <1>0, <1>14, <2>2 DEF RecoverMoved, Unrecoverable, Unlinked, OnlyAt
  <2> QED BY <2>1, <2>2
<1>15. CASE RecoverResolve \/ RestoreCheck \/ RestoreMove \/ FinalizeRestore
  BY <1>15 DEF RecoverResolve, RestoreCheck, RestoreMove, FinalizeRestore
<1>16. CASE ScanReconcile
  <2>1. CASE found # None
    BY <1>0, <1>16, <2>1 DEF ScanReconcile, Unlinked, OnlyAt
  <2>2. CASE found = None
    BY <1>0, <1>16, <2>2 DEF ScanReconcile, Unlinked, OnlyAt
  <2> QED BY <2>1, <2>2
<1>17. CASE FileAppears
  <2>1. PICK f \in File : ~Present(f) /\ f # ident /\ fs' = [fs EXCEPT ![Source] = f] /\ fs[Source] = None
    BY <1>17 DEF FileAppears
  <2>2. pc = "idle" /\ op = "stable" /\ UNCHANGED <<row, pc>>
    BY <1>17 DEF FileAppears, MayIntrude
  <2>3. fs'[Source] = f /\ \A p \in Place : p # Source => fs'[p] = fs[p]
    BY <1>0, <2>1
  <2>4. Unlinked'
    BY <2>1, <2>3 DEF Unlinked, Present
  <2>5. \A S : OnlyAt(S) => OnlyAt(S)'
    BY <2>1, <2>2, <2>3 DEF OnlyAt
  <2> QED BY <1>0, <2>2, <2>4, <2>5
<1>18. CASE FileRemoved
  <2>1. PICK p \in Place : fs' = [fs EXCEPT ![p] = None]
    BY <1>18 DEF FileRemoved
  <2>2. pc = "idle" /\ op = "stable" /\ UNCHANGED <<row, pc>>
    BY <1>18 DEF FileRemoved, MayIntrude
  <2>3. Unlinked' /\ \A S : OnlyAt(S) => OnlyAt(S)'
    BY <1>0, <2>1, <2>2, RemoveOnly
  <2> QED BY <1>0, <2>2, <2>3
<1> QED BY <1>2, <1>3, <1>4, <1>5, <1>6, <1>7, <1>8, <1>9, <1>10, <1>11, <1>12, <1>13, <1>14, <1>15,
           <1>16, <1>17, <1>18 DEF Next, Recover, Cleanup, Purge, Restore, Scan

(* A candidate marked purged has its file off the disk.  Hypotheses: the   *)
(* file system renames in one step (a crash between link and unlink leaves *)
(* the other name), no restore is cut short (its row would be purged with  *)
(* the file back in place) and other programs come between operations.     *)
(* Crashes of cleanup, purge and recovery are in, for any files.           *)
THEOREM PurgeIsTold ==
    ASSUME Intrusion = "settled", LinkFallback = FALSE, Restoring = FALSE
    PROVE  Spec => []PurgedMeansGone
<1>1. Init => GoneInv
  <2> SUFFICES ASSUME Init PROVE GoneInv
    OBVIOUS
  <2>1. HeldInv
    BY HeldInit
  <2>2. \A p \in Place : p # Source => fs[p] = None
    BY DEF Init
  <2> QED BY <2>1, <2>2 DEF Init, GoneInv, Unlinked
<1>2. GoneInv /\ [Next]_vars => GoneInv'
  BY GoneStep
<1>3. GoneInv => PurgedMeansGone
  BY DEF GoneInv, OnlyAt, PurgedMeansGone, Present
<1> QED BY <1>1, <1>2, <1>3, PTL DEF Spec

-----------------------------------------------------------------------------
(* The row leads to what is quarantined.                                   *)

(* One path holds a file at most; a quarantined one is led to at every     *)
(* step of an operation.                                                   *)
Single == \A p, q \in Place : fs[p] # None /\ fs[q] # None => p = q
NoneAt(S) == \A p \in S : fs[p] = None
Led == \A s \in Slot : fs[s] # None => (s = qpath /\ status = "quarantined") \/ s = target

TrackInv ==
    /\ HeldInv
    /\ Single
    /\ Led
    /\ pc \notin {"qUnlink", "pUnlink", "rqResolve"}
    /\ op = "purge_pending" => status = "quarantined"
    /\ pc = "pMark" => NoneAt(Slot)
    /\ pc = "rFinalize" => NoneAt(Slot)
    /\ pc = "scanned" /\ found # None => fs[Source] # None

LEMMA MoveSingle ==
    ASSUME NEW from \in Place, NEW to \in Place, fs[from] # None, fs[to] = None,
           fs \in [Place -> File \cup {None}], Single,
           fs' = [fs EXCEPT ![to] = fs[from], ![from] = None]
    PROVE  /\ Single' /\ fs'[to] # None
           /\ \A p \in Place : p # to => fs'[p] = None
<1>1. from # to /\ fs'[to] = fs[from] /\ fs'[from] = None
      /\ \A p \in Place : p \notin {from, to} => fs'[p] = fs[p]
  OBVIOUS
<1>2. \A p \in Place : p # from => fs[p] = None
  BY DEF Single
<1> QED BY <1>1, <1>2 DEF Single

LEMMA RemoveSingle ==
    ASSUME NEW p \in Place, fs \in [Place -> File \cup {None}], Single, fs' = [fs EXCEPT ![p] = None]
    PROVE  /\ Single'
           /\ \A q \in Place : fs'[q] # None => fs[q] # None
           /\ fs[p] # None => NoneAt(Place)'
<1>1. fs'[p] = None /\ \A q \in Place : q # p => fs'[q] = fs[q]
  OBVIOUS
<1> QED BY <1>1 DEF Single, NoneAt

LEMMA TrackStep ==
    ASSUME Intrusion = "settled", LinkFallback = FALSE, TrackInv, [Next]_vars, [~FileAppears]_vars
    PROVE  TrackInv'
<1> USE DEF TrackInv
<1>0. /\ HeldInv' /\ Slot \subseteq Place
      /\ qpath \in Slot \cup {None} /\ target \in Slot \cup {None} /\ fs \in [Place -> File \cup {None}]
      /\ Source \notin {qpath, target} /\ None \notin Place /\ None \notin File /\ Source \in Place
      /\ Source \notin Slot
      /\ pc \in {"qMove", "qCheck", "qFinalize", "pMove", "pCheck", "pRemove", "pMark"} => target \in Slot
      /\ pc \in {"pMove", "pCheck", "pRemove", "pMark"} => qpath \in Slot
      /\ pc \in {"qMove", "qCheck", "qFinalize"} => op = "quarantine_pending" /\ status # "quarantined"
      /\ pc \in {"pMove", "pCheck", "pRemove", "pMark"} => op = "purge_pending"
      /\ op = "stable" <=> target = None
  BY Apart, HeldStep, OrphanAssumption DEF HeldInv, TypeOK
<1>1. ASSUME fs' = fs, UNCHANGED row, pc' \notin {"qUnlink", "pUnlink", "rqResolve", "pMark", "rFinalize", "scanned"}
      PROVE  TrackInv'
  BY <1>0, <1>1 DEF Single, Led
<1>2. CASE Begin \/ Leave \/ RecoverNothing \/ ReadManifest \/ CleanupRefused \/ RestoreCheck \/ Abort \/ Raise
  BY <1>1, <1>2 DEF Begin, Leave, RecoverNothing, ReadManifest, CleanupRefused, RestoreCheck, Abort, Raise
<1>3. CASE TorrentChange \/ SetIgnored \/ UNCHANGED vars
  <2>1. UNCHANGED <<fs, row, pc, found>>
    BY <1>3 DEF TorrentChange, SetIgnored, IgnoreRead, IgnoreCommit, vars
  <2> QED BY <1>0, <2>1 DEF Single, Led, NoneAt
<1>4. CASE ScanWalk
  BY <1>0, <1>4 DEF ScanWalk, Single, Led
<1>5. CASE CleanupJournal
  BY <1>0, <1>5 DEF CleanupJournal, Cleanable, Single, Led
<1>6. CASE PurgeJournal
  BY <1>0, <1>6 DEF PurgeJournal, Single, Led
<1>7. CASE FinalizeQuarantine
  BY <1>0, <1>7 DEF FinalizeQuarantine, Single, Led
<1>8. CASE PurgeMissing
  BY <1>0, <1>8 DEF PurgeMissing, Single, Led
<1>9. CASE MarkPurged
  BY <1>0, <1>9 DEF MarkPurged, Single, Led, NoneAt
<1>10. CASE QuarantineMove
  <2>1. UNCHANGED <<row, found>>
    BY <1>10 DEF QuarantineMove, Rename, Link, Unlink, Verify
  <2>2. CASE Rename(Source, target, "qMove", "qCheck")
    <3>1. Single' /\ \A p \in Place : p # target => fs'[p] = None
      BY <1>0, <2>2, MoveSingle DEF Rename
    <3> QED BY <1>0, <2>1, <2>2, <3>1 DEF Rename, Led
  <2>3. CASE Verify(Source, target, "qCheck", "qFinalize")
    <3>1. CASE fs' = fs
      BY <1>0, <2>1, <2>3, <3>1 DEF Verify, Single, Led
    <3>2. CASE fs' # fs
      <4>1. fs[target] # None /\ fs[Source] = None /\ pc' = "idle" /\ target \in Place
            /\ fs' = [fs EXCEPT ![Source] = fs[target], ![target] = None]
        BY <1>0, <2>3, <3>2 DEF Verify
      <4>2. Single' /\ \A p \in Place : p # Source => fs'[p] = None
        BY <1>0, <4>1, MoveSingle
      <4> QED BY <1>0, <2>1, <4>1, <4>2 DEF Led
    <3> QED BY <3>1, <3>2
  <2> QED BY <1>10, <2>2, <2>3 DEF QuarantineMove, Link, Unlink
<1>11. CASE PurgeMove
  <2>1. op = "purge_pending" /\ status = "quarantined" /\ UNCHANGED <<row, found>>
    BY <1>0, <1>11 DEF PurgeMove, Rename, Link, Unlink, Verify
  <2>2. CASE Rename(qpath, target, "pMove", "pCheck")
    <3>1. Single' /\ \A p \in Place : p # target => fs'[p] = None
      BY <1>0, <2>2, MoveSingle DEF Rename
    <3> QED BY <1>0, <2>1, <2>2, <3>1 DEF Rename, Led
  <2>3. CASE Verify(qpath, target, "pCheck", "pRemove")
    <3>1. CASE fs' = fs
      BY <1>0, <2>1, <2>3, <3>1 DEF Verify, Single, Led
    <3>2. CASE fs' # fs
      <4>1. fs[target] # None /\ fs[qpath] = None /\ pc' = "idle" /\ target \in Place /\ qpath \in Place
            /\ fs' = [fs EXCEPT ![qpath] = fs[target], ![target] = None]
        BY <1>0, <2>3, <3>2 DEF Verify
      <4>2. Single' /\ \A p \in Place : p # qpath => fs'[p] = None
        BY <1>0, <4>1, MoveSingle
      <4> QED BY <1>0, <2>1, <4>1, <4>2 DEF Led
    <3> QED BY <3>1, <3>2
  <2> QED BY <1>11, <2>2, <2>3 DEF PurgeMove, Link, Unlink
<1>12. CASE PurgeRemove
  <2>1. fs' = [fs EXCEPT ![target] = None] /\ fs[target] = ident /\ target \in Place /\ UNCHANGED row
        /\ pc = "pRemove" /\ pc' = "pMark" /\ ident # None
    BY <1>0, <1>12 DEF PurgeRemove, HeldInv, TypeOK
  <2>2. Single' /\ NoneAt(Place)'
    BY <1>0, <2>1, RemoveSingle
  <2> QED BY <1>0, <2>1, <2>2 DEF NoneAt, Led
<1>13. CASE RecoverPurge
  <2>0. op = "purge_pending" /\ status = "quarantined" /\ target \in Slot
    BY <1>0, <1>13 DEF RecoverPurge
  <2>1. CASE Exists(target)
    <3>1. fs' = [fs EXCEPT ![target] = None] /\ pc' = "pMark" /\ UNCHANGED row
      BY <1>13, <2>1 DEF RecoverPurge
    <3>2. Single' /\ NoneAt(Place)'
      BY <1>0, <2>0, <2>1, <3>1, RemoveSingle
    <3> QED BY <1>0, <2>0, <3>1, <3>2 DEF NoneAt, Led
  <2>2. CASE ~Exists(target)
    <3>1. /\ fs' = fs /\ pc' = "ready" /\ op' = "stable" /\ UNCHANGED qpath
          /\ status' = "quarantined" \/ ~Exists(qpath)
      BY <1>13, <2>2 DEF RecoverPurge
    <3> QED BY <1>0, <2>2, <3>1 DEF Led, Single
  <2> QED BY <2>1, <2>2
<1>14. CASE RecoverLinked
  BY <1>0, <1>14 DEF RecoverLinked, Single
<1>15. CASE RecoverMoved
  <2>1. CASE Exists(target)
    <3>1. UNCHANGED <<fs, row>> /\ pc' = "qFinalize"
      BY <1>0, <1>15, <2>1 DEF RecoverMoved
    <3> QED BY <1>1, <3>1
  <2>2. CASE ~Exists(target)
    <3>1. /\ fs' = fs /\ fs[Source] # None /\ pc' \in {"ready", "qMove"} /\ op' # "purge_pending"
      BY <1>0, <1>15, <2>2 DEF RecoverMoved, Unrecoverable
    <3>2. NoneAt(Slot)
      BY <1>0, <3>1 DEF Single, NoneAt
    <3> QED BY <1>0, <3>1, <3>2 DEF Led, NoneAt, Single
  <2> QED BY <2>1, <2>2
<1>16. CASE RecoverResolve
  BY <1>16 DEF RecoverResolve
<1>17. CASE RestoreMove
  <2>1. /\ qpath \in Place /\ qpath # Source /\ fs[qpath] # None /\ pc' = "rFinalize" /\ UNCHANGED row
        /\ fs' = [fs EXCEPT ![Source] = fs[qpath], ![qpath] = None]
    BY <1>0, <1>17 DEF RestoreMove
  <2>2. fs[Source] = None
    BY <1>0, <2>1 DEF Single
  <2>3. Single' /\ \A p \in Place : p # Source => fs'[p] = None
    BY <1>0, <2>1, <2>2, MoveSingle
  <2> QED BY <1>0, <2>1, <2>3 DEF NoneAt, Led
<1>18. CASE FinalizeRestore
  BY <1>0, <1>18 DEF FinalizeRestore, Single, Led, NoneAt
<1>19. CASE ScanReconcile
  <2>1. CASE found # None
    <3>1. NoneAt(Slot)
      BY <1>0, <1>19, <2>1 DEF ScanReconcile, Single, NoneAt
    <3>2. fs' = fs /\ pc' = "idle" /\ op' = "stable"
      BY <1>19, <2>1 DEF ScanReconcile
    <3> QED BY <1>0, <3>1, <3>2 DEF Led, NoneAt, Single
  <2>2. CASE found = None
    BY <1>0, <1>19, <2>2 DEF ScanReconcile, Single, Led
  <2> QED BY <2>1, <2>2
<1>20. CASE FileRemoved
  <2>1. PICK p \in Place : fs' = [fs EXCEPT ![p] = None]
    BY <1>20 DEF FileRemoved
  <2>2. pc = "idle" /\ UNCHANGED <<row, pc>>
    BY <1>20 DEF FileRemoved, MayIntrude
  <2>3. Single' /\ \A q \in Place : fs'[q] # None => fs[q] # None
    BY <1>0, <2>1, RemoveSingle
  <2> QED BY <1>0, <2>2, <2>3 DEF Led
<1>21. CASE FileAppears
  BY <1>3, <1>21
<1> QED BY <1>2, <1>3, <1>4, <1>5, <1>6, <1>7, <1>8, <1>9, <1>10, <1>11, <1>12, <1>13, <1>14, <1>15,
           <1>16, <1>17, <1>18, <1>19, <1>20, <1>21 DEF Next, Recover, Cleanup, Purge, Restore, Scan

(* Between operations every quarantined file is the one that the row or    *)
(* its journal entry leads to, through cleanups, purges, restores, scans   *)
(* and recoveries that end anywhere.  Hypotheses: renames in one step,     *)
(* other programs between operations, and none that puts a new file at the *)
(* canonical path, which makes the next scan forget the quarantined one.   *)
THEOREM QuarantineIsFound ==
    ASSUME Intrusion = "settled", LinkFallback = FALSE
    PROVE  Spec /\ [][~FileAppears]_vars => []QuarantineTracked
<1>1. Init => TrackInv
  <2> SUFFICES ASSUME Init PROVE TrackInv
    OBVIOUS
  <2>1. HeldInv
    BY HeldInit
  <2>2. \A p \in Place : p # Source => fs[p] = None
    BY DEF Init
  <2>3. NoneAt(Slot)
    BY <2>2, OrphanAssumption DEF NoneAt
  <2> QED BY <2>1, <2>2, <2>3 DEF Init, TrackInv, Single, Led, NoneAt
<1>2. TrackInv /\ [Next]_vars /\ [~FileAppears]_vars => TrackInv'
  BY TrackStep
<1>3. TrackInv => QuarantineTracked
  BY DEF TrackInv, Led, QuarantineTracked
<1> QED BY <1>1, <1>2, <1>3, PTL DEF Spec

=============================================================================
