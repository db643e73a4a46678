-------------------------- MODULE RecycleBinProofs --------------------------
(***************************************************************************)
(* Theorems about RecycleBin, for every set of entries.                    *)
(*                                                                         *)
(* The types hold for any number of requests.  The promises of the bin     *)
(* hold when one request at a time works on the torrent (OneRequest), with *)
(* the sync, the scheduled cleanup and crashes at any step between; two    *)
(* that overlap can break them.                                            *)
(***************************************************************************)
EXTENDS RecycleBin, FiniteSetTheorems, TLAPS

USE DEF torrent, client, files, sync, At

-----------------------------------------------------------------------------
(* What a step does to the record of a request.                            *)
PC == {"idle", "backup", "files", "move", "merge", "moving", "unpack", "undo",
       "restored"} \cup Synchronous \cup Adding

Reply == {"none", "deleted", "restored", "purged", "failed", "timeout"}

Request == [pc : PC, saved : Row, loaded : {0, 1}, todo : SUBSET content,
            failed : BOOLEAN, answer : Reply]

(* A step of w puts r in the place of its request.                         *)
Becomes(w, r) ==
    /\ r \in Request
    /\ op' \in [Worker -> Request] /\ op'[w] = r
    /\ \A v \in Worker : v # w => op'[v] = op[v]

(* The request is over and has answered a.                                 *)
Done(a) == [Idle EXCEPT !.answer = a]

LEMMA Requests == TypeOK => op \in [Worker -> Request]
  BY DEF TypeOK, Request, PC, Reply

LEMMA Replaced ==
  ASSUME TypeOK, NEW w \in Worker, NEW r \in Request, op' = [op EXCEPT ![w] = r]
  PROVE  Becomes(w, r)
  BY Requests DEF Becomes

LEMMA Edited ==
  ASSUME NEW r \in Request, NEW to \in PC, NEW rest \in SUBSET content
  PROVE  /\ [r EXCEPT !.pc = to] \in Request
         /\ [r EXCEPT !.todo = rest] \in Request
         /\ [r EXCEPT !.pc = to, !.todo = rest] \in Request
         /\ [r EXCEPT !.todo = rest, !.failed = TRUE] \in Request
  BY DEF Request

LEMMA DoneType ==
  ASSUME NEW a \in Reply
  PROVE  /\ Done(a) \in Request
         /\ Done(a).pc = "idle" /\ Done(a).answer = a
         /\ ~Done(a).saved.deleted /\ ~Done(a).failed
  BY DEF Done, Idle, Request, Row, PC, Reply

LEMMA Goes ==
  ASSUME TypeOK, NEW w \in Worker, NEW to \in PC, Goto(w, to)
  PROVE  /\ Becomes(w, [op[w] EXCEPT !.pc = to])
         /\ op'[w].pc = to /\ op'[w].saved = op[w].saved
         /\ op'[w].todo = op[w].todo /\ op'[w].failed = op[w].failed
<1>1. op[w] \in Request
  BY Requests
<1>2. Becomes(w, [op[w] EXCEPT !.pc = to])
  BY <1>1, Replaced, Edited DEF Goto
<1> QED
  BY <1>1, <1>2 DEF Becomes, Request

LEMMA Answers ==
  ASSUME TypeOK, NEW w \in Worker, NEW a \in Reply, Answer(w, a)
  PROVE  Becomes(w, Done(a)) /\ stopped' = stopped \ {w}
  BY DoneType, Replaced DEF Answer, Done

LEMMA Asks ==
  ASSUME TypeOK, NEW w \in Worker, NEW to \in PC, NEW rest \in SUBSET content, Ask(w, to, rest)
  PROVE  /\ Becomes(w, op'[w])
         /\ op'[w].pc = to /\ op'[w].saved = row
         /\ op'[w].todo = rest /\ ~op'[w].failed
<1> DEFINE r == [pc |-> to, saved |-> row, loaded |-> dr,
                 todo |-> rest, failed |-> FALSE, answer |-> "none"]
<1>1. r \in Request
  BY DEF Request, Reply, TypeOK
<1>2. Becomes(w, r)
  BY <1>1, Replaced DEF Ask
<1> QED
  BY <1>2 DEF Becomes

LEMMA Resumes ==
  ASSUME TypeOK, NEW w \in Worker, NEW next \in Request, Resume(w, next)
  PROVE  /\ Becomes(w, IF w \in stopped THEN Done("timeout") ELSE next)
         /\ stopped' = stopped \ {w}
<1>1. "timeout" \in Reply
  BY DEF Reply
<1> QED
  BY <1>1, Answers, Replaced DEF Resume

(* The entries of the torrent never change.                                *)
LEMMA TypesKept ==
  ASSUME TypeOK, UNCHANGED torrent,
         op' \in [Worker -> Request], stopped' \subseteq Worker, row' \in Row,
         dr' \in {0, 1}, task' \in BOOLEAN, unseen' \in BOOLEAN, spoiled' \in BOOLEAN,
         here' \subseteq content, trash' \subseteq content,
         folders' \subseteq {"here", "trash"},
         known' \in BOOLEAN, report' \in {"none", "removed", "listed", "cached", "new"}
  PROVE  TypeOK'
  BY DEF TypeOK, Request, PC, Reply, Synchronous, Adding

-----------------------------------------------------------------------------
(* The types, group by group of steps.                                     *)
LEMMA Plainly ==
  ASSUME TypeOK
  PROVE  /\ stopped \subseteq Worker /\ row \in Row /\ dr \in {0, 1}
         /\ task \in BOOLEAN /\ unseen \in BOOLEAN /\ spoiled \in BOOLEAN
         /\ here \subseteq content /\ trash \subseteq content
         /\ folders \subseteq {"here", "trash"} /\ known \in BOOLEAN
         /\ report \in {"none", "removed", "listed", "cached", "new"}
  BY DEF TypeOK

LEMMA TypeInit == Init => TypeOK
<1> SUFFICES ASSUME Init
             PROVE  TypeOK
  OBVIOUS
<1>1. op \in [Worker -> Request]
  BY DEF Init, Idle, Request, Row, PC, Reply
<1>2. row \in Row
  BY DEF Init, Idle, Row
<1> QED
  BY <1>1, <1>2 DEF Init, TypeOK, Request, PC, Reply, Synchronous, Adding

LEMMA DeleteTypes ==
  ASSUME TypeOK, NEW w \in Worker, DeleteStep(w)
  PROVE  TypeOK'
<1> USE Plainly, TypesKept DEF Becomes
<1>0. /\ op \in [Worker -> Request] /\ op[w] \in Request
      /\ op[w].saved \in Row /\ op[w].todo \subseteq content
  BY Requests DEF Request
<1>t. {"idle", "backup", "files", "remove", "move", "merge", "moving"} \subseteq PC
      /\ {"deleted", "failed", "timeout"} \subseteq Reply
  BY DEF PC, Reply, Synchronous
<1>1. CASE AskDelete(w)
  <2>1. PICK to \in PC : Ask(w, to, {})
    BY <1>1, <1>t DEF AskDelete
  <2> QED
    BY <1>1, <2>1, Asks DEF AskDelete
<1>2. CASE Backup(w) \/ Remove(w) \/ DropCopies(w)
  BY <1>2, <1>t, Goes DEF Backup, Remove, DropCopies
<1>3. CASE BackupFails(w) \/ NothingToMove(w) \/ MoveRefused(w) \/ Abandon(w)
  BY <1>3, <1>t, <1>0, Answers DEF BackupFails, NothingToMove, MoveRefused, Abandon
<1>4. ASSUME NEW b \in BOOLEAN, SoftDelete(w, b)
      PROVE  TypeOK'
  BY <1>4, <1>t, Goes DEF SoftDelete, Row
<1>5. ASSUME NEW b \in BOOLEAN, RemoveFails(w, b)
      PROVE  TypeOK'
  BY <1>5, <1>t, <1>0, Answers DEF RemoveFails
<1>6. CASE StartMoving(w)
  <2>1. op' = [op EXCEPT ![w] = [op[w] EXCEPT !.pc = "moving", !.todo = here]]
    BY <1>6, <1>0 DEF StartMoving
  <2>2. [op[w] EXCEPT !.pc = "moving", !.todo = here] \in Request
    BY <1>0, <1>t, Edited
  <2>3. op' \in [Worker -> Request]
    BY <2>1, <2>2, Replaced
  <2> QED
    BY <1>6, <2>3 DEF StartMoving
<1>7. CASE Merge(w)
  <2>1. [op[w] EXCEPT !.pc = "moving", !.todo = here] \in Request
    BY <1>0, <1>t, Edited
  <2>2. op' \in [Worker -> Request] /\ stopped' \subseteq Worker
    BY <1>7, <2>1, Resumes DEF Merge
  <2> QED
    BY <1>7, <2>2 DEF Merge
<1>8. ASSUME NEW left \in SUBSET content, MergeFails(w, left)
      PROVE  TypeOK'
  BY <1>8, <1>t, <1>0, Answers DEF MergeFails
<1>9. ASSUME NEW i \in content, MoveItem(w, i) \/ MoveFails(w, i)
      PROVE  TypeOK'
  <2>1. op[w].todo \ {i} \in SUBSET content
    BY <1>0
  <2>2. /\ [op[w] EXCEPT !.todo = @ \ {i}] \in Request
        /\ [op[w] EXCEPT !.todo = @ \ {i}, !.failed = TRUE] \in Request
    BY <2>1, <1>0, <1>t, Edited
  <2>3. op' \in [Worker -> Request] /\ stopped' \subseteq Worker
    BY <1>9, <2>2, Resumes DEF MoveItem, MoveFails
  <2> QED
    BY <1>9, <2>3 DEF MoveItem, MoveFails
<1>10. CASE EndMoving(w)
  BY <1>10, <1>t, <1>0, Answers DEF EndMoving
<1>11. CASE TimeOut(w)
  BY <1>11, <1>0 DEF TimeOut
<1> QED
  BY <1>1, <1>2, <1>3, <1>4, <1>5, <1>6, <1>7, <1>8, <1>9, <1>10, <1>11 DEF DeleteStep

LEMMA RestoreTypes ==
  ASSUME TypeOK, NEW w \in Worker, RestoreStep(w) \/ CleanupStep(w)
  PROVE  TypeOK'
<1> USE Plainly, TypesKept DEF Becomes
<1>0. /\ op \in [Worker -> Request] /\ op[w] \in Request
      /\ op[w].saved \in Row /\ op[w].todo \subseteq content
  BY Requests DEF Request
<1>t. {"idle", "unpack", "add", "addNamed", "undo", "restored", "clean", "purge"} \subseteq PC
      /\ {"restored", "purged", "failed"} \subseteq Reply
  BY DEF PC, Reply, Synchronous, Adding
<1>1. CASE AskRestore(w) \/ AskCleanup(w)
  <2>1. PICK to \in PC, rest \in SUBSET content : Ask(w, to, rest)
    BY <1>1, <1>t DEF AskRestore, AskCleanup
  <2>2. op' \in [Worker -> Request]
    BY <2>1, Asks
  <2> QED
    BY <1>1, <2>2 DEF AskRestore, AskCleanup, Ask
<1>2. ASSUME NEW i \in content, RemoveTarget(w, i) \/ Unpack(w, i) \/ UnpackFails(w, i)
      PROVE  TypeOK'
  <2>1. op[w].todo \ {i} \in SUBSET content
    BY <1>0
  <2>2. /\ [op[w] EXCEPT !.todo = op[w].todo \ {i}] \in Request
        /\ [op[w] EXCEPT !.todo = op[w].todo \ {i}, !.failed = TRUE] \in Request
    BY <2>1, <1>0, <1>t, Edited
  <2>3. \/ op' = op
        \/ op' = [op EXCEPT ![w] = [op[w] EXCEPT !.todo = op[w].todo \ {i}]]
        \/ op' = [op EXCEPT ![w] = [op[w] EXCEPT !.todo = op[w].todo \ {i}, !.failed = TRUE]]
    BY <1>2, <1>0 DEF RemoveTarget, Unpack, UnpackFails
  <2>4. op' \in [Worker -> Request]
    BY <2>2, <2>3, <1>0, Replaced
  <2> QED
    BY <1>2, <2>4 DEF RemoveTarget, Unpack, UnpackFails
<1>3. CASE EndUnpack(w)
  <2>1. PICK to \in PC : op' = [op EXCEPT ![w] = [op[w] EXCEPT !.pc = to]]
    BY <1>3, <1>t DEF EndUnpack
  <2>2. op' \in [Worker -> Request]
    BY <2>1, <1>0, Edited, Replaced
  <2> QED
    BY <1>3, <2>2 DEF EndUnpack
<1>4. ASSUME NEW b \in BOOLEAN, Add(w, b)
      PROVE  TypeOK'
  BY <1>4, <1>t, Goes DEF Add
<1>5. ASSUME NEW b \in BOOLEAN, AddFails(w, b)
      PROVE  TypeOK'
  BY <1>5, <1>t, Goes, Answers DEF AddFails
<1>6. CASE Undo(w) \/ UndoFails(w) \/ Purge(w)
  <2>1. op' \in [Worker -> Request] /\ stopped' \subseteq Worker
    BY <1>6, <1>t, Answers DEF Undo, UndoFails, Purge
  <2> QED
    BY <1>6, <2>1 DEF Undo, UndoFails, Purge, Row
<1>7. CASE Restored(w)
  <2>1. row' \in Row
    BY <1>7 DEF Restored, Row
  <2> QED
    BY <1>7, <2>1, <1>t, Answers DEF Restored
<1>8. ASSUME NEW left \in SUBSET content, Clean(w, left)
      PROVE  TypeOK'
  BY <1>8, <1>t, Goes DEF Clean
<1> QED
  BY <1>1, <1>2, <1>3, <1>4, <1>5, <1>6, <1>7, <1>8 DEF RestoreStep, CleanupStep

LEMMA TypeStep == TypeOK /\ [Next]_vars => TypeOK'
<1> SUFFICES ASSUME TypeOK, [Next]_vars
             PROVE  TypeOK'
  OBVIOUS
<1>0. op \in [Worker -> Request]
  BY Requests
<1> USE Plainly, TypesKept
<1>1. ASSUME NEW w \in Worker, RequestStep(w)
      PROVE  TypeOK'
  BY <1>1, DeleteTypes, RestoreTypes DEF RequestStep
<1>2. CASE Expire \/ ShowsUp \/ Poll \/ Load \/ Confirm
  BY <1>0, <1>2 DEF Expire, ShowsUp, Poll, Load, Confirm, Write
<1>3. ASSUME NEW b \in BOOLEAN, SyncFails(b)
      PROVE  TypeOK'
  BY <1>0, <1>3 DEF SyncFails, Write
<1>4. CASE Readd
  BY <1>0, <1>4 DEF Readd
<1>5. CASE Crash
  <2>1. op' \in [Worker -> Request]
    BY <1>5 DEF Crash, Idle, Request, Row, PC, Reply
  <2> QED
    BY <1>5, <2>1 DEF Crash
<1>6. CASE UNCHANGED vars
  BY <1>0, <1>6 DEF vars
<1> QED
  BY <1>1, <1>2, <1>3, <1>4, <1>5, <1>6 DEF Next

(* The row, the files and the requests keep their types, for any number of *)
(* requests at a time.                                                     *)
THEOREM TypeCorrect == Spec => []TypeOK
  BY TypeInit, TypeStep, PTL DEF Spec

-----------------------------------------------------------------------------
(* The bin while one request at a time works on the torrent.               *)
OneRequest == \A v, w \in Worker : v = w

(* A single file has no folders; entries lie in a folder that exists.      *)
Shape ==
    IF single THEN \E i \in Item : content = {i}
    ELSE /\ here # {} => "here" \in folders
         /\ trash # {} => "trash" \in folders

Back == (task \/ unseen) /\ trash = {}

(* Where a request is tells how far the torrent is on its way; what it     *)
(* would put back, on failure, is true of the torrent as it is.  That all  *)
(* of the trash is found needs the right guess.                            *)
Doing(w) ==
    /\ op[w].failed => spoiled
    /\ op[w].saved.deleted => op[w].saved.backup
    /\ op[w].pc \in {"remove", "move", "merge", "moving", "unpack", "undo", "restored"} \cup Adding
          => row.deleted
    /\ op[w].pc \in {"backup", "files", "unpack", "undo", "restored"} \cup Adding
          => op[w].saved = row
    /\ At(w, "remove") /\ guess = single => spoiled \/ op[w].saved.deleted \/ Back
    /\ op[w].pc \in {"move", "merge", "moving"} => ~task /\ ~unseen
    /\ At(w, "merge") => trash \subseteq here
    /\ At(w, "moving") => op[w].failed \/ here \subseteq op[w].todo
    /\ At(w, "restored") => task \/ unseen
    /\ At(w, "unpack") => single \/ "here" \in folders
    /\ At(w, "unpack") /\ guess = single => spoiled \/ trash \subseteq op[w].todo
    /\ op[w].pc \in Adding \cup {"restored"} /\ guess = single => spoiled \/ trash = {}

(* What is not in the bin is where it was.                                 *)
BinInv ==
    /\ TypeOK
    /\ Shape
    /\ Misnamed \/ guess = single
    /\ row.deleted => row.backup
    /\ guess = single => row.deleted \/ spoiled \/ Back
    /\ \A w \in Worker : Doing(w)

LEMMA BinInit == Init => BinInv
<1> SUFFICES ASSUME Init
             PROVE  BinInv
  OBVIOUS
<1>1. TypeOK
  BY TypeInit
<1>2. Shape
  <2>1. content \subseteq Item /\ IsFiniteSet(content)
    BY BinAssumption, FS_Subset DEF Init, BinAssumption
  <2>2. single => \E i : content = {i}
    BY <2>1, FS_Singleton DEF Init
  <2> QED
    BY <2>1, <2>2 DEF Init, Shape
<1>3. ~row.deleted /\ Back
  BY DEF Init, Idle, Back
<1>4. \A w \in Worker : Doing(w)
  BY DEF Init, Idle, Doing, Adding
<1> QED
  BY <1>1, <1>2, <1>3, <1>4 DEF BinInv, Init

(* A request that is over owes nothing.                                    *)
LEMMA OverIsDone ==
  ASSUME NEW w \in Worker, NEW a \in Reply, op'[w] = Done(a)
  PROVE  Doing(w)'
  BY DoneType DEF Doing, Adding

(* Steps that leave the torrent's row, task and files alone.               *)
LEMMA BinDeleteQuietly ==
  ASSUME OneRequest, BinInv, NEW w \in Worker,
         AskDelete(w) \/ Backup(w) \/ BackupFails(w) \/ NothingToMove(w) \/ DropCopies(w)
           \/ TimeOut(w) \/ Abandon(w)
  PROVE  BinInv'
<1>0. TypeOK' /\ UNCHANGED <<torrent, row, client, files, spoiled>>
  BY DeleteTypes DEF BinInv, DeleteStep, AskDelete, Backup, BackupFails, NothingToMove,
     DropCopies, TimeOut, Abandon
<1>1. Doing(w)
  BY DEF BinInv
<1>2. Doing(w)'
  <2> USE <1>0, <1>1 DEF BinInv, Becomes, PC, Synchronous, Adding, Reply
  <2>1. CASE AskDelete(w)
    <3>1. PICK to \in {"backup", "files"} : Ask(w, to, {})
      BY <2>1 DEF AskDelete
    <3>2. to \in PC
      OBVIOUS
    <3>3. op'[w].pc = to /\ op'[w].saved = row /\ ~op'[w].failed
      BY <3>1, <3>2, Asks
    <3> QED
      BY <3>3 DEF Doing
  <2>2. CASE Backup(w)
    <3>1. op'[w].pc = "files" /\ op'[w].saved = op[w].saved /\ op'[w].failed = op[w].failed
      BY <2>2, Goes DEF Backup
    <3> QED
      BY <2>2, <3>1 DEF Backup, Doing
  <2>3. CASE DropCopies(w)
    <3>1. op'[w].pc = "merge" /\ op'[w].saved = op[w].saved /\ op'[w].failed = op[w].failed
      BY <2>3, Goes DEF DropCopies
    <3> QED
      BY <2>3, <3>1 DEF DropCopies, Doing, Copies
  <2>4. CASE BackupFails(w) \/ NothingToMove(w) \/ Abandon(w)
    BY <2>4, Answers, OverIsDone DEF BackupFails, NothingToMove, Abandon
  <2>5. CASE TimeOut(w)
    BY <2>5 DEF TimeOut, Doing, Back
  <2> QED
    BY <2>1, <2>2, <2>3, <2>4, <2>5
<1> QED
  BY <1>0, <1>2 DEF BinInv, OneRequest, Shape, Back

(* Steps that fail: what is put back was true when it was read.            *)
LEMMA BinDeleteFails ==
  ASSUME OneRequest, BinInv, NEW w \in Worker,
         \/ \E b \in BOOLEAN : RemoveFails(w, b)
         \/ MoveRefused(w)
         \/ \E left \in SUBSET content : MergeFails(w, left)
         \/ EndMoving(w)
  PROVE  BinInv'
<1>0. TypeOK' /\ UNCHANGED <<torrent, here, folders>> /\ op[w] \in Request
  BY DeleteTypes, Requests DEF BinInv, DeleteStep, RemoveFails, MoveRefused, MergeFails, EndMoving
<1>1. Doing(w)
  BY DEF BinInv
<1>2. Doing(w)'
  BY Answers, OverIsDone
     DEF BinInv, Becomes, Reply, RemoveFails, MoveRefused, MergeFails, EndMoving
<1>3. Shape'
  BY <1>0 DEF BinInv, Shape, RemoveFails, MoveRefused, MergeFails, EndMoving
<1>4. row'.deleted => row'.backup
  BY <1>1 DEF BinInv, Doing, RemoveFails, MoveRefused, MergeFails, EndMoving
<1>5. guess = single => row'.deleted \/ spoiled' \/ Back'
  BY <1>1, <1>0 DEF BinInv, Doing, Back, RemoveFails, MoveRefused, MergeFails, EndMoving, Request
<1> QED
  BY <1>0, <1>2, <1>3, <1>4, <1>5 DEF BinInv, OneRequest

(* Steps that take the torrent out of its place.                           *)
LEMMA BinDelete ==
  ASSUME OneRequest, BinInv, NEW w \in Worker,
         \/ \E b \in BOOLEAN : SoftDelete(w, b)
         \/ Remove(w) \/ StartMoving(w) \/ Merge(w)
         \/ \E i \in content : MoveItem(w, i) \/ MoveFails(w, i)
  PROVE  BinInv'
<1>0. TypeOK' /\ UNCHANGED torrent /\ op[w] \in Request
  BY DeleteTypes, Requests DEF BinInv, DeleteStep, SoftDelete, Remove, StartMoving, Merge,
     MoveItem, MoveFails
<1>1. Doing(w) /\ TypeOK
  BY DEF BinInv
<1>2. Shape'
  BY <1>0 DEF BinInv, Shape, SoftDelete, Remove, StartMoving, Merge, MoveItem, MoveFails
<1>3. row'.deleted /\ row'.backup
  <2>1. ASSUME NEW b \in BOOLEAN, SoftDelete(w, b)
        PROVE  row'.deleted /\ row'.backup
    BY <2>1 DEF SoftDelete
  <2>2. CASE \/ Remove(w) \/ StartMoving(w) \/ Merge(w)
             \/ \E i \in content : MoveItem(w, i) \/ MoveFails(w, i)
    <3>1. row' = row /\ op[w].pc \in {"remove", "move", "merge", "moving"}
      BY <2>2 DEF Remove, StartMoving, Merge, MoveItem, MoveFails
    <3> QED
      BY <3>1, <1>1 DEF Doing, BinInv
  <2> QED
    BY <2>1, <2>2
<1>4. Doing(w)'
  <2>1. ASSUME NEW b \in BOOLEAN, SoftDelete(w, b)
        PROVE  Doing(w)'
    <3>1. op'[w].pc = "remove" /\ op'[w].saved = op[w].saved /\ op'[w].failed = op[w].failed
      BY <1>1, <2>1, Goes DEF SoftDelete, PC, Synchronous
    <3> QED
      BY <1>1, <2>1, <3>1 DEF BinInv, SoftDelete, Doing, Adding, Back
  <2>2. CASE Remove(w)
    <3>1. op'[w].pc = "move" /\ op'[w].saved = op[w].saved /\ op'[w].failed = op[w].failed
      BY <1>1, <2>2, Goes DEF Remove, PC
    <3> QED
      BY <1>1, <2>2, <3>1 DEF Remove, Doing, Adding
  <2>3. CASE StartMoving(w)
    <3>1. op'[w] = [op[w] EXCEPT !.pc = "moving", !.todo = here]
      BY <1>1, <2>3, Requests DEF StartMoving
    <3>2. /\ op'[w].pc = "moving" /\ op'[w].saved = op[w].saved /\ op'[w].todo = here
          /\ op'[w].failed = op[w].failed
      BY <1>0, <3>1 DEF Request
    <3> QED
      BY <1>1, <2>3, <3>2 DEF StartMoving, Doing, Adding
  <2>4. CASE Merge(w)
    <3>1. [op[w] EXCEPT !.pc = "moving", !.todo = here] \in Request
      BY <1>0, <1>1, Edited DEF PC, TypeOK
    <3>2. op'[w] \in {Done("timeout"), [op[w] EXCEPT !.pc = "moving", !.todo = here]}
      BY <1>1, <2>4, <3>1, Resumes DEF Merge, Becomes
    <3>3. CASE op'[w] = [op[w] EXCEPT !.pc = "moving", !.todo = here]
      <4>1. /\ op'[w].pc = "moving" /\ op'[w].saved = op[w].saved /\ op'[w].todo = here
            /\ op'[w].failed = op[w].failed
        BY <1>0, <3>3 DEF Request
      <4> QED
        BY <1>1, <2>4, <4>1 DEF Merge, Doing, Adding
    <3> QED
      BY <3>2, <3>3, OverIsDone DEF Reply
  <2>5. ASSUME NEW i \in content, MoveItem(w, i)
        PROVE  Doing(w)'
    <3>1. op[w].todo \ {i} \in SUBSET content
      BY <1>0 DEF Request
    <3>2. [op[w] EXCEPT !.todo = @ \ {i}] \in Request
      BY <1>0, <3>1 DEF Request
    <3>3. op'[w] \in {Done("timeout"), [op[w] EXCEPT !.todo = @ \ {i}]}
      BY <1>1, <2>5, <3>2, Resumes DEF MoveItem, Becomes
    <3>4. CASE op'[w] = [op[w] EXCEPT !.todo = @ \ {i}]
      <4>1. /\ op'[w].pc = op[w].pc /\ op'[w].saved = op[w].saved
            /\ op'[w].todo = op[w].todo \ {i} /\ op'[w].failed = op[w].failed
        BY <1>0, <3>4 DEF Request
      <4> QED
        BY <1>1, <2>5, <4>1 DEF MoveItem, Doing, Adding
    <3> QED
      BY <3>3, <3>4, OverIsDone DEF Reply
  <2>6. ASSUME NEW i \in content, MoveFails(w, i)
        PROVE  Doing(w)'
    <3>1. op[w].todo \ {i} \in SUBSET content
      BY <1>0 DEF Request
    <3>2. [op[w] EXCEPT !.todo = @ \ {i}, !.failed = TRUE] \in Request
      BY <1>0, <3>1 DEF Request
    <3>3. op'[w] \in {Done("timeout"), [op[w] EXCEPT !.todo = @ \ {i}, !.failed = TRUE]}
      BY <1>1, <2>6, <3>2, Resumes DEF MoveFails, Becomes
    <3>4. CASE op'[w] = [op[w] EXCEPT !.todo = @ \ {i}, !.failed = TRUE]
      <4>1. op'[w].pc = op[w].pc /\ op'[w].saved = op[w].saved /\ op'[w].failed
        BY <1>0, <3>4 DEF Request
      <4> QED
        BY <1>1, <2>6, <4>1 DEF MoveFails, Doing, Adding
    <3> QED
      BY <3>3, <3>4, OverIsDone DEF Reply
  <2> QED
    BY <2>1, <2>2, <2>3, <2>4, <2>5, <2>6
<1> QED
  BY <1>0, <1>2, <1>3, <1>4 DEF BinInv, OneRequest

(* Steps of a restore.                                                     *)
LEMMA BinRestore ==
  ASSUME OneRequest, BinInv, NEW w \in Worker, RestoreStep(w)
  PROVE  BinInv'
<1>0. TypeOK' /\ UNCHANGED torrent /\ op[w] \in Request
  BY RestoreTypes, Requests
     DEF BinInv, RestoreStep, AskRestore, EndUnpack, Add, Undo, UndoFails, Restored,
         RemoveTarget, Unpack, UnpackFails, AddFails
<1>1. Doing(w) /\ TypeOK
  BY DEF BinInv
<1>2. Shape'
  <2> USE <1>0, <1>1 DEF BinInv, TypeOK, Shape
  <2>1. CASE AskRestore(w) \/ (\E b \in BOOLEAN : Add(w, b)) \/ UndoFails(w) \/ Restored(w)
    BY <2>1 DEF AskRestore, Add, UndoFails, Restored
  <2>2. CASE EndUnpack(w)
    BY <2>2 DEF EndUnpack
  <2>3. CASE Undo(w)
    BY <2>3 DEF Undo
  <2>4. ASSUME NEW i \in content, RemoveTarget(w, i) \/ Unpack(w, i) \/ UnpackFails(w, i)
        PROVE  Shape'
    <3>1. /\ single \/ "here" \in folders
          /\ trash' \subseteq trash /\ folders' = folders
      BY <2>4 DEF RemoveTarget, Unpack, UnpackFails, Doing
    <3> QED
      BY <3>1
  <2>5. ASSUME NEW b \in BOOLEAN, AddFails(w, b)
        PROVE  Shape'
    BY <2>5 DEF AddFails
  <2> QED
    BY <2>1, <2>2, <2>3, <2>4, <2>5 DEF RestoreStep
<1>3. row'.deleted => row'.backup
  <2>1. row' = row \/ ~row'.deleted
    BY <1>1 DEF RestoreStep, AskRestore, EndUnpack, Add, Undo, UndoFails, Restored,
         RemoveTarget, Unpack, UnpackFails, AddFails, TypeOK, Row
  <2> QED
    BY <2>1 DEF BinInv
<1>4. CASE Restored(w)
  <2>1. Doing(w)'
    BY <1>1, <1>4, Answers, OverIsDone DEF Restored, Becomes, Reply
  <2>2. guess = single => spoiled' \/ Back'
    BY <1>1, <1>4 DEF Restored, Doing, Back
  <2> QED
    BY <1>0, <1>2, <1>3, <2>1, <2>2 DEF BinInv, OneRequest
<1>5. CASE ~Restored(w)
  <2>1. row' = row /\ row.deleted
    BY <1>1, <1>5
     DEF RestoreStep, AskRestore, EndUnpack, Add, Undo, UndoFails,
         RemoveTarget, Unpack, UnpackFails, AddFails, Doing, Adding
  <2> SUFFICES Doing(w)'
    BY <1>0, <1>2, <1>3, <2>1 DEF BinInv, OneRequest
  <2>2. CASE AskRestore(w)
    <3>0. UNCHANGED <<row, client, here, trash, spoiled>>
      BY <2>2 DEF AskRestore
    <3>1. CASE ~(guess = single /\ TrashExists)
      <4>1. op'[w].pc = "add" /\ op'[w].saved = row /\ ~op'[w].failed
        BY <1>1, <2>2, <3>1, Asks DEF AskRestore, PC, Adding
      <4>2. guess = single => trash = {}
        BY <3>1, <1>0 DEF BinInv, Shape, TrashExists
      <4> QED
        BY <1>0, <3>0, <2>1, <4>1, <4>2 DEF Doing, BinInv, Adding
    <3>2. CASE guess = single /\ TrashExists
      <4>1. /\ op'[w].pc = "unpack" /\ op'[w].saved = row /\ op'[w].todo = trash
            /\ ~op'[w].failed
        BY <1>1, <2>2, <3>2, Asks DEF AskRestore, PC, TypeOK
      <4>2. single' \/ "here" \in folders'
        BY <1>0, <2>2, <3>2 DEF AskRestore
      <4> QED
        BY <1>0, <3>0, <2>1, <4>1, <4>2 DEF Doing, BinInv, Adding
    <3> QED
      BY <3>1, <3>2
  <2>3. ASSUME NEW i \in content, RemoveTarget(w, i)
        PROVE  Doing(w)'
    BY <1>1, <2>3 DEF RemoveTarget, Doing, Adding
  <2>4. ASSUME NEW i \in content, Unpack(w, i) \/ UnpackFails(w, i)
        PROVE  Doing(w)'
    <3>1. /\ op'[w].pc = "unpack" /\ op'[w].saved = op[w].saved
          /\ op'[w].todo = op[w].todo \ {i} /\ (op'[w].failed => op[w].failed \/ spoiled')
      BY <1>0, <1>1, <2>4, Requests DEF Unpack, UnpackFails, Request
    <3> QED
      BY <1>1, <2>1, <2>4, <3>1 DEF Unpack, UnpackFails, Doing, Adding
  <2>5. CASE EndUnpack(w)
    <3>1. /\ op'[w].pc \in Adding /\ op'[w].saved = op[w].saved
          /\ op'[w].failed = op[w].failed
      BY <1>0, <1>1, <2>5, Requests DEF EndUnpack, Request, Adding
    <3> QED
      <4>1. At(w, "unpack") /\ op[w].todo = {} /\ UNCHANGED <<trash, spoiled>>
        BY <2>5 DEF EndUnpack
      <4> QED
        BY <1>0, <1>1, <2>1, <4>1, <3>1 DEF Doing, Adding
  <2>6. ASSUME NEW b \in BOOLEAN, Add(w, b)
        PROVE  Doing(w)'
    <3>1. op'[w].pc = "restored" /\ op'[w].saved = op[w].saved /\ op'[w].failed = op[w].failed
      BY <1>1, <2>6, Goes DEF Add, PC
    <3> QED
      <4>1. op[w].pc \in Adding /\ (task' \/ unseen') /\ UNCHANGED <<trash, spoiled>>
        BY <2>6 DEF Add
      <4> QED
        BY <1>0, <1>1, <2>1, <4>1, <3>1 DEF Doing, Adding
  <2>7. ASSUME NEW b \in BOOLEAN, AddFails(w, b)
        PROVE  Doing(w)'
    <3>1. CASE Goto(w, "undo")
      <4>1. op'[w].pc = "undo" /\ op'[w].saved = op[w].saved /\ op'[w].failed = op[w].failed
        BY <1>1, <3>1, Goes DEF PC
      <4> QED
        BY <1>1, <2>1, <2>7, <4>1 DEF AddFails, Doing, Adding
    <3>2. CASE Answer(w, "failed")
      BY <1>1, <3>2, Answers, OverIsDone DEF Becomes, Reply
    <3> QED
      BY <2>7, <3>1, <3>2 DEF AddFails
  <2>8. CASE Undo(w) \/ UndoFails(w)
    <3>1. Answer(w, "failed")
      BY <2>8 DEF Undo, UndoFails
    <3> QED
      BY <1>1, <3>1, Answers, OverIsDone DEF Becomes, Reply
  <2> QED
    BY <1>5, <2>2, <2>3, <2>4, <2>5, <2>6, <2>7, <2>8 DEF RestoreStep
<1> QED
  BY <1>4, <1>5

(* Steps of a cleanup.                                                     *)
LEMMA BinCleanup ==
  ASSUME OneRequest, BinInv, NEW w \in Worker, CleanupStep(w)
  PROVE  BinInv'
<1>0. TypeOK' /\ UNCHANGED <<torrent, row, client, here, spoiled>> /\ trash' \subseteq trash
  BY RestoreTypes DEF BinInv, CleanupStep, AskCleanup, Purge, Clean
<1>1. Doing(w) /\ TypeOK
  BY DEF BinInv
<1>2. Shape'
  BY <1>0, <1>1 DEF BinInv, TypeOK, Shape, CleanupStep, AskCleanup, Purge, Clean
<1>3. Doing(w)'
  <2>1. CASE AskCleanup(w)
    <3>1. op'[w].pc = "clean" /\ op'[w].saved = row /\ ~op'[w].failed
      BY <1>1, <2>1, Asks DEF AskCleanup, PC, Synchronous
    <3> QED
      BY <3>1, <1>0 DEF Doing, Adding, BinInv
  <2>2. ASSUME NEW left \in SUBSET content, Clean(w, left)
        PROVE  Doing(w)'
    <3>1. op'[w].pc = "purge" /\ op'[w].saved = op[w].saved /\ op'[w].failed = op[w].failed
      BY <1>1, <2>2, Goes DEF Clean, PC, Synchronous
    <3> QED
      BY <3>1, <1>0, <1>1 DEF Doing, Adding
  <2>3. CASE Purge(w)
    BY <1>1, <2>3, Answers, OverIsDone DEF Purge, Becomes, Reply
  <2> QED
    BY <2>1, <2>2, <2>3, <1>0 DEF CleanupStep
<1> QED
  BY <1>0, <1>2, <1>3 DEF BinInv, OneRequest, Back

(* Steps of the sync, the scheduled cleanup, the user and a crash.         *)
LEMMA BinOutside ==
  ASSUME BinInv, [Next]_vars,
         \/ Expire \/ Readd \/ ShowsUp \/ Poll \/ Load \/ Confirm \/ Crash
         \/ \E b \in BOOLEAN : SyncFails(b)
         \/ UNCHANGED vars
  PROVE  BinInv'
<1>0. TypeOK'
  BY TypeStep DEF BinInv
<1>1. CASE \/ Expire \/ Poll \/ Load \/ Confirm
           \/ \E b \in BOOLEAN : SyncFails(b)
           \/ UNCHANGED vars
  <2>1. UNCHANGED <<torrent, row, client, files, op, spoiled>>
    BY <1>1 DEF Expire, Poll, Load, Confirm, Write, SyncFails, vars
  <2> QED
    BY <1>0, <2>1 DEF BinInv, Shape, Back, Doing
<1>2. CASE Readd
  <2>1. UNCHANGED <<torrent, row, trash, op, spoiled>> /\ task'
    BY <1>2 DEF Readd
  <2>2. Shape'
    BY <1>2 DEF BinInv, Shape, Readd
  <2>3. ASSUME NEW w \in Worker
        PROVE  Doing(w)'
    BY <1>2, <2>1 DEF BinInv, Doing, Adding, Readd
  <2> QED
    BY <1>0, <2>1, <2>2, <2>3 DEF BinInv, Back
<1>3. CASE ShowsUp
  <2>1. UNCHANGED <<torrent, row, files, op, spoiled>> /\ task' /\ unseen
    BY <1>3 DEF ShowsUp
  <2>2. ASSUME NEW w \in Worker
        PROVE  Doing(w)'
    BY <2>1 DEF BinInv, Doing, Adding, Back
  <2> QED
    BY <1>0, <2>1, <2>2 DEF BinInv, Shape, Back
<1>4. CASE Crash
  <2>1. UNCHANGED <<torrent, row, client, files, spoiled>>
    BY <1>4 DEF Crash
  <2>2. ASSUME NEW w \in Worker
        PROVE  Doing(w)'
    BY <1>4, <2>1 DEF Crash, Idle, Doing, Adding
  <2> QED
    BY <1>0, <2>1, <2>2 DEF BinInv, Shape, Back
<1> QED
  BY <1>1, <1>2, <1>3, <1>4

(* The invariant is kept by every step, and so it always holds.            *)
LEMMA BinStep == OneRequest /\ BinInv /\ [Next]_vars => BinInv'
<1> SUFFICES ASSUME OneRequest, BinInv, [Next]_vars
             PROVE  BinInv'
  OBVIOUS
<1>1. ASSUME NEW w \in Worker, DeleteStep(w)
      PROVE  BinInv'
  BY <1>1, BinDeleteQuietly, BinDeleteFails, BinDelete DEF DeleteStep
<1>2. ASSUME NEW w \in Worker, RestoreStep(w) \/ CleanupStep(w)
      PROVE  BinInv'
  BY <1>2, BinRestore, BinCleanup
<1> QED
  BY <1>1, <1>2, BinOutside DEF Next, RequestStep

LEMMA BinAlways == OneRequest => (Spec => []BinInv)
<1> SUFFICES ASSUME OneRequest
             PROVE  Spec => []BinInv
  OBVIOUS
<1> QED
  BY BinInit, BinStep, OneRequest, PTL DEF Spec

(* Between requests a torrent that is not in the bin has all its files in  *)
(* place, and a task or one that a restore took for granted; one that is   *)
(* in the bin has its backup: a deletion or restore that fails, runs into  *)
(* its timeout or dies at any step leaves no torrent that cannot be        *)
(* restored, unless a file operation failed.                               *)
THEOREM DeletedIsRestorable ==
  ASSUME OneRequest, ~Misnamed
  PROVE  Spec => []Restorable
<1>1. BinInv => Restorable
  BY DEF BinInv, Back, Restorable
<1> QED
  BY <1>1, BinAlways, OneRequest, PTL

(* An entry leaves the disk only in a cleanup somebody asked for, also     *)
(* when extensions lie: the copies that a deletion or a restore removes    *)
(* have their original beside them.                                        *)
THEOREM OnlyCleanupLoses ==
  ASSUME OneRequest
  PROVE  Spec => NothingLost
<1>1. BinInv /\ [Next]_vars =>
        [(here \cup trash) \ (here' \cup trash') # {} => \E w \in Worker : At(w, "clean")]_vars
  <2> SUFFICES ASSUME BinInv, Next,
                      NEW e \in here \cup trash, e \notin here' \cup trash'
               PROVE  \E w \in Worker : At(w, "clean")
    OBVIOUS
  <2>0. content \in SUBSET Item /\ here \subseteq content /\ trash \subseteq content
    BY DEF BinInv, TypeOK
  <2>1. ASSUME NEW w \in Worker, DeleteStep(w)
        PROVE  FALSE
    <3>1. Doing(w)
      BY DEF BinInv
    <3>2. here \cup trash = here' \cup trash'
      BY <2>1, <3>1, <2>0
         DEF Doing, DeleteStep, AskDelete, Backup, BackupFails, SoftDelete, RemoveFails, Remove,
             NothingToMove, MoveRefused, DropCopies, StartMoving, Merge, EndMoving, TimeOut,
             Abandon, MoveItem, MoveFails, MergeFails
    <3> QED
      BY <3>2
  <2>2. ASSUME NEW w \in Worker, RestoreStep(w)
        PROVE  FALSE
    <3>1. CASE Undo(w)
      <4>1. here' = {} /\ trash' = here
        BY <3>1 DEF Undo
      <4>2. single \/ trash = {}
        BY <3>1 DEF Undo
      <4>3. single => trash \subseteq here
        BY <3>1, <2>0 DEF Undo, HereExists, BinInv, Shape
      <4> QED
        BY <4>1, <4>2, <4>3
    <3>2. CASE ~Undo(w)
      <4>1. here \cup trash \subseteq here' \cup trash'
        BY <2>2, <3>2
           DEF RestoreStep, AskRestore, EndUnpack, Add, UndoFails, Restored,
               RemoveTarget, Unpack, UnpackFails, AddFails
      <4> QED
        BY <4>1
    <3> QED
      BY <3>1, <3>2
  <2>3. ASSUME NEW w \in Worker, CleanupStep(w)
        PROVE  At(w, "clean")
    BY <2>3 DEF CleanupStep, AskCleanup, Purge, Clean
  <2>4. CASE ~\E w \in Worker : RequestStep(w)
    <3>1. here \subseteq here' /\ trash' = trash
      BY <2>4, <2>0 DEF Next, Expire, Readd, ShowsUp, Poll, Load, Confirm, Write, SyncFails, Crash
    <3> QED
      BY <3>1
  <2> QED
    BY <2>1, <2>2, <2>3, <2>4 DEF RequestStep
<1> QED
  BY <1>1, BinAlways, OneRequest, PTL DEF NothingLost, Spec

(* What the answer of a step that ends the request of w says is true.      *)
Honest(w) ==
    /\ op'[w].answer = "deleted" => row'.deleted /\ ~task' /\ here' = {}
    /\ op'[w].answer = "restored" => ~row'.deleted /\ (task' \/ unseen') /\ (trash' = {} \/ spoiled)
    /\ op'[w].answer = "failed" => row'.deleted = op[w].saved.deleted

(* The steps of a deletion answer honestly.                                *)
LEMMA DeleteIsHonest ==
  ASSUME BinInv, NEW w \in Worker, DeleteStep(w), ~At(w, "idle"), op'[w].pc = "idle"
  PROVE  Honest(w)
<1>1. Doing(w) /\ TypeOK /\ op[w] \in Request
  BY Requests DEF BinInv
<1>t. /\ \A a \in Reply : Done(a).answer = a
      /\ {"deleted", "failed", "timeout"} \subseteq Reply
  BY DoneType DEF Reply
<1>f. ASSUME Answer(w, "failed"), row'.deleted = op[w].saved.deleted
      PROVE  Honest(w)
  BY <1>1, <1>t, <1>f, Answers DEF Honest, Becomes
<1>u. ASSUME op'[w] = Done("timeout")
      PROVE  Honest(w)
  BY <1>t, <1>u DEF Honest
<1>d. ASSUME Answer(w, "deleted"), row'.deleted, ~task', here' = {}
      PROVE  Honest(w)
  BY <1>1, <1>t, <1>d, Answers DEF Honest, Becomes
<1>2. CASE AskDelete(w) \/ TimeOut(w)
  BY <1>2 DEF AskDelete, Ask, TimeOut
<1>3. CASE Backup(w) \/ Remove(w) \/ DropCopies(w) \/ \E b \in BOOLEAN : SoftDelete(w, b)
  <2>1. PICK to \in {"files", "move", "merge", "remove"} : Goto(w, to)
    BY <1>3 DEF Backup, Remove, DropCopies, SoftDelete
  <2>2. to \in PC /\ to # "idle"
    BY DEF PC, Synchronous
  <2> QED
    BY <1>1, <2>1, <2>2, Goes
<1>4. CASE BackupFails(w) \/ MoveRefused(w) \/ \E b \in BOOLEAN : RemoveFails(w, b)
  BY <1>1, <1>f, <1>4 DEF BackupFails, MoveRefused, RemoveFails, Doing
<1>5. CASE NothingToMove(w)
  <2>1. row'.deleted /\ ~task' /\ here' = {}
    BY <1>1, <1>5 DEF NothingToMove, Doing, HereExists, BinInv, Shape
  <2> QED
    BY <1>5, <2>1, <1>d DEF NothingToMove
<1>6. CASE StartMoving(w)
  <2>1. op'[w] = [op[w] EXCEPT !.pc = "moving", !.todo = here]
    BY <1>1, <1>6, Requests DEF StartMoving
  <2> QED
    BY <1>1, <2>1 DEF Request
<1>7. CASE Merge(w) \/ \E i \in content : MoveItem(w, i) \/ MoveFails(w, i)
  <2>1. PICK next : Resume(w, next) /\ next \in Request /\ next.pc = "moving"
    <3>1. CASE Merge(w)
      <4> DEFINE r == [op[w] EXCEPT !.pc = "moving", !.todo = here]
      <4>1. r \in Request /\ r.pc = "moving"
        BY <1>1, Edited DEF PC, TypeOK, Request
      <4> QED
        BY <3>1, <4>1 DEF Merge
    <3>2. ASSUME NEW i \in content, MoveItem(w, i) \/ MoveFails(w, i)
          PROVE  \E next : Resume(w, next) /\ next \in Request /\ next.pc = "moving"
      <4> DEFINE r == [op[w] EXCEPT !.todo = @ \ {i}]
                 q == [op[w] EXCEPT !.todo = @ \ {i}, !.failed = TRUE]
      <4>1. /\ r \in Request /\ r.pc = op[w].pc
            /\ q \in Request /\ q.pc = op[w].pc
        BY <1>1 DEF Request
      <4>2. At(w, "moving") /\ (Resume(w, r) \/ Resume(w, q))
        BY <3>2 DEF MoveItem, MoveFails
      <4> HIDE DEF r, q
      <4> QED
        BY <4>1, <4>2
    <3> QED
      BY <1>7, <3>1, <3>2
  <2>2. op'[w] \in {Done("timeout"), next}
    BY <1>1, <2>1, Resumes DEF Becomes
  <2> QED
    BY <1>u, <2>1, <2>2
<1>8. ASSUME NEW left \in SUBSET content, MergeFails(w, left)
      PROVE  Honest(w)
  <2>1. CASE w \in stopped
    <3>1. Answer(w, "timeout")
      BY <1>8, <2>1 DEF MergeFails
    <3> QED
      BY <1>1, <1>t, <1>u, <3>1, Answers DEF Becomes
  <2>2. CASE w \notin stopped
    BY <1>8, <2>2, <1>f DEF MergeFails
  <2> QED
    BY <2>1, <2>2
<1>9. CASE EndMoving(w)
  <2>1. CASE op[w].failed
    BY <1>9, <2>1, <1>f DEF EndMoving
  <2>2. CASE ~op[w].failed
    <3>1. row'.deleted /\ ~task' /\ here' = {}
      BY <1>1, <1>9, <2>2 DEF EndMoving, Doing
    <3> QED
      BY <1>9, <2>2, <3>1, <1>d DEF EndMoving
  <2> QED
    BY <2>1, <2>2
<1>10. CASE Abandon(w)
  BY <1>1, <1>t, <1>u, <1>10, Answers DEF Abandon, Becomes
<1> QED
  BY <1>2, <1>3, <1>4, <1>5, <1>6, <1>7, <1>8, <1>9, <1>10 DEF DeleteStep

(* So do those of a restore, which finds all of the trash, and a cleanup.  *)
LEMMA RestoreIsHonest ==
  ASSUME ~Misnamed, BinInv, NEW w \in Worker, RestoreStep(w) \/ CleanupStep(w),
         ~At(w, "idle"), op'[w].pc = "idle"
  PROVE  Honest(w)
<1>1. Doing(w) /\ TypeOK /\ op[w] \in Request /\ guess = single
  BY Requests DEF BinInv
<1>t. /\ \A a \in Reply : Done(a).answer = a
      /\ {"restored", "failed", "purged"} \subseteq Reply
  BY DoneType DEF Reply
<1>2. CASE AskRestore(w) \/ AskCleanup(w)
  BY <1>2 DEF AskRestore, AskCleanup, Ask
<1>3. ASSUME NEW i \in content, RemoveTarget(w, i) \/ Unpack(w, i) \/ UnpackFails(w, i)
      PROVE  Honest(w)
  <2>1. op'[w].pc = op[w].pc
    BY <1>1, <1>3, Requests DEF RemoveTarget, Unpack, UnpackFails, Request
  <2> QED
    BY <2>1
<1>4. CASE EndUnpack(w)
  <2>1. op'[w].pc \in Adding
    BY <1>1, <1>4, Requests DEF EndUnpack, Request, Adding
  <2> QED
    BY <2>1 DEF Adding
<1>5. CASE (\E b \in BOOLEAN : Add(w, b)) \/ \E left \in SUBSET content : Clean(w, left)
  <2>1. PICK to \in {"restored", "purge"} : Goto(w, to)
    BY <1>5 DEF Add, Clean
  <2>2. to \in PC /\ to # "idle"
    BY DEF PC, Synchronous
  <2> QED
    BY <1>1, <2>1, <2>2, Goes
<1>6. CASE Undo(w) \/ UndoFails(w) \/ \E b \in BOOLEAN : AddFails(w, b)
  <2>1. Answer(w, "failed") \/ Goto(w, "undo")
    BY <1>6 DEF Undo, UndoFails, AddFails
  <2>2. op'[w] = Done("failed")
    <3>0. "undo" \in PC
      BY DEF PC
    <3>1. ASSUME Goto(w, "undo")
          PROVE  FALSE
      BY <1>1, <3>0, <3>1, Goes
    <3> QED
      BY <1>1, <1>t, <2>1, <3>1, Answers DEF Becomes
  <2>3. row' = row /\ op[w].saved = row
    BY <1>1, <1>6 DEF Undo, UndoFails, AddFails, Doing
  <2> QED
    BY <1>t, <2>2, <2>3 DEF Honest
<1>7. CASE Restored(w)
  <2>1. op'[w] = Done("restored")
    BY <1>1, <1>t, <1>7, Answers DEF Restored, Becomes
  <2>2. ~row'.deleted /\ (task' \/ unseen') /\ (trash' = {} \/ spoiled)
    BY <1>1, <1>7 DEF Restored, Doing, TypeOK, Row
  <2> QED
    BY <1>t, <2>1, <2>2 DEF Honest
<1>8. CASE Purge(w)
  <2>1. op'[w] = Done("purged")
    BY <1>1, <1>t, <1>8, Answers DEF Purge, Becomes
  <2> QED
    BY <1>t, <2>1 DEF Honest
<1> QED
  BY <1>2, <1>3, <1>4, <1>5, <1>6, <1>7, <1>8 DEF RestoreStep, CleanupStep

(* "deleted" and "failed" are true when a request answers them, and        *)
(* "restored" of the row and the files (of the task, if it was seen),      *)
(* whatever the sync, the scheduled cleanup and the user do between the    *)
(* steps of the request.                                                   *)
THEOREM AnswersAreTrue ==
  ASSUME OneRequest, ~Misnamed
  PROVE  Spec => AnswersTrue
<1>1. ASSUME BinInv, Next, NEW w \in Worker, ~At(w, "idle"), op'[w].pc = "idle"
      PROVE  Honest(w)
  <2>1. ASSUME NEW v \in Worker, RequestStep(v)
        PROVE  Honest(w)
    <3>1. v = w
      BY OneRequest DEF OneRequest
    <3> QED
      BY <1>1, <2>1, <3>1, DeleteIsHonest, RestoreIsHonest DEF RequestStep
  <2>2. CASE Crash
    BY <2>2 DEF Crash, Idle, Honest
  <2>3. CASE \/ Expire \/ Readd \/ ShowsUp \/ Poll \/ Load \/ Confirm
             \/ \E b \in BOOLEAN : SyncFails(b)
    BY <1>1, <2>3 DEF Expire, Readd, ShowsUp, Poll, Load, Confirm, Write, SyncFails
  <2> QED
    BY <1>1, <2>1, <2>2, <2>3 DEF Next
<1>2. BinInv /\ [Next]_vars =>
        [\A w \in Worker : At(w, "idle") \/ op'[w].pc # "idle" \/
          CASE op'[w].answer = "deleted" -> row'.deleted /\ ~task' /\ here' = {}
            [] op'[w].answer = "restored" ->
                  ~row'.deleted /\ (task' \/ unseen') /\ (trash' = {} \/ spoiled)
            [] op'[w].answer = "failed" -> row'.deleted = op[w].saved.deleted
            [] OTHER -> TRUE]_vars
  BY <1>1 DEF Honest
<1> QED
  BY <1>2, BinAlways, OneRequest, PTL DEF AnswersTrue, Spec

=============================================================================
