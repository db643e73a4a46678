----------------------------- MODULE RecycleBin -----------------------------
(***************************************************************************)
(* One torrent and the recycle bin: deletion of level 3                    *)
(* (torrent_deletion_by_level.py), restore and cleanup                     *)
(* (recycle_bin_service.py), the scheduled cleanup (cleanup_executor.py)   *)
(* and the incremental sync, which hears from the downloader that the      *)
(* torrent is gone (torrents_async.py).                                    *)
(*                                                                         *)
(* Each changes the row, the downloader's task and the files in steps of   *)
(* its own.  The files lie in their place or under the name with           *)
(* .pending_delete; a torrent is one file or a folder.  What a request     *)
(* does between two awaits is one step; only where the process can die in  *)
(* between with something durable done, it is several (Synchronous).       *)
(***************************************************************************)
EXTENDS Naturals, FiniteSets

CONSTANTS Item,     \* entries a torrent's folder may have
          Worker,   \* requests that may be at work on the torrent together,
                    \* with the threads that outlive them
          Misnamed  \* whether an extension may lie about file or folder

ASSUME BinAssumption ==
    /\ IsFiniteSet(Item) /\ Item # {}
    /\ Misnamed \in BOOLEAN

VARIABLES
    content, \* the entries of the torrent, one for a single file
    single,  \* whether the torrent is a single file
    guess,   \* is_single_file_torrent by the extension alone
    row,     \* the fields of torrent_info that say it is in the bin
    dr,      \* torrent_info.dr
    task,    \* whether the downloader has the torrent
    unseen,  \* a restore took it for added, but it has not shown up
    here,    \* entries in their place
    trash,   \* entries under the name with .pending_delete
    folders, \* the two folders that exist, of a torrent that is a folder
    op,      \* op[w]: where the request of a worker is, and its variables
    stopped, \* workers whose request has run into its timeout
    known,   \* whether the confirmed rid of the sync covers the torrent
    report,  \* what the sync has read and not yet written
    spoiled  \* history: a file operation failed or a reply was lost

torrent == <<content, single, guess>>
client == <<task, unseen>>
files == <<here, trash, folders>>
sync == <<known, report>>
vars == <<torrent, row, dr, client, files, op, stopped, sync, spoiled>>

(* deleted: deleted_at is set; named: original_filename; listed:           *)
(* original_file_list; backup: a backup_file_path that exists.             *)
Row == [deleted : BOOLEAN, named : BOOLEAN, listed : BOOLEAN, backup : BOOLEAN]

(* saved: the row as the session has loaded it; loaded: its dr; todo: the  *)
(* entries still to be moved; failed: one was not; answer: of the last     *)
(* request.                                                                *)
Idle == [pc |-> "idle", saved |-> [deleted |-> FALSE, named |-> FALSE,
         listed |-> FALSE, backup |-> FALSE], loaded |-> 0, todo |-> {},
         failed |-> FALSE, answer |-> "none"]

Init ==
    /\ content \in SUBSET Item \ {{}}
    /\ single \in BOOLEAN /\ (single => Cardinality(content) = 1)
    /\ guess \in BOOLEAN /\ (~Misnamed => guess = single)
    /\ row = Idle.saved
    /\ dr = 0
    /\ task = TRUE /\ unseen = FALSE
    /\ here = content
    /\ trash = {}
    /\ folders = IF single THEN {} ELSE {"here"}
    /\ op = [w \in Worker |-> Idle]
    /\ stopped = {}
    /\ known = TRUE
    /\ report = "none"
    /\ spoiled = FALSE

-----------------------------------------------------------------------------
At(w, pc) == op[w].pc = pc

(* Code that runs on without an await: nobody else is scheduled.           *)
Synchronous == {"remove", "clean", "purge"}
LoopIsBusy == \E w \in Worker : op[w].pc \in Synchronous

HereExists == IF single THEN here # {} ELSE "here" \in folders
TrashExists == IF single THEN trash # {} ELSE "trash" \in folders

Goto(w, to) == op' = [op EXCEPT ![w].pc = to]

Answer(w, a) ==
    /\ op' = [op EXCEPT ![w] = [Idle EXCEPT !.answer = a]]
    /\ stopped' = stopped \ {w}

Ask(w, pc, todo) ==
    /\ At(w, "idle")
    /\ op' = [op EXCEPT ![w] = [pc |-> pc, saved |-> row, loaded |-> dr,
                                todo |-> todo, failed |-> FALSE, answer |-> "none"]]

-----------------------------------------------------------------------------
(* _delete_level3, up to the first await: delete_by_level finds the row,   *)
(* the marker is created.                                                  *)
AskDelete(w) ==
    /\ dr = 0
    /\ Ask(w, IF row.backup THEN "files" ELSE "backup", {})
    /\ UNCHANGED <<torrent, row, dr, client, files, stopped, sync, spoiled>>

Backup(w) ==
    /\ At(w, "backup") /\ w \notin stopped
    /\ Goto(w, "files")
    /\ UNCHANGED <<torrent, row, dr, client, files, stopped, sync, spoiled>>

BackupFails(w) ==
    /\ At(w, "backup")
    /\ Answer(w, "failed")
    /\ UNCHANGED <<torrent, row, dr, client, files, sync, spoiled>>

(* The file list has come, or not; soft_delete is committed.               *)
SoftDelete(w, listed) ==
    /\ At(w, "files") /\ w \notin stopped
    /\ row' = [deleted |-> TRUE, named |-> TRUE,
               listed |-> row.listed \/ listed, backup |-> TRUE]
    /\ Goto(w, "remove")
    /\ UNCHANGED <<torrent, dr, client, files, stopped, sync, spoiled>>

(* _delete_from_downloader, without the data.                              *)
Remove(w) ==
    /\ At(w, "remove")
    /\ task' = FALSE /\ unseen' = FALSE
    /\ Goto(w, "move")
    /\ UNCHANGED <<torrent, row, dr, files, stopped, sync, spoiled>>

(* It raises: the row gets back what the session had loaded.  The request  *)
(* may have reached the downloader nevertheless.                           *)
RemoveFails(w, arrived) ==
    /\ At(w, "remove")
    /\ task' = (task /\ ~arrived) /\ unseen' = (unseen /\ ~arrived)
    /\ spoiled' = (spoiled \/ arrived)
    /\ row' = op[w].saved
    /\ Answer(w, "failed")
    /\ UNCHANGED <<torrent, dr, files, sync>>

-----------------------------------------------------------------------------
(* _move_torrent_files_for_recycle.                                        *)

(* Nothing is in place: already moved, or missing.                         *)
NothingToMove(w) ==
    /\ At(w, "move")
    /\ ~HereExists
    /\ Answer(w, "deleted")
    /\ UNCHANGED <<torrent, row, dr, client, files, sync, spoiled>>

(* Mutant: the entries of an earlier attempt are taken for copies.         *)
MCopiesUnchecked == ~single /\ trash # {}

(* Leftovers of an earlier attempt that are also in their place.           *)
Copies == ~single /\ trash # {} /\ trash \subseteq here

MoveRefused(w) ==
    /\ At(w, "move")
    /\ HereExists
    /\ trash # {} /\ ~Copies
    /\ row' = op[w].saved
    /\ spoiled' = TRUE
    /\ Answer(w, "failed")
    /\ UNCHANGED <<torrent, dr, client, files, sync>>

DropCopies(w) ==
    /\ At(w, "move")
    /\ HereExists
    /\ Copies
    /\ Goto(w, "merge")
    /\ UNCHANGED <<torrent, row, dr, client, files, stopped, sync, spoiled>>

StartMoving(w) ==
    /\ At(w, "move")
    /\ HereExists
    /\ trash = {}
    /\ folders' = IF single THEN folders ELSE folders \cup {"trash"}
    /\ op' = [op EXCEPT ![w].pc = "moving", ![w].todo = here]
    /\ UNCHANGED <<torrent, row, dr, client, here, trash, stopped, sync, spoiled>>

(* The end of a thread whose request has been cut short is the end of all. *)
Resume(w, next) ==
    IF w \in stopped THEN Answer(w, "timeout")
                     ELSE op' = [op EXCEPT ![w] = next] /\ UNCHANGED stopped

(* rmtree of the copies, then the folder anew.                             *)
Merge(w) ==
    /\ At(w, "merge")
    /\ trash' = {}
    /\ folders' = IF w \in stopped THEN folders \ {"trash"} ELSE folders
    /\ Resume(w, [op[w] EXCEPT !.pc = "moving", !.todo = here])
    /\ UNCHANGED <<torrent, row, dr, client, here, sync, spoiled>>

(* rmtree stops half way, which fails the deletion.                        *)
MergeFails(w, left) ==
    /\ At(w, "merge") /\ left \subseteq trash
    /\ trash' = left
    /\ spoiled' = TRUE
    /\ row' = IF w \in stopped THEN row ELSE op[w].saved
    /\ Answer(w, IF w \in stopped THEN "timeout" ELSE "failed")
    /\ UNCHANGED <<torrent, dr, client, here, folders, sync>>

MoveItem(w, i) ==
    /\ At(w, "moving") /\ i \in op[w].todo
    /\ i \in here /\ (single \/ "trash" \in folders)
    /\ here' = here \ {i}
    /\ trash' = trash \cup {i}
    /\ Resume(w, [op[w] EXCEPT !.todo = @ \ {i}])
    /\ UNCHANGED <<torrent, row, dr, client, folders, sync, spoiled>>

MoveFails(w, i) ==
    /\ At(w, "moving") /\ i \in op[w].todo
    /\ spoiled' = TRUE
    /\ Resume(w, [op[w] EXCEPT !.todo = @ \ {i}, !.failed = TRUE])
    /\ UNCHANGED <<torrent, row, dr, client, files, sync>>

(* Mutant: the number of entries that failed is only logged.               *)
MEndMovingCountsOnly(w) ==
    /\ At(w, "moving") /\ op[w].todo = {}
    /\ Answer(w, "deleted")
    /\ UNCHANGED <<torrent, row, dr, client, files, sync, spoiled>>

(* Entries that failed fail the deletion, but those moved stay moved.      *)
EndMoving(w) ==
    /\ At(w, "moving") /\ op[w].todo = {}
    /\ IF op[w].failed
          THEN row' = op[w].saved /\ Answer(w, "failed")
          ELSE UNCHANGED row /\ Answer(w, "deleted")
    /\ UNCHANGED <<torrent, dr, client, files, sync, spoiled>>

(* wait_for of execute_deletion_task: the cancel goes to the await; a      *)
(* thread that has begun goes on, and reverts nothing.                     *)
TimeOut(w) ==
    /\ op[w].pc \in {"backup", "files", "merge", "moving"}
    /\ w \notin stopped
    /\ stopped' = stopped \cup {w}
    /\ UNCHANGED <<torrent, row, dr, client, files, op, sync, spoiled>>

(* Mutant: the cancelled request puts the row back like a failed one.      *)
MAbandonReverts(w) ==
    /\ w \in stopped
    /\ ~At(w, "merge")
    /\ row' = op[w].saved
    /\ Answer(w, "timeout")
    /\ UNCHANGED <<torrent, dr, client, files, sync, spoiled>>

Abandon(w) ==
    /\ w \in stopped
    /\ ~At(w, "merge")
    /\ Answer(w, "timeout")
    /\ UNCHANGED <<torrent, row, dr, client, files, sync, spoiled>>

-----------------------------------------------------------------------------
(* restore_torrents, up to the listing of the .pending_delete folder.  By  *)
(* the wrong name nothing is found, which is only logged.                  *)
AskRestore(w) ==
    /\ row.deleted /\ row.backup
    /\ IF guess = single /\ TrashExists
          THEN /\ Ask(w, "unpack", trash)
               /\ folders' = IF single THEN folders ELSE folders \cup {"here"}
          ELSE Ask(w, "add", {}) /\ UNCHANGED folders
    /\ UNCHANGED <<torrent, row, dr, client, here, trash, stopped, sync, spoiled>>

(* "if the target exists, delete it first"                                 *)
RemoveTarget(w, i) ==
    /\ At(w, "unpack") /\ i \in op[w].todo
    /\ i \in here /\ i \in trash
    /\ here' = here \ {i}
    /\ UNCHANGED <<torrent, row, dr, client, trash, folders, op, stopped, sync, spoiled>>

Unpack(w, i) ==
    /\ At(w, "unpack") /\ i \in op[w].todo
    /\ i \in trash /\ i \notin here
    /\ here' = here \cup {i}
    /\ trash' = trash \ {i}
    /\ op' = [op EXCEPT ![w].todo = @ \ {i}]
    /\ UNCHANGED <<torrent, row, dr, client, folders, stopped, sync, spoiled>>

(* An entry that cannot be renamed is counted and forgotten.               *)
UnpackFails(w, i) ==
    /\ At(w, "unpack") /\ i \in op[w].todo
    /\ op' = [op EXCEPT ![w].todo = @ \ {i}, ![w].failed = TRUE]
    /\ spoiled' = TRUE
    /\ UNCHANGED <<torrent, row, dr, client, files, stopped, sync>>

EndUnpack(w) ==
    /\ At(w, "unpack") /\ op[w].todo = {}
    /\ folders' = IF trash = {} THEN folders \ {"trash"} ELSE folders
    /\ op' = [op EXCEPT ![w].pc = IF single /\ op[w].failed THEN "add" ELSE "addNamed"]
    /\ UNCHANGED <<torrent, row, dr, client, here, trash, stopped, sync, spoiled>>

Adding == {"add", "addNamed"}

(* _restore_torrent_to_downloader.  What torrents_add replied, and whether *)
(* the torrent was seen in thirty polls, is not looked at.                 *)
Add(w, taken) ==
    /\ op[w].pc \in Adding
    /\ task' = (task \/ taken) /\ unseen' = ~task'
    /\ Goto(w, "restored")
    /\ UNCHANGED <<torrent, row, dr, files, stopped, sync, spoiled>>

(* It fails, or its answer comes too late.                                 *)
AddFails(w, arrived) ==
    /\ op[w].pc \in Adding
    /\ task' = (task \/ arrived) /\ unseen' = (unseen /\ ~task')
    /\ IF At(w, "addNamed") THEN Goto(w, "undo") /\ UNCHANGED stopped
                            ELSE Answer(w, "failed")
    /\ UNCHANGED <<torrent, row, dr, files, sync, spoiled>>

(* _rollback_file_rename: one rename of the file or of the whole folder.   *)
Undo(w) ==
    /\ At(w, "undo")
    /\ HereExists /\ (~single => trash = {})
    /\ here' = {}
    /\ trash' = here
    /\ folders' = IF single THEN folders ELSE {"trash"}
    /\ Answer(w, "failed")
    /\ UNCHANGED <<torrent, row, dr, client, sync, spoiled>>

UndoFails(w) ==
    /\ At(w, "undo")
    /\ Answer(w, "failed")
    /\ UNCHANGED <<torrent, row, dr, client, files, sync, spoiled>>

(* restore_from_recycle_bin and its commit: dr is only written if the      *)
(* session had loaded another value.                                       *)
Restored(w) ==
    /\ At(w, "restored")
    /\ row' = [row EXCEPT !.deleted = FALSE]
    /\ dr' = IF op[w].loaded = 1 THEN 0 ELSE dr
    /\ Answer(w, "restored")
    /\ UNCHANGED <<torrent, client, files, sync, spoiled>>

-----------------------------------------------------------------------------
(* manual_cleanup, of any row it is asked for.                             *)
AskCleanup(w) ==
    /\ Ask(w, "clean", {})
    /\ UNCHANGED <<torrent, row, dr, client, files, stopped, sync, spoiled>>

(* The recorded files are deleted, as far as that works, then the folders  *)
(* that are empty.  A single file is found by its name.                    *)
Clean(w, left) ==
    /\ At(w, "clean")
    /\ left \subseteq trash
    /\ ~row.named \/ (~single /\ ~row.listed) => left = trash
    /\ trash' = left
    /\ folders' = IF ~row.named THEN folders
                  ELSE {f \in folders : IF f = "here" THEN here # {} ELSE left # {}}
    /\ Goto(w, "purge")
    /\ UNCHANGED <<torrent, row, dr, client, here, stopped, sync, spoiled>>

Purge(w) ==
    /\ At(w, "purge")
    /\ dr' = 1
    /\ Answer(w, "purged")
    /\ UNCHANGED <<torrent, row, client, files, sync, spoiled>>

(* cleanup_level3: long enough in the bin.                                 *)
Expire ==
    /\ row.deleted /\ dr = 0
    /\ dr' = 1
    /\ UNCHANGED <<torrent, row, client, files, op, stopped, sync, spoiled>>

-----------------------------------------------------------------------------
(* sync_maindata with the confirmed rid.                                   *)
Poll ==
    /\ report = "none"
    /\ report' = CASE task -> "listed"
                   [] ~task /\ known -> "removed"
                   [] OTHER -> "none"
    /\ UNCHANGED <<torrent, row, dr, client, files, op, stopped, known, spoiled>>

(* The rows with dr=0 are read into the cache: a listed torrent has its    *)
(* row there, or is taken for a new one.                                   *)
Load ==
    /\ report = "listed"
    /\ report' = IF dr = 0 THEN "cached" ELSE "new"
    /\ UNCHANGED <<torrent, row, dr, client, files, op, stopped, known, spoiled>>

(* What the sync has read of the torrent is written: a cached row that     *)
(* differs is written with dr=0, whatever it has become; a new torrent     *)
(* gets a row of its own.                                                  *)
Write == CASE report = "removed" -> dr' = 1
           [] report = "cached" -> dr' \in {dr, 0}
           [] OTHER -> UNCHANGED dr

(* The rid is confirmed when all is written.                               *)
Confirm ==
    /\ report \in {"removed", "cached", "new"}
    /\ Write
    /\ report' = "none"
    /\ known' = (report # "removed")
    /\ UNCHANGED <<torrent, row, client, files, op, stopped, spoiled>>

(* The sync fails, before or after it has written, and the rid stays.      *)
SyncFails(written) ==
    /\ report # "none"
    /\ IF written THEN Write ELSE UNCHANGED dr
    /\ report' = "none"
    /\ UNCHANGED <<torrent, row, client, files, op, stopped, known, spoiled>>

(* The user adds the torrent to the downloader again, which brings its     *)
(* files.                                                                  *)
Readd ==
    /\ ~task /\ \A w \in Worker : At(w, "idle")
    /\ task' = TRUE /\ unseen' = FALSE
    /\ here' = content
    /\ folders' = IF single THEN folders ELSE folders \cup {"here"}
    /\ UNCHANGED <<torrent, row, dr, trash, op, stopped, sync, spoiled>>

(* The downloader is done with the torrent after the last poll.            *)
ShowsUp ==
    /\ unseen
    /\ task' = TRUE /\ unseen' = FALSE
    /\ UNCHANGED <<torrent, row, dr, files, op, stopped, sync, spoiled>>

(* The process dies.  The rid is on disk, but the downloader need not      *)
(* know it in a new session: then it answers with a full list.             *)
Crash ==
    /\ op' = [w \in Worker |-> Idle]
    /\ stopped' = {}
    /\ known' \in {known, FALSE}
    /\ report' = "none"
    /\ UNCHANGED <<torrent, row, dr, client, files, spoiled>>

-----------------------------------------------------------------------------
DeleteStep(w) ==
    \/ AskDelete(w) \/ Backup(w) \/ BackupFails(w)
    \/ \E b \in BOOLEAN : SoftDelete(w, b) \/ RemoveFails(w, b)
    \/ Remove(w) \/ NothingToMove(w) \/ MoveRefused(w) \/ DropCopies(w)
    \/ StartMoving(w) \/ Merge(w) \/ EndMoving(w) \/ TimeOut(w) \/ Abandon(w)
    \/ \E i \in content : MoveItem(w, i) \/ MoveFails(w, i)
    \/ \E left \in SUBSET content : MergeFails(w, left)

RestoreStep(w) ==
    \/ AskRestore(w) \/ EndUnpack(w) \/ Undo(w) \/ UndoFails(w) \/ Restored(w)
    \/ \E i \in content : RemoveTarget(w, i) \/ Unpack(w, i) \/ UnpackFails(w, i)
    \/ \E b \in BOOLEAN : Add(w, b) \/ AddFails(w, b)

CleanupStep(w) ==
    \/ AskCleanup(w) \/ Purge(w)
    \/ \E left \in SUBSET content : Clean(w, left)

RequestStep(w) == DeleteStep(w) \/ RestoreStep(w) \/ CleanupStep(w)

Next ==
    \/ \E w \in Worker : (LoopIsBusy => op[w].pc \in Synchronous) /\ RequestStep(w)
    \/ ~LoopIsBusy /\ (\/ Expire \/ Readd \/ ShowsUp \/ Poll \/ Load \/ Confirm
                        \/ \E b \in BOOLEAN : SyncFails(b))
    \/ Crash

Spec == Init /\ [][Next]_vars

-----------------------------------------------------------------------------
(* The variables and the requests keep their types.                        *)
TypeOK ==
    /\ content \subseteq Item /\ single \in BOOLEAN /\ guess \in BOOLEAN
    /\ row \in Row /\ dr \in {0, 1} /\ task \in BOOLEAN /\ unseen \in BOOLEAN
    /\ here \subseteq content /\ trash \subseteq content
    /\ folders \subseteq {"here", "trash"}
    /\ op \in [Worker -> [pc : {"idle", "backup", "files", "move", "merge", "moving", "unpack",
                                "undo", "restored"} \cup Synchronous \cup Adding,
                          saved : Row, loaded : {0, 1}, todo : SUBSET content,
                          failed : BOOLEAN,
                          answer : {"none", "deleted", "restored", "purged", "failed", "timeout"}]]
    /\ stopped \subseteq Worker
    /\ known \in BOOLEAN /\ report \in {"none", "removed", "listed", "cached", "new"}
    /\ spoiled \in BOOLEAN

(* Whatever is cut short, moved back or merged, and whatever sync and      *)
(* scheduled cleanup do meanwhile: an entry (by its name, as the code      *)
(* compares them) disappears from the disk only in a cleanup that somebody *)
(* asked for.                                                              *)
NothingLost ==
    [][(here \cup trash) \ (here' \cup trash') # {} => \E w \in Worker : At(w, "clean")]_vars

(* Between requests, what was deleted can be restored: the torrent is in   *)
(* the bin with a backup, or it is where it was, with no entry left behind *)
(* under .pending_delete and with its task, or one a restore has asked for *)
(* and not seen; unless a file operation failed or a reply was lost.       *)
Restorable ==
    (\A w \in Worker : At(w, "idle")) /\ ~spoiled =>
        IF row.deleted THEN row.backup ELSE (task \/ unseen) /\ trash = {}

(* What a request answers is true: a deleted torrent has left its place    *)
(* and its downloader; a restored one has all of its files back, and its   *)
(* task unless that was taken for granted; one that could not be deleted   *)
(* or restored is in the bin if it was before.                             *)
AnswersTrue ==
    [][\A w \in Worker : At(w, "idle") \/ op'[w].pc # "idle" \/
          CASE op'[w].answer = "deleted" -> row'.deleted /\ ~task' /\ here' = {}
            [] op'[w].answer = "restored" ->
                  ~row'.deleted /\ (task' \/ unseen') /\ (trash' = {} \/ spoiled)
            [] op'[w].answer = "failed" -> row'.deleted = op[w].saved.deleted
            [] OTHER -> TRUE]_vars

(* What the answer "restored" says of the downloader, which the code does  *)
(* not ask: the torrent is there.                                          *)
RestoredIsThere ==
    [][\A w \in Worker : At(w, "restored") /\ op'[w].answer = "restored" => task']_vars

(* A torrent in the bin stays in it until somebody restores or cleans it   *)
(* up, or the deletion that put it there gives up: "only a manual cleanup  *)
(* sets dr=1".                                                             *)
InBin == row.deleted /\ dr = 0
StaysInBin == [][InBin /\ ~InBin' => Expire \/ \E w \in Worker : RequestStep(w)]_vars
=============================================================================
