-------------------------- MODULE SyncCoordinator --------------------------
(***************************************************************************)
(* The runs of run_sync (backend/app/services/sync_coordinator.py) that    *)
(* the scheduled syncs make, with the loops of torrents_async.py they      *)
(* drive and the persisted checkpoints they resume from.                   *)
(*                                                                         *)
(* The tracker job makes one run over all downloaders, the info job one    *)
(* run per downloader, several at a time.  A run works through its         *)
(* downloaders, writes their torrents batch by batch in the order of the   *)
(* hashes, records the cursor after each durable batch and, at its end,    *)
(* records the outcome in every checkpoint it has read.  An info run that  *)
(* does not resume may work from a list of a part of the torrents.  A      *)
(* checkpoint is written by compare-and-set on its version, with one       *)
(* retry.  The job may be cancelled by its timeout and the process may     *)
(* die, at any step.                                                       *)
(***************************************************************************)
EXTENDS Naturals, FiniteSets

CONSTANTS Downloader,
          Transmission,    \* the downloaders that are not qBittorrent
          None,
          Length,          \* torrents of a downloader, numbered by sorted hash
          HeavyConcurrency,\* settings.SYNC_HEAVY_CONCURRENCY
          InfoConcurrency, \* settings.INFO_SYNC_DOWNLOADER_CONCURRENCY
          ReadsFail,       \* the kinds of sync whose reads of a checkpoint may raise
          MaxJobs,         \* bound: jobs started
          MaxCrashes       \* bound: times the process dies

ASSUME SyncAssumption ==
    /\ Transmission \subseteq Downloader
    /\ None \notin Downloader
    /\ Length \in Nat
    /\ HeavyConcurrency \in Nat
    /\ InfoConcurrency \in Nat
    /\ ReadsFail \subseteq {"info", "tracker"}
    /\ MaxJobs \in Nat
    /\ MaxCrashes \in Nat

SyncType == {"info", "tracker"}
Torrent == 1..Length
Cursor == 0..Length      \* 0 is no cursor

(* A run is named by its request: what it syncs, of which downloaders.     *)
RunsOf(t) == IF t = "tracker" THEN {<<t, Downloader>>}
                              ELSE {<<t, {d}>> : d \in Downloader}
Run == RunsOf("info") \cup RunsOf("tracker")

Type(r) == r[1]
Ids(r) == r[2]

(* f"{downloader_id}:{sync_type}" names a row, a context, a running key.   *)
Key == Downloader \X SyncType
KeysOf(r) == {<<d, Type(r)>> : d \in Ids(r)}

(* Of a checkpoint, what a later run acts on: the outcome and the dates in *)
(* a row are for display, except that of the last full sync, see stamped.  *)
Checkpoint == [version : Nat, cursor : Cursor]

ASSUME NoneIsNothing == None \notin Run /\ None \notin Checkpoint

VARIABLES
    running,     \* admission_controller.running: the jobs under a token
    keys,        \* _running_keys: who runs, or None
    active,      \* _ACTIVE_CHECKPOINTS: a copy of a row, or None
    row,         \* the table sync_checkpoints
    stamped,     \* done, as it was when last_full_sync_at was set
    torn,        \* keys stamped by a run whose task had been cancelled
    dropped,     \* keys of which a finalize was given up
    done,        \* torrents the current pass has written or need not write
    pc,
    interrupted, \* runs whose task has been cancelled
    local,       \* the variables of a run
    op,          \* the compare-and-set a run is in
    jobs, crashes

vars == <<running, keys, active, row, stamped, torn, dropped, done, pc,
          interrupted, local, op, jobs, crashes>>

table == <<row, stamped, torn, dropped>>
bounds == <<jobs, crashes>>

Never == {0}        \* stamped of a row without last_full_sync_at

(* Run variables: todo, the downloaders the loop has not reached; at, the  *)
(* one it is busy with; copies, the checkpoints it has read; list, the     *)
(* torrents it works from; plan, the last one of them it can write, and    *)
(* stop, what keeps it from the rest; written, the last torrent written;   *)
(* status per downloader; cycle, cycle_complete_map; outcome,              *)
(* result.outcome; pending, the checkpoints still to be finalized.         *)
Local ==
    [todo : SUBSET Downloader, at : Downloader \cup {None},
     copies : [Downloader -> Checkpoint \cup {None}], list : SUBSET Torrent,
     plan : Cursor, stop : {"none", "budget", "error"}, written : Cursor,
     status : [Downloader -> {"none", "success", "partial", "failed"}],
     cycle : SUBSET Downloader, outcome : {"success", "partial", "failed"},
     pending : SUBSET Downloader]

Fresh(r) ==
    [todo |-> Ids(r), at |-> None, copies |-> [d \in Downloader |-> None],
     list |-> {}, plan |-> 0, stop |-> "none", written |-> 0,
     status |-> [d \in Downloader |-> "none"], cycle |-> {},
     outcome |-> "success", pending |-> {}]

(* A compare-and-set of kind push, advance or final on the checkpoint of a *)
(* downloader: the version it expects, the cursor it writes, whether it    *)
(* records that the pass is closed and that it was a full one.             *)
Cas(kind, d, version, c, clear, full) ==
    [kind |-> kind, id |-> d, try |-> 1, applied |-> FALSE, version |-> version,
     cursor |-> c, clear |-> clear, full |-> full]
NoOp == Cas("none", None, 0, 0, FALSE, FALSE)
At(r) == <<local[r].at, Type(r)>>
Op == [kind : {"none", "push", "advance", "final"}, id : Downloader \cup {None},
       try : 1..2, applied : BOOLEAN, version : Nat, cursor : Cursor,
       clear : BOOLEAN, full : BOOLEAN]

Opened == {r \in Run : pc[r] \notin {"idle", "waiting"}}
ReadBy(l) == {d \in Downloader : l.copies[d] # None}

Init ==
    /\ running = {}
    /\ keys = [k \in Key |-> None]
    /\ active = [k \in Key |-> None]
    /\ row = [k \in Key |-> [version |-> 0, cursor |-> 0]]
    /\ stamped = [k \in Key |-> Never]
    /\ torn = {}
    /\ dropped = {}
    /\ done = [k \in Key |-> {}]
    /\ pc = [r \in Run |-> "idle"]
    /\ interrupted = {}
    /\ local = [r \in Run |-> Fresh(r)]
    /\ op = [r \in Run |-> NoOp]
    /\ jobs = 0
    /\ crashes = 0

-----------------------------------------------------------------------------
(* Shapes of steps.                                                        *)

Goto(r, from, to) == pc[r] = from /\ pc' = [pc EXCEPT ![r] = to]

Remember(r, l) == local' = [local EXCEPT ![r] = l]

(* A step that changes nothing but the run.                                *)
RunOnly == UNCHANGED <<running, keys, active, table, done, interrupted, bounds>>

(* The loop of _execute_sync_phase goes on to the next downloader.         *)
NextWith(r, status, cycle) ==
    /\ pc' = [pc EXCEPT ![r] = "loop"]
    /\ Remember(r, [local[r] EXCEPT !.status[local[r].at] = status,
                                    !.cycle = cycle, !.at = None])

(* The read of a row is over, its UPDATE comes next.                       *)
Attempt(r, o) == pc' = [pc EXCEPT ![r] = "update"] /\ op' = [op EXCEPT ![r] = o]

(* qBittorrent's tracker sync and both info syncs keep a cursor.           *)
Resumable(r) == Type(r) = "info" \/ local[r].at \notin Transmission

-----------------------------------------------------------------------------
(* The jobs of the scheduler.                                              *)

StartJob(t) ==
    /\ jobs < MaxJobs
    /\ t \notin running
    /\ Cardinality(running) < HeavyConcurrency
    /\ running' = running \cup {t}
    /\ pc' = [r \in Run |-> IF r \in RunsOf(t) THEN "waiting" ELSE pc[r]]
    /\ local' = [r \in Run |-> IF r \in RunsOf(t) THEN Fresh(r) ELSE local[r]]
    /\ jobs' = jobs + 1
    /\ UNCHANGED <<keys, active, table, done, interrupted, op, crashes>>

EndJob(t) ==
    /\ t \in running
    /\ \A r \in RunsOf(t) : pc[r] = "idle"
    /\ running' = running \ {t}
    /\ interrupted' = interrupted \ RunsOf(t)
    /\ UNCHANGED <<keys, active, table, done, pc, local, op, bounds>>

(* The semaphore of execute_sync_with_concurrency, the admission of a run  *)
(* under the job's own token, _register_running_keys.                      *)
Enter(r) ==
    /\ pc[r] = "waiting"
    /\ Type(r) = "info" => Cardinality(Opened \cap RunsOf("info")) < InfoConcurrency
    /\ Type(r) \in running
    /\ IF \E k \in KeysOf(r) : keys[k] # None
       THEN pc' = [pc EXCEPT ![r] = "idle"] /\ UNCHANGED keys
       ELSE /\ pc' = [pc EXCEPT ![r] = "init"]
            /\ keys' = [k \in Key |-> IF k \in KeysOf(r) THEN r ELSE keys[k]]
    /\ UNCHANGED <<running, active, table, done, interrupted, local, op, bounds>>

(* _init_checkpoints: a row that cannot be read is left out.               *)
ReadCheckpoints(r, unread) ==
    /\ Goto(r, "init", "loop")
    /\ Remember(r, [local[r] EXCEPT !.copies =
          [d \in Downloader |-> IF d \in Ids(r) \ unread THEN row[<<d, Type(r)>>] ELSE None]])
    /\ active' = [k \in Key |-> IF k \in KeysOf(r) /\ k[1] \notin unread THEN row[k] ELSE active[k]]
    /\ UNCHANGED <<running, keys, table, done, interrupted, op, bounds>>

-----------------------------------------------------------------------------
(* One downloader.                                                         *)

(* Mutant: the loop comes back to a downloader it has had.                 *)
MNextDownloaderAgain(r, d) ==
    /\ Goto(r, "loop", "fetch")
    /\ d \in local[r].todo
    /\ Remember(r, [local[r] EXCEPT !.at = d])
    /\ UNCHANGED op /\ RunOnly

NextDownloader(r, d) ==
    /\ Goto(r, "loop", "fetch")
    /\ d \in local[r].todo
    /\ Remember(r, [local[r] EXCEPT !.todo = @ \ {d}, !.at = d])
    /\ UNCHANGED op /\ RunOnly

(* The tracker sync reads its cursor from the context, the info sync from  *)
(* the run's copy and, where that has none, from the context.              *)
ResumeAt(r) ==
    LET copy    == local[r].copies[local[r].at]
        context == IF active[At(r)] = None THEN 0 ELSE active[At(r)].cursor
    IN  CASE ~Resumable(r) -> 0
          [] Type(r) = "info" /\ copy # None /\ copy.cursor # 0 -> copy.cursor
          [] OTHER -> context

(* What a downloader is asked for.  An info sync without a cursor may get  *)
(* a part of its torrents: qBittorrent answers a rid with what has changed *)
(* since, of a Transmission only the recently active ones are looked at    *)
(* until its next full sync is due.  With a cursor it takes them all.      *)
Lists(r) == IF Type(r) = "tracker" \/ ResumeAt(r) # 0 THEN {Torrent} ELSE SUBSET Torrent

After(list, last) == list \cap (last + 1)..Length

(* Several workers fetch the trackers and any of them may be missing: only *)
(* the unbroken run from the cursor up to last is written.  The info sync  *)
(* has no partial fetch: it raises, or its budget ends it.  A pass that    *)
(* begins owes the torrents of its list, one that resumes with a list owes *)
(* all of those beyond its cursor.                                         *)
Fetch(r, list, last, budget) ==
    LET from == ResumeAt(r)
        k    == At(r)
    IN  /\ Goto(r, "fetch", "write")
        /\ list \in Lists(r)
        /\ last \in {from} \cup After(list, from)
        /\ Type(r) = "info" => budget
        /\ Resumable(r) \/ last = Length
        /\ Remember(r, [local[r] EXCEPT !.list = list, !.written = from, !.plan = last,
              !.stop = IF After(list, last) = {} THEN "none" ELSE IF budget THEN "budget" ELSE "error"])
        /\ done' = IF from = 0 /\ row[k].cursor = 0 THEN [done EXCEPT ![k] = Torrent \ list]
                   ELSE IF from # 0 /\ Type(r) = "info" THEN [done EXCEPT ![k] = @ \ After(list, from)]
                   ELSE done
        /\ UNCHANGED <<running, keys, active, table, interrupted, op, bounds>>

FetchFails(r) ==
    /\ pc[r] = "fetch"
    /\ NextWith(r, "failed", local[r].cycle)
    /\ UNCHANGED op /\ RunOnly

(* The torrents of its list that a run writes when it has come to last.    *)
Batch(r, last) == After(local[r].list, local[r].written) \cap 1..last

(* Mutants: the cursor of all that was fetched is pushed after the first   *)
(* batch; the cursor is the torrent to go on with.                         *)
MWriteBatchPushesPlan(r, last) ==
    /\ pc[r] = "write"
    /\ last \in Batch(r, local[r].plan)
    /\ done' = [done EXCEPT ![At(r)] = @ \cup Batch(r, last)]
    /\ Remember(r, [local[r] EXCEPT !.written = last])
    /\ IF Resumable(r) /\ active[At(r)] # None
       THEN Attempt(r, Cas("push", local[r].at, active[At(r)].version, local[r].plan, FALSE, FALSE))
       ELSE UNCHANGED <<pc, op>>
    /\ UNCHANGED <<running, keys, active, table, interrupted, bounds>>

(* A durable batch, then push_sync_progress with its last hash, which does *)
(* nothing when the context has gone.                                      *)
WriteBatch(r, last) ==
    /\ pc[r] = "write"
    /\ last \in Batch(r, local[r].plan)
    /\ done' = [done EXCEPT ![At(r)] = @ \cup Batch(r, last)]
    /\ Remember(r, [local[r] EXCEPT !.written = last])
    /\ IF Resumable(r) /\ active[At(r)] # None
       THEN Attempt(r, Cas("push", local[r].at, active[At(r)].version, last, FALSE, FALSE))
       ELSE UNCHANGED <<pc, op>>
    /\ UNCHANGED <<running, keys, active, table, interrupted, bounds>>

(* Mutant: qBittorrent's tracker sync goes on after a batch that failed.   *)
MWriteFailsGoesOn(r, last) ==
    /\ pc[r] = "write"
    /\ last \in Batch(r, local[r].plan)
    /\ Remember(r, [local[r] EXCEPT !.written = last, !.stop = "error"])
    /\ UNCHANGED <<running, keys, active, table, done, pc, interrupted, op, bounds>>

(* The info sync commits chunk by chunk and raises at the one that fails;  *)
(* qBittorrent's tracker sync stops; Transmission's goes on.               *)
WriteFails(r, last) ==
    /\ pc[r] = "write"
    /\ last \in Batch(r, local[r].plan)
    /\ \E some \in SUBSET Batch(r, last) :
          /\ Type(r) = "tracker" => some = {}
          /\ done' = [done EXCEPT ![At(r)] = @ \cup some]
    /\ IF Resumable(r) THEN NextWith(r, "failed", local[r].cycle)
       ELSE /\ Remember(r, [local[r] EXCEPT !.written = last, !.stop = "error"])
            /\ UNCHANGED pc
    /\ UNCHANGED <<running, keys, active, table, interrupted, op, bounds>>

(* What the sync of a downloader returns: an error makes it failed however *)
(* much has been written; a complete cycle is left to the finalize.        *)
Finish(r) ==
    LET l    == local[r]
        copy == l.copies[l.at]
    IN  /\ pc[r] = "write"
        /\ l.written = l.plan
        /\ IF l.stop = "error" THEN NextWith(r, "failed", l.cycle) /\ UNCHANGED op
           ELSE IF l.stop = "none" /\ Resumable(r)
                THEN NextWith(r, "success", l.cycle \cup {l.at}) /\ UNCHANGED op
           ELSE LET status == IF l.stop = "none" THEN "success" ELSE "partial" IN
                IF copy = None THEN NextWith(r, status, l.cycle) /\ UNCHANGED op
                ELSE /\ Remember(r, [l EXCEPT !.status[l.at] = status])
                     /\ Attempt(r, Cas("advance", l.at, copy.version,
                                    IF Resumable(r) THEN l.written ELSE copy.cursor, FALSE, FALSE))
        /\ RunOnly

(* asyncio.wait_for around a downloader's tracker sync.                    *)
DownloaderTimeout(r) ==
    /\ Type(r) = "tracker"
    /\ pc[r] \in {"fetch", "write"} \/ op[r].kind = "push"
    /\ NextWith(r, "failed", local[r].cycle)
    /\ op' = [op EXCEPT ![r] = NoOp]
    /\ RunOnly

-----------------------------------------------------------------------------
(* Compare-and-set on a checkpoint: UPDATE ... WHERE version = ?, a second *)
(* one on the row read afresh, and the final read of _get_by_id.           *)

(* Which checkpoint the compare-and-set is about.                          *)
Of(r) == <<op[r].id, Type(r)>>

Update(r) ==
    LET o == op[r]
        k == Of(r)
        match == row[k].version = o.version
    IN  /\ pc[r] = "update"
        /\ pc' = [pc EXCEPT ![r] = IF match \/ o.try = 2 THEN "readback" ELSE "reread"]
        /\ op' = [op EXCEPT ![r] = [o EXCEPT !.applied = match]]
        /\ row' = IF match
                  THEN [row EXCEPT ![k] = [version |-> @.version + 1, cursor |-> o.cursor]]
                  ELSE row
        /\ IF match /\ o.full
           THEN /\ stamped' = [stamped EXCEPT ![k] = done[k]]
                /\ torn' = IF r \in interrupted THEN torn \cup {k} ELSE torn \ {k}
           ELSE UNCHANGED <<stamped, torn>>
        /\ done' = IF match /\ o.clear THEN [done EXCEPT ![k] = {}] ELSE done
        /\ dropped' = IF ~match /\ o.try = 2 /\ o.kind = "final" THEN dropped \cup {k} ELSE dropped
        /\ UNCHANGED <<running, keys, active, interrupted, local, bounds>>

(* Mutant: the second try expects the version of the first.                *)
MRereadKeepsVersion(r) ==
    /\ pc[r] = "reread"
    /\ Attempt(r, [op[r] EXCEPT !.try = 2,
          !.cursor = IF op[r].clear \/ row[Of(r)].cursor = 0 THEN @ ELSE row[Of(r)].cursor])
    /\ UNCHANGED local /\ RunOnly

(* The merge before the second try: a cursor in the row is kept, except by *)
(* a finalize that clears it.                                              *)
Reread(r) ==
    LET o   == op[r]
        new == row[Of(r)]
    IN  /\ pc[r] = "reread"
        /\ Attempt(r, [o EXCEPT !.try = 2, !.version = new.version,
              !.cursor = IF o.clear THEN 0
                         ELSE IF new.cursor # 0 THEN new.cursor ELSE o.cursor])
        /\ UNCHANGED local /\ RunOnly

(* The context takes the row that was read back; so does the run's copy,   *)
(* after a push only in the info sync and only when it was applied.        *)
ReadBack(r) ==
    LET o   == op[r]
        k   == Of(r)
        copied == \/ o.kind = "advance"
                  \/ /\ o.kind = "push" /\ Type(r) = "info" /\ o.applied
                     /\ local[r].copies[o.id] # None
        next == CASE o.kind = "push" -> "write" [] o.kind = "advance" -> "loop"
                  [] OTHER -> "finalize"
    IN  /\ Goto(r, "readback", next)
        /\ active' = [active EXCEPT ![k] = row[k]]
        /\ Remember(r, [local[r] EXCEPT !.copies[o.id] = IF copied THEN row[k] ELSE @,
                                        !.at = IF o.kind = "advance" THEN None ELSE @])
        /\ op' = [op EXCEPT ![r] = NoOp]
        /\ UNCHANGED <<running, keys, table, done, interrupted, bounds>>

-----------------------------------------------------------------------------
(* The end of a run.                                                       *)

With(r, status) == \E d \in Ids(r) : local[r].status[d] = status

EndLoop(r) ==
    /\ local[r].todo = {}
    /\ Goto(r, "loop", "finalize")
    /\ Remember(r, [local[r] EXCEPT !.pending = ReadBy(local[r]),
          !.outcome = IF With(r, "success") /\ ~With(r, "partial") /\ ~With(r, "failed")
                        THEN "success"
                      ELSE IF With(r, "success") \/ With(r, "partial") THEN "partial"
                      ELSE "failed"])
    /\ UNCHANGED op /\ RunOnly

(* Mutant: a run that began without a cursor is full whatever its outcome. *)
MFinalizeAnyOutcome(r, d) ==
    LET l     == local[r]
        copy  == l.copies[d]
        clear == d \in l.cycle /\ l.outcome = "success"
    IN  /\ pc[r] = "finalize"
        /\ d \in l.pending
        /\ Remember(r, [l EXCEPT !.pending = @ \ {d}])
        /\ Attempt(r, Cas("final", d, copy.version, IF clear THEN 0 ELSE copy.cursor, clear,
                          d \in l.cycle \/ copy.cursor = 0))
        /\ RunOnly

(* _finalize_checkpoints: the cursor goes when the cycle is complete and   *)
(* the run a success; a success covers everything if it began without a    *)
(* cursor or its cycle is complete.                                        *)
Finalize(r, d) ==
    LET l     == local[r]
        copy  == l.copies[d]
        clear == d \in l.cycle /\ l.outcome = "success"
        full  == l.outcome = "success" /\ (d \in l.cycle \/ copy.cursor = 0)
    IN  /\ pc[r] = "finalize"
        /\ d \in l.pending
        /\ Remember(r, [l EXCEPT !.pending = @ \ {d}])
        /\ Attempt(r, Cas("final", d, copy.version, IF clear THEN 0 ELSE copy.cursor, clear, full))
        /\ RunOnly

(* The context of every run of the process is emptied.                     *)
ClearContext(r) ==
    /\ local[r].pending = {}
    /\ Goto(r, "finalize", "leaving")
    /\ active' = [k \in Key |-> None]
    /\ UNCHANGED <<running, keys, table, done, interrupted, local, op, bounds>>

(* _unregister_running_keys; the token is the job's and stays.             *)
Leave(r) ==
    /\ Goto(r, "leaving", "idle")
    /\ keys' = [k \in Key |-> IF k \in KeysOf(r) THEN None ELSE keys[k]]
    /\ Remember(r, Fresh(r))
    /\ UNCHANGED <<running, active, table, done, interrupted, op, bounds>>

-----------------------------------------------------------------------------
(* Cancellation and crashes.                                               *)

InPhase(r) == pc[r] \in {"loop", "fetch", "write"} \/ op[r].kind \in {"push", "advance"}

(* Mutant: a cancelled run does not come to its finally.                   *)
MAfterCancelNoFinally(r) == IF InPhase(r) THEN "finalize" ELSE "idle"

(* CancelledError in a run: the sync phase goes to its finally with        *)
(* result.outcome as it is, a finalize is left where it is.                *)
AfterCancel(r) ==
    CASE pc[r] \in {"idle", "waiting"} -> "idle"
      [] InPhase(r) -> "finalize"
      [] OTHER -> "leaving"

InterruptJob(t) ==
    /\ t \in running
    /\ \A r \in RunsOf(t) : r \notin interrupted
    /\ interrupted' = interrupted \cup RunsOf(t)
    /\ pc' = [r \in Run |-> IF r \in RunsOf(t) THEN AfterCancel(r) ELSE pc[r]]
    /\ local' = [r \in Run |-> IF r \in RunsOf(t) /\ InPhase(r)
                               THEN [local[r] EXCEPT !.pending = ReadBy(local[r]), !.cycle = {}]
                               ELSE local[r]]
    /\ op' = [r \in Run |-> IF r \in RunsOf(t) THEN NoOp ELSE op[r]]
    /\ UNCHANGED <<running, keys, active, table, done, bounds>>

(* The process dies and is started again.                                  *)
Crash ==
    /\ crashes < MaxCrashes
    /\ crashes' = crashes + 1
    /\ running' = {}
    /\ keys' = [k \in Key |-> None]
    /\ active' = [k \in Key |-> None]
    /\ pc' = [r \in Run |-> "idle"]
    /\ interrupted' = {}
    /\ local' = [r \in Run |-> Fresh(r)]
    /\ op' = [r \in Run |-> NoOp]
    /\ UNCHANGED <<table, done, jobs>>

-----------------------------------------------------------------------------
RunStep(r) ==
    \/ Enter(r)
    \/ ReadCheckpoints(r, {})
    \/ \E d \in Downloader : NextDownloader(r, d)
    \/ \E list \in SUBSET Torrent, last \in Cursor, budget \in BOOLEAN : Fetch(r, list, last, budget)
    \/ \E last \in Torrent : WriteBatch(r, last)
    \/ Finish(r)
    \/ Update(r)
    \/ Reread(r)
    \/ ReadBack(r)
    \/ EndLoop(r)
    \/ \E d \in Downloader : Finalize(r, d)
    \/ ClearContext(r)
    \/ Leave(r)

Trouble(r) ==
    \/ Type(r) \in ReadsFail /\ \E unread \in SUBSET Ids(r) : ReadCheckpoints(r, unread)
    \/ FetchFails(r)
    \/ \E last \in Torrent : WriteFails(r, last)
    \/ DownloaderTimeout(r)

Next ==
    \/ \E r \in Run : RunStep(r) \/ Trouble(r)
    \/ \E t \in SyncType : StartJob(t) \/ EndJob(t) \/ InterruptJob(t)
    \/ Crash

Spec == Init /\ [][Next]_vars

(* Calls to downloaders and to the database return or time out, so a run   *)
(* takes its next step.                                                    *)
FairSpec == Spec /\ (\A r \in Run : WF_vars(RunStep(r))) /\ (\A t \in SyncType : WF_vars(EndJob(t)))

-----------------------------------------------------------------------------
TypeOK ==
    /\ running \subseteq SyncType
    /\ keys \in [Key -> Run \cup {None}]
    /\ active \in [Key -> Checkpoint \cup {None}]
    /\ row \in [Key -> Checkpoint]
    /\ stamped \in [Key -> SUBSET Cursor]
    /\ torn \subseteq Key /\ dropped \subseteq Key
    /\ done \in [Key -> SUBSET Torrent]
    /\ pc \in [Run -> {"idle", "waiting", "init", "loop", "fetch", "write", "update",
                       "reread", "readback", "finalize", "leaving"}]
    /\ interrupted \subseteq Run
    /\ local \in [Run -> Local]
    /\ op \in [Run -> Op]
    /\ jobs \in Nat /\ crashes \in Nat

(* "the cursor never runs ahead of the data": whatever batches fail, run   *)
(* out of budget, are cancelled or cut by a crash, every torrent up to a   *)
(* persisted cursor was written in the pass the cursor belongs to, if that *)
(* pass was about it.                                                      *)
CursorBehindData == \A k \in Key : 1..row[k].cursor \subseteq done[k]

(* last_full_sync_at is set only by a pass that wrote every torrent it was *)
(* about, of a tracker sync every torrent of the downloader, if the run    *)
(* that set it was not cancelled.                                          *)
FullMeansAll == \A k \in Key : k \in torn \/ stamped[k] \in {Never, Torrent}

(* The same of every run: what the comment on the finalize says of         *)
(* cancelled ones.                                                         *)
CancelledIsNoSuccess == \A k \in Key : stamped[k] \in {Never, Torrent}

(* A run that sets last_full_sync_at, and was not cancelled, has looked at *)
(* every torrent of the downloader, as _finalize_checkpoints says.         *)
FullIsEverything ==
    [][\A r \in Run : Update(r) /\ op[r].full /\ op'[r].applied =>
          r \in interrupted \/ local[r].list = Torrent]_vars

(* One retry is enough: though the run's copy is stale after its own       *)
(* pushes, no run's outcome is lost in a version conflict.                 *)
NothingDropped == dropped = {}

(* A run past its admission is covered by its job's token and holds its    *)
(* keys, and no key is left behind by a run that is over.                  *)
Covered == \A r \in Run :
    /\ r \in Opened => Type(r) \in running
    /\ \A k \in Key : keys[k] = r <=> (r \in Opened /\ k \in KeysOf(r))

(* "the next round begins a new cycle": once a run that completed the      *)
(* cycle of a downloader has ended, no cursor keeps the next one from it.  *)
CycleRestarts == \A r \in Run :
    pc[r] = "leaving" /\ r \notin interrupted => \A d \in local[r].cycle : row[<<d, Type(r)>>].cursor = 0

(* Every job ends, cancelled or not.                                       *)
JobsEnd == \A t \in SyncType : t \in running ~> t \notin running

Passes == INSTANCE ResumableScan WITH
    Scan <- Key, Partial <- {k \in Key : k[2] = "info"},
    cursor <- [k \in Key |-> row[k].cursor], done <- done
ImplementsScan == Passes!Spec
=============================================================================
