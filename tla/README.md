# BtDeck: models and proofs

BtDeck is a web front end and automation server for qBittorrent and
Transmission: a FastAPI backend (`backend/app`), a Vue front end and an Android
shell.  This directory holds TLA+ models of the parts of the backend where
several actors share state, the TLC configurations that check them, and the
TLAPS proofs of their most important properties.

Run from this directory, for example:

    tlc -workers 2 -config cron.cfg MCCronExecutor
    tlapm CronExecutorProofs.tla

`PROJECT.json` is the index: the components, the runs with the properties each
checks, the source lines each definition stands for, the known hazards of the
code, the disagreements found, and the mutations of the model each property
detects.

## 1. The system

The backend is one process with one asyncio event loop, an SQLite database, a
scheduler (APScheduler) and thread pools.  asyncio switches between coroutines
only at a suspending `await`, so the unit of interleaving is the code between
two awaits; threads and the database are concurrent with all of it.  More than
one process may run against the same database (the orphan lease exists for
that).

| Component | State | Operations | Interacts with |
|---|---|---|---|
| Heavy task admission (`tasks/resource_guard.py`, `task_profiles.py`) | a semaphore, a set of running task codes, a queue counter per code | `acquire`, `release`, `task_scope`, `db_write_scope` | called by the cron executor and the sync coordinator around every heavy task body |
| Cron executor (`tasks/cron_executor.py`, `cron_crud_async.py`) | flag, coroutine handle and interrupt mark per task; the task's row; the scheduler's jobs | scheduled execution; start, pause, resume, interrupt, refresh, remove; reset at start-up | scheduler, database, admission, task bodies |
| Downloader API runtime (`services/downloader_api_runtime.py`) | one thread pool per lane, two semaphores per downloader, a statistics window | `call`, `shutdown` | every remote call of the services |
| Orphan lease (`services/orphan_lease.py`) | one database row, a heartbeat task and a handle per scope | acquire, renew, release, `assert_owned` | every orphan maintenance operation |
| Orphan files (`services/orphan_file_service.py`, `orphan_quarantine.py`, `orphan_lifecycle_service.py`) | candidate rows with a journal and an ignore flag, detail rows, files | scan reconciliation, ignore, cleanup to quarantine, purge, restore, recovery | lease, manifest of the downloaders, file system |
| Orphan purge jobs (`orphan_purge_job_service.py`) | job rows, notices, a dispatcher's tasks in the order of a serial lock | submit, claim, run, finish, notify, retry a notice, recover at the start | requests, orphan files, notifications |
| Orphan scan jobs (`orphan_scan_job_service.py`) | job rows, a dispatcher, waiters of a scan | submit, wait, finish, shut down | orphan files |
| Sync coordinator (`services/sync_coordinator.py`, loops of `torrents_async.py`) | running keys, checkpoints in the database, a process-wide table of active checkpoints | `run_sync`, progress pushes, cursor advances, finalize | admission, batched writes |
| Tracker enrichment (`torrents_async.py`, `_enrich_qb_torrents_with_trackers`) | a bounded queue, a producer and workers, budgets | fetch the trackers of the torrents behind the cursor | downloader runtime, coordinator |
| Batched writes (`services/sync_db_write.py`) | a transaction per batch | upsert with retry on lock conflicts | the sync bodies |
| Deletion tasks (`services/deletion_task_manager.py`, `async_deletion_executor.py`) | reserved torrents, task records | create with reservation, update, cancel | deletion services |
| Deletion by level and recycle bin (`torrent_deletion_by_level.py`, `recycle_bin_service.py`, `core/file_operations.py`) | a torrent's row, its task in the downloader, its files in place or under `.pending_delete` | delete at level 3, restore, manual cleanup; scheduled cleanup (`cleanup_executor.py`) | downloader, file system, the incremental sync |
| Seed transfer, authentication, MCP, start-up, settings, search, RSS, tags, front end, Android | see `PROJECT.json` | | |

What is hard here:

- cancellation: a coroutine can be cancelled at any await, also in a `finally`;
  `CancelledError` is not an `Exception`; a cancelled `wait_for` on a thread
  does not stop the thread;
- checks made before an await and relied upon after it;
- the database and the file system (or two tables) changed in separate steps,
  with a crash in between, and recovery that reads what is left;
- leases that expire while their owner works;
- counters and registries that must be given back on every path.

The properties that make each component correct:

- admission: no token or queue slot lost, one run per task code, no lost
  wake-up, refusals only with a reason, waits end;
- cron executor: no two executions of a task at a time, a flag that tells the
  truth and is always cleared, an interrupt that returns when its target is
  over and leaves a log entry;
- runtime: never more remote calls per downloader than its capacity, slots
  conserved, a reserve for interactive calls, no deadlock in two levels of
  semaphores and a bounded pool;
- lease: mutual exclusion when renewals are on time, and file operations only
  under a freshly checked lease when they are not;
- orphan files: nothing deleted but what is purged, purged means gone,
  quarantined files stay reachable, ignored files stay where they are, every
  journal entry is resolved;
- purge jobs: a file in one open job at most, no body run twice by a process, no
  open job forgotten, one final result and one notice that tells it;
- sync coordinator: a cursor never ahead of the data, no outcome lost between
  versions of a checkpoint, a sync recorded as full that has written all it was
  about, keys and tokens given back by whom they belong to, a new cycle after a
  finished one;
- tracker enrichment: no call beyond the budget or out of order, an honest report,
  no task that waits for ever on a full or empty queue;
- recycle bin: what was deleted can be restored, data goes only in a cleanup, an
  answer tells what is the case, and a torrent leaves the bin only by a request;
- scan jobs, batched writes, deletion tasks: see the plan.

## 2. Modules

Each component has one module; `MC<module>` adds the symmetry sets and function
constants that TLC needs; `<module>Proofs` holds the theorems
(`SlotProofs` those of `TaskAdmission` and `DownloaderApiRuntime`).  Definitions
called `M...` are mutations used to test that a property can fail; no
specification uses them.

### TaskAdmission, TaskSlots

`TaskAdmission` models `acquire` and `release`.  `registry_lock` is never held
across an await, so the duplicate check with the queue increment is one step
(`SkipDuplicate`, `AdmitAtOnce`, `Enqueue`), and so is what follows the wait
(`Resume`, `GiveUp`).  `value` is the semaphore's `_value`, `ahead` its deque;
a waiter's future is pending, granted (a release has chosen it) or dropped (its
timer or a cancel came first), because a granted waiter can still be cancelled
before it runs.  `stop` tells a timeout from a cancel: the code gives the queue
slot back for the one only.  `TaskSlots` is the abstract promise (at most
`HeavyConcurrency` bodies, none twice for one code), and `ImplementsSlots` the
refinement: `body` is the code of an admitted client.

### CronExecutor

One task.  `Run` are slots for coroutines of `_execute_task`, `Request` slots for
API calls in progress.  `running`, `handle` and `flagged` are the three
dictionaries, `status` the row, `job` the scheduler's job.  `pc` follows the
awaits of `_execute_task`: the first status write, the read session, the body,
the log, the freshness, the status write of `finally`.  `stopped` are cancels
requested and not delivered; `StopBody`, `StopAtDatabase` and `StopFinally` are
the three places one can arrive.  A write that is cancelled may or may not have
reached the row, so both outcomes are allowed.  `interrupt_task` is three steps,
as it awaits twice.  `Overlapping` says whether
other calls may arrive while an interrupt is in progress, `Interrupting` whether
there are interrupts at all: with both, some of the properties fail (section 3),
and the theorems are about executions without interrupts.

### DownloaderApiRuntime

Each `Call` has a thread (`thread`) and a caller (`caller`), which part at a timeout:
`TimeOut` cancels the future, which removes a call that is still in its pool's
queue and does nothing to one whose thread has begun.  `total` and `background`
are the semaphores, taken in this order reversed: background first.  `counted`
are the calls in the statistics.

### OrphanOperation

One candidate, its row and the paths that matter: the canonical path and the
places below a quarantine root.  `fs` maps a path to an inode, so a hard link is
two paths with one inode.  `pc` is the worker; every database commit and every
file operation is a step.  `Cleanup`, `Purge`, `Restore` and `Scan` are the
operations as wholes; purge is in the code twice (`_purge_single_candidate` and
the loop of `purge_expired_quarantine`) and takes the same steps in both.
`Abort` ends an operation anywhere (a crash, an exception, a lost lease: the code
leaves the journal as it is in each case), `Raise` when a step has become
impossible.

Outside the worker three things move.  Other programs create and remove files.
Downloaders start and stop to use the path (`expected`; `referenced` is what the
worker's manifest said).  A user sets or clears the ignore flag (`ignored`;
`ignoring` is a call of `set_ignored` between its read and its commit, `spared`
the flag as the worker's session has loaded it): `set_ignored` takes no lease.
`Intrusion` says when files and the flag may move: `"settled"`, when no operation
is under way or pending; `"steps"`, at any time except, for files, between a link
and its unlink or a restore's check and its rename; `"anytime"`.  The worker is
alone: that is what `OrphanLease` is for.

### OrphanLease

Time is discrete.  `left` is the time to the row's expiry and `due` the time to
the heartbeat's next renewal, both relative, so that no clock has to be bounded.
`acquire_lease`, `renew_lease` and `get_lease_holder` compute `now`, and the first
two the new expiry, before they await the session and the write scope
(`orphan_lease.py:127`, `169`, `202`).  So each is two steps: `Ask`, `BeginBeat` and
`BeginCheck` take the time, `since[w]` and `age[w]` are how old it has become, and
the statement (`Acquire` or `Refuse`, `Beat`, `Check`) compares with that old time and
writes `Remaining(late)`, an expiry that is partly used up.  `Act` is the file
operation after a check.  A time that has been taken is used within `Gap`, which may
be longer than the lease.  A heartbeat may be late by any time, die of an exception
in its renewal (`BeatDies`) or with its process (`Crash`).  The history variable
`timing` is `"tardy"` from the first renewal on that comes more than `Lateness` after
its interval (its own awaits included) or dies, or an acquire that is held up as long:
exclusion is promised until then, the other properties always.  `gone` is how long
a worker in the scope has not been the owner of the row.

### OrphanJobs, MaintenanceJobs

The rows (`status`, `items`, `notice`, `sent`) survive a crash; requests, the
dispatcher's `queue`, the recovery and notices under way do not.  `queue` is the
order in which the tasks get the serial lock and `pc` where its holder is: claim,
load, body, finish, notice.  `_job_submission_lock` and `db_write_scope` are
guards (`ScopeFree`): `WriteScope` is the setting that turns the latter off.  A
shutdown cancels coroutines at an await, which leaves the rows as a crash does, so
`Crash` stands for both; a failing database call is a `Fault`.  `MaintenanceJobs` is
the promise to the user, without any of this, and `ImplementsJobs` the refinement
(pending and running are both open).

### SyncCoordinator, ResumableScan

The scheduled jobs: one tracker run over all downloaders, one info run per
downloader.  `row` is the table of checkpoints, `active` the process-wide copies,
`local[r]` the variables of a run, `op[r]` the compare-and-set it is in: `Update`
tries, `Reread` and `ReadBack` are its retry.  Tracker syncs of a qBittorrent and the
info syncs of both kinds resume from a cursor; the tracker sync of a Transmission does
not.  `Fetch` chooses the `list` the run works from and plans how far it can get (a
budget or a failing torrent stops it).  A tracker sync and a resumed info sync take all
torrents.  An info sync without a cursor may get a part of them: qBittorrent answers a
rid with what has changed since (`torrents_async.py:3511`), of a Transmission only the
recently active ones are looked at (3921) until a full sync is due; which part that is,
the model leaves open (`Lists`).  `WriteBatch` writes the torrents in the order of the
hashes, as a separate step from recording the cursor.  `InterruptJob` is the time limit
of the cron executor, `Crash` a restart.  `done` are the torrents that the pass the
cursor belongs to has written or was not about, `stamped` what it was when
`last_full_sync_at` was set.  `ReadsFail` are the kinds of sync whose reads of a
checkpoint at the start may fail.
`ResumableScan` says what a cursor promises; `ImplementsScan` is the refinement.

### EnrichQueue

The inside of `Fetch` for a qBittorrent: torrents are numbered from the first one
behind the cursor, `total` is fixed in the initial state.  The producer fills a
queue as long as the workers are many, then puts one sentinel per worker, each
with a time-out; workers look at the budgets before a call.  A sentinel that
finds no place is given up, and a worker whose `get` times out looks at the
producer instead.  `NewCursor` is the cursor the run returns.

### RecycleBin

One torrent, a single file or a folder with entries.  `row` are the four fields of
the row that matter, `task` is whether the downloader has the torrent, `here` and
`trash` are the entries in place and under the name with `.pending_delete`,
`folders` the folders that exist (an emptied one stays, and the code looks at it).
`op[w]` is a request at its await.  Deletion commits the row (`SoftDelete`), removes
the task (`Remove`), moves the files; a failure puts back the row as the session had
loaded it (`saved`).  Entries are compared by their names, as in the code: `Copies`
are left-overs of an earlier attempt that are also in place.  `TimeOut` is the
`wait_for` of the deletion task: the request is over (`Abandon`), unless a thread is
moving a file, which it still does (`Resume`).  Restore moves the entries back, adds
the torrent and undoes the renames if that raises.  What the downloader replied to the
add, and whether the torrent was seen in the polls that follow, the code does not look
at (`recycle_bin_service.py:426-462`): `Add` goes on to `Restored` either way, with
`unseen` set if the torrent has not appeared; `ShowsUp` is when it still does.  `dr` is
written only if the session had loaded another value.  `Poll`, `Load`, `Confirm` and
`SyncFails` are the part of the incremental sync about this torrent: it hears that the
torrent was removed or is listed, reads the row into its cache, writes (`Write`) and
confirms its rid last.  The second row that a torrent gets which is added again while its
own has `dr = 1` is not modelled.  `spoiled` marks that a file operation failed or a reply
was lost.  `TypeOK` is stated for the reader; it holds in both configurations.

## 3. Runs

The instances are the smallest in which every action fires and every mutation in
`PROJECT.json` is caught: a third client or worker distinguishes "the other one"
from "everybody else", two executions, calls, requests or downloaders are what can
collide, a third place below a quarantine root is where a second tombstone goes.
Slots of coroutines and calls are reused, so behaviours are not bounded in length
except by the caps that are named: `MaxAborts` (three: an operation, its recovery
and the recovery of that can each be cut short), `MaxJobs`, `MaxBoots`, `MaxFaults`,
`MaxCrashes` (one crash meets each state of what is under way, and what it leaves
meets the next start).

| Run | Instance | Shows |
|---|---|---|
| `admission` | 3 clients that can all be cancelled, 3 codes, 2 tokens, 1 queue slot; fair | tokens survive every race of grant, timer, cancel and release; no lost wake-up; waits end; `TaskSlots` is implemented |
| `cron` | 2 executions, 2 calls, interrupts that no other call overlaps; fair | no overlap, exact flag, truthful row; an interrupted execution is logged and over when the interrupt returns; executions end |
| `runtime` | 3 calls, 1 downloader, 2 threads per lane, 2 slots, background capacity 2 that must be cut back to 1; fair | slots conserved, a slot in reserve, no deadlock of the two semaphores and the pool |
| `orphan_everything` | 2 inodes, 3 places, link fallback, restore, 3 aborts, files and flag move between steps | nothing is lost but what is purged, quarantined files are the recorded ones |
| `orphan_recovery` | 1 inode, 3 places, 3 aborts, renames only, settled; fair | purged means gone, quarantine tracked, ignored files kept, the journal converges |
| `lease` | 2 workers, TTL 3 (a renewal every 1), lateness 1, gap 4; fair | exclusion up to the first tardy renewal; fresh checks, no theft, an abandoned row does not block |
| `sync_resume` | 1 qBittorrent with 2 torrents, 2 jobs (tracker or info) one after the other, 1 crash, failing reads of tracker checkpoints; fair | a pass that is recorded as full has written all it was about; jobs end; `ResumableScan` is implemented |
| `sync_shared` | 2 downloaders, one a Transmission, 1 job: the tracker run through both, or the two info runs at a time | no cursor ahead of the data, no outcome dropped, keys and the token held as long as the run |
| `purge_jobs` | 2 requests, 2 files, 2 jobs, 2 starts, 1 fault; fair | one open job per file, one body per process, nothing forgotten, every job settled and told; `MaintenanceJobs` is implemented |
| `recycle` | files and folders of 1 or 2 entries, one request at a time, crashes, time-outs, failures, adds that come to nothing | what was deleted can be restored, only a cleanup deletes data, answers are true (of the task, unless it was taken for granted) |
| `enrich` | 3 workers, 1 to 5 torrents, budgets of 4 torrents and of time; fair | calls for a prefix within the budget, a true report, tasks end |

The instance of `lease` sits on the edge: with interval 1 and TTL 3 a lateness of 1
just fits (`OnTheEdge` in `MCOrphanLease`), with 2 `ScopesExclusive` fails, because a
late renewal writes an expiry that is aged by its own delay; the gap of 4 lets a
statement be held up for longer than the whole lease.

Deadlock is checked, except where the system of the instance stops: the calls of
`runtime` are made once each, the jobs and starts of the `sync_*` and `purge_jobs`
instances are used up, and one enrichment returns.  Runs with fairness use no
symmetry.

### Where the code and its comments disagree

The run `recycle_vanishes` checks one property that a docstring states, and TLC
shows a behaviour of the code that breaks it.  A level 3 deletion keeps `dr = 0`
("in the recycle bin, restorable; only a manual cleanup sets 1",
`torrents/models.py:235`).  The next incremental sync of a qBittorrent is told that
the torrent has been removed and sets `dr = 1` on every row with that hash
(`torrents_async.py:3239` does not look at `deleted_at`): the torrent is no longer
in the list of the bin.  `StaysInBin` allows every request and the scheduled
cleanup to take it out.

Others follow from the same models with one constant changed; they have no
configuration of their own, and the passing runs above exclude them:

| Property | Change | What happens |
|---|---|---|
| `RefusalJustified` | as an invariant of `admission` | a waiter that is cancelled passes both `except` clauses of `acquire` (`resource_guard.py:264`) and keeps its queue slot: its task code is refused from then on with nothing running or waiting, though the module's doc (line 9) says a code is skipped when it runs or its queue is full |
| `CycleRestarts` | as an invariant of `sync_shared` with `Transmission = {}` | one run has one outcome: if one downloader fails, the finished cycle of the other is not closed, its cursor stays at the last torrent and its next runs find nothing behind it (`sync_coordinator.py:1270`, against the comment at 1377) |
| `OneRunPerCode` | `admission` with `QueueLimit = 2`, `HeavyConcurrency = 2`, 4 clients | the duplicate check is not repeated after the wait: two waiters of one code run together |
| `LeftFree` | `cron` with `Overlapping = TRUE` | an interrupt that arrives in `finally` is delivered at its database write (`cron_executor.py:753`) and the flag stays set, though the comment at line 750 says the state is always cleaned |
| `NoOverlap` | `cron` with `Overlapping = TRUE` | `interrupt_task` clears the flag before it cancels: an execution that starts in between overlaps the old one |
| `TimedOutIsCounted` | as an invariant of `runtime` | the callback is attached to a future that is already cancelled: calls that time out never enter the statistics |
| `InteractiveReserve` | `runtime` with `BackgroundCapacity = 0` | zero removes the limit instead of the calls |
| `QuarantineTracked` | `orphan_recovery` with 2 files | a new file at the path of a quarantined one makes the next scan forget the quarantined file (`orphan_lifecycle_service.py:274`); the README of the repository (line 193) promises it stays recoverable |
| `IgnoredIsKept` | `orphan_recovery` with `Intrusion = "steps"` | an ignore that commits while a cleanup batch is under way is not seen by it (`orphan_file_service.py:2502`, against the comment above it) |
| `PurgedMeansGone` | `orphan_recovery` with `Restoring = TRUE` | a restore cut short leaves a quarantined row without its file; the next purge marks purged a file that is back in place |
| `NothingLost` | `orphan_everything` with `Intrusion = "anytime"` | restore overwrites a file that appears after its check |
| `JournalConverges` | `orphan_recovery` with `LinkFallback = TRUE` | a purge cut short between link and unlink is never recovered |
| `RestoredIsThere` | as a property of `recycle` | the reply of `torrents_add` (`Fails.`) and the `False` of the wait are ignored (`recycle_bin_service.py:426-443`, `449-462`): the row leaves the bin and the request answers "restored" with no task in the downloader |
| `FullIsEverything` | as a property of `sync_resume` | an info sync without a cursor that got only what has changed since its rid (or, of a Transmission, the recently active torrents) reports a complete cycle and sets `last_full_sync_at` (`torrents_async.py:3511`, `3921`, `4172`, `sync_coordinator.py:1267`); the docstring of the finalize (line 1243) promises it for a success that covered everything |
| `CursorBehindData`, `ImplementsScan` | `sync_resume` with `ReadsFail = {"info"}` | an info run clears its cursor in finalize and is cancelled before the context has read it back, so the table of contexts keeps the old cursor; the next info run cannot read its row (caught, `sync_coordinator.py:1120`), resumes from that context (`torrents_async.py:3466`) and pushes a cursor ahead of torrents its pass has not written |
| `CancelledIsNoSuccess` | as an invariant of `sync_resume` | a run whose task is cancelled at an await keeps the outcome `success` it began with, and finalize sets `last_full_sync_at`; the comment at `sync_coordinator.py:916` says a cancelled run is none |
| `BodyOnce`, `ActiveAttended` | `purge_jobs` with `WriteScope = FALSE` | without the write scope the recovery's reset of running jobs can meet a claim of this process: the job is run twice, which `claim_job` (`orphan_purge_job_service.py:266`) says it prevents |
| `Restorable`, `AnswersTrue` | `recycle` with `Misnamed = TRUE` | deletion looks at the file system, restore only at the extension (`recycle_bin_service.py:256`): a file without a known one, or a folder that looks like a file, is reported restored and stays under `.pending_delete` |
| `Restorable`, `NothingLost`, `AnswersTrue` | `recycle` with two workers | two deletions: the one whose call to the downloader fails puts the row back under the other; a deletion that drops copies while a restore drops the originals (`torrent_deletion_by_level.py:1581`, `file_operations.py:1423`) loses both |
| `Restorable` without `spoiled` | `recycle` | a move that fails half way puts the row back though the downloader's task is gone and some entries are moved; a restore goes on after renames that failed |

Noted while modelling, with no property: the marker of a deletion is created as
`.waiting-delete` and removed as `{name}.waiting-delete`, so it stays; the scheduled
cleanup of the bin counts the space as freed and deletes no file; a sync that sets
`dr` in the middle of a restore is not undone, because the session thinks it is
still 0; the last statement of a finalize empties
the process-wide table (`sync_coordinator.py:1312`), contexts of other runs
included, which the comment at line 627 denies, and the compare-and-set's retry
makes harmless; a body that worked and whose `finish` fails is recorded as failed
with nothing purged; a job that a failed call leaves without a task keeps its files
occupied until the next start; cleanup ids and quarantine paths are not compared
with each other when jobs are checked for overlap; a tracker sync with some failed
torrents is treated as failed, where `_sync_one_downloader` says partial.

### Fairness

- admission: the event loop runs ready tasks (`Resume`, `GiveUp`) and bodies end
  (`Release`): they have a deadline in `_run_task_script`.  Timers and cancels
  need not come.
- cron: weak fairness of each coroutine and of each API call: the event loop, the
  database's answer and the end of the body.
- runtime: weak fairness of threads and callers; a remote call ends because the
  clients have request timeouts of their own.
- orphans: a call of `set_ignored` commits; maintenance runs again and again by
  cron, so `Begin` is taken (strong fairness, since another operation may be in the
  way); some recovery finds a manifest (strong fairness of `Recover`): a downloader
  that stays unreachable for ever keeps its journal entries, by design.
- lease: time passes, somebody keeps asking, and an operation takes no longer
  than `Gap` after its check.
- sync: every run takes its next step (calls to downloaders and to the database
  return or time out) and a finished job gives its token back.  Failures, time
  limits and crashes need not come.
- purge jobs: every coroutine that can go on is resumed, a body ends (its wait for
  the store has a deadline) and the retry task is scheduled for good.
- recycle bin: none; its properties are safety properties.
- enrichment: a remote call returns or times out, and a `get` or `put` wakes up
  after its time-out.

## 4. Proofs

Each theorem holds for every value of the constants that satisfies the module's
`ASSUME`, and the extra hypothesis that is part of its statement.

- `SlotProofs`, admission.  `Conservation` counts the holders and granted waiters;
  its lemmas follow the cardinality of that set through a wake-up of several
  waiters at once.  `CodeExclusion` is not inductive: a waiter admitted later
  must not share its code with a holder, which follows only from its queue slot.
  `ExclusionInv` adds that a code that waits or runs belongs to one client, that
  a waiter owns a slot and that the registry is exact; with `QueueLimit = 1`
  (hypothesis `OneQueueSlot`, the default) it is inductive.  `Refinement` maps
  each step to one of `TaskSlots` from the same two invariants.  `NoWakeupLost`
  is inductive with the types and needs no hypothesis on the limits: the grants of
  one wake-up end when no token or nobody asleep is left.
- `SlotProofs`, runtime.  `SlotConservation` is inductive with the types of
  the variables it reads (`SlotTypes`); `RemoteBounded` and `InteractiveReserve`
  are consequences by arithmetic on cardinalities, the latter if
  `BackgroundCapacity # 0`.  The two that hand out slots share a proof module;
  `DownloaderApiRuntime` therefore names its specification `RuntimeSpec`,
  `RuntimeInit` and so on.
- `CronExecutorProofs`.  `BusyRowIsLive` holds for every kind of call: `BusyIsHeld`
  says which positions of the coroutine can leave the row busy.  The other results
  assume `Alone`, that `interrupt_task` does not overlap another call (with
  overlapping ones they are false, section 3), not that there are no interrupts.
  Their invariant `Calm` has four parts: one interrupt at a time; while it runs no
  flag says "running" and nothing new starts; the live execution, if there is one,
  is the one the flag and the handle name (except under an interrupt); and what the
  interrupt waits for is the live one.  `CutShort` follows a cancelled body to its
  log entry.
- `OrphanOperationProofs`.  `QuarantineHolds` needs `HeldInv`: the worker's position
  tells which journal entry is open, and from a purge's entry on both its paths
  hold the recorded file or none, so that neither moving back nor recovery can
  put another file where the row points; it holds for every `Intrusion`.
  `IgnoreProtects` assumes `Intrusion = "settled"`; `IgnoreInv` adds that an open
  call of `set_ignored` keeps maintenance out, that the flag the worker has read
  is the current one and that an ignored file's worker has not come past the check.
  `OnlyPurgeLoses` needs only that other programs keep out of the windows between
  link and unlink and between a restore's check and its rename
  (`Intrusion # "anytime"`): `LossInv` says that in the one both names are of one
  file and that in the other nothing is at the canonical path.  `PurgeIsTold` and
  `QuarantineIsFound` assume what section 3 shows to be necessary (renames in one
  step; no restore that can be cut short, or no new file at the canonical path).
  `GoneInv` says at which paths the recorded file can be at each position of the
  worker; `TrackInv` that every quarantined file is led to at every step, not only
  between operations.  TLC has checked each of these invariants, and that no
  hypothesis can be left out.
- `OrphanLeaseProofs`.  `ScopeHoldsLease` relates the expiry to the heartbeat's
  phase (`left >= TTL - Lateness - Interval + due`: the expiry was written at most
  `Lateness` after its `now`); up to the first tardy renewal it is inductive if
  `Interval + 2 * Lateness <= TTL` (`HeartbeatInTime`), and it gives exclusion.  Twice,
  because the row may have been written late and the next renewal may come late.
  `ActsFresh` and `NoTheft` need none of this: the invariant `Fresh` carries what a check
  saw through the time that has passed since the `now` it compared with.
- `OrphanJobsProofs`.  `ItemExclusion` holds with and without the write scope: the
  submission lock keeps the files a request has asked for free until its insert.
  `BodyRunsOnce` and `OpenJobsAttended` need `WriteScope`.  The first adds that
  whatever has run is settled unless it is the one that holds the serial lock, and
  that no job has two tasks; the second says for each job whose turn it is.
  `Refinement` rests on what a notice under way has read: results are final, so it
  is still true when it is written.
- `EnrichQueueProofs`.  `Line` says that the torrents in the queue and in workers'
  hands follow `started` in order and that sentinels come last; `Ends` what each
  task's end implies about the budgets; `Told` what the report is made of.
- `SyncCoordinatorProofs`.  `SyncInv` is the inductive invariant.  `PassInv` follows a
  run through its downloader's pass: what its context says (`Ours`, `CopiesKept`),
  how its cycle was read (`NotBegun`, `CycleRead`), that the torrents up to the
  cursor it will write are done before it judges, writes or pushes one (`Judged`,
  `Writing`, `Setting`, `Pushing`), and, per key, that the row is never ahead
  (`KeyInv`).  It works because `_running_keys` gives a row one writer:
  `RunsAreCovered` is proved first.  `CursorNeverAhead` and `FullIsFull` follow, and
  `OneRetryIsEnough`, since the version that the second attempt reads cannot change
  before it writes.  `Refinement` maps every step to one of `ResumableScan`.
  All of these but `RunsAreCovered` assume `"info" \notin ReadsFail`: a run begins with
  a context that agrees with its row because it has just read it; one that could not
  goes by a context that a cancelled finalize may have left behind (section 3).  A
  tracker sync may fail to read: its list is complete, so that a context left behind by
  the end of its cycle stands at the last torrent (`AtEnd`) and nothing follows.

- `RecycleBinProofs`.  The promises of the bin assume `OneRequest`: with two requests at
  work on one torrent they are false (section 3).  `BinInv` says how far a torrent is
  by where its request is: that whoever has taken it out of its place has marked it
  deleted, that what a failed request would put back is the row as it is or leaves a
  torrent that is where it was, that copies are only removed beside their originals,
  and which entries are still to be moved.  `OnlyCleanupLoses` needs no more;
  `DeletedIsRestorable` and `AnswersAreTrue` also need that extensions do not lie
  (`~Misnamed`), as section 3 shows.  Both are about the row and the files; of the task
  they say that it is there or that a restore has taken it for granted (`unseen`), since
  that it is there is false (`RestoredIsThere`, section 3).

The modules assume of `None` only that it is none of the values it stands beside
(`NoneIsNothing` and the like); without that a run called `None` would hold a key
that nobody holds.

Only model-checked: liveness (`WaitEnds`, `RunsEnd`, `ThreadsEnd`,
`JournalConverges`, `AbandonedRowGoes`, `JobsEnd`, `JobsSettle`, `TasksEnd`), which
is out of the proof system's reach (fairness, `ENABLED`).

## 5. Abstractions and what is left out

- Logs, metrics, audit records, notifications and messages are left out, except
  where a property is about them (the task log, the call statistics).
- Task bodies, remote calls and SQL are steps that end with one of their
  outcomes.  Database writes are assumed to succeed unless an action says
  otherwise; the executor swallows their failures and goes on, which leaves the
  row as it was.
- One task, one candidate and one lease row are modelled: the code keeps no state
  that relates two of them, except the semaphores, which are modelled with
  several users.
- A timer may fire at any time: the length of a timeout is not modelled, except
  in the lease, where it is the point.
- asyncio, the thread pools and `Semaphore` are modelled as the code relies on
  them and marked external in the index.
- Components with status `not_modelled` in `PROJECT.json` say why.

## 6. Plan

Done: admission, cron executor, downloader runtime, lease, orphan files, purge
jobs, sync coordinator, tracker enrichment, recycle bin.  Left, in this order; the
number of runs is kept small, so where a later module needs one, a run whose question a
composition answers gives way to it.

1. `DeletionTasks`: reservations, expiry and the life of a task, around
   `RecycleBin`: with the reservations, which of the overlaps of section 3 are left.
2. `SyncDbWrite`: retries of a batch, and what is committed when one fails.
3. `ScanJobs`: the waiters of a scan and the shutdown of its dispatcher.
4. `HeavyCron`: `CronExecutor`, `TaskAdmission` and a body that goes on in a
   thread after its coroutine was cancelled.
5. The incremental protocol (rid) of torrent lists.

Every safety property that a passing run checks is also a theorem; each module above
brings its own proofs.
