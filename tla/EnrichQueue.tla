---------------------------- MODULE EnrichQueue ----------------------------
(***************************************************************************)
(* The bounded queue through which one tracker sync of a qBittorrent       *)
(* fetches the trackers of its torrents (torrents_async.py,                *)
(* _enrich_qb_torrents_with_trackers): one producer, a fixed number of     *)
(* workers, a budget of torrents and of time, one sentinel per worker.     *)
(* It is the step Fetch of SyncCoordinator, seen from the inside.          *)
(*                                                                         *)
(* Torrents are numbered by their sorted hash from the first one behind    *)
(* the cursor.  asyncio.timeout around a put or a get loses no element:    *)
(* it only makes the task look again.                                      *)
(***************************************************************************)
EXTENDS Naturals, Sequences, FiniteSets

CONSTANTS Worker,      \* QB_TRACKER_WORKER_COUNT tasks
          MaxLength,   \* the most torrents behind the cursor
          MaxTorrents, \* max_torrents_per_run
          Timed        \* whether run_budget_seconds is positive

ASSUME QueueAssumption ==
    /\ IsFiniteSet(Worker) /\ Worker # {}
    /\ MaxLength \in Nat \ {0}
    /\ MaxTorrents \in Nat \ {0}
    /\ Timed \in BOOLEAN

Capacity == Cardinality(Worker)
Sentinel == 0

VARIABLES
    total,     \* torrents behind the cursor: a run without one returns at once
    queue,     \* asyncio.Queue of Capacity elements
    producer,  \* where the producer is
    index,     \* torrents put into the queue
    sentinels, \* sentinels put into the queue
    worker,    \* worker[w]: where the worker is: "get", "fetch", "done"
    current,   \* current[w]: the torrent it fetches
    started,   \* state["started"]
    begun,     \* the torrents a remote call was made for
    enriched,  \* those it has brought trackers of
    reason,    \* state["budget_reason"]
    late,      \* "late" once run_budget_seconds have passed
    outcome,   \* of the gather: "running", "returned", "cancelled"
    cursor     \* new_cursor, 0 for None

feed == <<producer, index, sentinels>>
calls == <<current, started, begun, enriched>>
report == <<outcome, cursor>>
vars == <<total, queue, feed, worker, calls, reason, late, report>>

Torrents == 1..total

Init ==
    /\ total \in 1..MaxLength
    /\ queue = <<>>
    /\ producer = "produce" /\ index = 0 /\ sentinels = 0
    /\ worker = [w \in Worker |-> "get"]
    /\ current = [w \in Worker |-> Sentinel]
    /\ started = 0 /\ begun = {} /\ enriched = {}
    /\ reason = "none" /\ late = "early"
    /\ outcome = "running" /\ cursor = 0

-----------------------------------------------------------------------------
(* The producer looks at the budget before each wait for a place.          *)
Produce ==
    /\ producer = "produce"
    /\ producer' = IF index = total THEN "close"
                   ELSE IF reason # "none" THEN "done" ELSE "put"
    /\ UNCHANGED <<total, queue, index, sentinels, worker, calls, reason, late, report>>

Put ==
    /\ producer = "put"
    /\ Len(queue) < Capacity
    /\ queue' = Append(queue, index + 1)
    /\ index' = index + 1
    /\ producer' = "produce"
    /\ UNCHANGED <<total, sentinels, worker, calls, reason, late, report>>

PutTimesOut ==
    /\ producer = "put"
    /\ Len(queue) = Capacity
    /\ producer' = "produce"
    /\ UNCHANGED <<total, queue, index, sentinels, worker, calls, reason, late, report>>

Close ==
    /\ producer = "close"
    /\ producer' = IF sentinels = Capacity \/ reason # "none" THEN "done" ELSE "putNone"
    /\ UNCHANGED <<total, queue, index, sentinels, worker, calls, reason, late, report>>

PutSentinel ==
    /\ producer = "putNone"
    /\ Len(queue) < Capacity
    /\ queue' = Append(queue, Sentinel)
    /\ sentinels' = sentinels + 1
    /\ producer' = "close"
    /\ UNCHANGED <<total, index, worker, calls, reason, late, report>>

(* After half a second it tries again, after thirty it gives up.           *)
SentinelTimesOut ==
    /\ producer = "putNone"
    /\ Len(queue) = Capacity
    /\ producer' \in {"close", "done"}
    /\ UNCHANGED <<total, queue, index, sentinels, worker, calls, reason, late, report>>
-----------------------------------------------------------------------------
MBudgetOffByOne ==
    IF started > MaxTorrents THEN "count"
    ELSE IF late = "late" THEN "time" ELSE "none"

BudgetExceeded ==
    IF started >= MaxTorrents THEN "count"
    ELSE IF late = "late" THEN "time" ELSE "none"

MReasonOfSentinel(t) == IF reason # "none" THEN reason ELSE BudgetExceeded

(* The budgets are not looked at for a sentinel, nor when another worker   *)
(* has already found one exceeded.                                         *)
Reason(t) == IF t = Sentinel \/ reason # "none" THEN reason ELSE BudgetExceeded

Stops(t) == t = Sentinel \/ Reason(t) # "none"

(* A worker that has an element checks both budgets and counts the torrent *)
(* without an await in between.                                            *)
Take(w) ==
    /\ worker[w] = "get"
    /\ queue # <<>>
    /\ queue' = Tail(queue)
    /\ reason' = Reason(Head(queue))
    /\ IF Stops(Head(queue))
       THEN /\ worker' = [worker EXCEPT ![w] = "done"]
            /\ UNCHANGED <<current, started, begun>>
       ELSE /\ worker' = [worker EXCEPT ![w] = "fetch"]
            /\ current' = [current EXCEPT ![w] = Head(queue)]
            /\ started' = started + 1
            /\ begun' = begun \cup {Head(queue)}
    /\ UNCHANGED <<total, feed, enriched, late, report>>

(* At the head of its loop, where a get that times out brings it back.     *)
StopForBudget(w) ==
    /\ worker[w] = "get"
    /\ reason # "none"
    /\ worker' = [worker EXCEPT ![w] = "done"]
    /\ UNCHANGED <<total, queue, feed, calls, reason, late, report>>

(* Without the way out for a lost sentinel.                                *)
MGetPolls(w) ==
    /\ worker[w] = "get" /\ queue = <<>> /\ producer = "done"
    /\ UNCHANGED vars

(* A get that times out ends the worker when nothing more can come.        *)
GetTimesOut(w) ==
    /\ worker[w] = "get"
    /\ queue = <<>>
    /\ producer = "done"
    /\ worker' = [worker EXCEPT ![w] = "done"]
    /\ UNCHANGED <<total, queue, feed, calls, reason, late, report>>

(* The remote call has a timeout of its own, and a failure is swallowed.   *)
FetchReturns(w) ==
    /\ worker[w] = "fetch"
    /\ \/ enriched' = enriched \cup {current[w]}
       \/ UNCHANGED enriched
    /\ worker' = [worker EXCEPT ![w] = "get"]
    /\ current' = [current EXCEPT ![w] = Sentinel]
    /\ UNCHANGED <<total, queue, feed, started, begun, reason, late, report>>
-----------------------------------------------------------------------------
TimePasses ==
    /\ Timed /\ late = "early" /\ outcome = "running"
    /\ late' = "late"
    /\ UNCHANGED <<total, queue, feed, worker, calls, reason, report>>

(* The cursor goes to the end of the unbroken run of successes at the      *)
(* start of torrent_hashes[:started].                                      *)
NewCursor(n) ==
    /\ n \in 0..started
    /\ 1..n \subseteq enriched
    /\ n < started => n + 1 \notin enriched

Return ==
    /\ outcome = "running"
    /\ producer = "done" /\ \A w \in Worker : worker[w] = "done"
    /\ outcome' = "returned"
    /\ \E n \in 0..started : NewCursor(n) /\ cursor' = n
    /\ UNCHANGED <<total, queue, feed, worker, calls, reason, late>>

(* A cancelled gather cancels its tasks and waits for them: each ends at   *)
(* the await it is at.                                                     *)
Cancelled ==
    /\ outcome = "running"
    /\ outcome' = "cancelled"
    /\ producer' = "done"
    /\ worker' = [w \in Worker |-> "done"]
    /\ UNCHANGED <<total, queue, index, sentinels, calls, reason, late, cursor>>

ProducerStep == Produce \/ Put \/ PutTimesOut \/ Close \/ PutSentinel \/ SentinelTimesOut
WorkerStep(w) == Take(w) \/ StopForBudget(w) \/ GetTimesOut(w) \/ FetchReturns(w)

Next ==
    \/ ProducerStep
    \/ \E w \in Worker : WorkerStep(w)
    \/ TimePasses
    \/ Return
    \/ Cancelled

Spec == Init /\ [][Next]_vars

(* Every task that can go on does: a remote call returns or times out, a   *)
(* get or a put wakes up after its timeout.                                *)
FairSpec ==
    /\ Spec
    /\ WF_vars(ProducerStep)
    /\ \A w \in Worker : WF_vars(WorkerStep(w))
    /\ WF_vars(Return)
-----------------------------------------------------------------------------
(* Variables keep their types, and the queue its capacity.                 *)
TypeOK ==
    /\ total \in 1..MaxLength
    /\ queue \in Seq(Torrents \cup {Sentinel}) /\ Len(queue) <= Capacity
    /\ producer \in {"produce", "put", "close", "putNone", "done"}
    /\ index \in 0..total
    /\ sentinels \in 0..Capacity
    /\ worker \in [Worker -> {"get", "fetch", "done"}]
    /\ current \in [Worker -> Torrents \cup {Sentinel}]
    /\ started \in 0..total
    /\ begun \subseteq Torrents /\ enriched \subseteq Torrents
    /\ reason \in {"none", "count", "time"}
    /\ late \in {"early", "late"}
    /\ outcome \in {"running", "returned", "cancelled"}
    /\ cursor \in 0..started

(* However the workers interleave, the remote calls are for the first      *)
(* torrents behind the cursor and no more than the budget allows: the      *)
(* caller takes torrent_hashes[:started] for what was tried.               *)
PrefixWithinBudget == started <= MaxTorrents /\ begun = 1..started

(* A run that reports no exhausted budget has left no torrent out, one     *)
(* that reports a budget has, and the cursor passes no torrent whose       *)
(* trackers are missing: the caller closes the cycle by the two.           *)
ReportTrue ==
    outcome = "returned" =>
        /\ reason = "none" <=> begun = Torrents
        /\ 1..cursor \subseteq enriched

(* The gather ends, with sentinels lost, torrents dropped or a put that    *)
(* nobody makes room for.                                                  *)
TasksEnd == <>(outcome # "running")
=============================================================================
