------------------------ MODULE DownloaderApiRuntime ------------------------
(***************************************************************************)
(* The runtime through which every remote call to a downloader goes        *)
(* (backend/app/services/downloader_api_runtime.py): a thread pool per     *)
(* lane, two counting semaphores per downloader that the pool's thread     *)
(* takes and gives back itself, and a caller that waits for the answer no  *)
(* longer than its timeout.                                                *)
(*                                                                         *)
(* Each element of Call is one call of the runtime.  Its thread and its    *)
(* caller are separate actors: when the caller gives up the thread goes on.*)
(* Its specification carries the component's name, so that a module can    *)
(* extend TaskAdmission beside it.                                         *)
(***************************************************************************)
EXTENDS Naturals, FiniteSets, Sequences

CONSTANTS Call,              \* the calls made
          Downloader,        \* downloader ids
          Workers,           \* _LANE_WORKERS: threads of each lane's pool
          IoConcurrency,     \* settings.DOWNLOADER_IO_CONCURRENCY
          BackgroundCapacity \* settings.DOWNLOADER_BACKGROUND_CAPACITY

Lane       == {"tracker", "sync", "interactive"}
Background == {"tracker", "sync"}

ASSUME RuntimeAssumption ==
    /\ IsFiniteSet(Call)
    /\ Workers \in [Lane -> Nat \ {0}]
    /\ IoConcurrency \in Nat \ {0}
    /\ BackgroundCapacity \in Nat

VARIABLES
    open,       \* the pools accept work
    lane,       \* the lane of each call
    target,     \* the downloader of each call
    queue,      \* the work queue of each lane's pool
    thread,     \* where the thread of each call is
    total,      \* free slots of each downloader's total semaphore
    background, \* free slots of each downloader's background semaphore
    caller,     \* where the coroutine that made the call is
    cancelled,  \* calls whose asyncio future was cancelled
    counted     \* calls that entered the window statistics

runtimeVars == <<open, lane, target, queue, thread, total, background, caller,
                 cancelled, counted>>

(* _resolve_background_capacity: one slot at least is left to interactive  *)
(* calls; with a single slot in all there is no background semaphore.      *)
MEffectiveUnclipped == BackgroundCapacity         \* mutant: no downgrade

EffectiveBackground ==
    IF BackgroundCapacity < IoConcurrency THEN BackgroundCapacity
                                          ELSE IoConcurrency - 1

(* The call takes a background slot before its total slot.                 *)
Limited(c) == lane[c] \in Background /\ EffectiveBackground > 0

InThread == {"wantBackground", "wantTotal", "remote", "releasing"}

TotalHolders(d) == {c \in Call : target[c] = d /\ thread[c] = "remote"}

BackgroundHolders(d) ==
    {c \in Call : /\ target[c] = d
                  /\ Limited(c)
                  /\ thread[c] \in {"wantTotal", "remote", "releasing"}}

Busy(l) == {c \in Call : lane[c] = l /\ thread[c] \in InThread}

RuntimeInit ==
    /\ open = TRUE
    /\ lane \in [Call -> Lane]
    /\ target \in [Call -> Downloader]
    /\ queue = [l \in Lane |-> <<>>]
    /\ thread = [c \in Call |-> "idle"]
    /\ total = [d \in Downloader |-> IoConcurrency]
    /\ background = [d \in Downloader |-> EffectiveBackground]
    /\ caller = [c \in Call |-> "idle"]
    /\ cancelled = {}
    /\ counted = {}

-----------------------------------------------------------------------------
(* call(): run_in_executor, then wait_for.                                 *)
Submit(c) ==
    /\ open
    /\ thread[c] = "idle"
    /\ queue' = [queue EXCEPT ![lane[c]] = Append(@, c)]
    /\ thread' = [thread EXCEPT ![c] = "queued"]
    /\ caller' = [caller EXCEPT ![c] = "waiting"]
    /\ UNCHANGED <<open, lane, target, total, background, cancelled, counted>>

(* A thread of the lane takes the oldest call; the wrapper begins.         *)
Start(c) ==
    /\ thread[c] = "queued"
    /\ queue[lane[c]] # <<>>
    /\ Head(queue[lane[c]]) = c
    /\ Cardinality(Busy(lane[c])) < Workers[lane[c]]
    /\ queue' = [queue EXCEPT ![lane[c]] = Tail(@)]
    /\ thread' = [thread EXCEPT ![c] = IF Limited(c) THEN "wantBackground" ELSE "wantTotal"]
    /\ UNCHANGED <<open, lane, target, total, background, caller, cancelled,
                   counted>>

(* Mutant: the reserve is kept back again when a slot is taken.            *)
MTakeBackgroundReserves(c) ==
    /\ thread[c] = "wantBackground"
    /\ background[target[c]] > 1
    /\ background' = [background EXCEPT ![target[c]] = @ - 1]
    /\ thread' = [thread EXCEPT ![c] = "wantTotal"]
    /\ UNCHANGED <<open, lane, target, queue, total, caller, cancelled, counted>>

TakeBackground(c) ==
    /\ thread[c] = "wantBackground"
    /\ background[target[c]] > 0
    /\ background' = [background EXCEPT ![target[c]] = @ - 1]
    /\ thread' = [thread EXCEPT ![c] = "wantTotal"]
    /\ UNCHANGED <<open, lane, target, queue, total, caller, cancelled, counted>>

TakeTotal(c) ==
    /\ thread[c] = "wantTotal"
    /\ total[target[c]] > 0
    /\ total' = [total EXCEPT ![target[c]] = @ - 1]
    /\ thread' = [thread EXCEPT ![c] = "remote"]
    /\ UNCHANGED <<open, lane, target, queue, background, caller, cancelled,
                   counted>>

(* func returns or raises; the total slot goes back first.                 *)
RemoteEnds(c) ==
    /\ thread[c] = "remote"
    /\ total' = [total EXCEPT ![target[c]] = @ + 1]
    /\ thread' = [thread EXCEPT ![c] = IF Limited(c) THEN "releasing" ELSE "over"]
    /\ UNCHANGED <<open, lane, target, queue, background, caller, cancelled,
                   counted>>

(* Mutant: the background slot is forgotten.                               *)
MReleaseNothing(c) ==
    /\ thread[c] = "releasing"
    /\ thread' = [thread EXCEPT ![c] = "over"]
    /\ UNCHANGED <<open, lane, target, queue, total, background, caller,
                   cancelled, counted>>

ReleaseBackground(c) ==
    /\ thread[c] = "releasing"
    /\ background' = [background EXCEPT ![target[c]] = @ + 1]
    /\ thread' = [thread EXCEPT ![c] = "over"]
    /\ UNCHANGED <<open, lane, target, queue, total, caller, cancelled, counted>>

(* The result, or the exception of func, reaches the caller in time.       *)
Answer(c) ==
    /\ caller[c] = "waiting"
    /\ thread[c] = "over"
    /\ caller' = [caller EXCEPT ![c] = "answered"]
    /\ counted' = counted \cup {c}
    /\ UNCHANGED <<open, lane, target, queue, thread, total, background, cancelled>>

(* Out of the pool's queue: a queued work item can still be cancelled.     *)
Dropped(C) ==
    /\ thread' = [c \in Call |->
                     IF c \in C /\ thread[c] = "queued" THEN "dropped" ELSE thread[c]]
    /\ queue' = [l \in Lane |-> SelectSeq(queue[l], LAMBDA c : c \notin C)]

(* Mutant: the slots come back with the caller, not with the thread.       *)
MTimeOutReleases(c) ==
    /\ caller[c] = "waiting"
    /\ caller' = [caller EXCEPT ![c] = "timedOut"]
    /\ cancelled' = cancelled \cup {c}
    /\ Dropped({c})
    /\ total' = [total EXCEPT ![target[c]] = IF thread[c] = "remote" THEN @ + 1 ELSE @]
    /\ UNCHANGED <<open, lane, target, background, counted>>

(* wait_for gives up: it cancels the future, which stops the call only if  *)
(* no thread has begun it, and a callback is attached for the statistics.  *)
TimeOut(c) ==
    /\ caller[c] = "waiting"
    /\ caller' = [caller EXCEPT ![c] = "timedOut"]
    /\ cancelled' = cancelled \cup {c}
    /\ Dropped({c})
    /\ UNCHANGED <<open, lane, target, total, background, counted>>

(* _attach_done_stats: the callback runs as soon as the future is done,    *)
(* and a cancelled future is done at once and not counted.                 *)
Archive(c) ==
    /\ caller[c] = "timedOut"
    /\ c \in cancelled \/ thread[c] = "over"
    /\ caller' = [caller EXCEPT ![c] = "archived"]
    /\ counted' = IF c \in cancelled THEN counted ELSE counted \cup {c}
    /\ UNCHANGED <<open, lane, target, queue, thread, total, background, cancelled>>

(* shutdown: queued calls are cancelled, running threads are left alone.   *)
Shutdown ==
    /\ open
    /\ open' = FALSE
    /\ Dropped(Call)
    /\ cancelled' = cancelled \cup {c \in Call : thread[c] = "queued"}
    /\ caller' = [c \in Call |-> IF thread[c] = "queued" THEN "stopped" ELSE caller[c]]
    /\ UNCHANGED <<lane, target, total, background, counted>>

-----------------------------------------------------------------------------
ThreadStep(c) ==
    Start(c) \/ TakeBackground(c) \/ TakeTotal(c) \/ RemoteEnds(c) \/ ReleaseBackground(c)

CallerStep(c) == Answer(c) \/ TimeOut(c) \/ Archive(c)

RuntimeNext ==
    \/ \E c \in Call : Submit(c) \/ ThreadStep(c) \/ CallerStep(c)
    \/ Shutdown

RuntimeSpec == RuntimeInit /\ [][RuntimeNext]_runtimeVars

(* The pools run their work, and a remote call returns some day: the       *)
(* downloader clients have their own request timeouts.                     *)
RuntimeFairSpec ==
    /\ RuntimeSpec
    /\ \A c \in Call : WF_runtimeVars(ThreadStep(c)) /\ WF_runtimeVars(CallerStep(c))

-----------------------------------------------------------------------------
(* Every variable stays in its range; a queue holds each waiting call of   *)
(* its lane once.                                                          *)
RuntimeTypeOK ==
    /\ open \in BOOLEAN
    /\ lane \in [Call -> Lane]
    /\ target \in [Call -> Downloader]
    /\ queue \in [Lane -> Seq(Call)]
    /\ thread \in [Call -> {"idle", "queued", "over", "dropped"} \cup InThread]
    /\ total \in [Downloader -> Nat]
    /\ background \in [Downloader -> Nat]
    /\ caller \in [Call -> {"idle", "waiting", "answered", "timedOut",
                            "archived", "stopped"}]
    /\ cancelled \subseteq Call
    /\ counted \subseteq Call

(* No more calls of a downloader are at the remote side than its capacity, *)
(* whatever their callers have given up on: a timeout does not get around  *)
(* the capacity lease.                                                     *)
RemoteBounded == \A d \in Downloader : Cardinality(TotalHolders(d)) <= IoConcurrency

(* Every slot is free or held by a live thread of that downloader: none    *)
(* leaks on a timeout, an exception or a shutdown.                         *)
SlotConservation ==
    \A d \in Downloader :
        /\ total[d] + Cardinality(TotalHolders(d)) = IoConcurrency
        /\ background[d] + Cardinality(BackgroundHolders(d)) = EffectiveBackground

(* The reserved slot: with two slots or more, the downloader's slots are   *)
(* never all taken by background calls, so an interactive call only ever   *)
(* waits for other interactive calls.                                      *)
InteractiveReserve ==
    IoConcurrency > 1 =>
        \A d \in Downloader :
            total[d] = 0 => \E c \in TotalHolders(d) : lane[c] = "interactive"

(* What the callback's docstring promises of the calls that timed out:     *)
(* their success or failure is not lost once the thread is done.           *)
TimedOutIsCounted ==
    \A c \in Call : caller[c] = "archived" /\ thread[c] = "over" => c \in counted

(* The two levels of semaphores and the pools' threads cannot wait for     *)
(* each other in a circle: every thread that starts ends.                  *)
ThreadsEnd == \A c \in Call : thread[c] = "queued" ~> thread[c] \in {"over", "dropped"}

=============================================================================
