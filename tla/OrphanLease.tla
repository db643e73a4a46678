---------------------------- MODULE OrphanLease ----------------------------
(***************************************************************************)
(* The maintenance lease of the orphan-file operations                     *)
(* (backend/app/services/orphan_lease.py): one row in the database, taken  *)
(* by orphan_maintenance_scope, kept alive by a heartbeat task and checked *)
(* by assert_owned before every dangerous file operation.                  *)
(*                                                                         *)
(* Workers are coroutines of one process or of several.  Each statement on *)
(* the row works with a `now' taken before the session and the write scope *)
(* are awaited: taking it is a step of its own.  Time is discrete;         *)
(* expires_at and the heartbeat's wake-up are kept as the time that is     *)
(* left, so that the clock itself needs no bound.                          *)
(***************************************************************************)
EXTENDS Integers

CONSTANTS Worker,
          None,
          TTL,      \* settings.ORPHAN_LEASE_TTL_SECONDS
          Lateness, \* how late a renewal may be and not be tardy
          Gap       \* longest time between a worker's now and its use

ASSUME LeaseAssumption ==
    /\ None \notin Worker
    /\ TTL \in Nat \ {0}
    /\ Lateness \in Nat
    /\ Gap \in Nat

VARIABLES
    holder,  \* owner of the row, None when there is no row
    left,    \* expires_at minus the present time, no lower than Oldest
    pc,      \* "idle", "asking", "working", "checking", "cleared", "leaving"
    since,   \* age of the now of a worker that asks, checks or is cleared
    beat,    \* heartbeat task: "off", "asleep", "renewing", "dead"
    due,     \* time until the heartbeat's next renewal
    age,     \* age of the now of a renewal under way
    lost,    \* workers whose handle.lost is set
    gone,    \* history: how long the row has not been the worker's
    timing   \* history: "tardy" once a renewal was late or died

vars == <<holder, left, pc, since, beat, due, age, lost, gone, timing>>

(* max(1, ttl_seconds // 3)                                                *)
Interval == IF TTL \div 3 > 1 THEN TTL \div 3 ELSE 1

(* How long ago a row may have expired and still matter to a statement.    *)
Oldest == -(Gap + 1)

(* A row that is written `late' after the now of its expires_at.           *)
Remaining(late) == IF TTL - late > Oldest THEN TTL - late ELSE Oldest

(* Between the grant and the end of the body.                              *)
InScope == {w \in Worker : pc[w] \in {"working", "checking", "cleared"}}
Beating == {w \in Worker : beat[w] \in {"asleep", "renewing"}}

(* The worker has taken a now that it still acts on.                       *)
InUse(w) == pc[w] \in {"asking", "checking", "cleared"}

Init ==
    /\ holder = None
    /\ left = Oldest
    /\ pc = [w \in Worker |-> "idle"]
    /\ since = [w \in Worker |-> 0]
    /\ beat = [w \in Worker |-> "off"]
    /\ due = [w \in Worker |-> Interval]
    /\ age = [w \in Worker |-> 0]
    /\ lost = {}
    /\ gone = [w \in Worker |-> 0]
    /\ timing = "punctual"

-----------------------------------------------------------------------------
(* acquire_lease takes its now.                                            *)
Ask(w) ==
    /\ pc[w] = "idle"
    /\ pc' = [pc EXCEPT ![w] = "asking"]
    /\ UNCHANGED <<holder, left, since, beat, due, age, lost, gone, timing>>

(* The row becomes w's, with the expiry computed at Ask; the heartbeat     *)
(* task starts.                                                            *)
Enter(w) ==
    /\ pc' = [pc EXCEPT ![w] = "working"]
    /\ holder' = w
    /\ left' = Remaining(since[w])
    /\ since' = [since EXCEPT ![w] = 0]
    /\ beat' = [beat EXCEPT ![w] = "asleep"]
    /\ due' = [due EXCEPT ![w] = Interval]
    /\ timing' = IF since[w] > Lateness THEN "tardy" ELSE timing
    /\ UNCHANGED <<age, lost, gone>>

(* Mutants: a lease in its last instant is taken over; none ever is.       *)
MFreeEarly(w) == holder = None \/ left <= -since[w]
MFreeNever(w) == holder = None

(* No row, or one whose expires_at is before w's now.                      *)
Free(w) == holder = None \/ left < -since[w]

(* INSERT OR IGNORE, then an UPDATE where expires_at < now.                *)
Acquire(w) == pc[w] = "asking" /\ Free(w) /\ Enter(w)

(* Neither changed a row: OrphanLeaseBusyError.                            *)
Refuse(w) ==
    /\ pc[w] = "asking" /\ ~Free(w)
    /\ pc' = [pc EXCEPT ![w] = "idle"]
    /\ since' = [since EXCEPT ![w] = 0]
    /\ UNCHANGED <<holder, left, beat, due, age, lost, gone, timing>>

-----------------------------------------------------------------------------
(* The finally block begins: stopped is set and the heartbeat cancelled,   *)
(* with the renewal it may have under way; one that died stays so.         *)
StopBeat(w) ==
    /\ beat' = [beat EXCEPT ![w] = IF @ = "dead" THEN "dead" ELSE "off"]
    /\ age' = [age EXCEPT ![w] = 0]

(* assert_owned raises out of the body.                                    *)
Lose(w) ==
    /\ pc' = [pc EXCEPT ![w] = "leaving"]
    /\ since' = [since EXCEPT ![w] = 0]
    /\ lost' = lost \cup {w}
    /\ StopBeat(w)

(* assert_owned looks at the flag, and get_lease_holder takes its now.     *)
BeginCheck(w) ==
    /\ pc[w] = "working"
    /\ IF w \in lost
         THEN Lose(w)
         ELSE /\ pc' = [pc EXCEPT ![w] = "checking"]
              /\ UNCHANGED <<since, lost, beat, age>>
    /\ UNCHANGED <<holder, left, due, gone, timing>>

(* Mutant: only the flag of the handle counts.                             *)
MCheckFlagOnly(w) ==
    /\ pc[w] = "checking"
    /\ pc' = [pc EXCEPT ![w] = "cleared"]
    /\ UNCHANGED <<holder, left, since, beat, due, age, lost, gone, timing>>

(* The SELECT: w's row, not expired at that now; the flag is not looked at *)
(* again.                                                                  *)
Check(w) ==
    /\ pc[w] = "checking"
    /\ IF holder = w /\ left >= -since[w]
         THEN /\ pc' = [pc EXCEPT ![w] = "cleared"]
              /\ UNCHANGED <<since, lost, beat, age>>
         ELSE Lose(w)
    /\ UNCHANGED <<holder, left, due, gone, timing>>

(* The file operation that follows, once the check's await has returned.   *)
Act(w) ==
    /\ pc[w] = "cleared"
    /\ pc' = [pc EXCEPT ![w] = "working"]
    /\ since' = [since EXCEPT ![w] = 0]
    /\ UNCHANGED <<holder, left, beat, due, age, lost, gone, timing>>

(* The body of the scope ends.                                             *)
Finish(w) ==
    /\ pc[w] = "working"
    /\ pc' = [pc EXCEPT ![w] = "leaving"]
    /\ StopBeat(w)
    /\ UNCHANGED <<holder, left, since, due, lost, gone, timing>>

(* The scope is over, its handle and its heartbeat task are gone.          *)
Over(w) ==
    /\ pc' = [pc EXCEPT ![w] = "idle"]
    /\ since' = [since EXCEPT ![w] = 0]
    /\ beat' = [beat EXCEPT ![w] = "off"]
    /\ due' = [due EXCEPT ![w] = Interval]
    /\ age' = [age EXCEPT ![w] = 0]
    /\ lost' = lost \ {w}
    /\ gone' = [gone EXCEPT ![w] = 0]
    /\ UNCHANGED <<left, timing>>

(* Mutant: gives up the row whoever it belongs to.                         *)
MLeaveReleasesAny(w) ==
    /\ pc[w] = "leaving"
    /\ holder' = None
    /\ Over(w)

(* release_lease, of our own row only; a heartbeat that died raises again  *)
(* when it is awaited, and nothing is released.                            *)
Leave(w) ==
    /\ pc[w] = "leaving"
    /\ holder' = IF holder = w /\ beat[w] # "dead" THEN None ELSE holder
    /\ Over(w)

(* The process of the worker dies; one that dies before its acquire's      *)
(* statement might as well not have asked.                                 *)
Crash(w) ==
    /\ pc[w] \notin {"idle", "asking"}
    /\ UNCHANGED holder
    /\ Over(w)

-----------------------------------------------------------------------------
(* The heartbeat wakes up, and renew_lease takes its now.                  *)
BeginBeat(w) ==
    /\ beat[w] = "asleep" /\ due[w] <= 0
    /\ beat' = [beat EXCEPT ![w] = "renewing"]
    /\ UNCHANGED <<holder, left, pc, since, due, age, lost, gone, timing>>

(* Its UPDATE: it does not ask whether the row has expired, only whose it  *)
(* is, and writes the expiry computed at BeginBeat; when the row is not    *)
(* ours any more the handle is lost.                                       *)
Beat(w) ==
    /\ beat[w] = "renewing"
    /\ IF holder = w
         THEN /\ left' = Remaining(age[w])
              /\ beat' = [beat EXCEPT ![w] = "asleep"]
              /\ due' = [due EXCEPT ![w] = Interval]
              /\ UNCHANGED lost
         ELSE /\ beat' = [beat EXCEPT ![w] = "off"]
              /\ lost' = lost \cup {w}
              /\ UNCHANGED <<left, due>>
    /\ age' = [age EXCEPT ![w] = 0]
    /\ UNCHANGED <<holder, pc, since, gone, timing>>

(* The renewal raises, say on a locked database: the heartbeat task ends.  *)
BeatDies(w) ==
    /\ beat[w] = "renewing"
    /\ beat' = [beat EXCEPT ![w] = "dead"]
    /\ age' = [age EXCEPT ![w] = 0]
    /\ timing' = "tardy"
    /\ UNCHANGED <<holder, left, pc, since, due, lost, gone>>

(* Whatever is done with a now is done no later than Gap after it.         *)
Tick ==
    /\ \A w \in Worker :
          /\ InUse(w) => since[w] < Gap
          /\ beat[w] = "renewing" => age[w] < Gap
    /\ timing' = IF \E w \in Beating : due[w] <= -Lateness THEN "tardy" ELSE timing
    /\ left' = IF left > Oldest THEN left - 1 ELSE left
    /\ since' = [w \in Worker |-> since[w] + (IF InUse(w) THEN 1 ELSE 0)]
    /\ due' = [w \in Worker |->
           due[w] - (IF w \in Beating /\ due[w] > -Lateness THEN 1 ELSE 0)]
    /\ age' = [w \in Worker |-> age[w] + (IF beat[w] = "renewing" THEN 1 ELSE 0)]
    /\ gone' = [w \in Worker |->
           gone[w] + (IF w \in InScope /\ holder # w /\ gone[w] <= Gap THEN 1 ELSE 0)]
    /\ UNCHANGED <<holder, pc, beat, lost>>

-----------------------------------------------------------------------------
Scope(w) == Acquire(w) \/ Refuse(w) \/ BeginCheck(w) \/ Check(w) \/ Act(w) \/ Finish(w) \/ Leave(w)
Heartbeat(w) == BeginBeat(w) \/ Beat(w) \/ BeatDies(w)

Next ==
    \/ \E w \in Worker : Ask(w) \/ Scope(w) \/ Heartbeat(w) \/ Crash(w)
    \/ Tick

Spec == Init /\ [][Next]_vars

(* Time passes, statements end, and somebody keeps asking for the lease.   *)
FairSpec ==
    /\ Spec
    /\ WF_vars(Tick)
    /\ WF_vars(\E w \in Worker : Ask(w))
    /\ \A w \in Worker :
          /\ WF_vars(Acquire(w) \/ Refuse(w))
          /\ WF_vars(Check(w) \/ Act(w))
          /\ WF_vars(Beat(w) \/ BeatDies(w))

-----------------------------------------------------------------------------
(* Every variable stays in its range; a heartbeat belongs to a scope.      *)
TypeOK ==
    /\ holder \in Worker \cup {None}
    /\ left \in Oldest .. TTL
    /\ pc \in [Worker -> {"idle", "asking", "working", "checking", "cleared", "leaving"}]
    /\ since \in [Worker -> 0 .. Gap]
    /\ beat \in [Worker -> {"off", "asleep", "renewing", "dead"}]
    /\ due \in [Worker -> (-Lateness) .. Interval]
    /\ age \in [Worker -> 0 .. Gap]
    /\ lost \subseteq Worker
    /\ gone \in [Worker -> 0 .. Gap + 1]
    /\ timing \in {"punctual", "tardy"}
    /\ Beating \subseteq InScope
    /\ \A w \in Worker : beat[w] # "renewing" => age[w] = 0

(* Scans, cleanups, purges and restores exclude each other, as the module  *)
(* says: as long as no renewal has been tardy, no two workers are in the   *)
(* scope at once.                                                          *)
ScopesExclusive == timing = "punctual" => \A v, w \in InScope : v = w

(* Why they do: whoever is in the scope holds the row, with a heartbeat    *)
(* that runs and will renew it before it expires.  An expiry is written at *)
(* most Lateness after its now, a renewal comes at most Lateness after its *)
(* interval.                                                               *)
Held ==
    \A w \in InScope :
        /\ holder = w
        /\ w \in Beating
        /\ left >= TTL - Lateness - Interval + due[w]
        /\ left >= 0
        /\ beat[w] = "renewing" => age[w] <= -due[w]
ScopeHoldsLease == timing = "punctual" => Held

(* However late or dead the heartbeats are, a file operation is only done  *)
(* by a worker whose lease was unexpired no more than Gap ago: the row     *)
(* expired, or was taken over or given up, less than that ago.             *)
FreshEnough(w) == IF holder = w THEN left >= -Gap ELSE gone[w] <= Gap
ActsFresh == [][\A w \in Worker : pc[w] = "cleared" /\ pc'[w] = "working" => FreshEnough(w)]_vars

(* A scope that ends, loses the lease or asks for it does not take an      *)
(* unexpired row of another worker: only the owner's own end frees it.     *)
NoTheft ==
    [][\A w \in Worker : holder = w /\ left >= 0 /\ holder' # w => pc[w] = "leaving"]_vars

(* A row left behind by a dead worker or a dead heartbeat does not block   *)
(* maintenance for good.                                                   *)
Abandoned(w) == holder = w /\ pc[w] \in {"idle", "asking"}
AbandonedRowGoes == \A w \in Worker : Abandoned(w) ~> ~Abandoned(w)

=============================================================================
