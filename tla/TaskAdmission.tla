--------------------------- MODULE TaskAdmission ---------------------------
(***************************************************************************)
(* The process-wide admission controller of the heavy background tasks     *)
(* (TaskAdmissionController, backend/app/tasks/resource_guard.py).         *)
(*                                                                         *)
(* A client is an asyncio task that calls acquire(task_code) and, when it  *)
(* is admitted, runs its body and calls release(task_code).  asyncio only  *)
(* switches tasks at a suspending await, and the only one in acquire is    *)
(* the wait on the heavy_sync semaphore: registry_lock is never held       *)
(* across an await, so each of its critical sections is part of an atomic  *)
(* step here.  The semaphore itself belongs to the Python library; it is   *)
(* modelled with its future per waiter, because a waiter can be granted a  *)
(* token, or told to stop, some time before it runs again.                 *)
(***************************************************************************)
EXTENDS Naturals, FiniteSets

CONSTANTS Client,           \* asyncio tasks that ask for admission
          TaskCode,         \* task codes of the heavy tasks
          HeavyConcurrency, \* settings.SYNC_HEAVY_CONCURRENCY
          QueueLimit,       \* settings.SYNC_HEAVY_QUEUE_LIMIT
          Cancellable       \* clients whose task may be cancelled from outside

ASSUME AdmissionAssumption ==
    /\ IsFiniteSet(Client)
    /\ HeavyConcurrency \in Nat \ {0}
    /\ QueueLimit \in Nat \ {0}
    /\ Cancellable \subseteq Client

VARIABLES
    pc,      \* where each client is in acquire / its body
    stop,    \* why a waiting client was told to stop: "none", "timeout", "cancel"
    code,    \* the task_code of the client's current or last request
    ahead,   \* the clients in front of a waiting client in the semaphore's deque
    value,   \* the semaphore's _value
    running, \* _ResourceState.running
    queued   \* _ResourceState.queued

vars == <<pc, stop, code, ahead, value, running, queued>>

(***************************************************************************)
(* "pending", "granted" and "dropped" are the three states of the future a *)
(* waiting client sleeps on: unset, set by a release, cancelled.           *)
(***************************************************************************)
Waiting == {"pending", "granted", "dropped"}
AtRest  == {"idle", "duplicate", "timedOut", "cancelled"}

Waiters == {c \in Client : pc[c] \in Waiting}
Pending == {c \in Client : pc[c] = "pending"}
Holders == {c \in Client : pc[c] = "holding"}
Granted == {c \in Client : pc[c] = "granted"}

WaitersOf(k) == {c \in Waiters : code[c] = k}

Init ==
    /\ pc = [c \in Client |-> "idle"]
    /\ stop = [c \in Client |-> "none"]
    /\ code \in [Client -> TaskCode]
    /\ ahead = [c \in Client |-> {}]
    /\ value = HeavyConcurrency
    /\ running = {}
    /\ queued = [k \in TaskCode |-> 0]

-----------------------------------------------------------------------------
(* The semaphore.                                                          *)

Lesser(m, n) == IF m < n THEN m ELSE n

Decrement(n) == IF n > 0 THEN n - 1 ELSE 0       \* max(0, n - 1)

(* Semaphore.locked(): no token, or an earlier waiter that has not left.   *)
Locked == value = 0 \/ \E c \in Client : pc[c] \in {"pending", "granted"}

(* D is the set of the first n clients of P, in deque order.               *)
IsFirst(D, n, P) ==
    /\ D \subseteq P
    /\ Cardinality(D) = Lesser(n, Cardinality(P))
    /\ \A d \in D, e \in P \ D : d \in ahead[e]

(***************************************************************************)
(* With v tokens at hand, wake up to n pending waiters in deque order; c   *)
(* itself moves to the state next.                                         *)
(***************************************************************************)
Wake(c, next, v, n) ==
    \E D \in SUBSET (Pending \ {c}) :
        /\ IsFirst(D, Lesser(n, v), Pending \ {c})
        /\ value' = v - Cardinality(D)
        /\ pc' = [d \in Client |-> IF d = c THEN next
                                   ELSE IF d \in D THEN "granted"
                                   ELSE pc[d]]

(* c takes its future out of the deque.                                    *)
LeaveDeque(c) ==
    ahead' = [d \in Client |-> IF d = c THEN {} ELSE ahead[d] \ {c}]

-----------------------------------------------------------------------------
(* acquire: the duplicate check, under registry_lock.                      *)

IsDuplicate(k) == k \in running \/ queued[k] >= QueueLimit

SkipDuplicate(c, k) ==
    /\ pc[c] \in AtRest
    /\ IsDuplicate(k)
    /\ pc' = [pc EXCEPT ![c] = "duplicate"]
    /\ code' = [code EXCEPT ![c] = k]
    /\ UNCHANGED <<stop, ahead, value, running, queued>>

(* A free token: no suspension between the check and the registration, the *)
(* queue slot is taken and given back within the step.                     *)
AdmitAtOnce(c, k) ==
    /\ pc[c] \in AtRest
    /\ ~IsDuplicate(k)
    /\ ~Locked
    /\ pc' = [pc EXCEPT ![c] = "holding"]
    /\ code' = [code EXCEPT ![c] = k]
    /\ value' = value - 1
    /\ running' = running \cup {k}
    /\ UNCHANGED <<stop, ahead, queued>>

(* Mutant: waits without taking a queue slot.                              *)
MEnqueueNoSlot(c, k) ==
    /\ pc[c] \in AtRest
    /\ ~IsDuplicate(k)
    /\ Locked
    /\ pc' = [pc EXCEPT ![c] = "pending"]
    /\ code' = [code EXCEPT ![c] = k]
    /\ ahead' = [ahead EXCEPT ![c] = Waiters]
    /\ UNCHANGED <<stop, value, running, queued>>

(* No token: take a queue slot and wait on heavy_sync.                     *)
Enqueue(c, k) ==
    /\ pc[c] \in AtRest
    /\ ~IsDuplicate(k)
    /\ Locked
    /\ pc' = [pc EXCEPT ![c] = "pending"]
    /\ code' = [code EXCEPT ![c] = k]
    /\ ahead' = [ahead EXCEPT ![c] = Waiters]
    /\ queued' = [queued EXCEPT ![k] = @ + 1]
    /\ UNCHANGED <<stop, value, running>>

-----------------------------------------------------------------------------
(* While c waits, the wait_for timer may fire and the task may be          *)
(* cancelled; both end up in task.cancel(), which cancels a pending future *)
(* and otherwise is delivered when the task resumes.                       *)

DropFuture(c) == pc' = [pc EXCEPT ![c] = IF @ = "pending" THEN "dropped" ELSE @]

TimerFires(c) ==
    /\ pc[c] \in Waiting
    /\ stop[c] = "none"
    /\ stop' = [stop EXCEPT ![c] = "timeout"]
    /\ DropFuture(c)
    /\ UNCHANGED <<code, ahead, value, running, queued>>

Cancel(c) ==
    /\ c \in Cancellable
    /\ pc[c] \in Waiting
    /\ stop[c] # "cancel"
    /\ stop' = [stop EXCEPT ![c] = "cancel"]
    /\ DropFuture(c)
    /\ UNCHANGED <<code, ahead, value, running, queued>>

(* The token arrives: from the queue to the running registry.              *)
Resume(c) ==
    /\ pc[c] = "granted"
    /\ stop[c] = "none"
    /\ Wake(c, "holding", value, value)
    /\ LeaveDeque(c)
    /\ queued' = [queued EXCEPT ![code[c]] = Decrement(@)]
    /\ running' = running \cup {code[c]}
    /\ UNCHANGED <<stop, code>>

(* The queue slot is given back by "except TimeoutError" and by "except    *)
(* Exception"; CancelledError is neither.                                  *)
QueueAfterStop(c) ==
    IF stop[c] = "timeout"
      THEN [queued EXCEPT ![code[c]] = Decrement(@)]
      ELSE queued

(* Mutant: a token granted to a waiter that gives up is lost.              *)
MGiveUpKeepsToken(c) ==
    /\ pc[c] \in Waiting
    /\ stop[c] # "none"
    /\ Wake(c, IF stop[c] = "timeout" THEN "timedOut" ELSE "cancelled", value, value)
    /\ LeaveDeque(c)
    /\ queued' = QueueAfterStop(c)
    /\ stop' = [stop EXCEPT ![c] = "none"]
    /\ UNCHANGED <<code, running>>

(* Mutants: a token granted to a waiter that gives up wakes nobody; such a *)
(* waiter swallows the cancellation and sleeps on.                         *)
MGiveUpNoWake(c) ==
    /\ pc[c] \in Waiting
    /\ stop[c] # "none"
    /\ Wake(c, IF stop[c] = "timeout" THEN "timedOut" ELSE "cancelled",
            IF pc[c] = "granted" THEN value + 1 ELSE value, 0)
    /\ LeaveDeque(c)
    /\ queued' = QueueAfterStop(c)
    /\ stop' = [stop EXCEPT ![c] = "none"]
    /\ UNCHANGED <<code, running>>

MGiveUpUngranted(c) ==
    /\ pc[c] \in Waiting \ {"granted"}
    /\ stop[c] # "none"
    /\ Wake(c, IF stop[c] = "timeout" THEN "timedOut" ELSE "cancelled", value, value)
    /\ LeaveDeque(c)
    /\ queued' = QueueAfterStop(c)
    /\ stop' = [stop EXCEPT ![c] = "none"]
    /\ UNCHANGED <<code, running>>

(* The waiter leaves without a token; one it had been granted goes to the  *)
(* next waiters.                                                           *)
GiveUp(c) ==
    LET v == IF pc[c] = "granted" THEN value + 1 ELSE value
    IN  /\ pc[c] \in Waiting
        /\ stop[c] # "none"
        /\ Wake(c, IF stop[c] = "timeout" THEN "timedOut" ELSE "cancelled", v, v)
        /\ LeaveDeque(c)
        /\ queued' = QueueAfterStop(c)
        /\ stop' = [stop EXCEPT ![c] = "none"]
        /\ UNCHANGED <<code, running>>

(* Mutant: release returns the token twice.                                *)
MReleaseTwice(c) ==
    /\ pc[c] = "holding"
    /\ Wake(c, "idle", value + 2, 2)
    /\ running' = running \ {code[c]}
    /\ UNCHANGED <<stop, code, ahead, queued>>

(***************************************************************************)
(* release(task_code), from the finally of task_scope: the body returned,  *)
(* raised or was cancelled.  A code that is not registered returns no      *)
(* token.                                                                  *)
(***************************************************************************)
Release(c) ==
    /\ pc[c] = "holding"
    /\ IF code[c] \in running
         THEN Wake(c, "idle", value + 1, 1)
         ELSE pc' = [pc EXCEPT ![c] = "idle"] /\ UNCHANGED value
    /\ running' = running \ {code[c]}
    /\ UNCHANGED <<stop, code, ahead, queued>>

Next ==
    \E c \in Client :
        \/ \E k \in TaskCode :
              SkipDuplicate(c, k) \/ AdmitAtOnce(c, k) \/ Enqueue(c, k)
        \/ TimerFires(c)
        \/ Cancel(c)
        \/ Resume(c)
        \/ GiveUp(c)
        \/ Release(c)

Spec == Init /\ [][Next]_vars

(***************************************************************************)
(* The event loop runs every ready task, and a task body ends: it has a    *)
(* deadline or finishes.  Nothing is assumed of timers and cancellations.  *)
(***************************************************************************)
Fairness ==
    \A c \in Client : WF_vars(Resume(c)) /\ WF_vars(GiveUp(c)) /\ WF_vars(Release(c))

FairSpec == Spec /\ Fairness

-----------------------------------------------------------------------------
(* Every variable has its type.                                            *)
TypeOK ==
    /\ pc \in [Client -> AtRest \cup Waiting \cup {"holding"}]
    /\ stop \in [Client -> {"none", "timeout", "cancel"}]
    /\ code \in [Client -> TaskCode]
    /\ ahead \in [Client -> SUBSET Client]
    /\ value \in Nat
    /\ running \in SUBSET TaskCode
    /\ queued \in [TaskCode -> Nat]

(* No token of heavy_sync is ever lost or made up, whatever the races      *)
(* between a grant, the wait_for timer, a cancellation and a release.      *)
TokenConservation ==
    value + Cardinality(Granted \cup Holders) = HeavyConcurrency

(* Two admitted tasks never have the same task code: the duplicate check   *)
(* keeps a task from running twice at the same time.                       *)
OneRunPerCode ==
    \A c, d \in Holders : code[c] = code[d] => c = d

(* The running registry that answers "is it a duplicate" holds exactly the *)
(* codes of the admitted tasks.                                            *)
RunningRegistry == running = {code[c] : c \in Holders}

(* A free token is never left while a client sleeps on the semaphore,      *)
(* unless a woken client is about to hand it on: no lost wake-up.          *)
NoLostWakeup ==
    value > 0 /\ Pending # {} => Granted # {}

(* Every waiting client still owns its queue slot.                         *)
QueueSlotHeld ==
    \A k \in TaskCode : queued[k] >= Cardinality(WaitersOf(k))

(* A task code is refused as a duplicate only while an instance of it runs *)
(* or waits.                                                               *)
RefusalJustified ==
    \A k \in TaskCode : IsDuplicate(k) =>
        \E c \in Holders \cup Waiters : code[c] = k

(* What keeps a task code exclusive when a code may queue only once: a code *)
(* that waits or runs belongs to one client, the waiter's slot makes every *)
(* other request a duplicate, and the registry names the holders.          *)
ExclusionInv ==
    /\ \A c, d \in Waiters \cup Holders : code[c] = code[d] => c = d
    /\ \A c \in Waiters : queued[code[c]] >= 1
    /\ RunningRegistry

(* A client that waits for the token stops waiting: it is admitted, or     *)
(* gives up.                                                               *)
WaitEnds == \A c \in Client : pc[c] \in Waiting ~> pc[c] \notin Waiting

(* The abstract promise: bodies of admitted tasks fill TaskSlots.          *)
Body == [c \in Client |-> IF pc[c] = "holding" THEN {code[c]} ELSE {}]

Slots == INSTANCE TaskSlots WITH body <- Body

ImplementsSlots == Slots!Spec

=============================================================================
