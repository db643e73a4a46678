----------------------------- MODULE TaskSlots -----------------------------
(***************************************************************************)
(* What admission promises to the heavy tasks, without queue, semaphore,   *)
(* timers or cancellation: a task body starts only when fewer than         *)
(* HeavyConcurrency bodies run and none of them has its task code.         *)
(***************************************************************************)
EXTENDS Naturals, FiniteSets

CONSTANTS Client, TaskCode, HeavyConcurrency

VARIABLE body    \* the task code each client is running, in a singleton, or {}

Running == {c \in Client : body[c] # {}}

Init == body = [c \in Client |-> {}]

Start(c, k) ==
    /\ body[c] = {}
    /\ Cardinality(Running) < HeavyConcurrency
    /\ \A d \in Client : k \notin body[d]
    /\ body' = [body EXCEPT ![c] = {k}]

Finish(c) ==
    /\ body[c] # {}
    /\ body' = [body EXCEPT ![c] = {}]

Next == \E c \in Client : Finish(c) \/ \E k \in TaskCode : Start(c, k)

Spec == Init /\ [][Next]_body
=============================================================================
