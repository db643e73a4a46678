-------------------------- MODULE MaintenanceJobs --------------------------
(***************************************************************************)
(* What the purge and cleanup jobs promise their user, without processes,  *)
(* locks, retries or crashes: a file is in one open job at most, a job is  *)
(* settled once, and its notice tells how it was settled.                  *)
(***************************************************************************)
CONSTANTS Job, Item

VARIABLES status, \* status[j]: none, open or how the job was settled
          items,  \* items[j]: the files of the job
          notice, \* notice[j]: the result the user's notice tells, or none
          sent    \* the jobs whose notice is recorded as sent

vars == <<status, items, notice, sent>>

Terminal == {"completed", "partial", "failed"}

Init ==
    /\ status = [j \in Job |-> "none"]
    /\ items = [j \in Job |-> {}]
    /\ notice = [j \in Job |-> "none"]
    /\ sent = {}

Accept(j, s) ==
    /\ status[j] = "none"
    /\ \A k \in Job : status[k] = "open" => items[k] \cap s = {}
    /\ status' = [status EXCEPT ![j] = "open"]
    /\ items' = [items EXCEPT ![j] = s]
    /\ UNCHANGED <<notice, sent>>

Settle(j, t) ==
    /\ status[j] = "open"
    /\ status' = [status EXCEPT ![j] = t]
    /\ UNCHANGED <<items, notice, sent>>

Tell(j) ==
    /\ status[j] \in Terminal
    /\ notice[j] = "none"
    /\ notice' = [notice EXCEPT ![j] = status[j]]
    /\ UNCHANGED <<status, items, sent>>

Confirm(j) ==
    /\ notice[j] # "none"
    /\ sent' = sent \cup {j}
    /\ UNCHANGED <<status, items, notice>>

Next ==
    \E j \in Job :
        \/ \E s \in SUBSET Item : Accept(j, s)
        \/ \E t \in Terminal : Settle(j, t)
        \/ Tell(j)
        \/ Confirm(j)

Spec == Init /\ [][Next]_vars
=============================================================================
