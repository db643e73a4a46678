----------------------------- MODULE OrphanJobs -----------------------------
(***************************************************************************)
(* The persisted purge and cleanup jobs of the orphan files                *)
(* (orphan_purge_job_service.py): requests that submit them, the           *)
(* dispatcher that runs them one after the other, the notices of their     *)
(* results, and the recovery of a process that starts after another died.  *)
(*                                                                         *)
(* The rows (status, items, notice, sent) survive a crash, everything else *)
(* is in memory.  A shutdown cancels the coroutines at an await, which     *)
(* leaves the rows exactly as a crash at that point does: it is Crash.     *)
(***************************************************************************)
EXTENDS Naturals, Sequences, SequencesExt

CONSTANTS Request,    \* HTTP requests that may be under way together
          Item,       \* orphan ids or quarantine paths
          Result,     \* the terminal statuses of a body that returns
          MaxJobs,    \* bound: jobs, numbered in the order of created_at
          MaxBoots,   \* bound: starts of the process
          MaxFaults,  \* bound: database calls that raise
          WriteScope  \* settings.SYNC_DB_WRITE_SCOPE_ENABLED

ASSUME ParametersAssumption ==
    /\ Result \subseteq {"completed", "partial", "failed"}
    /\ MaxJobs \in Nat
    /\ MaxBoots \in Nat \ {0}
    /\ MaxFaults \in Nat
    /\ WriteScope \in BOOLEAN

Job == 1..MaxJobs
NoJob == 0
Active == {"pending", "running"}
Terminal == {"completed", "partial", "failed"}
Notifier == {"dispatcher", "recovery", "retry"}

VARIABLES
    status,   \* status[j]: orphan_purge_job.status, none before the insert
    items,    \* items[j]: orphan_ids_json or canonical_paths_json
    notice,   \* notice[j]: the result in the notification row, or none
    sent,     \* the jobs with a notification_sent_at
    request,  \* request[r]: pc, the items accepted and the job inserted
    queue,    \* the tasks of the dispatcher in the order of its serial lock
    pc,       \* where the task that holds the serial lock is
    outcome,  \* the terminal status that task is about to write
    note,     \* note[n]: a notify_job_result under way: pc, job, status read
    recovery, \* where recover_pending_jobs is
    listed,   \* the pending jobs it found
    unsent,   \* the jobs whose notices it has still to send
    boots,    \* starts so far
    faults,   \* failed database calls so far
    ran,      \* history: the jobs whose body has begun in this process
    stranded  \* history: the jobs a failed call left without a task

rows == <<status, items, notice, sent>>
dispatcher == <<queue, pc, outcome>>
recoverer == <<recovery, listed, unsent>>
history == <<boots, faults>>
vars == <<rows, request, dispatcher, note, recoverer, history, ran, stranded>>

NoRequest == [pc |-> "idle", items |-> {}, job |-> NoJob]
NoNote == [pc |-> "idle", job |-> NoJob, status |-> "none"]

Init ==
    /\ status = [j \in Job |-> "none"]
    /\ items = [j \in Job |-> {}]
    /\ notice = [j \in Job |-> "none"]
    /\ sent = {}
    /\ request = [r \in Request |-> NoRequest]
    /\ queue = <<>>
    /\ pc = "claim"
    /\ outcome = "none"
    /\ note = [n \in Notifier |-> NoNote]
    /\ recovery = "requeue"
    /\ listed = {}
    /\ unsent = {}
    /\ boots = 1
    /\ faults = 0
    /\ ran = {}
    /\ stranded = {}

-----------------------------------------------------------------------------
ActiveJobs == {j \in Job : status[j] \in Active}
(* Mutant: the files of pending jobs are not occupied.                     *)
MTakenRunningOnly == UNION {items[j] : j \in {k \in Job : status[k] = "running"}}

Taken == UNION {items[j] : j \in ActiveJobs}
Queued == ToSet(queue)
Submitting == {r \in Request : request[r].pc # "idle"}

(* db_write_scope is a semaphore of one whose waiters are served in turn.  *)
(* A request keeps it from its query to its refresh; the recovery has      *)
(* asked for it before the first request is served.                        *)
ScopeFree == WriteScope => Submitting = {} /\ recovery # "requeue"

Fault == faults < MaxFaults /\ faults' = faults + 1 /\ UNCHANGED boots

(* OrphanPurgeJobDispatcher.submit: one task per job, at the end of the    *)
(* queue.                                                                  *)
Appended(q, j) == IF j \in ToSet(q) THEN q ELSE Append(q, j)
-----------------------------------------------------------------------------
(* _create_submission under _job_submission_lock (MaxJobs bounds it).      *)
Ask(r) ==
    /\ \E j \in Job : status[j] = "none"
    /\ Submitting = {}
    /\ ScopeFree
    /\ \E wanted \in SUBSET Item \ {{}} :
        /\ wanted \ Taken # {}
        /\ request' = [request EXCEPT ![r] =
                         [pc |-> "asked", items |-> wanted \ Taken, job |-> NoJob]]
    /\ UNCHANGED <<rows, dispatcher, note, recoverer, history, ran, stranded>>

Insert(r) ==
    /\ request[r].pc = "asked"
    /\ \E j \in Job :
        /\ status[j] = "none"
        /\ \A k \in Job : k < j => status[k] # "none"
        /\ status' = [status EXCEPT ![j] = "pending"]
        /\ items' = [items EXCEPT ![j] = request[r].items]
        /\ request' = [request EXCEPT ![r].pc = "inserted", ![r].job = j]
    /\ UNCHANGED <<notice, sent, dispatcher, note, recoverer, history,
                   ran, stranded>>

(* After the refresh nothing is awaited until the job is submitted.        *)
Dispatch(r) ==
    /\ request[r].pc = "inserted"
    /\ queue' = Appended(queue, request[r].job)
    /\ request' = [request EXCEPT ![r] = NoRequest]
    /\ UNCHANGED <<rows, pc, outcome, note, recoverer, history, ran, stranded>>

(* Before the commit nothing has happened; if the refresh raises the job   *)
(* is there and nobody submits it.                                         *)
RequestFails(r) ==
    /\ request[r].pc # "idle"
    /\ Fault
    /\ stranded' = IF request[r].pc = "inserted"
                     THEN stranded \cup {request[r].job} ELSE stranded
    /\ request' = [request EXCEPT ![r] = NoRequest]
    /\ UNCHANGED <<rows, dispatcher, note, recoverer, ran>>
-----------------------------------------------------------------------------
(* execute_job of the task that holds the serial lock.                     *)
Current == Head(queue)

EndTask ==
    /\ queue' = Tail(queue)
    /\ pc' = "claim"
    /\ outcome' = "none"

(* Mutant: the claim without its condition on the status.                  *)
MClaimAnyStatus ==
    /\ queue # <<>> /\ pc = "claim"
    /\ ScopeFree
    /\ status' = [status EXCEPT ![Current] = "running"]
    /\ pc' = "load"
    /\ UNCHANGED <<items, notice, sent, request, queue, outcome, note,
                   recoverer, history, ran, stranded>>

Claim ==
    /\ queue # <<>> /\ pc = "claim"
    /\ ScopeFree
    /\ status[Current] = "pending"
    /\ status' = [status EXCEPT ![Current] = "running"]
    /\ pc' = "load"
    /\ UNCHANGED <<items, notice, sent, request, queue, outcome, note,
                   recoverer, history, ran, stranded>>

ClaimRefused ==
    /\ queue # <<>> /\ pc = "claim"
    /\ ScopeFree
    /\ status[Current] # "pending"
    /\ EndTask
    /\ UNCHANGED <<rows, request, note, recoverer, history, ran, stranded>>

(* claim_job or get_job raises: outside the try, the task is over.         *)
ClaimFails ==
    /\ queue # <<>> /\ pc \in {"claim", "load"}
    /\ Fault
    /\ stranded' = stranded \cup {Current}
    /\ EndTask
    /\ UNCHANGED <<rows, request, note, recoverer, ran>>

Begin ==
    /\ pc = "load"
    /\ pc' = "body"
    /\ ran' = ran \cup {Current}
    /\ UNCHANGED <<rows, request, queue, outcome, note, recoverer, history,
                   stranded>>

BodyReturns ==
    /\ pc = "body"
    /\ pc' = "finish"
    /\ outcome' \in Result
    /\ UNCHANGED <<rows, request, queue, note, recoverer, history, ran, stranded>>

(* Mutant: a body that raises takes its task with it.                      *)
MBodyRaisesEnds ==
    /\ pc = "body"
    /\ EndTask
    /\ UNCHANGED <<rows, request, note, recoverer, history, ran, stranded>>

(* The downloaders' store never comes, or the service raises: the except   *)
(* clause writes the result.                                               *)
BodyRaises ==
    /\ pc = "body"
    /\ pc' = "fail"
    /\ outcome' = "failed"
    /\ UNCHANGED <<rows, request, queue, note, recoverer, history, ran, stranded>>

Finish ==
    /\ pc \in {"finish", "fail"}
    /\ ScopeFree
    /\ status' = IF status[Current] = "running"
                   THEN [status EXCEPT ![Current] = outcome] ELSE status
    /\ pc' = "notify"
    /\ UNCHANGED <<items, notice, sent, request, queue, outcome, note,
                   recoverer, history, ran, stranded>>

(* A finish_job that raises in the try is followed by that of the except   *)
(* clause; one that raises there ends the task.                            *)
FinishFails ==
    /\ pc \in {"finish", "fail"}
    /\ Fault
    /\ IF pc = "finish"
         THEN /\ pc' = "fail"
              /\ outcome' = "failed"
              /\ UNCHANGED <<queue, stranded>>
         ELSE /\ EndTask
              /\ stranded' = stranded \cup {Current}
    /\ UNCHANGED <<rows, request, note, recoverer, ran>>
-----------------------------------------------------------------------------
(* Mutant: a notice without a look at the status.                          *)
MUnannouncedAnyStatus(j) == status[j] # "none" /\ j \notin sent

(* notify_job_result.  An insert that meets the unique dedupe_key returns  *)
(* the notification that is there.                                         *)
Unannounced(j) == status[j] \in Terminal /\ j \notin sent

NoteOn(j) == IF Unannounced(j)
               THEN [pc |-> "announce", job |-> j, status |-> status[j]]
               ELSE NoNote

Announce(n) ==
    /\ note[n].pc = "announce"
    /\ notice' = [notice EXCEPT ![note[n].job] =
                     IF @ = "none" THEN note[n].status ELSE @]
    /\ note' = [note EXCEPT ![n].pc = "mark"]
    /\ UNCHANGED <<status, items, sent, request, dispatcher, recoverer, history,
                   ran, stranded>>

MarkSent(n) ==
    /\ note[n].pc = "mark"
    /\ ScopeFree
    /\ sent' = sent \cup {note[n].job}
    /\ note' = [note EXCEPT ![n] = NoNote]
    /\ UNCHANGED <<status, items, notice, request, dispatcher, recoverer,
                   history, ran, stranded>>

(* _notify_safely and the retry task swallow what is raised.               *)
NoteFails(n) ==
    /\ note[n].pc # "idle"
    /\ Fault
    /\ note' = [note EXCEPT ![n] = NoNote]
    /\ UNCHANGED <<rows, request, dispatcher, recoverer, ran, stranded>>

NotifyResult ==
    /\ pc = "notify"
    /\ note' = [note EXCEPT !["dispatcher"] = NoteOn(Current)]
    /\ pc' = "notifying"
    /\ UNCHANGED <<rows, request, queue, outcome, recoverer, history, ran, stranded>>

TaskEnds ==
    /\ pc = "notifying"
    /\ note["dispatcher"].pc = "idle"
    /\ EndTask
    /\ UNCHANGED <<rows, request, note, recoverer, history, ran, stranded>>

(* orphan_notification_retry_task.                                         *)
RetryNotice(j) ==
    /\ note["retry"].pc = "idle"
    /\ Unannounced(j)
    /\ note' = [note EXCEPT !["retry"] = NoteOn(j)]
    /\ UNCHANGED <<rows, request, dispatcher, recoverer, history, ran, stranded>>

-----------------------------------------------------------------------------
(* Mutant: interrupted jobs left as they are.                              *)
MRequeueNothing ==
    /\ recovery = "requeue"
    /\ recovery' = "list"
    /\ UNCHANGED <<rows, request, dispatcher, note, listed, unsent, history, ran,
                   stranded>>

(* recover_pending_jobs, a task of its own beside the requests.            *)
Requeue ==
    /\ recovery = "requeue"
    /\ status' = [j \in Job |-> IF status[j] = "running" THEN "pending"
                                                          ELSE status[j]]
    /\ recovery' = "list"
    /\ UNCHANGED <<items, notice, sent, request, dispatcher, note, listed,
                   unsent, history, ran, stranded>>

ListJobs ==
    /\ recovery = "list"
    /\ listed' = {j \in Job : status[j] = "pending"}
    /\ unsent' = {j \in Job : Unannounced(j)}
    /\ recovery' = "notify"
    /\ UNCHANGED <<rows, request, dispatcher, note, history, ran, stranded>>

RecoveryFails ==
    /\ recovery \in {"requeue", "list"}
    /\ Fault
    /\ recovery' = "over"
    /\ stranded' = stranded \cup
         {j \in ActiveJobs \ Queued : \A r \in Request : request[r].job # j}
    /\ UNCHANGED <<rows, request, dispatcher, note, listed, unsent, ran>>

RecoveryNotice(j) ==
    /\ recovery = "notify"
    /\ j \in unsent
    /\ note["recovery"].pc = "idle"
    /\ note' = [note EXCEPT !["recovery"] = NoteOn(j)]
    /\ unsent' = unsent \ {j}
    /\ UNCHANGED <<rows, request, dispatcher, recovery, listed, history, ran, stranded>>

(* Nothing is awaited between these submissions; they are in the order of  *)
(* created_at.                                                             *)
Resubmit ==
    /\ recovery = "notify"
    /\ unsent = {}
    /\ note["recovery"].pc = "idle"
    /\ LET new == listed \ Queued IN
         \E s \in [1..Cardinality(new) -> new] :
           /\ ToSet(s) = new
           /\ \A i, k \in DOMAIN s : i < k => s[i] < s[k]
           /\ queue' = queue \o s
    /\ recovery' = "over"
    /\ listed' = {}
    /\ UNCHANGED <<rows, request, pc, outcome, note, unsent, history, ran, stranded>>

(* A crash or a shutdown at any point, and the next start.                 *)
Crash ==
    /\ boots < MaxBoots
    /\ boots' = boots + 1
    /\ request' = [r \in Request |-> NoRequest]
    /\ queue' = <<>>
    /\ pc' = "claim"
    /\ outcome' = "none"
    /\ note' = [n \in Notifier |-> NoNote]
    /\ recovery' = "requeue"
    /\ listed' = {}
    /\ unsent' = {}
    /\ ran' = {}
    /\ stranded' = {}
    /\ UNCHANGED <<rows, faults>>
-----------------------------------------------------------------------------
ExecuteJob ==
    \/ Claim \/ ClaimRefused \/ Begin \/ BodyReturns \/ BodyRaises
    \/ Finish \/ NotifyResult \/ TaskEnds

RequestStep(r) == Ask(r) \/ Insert(r) \/ Dispatch(r)
NoteStep(n) == Announce(n) \/ MarkSent(n)
RecoveryStep == Requeue \/ ListJobs \/ Resubmit \/ \E j \in Job : RecoveryNotice(j)

Failure ==
    \/ \E r \in Request : RequestFails(r)
    \/ \E n \in Notifier : NoteFails(n)
    \/ ClaimFails \/ FinishFails \/ RecoveryFails

Next ==
    \/ \E r \in Request : RequestStep(r)
    \/ ExecuteJob
    \/ \E n \in Notifier : NoteStep(n)
    \/ RecoveryStep
    \/ \E j \in Job : RetryNotice(j)
    \/ Failure
    \/ Crash

Spec == Init /\ [][Next]_vars

(* The event loop resumes every coroutine that can go on; a body ends (its *)
(* wait for the store has a deadline); the retry task is scheduled for     *)
(* good.  Nobody has to submit, to fail or to crash.                       *)
Fairness ==
    /\ \A r \in Request : WF_vars(Insert(r)) /\ WF_vars(Dispatch(r))
    /\ WF_vars(ExecuteJob)
    /\ WF_vars(RecoveryStep)
    /\ \A n \in Notifier : WF_vars(NoteStep(n))
    /\ \A j \in Job : WF_vars(RetryNotice(j))

FairSpec == Spec /\ Fairness
-----------------------------------------------------------------------------
RequestState == [pc : {"idle", "asked", "inserted"}, items : SUBSET Item,
                 job : Job \cup {NoJob}]
NoteState == [pc : {"idle", "announce", "mark"}, job : Job \cup {NoJob},
              status : {"none"} \cup Terminal]

(* Variables keep their types: rows, requests, tasks, notices, recovery.   *)
TypeOK ==
    /\ status \in [Job -> {"none"} \cup Active \cup Terminal]
    /\ items \in [Job -> SUBSET Item]
    /\ notice \in [Job -> {"none"} \cup Terminal]
    /\ sent \subseteq Job
    /\ request \in [Request -> RequestState]
    /\ queue \in Seq(Job)
    /\ pc \in {"claim", "load", "body", "finish", "fail", "notify", "notifying"}
    /\ outcome \in {"none"} \cup Terminal
    /\ note \in [Notifier -> NoteState]
    /\ recovery \in {"requeue", "list", "notify", "over"}
    /\ listed \subseteq Job /\ unsent \subseteq Job
    /\ boots \in 1..MaxBoots /\ faults \in 0..MaxFaults
    /\ ran \subseteq Job /\ stranded \subseteq Job

(* A file is in one pending or running job at most, whatever the requests, *)
(* the crashes and the recovery do between the query and the insert.       *)
OneJobPerItem ==
    \A j, k \in ActiveJobs : j # k => items[j] \cap items[k] = {}

(* The recovery and a request may both hand a job to the dispatcher, even  *)
(* after it has run: a process does not begin the body of a job twice.     *)
BodyOnce == [][pc = "load" /\ pc' = "body" => Current \notin ran]_vars

(* An open job always has somebody who will run it: its task, the request  *)
(* that has just inserted it or the recovery, unless a database call of    *)
(* this process failed on it (then it waits for the next start).           *)
Attended(j) ==
    \/ j \in Queued
    \/ \E r \in Request : request[r].job = j
    \/ recovery \in {"requeue", "list"}
    \/ j \in listed

ActiveAttended == \A j \in ActiveJobs : Attended(j) \/ j \in stranded

(* Every accepted job is settled, and a settled job is announced, unless   *)
(* failed calls left it without a task in the last process.                *)
JobsSettle ==
    \A j \in Job :
        /\ status[j] \in Active ~> status[j] \in Terminal \/ j \in stranded
        /\ status[j] \in Terminal ~> j \in sent

(* The jobs, seen without the machinery, do what MaintenanceJobs says: a   *)
(* result is final and its notice tells it, however often it is retried.   *)
Promise == INSTANCE MaintenanceJobs
             WITH status <- [j \in Job |-> IF status[j] \in Active THEN "open"
                                                                   ELSE status[j]]
ImplementsJobs == Promise!Spec
=============================================================================
