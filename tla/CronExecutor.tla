---------------------------- MODULE CronExecutor ----------------------------
(***************************************************************************)
(* The life of one scheduled task (CronTaskExecutor,                       *)
(* backend/app/tasks/cron_executor.py): the coroutines that run            *)
(* _execute_task for one task_id, the flag, handle and interrupt mark the  *)
(* executor keeps for it, its row in the database and its job in the       *)
(* scheduler, and the API calls that start, pause, interrupt, refresh and  *)
(* remove it.                                                              *)
(*                                                                         *)
(* Everything runs on one event loop: a step here is the code between two  *)
(* awaits.  A database write is a step of its own, and a coroutine that    *)
(* awaits it can be cancelled instead.                                     *)
(***************************************************************************)
EXTENDS Naturals, FiniteSets

CONSTANTS Run,          \* slots for _execute_task coroutines
          Request,      \* slots for pause and interrupt calls in progress
          NoRun,        \* no coroutine
          Interrupting, \* interrupt_task is called
          Overlapping   \* a call may arrive while an interrupt is in progress

ASSUME CronAssumption ==
    /\ NoRun \notin Run
    /\ Interrupting \in BOOLEAN
    /\ Overlapping \in BOOLEAN

VARIABLES
    running, \* running_tasks[task_id]
    handle,  \* running_task_handles[task_id]; NoRun when absent or done
    flagged, \* task_id \in interrupt_requested
    status,  \* task_status of the row: "busy" (1) or "free" (2)
    job,     \* the scheduler's job: "scheduled", "paused" or "absent"
    pc,      \* where each coroutine is
    origin,  \* what created it: "scheduler" or "manual"
    stopped, \* coroutines with an undelivered cancel()
    outcome, \* the outcome each coroutine has arrived at
    logged,  \* the outcome each coroutine has written to the task log
    struck,  \* history: coroutines an interrupt hit in their body
    call,    \* where each API call is
    target   \* the coroutine an interrupt waits for

vars == <<running, handle, flagged, status, job, pc, origin, stopped, outcome,
          logged, struck, call, target>>

runVars == <<pc, origin, stopped, outcome, logged, struck>>

DataOutcome == {"success", "failed", "skipped"}
Outcome     == DataOutcome \cup {"cancelled"}

Active == {"marking", "reading", "body", "logging", "freshening", "final"}

Live == {r \in Run : pc[r] \in Active}

Interrupts == {q \in Request : call[q] \in {"intStatus", "intResume", "intWait"}}

Init ==
    /\ running = FALSE
    /\ handle = NoRun
    /\ flagged = FALSE
    /\ status = "free"
    /\ job = "scheduled"
    /\ pc = [r \in Run |-> "over"]
    /\ origin = [r \in Run |-> "manual"]
    /\ stopped = {}
    /\ outcome = [r \in Run |-> "none"]
    /\ logged = [r \in Run |-> "none"]
    /\ struck = {}
    /\ call = [q \in Request |-> "idle"]
    /\ target = [q \in Request |-> NoRun]

-----------------------------------------------------------------------------
(* Creation.                                                               *)

(* A slot nobody looks at any more.                                        *)
Unused(r) == pc[r] = "over" /\ \A q \in Request : target[q] # r

Create(r, who) ==
    /\ Unused(r)
    /\ pc' = [pc EXCEPT ![r] = "created"]
    /\ origin' = [origin EXCEPT ![r] = who]
    /\ outcome' = [outcome EXCEPT ![r] = "none"]
    /\ logged' = [logged EXCEPT ![r] = "none"]
    /\ struck' = struck \ {r}
    /\ UNCHANGED <<running, handle, flagged, status, job, stopped, call, target>>

(* No call arrives during an interrupt, unless calls overlap.              *)
Quiet == Overlapping \/ Interrupts = {}

(* The scheduler fires the job: max_instances=1, coalesce=True.            *)
Trigger(r) ==
    /\ job = "scheduled"
    /\ \A s \in Run : pc[s] # "over" => origin[s] # "scheduler"
    /\ Create(r, "scheduler")

(* start_task_immediately of an enabled task.                              *)
StartNow(r) ==
    /\ Quiet
    /\ ~running
    /\ Create(r, "manual")

-----------------------------------------------------------------------------
(* _execute_task.                                                          *)

Becomes(r, next) == pc' = [pc EXCEPT ![r] = next]

(* Mutant: the check for a running instance is left out.                   *)
MEnterUnchecked(r) ==
    /\ pc[r] = "created"
    /\ running' = TRUE
    /\ handle' = r
    /\ Becomes(r, "marking")
    /\ UNCHANGED <<flagged, status, job, origin, stopped, outcome, logged,
                   struck, call, target>>

(* The first step: no await between the check and the flag.                *)
Enter(r) ==
    /\ pc[r] = "created"
    /\ IF running
         THEN /\ Becomes(r, "skipping")
              /\ UNCHANGED <<running, handle>>
         ELSE /\ running' = TRUE
              /\ handle' = r
              /\ Becomes(r, "marking")
    /\ UNCHANGED <<flagged, status, job, origin, stopped, outcome, logged,
                   struck, call, target>>

(* Mutant: a second execution waits for the first instead of skipping.     *)
MSkipWaits(r) ==
    /\ pc[r] = "skipping"
    /\ ~running
    /\ Becomes(r, "over")
    /\ UNCHANGED <<running, handle, flagged, status, job, origin, stopped,
                   outcome, logged, struck, call, target>>

(* _record_reentrant_skip: the log of an execution that did not run.       *)
Skip(r) ==
    /\ pc[r] = "skipping"
    /\ Becomes(r, "over")
    /\ logged' = [logged EXCEPT ![r] = "skipped"]
    /\ UNCHANGED <<running, handle, flagged, status, job, origin, stopped,
                   outcome, struck, call, target>>

(* _update_task_status(task_id, 1).                                        *)
Mark(r) ==
    /\ pc[r] = "marking"
    /\ r \notin stopped
    /\ status' = "busy"
    /\ Becomes(r, "reading")
    /\ UNCHANGED <<running, handle, flagged, job, origin, stopped, outcome,
                   logged, struck, call, target>>

(* The read session: the row may be gone, and then only finally is left.   *)
Read(r) ==
    /\ pc[r] = "reading"
    /\ r \notin stopped
    /\ \E next \in {"body", "final"} : Becomes(r, next)
    /\ UNCHANGED <<running, handle, flagged, status, job, origin, stopped,
                   outcome, logged, struck, call, target>>

(* _run_task_script returns or raises.                                     *)
BodyEnds(r) ==
    /\ pc[r] = "body"
    /\ r \notin stopped
    /\ \E o \in DataOutcome : outcome' = [outcome EXCEPT ![r] = o]
    /\ Becomes(r, "logging")
    /\ UNCHANGED <<running, handle, flagged, status, job, origin, stopped,
                   logged, struck, call, target>>

(* The closing session writes the log and then the freshness of the row.   *)
(* The database is assumed to accept the writes.                           *)
WriteLog(r) ==
    /\ pc[r] = "logging"
    /\ r \notin stopped
    /\ logged' = [logged EXCEPT ![r] = outcome[r]]
    /\ Becomes(r, "freshening")
    /\ UNCHANGED <<running, handle, flagged, status, job, origin, stopped,
                   outcome, struck, call, target>>

WriteFreshness(r) ==
    /\ pc[r] = "freshening"
    /\ r \notin stopped
    /\ Becomes(r, "final")
    /\ UNCHANGED <<running, handle, flagged, status, job, origin, stopped,
                   outcome, logged, struck, call, target>>

(* Mutants: finally keeps the flag; finally does not reset the row.        *)
MFinishKeepsFlag(r) ==
    /\ pc[r] = "final"
    /\ r \notin stopped
    /\ Becomes(r, "over")
    /\ status' = "free"
    /\ handle' = NoRun
    /\ flagged' = FALSE
    /\ UNCHANGED <<running, job, origin, stopped, outcome, logged, struck,
                   call, target>>

(* finally: the status write, then flag, handle and mark, whoever set them.*)
Finish(r) ==
    /\ pc[r] = "final"
    /\ r \notin stopped
    /\ Becomes(r, "over")
    /\ status' = "free"
    /\ running' = FALSE
    /\ handle' = NoRun
    /\ flagged' = FALSE
    /\ UNCHANGED <<job, origin, stopped, outcome, logged, struck, call, target>>

-----------------------------------------------------------------------------
(* A cancel() arrives at the await a coroutine sleeps on.                  *)

Delivered(r) == r \in stopped /\ stopped' = stopped \ {r}

(* Mutant: the interrupt of a body is passed on like any other cancel.     *)
MStopBodyPassesOn(r) ==
    /\ pc[r] = "body"
    /\ Delivered(r)
    /\ Becomes(r, "final")
    /\ UNCHANGED <<running, handle, flagged, status, job, origin, outcome,
                   logged, struck, call, target>>

(* In the body: an interrupt becomes the outcome "cancelled".              *)
StopBody(r) ==
    /\ pc[r] = "body"
    /\ Delivered(r)
    /\ IF flagged
         THEN /\ outcome' = [outcome EXCEPT ![r] = "cancelled"]
              /\ Becomes(r, "logging")
         ELSE /\ Becomes(r, "final")
              /\ UNCHANGED outcome
    /\ UNCHANGED <<running, handle, flagged, status, job, origin, logged,
                   struck, call, target>>

(* At a database call: finally is all that is left; the write that was     *)
(* under way may still reach the row.                                      *)
StopAtDatabase(r) ==
    /\ pc[r] \in {"marking", "reading", "logging", "freshening"}
    /\ Delivered(r)
    /\ Becomes(r, "final")
    /\ \/ UNCHANGED <<status, logged>>
       \/ /\ pc[r] = "marking"
          /\ status' = "busy"
          /\ UNCHANGED logged
       \/ /\ pc[r] = "logging"
          /\ logged' = [logged EXCEPT ![r] = outcome[r]]
          /\ UNCHANGED status
    /\ UNCHANGED <<running, handle, flagged, job, origin, outcome, struck,
                   call, target>>

(* In finally: the coroutine ends before it has cleared anything.  Its     *)
(* handle is done, which is all interrupt_task asks of it.                 *)
StopFinally(r) ==
    /\ pc[r] = "final"
    /\ Delivered(r)
    /\ Becomes(r, "over")
    /\ status' \in {status, "free"}
    /\ handle' = IF handle = r THEN NoRun ELSE handle
    /\ UNCHANGED <<running, flagged, job, origin, outcome, logged, struck,
                   call, target>>

-----------------------------------------------------------------------------
(* The API calls.                                                          *)

(* interrupt_task up to its await of the status write.                     *)
Interrupt(q) ==
    /\ Interrupting
    /\ Quiet
    /\ Overlapping \/ \A r \in Run : pc[r] # "created"
    /\ call[q] = "idle"
    /\ running' = FALSE
    /\ job' = "absent"
    /\ call' = [call EXCEPT ![q] = "intStatus"]
    /\ UNCHANGED <<handle, flagged, status, runVars, target>>

InterruptWrites(q) ==
    /\ call[q] = "intStatus"
    /\ status' = "free"
    /\ call' = [call EXCEPT ![q] = "intResume"]
    /\ UNCHANGED <<running, handle, flagged, job, runVars, target>>

(* Back from the write: cancel whatever instance is registered now.        *)
InterruptCancels(q) ==
    /\ call[q] = "intResume"
    /\ IF handle # NoRun
         THEN /\ flagged' = TRUE
              /\ stopped' = stopped \cup {handle}
              /\ struck' = IF pc[handle] = "body" THEN struck \cup {handle}
                                                  ELSE struck
              /\ call' = [call EXCEPT ![q] = "intWait"]
              /\ target' = [target EXCEPT ![q] = handle]
         ELSE /\ call' = [call EXCEPT ![q] = "idle"]
              /\ UNCHANGED <<flagged, stopped, struck, target>>
    /\ UNCHANGED <<running, handle, status, job, pc, origin, outcome, logged>>

(* Mutant: returns without waiting for the cancelled coroutine.            *)
MInterruptReturnsEarly(q) ==
    /\ call[q] = "intWait"
    /\ call' = [call EXCEPT ![q] = "idle"]
    /\ target' = [target EXCEPT ![q] = NoRun]
    /\ UNCHANGED <<running, handle, flagged, status, job, runVars>>

(* gather(handle) returns.                                                 *)
InterruptReturns(q) ==
    /\ call[q] = "intWait"
    /\ pc[target[q]] = "over"
    /\ call' = [call EXCEPT ![q] = "idle"]
    /\ target' = [target EXCEPT ![q] = NoRun]
    /\ UNCHANGED <<running, handle, flagged, status, job, runVars>>

(* pause_task: the job at once, the status write later.                    *)
Pause(q) ==
    /\ Quiet
    /\ call[q] = "idle"
    /\ job # "absent"
    /\ job' = "paused"
    /\ call' = [call EXCEPT ![q] = "pausing"]
    /\ UNCHANGED <<running, handle, flagged, status, runVars, target>>

PauseWrites(q) ==
    /\ call[q] = "pausing"
    /\ status' = "free"
    /\ call' = [call EXCEPT ![q] = "idle"]
    /\ UNCHANGED <<running, handle, flagged, job, runVars, target>>

(* resume_task, refresh_task (remove and add again) and                    *)
(* remove_task_from_scheduler.                                             *)
Resume ==
    /\ job = "paused"
    /\ job' = "scheduled"
    /\ UNCHANGED <<running, handle, flagged, status, runVars, call, target>>

Refresh ==
    /\ Quiet
    /\ job # "scheduled"
    /\ job' = "scheduled"
    /\ UNCHANGED <<running, handle, flagged, status, runVars, call, target>>

Remove ==
    /\ job # "absent"
    /\ job' = "absent"
    /\ UNCHANGED <<running, handle, flagged, status, runVars, call, target>>

(* Mutant: the start-up does not reset the rows.                           *)
MRestartKeepsStatus ==
    /\ running' = FALSE
    /\ handle' = NoRun
    /\ flagged' = FALSE
    /\ job' = "scheduled"
    /\ pc' = [r \in Run |-> "over"]
    /\ stopped' = {}
    /\ call' = [q \in Request |-> "idle"]
    /\ target' = [q \in Request |-> NoRun]
    /\ struck' = {}
    /\ UNCHANGED <<status, origin, outcome, logged>>

(* The process dies and starts again: update_cron_task_status resets the   *)
(* rows, load_all_tasks schedules every enabled task.                      *)
Restart ==
    /\ running' = FALSE
    /\ handle' = NoRun
    /\ flagged' = FALSE
    /\ status' = "free"
    /\ job' = "scheduled"
    /\ pc' = [r \in Run |-> "over"]
    /\ stopped' = {}
    /\ call' = [q \in Request |-> "idle"]
    /\ target' = [q \in Request |-> NoRun]
    /\ struck' = {}
    /\ UNCHANGED <<origin, outcome, logged>>

-----------------------------------------------------------------------------
RunStep(r) ==
    \/ Enter(r) \/ Skip(r) \/ Mark(r) \/ Read(r) \/ BodyEnds(r)
    \/ WriteLog(r) \/ WriteFreshness(r) \/ Finish(r)
    \/ StopBody(r) \/ StopAtDatabase(r) \/ StopFinally(r)

CallStep(q) ==
    InterruptWrites(q) \/ InterruptCancels(q) \/ InterruptReturns(q) \/ PauseWrites(q)

Next ==
    \/ \E r \in Run : Trigger(r) \/ StartNow(r) \/ RunStep(r)
    \/ \E q \in Request : Interrupt(q) \/ Pause(q) \/ CallStep(q)
    \/ Resume \/ Refresh \/ Remove \/ Restart

Spec == Init /\ [][Next]_vars

(* The event loop runs every coroutine that is ready, the database answers *)
(* and a task body ends.                                                   *)
FairSpec ==
    /\ Spec
    /\ \A r \in Run : WF_vars(RunStep(r))
    /\ \A q \in Request : WF_vars(CallStep(q))

-----------------------------------------------------------------------------
(* Every variable stays in its range, and only live coroutines and         *)
(* unfinished interrupts are referred to.                                  *)
TypeOK ==
    /\ running \in BOOLEAN
    /\ handle \in Run \cup {NoRun}
    /\ flagged \in BOOLEAN
    /\ status \in {"free", "busy"}
    /\ job \in {"scheduled", "paused", "absent"}
    /\ pc \in [Run -> Active \cup {"over", "created", "skipping"}]
    /\ origin \in [Run -> {"scheduler", "manual"}]
    /\ stopped \subseteq Run
    /\ outcome \in [Run -> Outcome \cup {"none"}]
    /\ logged \in [Run -> Outcome \cup {"none"}]
    /\ struck \subseteq Run
    /\ call \in [Request -> {"idle", "intStatus", "intResume", "intWait", "pausing"}]
    /\ target \in [Request -> Run \cup {NoRun}]
    /\ \A q \in Request : call[q] = "intWait" => target[q] \in Run

(* At most one coroutine is inside the execution of the task: the promise  *)
(* of the reentrancy check at the head of _execute_task, of                *)
(* max_instances=1 and of interrupt_task waiting for the end.              *)
NoOverlap == \A r, s \in Live : r = s

(* Outside interrupts the flag that start_task_immediately and             *)
(* _execute_task consult says whether an instance is live, and the handle  *)
(* an interrupt would cancel is that instance.                             *)
FlagAgrees ==
    Interrupts = {} => /\ running <=> Live # {}
                       /\ \A r \in Live : handle = r

(* With nothing running and no call in progress the task is free to run    *)
(* again: no execution leaves the flag set behind it.                      *)
LeftFree == Live = {} /\ Interrupts = {} => ~running

(* The row says "busy" only while an instance is live (finally, pause and  *)
(* the start-up all reset it), so that the task page never shows a dead    *)
(* run; an execution whose finally an interrupt has cut leaves its mark.   *)
BusyIsLive == status = "busy" => Live # {} \/ flagged

(* An execution whose body an interrupt cancelled leaves a log entry with  *)
(* outcome "cancelled", never a silent hole, by the time it is over.       *)
InterruptLogged ==
    \A r \in struck : pc[r] = "over" => logged[r] = "cancelled"

(* While an interrupt runs nobody gets in between: when it returns, no     *)
(* instance of before the interrupt is live.                               *)
ReturnsWhenStopped ==
    [][\A q \in Interrupts : call'[q] = "idle" => Live' = {}]_vars

(* Every coroutine ends, however it is cancelled, and every interrupt      *)
(* returns.                                                                *)
RunsEnd ==
    /\ \A r \in Run : pc[r] # "over" ~> pc[r] = "over"
    /\ \A q \in Request : call[q] # "idle" ~> call[q] = "idle"

=============================================================================
