------------------------- MODULE CronExecutorProofs -------------------------
(***************************************************************************)
(* Proofs about CronExecutor, for every number of coroutines and of API    *)
(* calls.  The type invariant and BusyIsLive hold of every behaviour.      *)
(* Exclusion, the agreement of the flag, what an interrupt waits for and   *)
(* what it logs hold when interrupts run alone (Alone); two calls that     *)
(* overlap an interrupt can break each of these four.                      *)
(***************************************************************************)
EXTENDS CronExecutor, TLAPS

(* The variables of the executor keep their types.                         *)
THEOREM TypeCorrect == Spec => []TypeOK
<1> USE CronAssumption DEF CronAssumption, TypeOK, Active, Outcome, DataOutcome
<1>1. Init => TypeOK
  <2> SUFFICES ASSUME Init
               PROVE  TypeOK
    OBVIOUS
  <2>1. \A q \in Request : call[q] = "idle"
    BY DEF Init
  <2> QED
    BY <2>1 DEF Init
<1>2. TypeOK /\ [Next]_vars => TypeOK'
  <2> SUFFICES ASSUME TypeOK, [Next]_vars
               PROVE  TypeOK'
    OBVIOUS
  <2>1. ASSUME NEW r \in Run, Trigger(r) \/ StartNow(r)
        PROVE  TypeOK'
    BY <2>1 DEF Trigger, StartNow, Create
  <2>2. ASSUME NEW r \in Run, Enter(r) \/ Skip(r) \/ Mark(r) \/ Read(r)
        PROVE  TypeOK'
    <3>1. CASE Enter(r)
      BY <3>1 DEF Enter, Becomes
    <3>2. CASE Skip(r)
      BY <3>2 DEF Skip, Becomes
    <3>3. CASE Mark(r)
      BY <3>3 DEF Mark, Becomes
    <3>4. CASE Read(r)
      BY <3>4 DEF Read, Becomes
    <3> QED
      BY <2>2, <3>1, <3>2, <3>3, <3>4
  <2>3. ASSUME NEW r \in Run, BodyEnds(r) \/ WriteLog(r) \/ WriteFreshness(r) \/ Finish(r)
        PROVE  TypeOK'
    <3>1. CASE BodyEnds(r)
      BY <3>1 DEF BodyEnds, Becomes
    <3>2. CASE WriteLog(r)
      BY <3>2 DEF WriteLog, Becomes
    <3>3. CASE WriteFreshness(r) \/ Finish(r)
      BY <3>3 DEF WriteFreshness, Finish, Becomes
    <3> QED
      BY <2>3, <3>1, <3>2, <3>3
  <2>4. ASSUME NEW r \in Run, StopBody(r) \/ StopAtDatabase(r) \/ StopFinally(r)
        PROVE  TypeOK'
    <3>1. CASE StopBody(r)
      BY <3>1 DEF StopBody, Delivered, Becomes
    <3>2. CASE StopAtDatabase(r)
      BY <3>2 DEF StopAtDatabase, Delivered, Becomes
    <3>3. CASE StopFinally(r)
      BY <3>3 DEF StopFinally, Delivered, Becomes
    <3> QED
      BY <2>4, <3>1, <3>2, <3>3
  <2>5. ASSUME NEW q \in Request, Interrupt(q) \/ InterruptWrites(q)
        PROVE  TypeOK'
    BY <2>5 DEF Interrupt, InterruptWrites, runVars
  <2>6. ASSUME NEW q \in Request, InterruptCancels(q) \/ InterruptReturns(q)
        PROVE  TypeOK'
    <3>1. CASE InterruptCancels(q) /\ handle # NoRun
      <4>1. handle \in Run
        BY <3>1
      <4> QED
        BY <3>1, <4>1 DEF InterruptCancels
    <3>2. CASE InterruptCancels(q) /\ handle = NoRun
      BY <3>2 DEF InterruptCancels
    <3>3. CASE InterruptReturns(q)
      BY <3>3 DEF InterruptReturns, runVars
    <3> QED
      BY <2>6, <3>1, <3>2, <3>3
  <2>7. ASSUME NEW q \in Request, Pause(q) \/ PauseWrites(q)
        PROVE  TypeOK'
    BY <2>7 DEF Pause, PauseWrites, runVars
  <2>8. CASE Resume \/ Refresh \/ Remove
    BY <2>8 DEF Resume, Refresh, Remove, runVars
  <2>9. CASE Restart
    BY <2>9 DEF Restart
  <2>10. CASE UNCHANGED vars
    BY <2>10 DEF vars
  <2> QED
    BY <2>1, <2>2, <2>3, <2>4, <2>5, <2>6, <2>7, <2>8, <2>9, <2>10
       DEF Next, RunStep, CallStep
<1> QED
  BY <1>1, <1>2, PTL DEF Spec

-----------------------------------------------------------------------------
(* The row.  A live instance that nobody has cancelled answers for a       *)
(* "busy" row, or else an interrupt has left its mark: BusyIsLive alone    *)
(* would not survive the cancel that ends a coroutine in its finally.      *)
BusyIsHeld == status = "busy" => flagged \/ \E r \in Live : r \notin stopped

LEMMA BusyIsHeldStep ==
    TypeOK /\ BusyIsHeld /\ [Next]_vars => BusyIsHeld'
<1> SUFFICES ASSUME TypeOK, BusyIsHeld, [Next]_vars
             PROVE  BusyIsHeld'
  OBVIOUS
<1> USE DEF TypeOK, BusyIsHeld, Live, Active
<1>1. ASSUME NEW r \in Run, Trigger(r) \/ StartNow(r)
      PROVE  BusyIsHeld'
  BY <1>1 DEF Trigger, StartNow, Create, Unused
<1>2. ASSUME NEW r \in Run, Enter(r) \/ Skip(r)
      PROVE  BusyIsHeld'
  BY <1>2 DEF Enter, Skip, Becomes
<1>3. ASSUME NEW r \in Run, Mark(r) \/ Read(r) \/ BodyEnds(r) \/ WriteLog(r) \/ WriteFreshness(r)
      PROVE  BusyIsHeld'
  <2>1. /\ r \in Live' /\ r \notin stopped'
        /\ r \in Run
    BY <1>3 DEF Mark, Read, BodyEnds, WriteLog, WriteFreshness, Becomes
  <2> QED
    BY <2>1
<1>4. ASSUME NEW r \in Run, Finish(r)
      PROVE  BusyIsHeld'
  BY <1>4 DEF Finish
<1>5. ASSUME NEW r \in Run, StopBody(r) \/ StopAtDatabase(r)
      PROVE  BusyIsHeld'
  <2>1. r \in Live' /\ r \notin stopped'
    BY <1>5 DEF StopBody, StopAtDatabase, Delivered, Becomes
  <2> QED
    BY <2>1
<1>6. ASSUME NEW r \in Run, StopFinally(r)
      PROVE  BusyIsHeld'
  <2>1. \A s \in Run : s # r => pc'[s] = pc[s] /\ (s \in stopped' <=> s \in stopped)
    BY <1>6 DEF StopFinally, Delivered, Becomes
  <2>2. r \in stopped /\ flagged' = flagged /\ status' \in {status, "free"}
    BY <1>6 DEF StopFinally, Delivered
  <2> QED
    BY <2>1, <2>2
<1>7. ASSUME NEW q \in Request, Interrupt(q) \/ InterruptWrites(q) \/ InterruptReturns(q)
                                \/ Pause(q) \/ PauseWrites(q)
      PROVE  BusyIsHeld'
  BY <1>7 DEF Interrupt, InterruptWrites, InterruptReturns, Pause, PauseWrites, runVars
<1>8. ASSUME NEW q \in Request, InterruptCancels(q)
      PROVE  BusyIsHeld'
  BY <1>8 DEF InterruptCancels
<1>9. CASE Resume \/ Refresh \/ Remove
  BY <1>9 DEF Resume, Refresh, Remove, runVars
<1>10. CASE Restart
  BY <1>10 DEF Restart
<1>11. CASE UNCHANGED vars
  BY <1>11 DEF vars
<1> QED
  BY <1>1, <1>2, <1>3, <1>4, <1>5, <1>6, <1>7, <1>8, <1>9, <1>10, <1>11
     DEF Next, RunStep, CallStep

(* The task page never shows a dead run, also when calls and interrupts    *)
(* overlap.                                                                *)
THEOREM BusyRowIsLive == Spec => []BusyIsLive
<1>1. Init => BusyIsHeld
  BY DEF Init, BusyIsHeld
<1>2. BusyIsHeld => BusyIsLive
  BY DEF BusyIsHeld, BusyIsLive
<1> QED
  BY <1>1, <1>2, BusyIsHeldStep, TypeCorrect, PTL DEF Spec

-----------------------------------------------------------------------------
(* What nobody gets in between of.  The promises below are those of a task *)
(* whose interrupts run alone: no start, pause, refresh or other interrupt *)
(* arrives while one is in progress.  A task nobody interrupts is one.     *)
Alone == Interrupting => ~Overlapping

OneInterrupt == \A p, q \in Interrupts : p = q

(* An interrupt in progress has cleared the flag and removed the job, and  *)
(* no coroutine waits to enter: nothing new can become live.               *)
Disarmed ==
    Interrupts # {} =>
        /\ Interrupting
        /\ ~running
        /\ job = "absent"
        /\ \A r \in Run : pc[r] # "created"

(* The registered handle is the live instance, and outside interrupts the  *)
(* flag says whether there is one.                                         *)
Registered ==
    /\ \A r \in Live : handle = r
    /\ handle # NoRun => handle \in Live
    /\ Interrupts = {} => (running <=> Live # {})

Awaits(q, r) == call[q] = "intWait" /\ target[q] = r

(* Whoever has a cancel to come is live, and an interrupt awaits it.       *)
Stopping ==
    /\ \A r \in stopped : r \in Live /\ flagged /\ \E q \in Request : Awaits(q, r)
    /\ \A q \in Request : call[q] = "intWait" => \A r \in Live : target[q] = r

Calm == OneInterrupt /\ Disarmed /\ Registered /\ Stopping

LEMMA InterruptDisarms ==
  ASSUME Alone, TypeOK, Calm, NEW q \in Request, Interrupt(q)
  PROVE  Calm'
<1> USE DEF TypeOK, Calm, Live, Active
<1>1. /\ Interrupts = {} /\ Interrupts' = {q} /\ call'[q] = "intStatus"
      /\ \A p \in Request : p # q => call'[p] = call[p]
      /\ \A r \in Run : pc[r] # "created"
      /\ Interrupting /\ ~running' /\ job' = "absent"
      /\ UNCHANGED <<handle, flagged, pc, stopped, target>>
  BY DEF Alone, Interrupt, Quiet, Interrupts, runVars
<1>2. OneInterrupt' /\ Disarmed'
  BY <1>1 DEF OneInterrupt, Disarmed
<1>3. Registered'
  BY <1>1 DEF Registered
<1>4. Stopping'
  BY <1>1 DEF Stopping, Interrupts, Awaits
<1> QED
  BY <1>2, <1>3, <1>4

LEMMA CallsKeepCalm ==
  ASSUME Alone, TypeOK, Calm,
         NEW q \in Request, Pause(q) \/ PauseWrites(q) \/ InterruptWrites(q)
  PROVE  Calm'
<1> USE DEF TypeOK, Calm
<1>1. /\ Interrupts' = Interrupts
      /\ \A p \in Request : call'[p] = "intWait" <=> call[p] = "intWait"
      /\ Interrupts # {} => job' = job
      /\ UNCHANGED <<running, handle, flagged, pc, stopped, target>>
  BY DEF Alone, Pause, PauseWrites, InterruptWrites, Quiet, Interrupts, runVars, Disarmed
<1>2. OneInterrupt' /\ Disarmed'
  BY <1>1 DEF OneInterrupt, Disarmed
<1>3. Registered'
  BY <1>1 DEF Registered, Live
<1>4. Stopping'
  BY <1>1 DEF Stopping, Awaits, Live
<1> QED
  BY <1>2, <1>3, <1>4

LEMMA CancelKeepsCalm ==
  ASSUME CronAssumption, TypeOK, Calm, NEW q \in Request, InterruptCancels(q)
  PROVE  Calm'
<1> USE DEF TypeOK, Calm
<1>1. Interrupts = {q} /\ call[q] = "intResume"
  BY DEF InterruptCancels, Interrupts, OneInterrupt
<1>2. UNCHANGED <<running, handle, job, pc>> /\ Live' = Live
  BY DEF InterruptCancels, Live
<1>3. CASE handle = NoRun
  <2>1. Live = {}
    BY <1>3, CronAssumption DEF CronAssumption, Registered, Live
  <2>2. Interrupts' = {} /\ UNCHANGED <<flagged, stopped, target>>
    BY <1>1, <1>3 DEF InterruptCancels, Interrupts
  <2> QED
    BY <1>1, <1>2, <2>1, <2>2 DEF OneInterrupt, Disarmed, Registered, Stopping, Interrupts
<1>4. CASE handle # NoRun
  <2>1. /\ Interrupts' = {q} /\ call'[q] = "intWait" /\ target'[q] = handle
        /\ flagged' = TRUE /\ stopped' = stopped \cup {handle}
    BY <1>1, <1>4 DEF InterruptCancels, Interrupts
  <2>2. \A p \in Request : p # q => call'[p] # "intWait"
    BY <2>1 DEF Interrupts
  <2>3. OneInterrupt' /\ Disarmed'
    BY <1>1, <1>2, <2>1 DEF OneInterrupt, Disarmed
  <2>4. Registered'
    BY <1>1, <1>2, <2>1 DEF Registered
  <2>5. \A r \in stopped' : r \in Live /\ r = handle
    BY <1>4, <2>1 DEF Registered, Stopping
  <2>6. Stopping'
    BY <1>2, <2>1, <2>2, <2>5 DEF Stopping, Registered, Awaits
  <2> QED
    BY <2>3, <2>4, <2>6
<1> QED
  BY <1>3, <1>4

LEMMA ReturnKeepsCalm ==
  ASSUME TypeOK, Calm, NEW q \in Request, InterruptReturns(q)
  PROVE  Calm' /\ Live = {}
<1> USE DEF TypeOK, Calm
<1>1. Interrupts = {q} /\ Interrupts' = {}
  BY DEF InterruptReturns, Interrupts, OneInterrupt
<1>2. Live = {}
  BY DEF InterruptReturns, Stopping, Live, Active
<1>3. UNCHANGED <<running, handle, flagged, job, pc, stopped>> /\ Live' = Live
  BY DEF InterruptReturns, runVars, Live
<1> QED
  BY <1>1, <1>2, <1>3 DEF OneInterrupt, Disarmed, Registered, Stopping, Interrupts

LEMMA CreateKeepsCalm ==
  ASSUME Alone, TypeOK, Calm, NEW r \in Run, Trigger(r) \/ StartNow(r)
  PROVE  Calm'
<1> USE DEF TypeOK, Calm
<1>1. Interrupts = {}
  BY DEF Alone, Trigger, StartNow, Quiet, Disarmed
<1>2. /\ Live' = Live /\ Interrupts' = Interrupts
      /\ UNCHANGED <<running, handle, flagged, stopped, call, target>>
  BY DEF Trigger, StartNow, Create, Unused, Live, Active, Interrupts
<1> QED
  BY <1>1, <1>2 DEF OneInterrupt, Disarmed, Registered, Stopping, Awaits

LEMMA EnterKeepsCalm ==
  ASSUME CronAssumption, TypeOK, Calm, NEW r \in Run, Enter(r)
  PROVE  Calm'
<1> USE DEF TypeOK, Calm
<1>1. Interrupts = {} /\ Interrupts' = Interrupts
  BY DEF Enter, Disarmed, Interrupts
<1>2. UNCHANGED <<flagged, stopped, call, target>> /\ \A q \in Request : call[q] # "intWait"
  BY <1>1 DEF Enter, Interrupts
<1>3. CASE running
  BY <1>1, <1>2, <1>3 DEF Enter, Becomes, Live, Active, OneInterrupt, Disarmed, Registered,
                          Stopping, Awaits
<1>4. CASE ~running
  <2>1. Live = {} /\ stopped = {}
    BY <1>1, <1>4 DEF Registered, Stopping
  <2>2. Live' = {r} /\ handle' = r /\ running'
    BY <1>4, <2>1 DEF Enter, Becomes, Live, Active
  <2> QED
    BY <1>1, <1>2, <2>1, <2>2 DEF OneInterrupt, Disarmed, Registered, Stopping
<1> QED
  BY <1>3, <1>4

(* A step of a live coroutine that keeps it alive, with or without a       *)
(* cancel delivered, or of one that only logs that it was skipped.         *)
LEMMA RunKeepsCalm ==
  ASSUME TypeOK, Calm, NEW r \in Run,
         Skip(r) \/ Mark(r) \/ Read(r) \/ BodyEnds(r) \/ WriteLog(r) \/ WriteFreshness(r)
           \/ StopBody(r) \/ StopAtDatabase(r)
  PROVE  Calm' /\ Live' = Live
<1> USE DEF TypeOK, Calm
<1>1. /\ Live' = Live /\ Interrupts' = Interrupts /\ stopped' \subseteq stopped
      /\ \A s \in Run : pc'[s] = "created" => pc[s] = "created"
      /\ UNCHANGED <<running, handle, flagged, job, call, target>>
  <2>1. CASE Skip(r) \/ Mark(r) \/ Read(r)
    BY <2>1 DEF Skip, Mark, Read, Becomes, Live, Active, Interrupts
  <2>2. CASE BodyEnds(r) \/ WriteLog(r) \/ WriteFreshness(r)
    BY <2>2 DEF BodyEnds, WriteLog, WriteFreshness, Becomes, Live, Active, Interrupts
  <2>3. CASE StopBody(r)
    BY <2>3 DEF StopBody, Delivered, Becomes, Live, Active, Interrupts
  <2>4. CASE StopAtDatabase(r)
    BY <2>4 DEF StopAtDatabase, Delivered, Becomes, Live, Active, Interrupts
  <2> QED
    BY <2>1, <2>2, <2>3, <2>4
<1> QED
  BY <1>1 DEF OneInterrupt, Disarmed, Registered, Stopping, Awaits

(* The live instance ends, by itself or cut in its finally.                *)
LEMMA EndKeepsCalm ==
  ASSUME CronAssumption, TypeOK, Calm, NEW r \in Run, Finish(r) \/ StopFinally(r)
  PROVE  Calm' /\ Live' = {} /\ stopped' = {}
<1> USE DEF TypeOK, Calm
<1>1. Live = {r} /\ handle = r
  BY DEF Finish, StopFinally, Live, Active, Registered
<1>2. /\ Live' = {} /\ Interrupts' = Interrupts /\ handle' = NoRun
      /\ \A s \in Run : pc'[s] = "created" => pc[s] = "created"
      /\ UNCHANGED <<job, call, target>>
  <2>1. CASE Finish(r)
    BY <1>1, <2>1 DEF Finish, Becomes, Live, Active, Interrupts
  <2>2. CASE StopFinally(r)
    BY <1>1, <2>2 DEF StopFinally, Becomes, Live, Active, Interrupts
  <2> QED
    BY <2>1, <2>2
<1>3. stopped' = {}
  BY <1>1 DEF Finish, StopFinally, Delivered, Stopping
<1>4. Interrupts = {} => ~running'
  <2>1. CASE Finish(r)
    BY <2>1 DEF Finish
  <2>2. CASE StopFinally(r)
    BY <2>2 DEF StopFinally, Delivered, Stopping, Awaits, Interrupts
  <2> QED
    BY <2>1, <2>2
<1>5. Interrupts # {} => ~running'
  BY DEF Finish, StopFinally, Disarmed
<1> QED
  BY <1>2, <1>3, <1>4, <1>5 DEF OneInterrupt, Disarmed, Registered, Stopping

LEMMA JobsKeepCalm ==
  ASSUME Alone, TypeOK, Calm, Resume \/ Refresh \/ Remove
  PROVE  Calm'
<1> USE DEF TypeOK, Calm
<1>1. /\ UNCHANGED <<running, handle, flagged, pc, stopped, call, target>>
      /\ Interrupts # {} => job' = "absent"
      /\ Live' = Live /\ Interrupts' = Interrupts
  BY DEF Alone, Resume, Refresh, Remove, Quiet, Disarmed, runVars, Live, Interrupts
<1> QED
  BY <1>1 DEF OneInterrupt, Disarmed, Registered, Stopping, Awaits

LEMMA RestartIsCalm ==
  ASSUME CronAssumption, Restart
  PROVE  Calm' /\ Live' = {}
<1>1. Live' = {} /\ Interrupts' = {} /\ \A q \in Request : call'[q] = "idle"
  BY DEF Restart, Live, Active, Interrupts
<1> QED
  BY <1>1 DEF Restart, Calm, OneInterrupt, Disarmed, Registered, Stopping

LEMMA CalmStep ==
  ASSUME CronAssumption, Alone
  PROVE  TypeOK /\ Calm /\ [Next]_vars => Calm'
<1> SUFFICES ASSUME TypeOK, Calm, [Next]_vars
             PROVE  Calm'
  OBVIOUS
<1>1. ASSUME NEW r \in Run, Trigger(r) \/ StartNow(r)
      PROVE  Calm'
  BY <1>1, CreateKeepsCalm, Alone
<1>2. ASSUME NEW r \in Run, RunStep(r)
      PROVE  Calm'
  BY <1>2, EnterKeepsCalm, RunKeepsCalm, EndKeepsCalm, CronAssumption DEF RunStep
<1>3. ASSUME NEW q \in Request, Interrupt(q) \/ Pause(q) \/ CallStep(q)
      PROVE  Calm'
  BY <1>3, InterruptDisarms, CallsKeepCalm, CancelKeepsCalm, ReturnKeepsCalm, Alone,
     CronAssumption DEF CallStep
<1>4. CASE Resume \/ Refresh \/ Remove \/ Restart
  BY <1>4, JobsKeepCalm, RestartIsCalm, Alone, CronAssumption
<1>5. CASE UNCHANGED vars
  BY <1>5 DEF vars, Calm, OneInterrupt, Disarmed, Registered, Stopping, Awaits, Live, Interrupts
<1> QED
  BY <1>1, <1>2, <1>3, <1>4, <1>5 DEF Next

LEMMA StaysCalm ==
  ASSUME Alone
  PROVE  Spec => []Calm
<1>1. Init => Calm
  BY CronAssumption DEF CronAssumption, Init, Calm, OneInterrupt, Disarmed, Registered, Stopping,
     Live, Active, Interrupts
<1>2. TypeOK /\ Calm /\ [Next]_vars => Calm'
  BY CalmStep, CronAssumption, Alone
<1> QED
  BY <1>1, <1>2, TypeCorrect, PTL DEF Spec

-----------------------------------------------------------------------------
(* A task never runs twice at once, however the scheduler's triggers,      *)
(* manual starts, refreshes, restarts and its interrupts meet, as long as  *)
(* an interrupt runs alone.                                                *)
THEOREM OneInstance ==
  ASSUME Alone
  PROVE  Spec => []NoOverlap
<1>1. Calm => NoOverlap
  BY DEF Calm, Registered, NoOverlap
<1> QED
  BY <1>1, StaysCalm, Alone, PTL

(* Nor is the flag or the handle ever left behind, also after an           *)
(* interrupt.                                                              *)
THEOREM FlagIsRight ==
  ASSUME Alone
  PROVE  Spec => [](FlagAgrees /\ LeftFree)
<1>1. Calm => FlagAgrees /\ LeftFree
  BY DEF Calm, Registered, FlagAgrees, LeftFree
<1> QED
  BY <1>1, StaysCalm, Alone, PTL

(* An interrupt returns only when no instance is live, whatever instance   *)
(* was registered when its status write came back.                         *)
THEOREM InterruptWaits ==
  ASSUME Alone
  PROVE  Spec => ReturnsWhenStopped
<1>1. TypeOK /\ Calm /\ [Next]_vars
        => [\A q \in Interrupts : call'[q] = "idle" => Live' = {}]_vars
  <2> SUFFICES ASSUME TypeOK, Calm, Next, NEW q \in Interrupts, call'[q] = "idle"
               PROVE  Live' = {}
    BY DEF vars
  <2>1. q \in Request /\ call[q] # "idle"
    BY DEF Interrupts
  <2>2. ASSUME NEW p \in Request, InterruptCancels(p)
        PROVE  Live' = {}
    <3>1. p = q
      BY <2>1, <2>2 DEF InterruptCancels, TypeOK
    <3>2. handle = NoRun
      BY <2>2, <3>1 DEF InterruptCancels, TypeOK
    <3> QED
      BY <2>2, <3>2, CronAssumption DEF CronAssumption, InterruptCancels, Calm, Registered, Live
  <2>3. ASSUME NEW p \in Request, InterruptReturns(p)
        PROVE  Live' = {}
    BY <2>3, ReturnKeepsCalm DEF InterruptReturns, runVars, Live
  <2>4. ASSUME NEW p \in Request, Interrupt(p) \/ Pause(p) \/ InterruptWrites(p) \/ PauseWrites(p)
        PROVE  FALSE
    BY <2>1, <2>4 DEF Interrupt, Pause, InterruptWrites, PauseWrites, TypeOK, Interrupts
  <2>5. ASSUME NEW r \in Run, Trigger(r) \/ StartNow(r) \/ RunStep(r)
        PROVE  FALSE
    <3>1. UNCHANGED call
      BY <2>5 DEF Trigger, StartNow, Create, RunStep, Enter, Skip, Mark, Read, BodyEnds, WriteLog,
                  WriteFreshness, Finish, StopBody, StopAtDatabase, StopFinally
    <3> QED
      BY <2>1, <3>1
  <2>6. CASE Resume \/ Refresh \/ Remove
    BY <2>1, <2>6 DEF Resume, Refresh, Remove
  <2>7. CASE Restart
    BY <2>7, RestartIsCalm, CronAssumption
  <2> QED
    BY <2>2, <2>3, <2>4, <2>5, <2>6, <2>7 DEF Next, CallStep
<1> QED
  BY <1>1, StaysCalm, Alone, TypeCorrect, PTL DEF Spec, ReturnsWhenStopped

-----------------------------------------------------------------------------
(* How far a coroutine whose body was cancelled has come: the cancel is    *)
(* under way, or has become the outcome it is about to log, or is logged.  *)
(* Until it is over the interrupt waits, so no second cancel can fall on   *)
(* the log write.                                                          *)
CutShort ==
    \A r \in struck :
        /\ \/ pc[r] = "body" /\ r \in stopped
           \/ pc[r] = "logging" /\ r \notin stopped /\ outcome[r] = "cancelled"
           \/ /\ pc[r] \in {"freshening", "final", "over"}
              /\ r \notin stopped
              /\ logged[r] = "cancelled"
        /\ pc[r] # "over" => \E q \in Request : Awaits(q, r)

LEMMA CutShortStep ==
  ASSUME CronAssumption, TypeOK, Calm, CutShort, [Next]_vars
  PROVE  CutShort'
<1> USE DEF TypeOK, CutShort
<1>1. ASSUME NEW r \in Run, Trigger(r) \/ StartNow(r)
      PROVE  CutShort'
  BY <1>1 DEF Trigger, StartNow, Create, Unused, Awaits
<1>2. ASSUME NEW r \in Run, Enter(r) \/ Skip(r) \/ Mark(r) \/ Read(r)
      PROVE  CutShort'
  <2>1. CASE pc[r] = "over" \/ r \notin struck
    BY <1>2, <2>1 DEF Enter, Skip, Mark, Read, Becomes, Awaits
  <2>2. CASE r \in struck
    BY <1>2, <2>2 DEF Enter, Skip, Mark, Read
  <2> QED
    BY <2>1, <2>2
<1>3. ASSUME NEW r \in Run, BodyEnds(r)
      PROVE  CutShort'
  <2>1. r \notin struck
    BY <1>3 DEF BodyEnds
  <2> QED
    BY <1>3, <2>1 DEF BodyEnds, Becomes, Awaits
<1>4. ASSUME NEW r \in Run, WriteLog(r) \/ WriteFreshness(r) \/ Finish(r)
      PROVE  CutShort'
  BY <1>4 DEF WriteLog, WriteFreshness, Finish, Becomes, Awaits
<1>5. ASSUME NEW r \in Run, StopBody(r)
      PROVE  CutShort'
  <2>1. flagged
    BY <1>5 DEF StopBody, Delivered, Calm, Stopping
  <2> QED
    BY <1>5, <2>1 DEF StopBody, Delivered, Becomes, Awaits
<1>6. ASSUME NEW r \in Run, StopAtDatabase(r) \/ StopFinally(r)
      PROVE  CutShort'
  <2>1. r \notin struck
    BY <1>6 DEF StopAtDatabase, StopFinally, Delivered
  <2>2. /\ \A s \in Run : s # r => /\ pc'[s] = pc[s] /\ logged'[s] = logged[s]
                                   /\ s \in stopped' <=> s \in stopped
        /\ UNCHANGED <<outcome, struck, call, target>>
    BY <1>6 DEF StopAtDatabase, StopFinally, Delivered, Becomes
  <2> QED
    BY <2>1, <2>2 DEF Awaits
<1>7. ASSUME NEW q \in Request, InterruptCancels(q)
      PROVE  CutShort'
  <2>1. \A p \in Request : call[p] # "intWait"
    BY <1>7 DEF InterruptCancels, Calm, OneInterrupt, Interrupts
  <2>2. \A r \in struck : pc[r] = "over"
    BY <2>1 DEF Awaits
  <2>3. CASE handle = NoRun
    BY <1>7, <2>2, <2>3 DEF InterruptCancels
  <2>4. CASE handle # NoRun
    <3>1. handle \in Run /\ pc[handle] # "over"
      BY <2>4 DEF Calm, Registered, Live, Active
    <3>2. Awaits(q, handle)'
      BY <1>7, <2>4 DEF InterruptCancels, Awaits
    <3> QED
      BY <1>7, <2>2, <2>4, <3>1, <3>2 DEF InterruptCancels
  <2> QED
    BY <2>3, <2>4
<1>8. ASSUME NEW q \in Request, InterruptReturns(q)
      PROVE  CutShort'
  <2>1. \A r \in struck : pc[r] = "over"
    BY <1>8, ReturnKeepsCalm DEF Live, Active
  <2> QED
    BY <1>8, <2>1 DEF InterruptReturns, runVars
<1>9. ASSUME NEW q \in Request, Interrupt(q) \/ InterruptWrites(q) \/ Pause(q) \/ PauseWrites(q)
      PROVE  CutShort'
  <2>1. /\ \A p \in Request : call[p] = "intWait" => call'[p] = "intWait"
        /\ UNCHANGED <<pc, stopped, outcome, logged, struck, target>>
    BY <1>9 DEF Interrupt, InterruptWrites, Pause, PauseWrites, runVars
  <2> QED
    BY <2>1 DEF Awaits
<1>10. CASE Resume \/ Refresh \/ Remove
  BY <1>10 DEF Resume, Refresh, Remove, runVars, Awaits
<1>11. CASE Restart
  BY <1>11 DEF Restart
<1>12. CASE UNCHANGED vars
  BY <1>12 DEF vars, Awaits
<1> QED
  BY <1>1, <1>2, <1>3, <1>4, <1>5, <1>6, <1>7, <1>8, <1>9, <1>10, <1>11, <1>12
     DEF Next, RunStep, CallStep

(* The body an interrupt cancels is logged as "cancelled" before the       *)
(* coroutine is over: the history of the task has no hole.                 *)
THEOREM CancelledIsLogged ==
  ASSUME Alone
  PROVE  Spec => []InterruptLogged
<1>1. Init => CutShort
  BY DEF Init, CutShort
<1>2. TypeOK /\ Calm /\ CutShort /\ [Next]_vars => CutShort'
  BY CutShortStep, CronAssumption
<1>3. TypeOK /\ CutShort => InterruptLogged
  BY DEF TypeOK, CutShort, InterruptLogged
<1> QED
  BY <1>1, <1>2, <1>3, TypeCorrect, StaysCalm, Alone, PTL DEF Spec

=============================================================================
