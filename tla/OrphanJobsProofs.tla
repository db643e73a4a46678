-------------------------- MODULE OrphanJobsProofs --------------------------
(***************************************************************************)
(* Proofs about OrphanJobs, for any requests and files and any number of   *)
(* jobs, crashes and failed database calls.                                *)
(***************************************************************************)
EXTENDS OrphanJobs, FiniteSetTheorems, TLAPS

LEMMA JobFacts == Job \subseteq Nat /\ NoJob \notin Job /\ IsFiniteSet(Job)
<1>1. MaxJobs \in Nat
  BY ParametersAssumption
<1>2. IsFiniteSet(1..MaxJobs)
  BY <1>1, FS_Interval
<1> QED
  BY <1>1, <1>2 DEF Job, NoJob

LEMMA RequestFacts ==
    /\ NoRequest \in RequestState /\ NoRequest.pc = "idle" /\ NoRequest.job = NoJob
    /\ \A q \in RequestState :
         /\ q.pc \in {"idle", "asked", "inserted"}
         /\ q.items \subseteq Item /\ q.job \in Job \cup {NoJob}
  BY DEF NoRequest, RequestState

LEMMA NoteFacts ==
    /\ NoNote \in NoteState /\ NoNote.pc = "idle"
    /\ \A m \in NoteState :
         /\ m.pc \in {"idle", "announce", "mark"}
         /\ m.job \in Job \cup {NoJob} /\ m.status \in {"none"} \cup Terminal
         /\ [m EXCEPT !.pc = "mark"] \in NoteState
  BY DEF NoNote, NoteState

LEMMA NoteOnType ==
    ASSUME TypeOK, NEW j \in Job
    PROVE  NoteOn(j) \in NoteState
<1>1. CASE Unannounced(j)
  BY <1>1 DEF Unannounced, NoteOn, NoteState
<1>2. CASE ~Unannounced(j)
  BY <1>2, NoteFacts DEF NoteOn
<1> QED
  BY <1>1, <1>2

(* Taking the first task off the queue, putting one at its end.            *)
LEMMA QueueFacts ==
    ASSUME NEW q \in Seq(Job)
    PROVE  /\ q # <<>> => Head(q) \in Job /\ Head(q) \in ToSet(q) /\ Tail(q) \in Seq(Job)
           /\ q # <<>> => \A j \in ToSet(q) : j = Head(q) \/ j \in ToSet(Tail(q))
           /\ \A j \in ToSet(q) : j \in Job
           /\ ToSet(<<>>) = {}
<1>1. \A j : j \in ToSet(q) <=> \E i \in 1..Len(q) : q[i] = j
  BY DEF ToSet
<1>2. ASSUME q # <<>>
      PROVE  /\ Head(q) \in Job /\ Tail(q) \in Seq(Job) /\ Head(q) = q[1] /\ Len(q) >= 1
             /\ Len(Tail(q)) = Len(q) - 1
             /\ \A i \in 1..(Len(q) - 1) : Tail(q)[i] = q[i + 1]
  BY <1>2
<1>3. ASSUME q # <<>>, NEW j \in ToSet(q), j # Head(q)
      PROVE  j \in ToSet(Tail(q))
  <2>1. PICK i \in 1..Len(q) : q[i] = j
    BY <1>1
  <2>2. i - 1 \in 1..Len(Tail(q)) /\ Tail(q)[i - 1] = j
    BY <2>1, <1>2, <1>3
  <2>3. QED
    <3> DEFINE t == Tail(q)
    <3>1. t \in Seq(Job) /\ i - 1 \in 1..Len(t) /\ t[i - 1] = j
      BY <2>2, <1>2, <1>3
    <3> HIDE DEF t
    <3>2. j \in ToSet(t)
      BY <3>1 DEF ToSet
    <3> QED
      BY <3>2 DEF t
<1>4. q # <<>> => Head(q) \in ToSet(q)
  BY <1>1, <1>2
<1>5. \A j \in ToSet(q) : j \in Job
  BY <1>1
<1>6. ToSet(<<>>) = {}
  BY DEF ToSet
<1> QED
  BY <1>2, <1>3, <1>4, <1>5, <1>6

LEMMA AppendFacts ==
    ASSUME NEW q \in Seq(Job), NEW j \in Job
    PROVE  /\ Appended(q, j) \in Seq(Job)
           /\ ToSet(Appended(q, j)) = ToSet(q) \cup {j}
           /\ q # <<>> => Head(Appended(q, j)) = Head(q) /\ Appended(q, j) # <<>>
<1>1. CASE j \in ToSet(q)
  BY <1>1 DEF Appended
<1>2. CASE j \notin ToSet(q)
  <2> DEFINE p == Append(q, j)
  <2>1. /\ p \in Seq(Job) /\ Len(p) = Len(q) + 1 /\ p[Len(q) + 1] = j
        /\ \A i \in 1..Len(q) : p[i] = q[i]
    OBVIOUS
  <2>2. ToSet(p) = ToSet(q) \cup {j}
    <3>1. ToSet(p) = {p[i] : i \in 1..Len(p)} /\ ToSet(q) = {q[i] : i \in 1..Len(q)}
      BY DEF ToSet
    <3>2. Len(q) \in Nat
      OBVIOUS
    <3> HIDE DEF p
    <3>3. 1..Len(p) = 1..Len(q) \cup {Len(q) + 1}
      BY <2>1, <3>2
    <3> QED
      BY <2>1, <3>1, <3>3
  <2>3. q # <<>> => Head(p) = Head(q) /\ p # <<>>
    OBVIOUS
  <2> QED
    BY <1>2, <2>1, <2>2, <2>3 DEF Appended
<1> QED
  BY <1>1, <1>2

LEMMA ConcatFacts ==
    ASSUME NEW q \in Seq(Job), NEW s \in Seq(Job)
    PROVE  /\ q \o s \in Seq(Job)
           /\ ToSet(q \o s) = ToSet(q) \cup ToSet(s)
           /\ q # <<>> => Head(q \o s) = Head(q) /\ q \o s # <<>>
<1> DEFINE p == q \o s
<1>1. /\ p \in Seq(Job) /\ Len(p) = Len(q) + Len(s)
      /\ \A i \in 1..Len(q) : p[i] = q[i]
      /\ \A i \in 1..Len(s) : p[Len(q) + i] = s[i]
      /\ Len(q) \in Nat /\ Len(s) \in Nat
  OBVIOUS
<1>2. q # <<>> => Head(p) = Head(q) /\ p # <<>>
  OBVIOUS
<1>3. /\ ToSet(p) = {p[i] : i \in 1..Len(p)} /\ ToSet(q) = {q[i] : i \in 1..Len(q)}
      /\ ToSet(s) = {s[i] : i \in 1..Len(s)}
  BY DEF ToSet
<1> HIDE DEF p
<1>4. ASSUME NEW j \in ToSet(p) PROVE j \in ToSet(q) \cup ToSet(s)
  <2>1. PICK i \in 1..Len(p) : j = p[i]
    BY <1>3
  <2>2. CASE i <= Len(q)
    BY <2>1, <2>2, <1>1, <1>3
  <2>3. CASE ~(i <= Len(q))
    <3>1. i - Len(q) \in 1..Len(s) /\ i = Len(q) + (i - Len(q))
      BY <2>1, <2>3, <1>1
    <3> QED
      BY <3>1, <2>1, <1>1, <1>3
  <2> QED
    BY <2>2, <2>3
<1>5. ToSet(q) \subseteq ToSet(p)
  BY <1>1, <1>3
<1>6. ASSUME NEW j \in ToSet(s) PROVE j \in ToSet(p)
  <2>1. PICK i \in 1..Len(s) : j = s[i]
    BY <1>3
  <2>2. Len(q) + i \in 1..Len(p) /\ p[Len(q) + i] = j
    BY <2>1, <1>1
  <2> QED
    BY <2>2, <1>3
<1> QED
  BY <1>1, <1>2, <1>4, <1>5, <1>6 DEF p

(* The end of a task takes the first element off the queue.                *)
LEMMA EndTaskType ==
    ASSUME TypeOK, queue # <<>>, EndTask
    PROVE  queue' \in Seq(Job) /\ pc' = "claim" /\ outcome' = "none" /\ Current \in Job
  BY QueueFacts DEF TypeOK, EndTask, Current

LEMMA ResubmitFacts ==
    ASSUME TypeOK, Resubmit
    PROVE  /\ queue' \in Seq(Job)
           /\ ToSet(queue') = Queued \cup listed
           /\ queue # <<>> => Head(queue') = Head(queue) /\ queue' # <<>>
<1> DEFINE new == listed \ Queued
<1>1. new \subseteq Job /\ IsFiniteSet(new)
  BY JobFacts, FS_Subset DEF TypeOK
<1>2. Cardinality(new) \in Nat
  BY <1>1, FS_CardinalityType
<1>3. PICK s \in [1..Cardinality(new) -> new] : ToSet(s) = new /\ queue' = queue \o s
  BY DEF Resubmit
<1>4. s \in Seq(Job)
  <2> DEFINE n == Cardinality(new)
  <2> HIDE DEF n
  <2>1. n \in Nat /\ s \in [1..n -> new]
    BY <1>2, <1>3 DEF n
  <2>2. s \in [1..n -> Job]
    BY <2>1, <1>1
  <2> QED
    BY <2>1, <2>2
<1>5. queue \in Seq(Job)
  BY DEF TypeOK
<1> HIDE DEF new
<1>6. ToSet(queue') = Queued \cup new
  BY <1>3, <1>4, <1>5, ConcatFacts DEF Queued
<1>7. Queued \cup new = Queued \cup listed
  BY DEF new
<1> QED
  BY <1>3, <1>4, <1>5, <1>6, <1>7, ConcatFacts

(* A task that is past its claim is on the queue; only a request that has  *)
(* inserted a job names one.                                               *)
Placed ==
    /\ pc # "claim" => queue # <<>>
    /\ pc \in {"finish", "fail"} => outcome \in Terminal
    /\ \A r \in Request : request[r].pc # "inserted" => request[r].job = NoJob
    /\ \A r \in Request : request[r].pc = "inserted" => request[r].job \in Job
    /\ \A n \in Notifier : note[n].pc # "idle" => note[n].job \in Job

TInv == TypeOK /\ Placed

LEMMA TInit == Init => TInv
<1> SUFFICES ASSUME Init PROVE TInv
  OBVIOUS
<1>1. queue \in Seq(Job) /\ boots \in 1..MaxBoots /\ faults \in 0..MaxFaults
  BY ParametersAssumption DEF Init, ParametersAssumption
<1>2. request \in [Request -> RequestState] /\ note \in [Notifier -> NoteState]
  BY RequestFacts, NoteFacts DEF Init
<1>3. TypeOK
  BY <1>1, <1>2 DEF Init, TypeOK, Active, Terminal
<1>4. Placed
  BY RequestFacts, NoteFacts DEF Init, Placed
<1> QED
  BY <1>3, <1>4 DEF TInv

LEMMA FaultType == ASSUME TypeOK, Fault
                   PROVE  faults' \in 0..MaxFaults /\ boots' = boots
  BY ParametersAssumption DEF TypeOK, Fault, ParametersAssumption

LEMMA TStep == TInv /\ [Next]_vars => TInv'
<1> SUFFICES ASSUME TypeOK, Placed, [Next]_vars PROVE TypeOK' /\ Placed'
  BY DEF TInv
<1> USE DEF Active, Terminal
<1>0. CASE UNCHANGED vars
  BY <1>0 DEF vars, rows, dispatcher, recoverer, history, TypeOK, Placed
<1>1. ASSUME NEW r \in Request, Ask(r)
      PROVE  TypeOK' /\ Placed'
  <2>1. PICK wanted \in SUBSET Item :
          request' = [request EXCEPT ![r] =
                        [pc |-> "asked", items |-> wanted \ Taken, job |-> NoJob]]
    BY <1>1 DEF Ask
  <2>2. [pc |-> "asked", items |-> wanted \ Taken, job |-> NoJob] \in RequestState
    BY DEF RequestState
  <2> QED
    BY <1>1, <2>1, <2>2 DEF Ask, rows, dispatcher, recoverer, history, TypeOK, Placed
<1>2. ASSUME NEW r \in Request, Insert(r)
      PROVE  TypeOK' /\ Placed'
  <2>1. PICK j \in Job :
          /\ status' = [status EXCEPT ![j] = "pending"]
          /\ items' = [items EXCEPT ![j] = request[r].items]
          /\ request' = [request EXCEPT ![r].pc = "inserted", ![r].job = j]
    BY <1>2 DEF Insert
  <2>2. request[r] \in RequestState
    BY DEF TypeOK
  <2>3. [request[r] EXCEPT !.pc = "inserted", !.job = j] \in RequestState
    BY <2>2 DEF RequestState
  <2>4. request' \in [Request -> RequestState]
    BY <2>1, <2>3 DEF TypeOK
  <2>5. \A q \in Request : q # r => request'[q] = request[q]
    BY <2>1 DEF TypeOK
  <2>6. request'[r].pc = "inserted" /\ request'[r].job = j
    BY <2>1, <2>2 DEF TypeOK, RequestState
  <2>7. items' \in [Job -> SUBSET Item] /\ status' \in [Job -> {"none"} \cup Active \cup Terminal]
    BY <2>1, <2>2, RequestFacts DEF TypeOK
  <2> QED
    BY <1>2, <2>4, <2>5, <2>6, <2>7
    DEF Insert, dispatcher, recoverer, history, TypeOK, Placed
<1>3. ASSUME NEW r \in Request, Dispatch(r)
      PROVE  TypeOK' /\ Placed'
  <2>1. queue' \in Seq(Job) /\ (queue # <<>> => queue' # <<>>)
    BY <1>3, AppendFacts DEF Dispatch, TypeOK, Placed
  <2> QED
    BY <1>3, <2>1, RequestFacts DEF Dispatch, rows, recoverer, history, TypeOK, Placed
<1>4. ASSUME NEW r \in Request, RequestFails(r)
      PROVE  TypeOK' /\ Placed'
  BY <1>4, FaultType, RequestFacts
  DEF RequestFails, rows, dispatcher, recoverer, TypeOK, Placed
<1>5. CASE Claim
  BY <1>5, QueueFacts DEF Claim, Current, recoverer, history, TypeOK, Placed
<1>6. CASE ClaimRefused
  BY <1>6, EndTaskType DEF ClaimRefused, rows, recoverer, history, TypeOK, Placed
<1>7. CASE ClaimFails
  BY <1>7, EndTaskType, FaultType DEF ClaimFails, rows, recoverer, TypeOK, Placed
<1>8. CASE Begin
  BY <1>8, QueueFacts DEF Begin, Current, rows, recoverer, history, TypeOK, Placed
<1>9. CASE BodyReturns
  BY <1>9, ParametersAssumption
  DEF BodyReturns, rows, recoverer, history, TypeOK, Placed, ParametersAssumption
<1>10. CASE BodyRaises
  BY <1>10 DEF BodyRaises, rows, recoverer, history, TypeOK, Placed
<1>11. CASE Finish
  <2>1. queue # <<>>
    BY <1>11 DEF Finish, Placed
  <2>2. status' \in [Job -> {"none"} \cup Active \cup Terminal]
    BY <1>11 DEF Finish, TypeOK
  <2> QED
    BY <1>11, <2>1, <2>2 DEF Finish, recoverer, history, TypeOK, Placed
<1>12. CASE FinishFails
  <2>1. queue # <<>>
    BY <1>12 DEF FinishFails, Placed
  <2>2. CASE pc = "finish"
    BY <1>12, <2>1, <2>2, FaultType DEF FinishFails, rows, recoverer, TypeOK, Placed
  <2>3. CASE pc = "fail"
    BY <1>12, <2>1, <2>3, EndTaskType, FaultType
    DEF FinishFails, rows, recoverer, TypeOK, Placed
  <2> QED
    BY <1>12, <2>2, <2>3 DEF FinishFails
<1>13. CASE NotifyResult
  <2>1. queue # <<>> /\ Current \in Job
    BY <1>13, QueueFacts DEF NotifyResult, Current, TypeOK, Placed
  <2>2. NoteOn(Current) \in NoteState /\ (NoteOn(Current).pc # "idle" => NoteOn(Current).job \in Job)
    BY <2>1, NoteOnType, NoteFacts DEF NoteOn
  <2> QED
    BY <1>13, <2>1, <2>2 DEF NotifyResult, rows, recoverer, history, TypeOK, Placed
<1>14. CASE TaskEnds
  <2>1. queue # <<>>
    BY <1>14 DEF TaskEnds, Placed
  <2> QED
    BY <1>14, <2>1, EndTaskType DEF TaskEnds, rows, recoverer, history, TypeOK, Placed
<1>15. ASSUME NEW n \in Notifier, Announce(n)
       PROVE  TypeOK' /\ Placed'
  <2>1. note[n] \in NoteState
    BY DEF TypeOK
  <2>2. note' \in [Notifier -> NoteState]
    BY <1>15, <2>1, NoteFacts DEF Announce, TypeOK
  <2>3. \A m \in Notifier : note'[m].job = note[m].job /\ (note'[m].pc # "idle" => note[m].pc # "idle")
    BY <1>15, <2>1 DEF Announce, TypeOK, NoteState
  <2>4. notice' \in [Job -> {"none"} \cup Terminal]
    BY <1>15, <2>1, NoteFacts DEF Announce, TypeOK
  <2> QED
    BY <1>15, <2>2, <2>3, <2>4 DEF Announce, dispatcher, recoverer, history, TypeOK, Placed
<1>16. ASSUME NEW n \in Notifier, MarkSent(n)
       PROVE  TypeOK' /\ Placed'
  <2>1. note[n].job \in Job
    BY <1>16 DEF MarkSent, Placed
  <2> QED
    BY <1>16, <2>1, NoteFacts DEF MarkSent, dispatcher, recoverer, history, TypeOK, Placed
<1>17. ASSUME NEW n \in Notifier, NoteFails(n)
       PROVE  TypeOK' /\ Placed'
  BY <1>17, NoteFacts, FaultType DEF NoteFails, rows, dispatcher, recoverer, TypeOK, Placed
<1>18. ASSUME NEW j \in Job, RetryNotice(j)
       PROVE  TypeOK' /\ Placed'
  <2>1. NoteOn(j) \in NoteState /\ (NoteOn(j).pc # "idle" => NoteOn(j).job \in Job)
    BY NoteOnType, NoteFacts DEF NoteOn
  <2> QED
    BY <1>18, <2>1 DEF RetryNotice, rows, dispatcher, recoverer, history, TypeOK, Placed
<1>19. CASE Requeue
  BY <1>19 DEF Requeue, dispatcher, history, TypeOK, Placed
<1>20. CASE ListJobs
  BY <1>20 DEF ListJobs, rows, dispatcher, history, TypeOK, Placed
<1>21. CASE RecoveryFails
  BY <1>21, FaultType DEF RecoveryFails, ActiveJobs, rows, dispatcher, TypeOK, Placed
<1>22. ASSUME NEW j \in Job, RecoveryNotice(j)
       PROVE  TypeOK' /\ Placed'
  <2>1. NoteOn(j) \in NoteState /\ (NoteOn(j).pc # "idle" => NoteOn(j).job \in Job)
    BY NoteOnType, NoteFacts DEF NoteOn
  <2> QED
    BY <1>22, <2>1 DEF RecoveryNotice, rows, dispatcher, history, TypeOK, Placed
<1>23. CASE Resubmit
  BY <1>23, ResubmitFacts DEF Resubmit, rows, history, TypeOK, Placed
<1>24. CASE Crash
  <2>1. boots' \in 1..MaxBoots /\ queue' \in Seq(Job)
    BY <1>24, ParametersAssumption DEF Crash, TypeOK, ParametersAssumption
  <2> QED
    BY <1>24, <2>1, RequestFacts, NoteFacts DEF Crash, rows, TypeOK, Placed
<1> QED
  BY <1>0, <1>1, <1>2, <1>3, <1>4, <1>5, <1>6, <1>7, <1>8, <1>9, <1>10, <1>11, <1>12,
     <1>13, <1>14, <1>15, <1>16, <1>17, <1>18, <1>19, <1>20, <1>21, <1>22, <1>23, <1>24
  DEF Next, RequestStep, ExecuteJob, NoteStep, RecoveryStep, Failure

(* The rows, requests, tasks and notices of the jobs keep their types.     *)
THEOREM TypeCorrect == Spec => []TypeOK
<1>1. Spec => []TInv
  BY TInit, TStep, PTL DEF Spec
<1> QED
  BY <1>1, PTL DEF TInv

-----------------------------------------------------------------------------
(* Submission: one request at a time between its query and its insert, and *)
(* until then no open job takes a file it has found free.                  *)
Mutex ==
    \A r, q \in Request : request[r].pc # "idle" /\ request[q].pc # "idle" => r = q

Reserved ==
    \A r \in Request : request[r].pc = "asked" =>
      \A j \in ActiveJobs : items[j] \cap request[r].items = {}

SInv == Mutex /\ Reserved /\ OneJobPerItem

(* Rows: a step that neither submits nor changes a row of an open job      *)
(* leaves the submissions as they are.                                     *)
LEMMA SKeep ==
    ASSUME SInv, items' = items, ActiveJobs' \subseteq ActiveJobs,
           \A r \in Request : request'[r] = request[r] \/ request'[r] = NoRequest
    PROVE  SInv'
<1>1. \A r \in Request : request'[r].pc # "idle" => request'[r] = request[r]
  BY RequestFacts
<1>2. Mutex'
  BY <1>1 DEF SInv, Mutex
<1>3. Reserved'
  <2> SUFFICES ASSUME NEW r \in Request, request'[r].pc = "asked", NEW j \in ActiveJobs'
               PROVE  items'[j] \cap request'[r].items = {}
    BY DEF Reserved
  <2>1. request'[r] = request[r] /\ j \in ActiveJobs
    BY <1>1
  <2> QED
    BY <2>1 DEF SInv, Reserved
<1>4. OneJobPerItem'
  BY DEF SInv, OneJobPerItem
<1> QED
  BY <1>2, <1>3, <1>4 DEF SInv

LEMMA SStep == TInv /\ SInv /\ [Next]_vars => SInv'
<1> SUFFICES ASSUME TypeOK, Placed, SInv, [Next]_vars PROVE SInv'
  BY DEF TInv
<1>1. ASSUME NEW r \in Request, Ask(r)
      PROVE  SInv'
  <2>1. PICK wanted \in SUBSET Item :
          request' = [request EXCEPT ![r] =
                        [pc |-> "asked", items |-> wanted \ Taken, job |-> NoJob]]
    BY <1>1 DEF Ask
  <2>2. \A q \in Request : request[q].pc = "idle"
    BY <1>1 DEF Ask, Submitting
  <2>3. /\ \A q \in Request : q # r => request'[q].pc = "idle"
        /\ request'[r].items = wanted \ Taken
    BY <2>1, <2>2 DEF TypeOK
  <2>4. ActiveJobs' = ActiveJobs /\ items' = items
    BY <1>1 DEF Ask, rows, ActiveJobs
  <2>5. \A j \in ActiveJobs : items[j] \cap (wanted \ Taken) = {}
    BY DEF Taken
  <2>6. Mutex'
    BY <2>3 DEF Mutex
  <2>7. Reserved'
    <3> SUFFICES ASSUME NEW q \in Request, request'[q].pc = "asked", NEW j \in ActiveJobs'
                 PROVE  items'[j] \cap request'[q].items = {}
      BY DEF Reserved
    <3> QED
      BY <2>3, <2>4, <2>5
  <2> QED
    BY <2>4, <2>6, <2>7 DEF SInv, OneJobPerItem
<1>2. ASSUME NEW r \in Request, Insert(r)
      PROVE  SInv'
  <2>1. PICK j \in Job :
          /\ status[j] = "none"
          /\ status' = [status EXCEPT ![j] = "pending"]
          /\ items' = [items EXCEPT ![j] = request[r].items]
          /\ request' = [request EXCEPT ![r].pc = "inserted", ![r].job = j]
    BY <1>2 DEF Insert
  <2>2. request[r].pc = "asked"
    BY <1>2 DEF Insert
  <2>3. \A q \in Request : q # r => request'[q] = request[q] /\ request[q].pc = "idle"
    BY <2>1, <2>2 DEF TypeOK, SInv, Mutex
  <2>4. request'[r].pc = "inserted"
    BY <2>1 DEF TypeOK, RequestState
  <2>5. \A k \in ActiveJobs' : k = j \/ (k # j /\ k \in ActiveJobs /\ items'[k] = items[k])
    BY <2>1 DEF TypeOK, ActiveJobs
  <2>6. items'[j] = request[r].items
    BY <2>1 DEF TypeOK
  <2>7. Mutex' /\ Reserved'
    BY <2>3, <2>4 DEF Mutex, Reserved
  <2>8. OneJobPerItem'
    <3> SUFFICES ASSUME NEW k \in ActiveJobs', NEW l \in ActiveJobs', k # l
                 PROVE  items'[k] \cap items'[l] = {}
      BY DEF OneJobPerItem
    <3>1. CASE k # j /\ l # j
      BY <3>1, <2>5 DEF SInv, OneJobPerItem
    <3>2. CASE k = j
      BY <3>2, <2>5, <2>6, <2>2 DEF SInv, Reserved
    <3>3. CASE l = j
      BY <3>3, <2>5, <2>6, <2>2 DEF SInv, Reserved
    <3> QED
      BY <3>1, <3>2, <3>3
  <2> QED
    BY <2>7, <2>8 DEF SInv
<1>3. ASSUME ~(\E r \in Request : Ask(r) \/ Insert(r))
      PROVE  SInv'
  <2> USE DEF ActiveJobs, Active, Terminal
  <2>1. CASE UNCHANGED vars
    BY <2>1, SKeep DEF vars, rows
  <2>2. ASSUME NEW r \in Request, Dispatch(r) \/ RequestFails(r)
        PROVE  SInv'
    <3>1. status' = status /\ items' = items /\ request' = [request EXCEPT ![r] = NoRequest]
      BY <2>2 DEF Dispatch, RequestFails, rows
    <3>2. \A q \in Request : request'[q] = request[q] \/ request'[q] = NoRequest
      BY <3>1 DEF TypeOK
    <3> QED
      BY <3>1, <3>2, SKeep
  <2>3. CASE Claim
    BY <2>3, SKeep DEF Claim, TypeOK
  <2>4. CASE ClaimRefused \/ ClaimFails \/ Begin \/ BodyReturns \/ BodyRaises
             \/ FinishFails \/ NotifyResult \/ TaskEnds
    BY <2>4, SKeep DEF ClaimRefused, ClaimFails, Begin, BodyReturns, BodyRaises,
                       FinishFails, NotifyResult, TaskEnds, rows
  <2>5. CASE Finish
    <3>1. \/ status' = status
          \/ status' = [status EXCEPT ![Current] = outcome] /\ status[Current] = "running"
      BY <2>5 DEF Finish
    <3> HIDE DEF ActiveJobs, Active, Terminal
    <3>2. DOMAIN status = Job
      BY DEF TypeOK
    <3>3. \A j \in Job : status'[j] = status[j] \/ status[j] = "running"
      BY <3>1, <3>2
    <3>4. ActiveJobs' \subseteq ActiveJobs
      BY <3>3 DEF ActiveJobs, Active
    <3> QED
      BY <2>5, <3>4, SKeep DEF Finish
  <2>6. ASSUME NEW n \in Notifier, Announce(n) \/ MarkSent(n) \/ NoteFails(n)
        PROVE  SInv'
    BY <2>6, SKeep DEF Announce, MarkSent, NoteFails, rows
  <2>7. ASSUME NEW j \in Job, RetryNotice(j) \/ RecoveryNotice(j)
        PROVE  SInv'
    BY <2>7, SKeep DEF RetryNotice, RecoveryNotice, rows
  <2>8. CASE Requeue
    BY <2>8, SKeep DEF Requeue
  <2>9. CASE ListJobs \/ RecoveryFails \/ Resubmit
    BY <2>9, SKeep DEF ListJobs, RecoveryFails, Resubmit, rows
  <2>10. CASE Crash
    <3>1. status' = status /\ items' = items /\ \A q \in Request : request'[q] = NoRequest
      BY <2>10 DEF Crash, rows
    <3> QED
      BY <3>1, SKeep
  <2> QED
    BY <1>3, <2>1, <2>2, <2>3, <2>4, <2>5, <2>6, <2>7, <2>8, <2>9, <2>10
    DEF Next, RequestStep, ExecuteJob, NoteStep, RecoveryStep, Failure
<1> QED
  BY <1>1, <1>2, <1>3

LEMMA SInit == Init => SInv
  BY RequestFacts DEF Init, SInv, Mutex, Reserved, OneJobPerItem, ActiveJobs, Active

(* A file is in one pending or running job at most, for any number of      *)
(* requests, crashes and failed calls, with or without the write scope.    *)
THEOREM ItemExclusion == Spec => []OneJobPerItem
<1>1. Spec => [](TInv /\ SInv)
  BY TInit, TStep, SInit, SStep, PTL DEF Spec
<1> QED
  BY <1>1, PTL DEF SInv

-----------------------------------------------------------------------------
(* The task at the serial lock, seen with the status of its job, with the  *)
(* recovery first in the line for the write scope.                         *)
Held == {"load", "body", "finish", "fail"}
Over == {"notify", "notifying"}

RecoveryFirst ==
    recovery = "requeue" => /\ pc = "claim" /\ queue = <<>> /\ ran = {}
                            /\ \A r \in Request : request[r].pc = "idle"

HeldRunning == pc \in Held => status[Current] = "running"
OverSettled == pc \in Over => status[Current] \in Terminal
Unbegun == pc = "load" => Current \notin ran
RanOnward == \A j \in ran : status[j] \notin {"none", "pending"}

RunningHeld ==
    \A j \in Job : status[j] = "running" =>
      recovery = "requeue" \/ j \in stranded \/ (pc \in Held /\ j = Current)

DInv == /\ RecoveryFirst /\ HeldRunning /\ OverSettled /\ Unbegun /\ RanOnward
        /\ RunningHeld /\ ActiveAttended

(* A notice under way tells the final status of its job.                   *)
NInv ==
    \A n \in Notifier : note[n].pc # "idle" =>
      /\ note[n].job \in Job /\ note[n].status \in Terminal
      /\ status[note[n].job] = note[n].status
      /\ note[n].pc = "mark" => notice[note[n].job] # "none"

LEMMA DInit == Init => DInv
  BY RequestFacts DEF Init, DInv, RecoveryFirst, HeldRunning, OverSettled, Unbegun,
     RanOnward, RunningHeld, ActiveAttended, Attended, Held, Over, ActiveJobs, Active

(* A step that changes neither rows nor tasks.                             *)
LEMMA DKeep ==
    ASSUME DInv, UNCHANGED <<status, queue, pc, ran>>, stranded \subseteq stranded',
           recovery' = recovery, listed' = listed, request' = request
    PROVE  DInv'
  BY DEF DInv, RecoveryFirst, HeldRunning, OverSettled, Unbegun, RanOnward, RunningHeld,
     ActiveAttended, Attended, ActiveJobs, Current, Queued

(* A task that ends: its job is settled, or stranded.                      *)
LEMMA DEnd ==
    ASSUME TypeOK, DInv, queue # <<>>, EndTask, UNCHANGED <<status, ran, recovery, listed, request>>,
           stranded \subseteq stranded', Current \in ActiveJobs => Current \in stranded'
    PROVE  DInv'
<1>1. recovery # "requeue"
  BY DEF DInv, RecoveryFirst
<1>2. pc' = "claim" /\ pc' \notin Held /\ pc' \notin Over
  BY DEF EndTask, Held, Over
<1>3. \A j \in Queued : j = Current \/ j \in Queued'
  BY QueueFacts DEF EndTask, Current, Queued, TypeOK
<1>4. RecoveryFirst' /\ HeldRunning' /\ OverSettled' /\ Unbegun' /\ RanOnward'
  BY <1>1, <1>2 DEF DInv, RecoveryFirst, HeldRunning, OverSettled, Unbegun, RanOnward
<1>5. RunningHeld'
  BY <1>1 DEF DInv, RunningHeld, ActiveJobs, Active
<1>6. ActiveAttended'
  BY <1>3 DEF DInv, ActiveAttended, Attended, ActiveJobs
<1> QED
  BY <1>4, <1>5, <1>6 DEF DInv

LEMMA Stages ==
    /\ Held \cap Over = {} /\ "claim" \notin Held \cup Over
    /\ "load" \in Held /\ "body" \in Held /\ "finish" \in Held /\ "fail" \in Held
    /\ "notify" \in Over /\ "notifying" \in Over
    /\ Active \cap Terminal = {} /\ "running" \in Active /\ "pending" \in Active
    /\ "none" \notin Active \cup Terminal
  BY DEF Held, Over, Active, Terminal

LEMMA DStep == WriteScope /\ TInv /\ DInv /\ [Next]_vars => DInv'
<1> SUFFICES ASSUME WriteScope, TypeOK, Placed, DInv, [Next]_vars PROVE DInv'
  BY DEF TInv
<1> DEFINE Parts == /\ RecoveryFirst /\ HeldRunning /\ OverSettled /\ Unbegun /\ RanOnward
                    /\ RunningHeld /\ ActiveAttended
<1>p. Parts
  BY DEF DInv
<1>q. queue \in Seq(Job) /\ (queue # <<>> => Current \in Job /\ Current \in Queued)
  BY QueueFacts DEF TypeOK, Current, Queued
<1>s. ScopeFree <=> Submitting = {} /\ recovery # "requeue"
  BY DEF ScopeFree
<1>1. ASSUME NEW r \in Request, Ask(r)
      PROVE  DInv'
  <2>1. /\ recovery # "requeue" /\ UNCHANGED <<status, queue, pc, ran, stranded, recovery, listed>>
        /\ \A q \in Request : request[q].pc = "idle"
    BY <1>1, <1>s DEF Ask, rows, dispatcher, recoverer, Submitting
  <2>2. \A q \in Request : request[q].job = NoJob
    BY <2>1 DEF Placed
  <2>3. ActiveAttended'
    BY <1>p, <2>1, <2>2, JobFacts DEF ActiveAttended, Attended, ActiveJobs, Queued
  <2> QED
    BY <1>p, <2>1, <2>3
    DEF DInv, RecoveryFirst, HeldRunning, OverSettled, Unbegun, RanOnward, RunningHeld, Current
<1>2. ASSUME NEW r \in Request, Insert(r)
      PROVE  DInv'
  <2>1. PICK j \in Job :
          /\ status[j] = "none"
          /\ status' = [status EXCEPT ![j] = "pending"]
          /\ request' = [request EXCEPT ![r].pc = "inserted", ![r].job = j]
    BY <1>2 DEF Insert
  <2>2. /\ recovery # "requeue" /\ request[r].pc = "asked"
        /\ UNCHANGED <<queue, pc, ran, stranded, recovery, listed>>
    BY <1>2, <1>p DEF Insert, dispatcher, recoverer, RecoveryFirst
  <2>3. /\ \A k \in Job : k # j => status'[k] = status[k]
        /\ status'[j] = "pending"
    BY <2>1 DEF TypeOK
  <2>4. /\ \A q \in Request : q # r => request'[q] = request[q]
        /\ request'[r].job = j
    BY <2>1 DEF TypeOK, RequestState
  <2>5. request[r].job = NoJob
    BY <2>2 DEF Placed
  <2>6. ActiveAttended'
    BY <1>p, <2>2, <2>3, <2>4, <2>5, JobFacts DEF ActiveAttended, Attended, ActiveJobs, Queued
  <2>7. pc # "claim" => Current \in Job
    BY <1>q DEF Placed
  <2>8. HeldRunning' /\ OverSettled'
    BY <1>p, <2>1, <2>2, <2>3, <2>7, Stages DEF HeldRunning, OverSettled, Current
  <2>9. RanOnward' /\ Unbegun'
    BY <1>p, <2>1, <2>2, <2>3 DEF RanOnward, Unbegun, Current, TypeOK
  <2>10. RunningHeld'
    BY <1>p, <2>1, <2>2, <2>3 DEF RunningHeld, Current
  <2> QED
    BY <2>2, <2>6, <2>8, <2>9, <2>10 DEF DInv, RecoveryFirst
<1>3. ASSUME NEW r \in Request, Dispatch(r)
      PROVE  DInv'
  <2>1. /\ request[r].pc = "inserted" /\ request[r].job \in Job
        /\ queue' = Appended(queue, request[r].job)
        /\ UNCHANGED <<status, pc, ran, stranded, recovery, listed>>
    BY <1>3 DEF Dispatch, Placed, rows, recoverer
  <2>2. /\ Queued' = Queued \cup {request[r].job}
        /\ queue # <<>> => Current' = Current
    BY <1>q, <2>1, AppendFacts DEF Queued, Current
  <2>3. recovery # "requeue"
    BY <1>p, <2>1 DEF RecoveryFirst
  <2>4. \A q \in Request : q # r => request'[q] = request[q]
    BY <1>3 DEF Dispatch, TypeOK
  <2>5. ActiveAttended'
    BY <1>p, <2>1, <2>2, <2>4 DEF ActiveAttended, Attended, ActiveJobs
  <2>6. pc # "claim" => Current' = Current
    BY <2>2 DEF Placed
  <2>7. HeldRunning' /\ OverSettled' /\ Unbegun' /\ RanOnward' /\ RunningHeld'
    BY <1>p, <2>1, <2>6, Stages DEF HeldRunning, OverSettled, Unbegun, RanOnward, RunningHeld
  <2> QED
    BY <2>1, <2>3, <2>5, <2>7 DEF DInv, RecoveryFirst
<1>4. ASSUME NEW r \in Request, RequestFails(r)
      PROVE  DInv'
  <2>1. /\ request[r].pc # "idle"
        /\ stranded' = IF request[r].pc = "inserted"
                         THEN stranded \cup {request[r].job} ELSE stranded
        /\ request' = [request EXCEPT ![r] = NoRequest]
        /\ UNCHANGED <<status, queue, pc, ran, recovery, listed>>
    BY <1>4 DEF RequestFails, rows, dispatcher, recoverer
  <2>2. \A q \in Request : q # r => request'[q] = request[q]
    BY <2>1 DEF TypeOK
  <2>3. request[r].pc # "inserted" => request[r].job = NoJob
    BY DEF Placed
  <2>4. ActiveAttended'
    BY <1>p, <2>1, <2>2, <2>3, JobFacts DEF ActiveAttended, Attended, ActiveJobs, Queued
  <2>5. recovery # "requeue" /\ stranded \subseteq stranded'
    BY <1>p, <2>1 DEF RecoveryFirst
  <2> QED
    BY <1>p, <2>1, <2>4, <2>5
    DEF DInv, RecoveryFirst, HeldRunning, OverSettled, Unbegun, RanOnward, RunningHeld, Current
<1>5. CASE Claim
  <2>1. /\ queue # <<>> /\ status[Current] = "pending" /\ pc' = "load" /\ pc = "claim"
        /\ status' = [status EXCEPT ![Current] = "running"]
        /\ UNCHANGED <<request, queue, ran, stranded, recovery, listed>>
        /\ recovery # "requeue"
    BY <1>5, <1>s DEF Claim, recoverer
  <2>2. /\ \A k \in Job : k # Current => status'[k] = status[k]
        /\ status'[Current] = "running" /\ Current' = Current
    BY <2>1, <1>q DEF TypeOK, Current
  <2>3. ActiveJobs' = ActiveJobs
    BY <2>1, <2>2, Stages DEF ActiveJobs
  <2>4. ActiveAttended'
    BY <1>p, <2>1, <2>3 DEF ActiveAttended, Attended, Queued
  <2>5. Unbegun' /\ RanOnward'
    BY <1>p, <2>1, <2>2 DEF Unbegun, RanOnward, TypeOK
  <2>6. HeldRunning' /\ OverSettled' /\ RunningHeld'
    BY <1>p, <2>1, <2>2, Stages DEF HeldRunning, OverSettled, RunningHeld
  <2> QED
    BY <2>1, <2>4, <2>5, <2>6 DEF DInv, RecoveryFirst
<1>6. CASE ClaimRefused
  <2>1. queue # <<>> /\ pc = "claim" /\ status[Current] # "pending" /\ recovery # "requeue"
    BY <1>6, <1>s DEF ClaimRefused
  <2>2. Current \in ActiveJobs => Current \in stranded
    BY <1>p, <1>q, <2>1, Stages DEF RunningHeld, ActiveJobs, Active
  <2> QED
    BY <1>6, <2>1, <2>2, DEnd DEF ClaimRefused, rows, recoverer
<1>7. CASE ClaimFails
  BY <1>7, DEnd DEF ClaimFails, rows, recoverer
<1>8. CASE Begin
  <2>1. /\ pc = "load" /\ pc' = "body" /\ ran' = ran \cup {Current}
        /\ UNCHANGED <<status, request, queue, stranded, recovery, listed>>
    BY <1>8 DEF Begin, rows, recoverer
  <2>2. recovery # "requeue" /\ status[Current] = "running" /\ Current' = Current
    BY <1>p, <2>1, Stages DEF RecoveryFirst, HeldRunning, Current
  <2>3. RanOnward' /\ Unbegun' /\ HeldRunning' /\ OverSettled'
    BY <1>p, <2>1, <2>2, Stages DEF RanOnward, Unbegun, HeldRunning, OverSettled
  <2>4. RunningHeld' /\ ActiveAttended'
    BY <1>p, <2>1, <2>2, Stages DEF RunningHeld, ActiveAttended, Attended, ActiveJobs, Queued
  <2> QED
    BY <2>2, <2>1, <2>3, <2>4 DEF DInv, RecoveryFirst
<1>9. CASE BodyReturns \/ BodyRaises \/ (FinishFails /\ pc = "finish")
  <2>1. /\ pc \in Held /\ pc' \in Held /\ pc # "claim" /\ pc' # "load"
        /\ UNCHANGED <<status, request, queue, ran, stranded, recovery, listed>>
    BY <1>9, Stages DEF BodyReturns, BodyRaises, FinishFails, rows, recoverer
  <2>2. Current' = Current
    BY <2>1 DEF Current
  <2> QED
    BY <1>p, <2>1, <2>2, Stages
    DEF DInv, RecoveryFirst, HeldRunning, OverSettled, Unbegun, RanOnward, RunningHeld,
        ActiveAttended, Attended, ActiveJobs, Queued
<1>10. CASE Finish
  <2>1. /\ pc \in Held /\ pc' = "notify" /\ queue # <<>> /\ status[Current] = "running"
        /\ status' = [status EXCEPT ![Current] = outcome]
        /\ UNCHANGED <<request, queue, ran, stranded, recovery, listed>>
    BY <1>10, <1>p, Stages DEF Finish, recoverer, Placed, HeldRunning
  <2>2. recovery # "requeue" /\ Current' = Current /\ outcome \in Terminal
    BY <1>10, <1>p, <2>1 DEF RecoveryFirst, Current, Placed, Finish
  <2>3. /\ \A k \in Job : k # Current => status'[k] = status[k]
        /\ status'[Current] = outcome
    BY <1>q, <2>1 DEF TypeOK
  <2>4. HeldRunning' /\ OverSettled' /\ Unbegun' /\ RunningHeld'
    BY <1>p, <2>1, <2>2, <2>3, Stages DEF HeldRunning, OverSettled, Unbegun, RunningHeld
  <2>5. RanOnward'
    BY <1>p, <2>1, <2>2, <2>3, Stages DEF RanOnward, TypeOK, Terminal
  <2>6. ActiveJobs' \subseteq ActiveJobs
    BY <2>1, <2>2, <2>3, Stages DEF ActiveJobs
  <2>7. ActiveAttended'
    BY <1>p, <2>1, <2>6 DEF ActiveAttended, Attended, Queued
  <2> QED
    BY <2>1, <2>2, <2>4, <2>5, <2>7 DEF DInv, RecoveryFirst
<1>11. CASE FinishFails /\ pc = "fail"
  BY <1>11, DEnd DEF FinishFails, rows, recoverer, Placed
<1>12. CASE NotifyResult
  <2>1. /\ pc = "notify" /\ pc' = "notifying"
        /\ UNCHANGED <<status, request, queue, ran, stranded, recovery, listed>>
    BY <1>12 DEF NotifyResult, rows, recoverer
  <2>2. Current' = Current
    BY <2>1 DEF Current
  <2> QED
    BY <1>p, <2>1, <2>2, Stages
    DEF DInv, RecoveryFirst, HeldRunning, OverSettled, Unbegun, RanOnward, RunningHeld,
        ActiveAttended, Attended, ActiveJobs, Queued
<1>13. CASE TaskEnds
  <2>1. pc = "notifying" /\ queue # <<>> /\ Current \notin ActiveJobs
    BY <1>13, <1>p, Stages DEF TaskEnds, Placed, OverSettled, ActiveJobs
  <2> QED
    BY <1>13, <2>1, DEnd DEF TaskEnds, rows, recoverer
<1>14. CASE UNCHANGED vars
  BY <1>14, DKeep DEF vars, rows, dispatcher, recoverer
<1>15. ASSUME NEW n \in Notifier, Announce(n) \/ MarkSent(n) \/ NoteFails(n)
       PROVE  DInv'
  BY <1>15, DKeep DEF Announce, MarkSent, NoteFails, rows, dispatcher, recoverer
<1>16. ASSUME NEW j \in Job, RetryNotice(j) \/ RecoveryNotice(j)
       PROVE  DInv'
  BY <1>16, DKeep DEF RetryNotice, RecoveryNotice, rows, dispatcher, recoverer
<1>17. CASE Requeue
  <2>1. /\ recovery = "requeue" /\ recovery' = "list"
        /\ status' = [j \in Job |-> IF status[j] = "running" THEN "pending" ELSE status[j]]
        /\ UNCHANGED <<request, queue, pc, ran, stranded, listed>>
    BY <1>17 DEF Requeue, dispatcher
  <2>2. pc = "claim" /\ ran = {}
    BY <1>p, <2>1 DEF RecoveryFirst
  <2>3. ActiveAttended'
    BY <2>1 DEF ActiveAttended, Attended
  <2>4. RunningHeld'
    BY <2>1 DEF RunningHeld
  <2> QED
    BY <2>1, <2>2, <2>3, <2>4, Stages
    DEF DInv, RecoveryFirst, HeldRunning, OverSettled, Unbegun, RanOnward
<1>18. CASE ListJobs
  <2>1. /\ recovery = "list" /\ recovery' = "notify"
        /\ listed' = {j \in Job : status[j] = "pending"}
        /\ UNCHANGED <<status, request, queue, pc, ran, stranded>>
    BY <1>18 DEF ListJobs, rows, dispatcher
  <2>2. ActiveAttended'
    <3> SUFFICES ASSUME NEW j \in ActiveJobs' PROVE Attended(j)' \/ j \in stranded'
      BY DEF ActiveAttended
    <3>1. j \in Job /\ status[j] \in {"pending", "running"}
      BY <2>1 DEF ActiveJobs, Active
    <3>2. CASE status[j] = "pending"
      BY <2>1, <3>1, <3>2 DEF Attended
    <3>3. CASE status[j] = "running"
      <4>1. j \in stranded \/ (pc \in Held /\ j = Current)
        BY <1>p, <2>1, <3>1, <3>3 DEF RunningHeld
      <4>2. pc \in Held => Current \in Queued
        BY <1>q, Stages DEF Placed
      <4> QED
        BY <4>1, <4>2, <2>1 DEF Attended, Queued
    <3> QED
      BY <3>1, <3>2, <3>3
  <2> QED
    BY <1>p, <2>1, <2>2
    DEF DInv, RecoveryFirst, HeldRunning, OverSettled, Unbegun, RanOnward, RunningHeld, Current
<1>19. CASE RecoveryFails
  <2>1. /\ recovery' = "over"
        /\ stranded' = stranded \cup
             {j \in ActiveJobs \ Queued : \A r \in Request : request[r].job # j}
        /\ UNCHANGED <<status, request, queue, pc, ran, listed>>
    BY <1>19 DEF RecoveryFails, rows, dispatcher
  <2>2. ActiveAttended'
    BY <2>1 DEF ActiveAttended, Attended, ActiveJobs, Queued
  <2>3. RunningHeld'
    <3> SUFFICES ASSUME NEW j \in Job, status[j] = "running"
                 PROVE  j \in stranded' \/ (pc \in Held /\ j = Current)
      BY <2>1 DEF RunningHeld, Current
    <3>1. CASE recovery # "requeue"
      BY <1>p, <2>1, <3>1 DEF RunningHeld
    <3>2. CASE recovery = "requeue"
      <4>1. queue = <<>> /\ \A r \in Request : request[r].job = NoJob
        BY <1>p, <3>2 DEF RecoveryFirst, Placed
      <4>2. Queued = {} /\ j \in ActiveJobs
        BY <1>q, <4>1, QueueFacts, Stages DEF Queued, ActiveJobs
      <4> QED
        BY <2>1, <4>1, <4>2, JobFacts
    <3> QED
      BY <3>1, <3>2
  <2> QED
    BY <1>p, <2>1, <2>2, <2>3
    DEF DInv, RecoveryFirst, HeldRunning, OverSettled, Unbegun, RanOnward, Current
<1>20. CASE Resubmit
  <2>1. /\ recovery = "notify" /\ recovery' = "over"
        /\ UNCHANGED <<status, request, pc, ran, stranded>>
    BY <1>20 DEF Resubmit, rows
  <2>2. Queued' = Queued \cup listed /\ (queue # <<>> => Current' = Current)
    BY <1>20, ResubmitFacts DEF Queued, Current
  <2>3. pc # "claim" => Current' = Current
    BY <2>2 DEF Placed
  <2>4. ActiveAttended'
    BY <1>p, <2>1, <2>2 DEF ActiveAttended, Attended, ActiveJobs
  <2>5. HeldRunning' /\ OverSettled' /\ Unbegun' /\ RanOnward' /\ RunningHeld'
    BY <1>p, <2>1, <2>3, Stages DEF HeldRunning, OverSettled, Unbegun, RanOnward, RunningHeld
  <2> QED
    BY <2>1, <2>4, <2>5 DEF DInv, RecoveryFirst
<1>21. CASE Crash
  <2>1. /\ recovery' = "requeue" /\ queue' = <<>> /\ pc' = "claim" /\ ran' = {}
        /\ \A r \in Request : request'[r].pc = "idle"
    BY <1>21, RequestFacts DEF Crash
  <2> QED
    BY <2>1, Stages
    DEF DInv, RecoveryFirst, HeldRunning, OverSettled, Unbegun, RanOnward, RunningHeld,
        ActiveAttended, Attended
<1> QED
  BY <1>1, <1>2, <1>3, <1>4, <1>5, <1>6, <1>7, <1>8, <1>9, <1>10, <1>11, <1>12, <1>13,
     <1>14, <1>15, <1>16, <1>17, <1>18, <1>19, <1>20, <1>21
  DEF Next, RequestStep, ExecuteJob, NoteStep, RecoveryStep, Failure, FinishFails

(* With the write scope, a process begins the body of a job once, whatever *)
(* its requests and its recovery hand to the dispatcher.                   *)
THEOREM BodyRunsOnce == WriteScope => (Spec => BodyOnce)
<1> SUFFICES ASSUME WriteScope PROVE Spec => BodyOnce
  OBVIOUS
<1>0. TInv /\ DInv /\ [Next]_vars => DInv'
  BY DStep
<1>1. Spec => [](TInv /\ DInv)
  BY <1>0, TInit, TStep, DInit, PTL DEF Spec
<1>2. DInv /\ [Next]_vars => [pc = "load" /\ pc' = "body" => Current \notin ran]_vars
  BY DEF DInv, Unbegun
<1> QED
  BY <1>1, <1>2, PTL DEF Spec, BodyOnce

(* With the write scope, an open job is in somebody's hands unless a call  *)
(* of this process failed on it.                                           *)
THEOREM OpenJobsAttended == WriteScope => (Spec => []ActiveAttended)
<1> SUFFICES ASSUME WriteScope PROVE Spec => []ActiveAttended
  OBVIOUS
<1>0. TInv /\ DInv /\ [Next]_vars => DInv'
  BY DStep
<1>1. Spec => [](TInv /\ DInv)
  BY <1>0, TInit, TStep, DInit, PTL DEF Spec
<1> QED
  BY <1>1, PTL DEF DInv
-----------------------------------------------------------------------------
LEMMA NInit == Init => NInv
  BY NoteFacts DEF Init, NInv

LEMMA NoteOnStatus ==
    ASSUME NEW j \in Job, NoteOn(j).pc # "idle"
    PROVE  /\ NoteOn(j).job = j /\ NoteOn(j).pc = "announce"
           /\ NoteOn(j).status = status[j] /\ status[j] \in Terminal
  BY NoteFacts DEF NoteOn, Unannounced

(* Terminal statuses and notices stay as they are, whatever a step does.   *)
LEMMA RowsStay ==
    ASSUME TypeOK, Placed, NInv, [Next]_vars
    PROVE  /\ \A j \in Job : status[j] \in Terminal => status'[j] = status[j]
           /\ \A j \in Job : notice[j] # "none" => notice'[j] = notice[j]
<1> DEFINE Same == \A j \in Job : notice'[j] = notice[j]
<1> DEFINE Final == \A j \in Job : status[j] \in Terminal => status'[j] = status[j]
<1> DEFINE Kept == \A j \in Job : notice[j] # "none" => notice'[j] = notice[j]
<1>1. ASSUME status' = status, notice' = notice PROVE Final /\ Kept
  BY <1>1
<1>2. ASSUME NEW r \in Request, Insert(r) PROVE Final /\ Kept
  <2>1. notice' = notice /\ \E j \in Job : status[j] = "none" /\ status' = [status EXCEPT ![j] = "pending"]
    BY <1>2 DEF Insert
  <2> QED
    BY <2>1, Stages DEF TypeOK
<1>3. CASE Claim
  BY <1>3, Stages DEF Claim, TypeOK
<1>4. CASE Finish
  <2>1. /\ notice' = notice
        /\ \/ status' = status
           \/ status[Current] = "running" /\ status' = [status EXCEPT ![Current] = outcome]
    BY <1>4 DEF Finish
  <2> QED
    BY <2>1, Stages DEF TypeOK
<1>5. ASSUME NEW n \in Notifier, Announce(n) PROVE Final /\ Kept
  BY <1>5 DEF Announce, TypeOK
<1>6. CASE Requeue
  BY <1>6, Stages DEF Requeue
<1>7. ASSUME ~(\E r \in Request : Insert(r)), ~Claim, ~Finish, ~Requeue,
             ~(\E n \in Notifier : Announce(n))
      PROVE  status' = status /\ notice' = notice
  BY <1>7 DEF Next, RequestStep, ExecuteJob, NoteStep, RecoveryStep, Failure, vars, rows, Ask,
     Dispatch, RequestFails, ClaimRefused, ClaimFails, Begin, BodyReturns, BodyRaises,
     FinishFails, NotifyResult, TaskEnds, MarkSent, NoteFails, RetryNotice, RecoveryNotice,
     ListJobs, RecoveryFails, Resubmit, Crash
<1> QED
  BY <1>1, <1>2, <1>3, <1>4, <1>5, <1>6, <1>7

(* What a step does with a notice under way: begin, announce or end it.    *)
LEMMA NoteSteps ==
    ASSUME TypeOK, Placed, NInv, [Next]_vars, NEW n \in Notifier
    PROVE  \/ note'[n] = note[n]
           \/ note'[n] = NoNote
           \/ /\ note[n].pc = "announce"
              /\ note'[n] = [note[n] EXCEPT !.pc = "mark"]
              /\ notice'[note[n].job] # "none"
           \/ status' = status /\ \E j \in Job : note'[n] = NoteOn(j)
<1>1. ASSUME NEW m \in Notifier, Announce(m)
      PROVE  \/ note'[n] = note[n]
             \/ /\ note[n].pc = "announce"
                /\ note'[n] = [note[n] EXCEPT !.pc = "mark"]
                /\ notice'[note[n].job] # "none"
  <2>1. /\ note[m].pc = "announce" /\ note' = [note EXCEPT ![m].pc = "mark"]
        /\ notice' = [notice EXCEPT ![note[m].job] = IF @ = "none" THEN note[m].status ELSE @]
    BY <1>1 DEF Announce
  <2>2. note[m].job \in Job /\ note[m].status # "none"
    BY <2>1, Stages DEF NInv
  <2>3. notice'[note[m].job] # "none"
    BY <2>1, <2>2 DEF TypeOK
  <2> QED
    BY <2>1, <2>3 DEF TypeOK
<1>2. ASSUME NEW m \in Notifier, MarkSent(m) \/ NoteFails(m)
      PROVE  note'[n] = note[n] \/ note'[n] = NoNote
  BY <1>2 DEF MarkSent, NoteFails, TypeOK
<1>3. CASE NotifyResult
  <2>1. Current \in Job
    BY <1>3, QueueFacts DEF NotifyResult, Placed, TypeOK, Current
  <2> QED
    BY <1>3, <2>1 DEF NotifyResult, rows, TypeOK
<1>4. ASSUME NEW j \in Job, RetryNotice(j) \/ RecoveryNotice(j)
      PROVE  status' = status /\ (note'[n] = note[n] \/ note'[n] = NoteOn(j))
  BY <1>4 DEF RetryNotice, RecoveryNotice, rows, TypeOK
<1>5. CASE Crash
  BY <1>5 DEF Crash
<1>6. ASSUME ~Crash, ~NotifyResult, ~(\E j \in Job : RetryNotice(j) \/ RecoveryNotice(j)),
             ~(\E m \in Notifier : Announce(m) \/ MarkSent(m) \/ NoteFails(m))
      PROVE  note' = note
  BY <1>6 DEF Next, RequestStep, ExecuteJob, NoteStep, RecoveryStep, Failure, vars, Ask, Insert,
     Dispatch, RequestFails, Claim, ClaimRefused, ClaimFails, Begin, BodyReturns, BodyRaises,
     Finish, FinishFails, TaskEnds, Requeue, ListJobs, RecoveryFails, Resubmit
<1> QED
  BY <1>1, <1>2, <1>3, <1>4, <1>5, <1>6

LEMMA NStep == TInv /\ NInv /\ [Next]_vars => NInv'
<1> SUFFICES ASSUME TypeOK, Placed, NInv, [Next]_vars,
                    NEW n \in Notifier, note'[n].pc # "idle"
             PROVE  /\ note'[n].job \in Job /\ note'[n].status \in Terminal
                    /\ status'[note'[n].job] = note'[n].status
                    /\ note'[n].pc = "mark" => notice'[note'[n].job] # "none"
  BY DEF TInv, NInv
<1>1. CASE note'[n] = note[n]
  BY <1>1, RowsStay DEF NInv
<1>2. CASE /\ note[n].pc = "announce"
           /\ note'[n] = [note[n] EXCEPT !.pc = "mark"]
           /\ notice'[note[n].job] # "none"
  <2>1. note[n] \in NoteState
    BY DEF TypeOK
  <2>2. note'[n].job = note[n].job /\ note'[n].status = note[n].status
    BY <1>2, <2>1 DEF NoteState
  <2>3. /\ note[n].job \in Job /\ note[n].status \in Terminal
        /\ status[note[n].job] = note[n].status
    BY <1>2 DEF NInv
  <2> QED
    BY <1>2, <2>2, <2>3, RowsStay
<1>3. ASSUME status' = status, NEW j \in Job, note'[n] = NoteOn(j)
      PROVE  /\ note'[n].job \in Job /\ note'[n].status \in Terminal
             /\ status'[note'[n].job] = note'[n].status
             /\ note'[n].pc = "mark" => notice'[note'[n].job] # "none"
  BY <1>3, NoteOnStatus
<1> QED
  BY <1>1, <1>2, <1>3, NoteSteps, NoteFacts

(* The job's row as the promise sees it.                                   *)
Seen == [j \in Job |-> IF status[j] \in Active THEN "open" ELSE status[j]]

LEMMA PromiseInit == Init => Promise!Init
  BY Stages DEF Init, Promise!Init

LEMMA PromiseStep == TInv /\ SInv /\ NInv /\ [Next]_vars => [Promise!Next]_(Promise!vars)
<1> SUFFICES ASSUME TypeOK, Placed, SInv, NInv, [Next]_vars
             PROVE  Promise!Next \/ (Seen' = Seen /\ UNCHANGED <<items, notice, sent>>)
  BY DEF TInv, Promise!vars, Seen
<1> DEFINE Goal == Promise!Next \/ (Seen' = Seen /\ UNCHANGED <<items, notice, sent>>)
<1>1. ASSUME status' = status, UNCHANGED <<items, notice, sent>> PROVE Goal
  BY <1>1 DEF Seen
<1>2. ASSUME NEW r \in Request, Insert(r) PROVE Goal
  <2>1. PICK j \in Job :
          /\ status[j] = "none"
          /\ status' = [status EXCEPT ![j] = "pending"]
          /\ items' = [items EXCEPT ![j] = request[r].items]
    BY <1>2 DEF Insert
  <2>2. request[r].pc = "asked" /\ UNCHANGED <<notice, sent>>
    BY <1>2 DEF Insert
  <2>3. request[r].items \in SUBSET Item
    BY RequestFacts DEF TypeOK
  <2>4. Seen' = [Seen EXCEPT ![j] = "open"] /\ Seen[j] = "none"
    BY <2>1, Stages DEF Seen, TypeOK
  <2>5. \A k \in Job : Seen[k] = "open" => items[k] \cap request[r].items = {}
    <3>1. \A k \in Job : Seen[k] = "open" => k \in ActiveJobs
      BY DEF Seen, ActiveJobs, TypeOK, Active, Terminal
    <3> QED
      BY <2>2, <3>1 DEF SInv, Reserved
  <2>6. PICK s \in SUBSET Item : s = request[r].items
    BY <2>3
  <2>7. Promise!Accept(j, s)
    BY <2>1, <2>2, <2>4, <2>5, <2>6 DEF Promise!Accept, Seen
  <2> QED
    BY <2>7 DEF Promise!Next
<1>3. CASE Claim
  <2>1. /\ status[Current] = "pending" /\ status' = [status EXCEPT ![Current] = "running"]
        /\ UNCHANGED <<items, notice, sent>>
    BY <1>3 DEF Claim
  <2>2. Seen' = Seen
    BY <2>1, Stages DEF Seen, TypeOK
  <2> QED
    BY <2>1, <2>2
<1>4. CASE Finish
  <2>1. UNCHANGED <<items, notice, sent>> /\ Current \in Job /\ outcome \in Terminal
    BY <1>4, QueueFacts DEF Finish, Placed, TypeOK, Current
  <2>2. CASE status[Current] = "running"
    <3>1. status' = [status EXCEPT ![Current] = outcome]
      BY <1>4, <2>2 DEF Finish
    <3>2. Seen[Current] = "open" /\ Seen' = [Seen EXCEPT ![Current] = outcome]
      BY <2>1, <2>2, <3>1, Stages DEF Seen, TypeOK
    <3>3. PICK c \in Job, t \in Promise!Terminal : c = Current /\ t = outcome
      BY <2>1 DEF Promise!Terminal, Terminal
    <3>4. Promise!Settle(c, t)
      BY <2>1, <3>2, <3>3 DEF Promise!Settle, Seen
    <3> QED
      BY <3>4 DEF Promise!Next
  <2>3. CASE status[Current] # "running"
    <3>1. status' = status
      BY <1>4, <2>3 DEF Finish
    <3> QED
      BY <3>1, <2>1, <1>1
  <2> QED
    BY <2>2, <2>3
<1>5. ASSUME NEW n \in Notifier, Announce(n) PROVE Goal
  <2> DEFINE j == note[n].job
  <2>1. /\ j \in Job /\ note[n].status \in Terminal /\ status[j] = note[n].status
    BY <1>5 DEF Announce, NInv
  <2>2. /\ notice' = [notice EXCEPT ![j] = IF @ = "none" THEN note[n].status ELSE @]
        /\ UNCHANGED <<status, items, sent>>
    BY <1>5 DEF Announce
  <2> HIDE DEF j
  <2>3. CASE notice[j] = "none"
    <3>1. Seen[j] = status[j] /\ Seen[j] \in Terminal
      BY <2>1, Stages DEF Seen, Terminal, Active
    <3>2. notice' = [notice EXCEPT ![j] = Seen[j]]
      BY <2>1, <2>2, <2>3, <3>1 DEF TypeOK
    <3>3. Seen' = Seen
      BY <2>2 DEF Seen
    <3>4. Promise!Terminal = Terminal
      BY DEF Promise!Terminal, Terminal
    <3>5. Promise!Tell(j)
      BY <2>2, <2>3, <3>1, <3>2, <3>3, <3>4 DEF Promise!Tell, Seen
    <3> QED
      BY <2>1, <3>5 DEF Promise!Next
  <2>4. CASE notice[j] # "none"
    <3>1. notice' = notice
      BY <2>1, <2>2, <2>4 DEF TypeOK
    <3> QED
      BY <1>1, <2>2, <3>1
  <2> QED
    BY <2>3, <2>4
<1>6. ASSUME NEW n \in Notifier, MarkSent(n) PROVE Goal
  <2>1. /\ note[n].pc = "mark" /\ sent' = sent \cup {note[n].job}
        /\ UNCHANGED <<status, items, notice>>
    BY <1>6 DEF MarkSent
  <2>2. note[n].job \in Job /\ notice[note[n].job] # "none"
    BY <2>1 DEF NInv
  <2>3. Promise!Confirm(note[n].job)
    BY <2>1, <2>2 DEF Promise!Confirm, Seen
  <2> QED
    BY <2>2, <2>3 DEF Promise!Next
<1>7. CASE Requeue
  <2>1. /\ status' = [j \in Job |-> IF status[j] = "running" THEN "pending" ELSE status[j]]
        /\ UNCHANGED <<items, notice, sent>>
    BY <1>7 DEF Requeue
  <2>2. Seen' = Seen
    BY <2>1, Stages DEF Seen
  <2> QED
    BY <2>1, <2>2
<1>8. ASSUME ~(\E r \in Request : Insert(r)), ~Claim, ~Finish, ~Requeue,
             ~(\E n \in Notifier : Announce(n) \/ MarkSent(n))
      PROVE  status' = status /\ UNCHANGED <<items, notice, sent>>
  BY <1>8 DEF Next, RequestStep, ExecuteJob, NoteStep, RecoveryStep, Failure, vars, rows, Ask,
     Dispatch, RequestFails, ClaimRefused, ClaimFails, Begin, BodyReturns, BodyRaises,
     FinishFails, NotifyResult, TaskEnds, NoteFails, RetryNotice, RecoveryNotice,
     ListJobs, RecoveryFails, Resubmit, Crash
<1> QED
  BY <1>1, <1>2, <1>3, <1>4, <1>5, <1>6, <1>7, <1>8

(* The jobs implement MaintenanceJobs: a file in one open job at most, a   *)
(* result settled once, its notice true and there before it is recorded.   *)
THEOREM Refinement == Spec => ImplementsJobs
<1>1. Spec => [](TInv /\ SInv /\ NInv)
  BY TInit, TStep, SInit, SStep, NInit, NStep, PTL DEF Spec
<1> QED
  BY <1>1, PromiseInit, PromiseStep, PTL DEF Spec, ImplementsJobs, Promise!Spec
=============================================================================
