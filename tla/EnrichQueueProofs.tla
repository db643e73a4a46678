------------------------- MODULE EnrichQueueProofs -------------------------
(* Theorems about EnrichQueue for every number of workers and torrents and *)
(* every budget.  While no budget is exhausted, the queue holds exactly    *)
(* the torrents after the last one taken, then sentinels (Line): hence     *)
(* the calls are for a prefix, and a worker that finds a sentinel, or      *)
(* nothing, knows that every torrent was taken (Ends).                     *)
EXTENDS EnrichQueue, FiniteSetTheorems, TLAPS

Unspent == reason = "none" /\ outcome # "cancelled"

Line ==
    Unspent =>
        /\ started <= index /\ index <= started + Len(queue)
        /\ \A i \in 1..Len(queue) :
              queue[i] = IF started + i <= index THEN started + i ELSE Sentinel
        /\ (\E i \in 1..Len(queue) : queue[i] = Sentinel) => index = total

Ends ==
    /\ producer = "put" => index < total
    /\ producer \in {"close", "putNone"} => index = total
    /\ producer = "putNone" => sentinels < Capacity
    /\ Unspent /\ producer = "done" => index = total
    /\ Unspent => \A w \in Worker : worker[w] = "done" => started = total
    /\ reason # "none" => started < total
    /\ \A w \in Worker : worker[w] = "fetch" => current[w] \in Torrents
    /\ outcome # "running" => producer = "done" /\ \A w \in Worker : worker[w] = "done"

Told ==
    outcome = "returned" =>
        /\ 1..cursor \subseteq enriched
        /\ reason = "none" => started = total

(* The inductive invariant.                                                *)
IInv == TypeOK /\ PrefixWithinBudget /\ Line /\ Ends /\ Told

-----------------------------------------------------------------------------
LEMMA CapacityNat == Capacity \in Nat \ {0}
  BY QueueAssumption, FS_CardinalityType, FS_EmptySet DEF Capacity

LEMMA InitIInv == Init => IInv
  <1> SUFFICES ASSUME Init PROVE IInv
    OBVIOUS
  <1> USE QueueAssumption, CapacityNat
  <1>1. TypeOK
    <2>1. total \in Nat /\ MaxTorrents \in Nat
      BY DEF Init
    <2>2. queue \in Seq(Torrents \cup {Sentinel}) /\ Len(queue) = 0
      BY DEF Init
    <2>3. index = 0 /\ sentinels = 0 /\ started = 0 /\ cursor = 0
      BY DEF Init
    <2> QED
      BY <2>1, <2>2, <2>3 DEF Init, TypeOK
  <1>2. PrefixWithinBudget
    BY DEF Init, PrefixWithinBudget
  <1>3. Line /\ Ends /\ Told
    BY DEF Init, Line, Ends, Told, Unspent
  <1> QED
    BY <1>1, <1>2, <1>3 DEF IInv

(* What an element at the end or at the head of the queue does to it.      *)
LEMMA AppendShape ==
  ASSUME NEW S, NEW q \in Seq(S), NEW e \in S
  PROVE  /\ Append(q, e) \in Seq(S)
         /\ Len(Append(q, e)) = Len(q) + 1
         /\ \A i \in 1..Len(q) : Append(q, e)[i] = q[i]
         /\ Append(q, e)[Len(q) + 1] = e
  OBVIOUS

LEMMA TailShape ==
  ASSUME NEW S, NEW q \in Seq(S), q # <<>>
  PROVE  /\ Len(q) \in Nat \ {0} /\ Head(q) = q[1] /\ Head(q) \in S
         /\ Tail(q) \in Seq(S)
         /\ Len(Tail(q)) = Len(q) - 1
         /\ \A i \in 1..Len(Tail(q)) : Tail(q)[i] = q[i + 1]
  OBVIOUS

LEMMA ProducerInv == IInv /\ ProducerStep => IInv'
  <1> SUFFICES ASSUME IInv, ProducerStep PROVE IInv'
    OBVIOUS
  <1> USE QueueAssumption, CapacityNat
  <1> USE DEF IInv, TypeOK, PrefixWithinBudget, Line, Ends, Told, Unspent, feed,
              calls, report
  <1>1. CASE Produce
    BY <1>1 DEF Produce, Torrents, Sentinel
  <1>2. CASE Put
    <2>1. index < total /\ index + 1 \in Torrents /\ index \in Nat
      BY <1>2 DEF Put, Torrents
    <2> DEFINE S == Torrents \cup {Sentinel}
    <2>2. queue \in Seq(S) /\ index + 1 \in S
      BY <2>1
    <2>3. /\ queue' \in Seq(S)
          /\ Len(queue') = Len(queue) + 1
          /\ \A i \in 1..Len(queue) : queue'[i] = queue[i]
          /\ queue'[Len(queue) + 1] = index + 1
      <3> HIDE DEF S
      <3> QED BY <1>2, <2>2, AppendShape DEF Put
    <2>4. Line'
      <3> SUFFICES ASSUME Unspent'
                   PROVE  /\ started <= index + 1
                          /\ index + 1 <= started + Len(queue')
                          /\ \A i \in 1..Len(queue') :
                                queue'[i] = IF started + i <= index + 1
                                            THEN started + i ELSE Sentinel
                          /\ (\E i \in 1..Len(queue') : queue'[i] = Sentinel)
                                => index + 1 = total
        BY <1>2 DEF Put
      <3> DEFINE n == Len(queue)
      <3>1. /\ started \in Nat /\ index \in Nat /\ n \in Nat
            /\ started <= index /\ index <= started + n
            /\ \A i \in 1..n :
                  queue[i] = IF started + i <= index THEN started + i ELSE Sentinel
            /\ ~ \E i \in 1..n : queue[i] = Sentinel
        BY <1>2, <2>1, <2>2 DEF Put
      <3> HIDE DEF IInv, n
      <3>2. index = started + n
        <4>1. SUFFICES ASSUME index < started + n PROVE FALSE
          BY <3>1
        <4>2. n \in 1..n /\ ~ (started + n <= index)
          BY <3>1, <4>1
        <4> QED
          BY <3>1, <4>2
      <3>3. \A i \in 1..n : queue'[i] = started + i /\ queue'[i] # Sentinel
        BY <3>1, <3>2, <2>3 DEF n
      <3>4. queue'[n + 1] = index + 1 /\ Len(queue') = n + 1
        BY <2>3 DEF n
      <3> QED
        BY <3>1, <3>2, <3>3, <3>4 DEF Sentinel
    <2>5. TypeOK'
      BY <2>1, <2>2, <2>3, <1>2 DEF Put, Torrents
    <2> QED
      BY <2>1, <2>4, <2>5, <1>2 DEF Put, Torrents
  <1>3. CASE PutTimesOut
    BY <1>3 DEF PutTimesOut, Torrents, Sentinel
  <1>4. CASE Close
    BY <1>4 DEF Close, Torrents, Sentinel
  <1>5. CASE PutSentinel
    <2> DEFINE S == Torrents \cup {Sentinel}
    <2>2. queue \in Seq(S) /\ Sentinel \in S /\ index = total
      BY <1>5 DEF PutSentinel
    <2>3. /\ queue' \in Seq(S)
          /\ Len(queue') = Len(queue) + 1
          /\ \A i \in 1..Len(queue) : queue'[i] = queue[i]
          /\ queue'[Len(queue) + 1] = Sentinel
      <3> HIDE DEF S
      <3> QED BY <1>5, <2>2, AppendShape DEF PutSentinel
    <2>4. Line'
      <3> SUFFICES ASSUME Unspent'
                   PROVE  /\ started <= index /\ index <= started + Len(queue')
                          /\ \A i \in 1..Len(queue') :
                                queue'[i] = IF started + i <= index
                                            THEN started + i ELSE Sentinel
        BY <1>5, <2>2 DEF PutSentinel
      <3> DEFINE n == Len(queue)
      <3>1. /\ started \in Nat /\ index \in Nat /\ n \in Nat
            /\ started <= index /\ index <= started + n
            /\ \A i \in 1..n :
                  queue[i] = IF started + i <= index THEN started + i ELSE Sentinel
        BY <1>5, <2>2 DEF PutSentinel
      <3> HIDE DEF IInv, n
      <3>2. queue'[n + 1] = Sentinel /\ Len(queue') = n + 1
            /\ \A i \in 1..n : queue'[i] = queue[i]
        BY <2>3 DEF n
      <3> QED
        BY <3>1, <3>2
    <2>5. TypeOK'
      <3>1. sentinels' \in 0..Capacity
        BY <1>5 DEF PutSentinel
      <3>2. queue' \in Seq(Torrents' \cup {Sentinel}) /\ Len(queue') <= Capacity
        BY <2>2, <2>3, <1>5 DEF PutSentinel, Torrents
      <3> QED
        BY <3>1, <3>2, <1>5 DEF PutSentinel, Torrents
    <2> QED
      BY <2>2, <2>4, <2>5, <1>5 DEF PutSentinel, Torrents
  <1>6. CASE SentinelTimesOut
    BY <1>6 DEF SentinelTimesOut, Torrents, Sentinel
  <1> QED
    BY <1>1, <1>2, <1>3, <1>4, <1>5, <1>6 DEF ProducerStep

LEMMA TakeInv ==
  ASSUME IInv, NEW w \in Worker, Take(w)
  PROVE  IInv'
  <1> USE QueueAssumption, CapacityNat
  <1> DEFINE S == Torrents \cup {Sentinel}
  <1> DEFINE t == Head(queue)
  <1>0. queue \in Seq(S) /\ queue # <<>> /\ queue' = Tail(queue)
    BY DEF IInv, TypeOK, Take
  <1>1. /\ Len(queue) \in Nat \ {0} /\ t = queue[1] /\ t \in S
        /\ queue' \in Seq(S)
        /\ Len(queue') = Len(queue) - 1
        /\ \A i \in 1..Len(queue') : queue'[i] = queue[i + 1]
    <2> HIDE DEF S
    <2> QED BY <1>0, TailShape
  <1>2. total' = total /\ index' = index /\ outcome' = outcome /\ producer' = producer
        /\ sentinels' = sentinels /\ enriched' = enriched /\ cursor' = cursor
        /\ late' = late
    BY DEF Take, feed, report
  <1>3. reason' = Reason(t) /\ worker[w] = "get"
    BY DEF Take
  <1> HIDE DEF S, t
  <1>4. /\ total \in Nat /\ index \in Nat /\ started \in Nat /\ started <= total
        /\ index <= total
        /\ MaxTorrents \in Nat
    BY DEF IInv, TypeOK
  <1>5. CASE Stops(t)
    <2>1. worker' = [worker EXCEPT ![w] = "done"]
          /\ current' = current /\ started' = started /\ begun' = begun
      BY <1>5 DEF Take, t
    <2>2. TypeOK'
      BY <2>1, <1>1, <1>2, <1>3 DEF IInv, TypeOK, Reason, BudgetExceeded, S, Torrents
    <2>3. Line'
      <3>1. Unspent' => Unspent /\ t = Sentinel
        BY <1>5, <1>2, <1>3 DEF Unspent, Stops, Reason
      <3>2. Unspent' => started = index /\ index = total
        BY <3>1, <1>1, <1>4 DEF IInv, Line, Sentinel
      <3> QED
        BY <2>1, <3>1, <3>2, <1>1, <1>2, <1>4 DEF IInv, Line, Sentinel
    <2>4. Ends'
      <3>1. Unspent' => Unspent /\ t = Sentinel
        BY <1>5, <1>2, <1>3 DEF Unspent, Stops, Reason
      <3>2. Unspent' => started = total
        BY <3>1, <1>1, <1>4 DEF IInv, Line, Sentinel
      <3>3. reason' # "none" => started < total
        <4>1. CASE reason # "none"
          BY <4>1 DEF IInv, Ends
        <4>2. CASE reason = "none" /\ outcome # "cancelled"
          BY <4>2, <1>1, <1>3, <1>4 DEF IInv, Line, Unspent, Reason, Sentinel
        <4>3. CASE outcome = "cancelled"
          BY <4>3, <1>3 DEF IInv, Ends
        <4> QED
          BY <4>1, <4>2, <4>3
      <3> QED
        BY <2>1, <3>1, <3>2, <3>3, <1>2, <1>4 DEF IInv, Ends, Torrents
    <2>5. PrefixWithinBudget' /\ Told'
      BY <2>1, <1>2, <1>3 DEF IInv, PrefixWithinBudget, Told, Ends
    <2> QED
      BY <2>2, <2>3, <2>4, <2>5 DEF IInv
  <1>6. CASE ~ Stops(t)
    <2>1. worker' = [worker EXCEPT ![w] = "fetch"]
          /\ current' = [current EXCEPT ![w] = t] /\ started' = started + 1
          /\ begun' = begun \cup {t}
      BY <1>6 DEF Take, t
    <2>2. t # Sentinel /\ reason = "none" /\ reason' = "none" /\ Unspent
      <3>1. t # Sentinel /\ reason = "none" /\ reason' = "none"
        BY <1>6, <1>3 DEF Stops, Reason
      <3>2. outcome # "cancelled"
        BY <1>3 DEF IInv, Ends
      <3> QED
        BY <3>1, <3>2 DEF Unspent
    <2>3. t = started + 1 /\ started + 1 <= index /\ started + 1 <= MaxTorrents
      <3>1. started < MaxTorrents
        BY <1>6, <1>3, <1>4, <2>2 DEF Stops, Reason, BudgetExceeded
      <3> QED
        BY <3>1, <2>2, <1>1, <1>4 DEF IInv, Line
    <2>4. TypeOK'
      BY <2>1, <2>2, <2>3, <1>1, <1>2, <1>4 DEF IInv, TypeOK, S, Torrents
    <2>5. PrefixWithinBudget'
      BY <2>1, <2>3, <1>2, <1>4 DEF IInv, PrefixWithinBudget
    <2>6. Line'
      <3> DEFINE n == Len(queue)
      <3>1. /\ n \in Nat \ {0} /\ index <= started + n
            /\ \A i \in 1..n :
                  queue[i] = IF started + i <= index THEN started + i ELSE Sentinel
            /\ (\E i \in 1..n : queue[i] = Sentinel) => index = total
        BY <2>2, <1>1 DEF IInv, Line
      <3>2. Len(queue') = n - 1 /\ \A i \in 1..(n - 1) : queue'[i] = queue[i + 1]
        BY <1>1
      <3> HIDE DEF n
      <3>3. \A i \in 1..(n - 1) : i + 1 \in 1..n
        BY <3>1
      <3>4. \A i \in 1..(n - 1) :
               queue'[i] = IF started + 1 + i <= index THEN started + 1 + i ELSE Sentinel
        BY <3>1, <3>2, <3>3, <1>4
      <3>5. (\E i \in 1..(n - 1) : queue'[i] = Sentinel) => index = total
        BY <3>1, <3>2, <3>3
      <3> QED
        BY <2>1, <2>3, <3>1, <3>2, <3>4, <3>5, <1>2, <1>4 DEF Line
    <2>7. Ends'
      <3>1. \A v \in Worker : worker'[v] = "done" => worker[v] = "done"
        BY <2>1 DEF IInv, TypeOK
      <3>2. \A v \in Worker : worker'[v] = "fetch" => current'[v] \in Torrents'
        BY <2>1, <2>3, <1>2, <1>4 DEF IInv, Ends, TypeOK, Torrents
      <3> QED
        BY <2>1, <2>2, <2>3, <3>1, <3>2, <1>2, <1>3, <1>4 DEF IInv, Ends, Unspent
    <2>8. Told'
      BY <1>2, <1>3 DEF IInv, Ends, Told
    <2> QED
      BY <2>4, <2>5, <2>6, <2>7, <2>8 DEF IInv
  <1> QED
    BY <1>5, <1>6

LEMMA WorkerInv ==
  ASSUME IInv, NEW w \in Worker, WorkerStep(w)
  PROVE  IInv'
  <1> USE DEF IInv, feed, calls, report
  <1>1. CASE Take(w)
    BY <1>1, TakeInv
  <1>2. CASE StopForBudget(w)
    <2>1. TypeOK' /\ PrefixWithinBudget' /\ Told'
      BY <1>2 DEF StopForBudget, TypeOK, PrefixWithinBudget, Told, Torrents
    <2>2. Line' /\ Ends'
      BY <1>2 DEF StopForBudget, Line, Ends, Unspent, TypeOK, Torrents
    <2> QED
      BY <2>1, <2>2
  <1>3. CASE GetTimesOut(w)
    <2>1. TypeOK' /\ PrefixWithinBudget' /\ Told'
      BY <1>3 DEF GetTimesOut, TypeOK, PrefixWithinBudget, Told, Torrents
    <2>2. Line'
      BY <1>3 DEF GetTimesOut, Line, Unspent
    <2>3. Unspent => started = total
      <3>1. Len(queue) = 0
        BY <1>3 DEF GetTimesOut
      <3> QED
        BY <3>1, <1>3 DEF GetTimesOut, Line, Ends, TypeOK, Unspent
    <2>4. Ends'
      BY <2>3, <1>3 DEF GetTimesOut, Ends, Unspent, TypeOK, Torrents
    <2> QED
      BY <2>1, <2>2, <2>4
  <1>4. CASE FetchReturns(w)
    <2>1. TypeOK'
      BY <1>4 DEF FetchReturns, TypeOK, Ends, Torrents, Sentinel
    <2>2. PrefixWithinBudget' /\ Line'
      BY <1>4 DEF FetchReturns, PrefixWithinBudget, Line, Unspent
    <2>3. Ends' /\ Told'
      BY <1>4 DEF FetchReturns, Ends, Told, Unspent, TypeOK, Torrents
    <2> QED
      BY <2>1, <2>2, <2>3
  <1> QED
    BY <1>1, <1>2, <1>3, <1>4 DEF WorkerStep

LEMMA NextIInv == IInv /\ [Next]_vars => IInv'
  <1> SUFFICES ASSUME IInv, [Next]_vars PROVE IInv'
    OBVIOUS
  <1> USE DEF IInv, feed, calls, report
  <1>1. CASE ProducerStep
    BY <1>1, ProducerInv
  <1>2. ASSUME NEW w \in Worker, WorkerStep(w) PROVE IInv'
    BY <1>2, WorkerInv
  <1>3. CASE TimePasses
    BY <1>3
    DEF TimePasses, TypeOK, PrefixWithinBudget, Line, Ends, Told, Unspent, Torrents
  <1>4. CASE Return
    <2>1. cursor' \in 0..started /\ 1..cursor' \subseteq enriched
      BY <1>4 DEF Return, NewCursor
    <2>2. reason = "none" => started = total
      <3>1. PICK w \in Worker : TRUE
        BY QueueAssumption
      <3> QED
        BY <3>1, <1>4 DEF Return, Ends, Unspent
    <2> QED
      BY <2>1, <2>2, <1>4
      DEF Return, TypeOK, PrefixWithinBudget, Line, Ends, Told, Unspent, Torrents
  <1>5. CASE Cancelled
    BY <1>5
    DEF Cancelled, TypeOK, PrefixWithinBudget, Line, Ends, Told, Unspent, Torrents
  <1>6. CASE UNCHANGED vars
    BY <1>6
    DEF vars, TypeOK, PrefixWithinBudget, Line, Ends, Told, Unspent, Torrents
  <1> QED
    BY <1>1, <1>2, <1>3, <1>4, <1>5, <1>6 DEF Next
-----------------------------------------------------------------------------
LEMMA Inductive == Spec => []IInv
  BY InitIInv, NextIInv, PTL DEF Spec

(* TypeOK for every number of workers and torrents.                        *)
THEOREM TypeCorrect == Spec => []TypeOK
  <1>1. IInv => TypeOK
    BY DEF IInv
  <1> QED
    BY <1>1, Inductive, PTL

(* The remote calls of one run are for the first torrents behind the       *)
(* cursor, whatever the order of the workers, and within max_torrents.     *)
THEOREM BudgetKept == Spec => []PrefixWithinBudget
  <1>1. IInv => PrefixWithinBudget
    BY DEF IInv
  <1> QED
    BY <1>1, Inductive, PTL

(* A returned run says budget_reason None exactly when every torrent was   *)
(* tried, and its cursor passes no torrent without trackers.               *)
THEOREM HonestReport == Spec => []ReportTrue
  <1>1. ASSUME IInv PROVE ReportTrue
    <2>1. total \in Nat /\ started \in Nat /\ begun = 1..started
      BY <1>1 DEF IInv, TypeOK, PrefixWithinBudget
    <2>2. started < total => total \in Torrents /\ total \notin begun
      BY <2>1 DEF Torrents
    <2> QED
      BY <1>1, <2>1, <2>2 DEF IInv, Told, Ends, ReportTrue, Torrents
  <1> QED
    BY <1>1, Inductive, PTL
=============================================================================
