------------------------- MODULE OrphanLeaseProofs -------------------------
(***************************************************************************)
(* Proofs about OrphanLease, for every set of workers, lease time,         *)
(* lateness and gap.  Exclusion is proved for lateness that fits twice     *)
(* into the lease, up to the first heartbeat that is tardy or dies.        *)
(***************************************************************************)
EXTENDS OrphanLease, TLAPS

(* A renewal that is not tardy comes before the row expires, although the  *)
(* expiry may have been late: it was computed up to Lateness before it was *)
(* written, and the next one comes up to Lateness after the interval.      *)
HeartbeatInTime == Interval + 2 * Lateness <= TTL

(* The heartbeat's interval is a positive number.                          *)
LEMMA IntervalType == Interval \in Nat \ {0}
  BY LeaseAssumption DEF LeaseAssumption, Interval

(* What a late writer leaves of the lease.                                 *)
LEMMA RemainingType ==
  ASSUME NEW late \in 0 .. Gap
  PROVE  /\ Remaining(late) \in Oldest .. TTL
         /\ Remaining(late) >= TTL - late
         /\ late <= TTL => Remaining(late) = TTL - late
  BY LeaseAssumption DEF LeaseAssumption, Remaining, Oldest

(* The variables of the lease keep their types.                            *)
THEOREM TypeCorrect == Spec => []TypeOK
<1> USE IntervalType, RemainingType, LeaseAssumption
    DEF LeaseAssumption, TypeOK, Beating, InScope, InUse
<1> HIDE DEF Interval
<1>1. Init => TypeOK
  BY DEF Init, Oldest
<1>2. TypeOK /\ [Next]_vars => TypeOK'
  <2> SUFFICES ASSUME TypeOK, [Next]_vars
               PROVE  TypeOK'
    OBVIOUS
  <2>1. ASSUME NEW w \in Worker, Ask(w) \/ Refuse(w) \/ Act(w)
        PROVE  TypeOK'
    BY <2>1 DEF Ask, Refuse, Act
  <2>2. ASSUME NEW w \in Worker, Acquire(w)
        PROVE  TypeOK'
    BY <2>2 DEF Acquire, Enter
  <2>3. ASSUME NEW w \in Worker, BeginCheck(w)
        PROVE  TypeOK'
    BY <2>3 DEF BeginCheck, Lose, StopBeat
  <2>4. ASSUME NEW w \in Worker, Check(w)
        PROVE  TypeOK'
    BY <2>4 DEF Check, Lose, StopBeat
  <2>5. ASSUME NEW w \in Worker, Finish(w)
        PROVE  TypeOK'
    BY <2>5 DEF Finish, StopBeat
  <2>6. ASSUME NEW w \in Worker, Leave(w) \/ Crash(w)
        PROVE  TypeOK'
    <3>1. Over(w) /\ holder' \in Worker \cup {None}
      BY <2>6 DEF Leave, Crash
    <3>2. /\ since' \in [Worker -> 0 .. Gap] /\ age' \in [Worker -> 0 .. Gap]
          /\ gone' \in [Worker -> 0 .. Gap + 1]
      BY <3>1 DEF Over
    <3>3. due' \in [Worker -> (-Lateness) .. Interval]
      BY <3>1 DEF Over
    <3>4. /\ pc' \in [Worker -> {"idle", "asking", "working", "checking", "cleared", "leaving"}]
          /\ beat' \in [Worker -> {"off", "asleep", "renewing", "dead"}]
          /\ lost' \subseteq Worker
      BY <3>1 DEF Over
    <3>5. /\ Beating' \subseteq InScope'
          /\ \A v \in Worker : beat'[v] # "renewing" => age'[v] = 0
      BY <3>1 DEF Over
    <3> QED
      BY <3>1, <3>2, <3>3, <3>4, <3>5 DEF Over
  <2>7. ASSUME NEW w \in Worker, BeginBeat(w) \/ BeatDies(w)
        PROVE  TypeOK'
    BY <2>7 DEF BeginBeat, BeatDies
  <2>8. ASSUME NEW w \in Worker, Beat(w)
        PROVE  TypeOK'
    BY <2>8 DEF Beat
  <2>9. CASE Tick
    <3>1. since' \in [Worker -> 0 .. Gap] /\ age' \in [Worker -> 0 .. Gap]
      BY <2>9 DEF Tick
    <3>2. due' \in [Worker -> (-Lateness) .. Interval] /\ gone' \in [Worker -> 0 .. Gap + 1]
      BY <2>9 DEF Tick
    <3>3. left' \in Oldest .. TTL
      BY <2>9 DEF Tick, Oldest
    <3> QED
      BY <2>9, <3>1, <3>2, <3>3 DEF Tick
  <2>10. CASE UNCHANGED vars
    BY <2>10 DEF vars
  <2> QED
    BY <2>1, <2>2, <2>3, <2>4, <2>5, <2>6, <2>7, <2>8, <2>9, <2>10
    DEF Next, Scope, Heartbeat
<1> QED
  BY <1>1, <1>2, PTL DEF Spec

-----------------------------------------------------------------------------
(* Every punctual step keeps the lease in the hands of the worker in the   *)
(* scope.                                                                  *)
LEMMA HeldStep ==
    HeartbeatInTime /\ TypeOK /\ Held /\ [Next]_vars /\ timing' = "punctual" => Held'
<1> SUFFICES ASSUME HeartbeatInTime, TypeOK, Held, [Next]_vars, timing' = "punctual"
             PROVE  Held'
  OBVIOUS
<1> USE IntervalType, LeaseAssumption
    DEF LeaseAssumption, HeartbeatInTime, TypeOK, Held, InScope, Beating, Oldest
<1> HIDE DEF Interval
<1>1. ASSUME NEW w \in Worker, Ask(w) \/ Refuse(w) \/ Act(w)
      PROVE  Held'
  BY <1>1 DEF Ask, Refuse, Act
<1>2. ASSUME NEW w \in Worker, Acquire(w)
      PROVE  Held'
  <2>1. \A v \in Worker : v \notin InScope
    BY <1>2 DEF Acquire, Enter, Free
  <2>2. since[w] <= Lateness /\ left' = TTL - since[w]
    BY <1>2, RemainingType DEF Acquire, Enter
  <2>3. beat'[w] = "asleep" /\ due'[w] = Interval /\ holder' = w
    BY <1>2 DEF Acquire, Enter
  <2>4. \A v \in Worker : v # w => v \notin InScope'
    BY <1>2, <2>1 DEF Acquire, Enter
  <2> QED
    BY <2>2, <2>3, <2>4
<1>3. ASSUME NEW w \in Worker, BeginCheck(w)
      PROVE  Held'
  BY <1>3 DEF BeginCheck, Lose, StopBeat
<1>4. ASSUME NEW w \in Worker, Check(w)
      PROVE  Held'
  BY <1>4 DEF Check, Lose, StopBeat
<1>5. ASSUME NEW w \in Worker, Finish(w)
      PROVE  Held'
  BY <1>5 DEF Finish, StopBeat
<1>6. ASSUME NEW w \in Worker, Leave(w)
      PROVE  Held'
  BY <1>6 DEF Leave, Over
<1>7. ASSUME NEW w \in Worker, Crash(w)
      PROVE  Held'
  BY <1>7 DEF Crash, Over
<1>8. ASSUME NEW w \in Worker, BeginBeat(w)
      PROVE  Held'
  BY <1>8 DEF BeginBeat
<1>9. ASSUME NEW w \in Worker, Beat(w)
      PROVE  Held'
  <2>1. \A v \in Worker : v \in InScope => v = w
    BY <1>9 DEF Beat
  <2>2. age[w] <= Lateness /\ left' = TTL - age[w]
    BY <1>9, RemainingType DEF Beat
  <2>3. beat'[w] = "asleep" /\ due'[w] = Interval /\ holder' = w
    BY <1>9 DEF Beat
  <2>4. InScope' = InScope
    BY <1>9 DEF Beat
  <2> QED
    BY <2>1, <2>2, <2>3, <2>4
<1>10. ASSUME NEW w \in Worker, BeatDies(w)
       PROVE  Held'
  BY <1>10 DEF BeatDies
<1>11. CASE Tick
  <2> SUFFICES ASSUME NEW w \in Worker, w \in InScope'
               PROVE  /\ holder' = w
                      /\ w \in Beating'
                      /\ left' >= TTL - Lateness - Interval + due'[w]
                      /\ left' >= 0
                      /\ beat'[w] = "renewing" => age'[w] <= -due'[w]
    OBVIOUS
  <2>1. w \in InScope /\ w \in Beating /\ holder' = holder /\ beat' = beat /\ pc' = pc
    BY <1>11 DEF Tick
  <2>2. due[w] > -Lateness
    BY <1>11, <2>1 DEF Tick
  <2>3. due'[w] = due[w] - 1 /\ left' = left - 1
    BY <1>11, <2>1, <2>2 DEF Tick
  <2>4. beat[w] = "renewing" => age'[w] = age[w] + 1
    BY <1>11 DEF Tick
  <2> QED
    BY <2>1, <2>2, <2>3, <2>4
<1>12. CASE UNCHANGED vars
  BY <1>12 DEF vars
<1> QED
  BY <1>1, <1>2, <1>3, <1>4, <1>5, <1>6, <1>7, <1>8, <1>9, <1>10, <1>11, <1>12
  DEF Next, Scope, Heartbeat

(* A heartbeat in time keeps the row of the worker in the scope.           *)
THEOREM HeldThroughout ==
  ASSUME HeartbeatInTime
  PROVE  Spec => []ScopeHoldsLease
<1>1. Init => ScopeHoldsLease
  BY DEF Init, ScopeHoldsLease, Held, InScope
<1>2. TypeOK /\ [Next]_vars /\ timing' = "punctual" => timing = "punctual"
  BY DEF TypeOK, Next, Scope, Heartbeat, Ask, Acquire, Enter, Refuse, BeginCheck, Check,
         Act, Finish, Leave, Crash, Over, BeginBeat, Beat, BeatDies, Tick, vars
<1>3. TypeOK /\ ScopeHoldsLease /\ [Next]_vars => ScopeHoldsLease'
  BY <1>2, HeldStep, HeartbeatInTime DEF ScopeHoldsLease
<1> QED
  BY <1>1, <1>3, TypeCorrect, PTL DEF Spec

(* Maintenance operations exclude each other: two workers in the scope     *)
(* would both be the owner of the one row.                                 *)
THEOREM Exclusive ==
  ASSUME HeartbeatInTime
  PROVE  Spec => []ScopesExclusive
<1>1. ScopeHoldsLease => ScopesExclusive
  BY DEF ScopeHoldsLease, Held, ScopesExclusive, InScope
<1> QED
  BY <1>1, HeldThroughout, HeartbeatInTime, PTL

-----------------------------------------------------------------------------
(* A worker that has passed its check: either the row is still its own and *)
(* expired no longer ago than the check's now, or it has been gone for no  *)
(* longer than that.  A row that is the worker's has not been gone, and    *)
(* the renewal under way can only bring its expiry forward.                *)
Fresh ==
    \A w \in Worker :
        /\ pc[w] = "cleared" => IF holder = w THEN left >= -since[w] ELSE gone[w] <= since[w]
        /\ w \in InScope /\ holder = w => gone[w] = 0
        /\ pc[w] \in {"idle", "asking"} => gone[w] = 0
        /\ beat[w] = "renewing" /\ holder = w => left <= Remaining(age[w])

LEMMA FreshStep == TypeOK /\ Fresh /\ [Next]_vars => Fresh'
<1> SUFFICES ASSUME TypeOK, Fresh, [Next]_vars
             PROVE  Fresh'
  OBVIOUS
<1> USE LeaseAssumption, RemainingType
    DEF LeaseAssumption, TypeOK, Fresh, InScope, Beating
<1>1. ASSUME NEW w \in Worker, Ask(w) \/ Refuse(w) \/ Act(w)
      PROVE  Fresh'
  BY <1>1 DEF Ask, Refuse, Act
<1>2. ASSUME NEW w \in Worker, Acquire(w)
      PROVE  Fresh'
  BY <1>2 DEF Acquire, Enter
<1>3. ASSUME NEW w \in Worker, BeginCheck(w)
      PROVE  Fresh'
  BY <1>3 DEF BeginCheck, Lose, StopBeat
<1>4. ASSUME NEW w \in Worker, Check(w)
      PROVE  Fresh'
  BY <1>4 DEF Check, Lose, StopBeat
<1>5. ASSUME NEW w \in Worker, Finish(w)
      PROVE  Fresh'
  BY <1>5 DEF Finish, StopBeat
<1>6. ASSUME NEW w \in Worker, Leave(w) \/ Crash(w)
      PROVE  Fresh'
  BY <1>6 DEF Leave, Crash, Over
<1>7. ASSUME NEW w \in Worker, BeginBeat(w)
      PROVE  Fresh'
  BY <1>7 DEF BeginBeat, Remaining, Oldest
<1>8. ASSUME NEW w \in Worker, Beat(w)
      PROVE  Fresh'
  BY <1>8 DEF Beat
<1>9. ASSUME NEW w \in Worker, BeatDies(w)
      PROVE  Fresh'
  BY <1>9 DEF BeatDies
<1>10. CASE Tick
  BY <1>10 DEF Tick, InUse, Remaining, Oldest
<1>11. CASE UNCHANGED vars
  BY <1>11 DEF vars
<1> QED
  BY <1>1, <1>2, <1>3, <1>4, <1>5, <1>6, <1>7, <1>8, <1>9, <1>10, <1>11
  DEF Next, Scope, Heartbeat

(* However late or dead the heartbeats are, a file operation is backed by  *)
(* a lease that was valid no more than Gap before.                         *)
THEOREM ActsAreFresh == Spec => ActsFresh
<1>1. Init => Fresh
  BY DEF Init, Fresh
<1>2. TypeOK /\ Fresh => \A w \in Worker : pc[w] = "cleared" => FreshEnough(w)
  BY LeaseAssumption DEF LeaseAssumption, TypeOK, Fresh, FreshEnough, Oldest
<1>3. TypeOK /\ Fresh /\ [Next]_vars =>
        [\A w \in Worker : pc[w] = "cleared" /\ pc'[w] = "working" => FreshEnough(w)]_vars
  BY <1>2
<1> QED
  BY <1>1, <1>3, FreshStep, TypeCorrect, PTL DEF Spec, ActsFresh

(* Nobody takes an unexpired row away from its owner: only the owner's own *)
(* end does.                                                               *)
THEOREM RowIsNotStolen == Spec => NoTheft
<1>1. TypeOK /\ [Next]_vars =>
        [\A w \in Worker : holder = w /\ left >= 0 /\ holder' # w => pc[w] = "leaving"]_vars
  <2> SUFFICES ASSUME TypeOK, [Next]_vars,
                      NEW w \in Worker, holder = w, left >= 0, holder' # w
               PROVE  pc[w] = "leaving"
    OBVIOUS
  <2>1. holder # None /\ left \in Int /\ \A v \in Worker : since[v] \in Nat
    BY LeaseAssumption DEF LeaseAssumption, TypeOK, Oldest
  <2>2. \A v \in Worker : ~Free(v)
    BY <2>1 DEF Free
  <2>3. PICK v \in Worker : Leave(v)
    BY <2>2 DEF Next, Scope, Heartbeat, Ask, Acquire, Refuse, BeginCheck, Check, Act, Finish,
                Crash, BeginBeat, Beat, BeatDies, Tick, vars
  <2> QED
    BY <2>3 DEF Leave
<1> QED
  BY <1>1, TypeCorrect, PTL DEF Spec, NoTheft

=============================================================================
