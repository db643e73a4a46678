----------------------------- MODULE SlotProofs -----------------------------
(***************************************************************************)
(* Theorems about the two that hand out a limited number of slots.         *)
(*                                                                         *)
(* TaskAdmission, for every set of clients and task codes and every number *)
(* of heavy_sync tokens; the exclusion results assume the queue limit the  *)
(* program ships with, one waiter per task code.                           *)
(*                                                                         *)
(* DownloaderApiRuntime, for every set of calls and downloaders and every  *)
(* capacity.                                                               *)
(***************************************************************************)
EXTENDS TaskAdmission, DownloaderApiRuntime, FiniteSetTheorems, TLAPS

(* settings.SYNC_HEAVY_QUEUE_LIMIT = 1, its default.                       *)
OneQueueSlot == QueueLimit = 1

-----------------------------------------------------------------------------
(* Typing.                                                                 *)

(* What the deque step does to the types of the variables it changes.      *)
LEMMA WakeType ==
    ASSUME TypeOK, NEW c \in Client, NEW v \in Nat, NEW n \in Nat,
           NEW next \in AtRest \cup {"holding"},
           Wake(c, next, v, n)
    PROVE  /\ value' \in Nat
           /\ pc' \in [Client -> AtRest \cup Waiting \cup {"holding"}]
  <1>1. PICK D \in SUBSET (Pending \ {c}) :
            /\ IsFirst(D, Lesser(n, v), Pending \ {c})
            /\ value' = v - Cardinality(D)
            /\ pc' = [d \in Client |-> IF d = c THEN next
                                       ELSE IF d \in D THEN "granted"
                                       ELSE pc[d]]
    BY DEF Wake
  <1>2. /\ IsFiniteSet(Pending \ {c})
        /\ IsFiniteSet(D)
    BY AdmissionAssumption, FS_Subset DEF Pending
  <1>3. Cardinality(D) \in Nat /\ Cardinality(Pending \ {c}) \in Nat
    BY <1>2, FS_CardinalityType
  <1>4. Cardinality(D) <= v
    BY <1>1, <1>3 DEF IsFirst, Lesser
  <1>5. value' \in Nat
    BY <1>1, <1>3, <1>4
  <1>6. pc' \in [Client -> AtRest \cup Waiting \cup {"holding"}]
    BY <1>1 DEF TypeOK, Waiting
  <1> QED
    BY <1>5, <1>6

(* One step of any client keeps the types.                                 *)
LEMMA TypeStep == TypeOK /\ [Next]_vars => TypeOK'
  <1> SUFFICES ASSUME TypeOK, [Next]_vars PROVE TypeOK'
    OBVIOUS
  <1>1. ASSUME NEW c \in Client, NEW k \in TaskCode, SkipDuplicate(c, k)
        PROVE  TypeOK'
    BY <1>1 DEF TypeOK, SkipDuplicate, AtRest
  <1>2. ASSUME NEW c \in Client, NEW k \in TaskCode, AdmitAtOnce(c, k)
        PROVE  TypeOK'
    BY <1>2 DEF TypeOK, AdmitAtOnce, Locked
  <1>3. ASSUME NEW c \in Client, NEW k \in TaskCode, Enqueue(c, k)
        PROVE  TypeOK'
    BY <1>3 DEF TypeOK, Enqueue, Waiters, Waiting
  <1>4. ASSUME NEW c \in Client, TimerFires(c)
        PROVE  TypeOK'
    BY <1>4 DEF TypeOK, TimerFires, DropFuture, Waiting
  <1>5. ASSUME NEW c \in Client, Cancel(c)
        PROVE  TypeOK'
    BY <1>5 DEF TypeOK, Cancel, DropFuture, Waiting
  <1>6. ASSUME NEW c \in Client, Resume(c)
        PROVE  TypeOK'
    <2>1. /\ value' \in Nat
          /\ pc' \in [Client -> AtRest \cup Waiting \cup {"holding"}]
      BY <1>6, WakeType DEF Resume, TypeOK
    <2> QED
      BY <1>6, <2>1 DEF TypeOK, Resume, LeaveDeque, Decrement
  <1>7. ASSUME NEW c \in Client, GiveUp(c)
        PROVE  TypeOK'
    <2> DEFINE v == IF pc[c] = "granted" THEN value + 1 ELSE value
               next == IF stop[c] = "timeout" THEN "timedOut" ELSE "cancelled"
    <2>1. v \in Nat /\ next \in AtRest \cup {"holding"} /\ Wake(c, next, v, v)
      BY <1>7 DEF TypeOK, GiveUp, AtRest
    <2>2. /\ value' \in Nat
          /\ pc' \in [Client -> AtRest \cup Waiting \cup {"holding"}]
      BY <2>1, WakeType
    <2>3. queued' \in [TaskCode -> Nat]
      BY <1>7 DEF TypeOK, GiveUp, QueueAfterStop, Decrement
    <2> QED
      BY <1>7, <2>2, <2>3 DEF TypeOK, GiveUp, LeaveDeque
  <1>8. ASSUME NEW c \in Client, Release(c)
        PROVE  TypeOK'
    <2>1. /\ value' \in Nat
          /\ pc' \in [Client -> AtRest \cup Waiting \cup {"holding"}]
      <3>1. CASE code[c] \in running
        BY <1>8, <3>1, WakeType DEF Release, TypeOK, AtRest
      <3>2. CASE code[c] \notin running
        BY <1>8, <3>2 DEF Release, TypeOK, AtRest
      <3> QED
        BY <3>1, <3>2
    <2> QED
      BY <1>8, <2>1 DEF TypeOK, Release
  <1>9. CASE UNCHANGED vars
    BY <1>9 DEF TypeOK, vars
  <1> QED
    BY <1>1, <1>2, <1>3, <1>4, <1>5, <1>6, <1>7, <1>8, <1>9 DEF Next

(* The initial state is well typed.                                        *)
LEMMA TypeInit == Init => TypeOK
  BY AdmissionAssumption DEF Init, TypeOK, AtRest

(* Type correctness of the controller.                                     *)
THEOREM TypeCorrect == Spec => []TypeOK
  BY TypeInit, TypeStep, PTL DEF Spec

-----------------------------------------------------------------------------
(* Exclusion.                                                              *)

(* Waking others changes neither who holds nor who waits, apart from c.    *)
LEMMA WakeMembers ==
    ASSUME TypeOK, NEW c \in Client, NEW v \in Nat, NEW n \in Nat,
           NEW next \in AtRest \cup {"holding"},
           Wake(c, next, v, n)
    PROVE  /\ Waiters' = Waiters \ {c}
           /\ Holders' = IF next = "holding" THEN Holders \cup {c} ELSE Holders \ {c}
  BY DEF Wake, TypeOK, Waiters, Holders, Pending, Waiting, AtRest

(* A step of any client keeps a task code exclusive.                       *)
LEMMA ExclusionStep ==
    OneQueueSlot /\ TypeOK /\ ExclusionInv /\ [Next]_vars => ExclusionInv'
  <1> SUFFICES ASSUME OneQueueSlot, TypeOK, ExclusionInv, [Next]_vars
               PROVE  ExclusionInv'
    OBVIOUS
  <1> USE DEF ExclusionInv, RunningRegistry
  <1>1. ASSUME NEW c \in Client, NEW k \in TaskCode, SkipDuplicate(c, k)
        PROVE  ExclusionInv'
    <2>1. Waiters' = Waiters /\ Holders' = Holders /\ c \notin Waiters \cup Holders
      BY <1>1 DEF TypeOK, SkipDuplicate, Waiters, Holders, Waiting, AtRest
    <2>2. \A d \in Waiters \cup Holders : code'[d] = code[d]
      BY <1>1, <2>1 DEF TypeOK, SkipDuplicate
    <2> QED
      BY <1>1, <2>1, <2>2 DEF SkipDuplicate
  <1>2. ASSUME NEW c \in Client, NEW k \in TaskCode, AdmitAtOnce(c, k)
        PROVE  ExclusionInv'
    <2>1. /\ Waiters' = Waiters /\ Holders' = Holders \cup {c}
          /\ c \notin Waiters \cup Holders
      BY <1>2 DEF TypeOK, AdmitAtOnce, Waiters, Holders, Waiting, AtRest
    <2>2. \A d \in Waiters \cup Holders : code'[d] = code[d]
      BY <1>2, <2>1 DEF TypeOK, AdmitAtOnce
    <2>3. code'[c] = k
      BY <1>2 DEF TypeOK, AdmitAtOnce
    <2>4. k \notin running /\ queued[k] = 0
      BY <1>2 DEF AdmitAtOnce, IsDuplicate, OneQueueSlot, TypeOK
    <2>5. \A d \in Waiters \cup Holders : code[d] # k
      BY <2>4
    <2>6. running' = running \cup {k} /\ queued' = queued
      BY <1>2 DEF AdmitAtOnce
    <2>7. running' = {code'[d] : d \in Holders'}
      BY <2>1, <2>2, <2>3, <2>6
    <2> QED
      BY <2>1, <2>2, <2>3, <2>5, <2>6, <2>7
  <1>3. ASSUME NEW c \in Client, NEW k \in TaskCode, Enqueue(c, k)
        PROVE  ExclusionInv'
    <2>1. /\ Waiters' = Waiters \cup {c} /\ Holders' = Holders
          /\ c \notin Waiters \cup Holders
      BY <1>3 DEF TypeOK, Enqueue, Waiters, Holders, Waiting, AtRest
    <2>2. \A d \in Waiters \cup Holders : code'[d] = code[d]
      BY <1>3, <2>1 DEF TypeOK, Enqueue
    <2>3. code'[c] = k
      BY <1>3 DEF TypeOK, Enqueue
    <2>4. k \notin running /\ queued[k] = 0
      BY <1>3 DEF Enqueue, IsDuplicate, OneQueueSlot, TypeOK
    <2>5. \A d \in Waiters \cup Holders : code[d] # k
      BY <2>4
    <2>6. \A d \in Waiters' : queued'[code'[d]] >= 1
      <3>1. queued'[k] = 1 /\ \A j \in TaskCode \ {k} : queued'[j] = queued[j]
        BY <1>3, <2>4 DEF TypeOK, Enqueue
      <3>2. \A d \in Waiters : code[d] \in TaskCode
        BY DEF TypeOK, Waiters
      <3> QED
        BY <2>1, <2>2, <2>3, <2>5, <3>1, <3>2
    <2>7. running' = {code'[d] : d \in Holders'}
      BY <1>3, <2>1, <2>2 DEF Enqueue
    <2> QED
      BY <2>1, <2>2, <2>3, <2>5, <2>6, <2>7
  <1>4. ASSUME NEW c \in Client, TimerFires(c) \/ Cancel(c)
        PROVE  ExclusionInv'
    <2>1. Waiters' = Waiters /\ Holders' = Holders
      BY <1>4 DEF TypeOK, TimerFires, Cancel, DropFuture, Waiters, Holders, Waiting
    <2> QED
      BY <1>4, <2>1 DEF TimerFires, Cancel
  <1>5. ASSUME NEW c \in Client, Resume(c)
        PROVE  ExclusionInv'
    <2>1. Waiters' = Waiters \ {c} /\ Holders' = Holders \cup {c}
      BY <1>5, WakeMembers DEF Resume, TypeOK
    <2>2. c \in Waiters
      BY <1>5 DEF Resume, Waiters, Waiting
    <2>3. /\ code' = code
          /\ running' = running \cup {code[c]}
          /\ queued' = [queued EXCEPT ![code[c]] = Decrement(@)]
      BY <1>5 DEF Resume
    <2>4. \A d \in Waiters' : queued'[code[d]] = queued[code[d]]
      <3>1. \A d \in Waiters' : code[d] \in TaskCode /\ code[d] # code[c]
        BY <2>1, <2>2 DEF TypeOK, Waiters
      <3> QED
        BY <2>3, <3>1 DEF TypeOK
    <2>5. running' = {code'[d] : d \in Holders'}
      BY <2>1, <2>3
    <2> QED
      BY <2>1, <2>2, <2>3, <2>4, <2>5
  <1>6. ASSUME NEW c \in Client, GiveUp(c)
        PROVE  ExclusionInv'
    <2> DEFINE v == IF pc[c] = "granted" THEN value + 1 ELSE value
               next == IF stop[c] = "timeout" THEN "timedOut" ELSE "cancelled"
    <2>1. v \in Nat /\ next \in AtRest /\ next # "holding" /\ Wake(c, next, v, v)
      BY <1>6 DEF TypeOK, GiveUp, AtRest
    <2>2. c \in Waiters /\ c \notin Holders
      BY <1>6 DEF GiveUp, Waiters, Holders, Waiting
    <2>3. Waiters' = Waiters \ {c} /\ Holders' = Holders
      <3>1. Holders' = Holders \ {c}
        BY <2>1, WakeMembers
      <3> QED
        BY <2>1, <2>2, <3>1, WakeMembers
    <2>4. code' = code /\ running' = running /\ queued' = QueueAfterStop(c)
      BY <1>6 DEF GiveUp
    <2>5. \A d \in Waiters' : queued'[code[d]] = queued[code[d]]
      <3>1. \A d \in Waiters' : code[d] \in TaskCode /\ code[d] # code[c]
        BY <2>2, <2>3 DEF TypeOK, Waiters
      <3> QED
        BY <2>4, <3>1 DEF TypeOK, QueueAfterStop
    <2> QED
      BY <2>3, <2>4, <2>5
  <1>7. ASSUME NEW c \in Client, Release(c)
        PROVE  ExclusionInv'
    <2>1. c \in Holders /\ c \notin Waiters
      BY <1>7 DEF Release, Waiters, Holders, Waiting
    <2>2. code[c] \in running
      BY <2>1
    <2>3. Waiters' = Waiters /\ Holders' = Holders \ {c}
      <3>1. Wake(c, "idle", value + 1, 1) /\ value + 1 \in Nat
        BY <1>7, <2>2 DEF Release, TypeOK
      <3>2. Waiters' = Waiters \ {c} /\ Holders' = Holders \ {c}
        BY <3>1, WakeMembers DEF AtRest
      <3> QED
        BY <2>1, <3>2
    <2>4. code' = code /\ running' = running \ {code[c]} /\ queued' = queued
      BY <1>7 DEF Release
    <2>5. running' = {code[d] : d \in Holders \ {c}}
      BY <2>1, <2>4
    <2> QED
      BY <2>3, <2>4, <2>5
  <1>8. CASE UNCHANGED vars
    BY <1>8 DEF vars, Waiters, Holders
  <1> QED
    BY <1>1, <1>2, <1>3, <1>4, <1>5, <1>6, <1>7, <1>8 DEF Next

(* With one queue slot per code, every behaviour keeps a task code         *)
(* exclusive and the registry exact.                                       *)
THEOREM Exclusion ==
    ASSUME OneQueueSlot PROVE Spec => []ExclusionInv
  <1>1. Init => ExclusionInv
    BY DEF Init, ExclusionInv, RunningRegistry, Waiters, Holders, Waiting
  <1>2. TypeOK /\ ExclusionInv /\ [Next]_vars => ExclusionInv'
    BY OneQueueSlot, ExclusionStep
  <1> QED
    BY <1>1, <1>2, TypeCorrect, PTL DEF Spec

(* No two bodies of one task code run together: the duplicate check of     *)
(* acquire works although it and the registration are separate steps.      *)
THEOREM CodeExclusion ==
    ASSUME OneQueueSlot PROVE Spec => []OneRunPerCode
  <1>1. ExclusionInv => OneRunPerCode
    BY DEF ExclusionInv, OneRunPerCode
  <1>2. Spec => []ExclusionInv
    BY OneQueueSlot, Exclusion
  <1> QED
    BY <1>1, <1>2, PTL

-----------------------------------------------------------------------------
(* Conservation of tokens.                                                 *)

Tokens == Granted \cup Holders     \* the clients a token has been given to

LEMMA FiniteParts ==
    /\ IsFiniteSet(Tokens) /\ Cardinality(Tokens) \in Nat
    /\ IsFiniteSet(Holders) /\ Cardinality(Holders) \in Nat
    /\ Cardinality(Holders) <= Cardinality(Tokens)
    /\ \A S \in SUBSET Client : IsFiniteSet(S) /\ Cardinality(S) \in Nat
  <1>1. \A S \in SUBSET Client : IsFiniteSet(S) /\ Cardinality(S) \in Nat
    BY AdmissionAssumption, FS_Subset, FS_CardinalityType
  <1>2. Tokens \in SUBSET Client /\ Holders \in SUBSET Tokens
    BY DEF Tokens, Granted, Holders
  <1>3. Cardinality(Holders) <= Cardinality(Tokens)
    BY <1>1, <1>2, FS_Subset
  <1> QED
    BY <1>1, <1>2, <1>3

(* Waking hands out exactly the tokens it takes from the semaphore.        *)
LEMMA WakeTokens ==
    ASSUME TypeOK, NEW c \in Client, NEW v \in Nat, NEW n \in Nat,
           NEW next \in AtRest \cup {"holding"},
           Wake(c, next, v, n)
    PROVE  value' + Cardinality(Tokens') =
             v + Cardinality(Tokens \ {c}) + (IF next = "holding" THEN 1 ELSE 0)
  <1>1. PICK D \in SUBSET (Pending \ {c}) :
            /\ IsFirst(D, Lesser(n, v), Pending \ {c})
            /\ value' = v - Cardinality(D)
            /\ pc' = [d \in Client |-> IF d = c THEN next
                                       ELSE IF d \in D THEN "granted"
                                       ELSE pc[d]]
    BY DEF Wake
  <1> DEFINE T == Tokens \ {c}
  <1>2. /\ D \in SUBSET Client /\ T \in SUBSET Client
        /\ T \cap D = {} /\ c \notin T \cup D
    BY DEF Tokens, Granted, Holders, Pending
  <1>3. /\ IsFiniteSet(D) /\ Cardinality(D) \in Nat
        /\ IsFiniteSet(T) /\ Cardinality(T) \in Nat
    BY <1>2, FiniteParts
  <1>4. IsFiniteSet(T \cup D) /\ Cardinality(T \cup D) = Cardinality(T) + Cardinality(D)
    <2>1. /\ IsFiniteSet(T \cup D)
          /\ Cardinality(T \cup D) =
               Cardinality(T) + Cardinality(D) - Cardinality(T \cap D)
      BY <1>3, FS_Union
    <2>2. Cardinality(T \cap D) = 0
      BY <1>2, FS_EmptySet
    <2> HIDE DEF T
    <2> QED
      BY <2>1, <2>2, <1>3
  <1>5. \A d \in Client : d \in Tokens' <=> pc'[d] \in {"granted", "holding"}
    BY DEF Tokens, Granted, Holders
  <1>6. CASE next = "holding"
    <2>1. \A d \in Client : d \in Tokens' <=> d \in (T \cup D) \cup {c}
      <3> SUFFICES ASSUME NEW d \in Client
                   PROVE  d \in Tokens' <=> d \in (T \cup D) \cup {c}
        OBVIOUS
      <3>1. d \in Tokens <=> pc[d] \in {"granted", "holding"}
        BY DEF Tokens, Granted, Holders
      <3>2. pc'[d] = IF d = c THEN "holding" ELSE IF d \in D THEN "granted" ELSE pc[d]
        BY <1>1, <1>6
      <3> QED
        BY <1>5, <3>1, <3>2
    <2>2. Tokens' = (T \cup D) \cup {c}
      BY <1>2, <2>1 DEF Tokens, Granted, Holders
    <2>3. Cardinality(Tokens') = Cardinality(T \cup D) + 1
      BY <2>2, <1>2, <1>4, FS_AddElement
    <2> QED
      BY <1>1, <1>3, <1>4, <1>6, <2>3
  <1>7. CASE next # "holding"
    <2>1. next \notin {"granted", "holding"}
      BY <1>7 DEF AtRest
    <2>2. \A d \in Client : d \in Tokens' <=> d \in T \cup D
      BY <1>1, <2>1, <1>5 DEF Tokens, Granted, Holders
    <2>3. Tokens' = T \cup D
      BY <1>2, <2>2 DEF Tokens, Granted, Holders
    <2> QED
      BY <1>1, <1>3, <1>4, <1>7, <2>3
  <1> QED
    BY <1>6, <1>7

(* A step of any client keeps the sum of the free and the given tokens.    *)
LEMMA TokenStep ==
    TypeOK /\ ExclusionInv /\ TokenConservation /\ [Next]_vars => TokenConservation'
  <1> SUFFICES ASSUME TypeOK, ExclusionInv, TokenConservation, [Next]_vars
               PROVE  TokenConservation'
    OBVIOUS
  <1>0. /\ TokenConservation <=> value + Cardinality(Tokens) = HeavyConcurrency
        /\ TokenConservation' <=> value' + Cardinality(Tokens') = HeavyConcurrency
    BY DEF TokenConservation, Tokens
  <1>1. ASSUME NEW c \in Client, NEW k \in TaskCode,
               SkipDuplicate(c, k) \/ Enqueue(c, k)
        PROVE  TokenConservation'
    <2>1. Tokens' = Tokens /\ value' = value
      BY <1>1 DEF TypeOK, SkipDuplicate, Enqueue, Tokens, Granted, Holders, AtRest
    <2> QED
      BY <1>0, <2>1
  <1>2. ASSUME NEW c \in Client, NEW k \in TaskCode, AdmitAtOnce(c, k)
        PROVE  TokenConservation'
    <2>1. Tokens' = Tokens \cup {c} /\ c \notin Tokens
      BY <1>2 DEF TypeOK, AdmitAtOnce, Tokens, Granted, Holders, AtRest
    <2>2. Cardinality(Tokens') = Cardinality(Tokens) + 1
      BY <2>1, FiniteParts, FS_AddElement
    <2>3. value \in Nat /\ value' = value - 1
      BY <1>2 DEF TypeOK, AdmitAtOnce
    <2> QED
      BY <1>0, <2>2, <2>3, FiniteParts
  <1>3. ASSUME NEW c \in Client, TimerFires(c) \/ Cancel(c)
        PROVE  TokenConservation'
    <2>1. Tokens' = Tokens /\ value' = value
      BY <1>3 DEF TypeOK, TimerFires, Cancel, DropFuture, Tokens, Granted, Holders
    <2> QED
      BY <1>0, <2>1
  <1>4. ASSUME NEW c \in Client, Resume(c)
        PROVE  TokenConservation'
    <2>1. value' + Cardinality(Tokens') = value + Cardinality(Tokens \ {c}) + 1
      BY <1>4, WakeTokens DEF Resume, TypeOK
    <2>2. c \in Tokens
      BY <1>4 DEF Resume, Tokens, Granted
    <2>3. Cardinality(Tokens \ {c}) = Cardinality(Tokens) - 1
      BY <2>2, FiniteParts, FS_RemoveElement
    <2> QED
      BY <1>0, <2>1, <2>3, FiniteParts DEF TypeOK
  <1>5. ASSUME NEW c \in Client, GiveUp(c)
        PROVE  TokenConservation'
    <2> DEFINE v == IF pc[c] = "granted" THEN value + 1 ELSE value
               next == IF stop[c] = "timeout" THEN "timedOut" ELSE "cancelled"
    <2>1. v \in Nat /\ next \in AtRest /\ next # "holding" /\ Wake(c, next, v, v)
      BY <1>5 DEF TypeOK, GiveUp, AtRest
    <2>2. value' + Cardinality(Tokens') = v + Cardinality(Tokens \ {c})
      <3>1. value' + Cardinality(Tokens') =
              v + Cardinality(Tokens \ {c}) + (IF next = "holding" THEN 1 ELSE 0)
        BY <2>1, WakeTokens
      <3>2. Cardinality(Tokens \ {c}) \in Nat
        BY FiniteParts, FS_RemoveElement, FS_CardinalityType
      <3> QED
        BY <2>1, <3>1, <3>2
    <2>3. CASE pc[c] = "granted"
      <3>1. c \in Tokens
        BY <2>3 DEF Tokens, Granted
      <3>2. Cardinality(Tokens \ {c}) = Cardinality(Tokens) - 1
        BY <3>1, FiniteParts, FS_RemoveElement
      <3> QED
        BY <1>0, <2>2, <2>3, <3>2, FiniteParts DEF TypeOK
    <2>4. CASE pc[c] # "granted"
      <3>1. Tokens \ {c} = Tokens
        BY <1>5, <2>4 DEF GiveUp, Waiting, Tokens, Granted, Holders
      <3> QED
        BY <1>0, <2>2, <2>4, <3>1
    <2> QED
      BY <2>3, <2>4
  <1>6. ASSUME NEW c \in Client, Release(c)
        PROVE  TokenConservation'
    <2>1. c \in Holders /\ code[c] \in running
      BY <1>6 DEF Release, Holders, ExclusionInv, RunningRegistry
    <2>2. Wake(c, "idle", value + 1, 1) /\ value + 1 \in Nat
      BY <1>6, <2>1 DEF Release, TypeOK
    <2>3. value' + Cardinality(Tokens') = value + 1 + Cardinality(Tokens \ {c}) + 0
      BY <2>2, WakeTokens DEF AtRest
    <2>4. Cardinality(Tokens \ {c}) = Cardinality(Tokens) - 1
      BY <2>1, FiniteParts, FS_RemoveElement DEF Tokens
    <2> QED
      BY <1>0, <2>3, <2>4, FiniteParts DEF TypeOK
  <1>7. CASE UNCHANGED vars
    BY <1>0, <1>7 DEF vars, Tokens, Granted, Holders
  <1> QED
    BY <1>1, <1>2, <1>3, <1>4, <1>5, <1>6, <1>7 DEF Next

(* No race between grants, timers, cancellations and releases loses or     *)
(* makes up a token of heavy_sync.                                         *)
THEOREM Conservation ==
    ASSUME OneQueueSlot PROVE Spec => []TokenConservation
  <1>1. Init => TokenConservation
    <2> SUFFICES ASSUME Init PROVE TokenConservation
      OBVIOUS
    <2>1. Granted \cup Holders = {}
      BY DEF Init, Granted, Holders
    <2> QED
      BY <2>1, AdmissionAssumption, FS_EmptySet DEF Init, TokenConservation
  <1>2. Spec => []ExclusionInv
    BY OneQueueSlot, Exclusion
  <1> QED
    BY <1>1, <1>2, TokenStep, TypeCorrect, PTL DEF Spec

-----------------------------------------------------------------------------
(* Wake-ups.                                                               *)

(* Waking leaves nobody asleep, or has granted a token, or was told to     *)
(* wake fewer than it had tokens for.                                      *)
LEMMA WakeUsesTokens ==
    ASSUME TypeOK, NEW c \in Client, NEW v \in Nat, NEW n \in Nat,
           NEW next \in AtRest \cup {"holding"},
           Wake(c, next, v, n), n > 0
    PROVE  value' > 0 /\ Pending' # {} => Granted' # {}
  <1>1. PICK D \in SUBSET (Pending \ {c}) :
            /\ IsFirst(D, Lesser(n, v), Pending \ {c})
            /\ value' = v - Cardinality(D)
            /\ pc' = [d \in Client |-> IF d = c THEN next
                                       ELSE IF d \in D THEN "granted"
                                       ELSE pc[d]]
    BY DEF Wake
  <1> DEFINE P == Pending \ {c}
  <1>2. /\ P \in SUBSET Client /\ D \in SUBSET Client /\ c \notin D
        /\ IsFiniteSet(P) /\ Cardinality(P) \in Nat /\ Cardinality(D) \in Nat
    BY FiniteParts DEF Pending
  <1>3. Pending' \subseteq P
    BY <1>1 DEF Pending, AtRest
  <1>4. CASE D = {}
    <2>1. Cardinality(D) = 0
      BY <1>4, FS_EmptySet
    <2>2. Lesser(Lesser(n, v), Cardinality(P)) = 0
      BY <1>1, <2>1 DEF IsFirst
    <2>3. v = 0 \/ Cardinality(P) = 0
      BY <1>2, <2>2 DEF Lesser
    <2>4. v = 0 \/ P = {}
      BY <1>2, <2>3, FS_EmptySet
    <2> QED
      BY <1>1, <1>3, <2>1, <2>4
  <1>5. CASE D # {}
    <2>1. PICK d \in D : TRUE
      BY <1>5
    <2>2. d \in Granted'
      BY <1>1, <1>2, <2>1 DEF Granted
    <2> QED
      BY <2>2
  <1> QED
    BY <1>4, <1>5

(* The same of the leaving waiter or the resuming one, who hands on every  *)
(* token there is.                                                         *)
LEMMA WakeAll ==
    ASSUME TypeOK, NEW c \in Client, NEW v \in Nat,
           NEW next \in AtRest \cup {"holding"},
           Wake(c, next, v, v)
    PROVE  value' > 0 /\ Pending' # {} => Granted' # {}
  <1>1. CASE v > 0
    BY <1>1, WakeUsesTokens
  <1>2. CASE v = 0
    <2>1. PICK D \in SUBSET (Pending \ {c}) :
              IsFirst(D, Lesser(v, v), Pending \ {c}) /\ value' = v - Cardinality(D)
      BY DEF Wake
    <2>2. Cardinality(D) \in Nat
      BY FiniteParts DEF Pending
    <2> QED
      BY <1>2, <2>1, <2>2
  <1> QED
    BY <1>1, <1>2

LEMMA WakeupStep == TypeOK /\ NoLostWakeup /\ [Next]_vars => NoLostWakeup'
  <1> SUFFICES ASSUME TypeOK, NoLostWakeup, [Next]_vars PROVE NoLostWakeup'
    OBVIOUS
  <1>1. ASSUME NEW c \in Client, NEW k \in TaskCode, SkipDuplicate(c, k) \/ AdmitAtOnce(c, k)
        PROVE  NoLostWakeup'
    <2>1. CASE SkipDuplicate(c, k)
      <3>1. Pending' = Pending /\ Granted' = Granted /\ value' = value
        BY <2>1 DEF TypeOK, SkipDuplicate, Pending, Granted, AtRest
      <3> QED
        BY <3>1 DEF NoLostWakeup
    <2>2. CASE AdmitAtOnce(c, k)
      <3>1. Pending' = {}
        BY <2>2 DEF TypeOK, AdmitAtOnce, Locked, Pending
      <3> QED
        BY <3>1 DEF NoLostWakeup
    <2> QED
      BY <1>1, <2>1, <2>2
  <1>2. ASSUME NEW c \in Client, NEW k \in TaskCode, Enqueue(c, k)
        PROVE  NoLostWakeup'
    <2>1. Granted' = Granted /\ value' = value
      BY <1>2 DEF TypeOK, Enqueue, Granted, AtRest
    <2>2. value = 0 \/ Pending # {} \/ Granted # {}
      BY <1>2 DEF Enqueue, Locked, Pending, Granted
    <2> QED
      BY <2>1, <2>2 DEF NoLostWakeup, TypeOK
  <1>3. ASSUME NEW c \in Client, TimerFires(c) \/ Cancel(c)
        PROVE  NoLostWakeup'
    <2>1. Pending' \subseteq Pending /\ Granted' = Granted /\ value' = value
      BY <1>3 DEF TypeOK, TimerFires, Cancel, DropFuture, Pending, Granted
    <2> QED
      BY <2>1 DEF NoLostWakeup
  <1>4. ASSUME NEW c \in Client, Resume(c)
        PROVE  NoLostWakeup'
    BY <1>4, WakeAll DEF Resume, TypeOK, NoLostWakeup
  <1>5. ASSUME NEW c \in Client, GiveUp(c)
        PROVE  NoLostWakeup'
    <2> DEFINE v == IF pc[c] = "granted" THEN value + 1 ELSE value
               next == IF stop[c] = "timeout" THEN "timedOut" ELSE "cancelled"
    <2>1. v \in Nat /\ next \in AtRest /\ Wake(c, next, v, v)
      BY <1>5 DEF TypeOK, GiveUp, AtRest
    <2> QED
      BY <2>1, WakeAll DEF NoLostWakeup
  <1>6. ASSUME NEW c \in Client, Release(c)
        PROVE  NoLostWakeup'
    <2>1. CASE code[c] \in running
      BY <1>6, <2>1, WakeUsesTokens DEF Release, TypeOK, AtRest, NoLostWakeup
    <2>2. CASE code[c] \notin running
      <3>1. Pending' = Pending /\ Granted' = Granted /\ value' = value
        BY <1>6, <2>2 DEF Release, TypeOK, Pending, Granted
      <3> QED
        BY <3>1 DEF NoLostWakeup
    <2> QED
      BY <2>1, <2>2
  <1>7. CASE UNCHANGED vars
    BY <1>7 DEF vars, NoLostWakeup, Pending, Granted
  <1> QED
    BY <1>1, <1>2, <1>3, <1>4, <1>5, <1>6, <1>7 DEF Next

(* A token never lies free beside a sleeping client that nobody is about   *)
(* to wake, whatever the queue limit and the order in which grants, timers *)
(* and cancellations meet.                                                 *)
THEOREM NoWakeupLost == Spec => []NoLostWakeup
  <1>1. Init => NoLostWakeup
    BY DEF Init, NoLostWakeup, Pending
  <1> QED
    BY <1>1, WakeupStep, TypeCorrect, PTL DEF Spec

-----------------------------------------------------------------------------
(* The refinement.                                                         *)

(* The instance counts with the Cardinality of this module.                *)
LEMMA SlotsCardinality == \A S : Slots!Cardinality(S) = Cardinality(S)
  BY DEF Slots!Cardinality, Cardinality

LEMMA SlotsStep ==
    ASSUME OneQueueSlot
    PROVE  TypeOK /\ ExclusionInv /\ TokenConservation /\ TokenConservation' /\ TypeOK'
             /\ ExclusionInv' /\ [Next]_vars
             => [Slots!Next]_Body
  <1> SUFFICES ASSUME TypeOK, ExclusionInv, TokenConservation,
                      TypeOK', ExclusionInv', TokenConservation', [Next]_vars
               PROVE  [Slots!Next]_Body
    OBVIOUS
  <1>0. Slots!Running = Holders
    BY DEF Slots!Running, Body, Holders
  <1>1. ASSUME NEW c \in Client, NEW k \in TaskCode, c \notin Holders,
               Holders' = Holders \cup {c}, code'[c] = k,
               \A d \in Holders : code'[d] = code[d]
        PROVE  Slots!Start(c, k)
    <2>1. Cardinality(Holders) < HeavyConcurrency
      <3>1. Cardinality(Holders') = Cardinality(Holders) + 1
        BY <1>1, FiniteParts, FS_AddElement
      <3>2. /\ Cardinality(Holders') <= Cardinality(Tokens')
            /\ Cardinality(Tokens') \in Nat
        <4>1. Tokens' \in SUBSET Client /\ Holders' \in SUBSET Tokens'
          BY DEF Tokens, Granted, Holders
        <4>2. IsFiniteSet(Tokens')
          BY <4>1, FiniteParts
        <4> QED
          BY <4>1, <4>2, FS_Subset, FS_CardinalityType
      <3>3. value' + Cardinality(Tokens') = HeavyConcurrency /\ value' \in Nat
        BY DEF TokenConservation, Tokens, TypeOK
      <3> QED
        BY <3>1, <3>2, <3>3, FiniteParts, AdmissionAssumption
    <2>2. \A d \in Client : k \notin Body[d]
      BY <1>1 DEF Body, ExclusionInv, Holders
    <2>3. Body[c] = {}
      BY <1>1 DEF Body, Holders
    <2>4. Body' = [Body EXCEPT ![c] = {k}]
      <3>1. \A d \in Client : Body'[d] = IF d = c THEN {k} ELSE Body[d]
        BY <1>1 DEF Body, Holders
      <3> QED
        BY <3>1 DEF Body
    <2> QED
      BY <1>0, <2>1, <2>2, <2>3, <2>4, SlotsCardinality DEF Slots!Start
  <1>2. ASSUME Holders' = Holders, \A d \in Holders : code'[d] = code[d]
        PROVE  UNCHANGED Body
    BY <1>2 DEF Body, Holders
  <1>3. ASSUME NEW c \in Client, NEW k \in TaskCode,
               SkipDuplicate(c, k) \/ Enqueue(c, k)
        PROVE  UNCHANGED Body
    <2>1. Holders' = Holders /\ c \notin Holders
      BY <1>3 DEF TypeOK, SkipDuplicate, Enqueue, Holders, AtRest
    <2>2. code' = [code EXCEPT ![c] = k]
      BY <1>3 DEF SkipDuplicate, Enqueue
    <2>3. \A d \in Holders : code'[d] = code[d]
      BY <2>1, <2>2 DEF TypeOK, Holders
    <2> QED
      BY <1>2, <2>1, <2>3
  <1>4. ASSUME NEW c \in Client, NEW k \in TaskCode, AdmitAtOnce(c, k)
        PROVE  Slots!Start(c, k)
    <2>1. Holders' = Holders \cup {c} /\ c \notin Holders
      BY <1>4 DEF TypeOK, AdmitAtOnce, Holders, AtRest
    <2>2. code'[c] = k /\ \A d \in Holders : code'[d] = code[d]
      BY <1>4, <2>1 DEF TypeOK, AdmitAtOnce
    <2> QED
      BY <1>1, <2>1, <2>2
  <1>5. ASSUME NEW c \in Client, TimerFires(c) \/ Cancel(c)
        PROVE  UNCHANGED Body
    <2>1. Holders' = Holders /\ code' = code
      BY <1>5 DEF TypeOK, TimerFires, Cancel, DropFuture, Holders
    <2> QED
      BY <1>2, <2>1
  <1>6. ASSUME NEW c \in Client, Resume(c)
        PROVE  Slots!Start(c, code[c])
    <2>1. Holders' = Holders \cup {c} /\ code' = code
      BY <1>6, WakeMembers DEF Resume, TypeOK
    <2>2. c \notin Holders /\ code[c] \in TaskCode
      BY <1>6 DEF Resume, Holders, TypeOK
    <2> QED
      BY <1>1, <2>1, <2>2
  <1>7. ASSUME NEW c \in Client, GiveUp(c)
        PROVE  UNCHANGED Body
    <2> DEFINE v == IF pc[c] = "granted" THEN value + 1 ELSE value
               next == IF stop[c] = "timeout" THEN "timedOut" ELSE "cancelled"
    <2>1. v \in Nat /\ next \in AtRest /\ next # "holding" /\ Wake(c, next, v, v)
      BY <1>7 DEF TypeOK, GiveUp, AtRest
    <2>2. Holders' = Holders \ {c}
      BY <2>1, WakeMembers
    <2>3. c \notin Holders /\ code' = code
      BY <1>7 DEF GiveUp, Holders, Waiting
    <2> QED
      BY <1>2, <2>2, <2>3
  <1>8. ASSUME NEW c \in Client, Release(c)
        PROVE  Slots!Finish(c)
    <2>1. c \in Holders /\ code[c] \in running /\ code' = code
      BY <1>8 DEF Release, Holders, ExclusionInv, RunningRegistry
    <2>2. Wake(c, "idle", value + 1, 1) /\ value + 1 \in Nat
      BY <1>8, <2>1 DEF Release, TypeOK
    <2>3. Holders' = Holders \ {c}
      BY <2>2, WakeMembers DEF AtRest
    <2>4. Body[c] # {}
      BY <2>1 DEF Body, Holders
    <2>5. Body' = [Body EXCEPT ![c] = {}]
      <3>1. \A d \in Client : Body'[d] = IF d = c THEN {} ELSE Body[d]
        BY <2>1, <2>3 DEF Body, Holders
      <3> QED
        BY <3>1 DEF Body
    <2> QED
      BY <2>4, <2>5 DEF Slots!Finish
  <1>9. CASE UNCHANGED vars
    BY <1>9 DEF vars, Body
  <1> QED
    BY <1>3, <1>4, <1>5, <1>6, <1>7, <1>8, <1>9 DEF Next, Slots!Next, TypeOK

(* The controller, with its queue, semaphore, timers and cancellations,    *)
(* implements the slots it promises.                                       *)
THEOREM Refinement ==
    ASSUME OneQueueSlot PROVE Spec => ImplementsSlots
  <1>1. Init => Slots!Init
    BY DEF Init, Slots!Init, Body
  <1>2. TypeOK /\ ExclusionInv /\ TokenConservation /\ TokenConservation' /\ TypeOK'
             /\ ExclusionInv' /\ [Next]_vars
             => [Slots!Next]_Body
    BY OneQueueSlot, SlotsStep
  <1>3. Spec => []ExclusionInv /\ []TokenConservation
    BY OneQueueSlot, Exclusion, Conservation
  <1> QED
    BY <1>1, <1>2, <1>3, TypeCorrect, PTL DEF Spec, ImplementsSlots, Slots!Spec

-----------------------------------------------------------------------------
(* The runtime of downloader calls.                                        *)

(* What the slot accounting rests on: RuntimeTypeOK without the queues and the    *)
(* callers, and that only limited calls go near the background semaphore.  *)
SlotTypes ==
    /\ lane \in [Call -> Lane]
    /\ target \in [Call -> Downloader]
    /\ thread \in [Call -> {"idle", "queued", "over", "dropped"} \cup InThread]
    /\ total \in [Downloader -> Nat]
    /\ background \in [Downloader -> Nat]
    /\ \A c \in Call : thread[c] \in {"wantBackground", "releasing"} => Limited(c)

(* The downgraded background capacity is a number below the total.         *)
LEMMA EffectiveType ==
    EffectiveBackground \in Nat /\ EffectiveBackground < IoConcurrency
  BY RuntimeAssumption DEF RuntimeAssumption, EffectiveBackground

(* No step leaves those types.                                             *)
LEMMA SlotTypesStep == SlotTypes /\ [RuntimeNext]_runtimeVars => SlotTypes'
<1> SUFFICES ASSUME SlotTypes, [RuntimeNext]_runtimeVars
             PROVE  SlotTypes'
  OBVIOUS
<1> USE DEF SlotTypes, InThread, Limited
<1>1. ASSUME NEW c \in Call, Submit(c)
      PROVE  SlotTypes'
  BY <1>1 DEF Submit
<1>2. ASSUME NEW c \in Call, Start(c)
      PROVE  SlotTypes'
  BY <1>2 DEF Start
<1>3. ASSUME NEW c \in Call, TakeBackground(c) \/ TakeTotal(c)
      PROVE  SlotTypes'
  BY <1>3 DEF TakeBackground, TakeTotal
<1>4. ASSUME NEW c \in Call, RemoteEnds(c) \/ ReleaseBackground(c)
      PROVE  SlotTypes'
  BY <1>4 DEF RemoteEnds, ReleaseBackground
<1>5. ASSUME NEW c \in Call, CallerStep(c)
      PROVE  SlotTypes'
  BY <1>5 DEF CallerStep, Answer, TimeOut, Archive, Dropped
<1>6. CASE Shutdown
  BY <1>6 DEF Shutdown, Dropped
<1>7. CASE UNCHANGED runtimeVars
  BY <1>7 DEF runtimeVars
<1> QED
  BY <1>1, <1>2, <1>3, <1>4, <1>5, <1>6, <1>7 DEF RuntimeNext, ThreadStep

-----------------------------------------------------------------------------
(* What one slot taken or given back does to "free + held".                *)
LEMMA SlotTaken ==
  ASSUME NEW S, IsFiniteSet(S), NEW c, c \notin S,
         NEW n \in Nat, NEW k \in Nat, n + Cardinality(S) = k
  PROVE  (n - 1) + Cardinality(S \cup {c}) = k
<1>1. Cardinality(S \cup {c}) = Cardinality(S) + 1 /\ Cardinality(S) \in Nat
  BY FS_AddElement, FS_CardinalityType
<1> QED
  BY <1>1

LEMMA SlotReturned ==
  ASSUME NEW S, IsFiniteSet(S), NEW c \in S,
         NEW n \in Nat, NEW k \in Nat, n + Cardinality(S) = k
  PROVE  (n + 1) + Cardinality(S \ {c}) = k
<1>1. Cardinality(S \ {c}) = Cardinality(S) - 1 /\ Cardinality(S) \in Nat
  BY FS_RemoveElement, FS_CardinalityType
<1> QED
  BY <1>1

LEMMA HoldersFinite ==
    \A d \in Downloader :
        IsFiniteSet(TotalHolders(d)) /\ IsFiniteSet(BackgroundHolders(d))
  BY RuntimeAssumption, FS_Subset DEF RuntimeAssumption, TotalHolders, BackgroundHolders

(* With nothing started every slot is free.                                *)
LEMMA SlotsFreeAtFirst == RuntimeInit => SlotTypes /\ SlotConservation
<1> SUFFICES ASSUME RuntimeInit
             PROVE  SlotTypes /\ SlotConservation
  OBVIOUS
<1>1. SlotTypes
  BY EffectiveType, RuntimeAssumption DEF RuntimeAssumption, RuntimeInit, SlotTypes
<1>2. \A d \in Downloader : TotalHolders(d) = {} /\ BackgroundHolders(d) = {}
  BY DEF RuntimeInit, TotalHolders, BackgroundHolders
<1>3. Cardinality({}) = 0
  BY FS_EmptySet
<1>4. \A d \in Downloader : total[d] = IoConcurrency /\ background[d] = EffectiveBackground
  BY DEF RuntimeInit
<1>5. SlotConservation
  BY <1>2, <1>3, <1>4, EffectiveType, RuntimeAssumption
     DEF RuntimeAssumption, SlotConservation
<1> QED
  BY <1>1, <1>5

(* A step that moves no call into, out of or between the holding states    *)
(* and no slot keeps the account.                                          *)
LEMMA AccountUntouched ==
  ASSUME SlotConservation,
         UNCHANGED <<total, background>>,
         \A d \in Downloader : TotalHolders(d)' = TotalHolders(d),
         \A d \in Downloader : BackgroundHolders(d)' = BackgroundHolders(d)
  PROVE  SlotConservation'
  BY DEF SlotConservation, EffectiveBackground

LEMMA SlotConservationStep ==
    SlotTypes /\ SlotConservation /\ [RuntimeNext]_runtimeVars => SlotConservation'
<1> SUFFICES ASSUME SlotTypes, SlotConservation, [RuntimeNext]_runtimeVars
             PROVE  SlotConservation'
  OBVIOUS
<1> USE DEF SlotTypes
<1>1. ASSUME NEW c \in Call, Submit(c)
      PROVE  SlotConservation'
  <2>1. \A d \in Downloader : TotalHolders(d)' = TotalHolders(d)
    BY <1>1 DEF Submit, TotalHolders
  <2>2. \A d \in Downloader : BackgroundHolders(d)' = BackgroundHolders(d)
    BY <1>1 DEF Submit, BackgroundHolders, Limited
  <2> QED
    BY <1>1, <2>1, <2>2, AccountUntouched DEF Submit
<1>2. ASSUME NEW c \in Call, Start(c)
      PROVE  SlotConservation'
  <2>1. \A d \in Downloader : TotalHolders(d)' = TotalHolders(d)
    BY <1>2 DEF Start, TotalHolders
  <2>2. \A d \in Downloader : BackgroundHolders(d)' = BackgroundHolders(d)
    BY <1>2 DEF Start, BackgroundHolders, Limited
  <2> QED
    BY <1>2, <2>1, <2>2, AccountUntouched DEF Start
<1>3. ASSUME NEW c \in Call, TakeBackground(c)
      PROVE  SlotConservation'
  <2>1. \A d \in Downloader : TotalHolders(d)' = TotalHolders(d)
    BY <1>3 DEF TakeBackground, TotalHolders
  <2> SUFFICES ASSUME NEW d \in Downloader
               PROVE  background'[d] + Cardinality(BackgroundHolders(d)') = EffectiveBackground
    BY <1>3, <2>1 DEF TakeBackground, SlotConservation
  <2>2. background[d] + Cardinality(BackgroundHolders(d)) = EffectiveBackground
    BY DEF SlotConservation
  <2>3. CASE target[c] = d /\ Limited(c)
    <3>1. c \notin BackgroundHolders(d)
      BY <1>3 DEF TakeBackground, BackgroundHolders
    <3>2. BackgroundHolders(d)' = BackgroundHolders(d) \cup {c}
      BY <1>3, <2>3 DEF TakeBackground, BackgroundHolders, Limited
    <3>3. background'[d] = background[d] - 1 /\ background[d] \in Nat
      BY <1>3, <2>3 DEF TakeBackground
    <3> QED
      BY <2>2, <3>1, <3>2, <3>3, SlotTaken, HoldersFinite, EffectiveType
  <2>4. CASE target[c] # d
    <3>1. BackgroundHolders(d)' = BackgroundHolders(d)
      BY <1>3, <2>4 DEF TakeBackground, BackgroundHolders, Limited
    <3>2. background'[d] = background[d]
      BY <1>3, <2>4 DEF TakeBackground
    <3> QED
      BY <2>2, <3>1, <3>2
  <2> QED
    BY <1>3, <2>3, <2>4 DEF TakeBackground
<1>4. ASSUME NEW c \in Call, TakeTotal(c)
      PROVE  SlotConservation'
  <2>1. \A d \in Downloader : BackgroundHolders(d)' = BackgroundHolders(d)
    BY <1>4 DEF TakeTotal, BackgroundHolders, Limited
  <2> SUFFICES ASSUME NEW d \in Downloader
               PROVE  total'[d] + Cardinality(TotalHolders(d)') = IoConcurrency
    BY <1>4, <2>1 DEF TakeTotal, SlotConservation, EffectiveBackground
  <2>2. total[d] + Cardinality(TotalHolders(d)) = IoConcurrency
    BY DEF SlotConservation
  <2>3. CASE target[c] = d
    <3>1. c \notin TotalHolders(d)
      BY <1>4 DEF TakeTotal, TotalHolders
    <3>2. TotalHolders(d)' = TotalHolders(d) \cup {c}
      BY <1>4, <2>3 DEF TakeTotal, TotalHolders
    <3>3. total'[d] = total[d] - 1 /\ total[d] \in Nat
      BY <1>4, <2>3 DEF TakeTotal
    <3>4. IoConcurrency \in Nat
      BY RuntimeAssumption DEF RuntimeAssumption
    <3> QED
      BY <2>2, <3>1, <3>2, <3>3, <3>4, SlotTaken, HoldersFinite
  <2>4. CASE target[c] # d
    <3>1. TotalHolders(d)' = TotalHolders(d)
      BY <1>4, <2>4 DEF TakeTotal, TotalHolders
    <3>2. total'[d] = total[d]
      BY <1>4, <2>4 DEF TakeTotal
    <3> QED
      BY <2>2, <3>1, <3>2
  <2> QED
    BY <2>3, <2>4
<1>5. ASSUME NEW c \in Call, RemoteEnds(c)
      PROVE  SlotConservation'
  <2>1. \A d \in Downloader : BackgroundHolders(d)' = BackgroundHolders(d)
    BY <1>5 DEF RemoteEnds, BackgroundHolders, Limited
  <2> SUFFICES ASSUME NEW d \in Downloader
               PROVE  total'[d] + Cardinality(TotalHolders(d)') = IoConcurrency
    BY <1>5, <2>1 DEF RemoteEnds, SlotConservation, EffectiveBackground
  <2>2. total[d] + Cardinality(TotalHolders(d)) = IoConcurrency
    BY DEF SlotConservation
  <2>3. CASE target[c] = d
    <3>1. c \in TotalHolders(d)
      BY <1>5, <2>3 DEF RemoteEnds, TotalHolders
    <3>2. TotalHolders(d)' = TotalHolders(d) \ {c}
      BY <1>5 DEF RemoteEnds, TotalHolders
    <3>3. total'[d] = total[d] + 1 /\ total[d] \in Nat
      BY <1>5, <2>3 DEF RemoteEnds
    <3>4. IoConcurrency \in Nat
      BY RuntimeAssumption DEF RuntimeAssumption
    <3> QED
      BY <2>2, <3>1, <3>2, <3>3, <3>4, SlotReturned, HoldersFinite
  <2>4. CASE target[c] # d
    <3>1. TotalHolders(d)' = TotalHolders(d)
      BY <1>5, <2>4 DEF RemoteEnds, TotalHolders
    <3>2. total'[d] = total[d]
      BY <1>5, <2>4 DEF RemoteEnds
    <3> QED
      BY <2>2, <3>1, <3>2
  <2> QED
    BY <2>3, <2>4
<1>6. ASSUME NEW c \in Call, ReleaseBackground(c)
      PROVE  SlotConservation'
  <2>1. \A d \in Downloader : TotalHolders(d)' = TotalHolders(d)
    BY <1>6 DEF ReleaseBackground, TotalHolders
  <2> SUFFICES ASSUME NEW d \in Downloader
               PROVE  background'[d] + Cardinality(BackgroundHolders(d)') = EffectiveBackground
    BY <1>6, <2>1 DEF ReleaseBackground, SlotConservation
  <2>2. background[d] + Cardinality(BackgroundHolders(d)) = EffectiveBackground
    BY DEF SlotConservation
  <2>3. CASE target[c] = d
    <3>1. c \in BackgroundHolders(d)
      BY <1>6, <2>3 DEF ReleaseBackground, BackgroundHolders
    <3>2. BackgroundHolders(d)' = BackgroundHolders(d) \ {c}
      BY <1>6 DEF ReleaseBackground, BackgroundHolders, Limited
    <3>3. background'[d] = background[d] + 1 /\ background[d] \in Nat
      BY <1>6, <2>3 DEF ReleaseBackground
    <3> QED
      BY <2>2, <3>1, <3>2, <3>3, SlotReturned, HoldersFinite, EffectiveType
  <2>4. CASE target[c] # d
    <3>1. BackgroundHolders(d)' = BackgroundHolders(d)
      BY <1>6, <2>4 DEF ReleaseBackground, BackgroundHolders, Limited
    <3>2. background'[d] = background[d]
      BY <1>6, <2>4 DEF ReleaseBackground
    <3> QED
      BY <2>2, <3>1, <3>2
  <2> QED
    BY <2>3, <2>4
<1>7. ASSUME NEW c \in Call, CallerStep(c)
      PROVE  SlotConservation'
  <2>1. /\ UNCHANGED <<lane, target, total, background>>
        /\ \A d \in Call : \/ thread'[d] = thread[d]
                           \/ thread[d] = "queued" /\ thread'[d] = "dropped"
    BY <1>7 DEF CallerStep, Answer, TimeOut, Archive, Dropped
  <2>2. \A d \in Downloader : TotalHolders(d)' = TotalHolders(d)
    BY <2>1 DEF TotalHolders
  <2>3. \A d \in Downloader : BackgroundHolders(d)' = BackgroundHolders(d)
    BY <2>1 DEF BackgroundHolders, Limited
  <2> QED
    BY <2>1, <2>2, <2>3, AccountUntouched
<1>8. CASE Shutdown
  <2>1. /\ UNCHANGED <<lane, target, total, background>>
        /\ \A d \in Call : \/ thread'[d] = thread[d]
                           \/ thread[d] = "queued" /\ thread'[d] = "dropped"
    BY <1>8 DEF Shutdown, Dropped
  <2>2. \A d \in Downloader : TotalHolders(d)' = TotalHolders(d)
    BY <2>1 DEF TotalHolders
  <2>3. \A d \in Downloader : BackgroundHolders(d)' = BackgroundHolders(d)
    BY <2>1 DEF BackgroundHolders, Limited
  <2> QED
    BY <2>1, <2>2, <2>3, AccountUntouched
<1>9. CASE UNCHANGED runtimeVars
  <2>1. \A d \in Downloader : TotalHolders(d)' = TotalHolders(d)
    BY <1>9 DEF runtimeVars, TotalHolders
  <2>2. \A d \in Downloader : BackgroundHolders(d)' = BackgroundHolders(d)
    BY <1>9 DEF runtimeVars, BackgroundHolders, Limited
  <2> QED
    BY <1>9, <2>1, <2>2, AccountUntouched DEF runtimeVars
<1> QED
  BY <1>1, <1>2, <1>3, <1>4, <1>5, <1>6, <1>7, <1>8, <1>9 DEF RuntimeNext, ThreadStep

(* Every slot is free or held by a live thread of its downloader, whatever *)
(* times out, raises or is shut down.                                      *)
THEOREM SlotsConserved == RuntimeSpec => [](SlotTypes /\ SlotConservation)
<1>1. SlotTypes /\ SlotConservation /\ [RuntimeNext]_runtimeVars => (SlotTypes /\ SlotConservation)'
  BY SlotTypesStep, SlotConservationStep
<1> QED
  BY <1>1, SlotsFreeAtFirst, PTL DEF RuntimeSpec

(* The remote side of a downloader never sees more calls at once than its  *)
(* capacity.                                                               *)
THEOREM Bounded == RuntimeSpec => []RemoteBounded
<1>1. SlotTypes /\ SlotConservation => RemoteBounded
  <2> SUFFICES ASSUME SlotTypes, SlotConservation, NEW d \in Downloader
               PROVE  Cardinality(TotalHolders(d)) <= IoConcurrency
    BY DEF RemoteBounded
  <2>1. total[d] \in Nat /\ total[d] + Cardinality(TotalHolders(d)) = IoConcurrency
    BY DEF SlotTypes, SlotConservation
  <2>2. Cardinality(TotalHolders(d)) \in Nat
    BY HoldersFinite, FS_CardinalityType
  <2> QED
    BY <2>1, <2>2
<1> QED
  BY <1>1, SlotsConserved, PTL

(* A slot is left to interactive calls, whatever the configured numbers,   *)
(* as long as the background capacity is not zero.                         *)
THEOREM Reserve ==
  ASSUME BackgroundCapacity # 0
  PROVE  RuntimeSpec => []InteractiveReserve
<1>1. SlotTypes /\ SlotConservation => InteractiveReserve
  <2> SUFFICES ASSUME SlotTypes, SlotConservation, IoConcurrency > 1,
                      NEW d \in Downloader, total[d] = 0,
                      \A c \in TotalHolders(d) : lane[c] # "interactive"
               PROVE  FALSE
    BY DEF InteractiveReserve
  <2>1. EffectiveBackground > 0
    BY BackgroundCapacity # 0, RuntimeAssumption
       DEF RuntimeAssumption, EffectiveBackground
  <2>2. \A c \in TotalHolders(d) : Limited(c)
    BY <2>1 DEF SlotTypes, TotalHolders, Limited, Lane, Background
  <2>3. TotalHolders(d) \subseteq BackgroundHolders(d)
    BY <2>2 DEF TotalHolders, BackgroundHolders
  <2>4. /\ Cardinality(TotalHolders(d)) <= Cardinality(BackgroundHolders(d))
        /\ Cardinality(BackgroundHolders(d)) \in Nat
        /\ Cardinality(TotalHolders(d)) \in Nat
    BY <2>3, HoldersFinite, FS_Subset, FS_CardinalityType
  <2>5. /\ total[d] + Cardinality(TotalHolders(d)) = IoConcurrency
        /\ background[d] + Cardinality(BackgroundHolders(d)) = EffectiveBackground
        /\ background[d] \in Nat
    BY DEF SlotTypes, SlotConservation
  <2>6. total[d] = 0 /\ IoConcurrency \in Nat
    BY RuntimeAssumption DEF RuntimeAssumption
  <2> QED
    BY <2>4, <2>5, <2>6, EffectiveType
<1> QED
  BY <1>1, SlotsConserved, PTL

=============================================================================
