----------------------- MODULE SyncCoordinatorProofs -----------------------
(***************************************************************************)
(* Proofs about SyncCoordinator, for every set of downloaders, number of   *)
(* torrents, concurrency, jobs, crashes and cancellations.                 *)
(***************************************************************************)
EXTENDS SyncCoordinator, TLAPS

(* A run is named by its kind and downloaders, and no key is two runs'.    *)
LEMMA RunFacts ==
    /\ \A r \in Run : Type(r) \in SyncType /\ Ids(r) \subseteq Downloader
    /\ \A r, q \in Run, d \in Downloader :
          d \in Ids(r) /\ d \in Ids(q) /\ Type(r) = Type(q) => r = q
    /\ \A r \in Run, t \in SyncType : r \in RunsOf(t) <=> Type(r) = t
<1>1. \A r \in Run : r = <<"tracker", Downloader>> \/ \E d \in Downloader : r = <<"info", {d}>>
  BY DEF Run, RunsOf
<1>2. ASSUME NEW r \in Run
      PROVE  Type(r) \in SyncType /\ Ids(r) \subseteq Downloader
  BY <1>1 DEF Type, Ids, SyncType
<1>3. ASSUME NEW r \in Run, NEW q \in Run, NEW d \in Downloader,
             d \in Ids(r), d \in Ids(q), Type(r) = Type(q)
      PROVE  r = q
  BY <1>1, <1>3 DEF Type, Ids
<1>4. \A r \in Run, t \in SyncType : r \in RunsOf(t) <=> Type(r) = t
  BY <1>1 DEF Type, RunsOf, SyncType
<1> QED
  BY <1>2, <1>3, <1>4

LEMMA CheckpointFields == \A c \in Checkpoint : c.version \in Nat /\ c.cursor \in Cursor
  BY DEF Checkpoint

LEMMA Numbers ==
    /\ 0 \in Cursor /\ Length \in Cursor
    /\ \A c \in Torrent : c \in Cursor
    /\ \A c, last \in Cursor : (c + 1)..last \subseteq Torrent
  BY SyncAssumption DEF SyncAssumption, Cursor, Torrent

LEMMA FreshType == \A r \in Run : Fresh(r) \in Local
  BY RunFacts, Numbers DEF Fresh, Local

LEMMA CasType ==
    /\ \A kind \in {"push", "advance", "final"}, d \in Downloader, version \in Nat, c \in Cursor,
         clear \in BOOLEAN, full \in BOOLEAN : Cas(kind, d, version, c, clear, full) \in Op
    /\ NoOp \in Op
  BY Numbers DEF NoOp, Cas, Op

LEMMA CasFields ==
    /\ \A kind, d, version, c, clear, full :
          LET o == Cas(kind, d, version, c, clear, full)
          IN  /\ o.kind = kind /\ o.id = d /\ o.version = version /\ o.cursor = c
              /\ o.clear = clear /\ o.full = full
    /\ NoOp.kind = "none" /\ NoOp.clear = FALSE
  BY DEF Cas, NoOp

LEMMA InKey == \A r \in Run : \A d \in Downloader : <<d, Type(r)>> \in Key
  BY RunFacts DEF Key

(* The fields of a run's variables, of a write under way.                  *)
LEMMA LocalFields ==
    \A l \in Local :
        /\ l.todo \subseteq Downloader /\ l.at \in Downloader \cup {None}
        /\ \A d \in Downloader : l.copies[d] \in Checkpoint \cup {None}
        /\ l.list \subseteq Torrent /\ l.plan \in Cursor /\ l.written \in Cursor
        /\ l.cycle \subseteq Downloader /\ l.pending \subseteq Downloader
  BY DEF Local

LEMMA OpFields ==
    \A o \in Op :
        /\ o.id \in Downloader \cup {None} /\ o.version \in Nat /\ o.cursor \in Cursor
        /\ o.kind \in {"none", "push", "advance", "final"}
        /\ o.clear \in BOOLEAN /\ o.full \in BOOLEAN
  BY DEF Op

(* A batch is made of torrents of the downloader.                          *)
LEMMA BatchType ==
    /\ \A list \in SUBSET Torrent : \A last : After(list, last) \subseteq Torrent
    /\ \A r \in Run : \A last : local[r] \in Local => Batch(r, last) \subseteq Torrent
  BY LocalFields DEF After, Batch

(* What a run has in hand while it is at it.                               *)
HandOf(r) ==
    /\ pc[r] \in {"fetch", "write"} \/ op[r].kind \in {"push", "advance"} => local[r].at \in Downloader
    /\ (pc[r] \in {"update", "reread", "readback"}) <=> (op[r].kind # "none")
    /\ op[r].kind # "none" => op[r].id \in Downloader
    /\ op[r].kind \in {"push", "advance"} => op[r].id = local[r].at
    /\ pc[r] = "finalize" \/ op[r].kind = "final" => \A d \in local[r].pending : local[r].copies[d] # None

(* A run that goes on is covered by the token of its job.                  *)
CoverOf(r) == pc[r] # "idle" => Type(r) \in running

TypeInv == TypeOK /\ \A r \in Run : HandOf(r) /\ CoverOf(r)

(* A step of one run.                                                      *)
Alone(r) ==
    /\ pc[r] # "idle" /\ UNCHANGED running
    /\ \A q \in Run \ {r} : pc'[q] = pc[q] /\ local'[q] = local[q] /\ op'[q] = op[q]

LEMMA HandFrame ==
    ASSUME TypeInv, NEW r \in Run, Alone(r), TypeOK', HandOf(r)'
    PROVE  TypeInv'
<1>1. ASSUME NEW q \in Run PROVE HandOf(q)' /\ CoverOf(q)'
  <2>1. CASE q = r
    BY <2>1 DEF TypeInv, Alone, CoverOf
  <2>2. CASE q # r
    <3>1. HandOf(q) /\ CoverOf(q)
      BY DEF TypeInv
    <3>2. running' = running /\ pc'[q] = pc[q] /\ local'[q] = local[q] /\ op'[q] = op[q]
      BY <2>2 DEF Alone
    <3> QED
      BY <3>1, <3>2 DEF HandOf, CoverOf
  <2> QED
    BY <2>1, <2>2
<1> QED
  BY <1>1 DEF TypeInv

LEMMA TypeInit == Init => TypeInv
<1> SUFFICES ASSUME Init PROVE TypeInv
  OBVIOUS
<1>1. TypeOK
  BY FreshType, CasType, Numbers DEF Init, TypeOK, Checkpoint, Never
<1>2. \A r \in Run : HandOf(r) /\ CoverOf(r)
  BY DEF Init, HandOf, CoverOf, NoOp, Cas
<1> QED
  BY <1>1, <1>2 DEF TypeInv

(* The parts of the invariant that a step of a run starts from.            *)
LEMMA TypeFacts ==
    ASSUME TypeInv, NEW r \in Run
    PROVE  /\ TypeOK /\ HandOf(r)
           /\ CoverOf(r)
           /\ local[r] \in Local /\ op[r] \in Op
           /\ \A k \in Key : row[k] \in Checkpoint /\ active[k] \in Checkpoint \cup {None}
  BY DEF TypeInv, TypeOK

LEMMA ResumeType ==
    ASSUME TypeInv, NEW r \in Run, pc[r] = "fetch"
    PROVE  At(r) \in Key /\ ResumeAt(r) \in Cursor
<1>1. At(r) \in Key /\ local[r].at \in Downloader
  BY TypeFacts, InKey DEF HandOf, At
<1>2. local[r].copies[local[r].at] \in Checkpoint \cup {None}
  BY <1>1, TypeFacts, LocalFields
<1>3. active[At(r)] \in Checkpoint \cup {None}
  BY <1>1, TypeFacts
<1> QED
  BY <1>1, <1>2, <1>3, CheckpointFields, Numbers DEF ResumeAt

LEMMA EnterType ==
    ASSUME TypeInv, NEW r \in Run, Enter(r)
    PROVE  TypeInv'
<1> DEFINE l == local[r]
<1> DEFINE o == op[r]
<1>0. TypeOK /\ HandOf(r) /\ l \in Local /\ o \in Op
  BY TypeFacts
<1>5. TypeOK'
  BY <1>0 DEF TypeOK, RunOnly, Goto, Attempt, table, bounds, Enter
<1>6. Alone(r)
  BY <1>0 DEF TypeOK, Alone, RunOnly, Goto, Attempt, Enter
<1>7. /\ local'[r] = l
      /\ op'[r] = o
      /\ pc[r] = "waiting" /\ pc'[r] \in {"idle", "init"}
  BY <1>0 DEF TypeOK, RunOnly, Goto, Attempt, Enter
<1>8. HandOf(r)'
  BY <1>0, <1>7 DEF HandOf
<1> QED
  BY <1>5, <1>6, <1>8, HandFrame

LEMMA ReadCheckpointsType ==
    ASSUME TypeInv, NEW r \in Run, NEW unread, ReadCheckpoints(r, unread)
    PROVE  TypeInv'
<1> DEFINE l == local[r]
<1> DEFINE o == op[r]
<1>0. TypeOK /\ HandOf(r) /\ l \in Local /\ o \in Op
  BY TypeFacts
<1>1. [l EXCEPT !.copies = [d \in Downloader |-> IF d \in Ids(r) \ unread THEN row[<<d, Type(r)>>] ELSE None]] \in Local
  BY <1>0, TypeFacts, InKey DEF Local
<1>2. local' = [local EXCEPT ![r] = [l EXCEPT !.copies = [d \in Downloader |-> IF d \in Ids(r) \ unread THEN row[<<d, Type(r)>>] ELSE None]]]
  BY DEF Remember, ReadCheckpoints
<1>5. TypeOK'
  BY <1>0, <1>1, <1>2, InKey DEF TypeOK, RunOnly, Goto, Attempt, table, bounds, ReadCheckpoints
<1>6. Alone(r)
  BY <1>0, <1>1, <1>2 DEF TypeOK, Alone, RunOnly, Goto, Attempt, ReadCheckpoints
<1>7. /\ local'[r] = [l EXCEPT !.copies = [d \in Downloader |-> IF d \in Ids(r) \ unread THEN row[<<d, Type(r)>>] ELSE None]]
      /\ op'[r] = o
      /\ pc[r] = "init" /\ pc'[r] = "loop"
  BY <1>0, <1>1, <1>2 DEF TypeOK, RunOnly, Goto, Attempt, ReadCheckpoints
<1>8. HandOf(r)'
  BY <1>0, <1>7 DEF HandOf
<1> QED
  BY <1>5, <1>6, <1>8, HandFrame

LEMMA NextDownloaderType ==
    ASSUME TypeInv, NEW r \in Run, NEW d \in Downloader, NextDownloader(r, d)
    PROVE  TypeInv'
<1> DEFINE l == local[r]
<1> DEFINE o == op[r]
<1>0. TypeOK /\ HandOf(r) /\ l \in Local /\ o \in Op
  BY TypeFacts
<1>1. [l EXCEPT !.todo = @ \ {d}, !.at = d] \in Local
  BY <1>0 DEF Local, NextDownloader
<1>2. local' = [local EXCEPT ![r] = [l EXCEPT !.todo = @ \ {d}, !.at = d]]
  BY DEF Remember, NextDownloader
<1>5. TypeOK'
  BY <1>0, <1>1, <1>2 DEF TypeOK, RunOnly, Goto, Attempt, table, bounds, NextDownloader
<1>6. Alone(r)
  BY <1>0, <1>1, <1>2 DEF TypeOK, Alone, RunOnly, Goto, Attempt, NextDownloader
<1>7. /\ local'[r] = [l EXCEPT !.todo = @ \ {d}, !.at = d]
      /\ op'[r] = o
      /\ pc[r] = "loop" /\ pc'[r] = "fetch" /\ d \in l.todo
  BY <1>0, <1>1, <1>2 DEF TypeOK, RunOnly, Goto, Attempt, NextDownloader
<1>8. HandOf(r)'
  BY <1>0, <1>7, LocalFields DEF HandOf
<1> QED
  BY <1>5, <1>6, <1>8, HandFrame

LEMMA FetchType ==
    ASSUME TypeInv, NEW r \in Run, NEW list \in SUBSET Torrent, NEW last \in Cursor, NEW budget \in BOOLEAN,
           Fetch(r, list, last, budget)
    PROVE  TypeInv'
<1> DEFINE l == local[r]
<1> DEFINE o == op[r]
<1>0. TypeOK /\ HandOf(r) /\ l \in Local /\ o \in Op
  BY TypeFacts
<1>a. At(r) \in Key /\ ResumeAt(r) \in Cursor
  BY ResumeType DEF Fetch, Goto
<1>1. [l EXCEPT !.list = list, !.written = ResumeAt(r), !.plan = last,
          !.stop = IF After(list, last) = {} THEN "none" ELSE IF budget THEN "budget" ELSE "error"] \in Local
  BY <1>0, <1>a DEF Local
<1>2. local' = [local EXCEPT ![r] = [l EXCEPT !.list = list, !.written = ResumeAt(r), !.plan = last,
          !.stop = IF After(list, last) = {} THEN "none" ELSE IF budget THEN "budget" ELSE "error"]]
  BY DEF Remember, Fetch
<1>3. \E some \in SUBSET Torrent : done' = [done EXCEPT ![At(r)] = some]
  <2>1. done[At(r)] \subseteq Torrent /\ done = [done EXCEPT ![At(r)] = done[At(r)]]
    BY <1>0, <1>a DEF TypeOK
  <2>2. \/ done' = [done EXCEPT ![At(r)] = Torrent \ list]
        \/ done' = [done EXCEPT ![At(r)] = done[At(r)] \ After(list, ResumeAt(r))]
        \/ done' = done
    BY DEF Fetch
  <2> QED
    BY <2>1, <2>2
<1>5. TypeOK'
  <2>1. done' \in [Key -> SUBSET Torrent]
    BY <1>0, <1>3, <1>a DEF TypeOK
  <2>2. /\ pc' = [pc EXCEPT ![r] = "write"]
        /\ UNCHANGED <<running, keys, active, row, stamped, torn, dropped, interrupted, op, jobs, crashes>>
    BY DEF Fetch, Goto, table, bounds
  <2>3. local' \in [Run -> Local]
    BY <1>0, <1>1, <1>2 DEF TypeOK
  <2> QED
    BY <1>0, <2>1, <2>2, <2>3 DEF TypeOK
<1>6. Alone(r)
  BY <1>0, <1>1, <1>2 DEF TypeOK, Alone, RunOnly, Goto, Attempt, Fetch
<1>7. /\ local'[r] = [l EXCEPT !.list = list, !.written = ResumeAt(r), !.plan = last,
          !.stop = IF After(list, last) = {} THEN "none" ELSE IF budget THEN "budget" ELSE "error"]
      /\ op'[r] = o
      /\ pc[r] = "fetch" /\ pc'[r] = "write"
  BY <1>0, <1>1, <1>2 DEF TypeOK, RunOnly, Goto, Attempt, Fetch
<1>8. HandOf(r)'
  BY <1>0, <1>7 DEF HandOf
<1> QED
  BY <1>5, <1>6, <1>8, HandFrame

LEMMA WriteBatchType ==
    ASSUME TypeInv, NEW r \in Run, NEW last \in Torrent, WriteBatch(r, last)
    PROVE  TypeInv'
<1> DEFINE l == local[r]
<1> DEFINE o == op[r]
<1>0. TypeOK /\ HandOf(r) /\ l \in Local /\ o \in Op
  BY TypeFacts
<1>a. /\ At(r) \in Key /\ l.at \in Downloader
      /\ active[At(r)] # None =>
           Cas("push", l.at, active[At(r)].version, last, FALSE, FALSE) \in Op
  <2>1. At(r) \in Key /\ l.at \in Downloader
    BY <1>0, InKey DEF HandOf, At, WriteBatch
  <2> QED
    BY <2>1, TypeFacts, CasType, CheckpointFields, Numbers
<1>b. /\ pc' = pc /\ op' = op
      \/ /\ pc' = [pc EXCEPT ![r] = "update"]
         /\ op' = [op EXCEPT ![r] = Cas("push", l.at, active[At(r)].version, last, FALSE, FALSE)]
         /\ active[At(r)] # None
  BY DEF WriteBatch, Attempt
<1>d. \/ pc'[r] = pc[r] /\ op'[r] = o
      \/ /\ pc'[r] = "update"
         /\ op'[r] = Cas("push", l.at, active[At(r)].version, last, FALSE, FALSE)
  BY <1>0, <1>b DEF TypeOK
<1>c. Batch(r, last) \subseteq Torrent
  BY <1>0, BatchType
<1>1. [l EXCEPT !.written = last] \in Local
  BY <1>0, Numbers DEF Local
<1>2. local' = [local EXCEPT ![r] = [l EXCEPT !.written = last]]
  BY DEF Remember, WriteBatch
<1>5. TypeOK'
  BY <1>0, <1>1, <1>2, <1>a, <1>b, <1>c DEF TypeOK, RunOnly, Goto, Attempt, table, bounds, WriteBatch
<1>6. Alone(r)
  BY <1>0, <1>1, <1>2 DEF TypeOK, Alone, RunOnly, Goto, Attempt, WriteBatch
<1>7. /\ local'[r] = [l EXCEPT !.written = last]
      /\ pc[r] = "write"
  BY <1>0, <1>1, <1>2 DEF TypeOK, RunOnly, Goto, Attempt, WriteBatch
<1>8. HandOf(r)'
  <2>1. local'[r].at = l.at /\ l.at \in Downloader
    BY <1>0, <1>7, <1>a DEF Local
  <2>2. CASE pc'[r] = pc[r] /\ op'[r] = o
    BY <1>0, <1>7, <2>1, <2>2 DEF HandOf
  <2>3. CASE pc'[r] # pc[r] \/ op'[r] # o
    <3>1. pc'[r] = "update" /\ op'[r].kind = "push" /\ op'[r].id = l.at
      BY <1>d, <2>3 DEF Cas
    <3> QED
      BY <2>1, <3>1 DEF HandOf
  <2> QED
    BY <2>2, <2>3
<1> QED
  BY <1>5, <1>6, <1>8, HandFrame

LEMMA UpdateType ==
    ASSUME TypeInv, NEW r \in Run, Update(r)
    PROVE  TypeInv'
<1> DEFINE l == local[r]
<1> DEFINE o == op[r]
<1>0. TypeOK /\ HandOf(r) /\ l \in Local /\ o \in Op
  BY TypeFacts
<1>a. Of(r) \in Key
  BY <1>0, InKey DEF HandOf, Of, Update
<1>b. [version |-> row[Of(r)].version + 1, cursor |-> o.cursor] \in Checkpoint
  BY <1>0, <1>a, OpFields, CheckpointFields, TypeFacts DEF Checkpoint
<1>3. [o EXCEPT !.applied = (row[Of(r)].version = o.version)] \in Op
  BY <1>0 DEF Op
<1>4. op' = [op EXCEPT ![r] = [o EXCEPT !.applied = (row[Of(r)].version = o.version)]]
  BY DEF Attempt, Update
<1>5. TypeOK'
  <2> DEFINE k == Of(r)
  <2>1. row' = row \/ row' = [row EXCEPT ![k] = [version |-> row[k].version + 1, cursor |-> o.cursor]]
    BY DEF Update
  <2>2. stamped' = stamped \/ stamped' = [stamped EXCEPT ![k] = done[k]]
    BY DEF Update
  <2>3. torn' \subseteq Key /\ dropped' \subseteq Key
    BY <1>0, <1>a DEF Update, TypeOK
  <2>4. done' = done \/ done' = [done EXCEPT ![k] = {}]
    BY DEF Update
  <2>5. row' \in [Key -> Checkpoint] /\ stamped' \in [Key -> SUBSET Cursor] /\ done' \in [Key -> SUBSET Torrent]
    BY <1>0, <1>a, <1>b, <2>1, <2>2, <2>4, Numbers DEF TypeOK
  <2>6. pc'[r] \in {"reread", "readback"} /\ pc' = [pc EXCEPT ![r] = pc'[r]]
    BY <1>0 DEF Update, TypeOK
  <2>7. UNCHANGED <<running, keys, active, interrupted, local, jobs, crashes>>
    BY DEF Update, bounds
  <2> QED
    BY <1>0, <1>3, <1>4, <2>3, <2>5, <2>6, <2>7 DEF TypeOK
<1>6. Alone(r)
  BY <1>0, <1>3, <1>4 DEF TypeOK, Alone, RunOnly, Goto, Attempt, Update
<1>7. /\ local'[r] = l
      /\ op'[r] = [o EXCEPT !.applied = (row[Of(r)].version = o.version)]
      /\ pc[r] = "update" /\ pc'[r] \in {"reread", "readback"}
  BY <1>0, <1>3, <1>4 DEF TypeOK, RunOnly, Goto, Attempt, Update
<1>8. HandOf(r)'
  <2>1. op'[r].kind = o.kind /\ op'[r].id = o.id
    BY <1>0, <1>7 DEF Op
  <2> QED
    BY <1>0, <1>7, <2>1 DEF HandOf
<1> QED
  BY <1>5, <1>6, <1>8, HandFrame

LEMMA RereadType ==
    ASSUME TypeInv, NEW r \in Run, Reread(r)
    PROVE  TypeInv'
<1> DEFINE l == local[r]
<1> DEFINE o == op[r]
<1>0. TypeOK /\ HandOf(r) /\ l \in Local /\ o \in Op
  BY TypeFacts
<1> DEFINE c == IF o.clear THEN 0 ELSE IF row[Of(r)].cursor # 0 THEN row[Of(r)].cursor ELSE o.cursor
<1>a. row[Of(r)].version \in Nat /\ row[Of(r)].cursor \in Cursor
  <2>1. Of(r) \in Key
    BY <1>0, InKey DEF HandOf, Of, Reread
  <2> QED
    BY <2>1, TypeFacts, CheckpointFields
<1>b. c \in Cursor
  BY <1>0, <1>a, Numbers, OpFields
<1> HIDE DEF c
<1>3. [o EXCEPT !.try = 2, !.version = row[Of(r)].version, !.cursor = c] \in Op
  <2> DEFINE version == row[Of(r)].version
  <2>1. version \in Nat
    BY <1>a
  <2> HIDE DEF version
  <2>2. 2 \in 1..2
    OBVIOUS
  <2>3. [o EXCEPT !.try = 2, !.version = version, !.cursor = c] \in Op
    BY <1>0, <1>b, <2>1, <2>2 DEF Op
  <2> QED
    BY <2>3 DEF version
<1>4. op' = [op EXCEPT ![r] = [o EXCEPT !.try = 2, !.version = row[Of(r)].version, !.cursor = c]]
  BY DEF Attempt, Reread, c, Of
<1>5. TypeOK'
  BY <1>0, <1>3, <1>4 DEF TypeOK, RunOnly, Goto, Attempt, table, bounds, Reread, Of
<1>6. Alone(r)
  BY <1>0, <1>3, <1>4 DEF TypeOK, Alone, RunOnly, Goto, Attempt, Reread
<1>7. /\ local'[r] = l
      /\ op'[r] = [o EXCEPT !.try = 2, !.version = row[Of(r)].version, !.cursor = c]
      /\ pc[r] = "reread" /\ pc'[r] = "update"
  BY <1>0, <1>3, <1>4 DEF TypeOK, RunOnly, Goto, Attempt, Reread
<1>8. HandOf(r)'
  BY <1>0, <1>7 DEF HandOf, Op
<1> QED
  BY <1>5, <1>6, <1>8, HandFrame

LEMMA EndLoopType ==
    ASSUME TypeInv, NEW r \in Run, EndLoop(r)
    PROVE  TypeInv'
<1> DEFINE l == local[r]
<1> DEFINE o == op[r]
<1>0. TypeOK /\ HandOf(r) /\ l \in Local /\ o \in Op
  BY TypeFacts
<1>1. [l EXCEPT !.pending = ReadBy(l),
          !.outcome = IF With(r, "success") /\ ~With(r, "partial") /\ ~With(r, "failed")
                        THEN "success"
                      ELSE IF With(r, "success") \/ With(r, "partial") THEN "partial"
                      ELSE "failed"] \in Local
  BY <1>0 DEF Local, EndLoop, ReadBy
<1>2. local' = [local EXCEPT ![r] = [l EXCEPT !.pending = ReadBy(l),
          !.outcome = IF With(r, "success") /\ ~With(r, "partial") /\ ~With(r, "failed")
                        THEN "success"
                      ELSE IF With(r, "success") \/ With(r, "partial") THEN "partial"
                      ELSE "failed"]]
  BY DEF Remember, EndLoop
<1>5. TypeOK'
  BY <1>0, <1>1, <1>2 DEF TypeOK, RunOnly, Goto, Attempt, table, bounds, EndLoop
<1>6. Alone(r)
  BY <1>0, <1>1, <1>2 DEF TypeOK, Alone, RunOnly, Goto, Attempt, EndLoop
<1>7. /\ local'[r] = [l EXCEPT !.pending = ReadBy(l),
          !.outcome = IF With(r, "success") /\ ~With(r, "partial") /\ ~With(r, "failed")
                        THEN "success"
                      ELSE IF With(r, "success") \/ With(r, "partial") THEN "partial"
                      ELSE "failed"]
      /\ op'[r] = o
      /\ pc[r] = "loop" /\ pc'[r] = "finalize"
  BY <1>0, <1>1, <1>2 DEF TypeOK, RunOnly, Goto, Attempt, EndLoop
<1>8. HandOf(r)'
  BY <1>0, <1>7 DEF HandOf, ReadBy
<1> QED
  BY <1>5, <1>6, <1>8, HandFrame

LEMMA ClearContextType ==
    ASSUME TypeInv, NEW r \in Run, ClearContext(r)
    PROVE  TypeInv'
<1> DEFINE l == local[r]
<1> DEFINE o == op[r]
<1>0. TypeOK /\ HandOf(r) /\ l \in Local /\ o \in Op
  BY TypeFacts
<1>5. TypeOK'
  BY <1>0 DEF TypeOK, RunOnly, Goto, Attempt, table, bounds, ClearContext
<1>6. Alone(r)
  BY <1>0 DEF TypeOK, Alone, RunOnly, Goto, Attempt, ClearContext
<1>7. /\ local'[r] = l
      /\ op'[r] = o
      /\ pc[r] = "finalize" /\ pc'[r] = "leaving"
  BY <1>0 DEF TypeOK, RunOnly, Goto, Attempt, ClearContext
<1>8. HandOf(r)'
  BY <1>0, <1>7 DEF HandOf
<1> QED
  BY <1>5, <1>6, <1>8, HandFrame

LEMMA LeaveType ==
    ASSUME TypeInv, NEW r \in Run, Leave(r)
    PROVE  TypeInv'
<1> DEFINE l == local[r]
<1> DEFINE o == op[r]
<1>0. TypeOK /\ HandOf(r) /\ l \in Local /\ o \in Op
  BY TypeFacts
<1>1. Fresh(r) \in Local
  BY <1>0, FreshType DEF Local
<1>2. local' = [local EXCEPT ![r] = Fresh(r)]
  BY DEF Remember, Leave
<1>5. TypeOK'
  BY <1>0, <1>1, <1>2 DEF TypeOK, RunOnly, Goto, Attempt, table, bounds, Leave
<1>6. Alone(r)
  BY <1>0, <1>1, <1>2 DEF TypeOK, Alone, RunOnly, Goto, Attempt, Leave
<1>7. /\ local'[r] = Fresh(r)
      /\ op'[r] = o
      /\ pc[r] = "leaving" /\ pc'[r] = "idle"
  BY <1>0, <1>1, <1>2 DEF TypeOK, RunOnly, Goto, Attempt, Leave
<1>8. HandOf(r)'
  BY <1>0, <1>7 DEF HandOf, Fresh
<1> QED
  BY <1>5, <1>6, <1>8, HandFrame

LEMMA FetchFailsType ==
    ASSUME TypeInv, NEW r \in Run, FetchFails(r)
    PROVE  TypeInv'
<1> DEFINE l == local[r]
<1> DEFINE o == op[r]
<1>0. TypeOK /\ HandOf(r) /\ l \in Local /\ o \in Op
  BY TypeFacts
<1>1. [l EXCEPT !.status[l.at] = "failed", !.cycle = l.cycle, !.at = None] \in Local
  BY <1>0 DEF Local, FetchFails, NextWith
<1>2. local' = [local EXCEPT ![r] = [l EXCEPT !.status[l.at] = "failed", !.cycle = l.cycle, !.at = None]]
  BY DEF Remember, FetchFails, NextWith
<1>5. TypeOK'
  BY <1>0, <1>1, <1>2 DEF TypeOK, RunOnly, Goto, Attempt, table, bounds, FetchFails, NextWith
<1>6. Alone(r)
  BY <1>0, <1>1, <1>2 DEF TypeOK, Alone, RunOnly, Goto, Attempt, FetchFails, NextWith
<1>7. /\ local'[r] = [l EXCEPT !.status[l.at] = "failed", !.cycle = l.cycle, !.at = None]
      /\ op'[r] = o
      /\ pc'[r] = "loop" /\ pc[r] = "fetch"
  BY <1>0, <1>1, <1>2 DEF TypeOK, RunOnly, Goto, Attempt, FetchFails, NextWith
<1>8. HandOf(r)'
  BY <1>0, <1>7 DEF HandOf
<1> QED
  BY <1>5, <1>6, <1>8, HandFrame

LEMMA DownloaderTimeoutType ==
    ASSUME TypeInv, NEW r \in Run, DownloaderTimeout(r)
    PROVE  TypeInv'
<1> DEFINE l == local[r]
<1> DEFINE o == op[r]
<1>0. TypeOK /\ HandOf(r) /\ l \in Local /\ o \in Op
  BY TypeFacts
<1>1. [l EXCEPT !.status[l.at] = "failed", !.cycle = l.cycle, !.at = None] \in Local
  BY <1>0 DEF Local, DownloaderTimeout, NextWith
<1>2. local' = [local EXCEPT ![r] = [l EXCEPT !.status[l.at] = "failed", !.cycle = l.cycle, !.at = None]]
  BY DEF Remember, DownloaderTimeout, NextWith
<1>3. NoOp \in Op
  BY <1>0, CasType DEF Op
<1>4. op' = [op EXCEPT ![r] = NoOp]
  BY DEF Attempt, DownloaderTimeout, NextWith
<1>5. TypeOK'
  BY <1>0, <1>1, <1>2, <1>3, <1>4 DEF TypeOK, RunOnly, Goto, Attempt, table, bounds, DownloaderTimeout, NextWith
<1>6. Alone(r)
  BY <1>0, <1>1, <1>2, <1>3, <1>4 DEF TypeOK, Alone, HandOf, RunOnly, Goto, Attempt, DownloaderTimeout, NextWith
<1>7. /\ local'[r] = [l EXCEPT !.status[l.at] = "failed", !.cycle = l.cycle, !.at = None]
      /\ op'[r] = NoOp
      /\ pc'[r] = "loop"
  BY <1>0, <1>1, <1>2, <1>3, <1>4 DEF TypeOK, RunOnly, Goto, Attempt, DownloaderTimeout, NextWith
<1>8. HandOf(r)'
  BY <1>0, <1>7, CasFields DEF HandOf
<1> QED
  BY <1>5, <1>6, <1>8, HandFrame

LEMMA ReadBackType ==
    ASSUME TypeInv, NEW r \in Run, ReadBack(r)
    PROVE  TypeInv'
<1> DEFINE l == local[r]
<1> DEFINE o == op[r]
<1>0. TypeOK /\ HandOf(r) /\ l \in Local /\ o \in Op
  BY TypeFacts
<1> DEFINE copied == \/ o.kind = "advance"
                     \/ /\ o.kind = "push" /\ Type(r) = "info" /\ o.applied
                        /\ l.copies[o.id] # None
<1> DEFINE next == CASE o.kind = "push" -> "write" [] o.kind = "advance" -> "loop"
                     [] OTHER -> "finalize"
<1>a. o.id \in Downloader /\ Of(r) \in Key /\ row[Of(r)] \in Checkpoint
  BY <1>0, TypeFacts, InKey DEF HandOf, Of, ReadBack, Goto
<1>b. next \in {"write", "loop", "finalize"}
  OBVIOUS
<1>1. [l EXCEPT !.copies[o.id] = IF copied THEN row[Of(r)] ELSE @, !.at = IF o.kind = "advance" THEN None ELSE @] \in Local
  BY <1>0, <1>a DEF Local
<1>2. local' = [local EXCEPT ![r] = [l EXCEPT !.copies[o.id] = IF copied THEN row[Of(r)] ELSE @, !.at = IF o.kind = "advance" THEN None ELSE @]]
  BY DEF Remember, ReadBack
<1>3. NoOp \in Op
  BY <1>0, CasType DEF Op
<1>4. op' = [op EXCEPT ![r] = NoOp]
  BY DEF Attempt, ReadBack
<1>5. TypeOK'
  BY <1>0, <1>1, <1>2, <1>3, <1>4, <1>a DEF TypeOK, RunOnly, Goto, Attempt, table, bounds, ReadBack
<1>6. Alone(r)
  BY <1>0, <1>1, <1>2, <1>3, <1>4 DEF TypeOK, Alone, RunOnly, Goto, Attempt, ReadBack
<1>7. /\ local'[r] = [l EXCEPT !.copies[o.id] = IF copied THEN row[Of(r)] ELSE @, !.at = IF o.kind = "advance" THEN None ELSE @]
      /\ op'[r] = NoOp
      /\ pc[r] = "readback" /\ pc'[r] = next
  BY <1>0, <1>1, <1>2, <1>3, <1>4 DEF TypeOK, RunOnly, Goto, Attempt, ReadBack
<1>8. HandOf(r)'
  <2>1. CASE o.kind = "push" \/ o.kind = "advance"
    <3>1. o.kind = "push" => pc'[r] = "write" /\ local'[r].at = l.at
      BY <1>0, <1>7, <2>1 DEF Local
    <3>2. o.kind = "advance" => pc'[r] = "loop"
      BY <1>7, <2>1
    <3> QED
      BY <1>0, <1>7, <2>1, <3>1, <3>2, CasFields DEF HandOf
  <2>2. CASE o.kind # "push" /\ o.kind # "advance"
    <3>1. o.kind = "final"
      BY <1>0, <1>7, <2>2, OpFields DEF HandOf
    <3>2. pc'[r] = "finalize" /\ local'[r].pending = l.pending /\ local'[r].at = l.at
      BY <1>0, <1>7, <3>1 DEF Local
    <3>3. \A d \in Downloader : local'[r].copies[d] = l.copies[d]
      <4>1. l.copies \in [Downloader -> Checkpoint \cup {None}]
        BY <1>0 DEF Local
      <4>2. local'[r].copies = [l.copies EXCEPT ![o.id] = IF copied THEN row[Of(r)] ELSE @]
        BY <1>0, <1>7 DEF Local
      <4> QED
        BY <3>1, <4>1, <4>2
    <3>4. l.pending \subseteq Downloader
      BY <1>0, LocalFields
    <3>5. \A d \in local'[r].pending : local'[r].copies[d] # None
      BY <1>0, <3>1, <3>2, <3>3, <3>4 DEF HandOf
    <3>6. op'[r].kind = "none"
      BY <1>7, CasFields
    <3> QED
      BY <3>2, <3>5, <3>6 DEF HandOf
  <2> QED
    BY <2>1, <2>2
<1> QED
  BY <1>5, <1>6, <1>8, HandFrame

LEMMA FinalizeType ==
    ASSUME TypeInv, NEW r \in Run, NEW d \in Downloader, Finalize(r, d)
    PROVE  TypeInv'
<1> DEFINE l == local[r]
<1> DEFINE o == op[r]
<1>0. TypeOK /\ HandOf(r) /\ l \in Local /\ o \in Op
  BY TypeFacts
<1> DEFINE clear == d \in l.cycle /\ l.outcome = "success"
<1> DEFINE full == l.outcome = "success" /\ (d \in l.cycle \/ l.copies[d].cursor = 0)
<1>a. /\ l.copies[d].version \in Nat
      /\ (IF clear THEN 0 ELSE l.copies[d].cursor) \in Cursor
      /\ clear \in BOOLEAN /\ full \in BOOLEAN
  <2>1. l.copies[d] \in Checkpoint
    BY <1>0, LocalFields DEF HandOf, Finalize
  <2> QED
    BY <2>1, CheckpointFields, Numbers
<1>1. [l EXCEPT !.pending = @ \ {d}] \in Local
  BY <1>0 DEF Local, Finalize
<1>2. local' = [local EXCEPT ![r] = [l EXCEPT !.pending = @ \ {d}]]
  BY DEF Remember, Finalize
<1>3. Cas("final", d, l.copies[d].version, IF clear THEN 0 ELSE l.copies[d].cursor, clear, full) \in Op
  BY <1>0, <1>a, CasType DEF Op
<1>4. op' = [op EXCEPT ![r] = Cas("final", d, l.copies[d].version, IF clear THEN 0 ELSE l.copies[d].cursor, clear, full)]
  BY DEF Attempt, Finalize
<1>5. TypeOK'
  BY <1>0, <1>1, <1>2, <1>3, <1>4 DEF TypeOK, RunOnly, Goto, Attempt, table, bounds, Finalize
<1>6. Alone(r)
  BY <1>0, <1>1, <1>2, <1>3, <1>4 DEF TypeOK, Alone, RunOnly, Goto, Attempt, Finalize
<1>7. /\ local'[r] = [l EXCEPT !.pending = @ \ {d}]
      /\ op'[r] = Cas("final", d, l.copies[d].version, IF clear THEN 0 ELSE l.copies[d].cursor, clear, full)
      /\ pc[r] = "finalize" /\ pc'[r] = "update" /\ d \in l.pending
  BY <1>0, <1>1, <1>2, <1>3, <1>4 DEF TypeOK, RunOnly, Goto, Attempt, Finalize
<1>8. HandOf(r)'
  BY <1>0, <1>7 DEF HandOf, Cas, Local
<1> QED
  BY <1>5, <1>6, <1>8, HandFrame

LEMMA FinishType ==
    ASSUME TypeInv, NEW r \in Run, Finish(r)
    PROVE  TypeInv'
<1> DEFINE l == local[r]
<1> DEFINE o == op[r]
<1>0. TypeOK /\ HandOf(r) /\ l \in Local /\ o \in Op
  BY TypeFacts
<1>1. l.at \in Downloader /\ o.kind = "none"
  BY <1>0 DEF HandOf, Finish
<1>2. UNCHANGED <<running, keys, active, row, stamped, torn, dropped, done, interrupted, jobs, crashes>>
  BY DEF Finish, RunOnly, table, bounds
<1>3. ASSUME NEW status \in {"success", "partial", "failed"}, NEW cycle \in SUBSET Downloader,
             NextWith(r, status, cycle), UNCHANGED op
      PROVE  TypeInv'
  <2> DEFINE new == [l EXCEPT !.status[l.at] = status, !.cycle = cycle, !.at = None]
  <2>1. new \in Local
    BY <1>0 DEF Local
  <2>2. local' = [local EXCEPT ![r] = new] /\ pc' = [pc EXCEPT ![r] = "loop"]
    BY <1>3 DEF NextWith, Remember
  <2> HIDE DEF new
  <2>3. TypeOK'
    BY <1>0, <1>2, <1>3, <2>1, <2>2 DEF TypeOK
  <2>4. Alone(r)
    BY <1>0, <1>2, <1>3, <2>2 DEF TypeOK, Alone, Finish
  <2>5. pc'[r] = "loop" /\ op'[r].kind = "none"
    BY <1>0, <1>1, <1>3, <2>2 DEF TypeOK
  <2>6. HandOf(r)'
    BY <2>5 DEF HandOf
  <2> QED
    BY <2>3, <2>4, <2>6, HandFrame
<1>4. ASSUME NEW status \in {"success", "partial"}, NEW c \in Cursor, l.copies[l.at] # None,
             Remember(r, [l EXCEPT !.status[l.at] = status]),
             Attempt(r, Cas("advance", l.at, l.copies[l.at].version, c, FALSE, FALSE))
      PROVE  TypeInv'
  <2> DEFINE new == [l EXCEPT !.status[l.at] = status]
  <2> DEFINE cas == Cas("advance", l.at, l.copies[l.at].version, c, FALSE, FALSE)
  <2>1. new \in Local /\ new.at = l.at
    BY <1>0 DEF Local
  <2>2. cas \in Op
    BY <1>0, <1>1, <1>4, CasType, CheckpointFields, LocalFields
  <2>3. cas.kind = "advance" /\ cas.id = l.at
    BY DEF Cas
  <2>4. local' = [local EXCEPT ![r] = new] /\ op' = [op EXCEPT ![r] = cas] /\ pc' = [pc EXCEPT ![r] = "update"]
    BY <1>4 DEF Attempt, Remember
  <2> HIDE DEF new, cas
  <2>5. TypeOK'
    BY <1>0, <1>2, <2>1, <2>2, <2>4 DEF TypeOK
  <2>6. Alone(r)
    BY <1>0, <1>2, <2>4 DEF TypeOK, Alone, Finish
  <2>7. pc'[r] = "update" /\ op'[r] = cas /\ local'[r] = new
    BY <1>0, <2>4 DEF TypeOK
  <2>8. HandOf(r)'
    BY <1>1, <2>1, <2>3, <2>7 DEF HandOf
  <2> QED
    BY <2>5, <2>6, <2>8, HandFrame
<1>5. l.cycle \in SUBSET Downloader /\ l.cycle \cup {l.at} \in SUBSET Downloader
  BY <1>0, <1>1, LocalFields
<1>6. CASE l.stop = "error"
  BY <1>3, <1>5, <1>6 DEF Finish
<1>7. CASE l.stop = "none" /\ Resumable(r)
  BY <1>3, <1>5, <1>7 DEF Finish
<1>8. CASE l.stop # "error" /\ ~(l.stop = "none" /\ Resumable(r))
  <2> DEFINE status == IF l.stop = "none" THEN "success" ELSE "partial"
  <2> DEFINE c == IF Resumable(r) THEN l.written ELSE l.copies[l.at].cursor
  <2>1. status \in {"success", "partial"}
    OBVIOUS
  <2>2. CASE l.copies[l.at] = None
    <3>1. NextWith(r, status, l.cycle) /\ UNCHANGED op
      BY <1>8, <2>2 DEF Finish
    <3> HIDE DEF status
    <3> QED
      BY <1>3, <1>5, <2>1, <3>1
  <2>3. CASE l.copies[l.at] # None
    <3>1. /\ Remember(r, [l EXCEPT !.status[l.at] = status])
          /\ Attempt(r, Cas("advance", l.at, l.copies[l.at].version, c, FALSE, FALSE))
      BY <1>8, <2>3 DEF Finish
    <3>2. c \in Cursor
      BY <1>0, <1>1, <2>3, LocalFields, CheckpointFields
    <3> HIDE DEF status, c
    <3> QED
      BY <1>4, <2>1, <2>3, <3>1, <3>2
  <2> QED
    BY <2>2, <2>3
<1> QED
  BY <1>6, <1>7, <1>8

LEMMA WriteFailsType ==
    ASSUME TypeInv, NEW r \in Run, NEW last \in Torrent, WriteFails(r, last)
    PROVE  TypeInv'
<1> DEFINE l == local[r]
<1>0. TypeOK /\ HandOf(r) /\ l \in Local
  BY TypeFacts
<1>1. l.at \in Downloader /\ op[r].kind = "none" /\ At(r) \in Key
  BY <1>0, InKey DEF HandOf, WriteFails, At
<1>2. UNCHANGED <<running, keys, active, row, stamped, torn, dropped, interrupted, op, jobs, crashes>>
  BY DEF WriteFails, table, bounds
<1>3. done' \in [Key -> SUBSET Torrent]
  <2>1. Batch(r, last) \subseteq Torrent
    BY <1>0, BatchType
  <2>2. PICK some \in SUBSET Batch(r, last) : done' = [done EXCEPT ![At(r)] = @ \cup some]
    BY DEF WriteFails
  <2> QED
    BY <1>0, <1>1, <2>1, <2>2 DEF TypeOK
<1>4. \E new \in Local : /\ local' = [local EXCEPT ![r] = new]
                         /\ \/ new.at = l.at /\ pc' = pc
                            \/ pc' = [pc EXCEPT ![r] = "loop"]
  <2>1. CASE Resumable(r)
    <3>1. [l EXCEPT !.status[l.at] = "failed", !.cycle = l.cycle, !.at = None] \in Local
      BY <1>0 DEF Local
    <3> QED
      BY <2>1, <3>1 DEF WriteFails, NextWith, Remember
  <2>2. CASE ~Resumable(r)
    <3> DEFINE new == [l EXCEPT !.written = last, !.stop = "error"]
    <3>1. new \in Local /\ new.at = l.at
      BY <1>0, Numbers DEF Local
    <3>2. local' = [local EXCEPT ![r] = new] /\ pc' = pc
      BY <2>2 DEF WriteFails, Remember
    <3> HIDE DEF new
    <3> QED
      BY <3>1, <3>2
  <2> QED
    BY <2>1, <2>2
<1>5. TypeOK'
  BY <1>0, <1>2, <1>3, <1>4 DEF TypeOK
<1>6. Alone(r)
  BY <1>0, <1>2, <1>4 DEF TypeOK, Alone, WriteFails
<1>7. op'[r].kind = "none" /\ \/ pc'[r] = "loop"
                              \/ local'[r].at \in Downloader /\ pc'[r] = "write"
  BY <1>0, <1>1, <1>2, <1>4 DEF TypeOK, WriteFails
<1>8. HandOf(r)'
  BY <1>7 DEF HandOf
<1> QED
  BY <1>5, <1>6, <1>8, HandFrame

LEMMA StartJobType ==
    ASSUME TypeInv, NEW t \in SyncType, StartJob(t)
    PROVE  TypeInv'
<1>1. TypeOK'
  <2>1. TypeOK
    BY DEF TypeInv
  <2>2. local' \in [Run -> Local]
    BY <2>1, FreshType DEF StartJob, TypeOK
  <2>3. pc' \in [Run -> {"idle", "waiting", "init", "loop", "fetch", "write", "update",
                         "reread", "readback", "finalize", "leaving"}]
    BY <2>1 DEF StartJob, TypeOK
  <2>4. running' \subseteq SyncType /\ jobs' \in Nat
    <3>1. running' = running \cup {t} /\ jobs' = jobs + 1
      BY DEF StartJob
    <3>2. running \subseteq SyncType /\ jobs \in Nat
      BY <2>1 DEF TypeOK
    <3> QED
      BY <3>1, <3>2
  <2>5. UNCHANGED <<keys, active, row, stamped, torn, dropped, done, interrupted, op, crashes>>
    BY DEF StartJob, table
  <2> QED
    BY <2>1, <2>2, <2>3, <2>4, <2>5 DEF TypeOK
<1>2. ASSUME NEW q \in Run
      PROVE  HandOf(q)' /\ CoverOf(q)'
  <2>1. HandOf(q) /\ CoverOf(q) /\ op'[q] = op[q] /\ running' = running \cup {t} /\ t \notin running
    BY DEF TypeInv, StartJob
  <2>2. CASE q \in RunsOf(t)
    <3>1. pc'[q] = "waiting" /\ local'[q] = Fresh(q)
      BY <2>2 DEF StartJob
    <3>2. op[q].kind = "none" /\ Type(q) = t
      BY <2>1, <2>2, RunFacts DEF HandOf, CoverOf
    <3> QED
      BY <2>1, <3>1, <3>2 DEF HandOf, CoverOf
  <2>3. CASE q \notin RunsOf(t)
    <3>1. pc'[q] = pc[q] /\ local'[q] = local[q]
      BY <2>3 DEF StartJob
    <3> QED
      BY <2>1, <3>1 DEF HandOf, CoverOf
  <2> QED
    BY <2>2, <2>3
<1> QED
  BY <1>1, <1>2 DEF TypeInv

LEMMA EndJobType ==
    ASSUME TypeInv, NEW t \in SyncType, EndJob(t)
    PROVE  TypeInv'
<1>1. TypeOK'
  BY DEF EndJob, TypeInv, TypeOK, table, bounds
<1>2. ASSUME NEW q \in Run
      PROVE  HandOf(q)' /\ CoverOf(q)'
  <2>1. UNCHANGED <<pc, local, op>> /\ running' = running \ {t} /\ \A r \in RunsOf(t) : pc[r] = "idle"
    BY DEF EndJob
  <2>2. HandOf(q) /\ CoverOf(q)
    BY DEF TypeInv
  <2> QED
    BY <2>1, <2>2, RunFacts DEF HandOf, CoverOf
<1> QED
  BY <1>1, <1>2 DEF TypeInv

LEMMA InterruptJobType ==
    ASSUME TypeInv, NEW t \in SyncType, InterruptJob(t)
    PROVE  TypeInv'
<1>a. \A q \in Run :
          /\ q \notin RunsOf(t) => pc'[q] = pc[q]
          /\ q \in RunsOf(t) /\ pc[q] \notin {"idle", "waiting"} /\ InPhase(q) => pc'[q] = "finalize"
          /\ q \in RunsOf(t) /\ ~InPhase(q) => pc'[q] \in {"idle", "leaving"}
  BY DEF InterruptJob, AfterCancel
<1>b. UNCHANGED running /\ t \in running
  BY DEF InterruptJob
<1>1. ASSUME NEW q \in Run
      PROVE  /\ local'[q] \in Local
             /\ op'[q] \in Op
             /\ pc'[q] \in {pc[q], "idle", "finalize", "leaving"}
             /\ HandOf(q)' /\ CoverOf(q)'
  <2>1. TypeOK /\ HandOf(q) /\ CoverOf(q) /\ local[q] \in Local /\ op[q] \in Op
    BY TypeFacts
  <2>2. CASE q \notin RunsOf(t)
    <3>1. pc'[q] = pc[q]
      BY <1>a, <2>2
    <3>2. local'[q] = local[q] /\ op'[q] = op[q]
      BY <2>2 DEF InterruptJob
    <3> QED
      BY <1>b, <2>1, <3>1, <3>2 DEF HandOf, CoverOf
  <2>3. CASE q \in RunsOf(t) /\ InPhase(q)
    <3> DEFINE new == [local[q] EXCEPT !.pending = ReadBy(local[q]), !.cycle = {}]
    <3>1. new \in Local /\ new.pending = ReadBy(local[q]) /\ new.copies = local[q].copies
      BY <2>1 DEF Local, ReadBy
    <3>2. local'[q] = new /\ op'[q] = NoOp
      BY <2>3 DEF InterruptJob
    <3>3. pc[q] \notin {"idle", "waiting"}
      BY <2>1, <2>3 DEF HandOf, InPhase
    <3>4. pc'[q] = "finalize"
      BY <1>a, <2>3, <3>3
    <3> HIDE DEF new
    <3>5. HandOf(q)' /\ CoverOf(q)'
      BY <1>b, <2>3, <3>1, <3>2, <3>4, RunFacts, CasFields DEF HandOf, CoverOf, ReadBy
    <3> QED
      BY <3>1, <3>2, <3>4, <3>5, CasType
  <2>4. CASE q \in RunsOf(t) /\ ~InPhase(q)
    <3>1. pc'[q] \in {"idle", "leaving"}
      BY <1>a, <2>4
    <3>2. local'[q] = local[q] /\ op'[q] = NoOp
      BY <2>4 DEF InterruptJob
    <3> QED
      BY <1>b, <2>1, <2>4, <3>1, <3>2, RunFacts, CasType, CasFields DEF HandOf, CoverOf
  <2> QED
    BY <2>2, <2>3, <2>4
<1>2. interrupted' \subseteq Run
  BY DEF InterruptJob, TypeInv, TypeOK, Run, SyncType
<1>3. UNCHANGED <<running, keys, active, row, stamped, torn, dropped, done, jobs, crashes>>
  BY DEF InterruptJob, table, bounds
<1>4. /\ pc' \in [Run -> {"idle", "waiting", "init", "loop", "fetch", "write", "update",
                       "reread", "readback", "finalize", "leaving"}]
      /\ local' \in [Run -> Local]
      /\ op' \in [Run -> Op]
  <2>2. pc \in [Run -> {"idle", "waiting", "init", "loop", "fetch", "write", "update",
                        "reread", "readback", "finalize", "leaving"}]
    BY DEF TypeInv, TypeOK
  <2>3. ASSUME NEW q \in Run
        PROVE  pc'[q] \in {pc[q], "idle", "finalize", "leaving"}
    BY <1>1, <2>3
  <2>4. pc' = [q \in Run |-> pc'[q]] /\ local' = [q \in Run |-> local'[q]] /\ op' = [q \in Run |-> op'[q]]
    BY DEF InterruptJob
  <2> QED
    BY <1>1, <2>2, <2>3, <2>4
<1>5. TypeOK'
  BY <1>2, <1>3, <1>4 DEF TypeInv, TypeOK
<1> QED
  BY <1>1, <1>5 DEF TypeInv

LEMMA CrashType ==
    ASSUME TypeInv, Crash
    PROVE  TypeInv'
<1>1. TypeOK'
  <2>1. TypeOK
    BY DEF TypeInv
  <2>2. local' \in [Run -> Local]
    BY FreshType DEF Crash
  <2>3. op' \in [Run -> Op]
    BY CasType DEF Crash
  <2>4. UNCHANGED <<row, stamped, torn, dropped, done, jobs>>
    BY DEF Crash, table
  <2>5. /\ running' \subseteq SyncType /\ interrupted' \subseteq Run
        /\ keys' \in [Key -> Run \cup {None}] /\ active' \in [Key -> Checkpoint \cup {None}]
        /\ pc' \in [Run -> {"idle"}] /\ crashes' \in Nat
    <3>1. crashes \in Nat /\ crashes' = crashes + 1
      BY <2>1 DEF Crash, TypeOK
    <3> QED
      BY <3>1 DEF Crash
  <2> QED
    BY <2>1, <2>2, <2>3, <2>4, <2>5 DEF TypeOK
<1>2. ASSUME NEW q \in Run
      PROVE  HandOf(q)' /\ CoverOf(q)'
  BY CasFields DEF Crash, HandOf, CoverOf
<1> QED
  BY <1>1, <1>2 DEF TypeInv

LEMMA TypeStep == TypeInv /\ [Next]_vars => TypeInv'
<1> SUFFICES ASSUME TypeInv, [Next]_vars
             PROVE  TypeInv'
  OBVIOUS
<1>1. ASSUME NEW r \in Run, RunStep(r)
      PROVE  TypeInv'
  BY <1>1, EnterType, ReadCheckpointsType, NextDownloaderType, FetchType, WriteBatchType, FinishType,
     UpdateType, RereadType, ReadBackType, EndLoopType, FinalizeType, ClearContextType, LeaveType
     DEF RunStep
<1>2. ASSUME NEW r \in Run, Trouble(r)
      PROVE  TypeInv'
  BY <1>2, ReadCheckpointsType, FetchFailsType, WriteFailsType, DownloaderTimeoutType DEF Trouble
<1>3. ASSUME NEW t \in SyncType, StartJob(t) \/ EndJob(t) \/ InterruptJob(t)
      PROVE  TypeInv'
  BY <1>3, StartJobType, EndJobType, InterruptJobType
<1>4. CASE Crash
  BY <1>4, CrashType
<1>5. CASE UNCHANGED vars
  <2>1. TypeOK'
    BY <1>5 DEF TypeInv, TypeOK, vars
  <2>2. \A q \in Run : HandOf(q)' /\ CoverOf(q)'
    BY <1>5 DEF TypeInv, HandOf, CoverOf, vars
  <2> QED
    BY <2>1, <2>2 DEF TypeInv
<1> QED
  BY <1>1, <1>2, <1>3, <1>4, <1>5 DEF Next

(* The variables of the coordinator keep their types.                      *)
THEOREM TypeCorrect == Spec => []TypeOK
<1>1. TypeInv => TypeOK
  BY DEF TypeInv
<1> QED
  BY <1>1, TypeInit, TypeStep, PTL DEF Spec

-----------------------------------------------------------------------------
(* Keys, and the cover of a run.                                           *)

KeyOf(r, d) == <<d, Type(r)>>

LEMMA KeyFacts ==
    /\ \A r \in Run, d \in Downloader : KeyOf(r, d) \in Key
    /\ \A r \in Run : \A d \in Ids(r) : KeyOf(r, d) \in KeysOf(r) /\ d \in Downloader
    /\ \A r \in Run : \A k \in KeysOf(r) : k \in Key /\ \E d \in Ids(r) : k = KeyOf(r, d)
    /\ \A r \in Run, d, e \in Downloader : KeyOf(r, d) = KeyOf(r, e) => d = e
    /\ \A r, q \in Run : \A k \in Key : k \in KeysOf(r) /\ k \in KeysOf(q) => r = q
    /\ \A r \in Run : At(r) = KeyOf(r, local[r].at) /\ Of(r) = KeyOf(r, op[r].id)
<1>1. \A r \in Run, d \in Downloader : KeyOf(r, d) \in Key
  BY InKey DEF KeyOf
<1>2. \A r \in Run : \A d \in Ids(r) : KeyOf(r, d) \in KeysOf(r) /\ d \in Downloader
  BY RunFacts DEF KeyOf, KeysOf
<1>3. \A r \in Run : \A k \in KeysOf(r) : \E d \in Ids(r) : k = KeyOf(r, d)
  BY DEF KeyOf, KeysOf
<1>4. \A r \in Run, d, e \in Downloader : KeyOf(r, d) = KeyOf(r, e) => d = e
  BY DEF KeyOf
<1>5. ASSUME NEW r \in Run, NEW q \in Run, NEW k, k \in KeysOf(r), k \in KeysOf(q)
      PROVE  r = q
  <2>1. PICK d \in Ids(r) : k = <<d, Type(r)>>
    BY <1>5 DEF KeysOf
  <2>2. PICK e \in Ids(q) : k = <<e, Type(q)>>
    BY <1>5 DEF KeysOf
  <2>3. d = e /\ Type(r) = Type(q) /\ d \in Downloader
    BY <2>1, <2>2, RunFacts
  <2> QED
    BY <2>1, <2>2, <2>3, RunFacts
<1>6. \A r \in Run : At(r) = KeyOf(r, local[r].at) /\ Of(r) = KeyOf(r, op[r].id)
  BY DEF At, Of, KeyOf
<1> QED
  BY <1>1, <1>2, <1>3, <1>4, <1>5, <1>6

(* A run's keys are its own from its admission to its end, and no other    *)
(* run leaves its mark on them.                                            *)
LEMMA CoveredStep ==
    ASSUME TypeInv, Covered, [Next]_vars
    PROVE  Covered'
<1> DEFINE Cover(r) == /\ r \in Opened => Type(r) \in running
                       /\ \A k \in Key : keys[k] = r <=> (r \in Opened /\ k \in KeysOf(r))
<1> USE RunFacts
<1>0. /\ TypeOK /\ \A r \in Run : HandOf(r) /\ CoverOf(r) /\ Cover(r)
      /\ Covered' <=> \A r \in Run : Cover(r)'
  BY DEF TypeInv, Covered
<1>1. ASSUME UNCHANGED <<keys, running, Opened>>
      PROVE  Covered'
  BY <1>1 DEF Covered
<1>2. ASSUME NEW r \in Run, Enter(r)
      PROVE  Covered'
  <2>1. r \notin Opened /\ UNCHANGED running
    BY <1>2 DEF Enter, Opened
  <2>2. \A k \in KeysOf(r) : keys[k] = None
    <3> SUFFICES ASSUME NEW k \in KeysOf(r), keys[k] # None PROVE FALSE
      OBVIOUS
    <3>1. k \in Key
      BY KeyFacts
    <3>2. keys[k] \in Run
      BY <1>0, <3>1 DEF TypeOK
    <3>3. k \in KeysOf(keys[k]) /\ keys[k] \in Opened
      BY <1>0, <3>1, <3>2
    <3>4. keys[k] = r
      BY <3>1, <3>2, <3>3, KeyFacts
    <3> QED
      BY <2>1, <3>3, <3>4
  <2>3. keys' = [k \in Key |-> IF k \in KeysOf(r) THEN r ELSE keys[k]]
    BY <1>2, <2>2 DEF Enter
  <2>4. Opened' = Opened \cup {r}
    BY <1>0, <1>2, <2>2 DEF Enter, Opened, TypeOK
  <2>5. Type(r) \in running
    BY <1>2 DEF Enter
  <2>6. ASSUME NEW q \in Run, q # r PROVE Cover(q)'
    <3>1. \A k \in Key : keys'[k] = q <=> keys[k] = q
      BY <2>2, <2>3, <2>6, NoneIsNothing
    <3> QED
      BY <1>0, <2>1, <2>4, <2>6, <3>1
  <2>7. Cover(r)'
    BY <1>0, <2>1, <2>3, <2>4, <2>5
  <2> QED
    BY <1>0, <2>6, <2>7
<1>3. ASSUME NEW r \in Run, Leave(r)
      PROVE  Covered'
  <2>1. /\ r \in Opened /\ Opened' = Opened \ {r} /\ UNCHANGED running
        /\ keys' = [k \in Key |-> IF k \in KeysOf(r) THEN None ELSE keys[k]]
    BY <1>0, <1>3 DEF Leave, Goto, Opened, TypeOK
  <2>2. ASSUME NEW q \in Run, q # r PROVE Cover(q)'
    <3>1. ASSUME NEW k \in Key, k \in KeysOf(r) PROVE keys[k] = r
      BY <1>0, <2>1, <3>1
    <3>2. \A k \in Key : keys'[k] = q <=> keys[k] = q
      BY <2>1, <2>2, <3>1, NoneIsNothing
    <3> QED
      BY <1>0, <2>1, <2>2, <3>2
  <2>3. Cover(r)'
    BY <1>0, <2>1, NoneIsNothing
  <2> QED
    BY <1>0, <2>2, <2>3
<1>4. ASSUME NEW r \in Run, RunStep(r) \/ Trouble(r), ~Enter(r), ~Leave(r)
      PROVE  Covered'
  <2>1. /\ UNCHANGED <<keys, running>>
        /\ pc[r] \notin {"idle", "waiting"} /\ pc'[r] \notin {"idle", "waiting"}
        /\ \A q \in Run \ {r} : pc'[q] = pc[q]
    <3> DEFINE Moves == /\ UNCHANGED <<keys, running>>
                        /\ pc[r] \notin {"idle", "waiting"}
                        /\ \E to \in {"loop", "fetch", "write", "update", "reread", "readback",
                                      "finalize", "leaving"} : pc' = [pc EXCEPT ![r] = to]
    <3>1. CASE \/ \E unread : ReadCheckpoints(r, unread)
               \/ \E d \in Downloader : NextDownloader(r, d)
               \/ \E list \in SUBSET Torrent, last \in Cursor, budget \in BOOLEAN :
                     Fetch(r, list, last, budget)
      <4>1. Moves
        BY <3>1 DEF ReadCheckpoints, NextDownloader, Fetch, Goto, RunOnly
      <4> QED
        BY <1>0, <4>1 DEF TypeOK
    <3>2. CASE \/ Update(r) \/ Reread(r) \/ EndLoop(r)
               \/ \E d \in Downloader : Finalize(r, d)
               \/ ClearContext(r) \/ ReadBack(r)
      <4>1. Update(r) => Moves
        BY DEF Update
      <4>2. ReadBack(r) => Moves
        BY DEF ReadBack, Goto
      <4>3. Reread(r) \/ EndLoop(r) \/ ClearContext(r) => Moves
        BY DEF Reread, EndLoop, ClearContext, Goto, Attempt, RunOnly
      <4>4. \A d \in Downloader : Finalize(r, d) => Moves
        BY DEF Finalize, Attempt, RunOnly
      <4>5. Moves
        BY <3>2, <4>1, <4>2, <4>3, <4>4
      <4> QED
        BY <1>0, <4>5 DEF TypeOK
    <3>3. CASE \E last \in Torrent : WriteBatch(r, last) \/ WriteFails(r, last)
      <4>1. /\ UNCHANGED <<keys, running>> /\ pc[r] = "write"
            /\ pc' = pc \/ \E to \in {"loop", "update"} : pc' = [pc EXCEPT ![r] = to]
        BY <3>3 DEF WriteBatch, WriteFails, Attempt, NextWith
      <4> QED
        BY <1>0, <4>1 DEF TypeOK
    <3>4. CASE Finish(r)
      <4>1. Moves
        BY <3>4 DEF Finish, Attempt, NextWith, RunOnly
      <4> QED
        BY <1>0, <4>1 DEF TypeOK
    <3>5. CASE FetchFails(r) \/ DownloaderTimeout(r)
      <4>1. pc[r] \notin {"idle", "waiting"}
        BY <1>0, <3>5 DEF HandOf, FetchFails, DownloaderTimeout
      <4>2. pc' = [pc EXCEPT ![r] = "loop"] /\ UNCHANGED <<keys, running>>
        BY <3>5 DEF FetchFails, DownloaderTimeout, NextWith, RunOnly
      <4> QED
        BY <1>0, <4>1, <4>2 DEF TypeOK
    <3> QED
      BY <1>4, <3>1, <3>2, <3>3, <3>4, <3>5 DEF RunStep, Trouble
  <2>2. Opened' = Opened
    BY <2>1 DEF Opened
  <2> QED
    BY <1>1, <2>1, <2>2
<1>5. ASSUME NEW t \in SyncType, StartJob(t)
      PROVE  Covered'
  <2>1. \A q \in RunsOf(t) : q \in Run => pc[q] = "idle"
    BY <1>0, <1>5 DEF StartJob, CoverOf
  <2>2. Opened' = Opened
    BY <1>5, <2>1 DEF StartJob, Opened
  <2>3. running \subseteq running' /\ UNCHANGED keys
    BY <1>5 DEF StartJob
  <2> QED
    BY <1>0, <2>2, <2>3
<1>6. ASSUME NEW t \in SyncType, EndJob(t)
      PROVE  Covered'
  <2>1. UNCHANGED <<keys, Opened>> /\ running' = running \ {t}
    BY <1>6 DEF EndJob, Opened
  <2>2. \A q \in Opened : Type(q) # t
    BY <1>6 DEF EndJob, Opened
  <2> QED
    BY <1>0, <2>1, <2>2
<1>7. ASSUME NEW t \in SyncType, InterruptJob(t)
      PROVE  Covered'
  <2>1. \A q \in Run : pc'[q] \in {"idle", "waiting"} <=> pc[q] \in {"idle", "waiting"}
    <3> SUFFICES ASSUME NEW q \in Run
                 PROVE  pc'[q] \in {"idle", "waiting"} <=> pc[q] \in {"idle", "waiting"}
      OBVIOUS
    <3>1. pc'[q] = IF q \in RunsOf(t) THEN AfterCancel(q) ELSE pc[q]
      BY <1>7 DEF InterruptJob
    <3>2. pc[q] \in {"idle", "waiting"} => ~InPhase(q)
      BY <1>0 DEF HandOf, InPhase
    <3>3. AfterCancel(q) \in {"idle", "waiting"} <=> pc[q] \in {"idle", "waiting"}
      BY <3>2 DEF AfterCancel
    <3> QED
      BY <3>1, <3>3
  <2>2. Opened' = Opened /\ UNCHANGED <<keys, running>>
    BY <1>7, <2>1 DEF InterruptJob, Opened
  <2> QED
    BY <1>1, <2>2
<1>8. CASE Crash
  <2>1. Opened' = {} /\ keys' = [k \in Key |-> None]
    BY <1>8 DEF Crash, Opened
  <2> QED
    BY <1>0, <2>1, NoneIsNothing
<1>9. CASE UNCHANGED vars
  BY <1>1, <1>9 DEF vars, Opened
<1> QED
  BY <1>2, <1>3, <1>4, <1>5, <1>6, <1>7, <1>8, <1>9 DEF Next

-----------------------------------------------------------------------------
(* The vocabulary of the invariant: the torrents up to a cursor, or all of *)
(* them, are in a set; a context says nothing or that the pass is at its   *)
(* end; the keys of which no run keeps a cursor.                           *)
Behind(c, S) == 1..c \subseteq S
Whole(S) == Torrent \subseteq S
AtEnd(context) == context = None \/ context.cursor = Length
Plain(k) == k[2] = "tracker" /\ k[1] \in Transmission

(* The checkpoints a run has read and will still write to.                 *)
Due(r) ==
    IF InPhase(r) THEN ReadBy(local[r])
    ELSE IF pc[r] = "finalize" \/ op[r].kind = "final" THEN local[r].pending
    ELSE {}

(* A run is at its own downloaders, each of them once, and an info run has *)
(* read their checkpoints.                                                 *)
Ours(r) ==
    LET l == local[r] IN
    /\ l.todo \subseteq Ids(r) /\ l.pending \subseteq Ids(r) /\ ReadBy(l) \subseteq Ids(r)
    /\ l.at \in Ids(r) \cup {None}
    /\ op[r].kind # "none" => op[r].id \in Ids(r)
    /\ pc[r] \in {"idle", "waiting", "init"} => l = Fresh(r)
    /\ pc[r] = "loop" => l.at = None
    /\ InPhase(r) => l.at \notin l.todo \cup l.cycle /\ l.todo \cap l.cycle = {}
    /\ InPhase(r) /\ Type(r) = "info" => Ids(r) \subseteq ReadBy(l)

(* Nothing below the cursor of a copy is lost while the copy is in use.    *)
CopiesKept(r) == \A d \in Due(r) : Behind(local[r].copies[d].cursor, done[KeyOf(r, d)])

(* Before its turn, the copy of a downloader is the row, and the context   *)
(* is the row or has been emptied by another run.                          *)
NotBegun(r) ==
    InPhase(r) => \A d \in ReadBy(local[r]) :
        d \in local[r].todo \/ (pc[r] = "fetch" /\ d = local[r].at) =>
            /\ local[r].copies[d] = row[KeyOf(r, d)]
            /\ active[KeyOf(r, d)] \in {None, row[KeyOf(r, d)]}

CycleRead(r) == Type(r) = "tracker" => \A d \in Due(r) \cap local[r].cycle : AtEnd(active[KeyOf(r, d)])

(* A downloader is called a success only with all its torrents written,    *)
(* and every downloader is judged once, when the loop has had it.          *)
Judged(r) ==
    LET l == local[r] IN
    /\ InPhase(r) => /\ \A d \in Ids(r) : l.status[d] = "none" => d \in l.todo \cup {l.at}
                     /\ \A d \in l.todo : l.status[d] = "none"
                     /\ \A d \in ReadBy(l) : l.status[d] = "success" => Whole(done[KeyOf(r, d)])
    /\ pc[r] \in {"fetch", "write"} \/ op[r].kind = "push" => l.status[l.at] = "none"
    /\ op[r].kind = "advance" => l.status[l.at] # "none" /\ l.copies[l.at] # None
    /\ ~InPhase(r) /\ r \notin interrupted /\ l.outcome = "success" =>
          \A d \in Due(r) : Whole(done[KeyOf(r, d)])

(* What is not in the list of a run is not owed and what has been written  *)
(* is done, unless the context was left over by a cancelled run, of which  *)
(* then nothing is written or recorded.                                    *)
Writing(r) ==
    LET l == local[r]
        k == At(r)
    IN  pc[r] = "write" \/ op[r].kind = "push" =>
          /\ l.written <= l.plan
          /\ Torrent \ l.list \subseteq done[k]
          /\ Type(r) = "tracker" => l.list = Torrent
          /\ l.stop = "none" => After(l.list, l.plan) = {}
          /\ Resumable(r) => \/ Behind(l.written, done[k])
                             \/ l.written = Length /\ l.copies[l.at] = None
          /\ ~Resumable(r) => l.stop = "error" \/ Behind(l.written, done[k])
          /\ pc[r] = "write" /\ Resumable(r) /\ l.copies[l.at] # None =>
                active[k] = None \/ (active[k] = row[k] /\ row[k].cursor = l.written)

(* A write under way records a cursor that the data has passed, clears a   *)
(* cursor or records a full pass only for good reasons, and succeeds at    *)
(* its second try.                                                         *)
Setting(r) ==
    LET o == op[r]
        k == Of(r)
    IN  /\ pc[r] \in {"update", "reread"} =>
              /\ Behind(o.cursor, done[k])
              /\ o.clear => o.kind = "final" /\ o.cursor = 0 /\ (Type(r) = "tracker" => AtEnd(active[k]))
              /\ o.full => o.kind = "final" /\ (r \in interrupted \/ Whole(done[k]))
        /\ pc[r] = "update" /\ o.try = 2 => o.version = row[k].version
        /\ o.kind = "final" => o.id \notin local[r].pending

(* A push by a run that has read the checkpoint never meets a conflict.    *)
Pushing(r) ==
    LET l == local[r]
        o == op[r]
        k == Of(r)
    IN  /\ o.kind = "push" => Resumable(r)
        /\ o.kind = "push" /\ l.copies[l.at] # None =>
              /\ pc[r] # "reread"
              /\ pc[r] = "update" => o.version = row[k].version /\ o.cursor = l.written
              /\ pc[r] = "readback" => row[k].cursor = l.written

(* Where no cursor is kept there is none anywhere.                         *)
PlainRun(r) ==
    /\ \A d \in ReadBy(local[r]) : Plain(KeyOf(r, d)) => local[r].copies[d].cursor = 0
    /\ op[r].kind # "none" /\ Plain(Of(r)) => op[r].cursor = 0

RunInv(r) ==
    /\ Ours(r)
    /\ CopiesKept(r) /\ NotBegun(r) /\ CycleRead(r) /\ Judged(r)
    /\ Writing(r) /\ Setting(r) /\ Pushing(r) /\ PlainRun(r)

KeyInv(k) ==
    /\ Behind(row[k].cursor, done[k])
    /\ k[2] = "tracker" /\ active[k] # None => Behind(active[k].cursor, done[k]) \/ active[k].cursor = Length
    /\ Plain(k) => row[k].cursor = 0 /\ (active[k] # None => active[k].cursor = 0)

PassInv == (\A r \in Run : RunInv(r)) /\ (\A k \in Key : KeyInv(k))

LEMMA BehindFacts ==
    /\ \A S : Behind(0, S)
    /\ \A S, T, c : S \subseteq T /\ Behind(c, S) => Behind(c, T)
    /\ \A S : \A c, last \in Cursor : Behind(c, S) => Behind(last, S \cup (c + 1)..last)
    /\ \A S : Behind(Length, S) <=> Whole(S)
    /\ \A S, T : S \subseteq T /\ Whole(S) => Whole(T)
  BY SyncAssumption DEF SyncAssumption, Cursor, Torrent, Behind, Whole

(* What a list leaves out is done, so a batch of it brings the data up to  *)
(* its last torrent, and there is nothing left behind the last of them.    *)
LEMMA ListFacts ==
    /\ \A S : \A list \in SUBSET Torrent : \A c, last \in Cursor :
          Torrent \ list \subseteq S /\ Behind(c, S) => Behind(last, S \cup (After(list, c) \cap 1..last))
    /\ \A S : \A list \in SUBSET Torrent : \A c \in Cursor :
          Torrent \ list \subseteq S /\ Behind(c, S) /\ After(list, c) = {} => Whole(S)
    /\ \A c \in Cursor : After(Torrent, c) = {} => c = Length
    /\ \A S, list : \A c \in Cursor : Behind(c, S) => Behind(c, S \ After(list, c))
<1>1. ASSUME NEW S, NEW list \in SUBSET Torrent, NEW c \in Cursor, NEW last \in Cursor,
             Torrent \ list \subseteq S, Behind(c, S)
      PROVE  Behind(last, S \cup (After(list, c) \cap 1..last))
  BY <1>1, SyncAssumption DEF SyncAssumption, Cursor, Torrent, Behind, After
<1>2. ASSUME NEW S, NEW list \in SUBSET Torrent, NEW c \in Cursor,
             Torrent \ list \subseteq S, Behind(c, S), After(list, c) = {}
      PROVE  Whole(S)
  BY <1>2, SyncAssumption DEF SyncAssumption, Cursor, Torrent, Behind, After, Whole
<1>3. ASSUME NEW c \in Cursor, After(Torrent, c) = {}
      PROVE  c = Length
  <2>1. CASE c = Length
    BY <2>1
  <2>2. CASE c # Length
    <3>1. c + 1 \in After(Torrent, c)
      BY <2>2, SyncAssumption DEF SyncAssumption, Cursor, Torrent, After
    <3> QED
      BY <1>3, <3>1
  <2> QED
    BY <2>1, <2>2
<1>4. ASSUME NEW S, NEW list, NEW c \in Cursor, Behind(c, S)
      PROVE  Behind(c, S \ After(list, c))
  BY <1>4, SyncAssumption DEF SyncAssumption, Cursor, Behind, After
<1> QED
  BY <1>1, <1>2, <1>3, <1>4

(* What another run's step leaves of a run's part of the invariant.        *)
Left(q) ==
    /\ pc'[q] = pc[q] /\ local'[q] = local[q] /\ op'[q] = op[q]
    /\ q \in interrupted' <=> q \in interrupted
    /\ \A k \in KeysOf(q) : row'[k] = row[k] /\ done'[k] = done[k] /\ active'[k] \in {None, active[k]}

LEMMA RunFrame ==
    ASSUME TypeInv, NEW q \in Run, RunInv(q), Left(q)
    PROVE  RunInv(q)'
<1>0. HandOf(q)
  BY DEF TypeInv
<1>1. /\ ReadBy(local[q]) \subseteq Ids(q) /\ Due(q) \subseteq Ids(q)
      /\ local[q].at \in Ids(q) \cup {None} /\ (op[q].kind # "none" => op[q].id \in Ids(q))
      /\ ReadBy(local[q])' = ReadBy(local[q]) /\ Due(q)' = Due(q) /\ InPhase(q)' = InPhase(q)
      /\ At(q)' = At(q) /\ Of(q)' = Of(q) /\ Resumable(q)' = Resumable(q)
  BY DEF RunInv, Ours, Due, ReadBy, InPhase, Left, At, Of, Resumable
<1>2. \A d \in Ids(q) : LET k == KeyOf(q, d) IN
        row'[k] = row[k] /\ done'[k] = done[k] /\ active'[k] \in {None, active[k]}
  BY KeyFacts DEF Left
<1>3. Ours(q)'
  BY <1>1 DEF RunInv, Ours, Left
<1>4. CopiesKept(q)' /\ PlainRun(q)'
  BY <1>1, <1>2 DEF RunInv, CopiesKept, PlainRun, Left
<1>5. NotBegun(q)'
  BY <1>1, <1>2 DEF RunInv, NotBegun, Left
<1>6. CycleRead(q)'
  BY <1>1, <1>2 DEF RunInv, CycleRead, AtEnd, Left
<1>7. Judged(q)'
  BY <1>1, <1>2 DEF RunInv, Judged, Left
<1>8. Writing(q)'
  <2>1. pc[q] = "write" \/ op[q].kind = "push" => local[q].at \in Ids(q)
    BY <1>0, <1>1, SyncAssumption DEF HandOf, SyncAssumption
  <2> QED
    BY <1>1, <1>2, <2>1, KeyFacts DEF RunInv, Writing, Left
<1>9. Setting(q)' /\ Pushing(q)'
  <2>1. op[q].kind # "none" => op[q].id \in Ids(q) /\ Of(q) = KeyOf(q, op[q].id)
    BY <1>1, KeyFacts
  <2>2. pc[q] \in {"update", "reread", "readback"} <=> op[q].kind # "none"
    BY <1>0 DEF HandOf
  <2>3. Setting(q)'
    BY <1>1, <1>2, <2>1, <2>2 DEF RunInv, Setting, AtEnd, Left
  <2>4. Pushing(q)'
    BY <1>1, <1>2, <2>1, <2>2 DEF RunInv, Pushing, Left
  <2> QED
    BY <2>3, <2>4
<1> QED
  BY <1>3, <1>4, <1>5, <1>6, <1>7, <1>8, <1>9 DEF RunInv

LEMMA PassFrame ==
    ASSUME TypeInv, PassInv, NEW r \in Run, Alone(r), interrupted' = interrupted,
           \A k \in Key : k \notin KeysOf(r) =>
              row'[k] = row[k] /\ done'[k] = done[k] /\ active'[k] \in {None, active[k]},
           RunInv(r)', \A k \in KeysOf(r) : KeyInv(k)'
    PROVE  PassInv'
<1>1. ASSUME NEW q \in Run PROVE RunInv(q)'
  <2>1. CASE q = r
    BY <2>1
  <2>2. CASE q # r
    <3>1. \A k \in KeysOf(q) : k \in Key /\ k \notin KeysOf(r)
      BY <2>2, KeyFacts
    <3>2. Left(q)
      BY <2>2, <3>1 DEF Alone, Left
    <3> QED
      BY <3>2, RunFrame DEF PassInv
  <2> QED
    BY <2>1, <2>2
<1>2. ASSUME NEW k \in Key PROVE KeyInv(k)'
  <2>1. CASE k \in KeysOf(r)
    BY <2>1
  <2>2. CASE k \notin KeysOf(r)
    <3>1. row'[k] = row[k] /\ done'[k] = done[k] /\ active'[k] \in {None, active[k]} /\ KeyInv(k)
      BY <2>2 DEF PassInv
    <3> QED
      BY <3>1 DEF KeyInv
  <2> QED
    BY <2>1, <2>2
<1> QED
  BY <1>1, <1>2 DEF PassInv

-----------------------------------------------------------------------------
(* The steps of a run keep the invariant.                                  *)

LEMMA PassFacts ==
    ASSUME TypeInv, PassInv, NEW r \in Run
    PROVE  /\ TypeOK /\ HandOf(r) /\ local[r] \in Local /\ op[r] \in Op
           /\ RunInv(r) /\ \A k \in KeysOf(r) : KeyInv(k)
           /\ \A d \in Ids(r) : d \in Downloader /\ KeyOf(r, d) \in KeysOf(r) /\ KeyOf(r, d) \in Key
           /\ None \notin Ids(r) /\ None \notin Downloader
  BY TypeFacts, KeyFacts, SyncAssumption DEF PassInv, SyncAssumption

LEMMA NextDownloaderPass ==
    ASSUME TypeInv, PassInv, NEW r \in Run, NEW d \in Downloader, NextDownloader(r, d)
    PROVE  PassInv'
<1> DEFINE l == local[r]
<1> DEFINE m == local'[r]
<1>0. /\ TypeOK /\ HandOf(r) /\ l \in Local /\ op[r] \in Op
      /\ RunInv(r) /\ \A k \in KeysOf(r) : KeyInv(k)
      /\ None \notin Ids(r)
  BY PassFacts
<1>1. /\ m = [l EXCEPT !.todo = @ \ {d}, !.at = d] /\ d \in l.todo
      /\ pc[r] = "loop" /\ pc'[r] = "fetch" /\ op'[r] = op[r]
      /\ UNCHANGED <<running, row, done, active, interrupted>>
  BY <1>0 DEF NextDownloader, Goto, Remember, RunOnly, table, TypeOK
<1>2. Alone(r)
  BY <1>0 DEF TypeOK, Alone, RunOnly, Goto, Remember, NextDownloader
<1>3. /\ m.todo = l.todo \ {d} /\ m.at = d /\ m.copies = l.copies /\ m.status = l.status
      /\ m.cycle = l.cycle /\ m.pending = l.pending /\ m.outcome = l.outcome
      /\ ReadBy(m) = ReadBy(l)
  BY <1>0, <1>1 DEF Local, ReadBy
<1> HIDE DEF m
<1>4. /\ InPhase(r) /\ InPhase(r)' /\ Due(r)' = Due(r) /\ op[r].kind = "none" /\ Due(r) = ReadBy(l)
  BY <1>0, <1>1, <1>3 DEF InPhase, Due, HandOf, m
<1>5. Ours(r)'
  BY <1>0, <1>1, <1>3, <1>4 DEF RunInv, Ours, m
<1>6. CopiesKept(r)' /\ CycleRead(r)' /\ PlainRun(r)'
  BY <1>0, <1>1, <1>3, <1>4 DEF RunInv, CopiesKept, CycleRead, PlainRun, m, Of
<1>7. NotBegun(r)'
  BY <1>0, <1>1, <1>3, <1>4 DEF RunInv, NotBegun, m, Of
<1>8. Judged(r)'
  BY <1>0, <1>1, <1>3, <1>4 DEF RunInv, Judged, Ours, m
<1>9. Writing(r)' /\ Setting(r)' /\ Pushing(r)'
  BY <1>0, <1>1, <1>4 DEF Writing, Setting, Pushing
<1>10. \A k \in KeysOf(r) : KeyInv(k)'
  BY <1>0, <1>1 DEF KeyInv
<1> QED
  BY <1>1, <1>2, <1>5, <1>6, <1>7, <1>8, <1>9, <1>10, PassFrame DEF RunInv

(* Leaving a downloader, with whatever status.                             *)
LEMMA NextWithPass ==
    ASSUME TypeInv, PassInv, NEW r \in Run, NEW status, NEW cycle,
           pc[r] \in {"fetch", "write"} \/ op[r].kind = "push",
           NextWith(r, status, cycle), op'[r].kind = "none", Alone(r), TypeOK',
           status # "none",
           UNCHANGED <<row, active, interrupted>>,
           \A k \in Key : done[k] \subseteq done'[k] /\ (k \notin KeysOf(r) => done'[k] = done[k]),
           local[r].at \in ReadBy(local[r]) /\ status = "success" => Whole(done[At(r)]),
           \/ cycle = local[r].cycle
           \/ /\ cycle = local[r].cycle \cup {local[r].at}
              /\ Type(r) = "tracker" /\ local[r].at \in ReadBy(local[r]) => AtEnd(active[At(r)])
    PROVE  PassInv'
<1> DEFINE l == local[r]
<1> DEFINE m == local'[r]
<1>0. /\ TypeOK /\ HandOf(r) /\ l \in Local /\ op[r] \in Op
      /\ RunInv(r) /\ \A k \in KeysOf(r) : KeyInv(k)
      /\ None \notin Ids(r)
      /\ \A d \in Ids(r) : d \in Downloader /\ KeyOf(r, d) \in KeysOf(r) /\ KeyOf(r, d) \in Key
      /\ At(r) = KeyOf(r, l.at)
  BY PassFacts, KeyFacts
<1>1. /\ m = [l EXCEPT !.status[l.at] = status, !.cycle = cycle, !.at = None]
      /\ pc'[r] = "loop"
      /\ InPhase(r) /\ op[r].kind # "final" /\ l.at \in Ids(r)
  <2>1. pc' = [pc EXCEPT ![r] = "loop"]
        /\ local' = [local EXCEPT ![r] = [l EXCEPT !.status[l.at] = status, !.cycle = cycle, !.at = None]]
    BY DEF NextWith, Remember
  <2>2. l.at \in Downloader /\ l.at \in Ids(r) \cup {None} /\ op[r].kind # "final"
    BY <1>0 DEF HandOf, RunInv, Ours
  <2> QED
    BY <1>0, <2>1, <2>2, PassFacts DEF TypeOK, InPhase
<1>3. /\ m.todo = l.todo /\ m.at = None /\ m.copies = l.copies
      /\ \A d \in Ids(r) : m.status[d] = IF d = l.at THEN status ELSE l.status[d]
      /\ m.cycle = cycle /\ m.pending = l.pending
      /\ ReadBy(m) = ReadBy(l)
  <2>1. l.status \in [Downloader -> {"none", "success", "partial", "failed"}]
    BY <1>0 DEF Local
  <2> QED
    BY <1>0, <1>1, <2>1 DEF Local, ReadBy
<1> HIDE DEF m
<1>4. InPhase(r)' /\ Due(r)' = Due(r) /\ Due(r) = ReadBy(l)
  BY <1>0, <1>1, <1>3 DEF InPhase, Due, HandOf, m
<1>a. l.at \notin l.todo \cup l.cycle /\ l.todo \cap l.cycle = {} /\ ReadBy(l) \subseteq Ids(r)
  BY <1>0, <1>1 DEF RunInv, Ours
<1>5. Ours(r)'
  <2>1. cycle \subseteq l.cycle \cup {l.at}
    OBVIOUS
  <2>2. m.at \notin m.todo \cup m.cycle /\ m.todo \cap m.cycle = {}
    BY <1>0, <1>1, <1>3, <1>a, <2>1, PassFacts, LocalFields
  <2>3. m.todo \subseteq Ids(r) /\ m.pending \subseteq Ids(r) /\ ReadBy(m) \subseteq Ids(r)
    BY <1>0, <1>3, <1>a DEF RunInv, Ours
  <2>4. Type(r) = "info" => Ids(r) \subseteq ReadBy(m)
    BY <1>0, <1>1, <1>3 DEF RunInv, Ours
  <2> QED
    BY <1>1, <1>3, <2>2, <2>3, <2>4 DEF Ours, m
<1>6. CopiesKept(r)'
  BY <1>0, <1>1, <1>3, <1>4, <1>a, BehindFacts DEF RunInv, CopiesKept, m
<1>b. PlainRun(r)'
  BY <1>0, <1>1, <1>3, <1>4, <1>a DEF RunInv, PlainRun, m
<1>7. NotBegun(r)'
  BY <1>0, <1>1, <1>3, <1>4, <1>a DEF RunInv, NotBegun, m
<1>8. CycleRead(r)'
  BY <1>0, <1>1, <1>3, <1>4, <1>a DEF RunInv, CycleRead, m
<1>9. Judged(r)'
  <2>1. ASSUME NEW d \in Ids(r), m.status[d] = "none" PROVE d \in m.todo \cup {m.at}
    BY <1>0, <1>1, <1>3, <2>1 DEF RunInv, Judged
  <2>2. ASSUME NEW d \in ReadBy(m), m.status[d] = "success" PROVE Whole(done'[KeyOf(r, d)])
    <3>1. d \in Ids(r) /\ d \in ReadBy(l) /\ KeyOf(r, d) \in Key
      BY <1>0, <1>3, <1>a, <2>2
    <3>2. Whole(done[KeyOf(r, d)])
      BY <1>0, <1>1, <1>3, <2>2, <3>1 DEF RunInv, Judged
    <3> QED
      BY <3>1, <3>2, BehindFacts
  <2>3. ASSUME NEW d \in m.todo PROVE m.status[d] = "none"
    BY <1>0, <1>1, <1>3, <1>a, <2>3 DEF RunInv, Judged, Ours
  <2>4. pc'[r] = "loop" /\ op'[r].kind = "none"
    BY <1>1
  <2> QED
    BY <1>4, <2>1, <2>2, <2>3, <2>4 DEF Judged, m
<1>10. Writing(r)' /\ Setting(r)' /\ Pushing(r)'
  BY <1>0, <1>1 DEF Writing, Setting, Pushing
<1>11. ASSUME NEW k \in KeysOf(r) PROVE KeyInv(k)'
  <2>1. k \in Key /\ KeyInv(k) /\ done[k] \subseteq done'[k]
    BY <1>0, KeyFacts
  <2> QED
    BY <2>1, BehindFacts DEF KeyInv
<1> QED
  BY <1>1, <1>5, <1>6, <1>7, <1>8, <1>9, <1>10, <1>11, <1>b, PassFrame DEF RunInv

LEMMA GivenUpPass ==
    ASSUME TypeInv, PassInv, TypeInv', NEW r \in Run, FetchFails(r) \/ DownloaderTimeout(r)
    PROVE  PassInv'
<1>0. TypeOK /\ HandOf(r) /\ TypeOK'
  BY PassFacts DEF TypeInv
<1>1. /\ NextWith(r, "failed", local[r].cycle)
      /\ UNCHANGED <<row, active, interrupted, done, running>>
      /\ pc[r] \in {"fetch", "write"} \/ op[r].kind = "push"
      /\ op' = op \/ op' = [op EXCEPT ![r] = NoOp]
      /\ FetchFails(r) => pc[r] = "fetch" /\ op' = op
  BY DEF FetchFails, DownloaderTimeout, RunOnly, table
<1>2. op'[r].kind = "none"
  <2>1. CASE op' = op
    <3>1. op[r].kind = "none"
      <4>1. CASE FetchFails(r)
        BY <1>0, <1>1, <4>1 DEF HandOf
      <4>2. CASE DownloaderTimeout(r)
        BY <1>0, <2>1, <4>2, CasFields DEF DownloaderTimeout, TypeOK
      <4> QED
        BY <4>1, <4>2
    <3> QED
      BY <2>1, <3>1
  <2>2. CASE op' = [op EXCEPT ![r] = NoOp]
    BY <1>0, <2>2, CasFields DEF TypeOK
  <2> QED
    BY <1>1, <2>1, <2>2
<1>3. Alone(r)
  <2>1. pc[r] # "idle"
    BY <1>0, <1>1 DEF HandOf
  <2>2. \A q \in Run \ {r} : pc'[q] = pc[q] /\ local'[q] = local[q] /\ op'[q] = op[q]
    BY <1>0, <1>1 DEF TypeOK, NextWith, Remember
  <2> QED
    BY <1>1, <2>1, <2>2 DEF Alone
<1> QED
  BY <1>0, <1>1, <1>2, <1>3, NextWithPass

LEMMA WriteFailsPass ==
    ASSUME TypeInv, PassInv, TypeInv', NEW r \in Run, NEW last \in Torrent, WriteFails(r, last)
    PROVE  PassInv'
<1> DEFINE l == local[r]
<1> DEFINE m == local'[r]
<1>0. /\ TypeOK /\ HandOf(r) /\ l \in Local /\ op[r] \in Op /\ TypeOK'
      /\ RunInv(r) /\ \A k \in KeysOf(r) : KeyInv(k)
      /\ \A d \in Ids(r) : d \in Downloader /\ KeyOf(r, d) \in KeysOf(r) /\ KeyOf(r, d) \in Key
      /\ At(r) = KeyOf(r, l.at)
  BY PassFacts, KeyFacts DEF TypeInv
<1>1. /\ pc[r] = "write" /\ op[r].kind = "none" /\ l.at \in Ids(r) /\ At(r) \in KeysOf(r)
      /\ UNCHANGED <<row, active, interrupted, running, op>>
  <2>1. pc[r] = "write" /\ UNCHANGED <<row, active, interrupted, running, op>>
    BY DEF WriteFails, table
  <2>2. l.at \in Downloader /\ l.at \in Ids(r) \cup {None} /\ op[r].kind = "none"
    BY <1>0, <2>1 DEF HandOf, RunInv, Ours
  <2> QED
    BY <1>0, <2>1, <2>2, PassFacts
<1>2. \A k \in Key : done[k] \subseteq done'[k] /\ (k \notin KeysOf(r) => done'[k] = done[k])
  <2>1. PICK some : done' = [done EXCEPT ![At(r)] = @ \cup some]
    BY DEF WriteFails
  <2> QED
    BY <1>0, <1>1, <2>1 DEF TypeOK
<1>3. CASE Resumable(r)
  <2>1. NextWith(r, "failed", l.cycle)
    BY <1>3 DEF WriteFails
  <2>2. Alone(r)
    BY <1>0, <1>1, <2>1 DEF TypeOK, NextWith, Remember, Alone
  <2> QED
    BY <1>0, <1>1, <1>2, <2>1, <2>2, NextWithPass
<1>4. CASE ~Resumable(r)
  <2>1. local' = [local EXCEPT ![r] = [l EXCEPT !.written = last, !.stop = "error"]] /\ pc' = pc
    BY <1>4 DEF WriteFails, Remember
  <2>2. m = [l EXCEPT !.written = last, !.stop = "error"] /\ last \in 1..l.plan
    BY <1>0, <2>1 DEF TypeOK, WriteFails, Batch
  <2>3. /\ m.todo = l.todo /\ m.at = l.at /\ m.copies = l.copies /\ m.status = l.status
        /\ m.cycle = l.cycle /\ m.pending = l.pending /\ m.outcome = l.outcome
        /\ ReadBy(m) = ReadBy(l) /\ m.written = last /\ m.plan = l.plan /\ m.stop = "error"
        /\ m.list = l.list /\ last <= l.plan
    BY <1>0, <2>2, LocalFields, Numbers DEF Local, ReadBy, Cursor
  <2>4. Alone(r)
    BY <1>0, <1>1, <2>1 DEF TypeOK, Alone
  <2> HIDE DEF m
  <2>5. /\ InPhase(r) /\ InPhase(r)' /\ Due(r)' = Due(r) /\ Due(r) = ReadBy(l)
        /\ Resumable(r)' = Resumable(r) /\ At(r)' = At(r) /\ pc'[r] = "write"
    BY <1>0, <1>1, <2>1, <2>3 DEF InPhase, Due, HandOf, m, Resumable, At
  <2>a. ReadBy(l) \subseteq Ids(r)
    BY <1>0, <1>1 DEF RunInv, Ours
  <2>6. Ours(r)' /\ PlainRun(r)'
    BY <1>0, <1>1, <2>3, <2>5 DEF RunInv, Ours, PlainRun, m
  <2>7. CopiesKept(r)'
    BY <1>0, <1>1, <1>2, <2>3, <2>5, <2>a, BehindFacts DEF RunInv, CopiesKept, m
  <2>8. NotBegun(r)' /\ CycleRead(r)'
    BY <1>0, <1>1, <2>1, <2>3, <2>5 DEF RunInv, NotBegun, CycleRead, m
  <2>9. Judged(r)'
    BY <1>0, <1>1, <1>2, <2>3, <2>5, <2>a, BehindFacts DEF RunInv, Judged, m
  <2>10. Writing(r)'
    <3>1. /\ Torrent \ l.list \subseteq done[At(r)] /\ done[At(r)] \subseteq done'[At(r)]
          /\ Type(r) = "tracker" => l.list = Torrent
      BY <1>0, <1>1, <1>2, KeyFacts DEF RunInv, Writing
    <3> QED
      BY <1>0, <1>1, <1>4, <2>3, <2>5, <3>1 DEF Writing, m
  <2>11. Setting(r)' /\ Pushing(r)'
    BY <1>1, <2>5 DEF Setting, Pushing
  <2>12. ASSUME NEW k \in KeysOf(r) PROVE KeyInv(k)'
    <3>1. k \in Key /\ KeyInv(k) /\ done[k] \subseteq done'[k]
      BY <1>0, <1>2, KeyFacts
    <3> QED
      BY <1>1, <3>1, BehindFacts DEF KeyInv
  <2> QED
    BY <1>1, <1>2, <2>4, <2>6, <2>7, <2>8, <2>9, <2>10, <2>11, <2>12, PassFrame DEF RunInv
<1> QED
  BY <1>3, <1>4

LEMMA ReadCheckpointsPass ==
    ASSUME TypeInv, PassInv, TypeInv', NEW r \in Run, NEW unread, ReadCheckpoints(r, unread),
           Type(r) = "info" => unread = {}
    PROVE  PassInv'
<1> DEFINE l == local[r]
<1> DEFINE m == local'[r]
<1>0. /\ TypeOK /\ HandOf(r) /\ l \in Local /\ op[r] \in Op /\ TypeOK'
      /\ RunInv(r) /\ \A k \in KeysOf(r) : KeyInv(k)
      /\ \A d \in Ids(r) : d \in Downloader /\ KeyOf(r, d) \in KeysOf(r) /\ KeyOf(r, d) \in Key
      /\ None \notin Ids(r) /\ None \notin Downloader
  BY PassFacts, KeyFacts DEF TypeInv
<1>1. /\ pc[r] = "init" /\ pc'[r] = "loop" /\ op'[r] = op[r] /\ op[r].kind = "none" /\ l = Fresh(r)
      /\ UNCHANGED <<row, done, interrupted, running>>
  BY <1>0 DEF ReadCheckpoints, Goto, table, TypeOK, HandOf, RunInv, Ours
<1>2. Alone(r)
  BY <1>0, <1>1 DEF ReadCheckpoints, Goto, Remember, TypeOK, Alone
<1>3. \A k \in Key : IF k \in KeysOf(r) /\ k[1] \notin unread THEN active'[k] = row[k]
                                                          ELSE active'[k] = active[k]
  BY DEF ReadCheckpoints
<1>4. m = [l EXCEPT !.copies = [d \in Downloader |-> IF d \in Ids(r) \ unread THEN row[KeyOf(r, d)] ELSE None]]
  BY <1>0 DEF ReadCheckpoints, Remember, TypeOK, KeyOf
<1>5. /\ m.todo = Ids(r) /\ m.at = None /\ m.cycle = {} /\ m.pending = {}
      /\ \A d \in Downloader : m.copies[d] = IF d \in Ids(r) \ unread THEN row[KeyOf(r, d)] ELSE None
      /\ \A d \in Downloader : m.status[d] = "none"
      /\ ReadBy(m) \subseteq Ids(r) \ unread
  BY <1>0, <1>1, <1>4 DEF Fresh, ReadBy, Local
<1> HIDE DEF m
<1>6. InPhase(r)' /\ Due(r)' = ReadBy(m)
  BY <1>0, <1>1 DEF InPhase, Due, m
<1>7. \A d \in Ids(r) : d \notin unread => active'[KeyOf(r, d)] = row[KeyOf(r, d)]
  BY <1>0, <1>3 DEF KeyOf
<1>a. Type(r) = "info" => Ids(r) \subseteq ReadBy(m)
  <2>1. \A d \in Ids(r) \ unread : row[KeyOf(r, d)] # None
    BY <1>0, NoneIsNothing DEF TypeOK
  <2> QED
    BY <1>0, <1>5, <2>1 DEF ReadBy
<1>8. Ours(r)'
  BY <1>0, <1>1, <1>5, <1>6, <1>a DEF Ours, m
<1>9. CopiesKept(r)'
  BY <1>0, <1>1, <1>5, <1>6 DEF CopiesKept, KeyInv, m
<1>10. NotBegun(r)'
  BY <1>0, <1>1, <1>5, <1>6, <1>7 DEF NotBegun, m
<1>11. CycleRead(r)' /\ Judged(r)'
  BY <1>0, <1>1, <1>5, <1>6 DEF CycleRead, Judged, m
<1>12. Writing(r)' /\ Setting(r)' /\ Pushing(r)'
  BY <1>1 DEF Writing, Setting, Pushing
<1>13. PlainRun(r)'
  BY <1>0, <1>1, <1>5 DEF PlainRun, KeyInv, m
<1>14. ASSUME NEW k \in KeysOf(r) PROVE KeyInv(k)'
  BY <1>0, <1>1, <1>3, KeyFacts DEF KeyInv
<1> QED
  BY <1>1, <1>2, <1>3, <1>8, <1>9, <1>10, <1>11, <1>12, <1>13, <1>14, PassFrame DEF RunInv

(* Where a run begins: what lies before has been written, or the context   *)
(* is a left-over.                                                         *)
LEMMA ResumeCases ==
    ASSUME NEW r \in Run
    PROVE  LET copy == local[r].copies[local[r].at]
               context == IF active[At(r)] = None THEN 0 ELSE active[At(r)].cursor
           IN  /\ ~Resumable(r) => ResumeAt(r) = 0
               /\ Resumable(r) => \/ copy # None /\ copy.cursor # 0 /\ ResumeAt(r) = copy.cursor
                                  \/ ~(Type(r) = "info" /\ copy # None /\ copy.cursor # 0) /\ ResumeAt(r) = context
<1>1. CASE ~Resumable(r)
  BY <1>1 DEF ResumeAt, Resumable
<1>2. CASE Resumable(r)
  BY <1>2 DEF ResumeAt
<1> QED
  BY <1>1, <1>2

LEMMA ResumeFacts ==
    ASSUME TypeInv, PassInv, NEW r \in Run, pc[r] = "fetch"
    PROVE  LET l == local[r]
               k == At(r)
               from == ResumeAt(r)
           IN  /\ from = 0 \/ Behind(from, done[k]) \/ (from = Length /\ l.copies[l.at] = None)
               /\ ~Resumable(r) => from = 0
               /\ Resumable(r) /\ l.copies[l.at] # None =>
                    active[k] = None \/ (active[k] = row[k] /\ row[k].cursor = from)
               /\ Resumable(r) /\ from = 0 => active[k] = None \/ active[k].cursor = 0
               /\ Type(r) = "info" => row[k].cursor = from
<1> DEFINE l == local[r]
<1> DEFINE k == At(r)
<1> DEFINE from == ResumeAt(r)
<1> DEFINE copy == l.copies[l.at]
<1>0. /\ TypeOK /\ HandOf(r) /\ l \in Local
      /\ RunInv(r) /\ \A j \in KeysOf(r) : KeyInv(j)
      /\ \A d \in Ids(r) : d \in Downloader /\ KeyOf(r, d) \in KeysOf(r) /\ KeyOf(r, d) \in Key
      /\ k = KeyOf(r, l.at) /\ None \notin Downloader
  BY PassFacts, KeyFacts
<1>1. l.at \in Ids(r) /\ InPhase(r) /\ KeyInv(k) /\ l.at \in Downloader
  BY <1>0 DEF RunInv, Ours, InPhase, HandOf
<1>2. copy # None => copy = row[k] /\ active[k] \in {None, row[k]}
  BY <1>0, <1>1 DEF RunInv, NotBegun, ReadBy
<1>3. copy \in Checkpoint \cup {None} /\ active[k] \in Checkpoint \cup {None}
  BY <1>0, <1>1, LocalFields, PassFacts DEF TypeOK
<1>4. copy # None => Behind(copy.cursor, done[k])
  BY <1>1, <1>2 DEF KeyInv
<1>5. active[k] # None /\ copy # None => active[k].cursor = copy.cursor /\ row[k].cursor = copy.cursor
  BY <1>2
<1>6. Type(r) = "tracker" /\ active[k] # None => Behind(active[k].cursor, done[k]) \/ active[k].cursor = Length
  BY <1>0, <1>1 DEF KeyInv, KeyOf
<1>a. Type(r) = "info" => copy # None /\ Resumable(r)
  BY <1>0, <1>1 DEF RunInv, Ours, ReadBy, Resumable
<1>b. Type(r) \in {"info", "tracker"} /\ Behind(row[k].cursor, done[k])
  BY <1>1, RunFacts DEF KeyInv, SyncType
<1>7. /\ ~Resumable(r) => from = 0
      /\ Resumable(r) => \/ copy # None /\ copy.cursor # 0 /\ from = copy.cursor
                         \/ /\ ~(Type(r) = "info" /\ copy # None /\ copy.cursor # 0)
                            /\ from = IF active[k] = None THEN 0 ELSE active[k].cursor
  BY ResumeCases
<1> HIDE DEF from, copy, k
<1>11. Type(r) = "info" => row[k].cursor = from
  BY <1>2, <1>5, <1>7, <1>a
<1>8. from = 0 \/ Behind(from, done[k]) \/ (from = Length /\ copy = None)
  BY <1>2, <1>4, <1>5, <1>6, <1>7, <1>11, <1>b
<1>9. Resumable(r) /\ copy # None =>
        active[k] = None \/ (active[k] = row[k] /\ row[k].cursor = from)
  BY <1>2, <1>5, <1>7
<1>10. Resumable(r) /\ from = 0 => active[k] = None \/ active[k].cursor = 0
  BY <1>5, <1>7
<1> QED
  BY <1>7, <1>8, <1>9, <1>10, <1>11 DEF from, k, copy

LEMMA FetchPass ==
    ASSUME TypeInv, PassInv, TypeInv', NEW r \in Run, NEW list \in SUBSET Torrent, NEW last \in Cursor,
           NEW budget \in BOOLEAN, Fetch(r, list, last, budget)
    PROVE  PassInv'
<1> DEFINE l == local[r]
<1> DEFINE m == local'[r]
<1> DEFINE k == At(r)
<1> DEFINE from == ResumeAt(r)
<1> DEFINE stop == IF After(list, last) = {} THEN "none" ELSE IF budget THEN "budget" ELSE "error"
<1>0. /\ TypeOK /\ HandOf(r) /\ l \in Local /\ op[r] \in Op /\ TypeOK'
      /\ RunInv(r) /\ \A j \in KeysOf(r) : KeyInv(j)
      /\ \A d \in Ids(r) : d \in Downloader /\ KeyOf(r, d) \in KeysOf(r) /\ KeyOf(r, d) \in Key
      /\ None \notin Ids(r) /\ None \notin Downloader
      /\ k = KeyOf(r, l.at)
  BY PassFacts, KeyFacts DEF TypeInv
<1>1. /\ pc[r] = "fetch" /\ pc'[r] = "write" /\ op'[r] = op[r] /\ op[r].kind = "none"
      /\ UNCHANGED <<row, active, interrupted, running>>
  BY <1>0 DEF Fetch, Goto, table, TypeOK, HandOf
<1>2. Alone(r)
  BY <1>0, <1>1 DEF Fetch, Goto, Remember, TypeOK, Alone
<1>a. l.at \in Ids(r) /\ InPhase(r) /\ KeyInv(k) /\ k \in Key /\ ReadBy(l) \subseteq Ids(r)
  BY <1>0, <1>1 DEF RunInv, Ours, InPhase, HandOf
<1>b. from \in Cursor
  BY <1>1, ResumeType
<1>c. /\ last \in {from} \cup After(list, from) /\ (Resumable(r) \/ last = Length)
      /\ Type(r) = "tracker" \/ from # 0 => list = Torrent
  BY DEF Fetch, Lists
<1>3. m = [l EXCEPT !.list = list, !.written = from, !.plan = last, !.stop = stop]
  BY <1>0 DEF Fetch, Remember, TypeOK
<1>4. done' = IF from = 0 /\ row[k].cursor = 0 THEN [done EXCEPT ![k] = Torrent \ list]
              ELSE IF from # 0 /\ Type(r) = "info" THEN [done EXCEPT ![k] = @ \ After(list, from)]
              ELSE done
  BY DEF Fetch
<1> HIDE DEF from, stop
<1>5. /\ m.todo = l.todo /\ m.at = l.at /\ m.copies = l.copies /\ m.status = l.status
      /\ m.cycle = l.cycle /\ m.pending = l.pending /\ m.outcome = l.outcome
      /\ ReadBy(m) = ReadBy(l) /\ m.written = from /\ m.plan = last /\ m.stop = stop
      /\ m.list = list
  BY <1>0, <1>3 DEF Local, ReadBy
<1> HIDE DEF m
<1>6. /\ InPhase(r)' /\ Due(r)' = Due(r) /\ Due(r) = ReadBy(l)
      /\ Resumable(r)' = Resumable(r) /\ At(r)' = k
  BY <1>0, <1>1, <1>5, <1>a DEF InPhase, Due, HandOf, m, Resumable, At
<1>7. \A d \in Ids(r) : d # l.at => KeyOf(r, d) # k
  BY <1>0, <1>a, KeyFacts
<1>8. /\ \A j \in Key : j # k => done'[j] = done[j]
      /\ \/ done'[k] = done[k] /\ Type(r) = "tracker"
         \/ done'[k] = Torrent \ list /\ from = 0 /\ row[k].cursor = 0
         \/ done'[k] = done[k] \ After(list, from) /\ from # 0 /\ Type(r) = "info" /\ row[k].cursor = from
  <2>1. Type(r) \in {"info", "tracker"} /\ (Type(r) = "info" => row[k].cursor = from)
    BY <1>1, ResumeFacts, RunFacts DEF SyncType, from
  <2> QED
    BY <1>0, <1>4, <1>a, <2>1 DEF TypeOK
<1>f. /\ Behind(row[k].cursor, done'[k])
      /\ Behind(from, done[k]) => Behind(from, done'[k])
      /\ Torrent \ list \subseteq done'[k]
  <2>1. Behind(row[k].cursor, done[k])
    BY <1>a DEF KeyInv
  <2>2. CASE done'[k] = done[k] /\ Type(r) = "tracker"
    BY <1>c, <2>1, <2>2
  <2>3. CASE done'[k] = Torrent \ list /\ from = 0 /\ row[k].cursor = 0
    BY <2>3, BehindFacts
  <2>4. CASE done'[k] = done[k] \ After(list, from) /\ from # 0 /\ Type(r) = "info" /\ row[k].cursor = from
    BY <1>b, <1>c, <2>1, <2>4, ListFacts
  <2> QED
    BY <1>8, <2>2, <2>3, <2>4
<1>d. l.at \notin l.todo \cup l.cycle /\ l.todo \cap l.cycle = {}
  BY <1>0, <1>a DEF RunInv, Ours
<1>e. l.copies[l.at] # None => l.copies[l.at] = row[k] /\ active[k] \in {None, row[k]}
  BY <1>0, <1>1, <1>a DEF RunInv, NotBegun, ReadBy
<1>g. Type(r) = "info" => Ids(r) \subseteq ReadBy(l)
  BY <1>0, <1>a DEF RunInv, Ours
<1>9. Ours(r)' /\ PlainRun(r)'
  <2>1. Ours(r)'
    BY <1>0, <1>1, <1>5, <1>6, <1>d, <1>g DEF RunInv, Ours, m
  <2>2. PlainRun(r)'
    BY <1>0, <1>1, <1>5, <1>6 DEF RunInv, PlainRun, m
  <2> QED
    BY <2>1, <2>2
<1>10. CopiesKept(r)'
  <2> SUFFICES ASSUME NEW d \in ReadBy(l) PROVE Behind(l.copies[d].cursor, done'[KeyOf(r, d)])
    BY <1>5, <1>6 DEF CopiesKept, m
  <2>0. Behind(l.copies[d].cursor, done[KeyOf(r, d)]) /\ d \in Ids(r) /\ KeyOf(r, d) \in Key
    BY <1>0, <1>6, <1>a DEF RunInv, CopiesKept
  <2>1. CASE d = l.at
    <3>1. l.copies[d] = row[k]
      BY <1>e, <2>1 DEF ReadBy
    <3> QED
      BY <1>0, <1>f, <2>1, <3>1
  <2>2. CASE d # l.at
    BY <1>7, <1>8, <2>0, <2>2
  <2> QED
    BY <2>1, <2>2
<1>11. NotBegun(r)'
  BY <1>0, <1>1, <1>5, <1>6, <1>a DEF RunInv, NotBegun, m
<1>12. CycleRead(r)'
  BY <1>0, <1>1, <1>5, <1>6 DEF RunInv, CycleRead, m
<1>13. Judged(r)'
  <2>1. ASSUME NEW d \in ReadBy(l), l.status[d] = "success" PROVE Whole(done'[KeyOf(r, d)])
    <3>0. Whole(done[KeyOf(r, d)]) /\ d \in Ids(r) /\ KeyOf(r, d) \in Key
      BY <1>0, <1>a, <2>1 DEF RunInv, Judged
    <3>1. d # l.at
      BY <1>0, <1>1, <2>1 DEF RunInv, Judged
    <3> QED
      BY <1>7, <1>8, <3>0, <3>1
  <2>2. /\ \A d \in Ids(r) : l.status[d] = "none" => d \in l.todo \cup {l.at}
        /\ \A d \in l.todo : l.status[d] = "none"
        /\ l.status[l.at] = "none"
    BY <1>0, <1>1, <1>a DEF RunInv, Judged
  <2> QED
    BY <1>1, <1>5, <1>6, <2>1, <2>2 DEF Judged, m
<1>14. Writing(r)'
  <2>1. from <= last /\ (stop = "none" => After(list, last) = {})
    BY <1>b, <1>c DEF stop, Cursor, After
  <2>2. /\ from = 0 \/ Behind(from, done[k]) \/ (from = Length /\ l.copies[l.at] = None)
        /\ ~Resumable(r) => from = 0
        /\ Resumable(r) /\ l.copies[l.at] # None =>
                    active[k] = None \/ (active[k] = row[k] /\ row[k].cursor = from)
    BY <1>1, ResumeFacts DEF from
  <2>3. Behind(from, done'[k]) \/ (from = Length /\ l.copies[l.at] = None)
    BY <1>f, <2>2, BehindFacts
  <2>4. ~Resumable(r) => Behind(from, done'[k])
    BY <2>2, BehindFacts
  <2> QED
    BY <1>1, <1>5, <1>6, <1>c, <1>f, <2>1, <2>2, <2>3, <2>4 DEF Writing, m
<1>15. Setting(r)' /\ Pushing(r)'
  BY <1>1 DEF Setting, Pushing
<1>16. ASSUME NEW j \in KeysOf(r) PROVE KeyInv(j)'
  <2>0. KeyInv(j) /\ j \in Key
    BY <1>0, KeyFacts
  <2>1. CASE done'[j] = done[j]
    BY <1>1, <2>0, <2>1 DEF KeyInv
  <2>2. CASE done'[j] # done[j]
    <3>1. j = k /\ (k[2] = "tracker" => from = 0)
      BY <1>0, <1>8, <2>0, <2>2 DEF KeyOf
    <3>2. k[2] = "tracker" => active[k] = None \/ active[k].cursor = 0
      <4>1. CASE Resumable(r)
        BY <1>1, <3>1, <4>1, ResumeFacts DEF from
      <4>2. CASE ~Resumable(r)
        <5>1. Plain(k)
          BY <1>0, <1>a, <4>2, RunFacts DEF Resumable, Plain, At, SyncType
        <5> QED
          BY <1>a, <5>1 DEF KeyInv
      <4> QED
        BY <4>1, <4>2
    <3> QED
      BY <1>1, <1>f, <2>0, <3>1, <3>2, BehindFacts DEF KeyInv
  <2> QED
    BY <2>1, <2>2
<1> QED
  BY <1>0, <1>1, <1>2, <1>8, <1>9, <1>10, <1>11, <1>12, <1>13, <1>14, <1>15, <1>16, <1>a, PassFrame DEF RunInv

(* Where a run is while it writes the torrents of a downloader.            *)
LEMMA WriteFacts ==
    ASSUME TypeInv, PassInv, NEW r \in Run, pc[r] = "write"
    PROVE  /\ local[r].at \in Ids(r) /\ InPhase(r) /\ At(r) \in KeysOf(r) /\ At(r) \in Key
           /\ op[r].kind = "none" /\ Due(r) = ReadBy(local[r]) /\ ReadBy(local[r]) \subseteq Ids(r)
           /\ local[r].at \notin local[r].todo \cup local[r].cycle
           /\ local[r].todo \cap local[r].cycle = {}
           /\ At(r) = KeyOf(r, local[r].at) /\ KeyInv(At(r))
           /\ local[r].written \in Cursor /\ local[r].plan \in Cursor /\ local[r].list \subseteq Torrent
<1>0. /\ HandOf(r) /\ RunInv(r) /\ local[r] \in Local /\ \A j \in KeysOf(r) : KeyInv(j)
      /\ \A d \in Ids(r) : d \in Downloader /\ KeyOf(r, d) \in KeysOf(r) /\ KeyOf(r, d) \in Key
      /\ None \notin Downloader /\ At(r) = KeyOf(r, local[r].at)
  BY PassFacts, KeyFacts
<1>1. local[r].at \in Ids(r) /\ InPhase(r) /\ op[r].kind = "none"
  BY <1>0 DEF HandOf, RunInv, Ours, InPhase
<1> QED
  BY <1>0, <1>1, LocalFields DEF RunInv, Ours, Due

LEMMA WriteBatchPass ==
    ASSUME TypeInv, PassInv, TypeInv', NEW r \in Run, NEW last \in Torrent, WriteBatch(r, last)
    PROVE  PassInv'
<1> DEFINE l == local[r]
<1> DEFINE m == local'[r]
<1> DEFINE k == At(r)
<1> DEFINE o == Cas("push", l.at, active[k].version, last, FALSE, FALSE)
<1>0. /\ TypeOK /\ HandOf(r) /\ l \in Local /\ op[r] \in Op /\ TypeOK'
      /\ RunInv(r) /\ \A j \in KeysOf(r) : KeyInv(j)
      /\ \A d \in Ids(r) : d \in Downloader /\ KeyOf(r, d) \in KeysOf(r) /\ KeyOf(r, d) \in Key
      /\ None \notin Ids(r) /\ None \notin Downloader
  BY PassFacts, KeyFacts DEF TypeInv
<1>1. /\ pc[r] = "write" /\ UNCHANGED <<row, active, interrupted, running>>
  BY DEF WriteBatch, table
<1>a. /\ l.at \in Ids(r) /\ InPhase(r) /\ k \in KeysOf(r) /\ k \in Key
      /\ op[r].kind = "none" /\ Due(r) = ReadBy(l) /\ ReadBy(l) \subseteq Ids(r)
      /\ l.at \notin l.todo \cup l.cycle /\ l.todo \cap l.cycle = {}
      /\ k = KeyOf(r, l.at) /\ KeyInv(k) /\ l.written \in Cursor /\ l.plan \in Cursor
      /\ l.list \subseteq Torrent
  BY <1>1, WriteFacts
<1>2. last \in Cursor /\ last <= l.plan /\ l.written # Length
  <2>1. last \in (l.written + 1)..Length /\ last \in 1..l.plan
    BY DEF WriteBatch, Batch, After
  <2> QED
    BY <1>a, <2>1, Numbers, SyncAssumption DEF Cursor, SyncAssumption
<1>3. /\ done' = [done EXCEPT ![k] = @ \cup (After(l.list, l.written) \cap 1..last)]
      /\ local' = [local EXCEPT ![r] = [l EXCEPT !.written = last]]
  BY DEF WriteBatch, Remember, Batch
<1>4. \A j \in Key : done[j] \subseteq done'[j] /\ (j \notin KeysOf(r) => done'[j] = done[j])
  BY <1>0, <1>a, <1>3 DEF TypeOK
<1>b. /\ Torrent \ l.list \subseteq done[k]
      /\ Type(r) = "tracker" => l.list = Torrent
  BY <1>0, <1>1 DEF RunInv, Writing
<1>5. Behind(l.written, done[k]) => Behind(last, done'[k])
  BY <1>0, <1>a, <1>b, <1>2, <1>3, ListFacts DEF TypeOK
<1>6. /\ m.todo = l.todo /\ m.at = l.at /\ m.copies = l.copies /\ m.status = l.status
      /\ m.cycle = l.cycle /\ m.pending = l.pending /\ m.outcome = l.outcome
      /\ ReadBy(m) = ReadBy(l) /\ m.written = last /\ m.plan = l.plan /\ m.stop = l.stop
      /\ m.list = l.list
  BY <1>0, <1>3 DEF Local, ReadBy, TypeOK
<1>7. \/ ~(Resumable(r) /\ active[k] # None) /\ pc' = pc /\ op' = op
      \/ Resumable(r) /\ active[k] # None /\ pc' = [pc EXCEPT ![r] = "update"] /\ op' = [op EXCEPT ![r] = o]
  BY DEF WriteBatch, Attempt
<1>8. Alone(r)
  BY <1>0, <1>1, <1>3, <1>7 DEF TypeOK, Alone
<1>9. \/ /\ ~(Resumable(r) /\ active[k] # None)
         /\ pc'[r] = "write" /\ op'[r] = op[r]
      \/ /\ Resumable(r) /\ active[k] # None /\ pc'[r] = "update"
         /\ op'[r].kind = "push" /\ op'[r].id = l.at /\ op'[r].version = active[k].version
         /\ op'[r].cursor = last /\ op'[r].clear = FALSE /\ op'[r].full = FALSE /\ op'[r].try = 1
  BY <1>0, <1>1, <1>7, CasFields DEF TypeOK, Cas
<1> HIDE DEF m, o
<1>10. /\ InPhase(r)' /\ Due(r)' = Due(r)
       /\ Resumable(r)' = Resumable(r) /\ At(r)' = k /\ (op'[r].kind = "push" => Of(r)' = k)
  BY <1>1, <1>6, <1>9, <1>a DEF InPhase, Due, m, Resumable, At, Of
<1>11. Ours(r)'
  BY <1>0, <1>1, <1>6, <1>9, <1>10, <1>a DEF RunInv, Ours, m
<1>12. PlainRun(r)'
  <2>1. Resumable(r) => ~Plain(k)
    BY <1>a DEF Resumable, Plain, At
  <2> QED
    BY <1>0, <1>6, <1>9, <1>10, <1>a, <2>1 DEF RunInv, PlainRun, m
<1> HIDE DEF k
<1>13. CopiesKept(r)'
  BY <1>0, <1>4, <1>6, <1>10, <1>a, BehindFacts DEF RunInv, CopiesKept, m
<1>14. NotBegun(r)' /\ CycleRead(r)'
  BY <1>0, <1>1, <1>6, <1>9, <1>10, <1>a DEF RunInv, NotBegun, CycleRead, m
<1>15. Judged(r)'
  <2>1. ASSUME NEW d \in ReadBy(l), l.status[d] = "success" PROVE Whole(done'[KeyOf(r, d)])
    BY <1>0, <1>4, <1>a, <2>1, BehindFacts DEF RunInv, Judged
  <2> QED
    BY <1>0, <1>1, <1>6, <1>9, <1>10, <1>a, <2>1 DEF RunInv, Judged, m
<1>16. Writing(r)'
  <2>1. /\ l.stop = "none" => After(l.list, l.plan) = {}
        /\ Resumable(r) => Behind(l.written, done[k])
        /\ ~Resumable(r) => l.stop = "error" \/ Behind(l.written, done[k])
    BY <1>0, <1>1, <1>2 DEF RunInv, Writing, k
  <2>2. Resumable(r) /\ l.copies[l.at] # None /\ pc'[r] = "write" => active[k] = None
    BY <1>9
  <2>3. Torrent \ l.list \subseteq done'[k]
    BY <1>4, <1>a, <1>b
  <2> QED
    BY <1>1, <1>2, <1>5, <1>6, <1>9, <1>10, <1>b, <2>1, <2>2, <2>3 DEF Writing, m
<1>17. Setting(r)'
  <2>1. Resumable(r) => Behind(last, done'[k])
    BY <1>0, <1>1, <1>2, <1>5 DEF RunInv, Writing, k
  <2> QED
    BY <1>9, <1>10, <1>a, <2>1 DEF Setting
<1>18. Pushing(r)'
  <2>1. Resumable(r) /\ l.copies[l.at] # None => active[k] = None \/ active[k] = row[k]
    BY <1>0, <1>1 DEF RunInv, Writing, k
  <2> QED
    BY <1>1, <1>6, <1>9, <1>10, <1>a, <2>1 DEF Pushing, m
<1>19. ASSUME NEW j \in KeysOf(r) PROVE KeyInv(j)'
  <2>1. j \in Key /\ KeyInv(j) /\ done[j] \subseteq done'[j]
    BY <1>0, <1>4, KeyFacts
  <2> QED
    BY <1>1, <2>1, BehindFacts DEF KeyInv
<1> QED
  BY <1>1, <1>4, <1>8, <1>11, <1>12, <1>13, <1>14, <1>15, <1>16, <1>17, <1>18, <1>19, PassFrame DEF RunInv

LEMMA FinishPass ==
    ASSUME TypeInv, PassInv, TypeInv', NEW r \in Run, Finish(r)
    PROVE  PassInv'
<1> DEFINE l == local[r]
<1> DEFINE m == local'[r]
<1> DEFINE k == At(r)
<1> DEFINE copy == l.copies[l.at]
<1> DEFINE status == IF l.stop = "none" THEN "success" ELSE "partial"
<1> DEFINE c == IF Resumable(r) THEN l.written ELSE copy.cursor
<1>0. /\ TypeOK /\ HandOf(r) /\ l \in Local /\ op[r] \in Op /\ TypeOK'
      /\ RunInv(r) /\ \A j \in KeysOf(r) : KeyInv(j)
      /\ \A d \in Ids(r) : d \in Downloader /\ KeyOf(r, d) \in KeysOf(r) /\ KeyOf(r, d) \in Key
      /\ None \notin Ids(r) /\ None \notin Downloader
  BY PassFacts, KeyFacts DEF TypeInv
<1>1. /\ pc[r] = "write" /\ l.written = l.plan /\ UNCHANGED <<row, active, done, interrupted, running>>
  BY DEF Finish, table, RunOnly
<1>a. /\ l.at \in Ids(r) /\ InPhase(r) /\ k \in KeysOf(r) /\ k \in Key
      /\ op[r].kind = "none" /\ Due(r) = ReadBy(l) /\ ReadBy(l) \subseteq Ids(r)
      /\ l.at \notin l.todo \cup l.cycle /\ l.todo \cap l.cycle = {}
      /\ k = KeyOf(r, l.at) /\ KeyInv(k) /\ l.written \in Cursor /\ l.plan \in Cursor
      /\ l.list \subseteq Torrent
  BY <1>1, WriteFacts
<1>b. l.at \in ReadBy(l) <=> copy # None
  BY <1>0, <1>a DEF ReadBy
<1>2. /\ l.stop = "none" => After(l.list, l.written) = {}
      /\ Torrent \ l.list \subseteq done[k]
      /\ Type(r) = "tracker" => l.list = Torrent
      /\ Resumable(r) => Behind(l.written, done[k]) \/ (l.written = Length /\ copy = None)
      /\ ~Resumable(r) => l.stop = "error" \/ Behind(l.written, done[k])
      /\ Resumable(r) /\ copy # None => active[k] = None \/ (active[k] = row[k] /\ row[k].cursor = l.written)
  BY <1>0, <1>1 DEF RunInv, Writing
<1>3. /\ copy # None /\ l.stop = "none" => Whole(done[k])
      /\ copy # None /\ l.stop = "none" /\ Resumable(r) /\ Type(r) = "tracker" => AtEnd(active[k])
  BY <1>2, <1>a, ListFacts DEF AtEnd
<1>4. \A s, cycle : NextWith(r, s, cycle) /\ op' = op => Alone(r) /\ op'[r].kind = "none"
  BY <1>0, <1>1, <1>a DEF TypeOK, NextWith, Remember, Alone
<1>5. \/ l.stop = "error" /\ NextWith(r, "failed", l.cycle) /\ op' = op
      \/ l.stop = "none" /\ Resumable(r) /\ NextWith(r, "success", l.cycle \cup {l.at}) /\ op' = op
      \/ copy = None /\ NextWith(r, status, l.cycle) /\ op' = op
      \/ /\ l.stop # "error" /\ ~(l.stop = "none" /\ Resumable(r)) /\ copy # None
         /\ local' = [local EXCEPT ![r] = [l EXCEPT !.status[l.at] = status]]
         /\ Attempt(r, Cas("advance", l.at, copy.version, c, FALSE, FALSE))
  BY DEF Finish, Remember
<1>6. CASE l.stop = "error" /\ NextWith(r, "failed", l.cycle) /\ op' = op
  BY <1>0, <1>1, <1>4, <1>6, NextWithPass
<1>7. CASE l.stop = "none" /\ Resumable(r) /\ NextWith(r, "success", l.cycle \cup {l.at}) /\ op' = op
  BY <1>0, <1>1, <1>3, <1>4, <1>7, <1>b, NextWithPass
<1>8. CASE copy = None /\ NextWith(r, status, l.cycle) /\ op' = op
  <2>1. status # "none" /\ l.at \notin ReadBy(l)
    BY <1>8, <1>b
  <2> HIDE DEF status
  <2> QED
    BY <1>0, <1>1, <1>4, <1>8, <2>1, NextWithPass
<1>9. CASE /\ l.stop # "error" /\ ~(l.stop = "none" /\ Resumable(r)) /\ copy # None
           /\ local' = [local EXCEPT ![r] = [l EXCEPT !.status[l.at] = status]]
           /\ Attempt(r, Cas("advance", l.at, copy.version, c, FALSE, FALSE))
  <2>1. /\ pc' = [pc EXCEPT ![r] = "update"]
        /\ op' = [op EXCEPT ![r] = Cas("advance", l.at, copy.version, c, FALSE, FALSE)]
    BY <1>9 DEF Attempt
  <2>a. /\ status # "none" /\ (status = "success" => Whole(done[k]))
        /\ Behind(c, done[k]) /\ (Plain(k) => c = 0)
    <3>1. Behind(copy.cursor, done[k]) /\ (Plain(k) => copy.cursor = 0)
      BY <1>0, <1>9, <1>a, <1>b DEF RunInv, CopiesKept, PlainRun
    <3>2. Plain(k) => ~Resumable(r)
      BY <1>a DEF Resumable, Plain, At
    <3> QED
      BY <1>2, <1>3, <1>9, <3>1, <3>2
  <2> HIDE DEF c, status
  <2>2. /\ op'[r].kind = "advance" /\ op'[r].id = l.at /\ op'[r].cursor = c /\ op'[r].try = 1
        /\ op'[r].clear = FALSE /\ op'[r].full = FALSE /\ pc'[r] = "update"
    BY <1>0, <2>1, CasFields DEF TypeOK, Cas
  <2>3. Alone(r)
    BY <1>0, <1>1, <1>9, <2>1 DEF TypeOK, Alone
  <2>4. /\ m.todo = l.todo /\ m.at = l.at /\ m.copies = l.copies
        /\ \A d \in Ids(r) : m.status[d] = IF d = l.at THEN status ELSE l.status[d]
        /\ m.cycle = l.cycle /\ m.pending = l.pending /\ ReadBy(m) = ReadBy(l)
    <3>1. l.status \in [Downloader -> {"none", "success", "partial", "failed"}]
      BY <1>0 DEF Local
    <3> QED
      BY <1>0, <1>9, <3>1 DEF Local, ReadBy, TypeOK
  <2> HIDE DEF m
  <2>5. InPhase(r)' /\ Due(r)' = Due(r) /\ At(r)' = k /\ Of(r)' = k
    BY <2>2, <2>4, <1>a DEF InPhase, Due, m, At, Of
  <2>6. Ours(r)' /\ PlainRun(r)'
    BY <1>0, <1>a, <2>2, <2>4, <2>5, <2>a DEF RunInv, Ours, PlainRun, m
  <2> HIDE DEF k
  <2>7. CopiesKept(r)'
    BY <1>0, <1>1, <1>a, <2>4, <2>5 DEF RunInv, CopiesKept, m
  <2>8. NotBegun(r)' /\ CycleRead(r)'
    BY <1>0, <1>1, <1>a, <2>2, <2>4, <2>5 DEF RunInv, NotBegun, CycleRead, m
  <2>9. Judged(r)'
    <3>1. ASSUME NEW d \in ReadBy(l), m.status[d] = "success" PROVE Whole(done'[KeyOf(r, d)])
      BY <1>0, <1>1, <1>a, <2>4, <2>a, <3>1 DEF RunInv, Judged
    <3>2. /\ \A d \in Ids(r) : m.status[d] = "none" => d \in m.todo \cup {m.at}
          /\ \A d \in m.todo : m.status[d] = "none"
      BY <1>0, <1>1, <1>a, <2>4, <2>a DEF RunInv, Judged, Ours
    <3> QED
      BY <1>9, <1>a, <2>2, <2>4, <2>5, <2>a, <3>1, <3>2 DEF Judged, m
  <2>10. Writing(r)' /\ Setting(r)' /\ Pushing(r)'
    BY <1>1, <2>2, <2>5, <2>a DEF Writing, Setting, Pushing
  <2>11. ASSUME NEW j \in KeysOf(r) PROVE KeyInv(j)'
    BY <1>0, <1>1 DEF KeyInv
  <2> QED
    BY <1>1, <2>3, <2>6, <2>7, <2>8, <2>9, <2>10, <2>11, PassFrame DEF RunInv
<1> QED
  BY <1>5, <1>6, <1>7, <1>8, <1>9

(* Where a run is while it writes to a checkpoint.                         *)
LEMMA CasFacts ==
    ASSUME TypeInv, PassInv, NEW r \in Run, pc[r] \in {"update", "reread", "readback"}
    PROVE  /\ op[r].kind \in {"push", "advance", "final"} /\ op[r].id \in Ids(r)
           /\ Of(r) = KeyOf(r, op[r].id) /\ Of(r) \in Key /\ Of(r) \in KeysOf(r) /\ KeyInv(Of(r))
           /\ \A d \in Ids(r) : d # op[r].id => KeyOf(r, d) # Of(r)
           /\ InPhase(r) <=> op[r].kind # "final"
           /\ Due(r) \subseteq Ids(r) /\ (op[r].kind = "final" => op[r].id \notin Due(r))
           /\ op[r].kind # "final" => /\ op[r].id = local[r].at /\ Of(r) = At(r)
                                      /\ Due(r) = ReadBy(local[r])
                                      /\ op[r].id \notin local[r].todo \cup local[r].cycle
<1>0. /\ HandOf(r) /\ RunInv(r) /\ op[r] \in Op /\ \A j \in KeysOf(r) : KeyInv(j)
      /\ \A d \in Ids(r) : d \in Downloader /\ KeyOf(r, d) \in KeysOf(r) /\ KeyOf(r, d) \in Key
      /\ None \notin Downloader
  BY PassFacts
<1>1. op[r].kind \in {"push", "advance", "final"} /\ op[r].id \in Ids(r)
  BY <1>0, OpFields DEF HandOf, RunInv, Ours
<1>2. Of(r) = KeyOf(r, op[r].id) /\ \A d \in Ids(r) : d # op[r].id => KeyOf(r, d) # Of(r)
  BY <1>0, <1>1, KeyFacts
<1>3. InPhase(r) <=> op[r].kind # "final"
  BY <1>0, <1>1 DEF InPhase, HandOf
<1>4. op[r].kind # "final" => op[r].id = local[r].at /\ Of(r) = At(r)
  BY <1>0, <1>1 DEF HandOf, Of, At
<1>5. Due(r) = IF op[r].kind = "final" THEN local[r].pending ELSE ReadBy(local[r])
  BY <1>1, <1>3 DEF Due
<1>6. /\ local[r].pending \subseteq Ids(r) /\ ReadBy(local[r]) \subseteq Ids(r)
      /\ InPhase(r) => local[r].at \notin local[r].todo \cup local[r].cycle
      /\ op[r].kind = "final" => op[r].id \notin local[r].pending
  BY <1>0 DEF RunInv, Ours, Setting
<1> QED
  BY <1>0, <1>1, <1>2, <1>3, <1>4, <1>5, <1>6

LEMMA UpdatePass ==
    ASSUME TypeInv, PassInv, TypeInv', NEW r \in Run, Update(r)
    PROVE  PassInv'
<1> DEFINE l == local[r]
<1> DEFINE o == op[r]
<1> DEFINE k == Of(r)
<1> DEFINE match == row[k].version = o.version
<1>0. /\ TypeOK /\ HandOf(r) /\ l \in Local /\ o \in Op /\ TypeOK'
      /\ RunInv(r) /\ \A j \in KeysOf(r) : KeyInv(j)
      /\ \A d \in Ids(r) : d \in Downloader /\ KeyOf(r, d) \in KeysOf(r) /\ KeyOf(r, d) \in Key
  BY PassFacts DEF TypeInv
<1>1. pc[r] = "update" /\ local'[r] = l /\ UNCHANGED <<active, interrupted, running>>
  BY DEF Update
<1>a. /\ o.kind \in {"push", "advance", "final"} /\ o.id \in Ids(r)
      /\ k = KeyOf(r, o.id) /\ k \in Key /\ k \in KeysOf(r) /\ KeyInv(k)
      /\ \A d \in Ids(r) : d # o.id => KeyOf(r, d) # k
      /\ InPhase(r) <=> o.kind # "final"
      /\ Due(r) \subseteq Ids(r) /\ (o.kind = "final" => o.id \notin Due(r))
      /\ o.kind # "final" => o.id = l.at /\ k = At(r) /\ Due(r) = ReadBy(l) /\ o.id \notin l.todo \cup l.cycle
  BY <1>1, CasFacts
<1>2. /\ pc' = [pc EXCEPT ![r] = IF match \/ o.try = 2 THEN "readback" ELSE "reread"]
      /\ op' = [op EXCEPT ![r] = [o EXCEPT !.applied = match]]
      /\ row' = IF match THEN [row EXCEPT ![k] = [version |-> @.version + 1, cursor |-> o.cursor]] ELSE row
      /\ done' = IF match /\ o.clear THEN [done EXCEPT ![k] = {}] ELSE done
      /\ local' = local
  BY DEF Update
<1>3. Alone(r)
  BY <1>0, <1>1, <1>2 DEF TypeOK, Alone
<1>4. /\ pc'[r] = IF match \/ o.try = 2 THEN "readback" ELSE "reread"
      /\ op'[r].kind = o.kind /\ op'[r].id = o.id /\ op'[r].cursor = o.cursor /\ op'[r].try = o.try
      /\ op'[r].clear = o.clear /\ op'[r].full = o.full /\ op'[r].version = o.version
  BY <1>0, <1>2 DEF TypeOK, Op
<1>5. /\ \A j \in Key : j # k => row'[j] = row[j] /\ done'[j] = done[j]
      /\ match => row'[k].cursor = o.cursor
      /\ ~match => row'[k] = row[k]
      /\ done'[k] = IF match /\ o.clear THEN {} ELSE done[k]
  BY <1>0, <1>2, <1>a DEF TypeOK
<1>6. /\ Behind(o.cursor, done[k])
      /\ o.clear => o.kind = "final" /\ o.cursor = 0 /\ (Type(r) = "tracker" => AtEnd(active[k]))
      /\ o.full => o.kind = "final" /\ (r \in interrupted \/ Whole(done[k]))
      /\ o.try = 2 => match
      /\ o.kind = "push" => Resumable(r)
      /\ o.kind = "push" /\ l.copies[l.at] # None => match /\ o.cursor = l.written
  BY <1>0, <1>1, <1>a DEF RunInv, Setting, Pushing
<1>7. o.kind # "final" => \A j \in Key : done'[j] = done[j]
  BY <1>5, <1>6
<1>8. \A d \in Due(r) : done'[KeyOf(r, d)] = done[KeyOf(r, d)]
  BY <1>0, <1>5, <1>7, <1>a
<1>9. /\ InPhase(r)' <=> o.kind # "final"
      /\ Due(r)' = Due(r) /\ Resumable(r)' = Resumable(r) /\ At(r)' = At(r) /\ Of(r)' = k
  BY <1>1, <1>4, <1>a DEF InPhase, Due, Resumable, At, Of
<1> HIDE DEF match, k
<1>10. Ours(r)'
  BY <1>0, <1>1, <1>4, <1>9, <1>a DEF RunInv, Ours
<1>11. CopiesKept(r)' /\ CycleRead(r)'
  BY <1>0, <1>1, <1>8, <1>9 DEF RunInv, CopiesKept, CycleRead
<1>12. NotBegun(r)'
  <2>1. o.kind # "final" => ReadBy(l) \subseteq Ids(r)
    BY <1>a
  <2> QED
    BY <1>0, <1>1, <1>4, <1>5, <1>9, <1>a, <2>1 DEF RunInv, NotBegun
<1>13. Judged(r)'
  BY <1>0, <1>1, <1>4, <1>8, <1>9, <1>a DEF RunInv, Judged
<1>14. Writing(r)'
  <2>1. o.kind = "push" => done'[At(r)] = done[At(r)]
    BY <1>7, <1>a
  <2> QED
    BY <1>0, <1>1, <1>4, <1>9, <2>1 DEF RunInv, Writing
<1>15. Setting(r)'
  <2>1. pc'[r] = "reread" => done'[k] = done[k]
    BY <1>4, <1>5
  <2>2. o.kind = "final" => o.id \notin l.pending
    BY <1>0 DEF RunInv, Setting
  <2> QED
    BY <1>1, <1>4, <1>6, <1>9, <2>1, <2>2 DEF Setting
<1>16. Pushing(r)'
  BY <1>1, <1>4, <1>5, <1>6, <1>9 DEF Pushing
<1>17. PlainRun(r)'
  BY <1>0, <1>1, <1>4, <1>9 DEF RunInv, PlainRun, k
<1>18. ASSUME NEW j \in KeysOf(r) PROVE KeyInv(j)'
  <2>0. j \in Key /\ KeyInv(j)
    BY <1>0, KeyFacts
  <2>1. CASE j # k
    BY <1>1, <1>5, <2>0, <2>1 DEF KeyInv
  <2>2. CASE j = k
    <3>1. Plain(k) => o.cursor = 0
      BY <1>0, <1>a DEF RunInv, PlainRun, k
    <3>2. CASE match /\ o.clear
      <4>1. k[2] = Type(r)
        BY DEF k, Of
      <4> QED
        BY <1>1, <1>5, <1>6, <2>0, <2>2, <3>1, <3>2, <4>1, BehindFacts DEF KeyInv, AtEnd
    <3>3. CASE ~(match /\ o.clear)
      BY <1>1, <1>5, <1>6, <2>0, <2>2, <3>1, <3>3 DEF KeyInv
    <3> QED
      BY <3>2, <3>3
  <2> QED
    BY <2>1, <2>2
<1>19. \A j \in Key : j \notin KeysOf(r) => row'[j] = row[j] /\ done'[j] = done[j] /\ active'[j] \in {None, active[j]}
  BY <1>1, <1>5, <1>a
<1> QED
  BY <1>1, <1>3, <1>10, <1>11, <1>12, <1>13, <1>14, <1>15, <1>16, <1>17, <1>18, <1>19, PassFrame DEF RunInv

LEMMA RereadPass ==
    ASSUME TypeInv, PassInv, TypeInv', NEW r \in Run, Reread(r)
    PROVE  PassInv'
<1> DEFINE l == local[r]
<1> DEFINE o == op[r]
<1> DEFINE k == Of(r)
<1> DEFINE c == IF o.clear THEN 0 ELSE IF row[k].cursor # 0 THEN row[k].cursor ELSE o.cursor
<1>0. /\ TypeOK /\ HandOf(r) /\ l \in Local /\ o \in Op /\ TypeOK'
      /\ RunInv(r) /\ \A j \in KeysOf(r) : KeyInv(j)
  BY PassFacts DEF TypeInv
<1>1. /\ pc[r] = "reread" /\ local' = local /\ UNCHANGED <<row, active, done, interrupted, running>>
      /\ pc' = [pc EXCEPT ![r] = "update"]
      /\ op' = [op EXCEPT ![r] = [o EXCEPT !.try = 2, !.version = row[k].version, !.cursor = c]]
  BY DEF Reread, Attempt, RunOnly, table
<1>a. /\ o.kind \in {"push", "advance", "final"} /\ o.id \in Ids(r)
      /\ k = KeyOf(r, o.id) /\ k \in Key /\ k \in KeysOf(r) /\ KeyInv(k)
      /\ InPhase(r) <=> o.kind # "final"
  BY <1>1, CasFacts
<1>b. /\ Behind(o.cursor, done[k])
      /\ o.clear => o.kind = "final" /\ o.cursor = 0 /\ (Type(r) = "tracker" => AtEnd(active[k]))
      /\ o.full => o.kind = "final" /\ (r \in interrupted \/ Whole(done[k]))
      /\ o.kind = "final" => o.id \notin l.pending
      /\ ~(o.kind = "push" /\ l.copies[l.at] # None)
      /\ o.kind = "push" => Resumable(r)
      /\ Plain(k) => o.cursor = 0
  BY <1>0, <1>1, <1>a DEF RunInv, Setting, Pushing, PlainRun
<1>2. Alone(r)
  BY <1>0, <1>1 DEF TypeOK, Alone
<1>3. Behind(c, done[k]) /\ (o.clear => c = 0) /\ (Plain(k) => c = 0)
  BY <1>a, <1>b, BehindFacts DEF KeyInv
<1> HIDE DEF c
<1>4. /\ pc'[r] = "update" /\ local'[r] = l
      /\ op'[r].kind = o.kind /\ op'[r].id = o.id /\ op'[r].cursor = c /\ op'[r].try = 2
      /\ op'[r].clear = o.clear /\ op'[r].full = o.full /\ op'[r].version = row[k].version
  BY <1>0, <1>1 DEF TypeOK, Op
<1>5. /\ InPhase(r)' <=> o.kind # "final"
      /\ Due(r)' = Due(r) /\ Resumable(r)' = Resumable(r) /\ At(r)' = At(r) /\ Of(r)' = k
  BY <1>1, <1>4, <1>a DEF InPhase, Due, Resumable, At, Of
<1>6. Ours(r)' /\ PlainRun(r)'
  BY <1>0, <1>3, <1>4, <1>5, <1>a DEF RunInv, Ours, PlainRun
<1>7. CopiesKept(r)' /\ CycleRead(r)' /\ NotBegun(r)'
  BY <1>0, <1>1, <1>4, <1>5, <1>a DEF RunInv, CopiesKept, CycleRead, NotBegun
<1>8. Judged(r)'
  BY <1>0, <1>1, <1>4, <1>5, <1>a DEF RunInv, Judged
<1>9. Writing(r)'
  BY <1>0, <1>1, <1>4, <1>5 DEF RunInv, Writing
<1>10. Setting(r)' /\ Pushing(r)'
  BY <1>1, <1>3, <1>4, <1>5, <1>b DEF Setting, Pushing
<1>11. \A j \in KeysOf(r) : KeyInv(j)'
  BY <1>0, <1>1 DEF KeyInv
<1> QED
  BY <1>1, <1>2, <1>6, <1>7, <1>8, <1>9, <1>10, <1>11, PassFrame DEF RunInv

LEMMA ReadBackPass ==
    ASSUME TypeInv, PassInv, TypeInv', NEW r \in Run, ReadBack(r)
    PROVE  PassInv'
<1> DEFINE l == local[r]
<1> DEFINE m == local'[r]
<1> DEFINE o == op[r]
<1> DEFINE k == Of(r)
<1> DEFINE copied == \/ o.kind = "advance"
                     \/ o.kind = "push" /\ Type(r) = "info" /\ o.applied /\ l.copies[o.id] # None
<1> DEFINE new == IF copied THEN row[k] ELSE l.copies[o.id]
<1> DEFINE at == IF o.kind = "advance" THEN None ELSE l.at
<1>0. /\ TypeOK /\ HandOf(r) /\ l \in Local /\ o \in Op /\ TypeOK'
      /\ RunInv(r) /\ \A j \in KeysOf(r) : KeyInv(j)
      /\ \A d \in Ids(r) : d \in Downloader /\ KeyOf(r, d) \in KeysOf(r) /\ KeyOf(r, d) \in Key
      /\ None \notin Ids(r)
  BY PassFacts DEF TypeInv
<1>1. /\ pc[r] = "readback" /\ UNCHANGED <<row, done, interrupted, running>>
      /\ active' = [active EXCEPT ![k] = row[k]]
      /\ local' = [local EXCEPT ![r] = [l EXCEPT !.copies[o.id] = IF copied THEN row[k] ELSE @,
                                                 !.at = IF o.kind = "advance" THEN None ELSE @]]
      /\ op' = [op EXCEPT ![r] = NoOp]
      /\ \E to \in {"write", "loop", "finalize"} : pc' = [pc EXCEPT ![r] = to]
      /\ pc'[r] = CASE o.kind = "push" -> "write" [] o.kind = "advance" -> "loop" [] OTHER -> "finalize"
  <2>1. Goto(r, "readback", CASE o.kind = "push" -> "write" [] o.kind = "advance" -> "loop" [] OTHER -> "finalize")
    BY DEF ReadBack
  <2>2. (CASE o.kind = "push" -> "write" [] o.kind = "advance" -> "loop" [] OTHER -> "finalize")
            \in {"write", "loop", "finalize"}
    OBVIOUS
  <2> QED
    BY <1>0, <2>1, <2>2 DEF ReadBack, Goto, Remember, TypeOK, table
<1>a. /\ o.kind \in {"push", "advance", "final"} /\ o.id \in Ids(r)
      /\ k = KeyOf(r, o.id) /\ k \in Key /\ k \in KeysOf(r) /\ KeyInv(k)
      /\ \A d \in Ids(r) : d # o.id => KeyOf(r, d) # k
      /\ InPhase(r) <=> o.kind # "final"
      /\ Due(r) \subseteq Ids(r) /\ (o.kind = "final" => o.id \notin Due(r))
      /\ o.kind # "final" => o.id = l.at /\ k = At(r) /\ Due(r) = ReadBy(l) /\ o.id \notin l.todo \cup l.cycle
  BY <1>1, CasFacts
<1>2. Alone(r)
  BY <1>0, <1>1 DEF TypeOK, Alone
<1>3. /\ o.kind = "push" => pc'[r] = "write"
      /\ o.kind = "advance" => pc'[r] = "loop"
      /\ o.kind = "final" => pc'[r] = "finalize"
      /\ op'[r].kind = "none"
  BY <1>0, <1>1, CasFields DEF TypeOK
<1>4. /\ active'[k] = row[k] /\ \A j \in Key : j # k => active'[j] = active[j]
  BY <1>0, <1>1, <1>a DEF TypeOK
<1>5. /\ m.todo = l.todo /\ m.status = l.status /\ m.cycle = l.cycle /\ m.pending = l.pending
      /\ m.outcome = l.outcome /\ m.written = l.written /\ m.plan = l.plan /\ m.stop = l.stop
      /\ m.at = at /\ m.list = l.list
      /\ \A d \in Ids(r) : m.copies[d] = IF d = o.id THEN new ELSE l.copies[d]
      /\ \A d \in Downloader : d \notin Ids(r) => m.copies[d] = l.copies[d]
  <2>1. m = [l EXCEPT !.copies[o.id] = new, !.at = at]
    BY <1>0, <1>1 DEF TypeOK
  <2>2. l.copies \in [Downloader -> Checkpoint \cup {None}]
    BY <1>0 DEF Local
  <2> HIDE DEF m, new, at
  <2> QED
    BY <1>0, <1>a, <2>1, <2>2 DEF Local
<1>b. /\ o.kind = "advance" => l.copies[o.id] # None /\ l.status[o.id] # "none"
      /\ o.kind = "push" => l.status[o.id] = "none" /\ Resumable(r)
  BY <1>0, <1>a DEF RunInv, Judged, Pushing
<1>6. /\ new = l.copies[o.id] \/ (new = row[k] /\ l.copies[o.id] # None)
      /\ o.kind = "final" => new = l.copies[o.id]
  BY <1>b
<1>7. row[k] # None
  BY <1>0, <1>a, NoneIsNothing DEF TypeOK
<1> HIDE DEF new, at, copied, m
<1>8. ReadBy(m) = ReadBy(l)
  BY <1>0, <1>5, <1>6, <1>7, <1>a DEF ReadBy
<1>9. /\ InPhase(r)' <=> o.kind # "final"
      /\ Due(r)' = Due(r)
  BY <1>3, <1>5, <1>8, <1>a DEF InPhase, Due, m
<1>c. o.kind # "advance" => Resumable(r)' = Resumable(r) /\ At(r)' = At(r)
  BY <1>5 DEF Resumable, At, m, at
<1>10. Ours(r)'
  <2>1. m.at \in Ids(r) \cup {None} /\ (m.at = l.at \/ m.at = None) /\ (pc'[r] = "loop" => m.at = None)
    BY <1>0, <1>3, <1>5, <1>a DEF at, RunInv, Ours
  <2> QED
    BY <1>0, <1>3, <1>5, <1>8, <1>9, <1>a, <2>1, PassFacts, LocalFields DEF RunInv, Ours, m
<1> HIDE DEF k
<1>11. CopiesKept(r)'
  <2> SUFFICES ASSUME NEW d \in Due(r) PROVE Behind(m.copies[d].cursor, done[KeyOf(r, d)])
    BY <1>1, <1>9 DEF CopiesKept, m
  <2>1. Behind(l.copies[d].cursor, done[KeyOf(r, d)]) /\ d \in Ids(r)
    BY <1>0, <1>a DEF RunInv, CopiesKept
  <2>2. CASE d = o.id
    BY <1>5, <1>6, <1>a, <2>1, <2>2 DEF KeyInv
  <2>3. CASE d # o.id
    BY <1>5, <2>1, <2>3
  <2> QED
    BY <2>2, <2>3
<1>12. NotBegun(r)'
  <2> SUFFICES ASSUME InPhase(r)', NEW d \in ReadBy(l), d \in l.todo
               PROVE  m.copies[d] = row[KeyOf(r, d)] /\ active'[KeyOf(r, d)] \in {None, row[KeyOf(r, d)]}
    BY <1>1, <1>3, <1>5, <1>8, <1>9, <1>a DEF NotBegun, m
  <2>1. o.kind # "final" /\ d # o.id /\ d \in Ids(r)
    BY <1>9, <1>a
  <2>2. l.copies[d] = row[KeyOf(r, d)] /\ active[KeyOf(r, d)] \in {None, row[KeyOf(r, d)]}
    BY <1>0, <1>a, <2>1 DEF RunInv, NotBegun
  <2> QED
    BY <1>0, <1>4, <1>5, <1>a, <2>1, <2>2
<1>13. CycleRead(r)'
  <2> SUFFICES ASSUME Type(r) = "tracker", NEW d \in Due(r) \cap l.cycle
               PROVE  AtEnd(active'[KeyOf(r, d)])
    BY <1>5, <1>9 DEF CycleRead, m
  <2>1. d # o.id /\ d \in Ids(r)
    BY <1>a
  <2>2. AtEnd(active[KeyOf(r, d)])
    BY <1>0 DEF RunInv, CycleRead
  <2> QED
    BY <1>0, <1>4, <1>a, <2>1, <2>2
<1>14. Judged(r)'
  <2>1. InPhase(r)' => /\ \A d \in Ids(r) : m.status[d] = "none" => d \in m.todo \cup {m.at}
                       /\ \A d \in m.todo : m.status[d] = "none"
                       /\ \A d \in ReadBy(m) : m.status[d] = "success" => Whole(done[KeyOf(r, d)])
    BY <1>0, <1>5, <1>8, <1>9, <1>a, <1>b DEF RunInv, Judged, at
  <2>2. pc'[r] = "write" => m.status[m.at] = "none" /\ pc'[r] # "fetch"
    BY <1>3, <1>5, <1>a, <1>b DEF at
  <2>3. ~InPhase(r)' /\ r \notin interrupted' /\ m.outcome = "success" =>
          \A d \in Due(r) : Whole(done[KeyOf(r, d)])
    BY <1>0, <1>1, <1>5, <1>9, <1>a DEF RunInv, Judged
  <2> QED
    BY <1>1, <1>3, <1>9, <1>a, <2>1, <2>2, <2>3 DEF Judged, m
<1>15. Writing(r)'
  <2>1. CASE o.kind = "push"
    <3>1. /\ At(r)' = k /\ At(r) = k /\ m.at = l.at /\ o.id = l.at
          /\ (m.copies[m.at] = None <=> l.copies[l.at] = None)
      BY <1>5, <1>6, <1>7, <1>a, <1>c, <2>1 DEF at
    <3>2. l.copies[l.at] # None => row[k].cursor = l.written
      BY <1>0, <1>1, <2>1 DEF RunInv, Pushing, k
    <3>3. /\ l.written <= l.plan /\ Torrent \ l.list \subseteq done[k]
          /\ Type(r) = "tracker" => l.list = Torrent
          /\ l.stop = "none" => After(l.list, l.plan) = {}
          /\ Resumable(r) => \/ Behind(l.written, done[k])
                             \/ l.written = Length /\ l.copies[l.at] = None
      BY <1>0, <2>1, <3>1 DEF RunInv, Writing
    <3> QED
      BY <1>1, <1>3, <1>4, <1>5, <1>b, <1>c, <2>1, <3>1, <3>2, <3>3 DEF Writing, m
  <2>2. CASE o.kind # "push"
    BY <1>3, <1>a, <2>2 DEF Writing
  <2> QED
    BY <2>1, <2>2
<1>16. Setting(r)' /\ Pushing(r)'
  BY <1>3, <1>a DEF Setting, Pushing
<1>17. PlainRun(r)'
  <2> SUFFICES ASSUME NEW d \in ReadBy(l), Plain(KeyOf(r, d)) PROVE m.copies[d].cursor = 0
    BY <1>3, <1>8 DEF PlainRun, m
  <2>1. l.copies[d].cursor = 0 /\ d \in Ids(r)
    BY <1>0 DEF RunInv, PlainRun, Ours
  <2>2. CASE d = o.id
    BY <1>5, <1>6, <1>a, <2>1, <2>2 DEF KeyInv
  <2>3. CASE d # o.id
    BY <1>5, <2>1, <2>3
  <2> QED
    BY <2>2, <2>3
<1>18. ASSUME NEW j \in KeysOf(r) PROVE KeyInv(j)'
  <2>0. j \in Key /\ KeyInv(j)
    BY <1>0, KeyFacts
  <2> QED
    BY <1>1, <1>4, <2>0 DEF KeyInv
<1>19. \A j \in Key : j \notin KeysOf(r) => row'[j] = row[j] /\ done'[j] = done[j] /\ active'[j] \in {None, active[j]}
  BY <1>1, <1>4, <1>a
<1> QED
  BY <1>1, <1>2, <1>10, <1>11, <1>12, <1>13, <1>14, <1>15, <1>16, <1>17, <1>18, <1>19, PassFrame DEF RunInv

LEMMA EndLoopPass ==
    ASSUME TypeInv, PassInv, TypeInv', NEW r \in Run, EndLoop(r)
    PROVE  PassInv'
<1> DEFINE l == local[r]
<1> DEFINE m == local'[r]
<1> DEFINE result == IF With(r, "success") /\ ~With(r, "partial") /\ ~With(r, "failed")
                       THEN "success"
                     ELSE IF With(r, "success") \/ With(r, "partial") THEN "partial"
                     ELSE "failed"
<1>0. /\ TypeOK /\ HandOf(r) /\ l \in Local /\ TypeOK'
      /\ RunInv(r) /\ \A j \in KeysOf(r) : KeyInv(j)
      /\ \A d \in Ids(r) : d \in Downloader /\ KeyOf(r, d) \in KeysOf(r) /\ KeyOf(r, d) \in Key
      /\ None \notin Ids(r)
  BY PassFacts DEF TypeInv
<1>1. /\ pc[r] = "loop" /\ l.todo = {} /\ op' = op /\ UNCHANGED <<row, active, done, interrupted, running>>
      /\ pc' = [pc EXCEPT ![r] = "finalize"]
      /\ local' = [local EXCEPT ![r] = [l EXCEPT !.pending = ReadBy(l), !.outcome = result]]
  BY DEF EndLoop, Goto, Remember, RunOnly, table
<1>2. Alone(r)
  BY <1>0, <1>1 DEF TypeOK, Alone
<1>3. op[r].kind = "none" /\ l.at = None /\ InPhase(r) /\ Due(r) = ReadBy(l) /\ ReadBy(l) \subseteq Ids(r)
  BY <1>0, <1>1 DEF HandOf, RunInv, Ours, InPhase, Due
<1> HIDE DEF result
<1>4. /\ m.todo = {} /\ m.at = None /\ m.copies = l.copies /\ m.status = l.status
      /\ m.cycle = l.cycle /\ m.pending = ReadBy(l) /\ m.outcome = result /\ ReadBy(m) = ReadBy(l)
      /\ pc'[r] = "finalize" /\ op'[r].kind = "none"
  <2>1. m = [l EXCEPT !.pending = ReadBy(l), !.outcome = result] /\ pc'[r] = "finalize" /\ op'[r].kind = "none"
    BY <1>0, <1>1, <1>3 DEF TypeOK
  <2> HIDE DEF m
  <2>2. /\ m.todo = l.todo /\ m.at = l.at /\ m.copies = l.copies /\ m.status = l.status
        /\ m.cycle = l.cycle /\ m.pending = ReadBy(l) /\ m.outcome = result
    BY <1>0, <2>1 DEF Local
  <2> QED
    BY <1>1, <1>3, <2>1, <2>2 DEF ReadBy
<1> HIDE DEF m
<1>5. ~InPhase(r)' /\ Due(r)' = ReadBy(l)
  BY <1>4 DEF InPhase, Due, m
<1>6. ASSUME result = "success", NEW d \in ReadBy(l) PROVE Whole(done[KeyOf(r, d)])
  <2>1. ~With(r, "partial") /\ ~With(r, "failed")
    BY <1>6 DEF result
  <2>2. l.status[d] # "partial" /\ l.status[d] # "failed" /\ d \in Ids(r)
    BY <1>3, <2>1 DEF With
  <2>3. l.status[d] # "none"
    BY <1>0, <1>1, <1>3, <2>2 DEF RunInv, Judged
  <2>4. l.status[d] = "success"
    BY <1>0, <2>2, <2>3 DEF Local
  <2> QED
    BY <1>0, <1>3, <2>4 DEF RunInv, Judged
<1>7. Ours(r)' /\ PlainRun(r)'
  BY <1>0, <1>3, <1>4, <1>5 DEF RunInv, Ours, PlainRun, m
<1>8. CopiesKept(r)' /\ CycleRead(r)' /\ NotBegun(r)'
  BY <1>0, <1>1, <1>3, <1>4, <1>5 DEF RunInv, CopiesKept, CycleRead, NotBegun, m
<1>9. Judged(r)'
  BY <1>1, <1>4, <1>5, <1>6 DEF Judged, m
<1>10. Writing(r)' /\ Setting(r)' /\ Pushing(r)'
  BY <1>4 DEF Writing, Setting, Pushing
<1>11. \A j \in KeysOf(r) : KeyInv(j)'
  BY <1>0, <1>1 DEF KeyInv
<1> QED
  BY <1>1, <1>2, <1>7, <1>8, <1>9, <1>10, <1>11, PassFrame DEF RunInv

LEMMA FinalizePass ==
    ASSUME TypeInv, PassInv, TypeInv', NEW r \in Run, NEW d \in Downloader, Finalize(r, d)
    PROVE  PassInv'
<1> DEFINE l == local[r]
<1> DEFINE m == local'[r]
<1> DEFINE k == KeyOf(r, d)
<1> DEFINE copy == l.copies[d]
<1> DEFINE clear == d \in l.cycle /\ l.outcome = "success"
<1> DEFINE full == l.outcome = "success" /\ (d \in l.cycle \/ copy.cursor = 0)
<1> DEFINE c == IF clear THEN 0 ELSE copy.cursor
<1>0. /\ TypeOK /\ HandOf(r) /\ l \in Local /\ TypeOK'
      /\ RunInv(r) /\ \A j \in KeysOf(r) : KeyInv(j)
  BY PassFacts DEF TypeInv
<1>1. /\ pc[r] = "finalize" /\ d \in l.pending /\ UNCHANGED <<row, active, done, interrupted, running>>
      /\ local' = [local EXCEPT ![r] = [l EXCEPT !.pending = @ \ {d}]]
      /\ pc' = [pc EXCEPT ![r] = "update"]
      /\ op' = [op EXCEPT ![r] = Cas("final", d, copy.version, c, clear, full)]
  BY DEF Finalize, Attempt, Remember, RunOnly, table
<1>2. Alone(r)
  BY <1>0, <1>1 DEF TypeOK, Alone
<1>3. /\ op[r].kind = "none" /\ ~InPhase(r) /\ Due(r) = l.pending /\ d \in Ids(r)
      /\ ReadBy(l) \subseteq Ids(r) /\ copy # None /\ d \in ReadBy(l)
  BY <1>0, <1>1 DEF HandOf, RunInv, Ours, InPhase, Due, ReadBy
<1>4. /\ Behind(c, done[k]) /\ (Plain(k) => c = 0) /\ (clear => c = 0)
      /\ clear /\ Type(r) = "tracker" => AtEnd(active[k])
      /\ full => r \in interrupted \/ Whole(done[k])
  BY <1>0, <1>1, <1>3, BehindFacts DEF RunInv, CopiesKept, CycleRead, Judged, PlainRun
<1> HIDE DEF c, clear, full, copy
<1>5. /\ op'[r].kind = "final" /\ op'[r].id = d /\ op'[r].cursor = c /\ op'[r].try = 1
      /\ op'[r].clear = clear /\ op'[r].full = full /\ pc'[r] = "update"
  BY <1>0, <1>1, CasFields DEF TypeOK, Cas
<1>6. /\ m.todo = l.todo /\ m.at = l.at /\ m.copies = l.copies /\ m.status = l.status
      /\ m.cycle = l.cycle /\ m.pending = l.pending \ {d} /\ m.outcome = l.outcome
      /\ ReadBy(m) = ReadBy(l)
  BY <1>0, <1>1 DEF Local, ReadBy, TypeOK
<1> HIDE DEF m
<1>7. ~InPhase(r)' /\ Due(r)' = m.pending /\ Of(r)' = k
  BY <1>5 DEF InPhase, Due, m, Of, KeyOf
<1> HIDE DEF k
<1>8. Ours(r)' /\ PlainRun(r)'
  BY <1>0, <1>3, <1>4, <1>5, <1>6, <1>7 DEF RunInv, Ours, PlainRun, m
<1>9. CopiesKept(r)' /\ CycleRead(r)' /\ NotBegun(r)'
  BY <1>0, <1>1, <1>3, <1>5, <1>6, <1>7 DEF RunInv, CopiesKept, CycleRead, NotBegun, m
<1>10. Judged(r)'
  BY <1>0, <1>1, <1>3, <1>5, <1>6, <1>7 DEF RunInv, Judged, m
<1>11. Writing(r)' /\ Pushing(r)'
  BY <1>5 DEF Writing, Pushing
<1>12. Setting(r)'
  BY <1>1, <1>4, <1>5, <1>6, <1>7 DEF Setting, m
<1>13. \A j \in KeysOf(r) : KeyInv(j)'
  BY <1>0, <1>1 DEF KeyInv
<1> QED
  BY <1>1, <1>2, <1>8, <1>9, <1>10, <1>11, <1>12, <1>13, PassFrame DEF RunInv

(* A run that has nothing to do with any checkpoint.                       *)
LEMMA Idle ==
    ASSUME NEW q \in Run, TypeInv', pc'[q] \in {"idle", "waiting", "init"}, local'[q] = Fresh(q)
    PROVE  RunInv(q)'
<1>1. HandOf(q)' /\ op'[q].kind = "none"
  BY DEF TypeInv, HandOf
<1>2. /\ local'[q].todo = Ids(q) /\ local'[q].at = None /\ local'[q].pending = {}
      /\ \A d \in Downloader : local'[q].copies[d] = None
      /\ ReadBy(local[q])' = {}
  BY DEF Fresh, ReadBy
<1>3. ~InPhase(q)' /\ Due(q)' = {}
  BY <1>1 DEF InPhase, Due
<1>4. Ours(q)'
  BY <1>1, <1>2, <1>3 DEF Ours
<1> QED
  BY <1>1, <1>2, <1>3, <1>4
  DEF RunInv, CopiesKept, NotBegun, CycleRead, Judged, Writing, Setting, Pushing, PlainRun

LEMMA ClearContextPass ==
    ASSUME TypeInv, PassInv, TypeInv', NEW r \in Run, ClearContext(r)
    PROVE  PassInv'
<1> DEFINE l == local[r]
<1>0. /\ TypeOK /\ HandOf(r) /\ TypeOK' /\ RunInv(r) /\ \A j \in KeysOf(r) : KeyInv(j) /\ j \in Key
  BY PassFacts, KeyFacts DEF TypeInv
<1>1. /\ pc[r] = "finalize" /\ pc' = [pc EXCEPT ![r] = "leaving"] /\ active' = [k \in Key |-> None]
      /\ UNCHANGED <<row, done, interrupted, running, local, op>>
  BY DEF ClearContext, Goto, table
<1>2. Alone(r) /\ pc'[r] = "leaving" /\ op'[r].kind = "none"
  BY <1>0, <1>1 DEF TypeOK, Alone, HandOf
<1>3. ~InPhase(r)' /\ Due(r)' = {} /\ ReadBy(l)' = ReadBy(l)
  BY <1>1, <1>2 DEF InPhase, Due, ReadBy
<1>4. Ours(r)' /\ PlainRun(r)'
  BY <1>0, <1>1, <1>2, <1>3 DEF RunInv, Ours, PlainRun
<1>5. /\ CopiesKept(r)' /\ NotBegun(r)' /\ CycleRead(r)' /\ Judged(r)'
      /\ Writing(r)' /\ Setting(r)' /\ Pushing(r)'
  BY <1>2, <1>3 DEF CopiesKept, NotBegun, CycleRead, Judged, Writing, Setting, Pushing
<1>6. \A j \in KeysOf(r) : KeyInv(j)'
  BY <1>0, <1>1 DEF KeyInv
<1> QED
  BY <1>1, <1>2, <1>4, <1>5, <1>6, PassFrame DEF RunInv

LEMMA ComeAndGoPass ==
    ASSUME TypeInv, PassInv, TypeInv', NEW r \in Run, Enter(r) \/ Leave(r)
    PROVE  PassInv'
<1>0. /\ TypeOK /\ TypeOK' /\ RunInv(r) /\ \A j \in KeysOf(r) : KeyInv(j)
  BY PassFacts DEF TypeInv
<1>1. UNCHANGED <<row, done, active, interrupted, running, op>>
  BY DEF Enter, Leave, table
<1>2. /\ \A q \in Run \ {r} : pc'[q] = pc[q] /\ local'[q] = local[q]
      /\ pc[r] # "idle" /\ pc'[r] \in {"idle", "init"}
  BY <1>0 DEF Enter, Leave, Goto, Remember, TypeOK
<1>3. local'[r] = Fresh(r)
  BY <1>0 DEF Enter, Leave, Goto, Remember, TypeOK, RunInv, Ours
<1>4. Alone(r)
  BY <1>1, <1>2 DEF Alone
<1>5. RunInv(r)'
  BY <1>2, <1>3, Idle
<1>6. \A j \in KeysOf(r) : KeyInv(j)'
  BY <1>0, <1>1 DEF KeyInv
<1> QED
  BY <1>1, <1>4, <1>5, <1>6, PassFrame

LEMMA StartEndPass ==
    ASSUME TypeInv, PassInv, TypeInv', NEW t \in SyncType, StartJob(t) \/ EndJob(t)
    PROVE  PassInv'
<1>0. TypeOK /\ TypeOK' /\ \A r \in Run : HandOf(r) /\ CoverOf(r)
  BY DEF TypeInv
<1>1. UNCHANGED <<row, done, active, op>> /\ interrupted' \in {interrupted, interrupted \ RunsOf(t)}
  BY DEF StartJob, EndJob, table
<1>2. ASSUME NEW q \in Run, q \in RunsOf(t) PROVE RunInv(q)'
  <2>1. pc'[q] \in {"idle", "waiting"}
    BY <1>0, <1>2 DEF StartJob, EndJob
  <2>2. local'[q] = Fresh(q)
    <3>1. CASE StartJob(t)
      BY <1>2, <3>1 DEF StartJob
    <3>2. CASE EndJob(t)
      <4>1. pc[q] = "idle" /\ local' = local
        BY <1>2, <3>2 DEF EndJob
      <4>2. RunInv(q)
        BY DEF PassInv
      <4> QED
        BY <4>1, <4>2 DEF RunInv, Ours
    <3> QED
      BY <3>1, <3>2
  <2> QED
    BY <2>1, <2>2, Idle
<1>3. ASSUME NEW q \in Run, q \notin RunsOf(t) PROVE RunInv(q)'
  <2>1. pc'[q] = pc[q] /\ local'[q] = local[q]
    BY <1>3 DEF StartJob, EndJob
  <2>2. Left(q)
    BY <1>1, <1>3, <2>1 DEF Left
  <2> QED
    BY <2>2, RunFrame DEF PassInv
<1>4. ASSUME NEW k \in Key PROVE KeyInv(k)'
  BY <1>1 DEF PassInv, KeyInv
<1> QED
  BY <1>2, <1>3, <1>4 DEF PassInv

LEMMA InterruptJobPass ==
    ASSUME TypeInv, PassInv, TypeInv', NEW t \in SyncType, InterruptJob(t)
    PROVE  PassInv'
<1>0. TypeOK /\ TypeOK' /\ \A r \in Run : HandOf(r) /\ CoverOf(r)
  BY DEF TypeInv
<1>1. UNCHANGED <<row, done, active>> /\ interrupted' = interrupted \cup RunsOf(t)
  BY DEF InterruptJob, table
<1>2. ASSUME NEW q \in Run, q \in RunsOf(t) PROVE RunInv(q)'
  <2> DEFINE l == local[q]
  <2> DEFINE m == local'[q]
  <2>0. RunInv(q) /\ HandOf(q) /\ l \in Local
    BY <1>0 DEF PassInv, TypeOK
  <2>1. /\ pc'[q] = AfterCancel(q) /\ op'[q].kind = "none" /\ q \in interrupted'
        /\ m = IF InPhase(q) THEN [l EXCEPT !.pending = ReadBy(l), !.cycle = {}] ELSE l
    BY <1>1, <1>2, CasFields DEF InterruptJob
  <2>2. CASE pc[q] \in {"idle", "waiting"}
    <3>1. ~InPhase(q) /\ l = Fresh(q)
      BY <2>0, <2>2 DEF HandOf, InPhase, RunInv, Ours
    <3>2. pc'[q] = "idle"
      BY <2>1, <2>2, <3>1 DEF AfterCancel
    <3> QED
      BY <2>1, <3>1, <3>2, Idle
  <2>3. CASE InPhase(q)
    <3>1. pc[q] \notin {"idle", "waiting"}
      BY <2>0, <2>3 DEF HandOf, InPhase
    <3>2. pc'[q] = "finalize"
      BY <2>1, <2>3, <3>1 DEF AfterCancel
    <3>3. /\ m.todo = l.todo /\ m.at = l.at /\ m.copies = l.copies
          /\ m.cycle = {} /\ m.pending = ReadBy(l) /\ ReadBy(m) = ReadBy(l)
      BY <2>0, <2>1, <2>3 DEF Local, ReadBy
    <3> HIDE DEF m
    <3>4. ~InPhase(q)' /\ Due(q)' = ReadBy(l) /\ Due(q) = ReadBy(l) /\ ReadBy(l) \subseteq Ids(q)
      BY <2>0, <2>1, <2>3, <3>2, <3>3 DEF InPhase, Due, m, RunInv, Ours
    <3>5. Ours(q)' /\ PlainRun(q)'
      BY <2>0, <2>1, <3>2, <3>3, <3>4 DEF RunInv, Ours, PlainRun, m
    <3>6. CopiesKept(q)' /\ CycleRead(q)' /\ NotBegun(q)' /\ Judged(q)'
      BY <1>1, <2>0, <2>1, <3>2, <3>3, <3>4 DEF RunInv, CopiesKept, CycleRead, NotBegun, Judged, m
    <3>7. Writing(q)' /\ Setting(q)' /\ Pushing(q)'
      BY <2>1, <3>2 DEF Writing, Setting, Pushing
    <3> QED
      BY <3>5, <3>6, <3>7 DEF RunInv
  <2>4. CASE pc[q] \notin {"idle", "waiting"} /\ ~InPhase(q)
    <3>1. pc'[q] = "leaving" /\ m = l
      BY <2>1, <2>4 DEF AfterCancel
    <3>2. ~InPhase(q)' /\ Due(q)' = {} /\ ReadBy(m) = ReadBy(l)
      BY <2>1, <3>1 DEF InPhase, Due, ReadBy
    <3>3. Ours(q)' /\ PlainRun(q)'
      BY <2>0, <2>1, <3>1, <3>2 DEF RunInv, Ours, PlainRun
    <3>4. /\ CopiesKept(q)' /\ CycleRead(q)' /\ NotBegun(q)' /\ Judged(q)'
          /\ Writing(q)' /\ Setting(q)' /\ Pushing(q)'
      BY <2>1, <3>1, <3>2 DEF CopiesKept, CycleRead, NotBegun, Judged, Writing, Setting, Pushing
    <3> QED
      BY <3>3, <3>4 DEF RunInv
  <2> QED
    BY <2>2, <2>3, <2>4
<1>3. ASSUME NEW q \in Run, q \notin RunsOf(t) PROVE RunInv(q)'
  <2>1. pc'[q] = pc[q] /\ local'[q] = local[q] /\ op'[q] = op[q]
    BY <1>3 DEF InterruptJob
  <2>2. Left(q)
    BY <1>1, <1>3, <2>1 DEF Left
  <2> QED
    BY <2>2, RunFrame DEF PassInv
<1>4. ASSUME NEW k \in Key PROVE KeyInv(k)'
  BY <1>1 DEF PassInv, KeyInv
<1> QED
  BY <1>2, <1>3, <1>4 DEF PassInv

LEMMA CrashPass ==
    ASSUME TypeInv, PassInv, TypeInv', Crash
    PROVE  PassInv'
<1>1. \A q \in Run : pc'[q] = "idle" /\ local'[q] = Fresh(q)
  BY DEF Crash
<1>2. \A q \in Run : RunInv(q)'
  BY <1>1, Idle
<1>3. UNCHANGED <<row, done>> /\ \A k \in Key : active'[k] = None
  BY DEF Crash, table
<1>4. ASSUME NEW k \in Key PROVE KeyInv(k)'
  BY <1>3 DEF PassInv, KeyInv
<1> QED
  BY <1>2, <1>4 DEF PassInv

LEMMA PassInit == Init => PassInv
<1> SUFFICES ASSUME Init PROVE PassInv
  OBVIOUS
<1>1. ASSUME NEW q \in Run PROVE RunInv(q)
  <2>1. /\ pc[q] = "idle" /\ local[q] = Fresh(q) /\ op[q].kind = "none"
    BY <1>1, CasFields DEF Init
  <2>2. /\ local[q].todo = Ids(q) /\ local[q].at = None /\ local[q].pending = {}
        /\ \A d \in Downloader : local[q].copies[d] = None
        /\ ReadBy(local[q]) = {}
    BY <2>1 DEF Fresh, ReadBy
  <2>3. ~InPhase(q) /\ Due(q) = {}
    BY <2>1 DEF InPhase, Due
  <2>4. Ours(q)
    BY <2>1, <2>2, <2>3 DEF Ours
  <2> QED
    BY <2>1, <2>2, <2>3, <2>4
    DEF RunInv, CopiesKept, NotBegun, CycleRead, Judged, Writing, Setting, Pushing, PlainRun
<1>2. ASSUME NEW k \in Key PROVE KeyInv(k)
  <2>1. row[k].cursor = 0 /\ active[k] = None
    BY <1>2 DEF Init
  <2> QED
    BY <2>1, BehindFacts DEF KeyInv
<1> QED
  BY <1>1, <1>2 DEF PassInv

LEMMA PassStep ==
    ASSUME "info" \notin ReadsFail, TypeInv, PassInv, TypeInv', [Next]_vars
    PROVE  PassInv'
<1>1. ASSUME NEW r \in Run, RunStep(r) \/ Trouble(r) PROVE PassInv'
  <2>1. ASSUME NEW d \in Downloader, NextDownloader(r, d) \/ Finalize(r, d) PROVE PassInv'
    BY <2>1, NextDownloaderPass, FinalizePass
  <2>2. ASSUME NEW list \in SUBSET Torrent, NEW last \in Cursor, NEW budget \in BOOLEAN,
               Fetch(r, list, last, budget)
        PROVE  PassInv'
    BY <2>2, FetchPass
  <2>3. ASSUME NEW last \in Torrent, WriteBatch(r, last) \/ WriteFails(r, last) PROVE PassInv'
    BY <2>3, WriteBatchPass, WriteFailsPass
  <2>4. ASSUME NEW unread, ReadCheckpoints(r, unread), unread = {} \/ Type(r) \in ReadsFail PROVE PassInv'
    BY <2>4, ReadCheckpointsPass
  <2>5. CASE Finish(r) \/ Update(r) \/ Reread(r) \/ ReadBack(r) \/ EndLoop(r)
    BY <2>5, FinishPass, UpdatePass, RereadPass, ReadBackPass, EndLoopPass
  <2>6. CASE Enter(r) \/ ClearContext(r) \/ Leave(r) \/ FetchFails(r) \/ DownloaderTimeout(r)
    BY <2>6, ComeAndGoPass, ClearContextPass, GivenUpPass
  <2> QED
    BY <1>1, <2>1, <2>2, <2>3, <2>4, <2>5, <2>6 DEF RunStep, Trouble
<1>2. ASSUME NEW t \in SyncType, StartJob(t) \/ EndJob(t) \/ InterruptJob(t) PROVE PassInv'
  BY <1>2, StartEndPass, InterruptJobPass
<1>3. CASE Crash
  BY <1>3, CrashPass
<1>4. CASE UNCHANGED vars
  <2>1. \A q \in Run : RunInv(q) /\ Left(q)
    BY <1>4 DEF vars, table, PassInv, Left
  <2>2. \A q \in Run : RunInv(q)'
    BY <2>1, RunFrame
  <2>3. \A k \in Key : KeyInv(k)'
    BY <1>4 DEF vars, table, PassInv, KeyInv
  <2> QED
    BY <2>2, <2>3 DEF PassInv
<1> QED
  BY <1>1, <1>2, <1>3, <1>4 DEF Next

-----------------------------------------------------------------------------
(* Only a write to a checkpoint touches what it records of its outcome.    *)
LEMMA OnlyUpdateRecords ==
    ASSUME [Next]_vars
    PROVE  (\E r \in Run : Update(r)) \/ UNCHANGED <<stamped, torn, dropped>>
<1>1. ASSUME NEW r \in Run, RunStep(r), ~Update(r) PROVE UNCHANGED <<stamped, torn, dropped>>
  BY <1>1
  DEF RunStep, Enter, ReadCheckpoints, NextDownloader, Fetch, WriteBatch, Finish, Reread, ReadBack,
      EndLoop, Finalize, ClearContext, Leave, RunOnly, table
<1>2. ASSUME NEW r \in Run, Trouble(r) PROVE UNCHANGED <<stamped, torn, dropped>>
  BY <1>2 DEF Trouble, ReadCheckpoints, FetchFails, WriteFails, DownloaderTimeout, RunOnly, table
<1>3. ASSUME NEW t \in SyncType, StartJob(t) \/ EndJob(t) \/ InterruptJob(t)
      PROVE  UNCHANGED <<stamped, torn, dropped>>
  BY <1>3 DEF StartJob, EndJob, InterruptJob, table
<1>4. CASE Crash \/ UNCHANGED vars
  BY <1>4 DEF Crash, vars, table
<1> QED
  BY <1>1, <1>2, <1>3, <1>4 DEF Next

SyncInv == TypeInv /\ PassInv

(* The inductive invariant.                                                *)
LEMMA SyncInductive ==
    ASSUME "info" \notin ReadsFail
    PROVE  /\ Init => SyncInv
           /\ SyncInv /\ [Next]_vars => SyncInv'
<1>1. Init => SyncInv
  BY TypeInit, PassInit DEF SyncInv
<1>2. ASSUME SyncInv, [Next]_vars PROVE SyncInv'
  <2>1. TypeInv'
    BY <1>2, TypeStep DEF SyncInv
  <2> QED
    BY <1>2, <2>1, PassStep DEF SyncInv
<1> QED
  BY <1>1, <1>2

(* From its admission to its end a run is under the token of its job and   *)
(* holds its keys, which no other run has or leaves behind: _running_keys  *)
(* keeps two syncs of a downloader apart, cancelled or not.                *)
THEOREM RunsAreCovered == Spec => []Covered
<1>1. Init => Covered
  BY NoneIsNothing DEF Init, Covered, Opened
<1>2. TypeInv /\ Covered /\ [Next]_vars => Covered'
  BY CoveredStep
<1> QED
  BY <1>1, <1>2, TypeInit, TypeStep, PTL DEF Spec

(* "the cursor never runs ahead of the data": every torrent up to a        *)
(* persisted cursor was written in the pass it belongs to, whatever        *)
(* batches fail, are cancelled or cut by a crash.  An info run whose read  *)
(* of its checkpoint fails may resume from a context that an earlier       *)
(* cancelled finalize has left behind, which is why such failures are      *)
(* excluded, here and below.                                               *)
THEOREM CursorNeverAhead ==
    ASSUME "info" \notin ReadsFail
    PROVE  Spec => []CursorBehindData
<1>1. SyncInv => CursorBehindData
  BY DEF SyncInv, PassInv, KeyInv, Behind, CursorBehindData
<1> QED
  BY <1>1, SyncInductive, PTL DEF Spec

(* The one retry of a checkpoint's compare-and-set always succeeds, though *)
(* the copy it starts from is stale: no run's outcome is given up, if      *)
(* reading an info checkpoint never fails.                                 *)
THEOREM OneRetryIsEnough ==
    ASSUME "info" \notin ReadsFail
    PROVE  Spec => []NothingDropped
<1>1. Init => NothingDropped
  BY DEF Init, NothingDropped
<1>2. ASSUME SyncInv, NothingDropped, [Next]_vars PROVE NothingDropped'
  <2>1. CASE UNCHANGED <<stamped, torn, dropped>>
    BY <1>2, <2>1 DEF NothingDropped
  <2>2. ASSUME NEW r \in Run, Update(r) PROVE NothingDropped'
    <3>1. pc[r] = "update" /\ RunInv(r)
      BY <1>2, <2>2 DEF Update, SyncInv, PassInv
    <3>2. op[r].try = 2 => row[Of(r)].version = op[r].version
      BY <3>1 DEF RunInv, Setting
    <3>3. dropped' = dropped
      BY <2>2, <3>2 DEF Update
    <3> QED
      BY <1>2, <3>3 DEF NothingDropped
  <2> QED
    BY <1>2, <2>1, <2>2, OnlyUpdateRecords
<1> QED
  BY <1>1, <1>2, SyncInductive, PTL DEF Spec

(* last_full_sync_at is set by a run that was not cancelled only when all  *)
(* torrents the pass was about have been written in it: of a tracker sync  *)
(* all the downloader has, of an info sync all of its list, and of what    *)
(* lies beyond the cursor if it was taken up again.                        *)
THEOREM FullIsFull ==
    ASSUME "info" \notin ReadsFail
    PROVE  Spec => []FullMeansAll
<1>1. Init => FullMeansAll
  BY DEF Init, FullMeansAll
<1>2. ASSUME SyncInv, FullMeansAll, [Next]_vars PROVE FullMeansAll'
  <2>1. CASE UNCHANGED <<stamped, torn, dropped>>
    BY <1>2, <2>1 DEF FullMeansAll
  <2>2. ASSUME NEW r \in Run, Update(r) PROVE FullMeansAll'
    <3> DEFINE k == Of(r)
    <3>1. pc[r] = "update" /\ RunInv(r) /\ TypeOK /\ k \in Key
      BY <1>2, <2>2, CasFacts DEF Update, SyncInv, PassInv, TypeInv
    <3>2. op[r].full => r \in interrupted \/ Whole(done[k])
      BY <3>1 DEF RunInv, Setting
    <3>3. Whole(done[k]) => done[k] = Torrent
      BY <3>1 DEF Whole, TypeOK
    <3>4. \/ UNCHANGED <<stamped, torn>>
          \/ /\ op[r].full /\ stamped' = [stamped EXCEPT ![k] = done[k]]
             /\ torn' = IF r \in interrupted THEN torn \cup {k} ELSE torn \ {k}
      BY <2>2 DEF Update
    <3> HIDE DEF k
    <3>5. CASE UNCHANGED <<stamped, torn>>
      BY <1>2, <3>5 DEF FullMeansAll
    <3>6. CASE /\ op[r].full /\ stamped' = [stamped EXCEPT ![k] = done[k]]
               /\ torn' = IF r \in interrupted THEN torn \cup {k} ELSE torn \ {k}
      <4>1. ASSUME NEW j \in Key PROVE j \in torn' \/ stamped'[j] \in {Never, Torrent}
        <5>1. CASE j = k
          BY <3>1, <3>2, <3>3, <3>6, <5>1 DEF TypeOK
        <5>2. CASE j # k
          BY <1>2, <3>1, <3>6, <5>2 DEF TypeOK, FullMeansAll
        <5> QED
          BY <5>1, <5>2
      <4> QED
        BY <4>1 DEF FullMeansAll
    <3> QED
      BY <3>4, <3>5, <3>6
  <2> QED
    BY <1>2, <2>1, <2>2, OnlyUpdateRecords
<1> QED
  BY <1>1, <1>2, SyncInductive, PTL DEF Spec

(* What a checkpoint shows of the scan.                                    *)
cursor == [k \in Key |-> row[k].cursor]

LEMMA ScanStep ==
    ASSUME SyncInv, SyncInv', [Next]_vars
    PROVE  [Passes!Next]_<<cursor, done>>
<1>0. TypeOK /\ TypeOK'
  BY DEF SyncInv, TypeInv
<1>1. ASSUME UNCHANGED <<row, done>> PROVE UNCHANGED <<cursor, done>>
  BY <1>1 DEF cursor
<1>2. ASSUME NEW r \in Run, NEW list \in SUBSET Torrent, NEW last \in Cursor, NEW budget \in BOOLEAN,
             Fetch(r, list, last, budget)
      PROVE  [Passes!Next]_<<cursor, done>>
  <2> DEFINE k == At(r)
  <2> DEFINE from == ResumeAt(r)
  <2>1. pc[r] = "fetch" /\ row' = row
    BY <1>2 DEF Fetch, Goto, table
  <2>2. k \in Key /\ k[2] = Type(r) /\ Type(r) \in SyncType /\ Passes!Torrent = Torrent
    BY <2>1, ResumeType, RunFacts DEF SyncInv, At, Passes!Torrent, Torrent
  <2>3. Type(r) = "info" => row[k].cursor = from
    BY <2>1, ResumeFacts DEF SyncInv
  <2>4. (Type(r) = "tracker" \/ from # 0 => list = Torrent) /\ After(list, from) = list \cap (from + 1)..Length
    BY <1>2 DEF Fetch, Lists, After
  <2>5. done' = IF from = 0 /\ row[k].cursor = 0 THEN [done EXCEPT ![k] = Torrent \ list]
                ELSE IF from # 0 /\ Type(r) = "info" THEN [done EXCEPT ![k] = @ \ After(list, from)]
                ELSE done
    BY <1>2 DEF Fetch
  <2> HIDE DEF k, from
  <2>6. CASE from = 0 /\ row[k].cursor = 0
    <3>1. Passes!BeginAgain(k, list)
      BY <2>1, <2>2, <2>4, <2>5, <2>6 DEF Passes!BeginAgain, cursor, SyncType
    <3> QED
      BY <2>2, <3>1 DEF Passes!Next
  <2>7. CASE from # 0 /\ Type(r) = "info"
    <3>1. list \cap (from + 1)..Length = (from + 1)..Length
      BY <1>0, <2>2, <2>3, <2>4, <2>7, CheckpointFields, Numbers DEF TypeOK
    <3>2. Passes!TakeUp(k)
      BY <2>1, <2>2, <2>3, <2>4, <2>5, <2>7, <3>1 DEF Passes!TakeUp, cursor
    <3> QED
      BY <2>2, <3>2 DEF Passes!Next
  <2>8. CASE ~(from = 0 /\ row[k].cursor = 0) /\ ~(from # 0 /\ Type(r) = "info")
    BY <1>1, <2>1, <2>5, <2>8
  <2> QED
    BY <2>6, <2>7, <2>8
<1>3. ASSUME NEW r \in Run, NEW last \in Torrent, WriteBatch(r, last) \/ WriteFails(r, last)
      PROVE  [Passes!Next]_<<cursor, done>>
  <2>1. pc[r] = "write" /\ row' = row
    BY <1>3 DEF WriteBatch, WriteFails, table
  <2>2. At(r) \in Key
    BY <2>1, WriteFacts DEF SyncInv
  <2>3. Batch(r, last) \subseteq Torrent
    BY <1>0, BatchType DEF TypeOK
  <2>4. PICK some \in SUBSET Torrent : done' = [done EXCEPT ![At(r)] = @ \cup some]
    BY <1>3, <2>3 DEF WriteBatch, WriteFails
  <2>5. Passes!Write(At(r), some)
    BY <2>1, <2>4 DEF Passes!Write, cursor
  <2> QED
    BY <2>2, <2>4, <2>5 DEF Passes!Next, Passes!Torrent, Torrent
<1>4. ASSUME NEW r \in Run, Update(r)
      PROVE  [Passes!Next]_<<cursor, done>>
  <2>1. pc[r] = "update" /\ RunInv(r) /\ Of(r) \in Key /\ op[r] \in Op
    BY <1>0, <1>4, CasFacts DEF Update, SyncInv, PassInv, TypeOK
  <2>a. PICK k \in Key, o \in Op : k = Of(r) /\ o = op[r]
    BY <2>1
  <2>2. Behind(o.cursor, done[k]) /\ (o.clear => o.cursor = 0) /\ o.cursor \in Cursor
    BY <2>1, <2>a, OpFields DEF RunInv, Setting
  <2>3. /\ row' = IF row[k].version = o.version
                  THEN [row EXCEPT ![k] = [version |-> @.version + 1, cursor |-> o.cursor]] ELSE row
        /\ done' = IF row[k].version = o.version /\ o.clear THEN [done EXCEPT ![k] = {}] ELSE done
    BY <1>4, <2>a DEF Update
  <2>4. CASE row[k].version # o.version
    BY <1>1, <2>3, <2>4
  <2>5. CASE row[k].version = o.version
    <3>1. cursor' = [cursor EXCEPT ![k] = o.cursor]
      BY <1>0, <2>3, <2>5 DEF cursor, TypeOK
    <3>2. CASE o.clear
      <4>1. Passes!Close(k)
        BY <2>2, <2>3, <2>5, <3>1, <3>2 DEF Passes!Close, cursor
      <4> QED
        BY <4>1 DEF Passes!Next
    <3>3. CASE ~o.clear
      <4>1. Passes!Record(k, o.cursor)
        BY <2>2, <2>3, <2>5, <3>1, <3>3 DEF Passes!Record, cursor, Behind
      <4> QED
        BY <2>2, <4>1 DEF Passes!Next, Cursor
    <3> QED
      BY <3>2, <3>3
  <2> QED
    BY <2>4, <2>5
<1>5. ASSUME NEW r \in Run, RunStep(r), ~Update(r),
             ~\E list \in SUBSET Torrent, last \in Cursor, budget \in BOOLEAN : Fetch(r, list, last, budget),
             ~\E last \in Torrent : WriteBatch(r, last)
      PROVE  UNCHANGED <<row, done>>
  BY <1>5
  DEF RunStep, Enter, ReadCheckpoints, NextDownloader, Finish, Reread, ReadBack,
      EndLoop, Finalize, ClearContext, Leave, RunOnly, table
<1>6. ASSUME NEW r \in Run, Trouble(r), ~\E last \in Torrent : WriteFails(r, last)
      PROVE  UNCHANGED <<row, done>>
  BY <1>6 DEF Trouble, ReadCheckpoints, FetchFails, DownloaderTimeout, RunOnly, table
<1>7. ASSUME NEW t \in SyncType, StartJob(t) \/ EndJob(t) \/ InterruptJob(t)
      PROVE  UNCHANGED <<row, done>>
  BY <1>7 DEF StartJob, EndJob, InterruptJob, table
<1>8. Crash \/ UNCHANGED vars => UNCHANGED <<row, done>>
  BY DEF Crash, vars, table
<1> QED
  BY <1>1, <1>2, <1>3, <1>4, <1>5, <1>6, <1>7, <1>8 DEF Next

(* The coordinator implements ResumableScan: its checkpoints behave like   *)
(* the cursors of scans that are never ahead of what was written, if       *)
(* reading an info checkpoint never fails.                                 *)
THEOREM Refinement ==
    ASSUME "info" \notin ReadsFail
    PROVE  Spec => ImplementsScan
<1>1. Init => Passes!Init
  BY DEF Init, Passes!Init
<1>2. SyncInv /\ SyncInv' /\ [Next]_vars => [Passes!Next]_<<cursor, done>>
  BY ScanStep
<1> QED
  BY <1>1, <1>2, SyncInductive, PTL DEF Spec, ImplementsScan, Passes!Spec, cursor
=============================================================================
