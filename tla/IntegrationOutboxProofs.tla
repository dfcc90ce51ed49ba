----------------------- MODULE IntegrationOutboxProofs -----------------------
(***************************************************************************)
(* Proofs about IntegrationOutbox, for any number of events, workers and   *)
(* destinations and any bounds: first who may deliver an event, then what  *)
(* becomes of the events it was handed, and the refinement of              *)
(* EventDelivery.                                                          *)
(***************************************************************************)
EXTENDS IntegrationOutbox, TLAPS

USE EventsAssumption, DestinationAssumption, BoundsAssumption

-----------------------------------------------------------------------------
(* The statements of the table keep rows well formed.                      *)

LEMMA NormaliseType ==
  ASSUME NEW rows \in [Events -> Rows]
  PROVE  Normalise(rows) \in [Events -> Rows]
  BY DEF Normalise, Rows, Statuses, Waiting

LEMMA EnqueuedType ==
  ASSUME NEW r \in Rows, NEW version \in 0..MaxVersion, lastId \in Nat
  PROVE  Enqueued(r, version) \in Rows
<1>1. CASE r.status = "Absent"
  <2>1. Enqueued(r, version) =
          [r EXCEPT !.id = lastId + 1, !.status = "Pending", !.payload = version, !.due = TRUE]
    BY <1>1 DEF Enqueued, Protected
  <2>2. lastId + 1 \in Nat
    OBVIOUS
  <2>3. QED
    BY <2>1, <2>2 DEF Rows, Statuses, Waiting
<1>2. CASE r.status \in Protected
  BY <1>2 DEF Enqueued, Protected
<1>3. CASE r.status # "Absent" /\ r.status \notin Protected
  <2>1. Enqueued(r, version) =
          [r EXCEPT !.status = "Pending", !.payload = version, !.due = TRUE]
    BY <1>3 DEF Enqueued
  <2>2. QED
    BY <2>1 DEF Rows, Statuses, Waiting
<1>4. QED
  BY <1>1, <1>2, <1>3

LEMMA UpsertType ==
  ASSUME NEW rows \in [Events -> Rows], NEW e \in Events,
         NEW version \in 0..MaxVersion, lastId \in Nat
  PROVE  Upsert(rows, e, version) \in [Events -> Rows]
  BY EnqueuedType DEF Upsert

LEMMA MarkReadyType ==
  ASSUME NEW rows \in [Events -> Rows], NEW e \in Events
  PROVE  MarkReady(rows, e) \in [Events -> Rows]
<1>1. rows[e] \in Rows
  OBVIOUS
<1> DEFINE status == IF rows[e].status \in Waiting THEN "Ready" ELSE rows[e].status
           new == [rows[e] EXCEPT !.status = status]
<1>2. status \in Statuses
  BY <1>1 DEF Rows, Statuses, Waiting
<1> HIDE DEF status
<1>3. new \in Rows
  BY <1>1, <1>2 DEF Rows
<1>4. MarkReady(rows, e) = [rows EXCEPT ![e] = new]
  BY DEF MarkReady, status
<1> HIDE DEF new
<1> QED BY <1>3, <1>4

LEMMA OutcomeType ==
  ASSUME NEW answer, NEW attempt
  PROVE  Outcome(answer, attempt) \in {"Completed", "Dead Letter", "Retry"}
  BY DEF Outcome

\* What a worker's last UPDATE and the clock write is a row.
LEMMA RowUpdateType ==
  ASSUME NEW r \in Rows, NEW status \in Statuses, NEW n \in Nat, NEW due \in BOOLEAN
  PROVE  /\ [r EXCEPT !.status = status, !.attempts = n, !.due = due, !.stale = FALSE] \in Rows
         /\ [r EXCEPT !.due = due] \in Rows
         /\ [r EXCEPT !.stale = due] \in Rows
         /\ [r EXCEPT !.status = status, !.stale = FALSE] \in Rows
  BY DEF Rows

(***************************************************************************)
(* Type correctness of the outbox.                                         *)
(***************************************************************************)
THEOREM TypeCorrect == Spec => []TypeOK
<1>1. Init => TypeOK
  BY DEF Init, TypeOK, Absent, Idle, Rows, Statuses, Waiting
<1>2. ASSUME TypeOK, [Next]_vars
      PROVE  TypeOK'
  <2> USE <1>2 DEF TypeOK
  <2>0. ASSUME NEW w \in Workers, worker[w].pc # "idle"
        PROVE  worker[w] \in Claims
    BY <2>0 DEF Idle
  <2>1. ASSUME NEW e \in Events, EnqueueInTransaction(e)
        PROVE  TypeOK'
    <3>1. row' \in [Events -> Rows]
      <4>1. 1 \in 0..MaxVersion
        OBVIOUS
      <4>2. Normalise(row) \in [Events -> Rows]
        BY NormaliseType
      <4>3. QED
        BY <2>1, <4>1, <4>2, UpsertType DEF EnqueueInTransaction
    <3>2. QED
      BY <2>1, <3>1 DEF EnqueueInTransaction, AllocateId, history
  <2>2. ASSUME NEW e \in Events, CommitBusiness(e)
        PROVE  TypeOK'
    BY <2>2, NormaliseType DEF CommitBusiness, history
  <2>3. ASSUME NEW e \in Events, EnqueueAfterCommit(e)
        PROVE  TypeOK'
    <3>1. row' \in [Events -> Rows]
      BY <2>3, UpsertType, MarkReadyType DEF EnqueueAfterCommit
    <3>2. QED
      BY <2>3, <3>1 DEF EnqueueAfterCommit, AllocateId, history
  <2>4. ASSUME NEW e \in Events, LoseEnqueue(e)
        PROVE  TypeOK'
    BY <2>4 DEF LoseEnqueue, history
  <2>5. ASSUME NEW w \in Workers, Claim(w)
        PROVE  TypeOK'
    <3> DEFINE rows == Normalise(row)
    <3>1. rows \in [Events -> Rows]
      BY NormaliseType
    <3>2. PICK e \in Events :
            /\ row' = [rows EXCEPT ![e] =
                 [rows[e] EXCEPT !.status = "Processing", !.stale = FALSE]]
            /\ worker' = [worker EXCEPT ![w] =
                 [pc |-> "claimed", event |-> e, attempts |-> rows[e].attempts,
                  payload |-> rows[e].payload, answer |-> "none"]]
      BY <2>5, <3>1 DEF Claim
    <3> HIDE DEF rows
    <3>3. [rows[e] EXCEPT !.status = "Processing", !.stale = FALSE] \in Rows
      <4>1. rows[e] \in Rows /\ "Processing" \in Statuses
        BY <3>1 DEF Statuses
      <4> QED BY <4>1, RowUpdateType
    <3>4. row' \in [Events -> Rows]
      BY <3>1, <3>2, <3>3
    <3>5. [pc |-> "claimed", event |-> e, attempts |-> rows[e].attempts,
           payload |-> rows[e].payload, answer |-> "none"] \in Claims
      BY <3>1 DEF Rows, Claims
    <3>6. worker' \in [Workers -> Claims \cup {Idle}]
      BY <3>2, <3>5
    <3>7. QED
      BY <2>5, <3>4, <3>6 DEF Claim, business, history
  <2>6. ASSUME NEW w \in Workers, SkipUnconfigured(w)
        PROVE  TypeOK'
    <3> DEFINE e == worker[w].event
               new == [row[e] EXCEPT !.status = "Retry", !.attempts = worker[w].attempts + 1,
                                     !.due = FALSE, !.stale = FALSE]
    <3>1. e \in Events /\ worker[w].attempts \in Nat
      BY <2>0, <2>6 DEF SkipUnconfigured, Claims
    <3>2. new \in Rows
      <4>1. /\ row[e] \in Rows
            /\ "Retry" \in Statuses
            /\ worker[w].attempts + 1 \in Nat
            /\ FALSE \in BOOLEAN
        BY <3>1 DEF Statuses, Waiting
      <4>2. QED
        BY <4>1, RowUpdateType, Zenon
    <3>3. row' = [row EXCEPT ![e] = new]
      BY <2>6, <3>1 DEF SkipUnconfigured
    <3>4. row' \in [Events -> Rows]
      BY <3>1, <3>2, <3>3
    <3>5. QED
      BY <2>6, <3>4 DEF SkipUnconfigured, Release, business, history
  <2>7. ASSUME NEW w \in Workers, Post(w)
        PROVE  TypeOK'
    <3>1. worker[w] \in Claims
      BY <2>0, <2>7 DEF Post
    <3>2. PICK answer \in Answers :
            /\ Receives(worker[w].event, worker[w].payload, answer)
            /\ worker' = [worker EXCEPT ![w] =
                 [worker[w] EXCEPT !.pc = "answered", !.answer = answer]]
      BY <2>7 DEF Post
    <3>3. worker' \in [Workers -> Claims \cup {Idle}]
      <4>1. [worker[w] EXCEPT !.pc = "answered", !.answer = answer] \in Claims
        BY <3>1 DEF Claims
      <4>2. QED
        BY <3>2, <4>1
    <3>4. received' \in [Events -> 0..MaxVersion]
      BY <3>1, <3>2 DEF Receives, Claims
    <3>5. posts' \in [Events -> Nat]
      BY <2>7, <3>1 DEF Post, Claims
    <3>6. QED
      BY <2>7, <3>3, <3>4, <3>5 DEF Post, business
  <2>8. ASSUME NEW w \in Workers, Record(w)
        PROVE  TypeOK'
    <3> DEFINE e == worker[w].event
               attempt == worker[w].attempts + 1
               status == Outcome(worker[w].answer, attempt)
               new == [row[e] EXCEPT !.status = status, !.attempts = attempt,
                                     !.due = (status # "Retry"), !.stale = FALSE]
    <3>1. e \in Events /\ attempt \in Nat
      BY <2>0, <2>8 DEF Record, Claims
    <3>2. status \in Statuses
      BY OutcomeType DEF Statuses, Waiting
    <3>3. row' = [row EXCEPT ![e] = new]
      BY <2>8, <3>1 DEF Record
    <3>4. new \in Rows
      <4>1. (status # "Retry") \in BOOLEAN
        OBVIOUS
      <4> HIDE DEF status, attempt, e
      <4>2. QED
        BY <3>1, <3>2, <4>1, RowUpdateType
    <3>5. row' \in [Events -> Rows]
      BY <3>1, <3>3, <3>4
    <3>6. QED
      BY <2>8, <3>5 DEF Record, Release, business, history
  <2>9. ASSUME NEW w \in Workers, Abandon(w)
        PROVE  TypeOK'
    BY <2>9 DEF Abandon, Release, business, history
  <2>10. ASSUME NEW e \in Events, Clock(e)
         PROVE  TypeOK'
    <3>1. /\ [row[e] EXCEPT !.due = TRUE] \in Rows
          /\ [row[e] EXCEPT !.stale = TRUE] \in Rows
      <4>1. row[e] \in Rows /\ TRUE \in BOOLEAN /\ "Retry" \in Statuses /\ 0 \in Nat
        BY DEF Statuses, Waiting
      <4>2. QED
        BY <4>1, RowUpdateType, Zenon
    <3>2. \/ row' = [row EXCEPT ![e] = [row[e] EXCEPT !.due = TRUE]]
          \/ row' = [row EXCEPT ![e] = [row[e] EXCEPT !.stale = TRUE]]
      BY <2>10 DEF Clock, BackoffElapses, ClaimAges
    <3>3. row' \in [Events -> Rows]
      BY <3>1, <3>2
    <3>4. QED
      BY <2>10, <3>3 DEF Clock, BackoffElapses, ClaimAges, business, history
  <2>11. ASSUME NEW e \in Events, Owner(e)
         PROVE  TypeOK'
    <3>1. row' \in [Events -> Rows]
      <4> DEFINE rows == Normalise(row)
      <4>1. rows \in [Events -> Rows]
        BY NormaliseType
      <4>2. \/ row' = [rows EXCEPT ![e] = [rows[e] EXCEPT !.status = "Retry", !.due = TRUE]]
            \/ row' = [rows EXCEPT ![e] =
                 [rows[e] EXCEPT !.status = "Retry", !.due = TRUE, !.stale = FALSE]]
        BY <2>11, <4>1 DEF Owner, RetryEvent, RecoverStaleEvent
      <4> HIDE DEF rows
      <4>3. rows[e] \in Rows /\ "Retry" \in Statuses
        BY <4>1 DEF Statuses, Waiting
      <4>4. [rows[e] EXCEPT !.status = "Retry", !.due = TRUE] \in Rows
        BY <4>3 DEF Rows
      <4>5. [rows[e] EXCEPT !.status = "Retry", !.due = TRUE, !.stale = FALSE] \in Rows
        BY <4>3 DEF Rows
      <4>6. QED
        BY <4>1, <4>2, <4>4, <4>5
    <3>2. interventions' \in [Events -> 0..MaxInterventions]
      BY <2>11 DEF Owner, RetryEvent, RecoverStaleEvent, Intervene
    <3>3. QED
      BY <2>11, <3>1, <3>2 DEF Owner, RetryEvent, RecoverStaleEvent, business
  <2>12. ASSUME NEW d \in Destinations, Configure(d)
         PROVE  TypeOK'
    BY <2>12 DEF Configure, business, history
  <2>13. CASE UNCHANGED vars
    BY <2>13 DEF vars, business, history
  <2>14. QED
    BY <2>1, <2>2, <2>3, <2>4, <2>5, <2>6, <2>7, <2>8, <2>9, <2>10, <2>11, <2>12, <2>13
    DEF Next, Producer, Deliver
<1>3. QED
  BY <1>1, <1>2, PTL DEF Spec
-----------------------------------------------------------------------------
(* A claim is exclusive.                                                   *)

\* A claim that has aged past fifteen minutes belongs to no live worker.
StaleIsUnheld ==
  \A e \in Events : row[e].status = "Processing" /\ row[e].stale => ~Held(e)

\* The strengthening of ExclusiveClaim: recovery is harmless only because a
\* stale claim is not held, and the snapshot stays fresh only because the
\* claim is exclusive.
ClaimInv ==
  /\ TypeOK
  /\ ExclusiveClaim
  /\ ClaimSnapshotFresh
  /\ StaleIsUnheld

\* No statement of a producer touches a protected row.
LEMMA ProtectedKept ==
  ASSUME NEW rows \in [Events -> Rows], NEW e \in Events, NEW f \in Events,
         rows[f].status \in Protected, NEW version
  PROVE  /\ Normalise(rows)[f] = rows[f]
         /\ Upsert(rows, e, version)[f] = rows[f]
         /\ MarkReady(rows, e)[f] = rows[f]
<1>1. rows[f].status \notin Waiting /\ rows[f].status \notin {"Absent", "Ready"}
  BY DEF Protected, Waiting
<1>2. Normalise(rows)[f] = rows[f]
  BY <1>1 DEF Normalise
<1>3. Upsert(rows, e, version)[f] = rows[f]
  <2>1. CASE e = f
    <3>1. Upsert(rows, e, version)[f] = Enqueued(rows[f], version)
      BY <2>1 DEF Upsert
    <3>2. QED
      BY <1>1, <3>1 DEF Enqueued
  <2>2. CASE e # f
    BY <2>2 DEF Upsert
  <2>3. QED
    BY <2>1, <2>2
<1>4. MarkReady(rows, e)[f] = rows[f]
  <2>1. CASE e = f
    <3>1. MarkReady(rows, e)[f] = [rows[f] EXCEPT !.status = rows[f].status]
      BY <1>1, <2>1 DEF MarkReady
    <3>2. QED
      BY <3>1 DEF Rows
  <2>2. CASE e # f
    BY <2>2 DEF MarkReady
  <2>3. QED
    BY <2>1, <2>2
<1>5. QED
  BY <1>2, <1>3, <1>4

LEMMA ProducerKeepsProtected ==
  ASSUME TypeOK, NEW e \in Events, Producer(e),
         NEW f \in Events, row[f].status \in Protected
  PROVE  row'[f] = row[f]
<1>1. row \in [Events -> Rows] /\ lastId \in Nat /\ producing[e] \in 0..MaxVersion
  BY DEF TypeOK
<1>2. CASE EnqueueInTransaction(e)
  <2>1. Normalise(row) \in [Events -> Rows] /\ Normalise(row)[f] = row[f]
    BY <1>1, NormaliseType, ProtectedKept
  <2>2. Upsert(Normalise(row), e, 1)[f] = Normalise(row)[f]
    BY <2>1, ProtectedKept
  <2>3. QED
    BY <1>2, <2>1, <2>2 DEF EnqueueInTransaction
<1>3. CASE CommitBusiness(e)
  BY <1>1, <1>3, ProtectedKept DEF CommitBusiness
<1>4. CASE EnqueueAfterCommit(e)
  <2> DEFINE upserted == Upsert(row, e, producing[e])
  <2>1. upserted \in [Events -> Rows]
    BY <1>1, UpsertType
  <2>2. upserted[f] = row[f]
    BY <1>1, ProtectedKept
  <2>3. row' = MarkReady(upserted, e)
    BY <1>4 DEF EnqueueAfterCommit
  <2> HIDE DEF upserted
  <2>4. QED
    BY <2>1, <2>2, <2>3, ProtectedKept
<1>5. CASE LoseEnqueue(e)
  BY <1>5 DEF LoseEnqueue
<1>6. QED
  BY <1>2, <1>3, <1>4, <1>5 DEF Producer

\* Producers, the clock and the owner leave completed and held rows alone.
LEMMA OthersKeepHeld ==
  ASSUME ~LateWorkers, ClaimInv, NEW e \in Events, Producer(e) \/ Owner(e) \/ Clock(e),
         NEW f \in Events, row[f].status = "Completed" \/ Held(f)
  PROVE  row'[f] = row[f]
<1>1. row \in [Events -> Rows]
  BY DEF ClaimInv, TypeOK
<1>2. row[f].status = "Completed" \/ (row[f].status = "Processing" /\ ~row[f].stale /\ Held(f))
  <2>1. ASSUME Held(f)
        PROVE  row[f].status = "Processing"
    <3>1. PICK w \in Workers : worker[w].event = f
      BY <2>1 DEF Held
    <3>2. worker[w].pc # "idle"
      BY <3>1 DEF ClaimInv, TypeOK, Claims, Idle
    <3>3. QED
      BY <3>1, <3>2 DEF ClaimInv, ExclusiveClaim
  <2>2. QED
    BY <2>1 DEF ClaimInv, StaleIsUnheld
<1>3. row[f].status \in Protected
  BY <1>2 DEF Protected
<1>4. CASE Producer(e)
  BY <1>3, <1>4, ProducerKeepsProtected DEF ClaimInv
<1>5. CASE Owner(e)
  <2>1. e # f
    BY <1>2, <1>5 DEF Owner, RetryEvent, RecoverStaleEvent
  <2>2. row'[f] = Normalise(row)[f]
    <3>1. Normalise(row) \in [Events -> Rows]
      BY <1>1, NormaliseType
    <3>2. QED
      BY <1>5, <2>1, <3>1 DEF Owner, RetryEvent, RecoverStaleEvent
  <2>3. QED
    BY <1>1, <1>3, <2>2, ProtectedKept
<1>6. CASE Clock(e)
  <2>1. e # f
    BY <1>2, <1>6 DEF Clock, BackoffElapses, ClaimAges
  <2>2. QED
    BY <1>1, <1>6, <2>1 DEF Clock, BackoffElapses, ClaimAges
<1>7. QED
  BY <1>4, <1>5, <1>6

LEMMA HeldIsProcessing ==
  ASSUME ClaimInv, NEW e \in Events, Held(e)
  PROVE  row[e].status = "Processing" /\ ~row[e].stale
<1>1. PICK w \in Workers : worker[w].event = e
  BY DEF Held
<1>2. worker[w].pc # "idle"
  BY <1>1 DEF ClaimInv, TypeOK, Claims, Idle
<1>3. QED
  BY <1>1, <1>2 DEF ClaimInv, ExclusiveClaim, StaleIsUnheld

LEMMA BusyHolds ==
  ASSUME TypeOK, NEW w \in Workers, worker[w].pc # "idle"
  PROVE  worker[w] \in Claims /\ worker[w].event \in Events /\ Held(worker[w].event)
  BY DEF TypeOK, Claims, Idle, Held

\* A step that moves no worker and no held row keeps the claims in order.
LEMMA QuietStep ==
  ASSUME ClaimInv, TypeOK', worker' = worker,
         \A f \in Events : Held(f) => row'[f] = row[f]
  PROVE  ClaimInv'
<1>1. ExclusiveClaim' /\ ClaimSnapshotFresh'
  BY BusyHolds DEF ClaimInv, ExclusiveClaim, ClaimSnapshotFresh
<1>2. StaleIsUnheld'
  BY HeldIsProcessing DEF StaleIsUnheld, Held
<1>3. QED
  BY <1>1, <1>2 DEF ClaimInv

\* A worker that lets go of its claim may leave any row behind.
LEMMA ReleaseStep ==
  ASSUME ClaimInv, TypeOK', NEW w \in Workers, worker[w].pc # "idle", Release(w),
         \A f \in Events : f # worker[w].event => row'[f] = row[f],
         row'[worker[w].event] = row[worker[w].event] \/ ~row'[worker[w].event].stale
  PROVE  ClaimInv'
<1>1. worker'[w] = Idle /\ \A v \in Workers : v # w => worker'[v] = worker[v]
  BY DEF Release, ClaimInv, TypeOK
<1>2. \A v \in Workers : worker'[v].pc # "idle" =>
        /\ v # w
        /\ worker'[v] = worker[v]
        /\ worker[v].event # worker[w].event
        /\ row'[worker[v].event] = row[worker[v].event]
  <2> SUFFICES ASSUME NEW v \in Workers, worker'[v].pc # "idle"
               PROVE  /\ v # w
                      /\ worker'[v] = worker[v]
                      /\ worker[v].event # worker[w].event
                      /\ row'[worker[v].event] = row[worker[v].event]
    OBVIOUS
  <2>1. v # w /\ worker'[v] = worker[v]
    BY <1>1 DEF Idle
  <2>2. worker[v].event # worker[w].event
    BY <2>1 DEF ClaimInv, ExclusiveClaim
  <2>3. worker[v].event \in Events
    BY <2>1, BusyHolds DEF ClaimInv
  <2>4. QED
    BY <2>1, <2>2, <2>3
<1>3. ExclusiveClaim'
  <2> SUFFICES ASSUME NEW v \in Workers, worker'[v].pc # "idle",
                      NEW u \in Workers, worker'[u].event = worker'[v].event
               PROVE  row'[worker'[v].event].status = "Processing" /\ u = v
    BY DEF ExclusiveClaim
  <2>1. row'[worker'[v].event].status = "Processing"
    BY <1>2 DEF ClaimInv, ExclusiveClaim
  <2>2. worker'[v].event \in Events
    BY <1>2, BusyHolds DEF ClaimInv
  <2>3. u # w
    BY <1>1, <2>2 DEF Idle
  <2>4. QED
    BY <1>1, <1>2, <2>1, <2>3 DEF ClaimInv, ExclusiveClaim
<1>4. ClaimSnapshotFresh'
  BY <1>2 DEF ClaimInv, ClaimSnapshotFresh
<1>5. StaleIsUnheld'
  <2> SUFFICES ASSUME NEW f \in Events, row'[f].status = "Processing", row'[f].stale,
                      NEW v \in Workers, worker'[v].event = f
               PROVE  FALSE
    BY DEF StaleIsUnheld, Held
  <2>1. worker'[v].pc # "idle"
    BY DEF TypeOK, Claims, Idle
  <2>2. worker[v].event = f /\ row'[f] = row[f] /\ Held(f)
    BY <1>2, <2>1 DEF Held
  <2>3. QED
    BY <2>2, HeldIsProcessing
<1>6. QED
  BY <1>3, <1>4, <1>5 DEF ClaimInv

LEMMA ClaimStep ==
  ASSUME ClaimInv, TypeOK', NEW w \in Workers, Claim(w)
  PROVE  ClaimInv'
<1> DEFINE rows == Normalise(row)
<1>1. row \in [Events -> Rows] /\ rows \in [Events -> Rows]
  BY NormaliseType DEF ClaimInv, TypeOK
<1>2. PICK e \in Events :
        /\ Claimable(rows, e)
        /\ row' = [rows EXCEPT ![e] = [rows[e] EXCEPT !.status = "Processing", !.stale = FALSE]]
        /\ worker' = [worker EXCEPT ![w] =
             [pc |-> "claimed", event |-> e, attempts |-> rows[e].attempts,
              payload |-> rows[e].payload, answer |-> "none"]]
  BY <1>1 DEF Claim
<1>3. ~Held(e)
  <2>1. row[e].status # "Processing"
    BY <1>1, <1>2, ProtectedKept DEF Claimable, Protected
  <2>2. QED
    BY <2>1, HeldIsProcessing
<1>4. \A f \in Events : Held(f) => f # e /\ row'[f] = row[f]
  <2> SUFFICES ASSUME NEW f \in Events, Held(f)
               PROVE  f # e /\ row'[f] = row[f]
    OBVIOUS
  <2>1. f # e
    BY <1>3
  <2>2. rows[f] = row[f]
    BY <1>1, HeldIsProcessing, ProtectedKept DEF Protected
  <2> HIDE DEF rows
  <2>3. QED
    BY <1>1, <1>2, <2>1, <2>2
<1>5. /\ row'[e].status = "Processing"
      /\ ~row'[e].stale
      /\ row'[e].attempts = rows[e].attempts
      /\ row'[e].payload = rows[e].payload
  <2> HIDE DEF rows
  <2>1. QED
    BY <1>1, <1>2 DEF Rows
<1> HIDE DEF rows
<1>6. /\ worker'[w].pc = "claimed" /\ worker'[w].event = e
      /\ worker'[w].attempts = rows[e].attempts /\ worker'[w].payload = rows[e].payload
      /\ \A v \in Workers : v # w => worker'[v] = worker[v]
  BY <1>2 DEF ClaimInv, TypeOK
<1>7. \A v \in Workers : v # w /\ worker'[v].event \in Events =>
        /\ worker[v].pc # "idle"
        /\ worker'[v] = worker[v]
        /\ Held(worker[v].event)
        /\ worker[v].event # e
        /\ row'[worker[v].event] = row[worker[v].event]
  <2> SUFFICES ASSUME NEW v \in Workers, v # w, worker'[v].event \in Events
               PROVE  /\ worker[v].pc # "idle"
                      /\ worker'[v] = worker[v]
                      /\ Held(worker[v].event)
                      /\ worker[v].event # e
                      /\ row'[worker[v].event] = row[worker[v].event]
    OBVIOUS
  <2>1. worker'[v] = worker[v] /\ worker[v].event \in Events
    BY <1>6
  <2>2. worker[v].pc # "idle" /\ Held(worker[v].event)
    BY <2>1 DEF ClaimInv, TypeOK, Claims, Idle, Held
  <2>3. QED
    BY <1>4, <2>1, <2>2
<1>8. \A v \in Workers : worker'[v].pc # "idle" => worker'[v].event \in Events
  BY DEF TypeOK, Claims, Idle
<1>9. ExclusiveClaim'
  <2> SUFFICES ASSUME NEW v \in Workers, worker'[v].pc # "idle",
                      NEW u \in Workers, worker'[u].event = worker'[v].event
               PROVE  row'[worker'[v].event].status = "Processing" /\ u = v
    BY DEF ExclusiveClaim
  <2>1. worker'[v].event \in Events /\ worker'[u].event \in Events
    BY <1>8
  <2>2. CASE v = w
    BY <1>5, <1>6, <1>7, <2>1, <2>2
  <2>3. CASE v # w
    BY <1>6, <1>7, <2>1, <2>3 DEF ClaimInv, ExclusiveClaim
  <2>4. QED
    BY <2>2, <2>3
<1>10. ClaimSnapshotFresh'
  <2> SUFFICES ASSUME NEW v \in Workers, worker'[v].pc # "idle"
               PROVE  /\ worker'[v].payload = row'[worker'[v].event].payload
                      /\ worker'[v].attempts = row'[worker'[v].event].attempts
    BY DEF ClaimSnapshotFresh
  <2>1. CASE v = w
    BY <1>5, <1>6, <2>1
  <2>2. CASE v # w
    BY <1>7, <1>8, <2>2 DEF ClaimInv, ClaimSnapshotFresh
  <2>3. QED
    BY <2>1, <2>2
<1>11. StaleIsUnheld'
  <2> SUFFICES ASSUME NEW f \in Events, row'[f].status = "Processing", row'[f].stale,
                      NEW v \in Workers, worker'[v].event = f
               PROVE  FALSE
    BY DEF StaleIsUnheld, Held
  <2>1. CASE v = w
    BY <1>5, <1>6, <2>1
  <2>2. CASE v # w
    BY <1>7, <2>2, HeldIsProcessing
  <2>3. QED
    BY <2>1, <2>2
<1>12. QED
  BY <1>9, <1>10, <1>11 DEF ClaimInv

LEMMA PostStep ==
  ASSUME ClaimInv, TypeOK', NEW w \in Workers, Post(w)
  PROVE  ClaimInv'
<1>1. worker[w] \in Claims
  BY BusyHolds DEF Post, ClaimInv
<1>2. PICK answer \in Answers : worker' = [worker EXCEPT ![w] =
        [worker[w] EXCEPT !.pc = "answered", !.answer = answer]]
  BY DEF Post
<1>3. \A v \in Workers : /\ worker'[v].event = worker[v].event
                         /\ worker'[v].attempts = worker[v].attempts
                         /\ worker'[v].payload = worker[v].payload
                         /\ worker'[v].pc # "idle" => worker[v].pc # "idle"
  BY <1>1, <1>2 DEF Claims, Post, ClaimInv, TypeOK
<1>4. row' = row
  BY DEF Post
<1>5. QED
  BY <1>3, <1>4 DEF ClaimInv, ExclusiveClaim, ClaimSnapshotFresh, StaleIsUnheld, Held

LEMMA ClaimInvariant ==
  ASSUME ~LateWorkers
  PROVE  Spec => []ClaimInv
<1>1. TypeOK /\ Init => ClaimInv
  BY DEF ClaimInv, Init, ExclusiveClaim, ClaimSnapshotFresh, StaleIsUnheld, Held, Idle, Absent
<1>2. TypeOK' /\ ClaimInv /\ [Next]_vars => ClaimInv'
  <2> SUFFICES ASSUME TypeOK', ClaimInv, [Next]_vars
               PROVE  ClaimInv'
    OBVIOUS
  <2>1. ASSUME NEW e \in Events, Producer(e) \/ Owner(e) \/ Clock(e)
        PROVE  ClaimInv'
    <3>1. worker' = worker
      BY <2>1 DEF Producer, EnqueueInTransaction, CommitBusiness, EnqueueAfterCommit,
                  LoseEnqueue, Owner, RetryEvent, RecoverStaleEvent, Clock, BackoffElapses,
                  ClaimAges
    <3>2. QED
      BY <2>1, <3>1, OthersKeepHeld, QuietStep
  <2>2. ASSUME NEW w \in Workers, SkipUnconfigured(w) \/ Record(w) \/ Abandon(w)
        PROVE  ClaimInv'
    <3> DEFINE e == worker[w].event
    <3>1. worker[w].pc # "idle" /\ Release(w)
      BY <2>2 DEF SkipUnconfigured, Record, Abandon
    <3>2. e \in Events
      BY <3>1, BusyHolds DEF ClaimInv
    <3>3. row \in [Events -> Rows]
      BY DEF ClaimInv, TypeOK
    <3>4. \A f \in Events : f # e => row'[f] = row[f]
      BY <2>2, <3>3 DEF SkipUnconfigured, Record, Abandon
    <3>5. row'[e] = row[e] \/ ~row'[e].stale
      <4>1. row[e] \in Rows
        BY <3>2, <3>3
      <4>2. CASE SkipUnconfigured(w)
        BY <3>2, <3>3, <4>1, <4>2 DEF SkipUnconfigured, Rows
      <4>3. CASE Record(w)
        BY <3>2, <3>3, <4>1, <4>3 DEF Record, Rows
      <4>4. CASE Abandon(w)
        BY <4>4 DEF Abandon
      <4>5. QED
        BY <2>2, <4>2, <4>3, <4>4
    <3>6. QED
      BY <3>1, <3>4, <3>5, ReleaseStep
  <2>3. ASSUME NEW d \in Destinations, Configure(d)
        PROVE  ClaimInv'
    BY <2>3, QuietStep DEF Configure
  <2>4. CASE UNCHANGED vars
    BY <2>4, QuietStep DEF vars
  <2>5. QED
    BY <2>1, <2>2, <2>3, <2>4, ClaimStep, PostStep DEF Next, Deliver
<1>3. QED
  BY <1>1, <1>2, TypeCorrect, PTL DEF Spec

(***************************************************************************)
(* While workers do not outlive their claims, no two workers hold the same *)
(* event, and a held event is Processing.                                  *)
(***************************************************************************)
THEOREM ClaimsAreExclusive ==
  ASSUME ~LateWorkers
  PROVE  Spec => []ExclusiveClaim
<1>1. ClaimInv => ExclusiveClaim
  BY DEF ClaimInv
<1>2. QED
  BY <1>1, ClaimInvariant, PTL

(***************************************************************************)
(* What a worker computes its last UPDATE from is still what the row says. *)
(***************************************************************************)
THEOREM ClaimsAreFresh ==
  ASSUME ~LateWorkers
  PROVE  Spec => []ClaimSnapshotFresh
<1>1. ClaimInv => ClaimSnapshotFresh
  BY DEF ClaimInv
<1>2. QED
  BY <1>1, ClaimInvariant, PTL

-----------------------------------------------------------------------------
(* Completed rows.                                                         *)

(***************************************************************************)
(* Completed events are immutable: only a holder could still write such a  *)
(* row without looking at its status, and a held row is Processing.        *)
(***************************************************************************)
THEOREM CompletedStays ==
  ASSUME ~LateWorkers
  PROVE  Spec => CompletedImmutable
<1>1. ClaimInv /\ [Next]_vars =>
        [\A e \in Events : row[e].status = "Completed" => row'[e] = row[e]]_vars
  <2> SUFFICES ASSUME ClaimInv, Next, NEW f \in Events, row[f].status = "Completed"
               PROVE  row'[f] = row[f]
    OBVIOUS
  <2>1. row \in [Events -> Rows]
    BY DEF ClaimInv, TypeOK
  <2>2. CASE \E e \in Events : Producer(e) \/ Owner(e) \/ Clock(e)
    BY <2>2, OthersKeepHeld
  <2>3. ASSUME NEW w \in Workers, SkipUnconfigured(w) \/ Record(w)
        PROVE  row'[f] = row[f]
    <3>1. worker[w].pc # "idle"
      BY <2>3 DEF SkipUnconfigured, Record
    <3>2. worker[w].event # f
      BY <3>1 DEF ClaimInv, ExclusiveClaim
    <3>3. QED
      BY <2>1, <2>3, <3>2 DEF SkipUnconfigured, Record
  <2>4. ASSUME NEW w \in Workers, Claim(w)
        PROVE  row'[f] = row[f]
    <3> DEFINE rows == Normalise(row)
    <3>1. rows \in [Events -> Rows] /\ rows[f] = row[f]
      BY <2>1, NormaliseType, ProtectedKept DEF Protected
    <3>2. PICK e \in Events :
            /\ Claimable(rows, e)
            /\ row' = [rows EXCEPT ![e] = [rows[e] EXCEPT !.status = "Processing",
                                                          !.stale = FALSE]]
      BY <2>4, <3>1 DEF Claim
    <3>3. e # f
      BY <3>1, <3>2 DEF Claimable
    <3> HIDE DEF rows
    <3>4. QED
      BY <3>1, <3>2, <3>3
  <2>5. ASSUME NEW w \in Workers, Post(w) \/ Abandon(w)
        PROVE  row'[f] = row[f]
    BY <2>5 DEF Post, Abandon
  <2>6. ASSUME NEW d \in Destinations, Configure(d)
        PROVE  row'[f] = row[f]
    BY <2>6 DEF Configure
  <2>7. QED
    BY <2>2, <2>3, <2>4, <2>5, <2>6 DEF Next, Deliver
<1>2. QED
  BY <1>1, ClaimInvariant, PTL DEF Spec, CompletedImmutable

-----------------------------------------------------------------------------
(* The row of one event after a step of an actor, as far as these theorems *)
(* look at it.                                                             *)

Closed == {"Completed", "Dead Letter"}

\* Renamed by Normalise or not, the row keeps its contents.
SameButName(old, new) ==
  /\ new.payload = old.payload /\ new.attempts = old.attempts
  /\ new.status = old.status \/ (old.status \in Waiting /\ new.status \in Waiting)

\* A producer's upsert of a row that is not protected.
Renewed(old, new) ==
  /\ old.status \in Waiting \cup {"Absent"} /\ new.status \in Waiting
  /\ new.payload \in 1..MaxVersion /\ new.attempts = old.attempts

LEMMA NormaliseKeeps ==
  ASSUME NEW rows \in [Events -> Rows], NEW e \in Events
  PROVE  SameButName(rows[e], Normalise(rows)[e])
BY DEF Normalise, SameButName, Rows, Waiting

LEMMA UpsertRenews ==
  ASSUME NEW rows \in [Events -> Rows], lastId \in Nat, NEW e \in Events,
         NEW version \in 1..MaxVersion, NEW f \in Events
  PROVE  LET new == Upsert(rows, e, version) IN
         new[f] = rows[f] \/ (f = e /\ Renewed(rows[f], new[f]))
<1> DEFINE new == Upsert(rows, e, version)
<1>1. CASE f # e
  BY <1>1 DEF Upsert
<1>2. CASE f = e
  <2>1. new[f] = Enqueued(rows[f], version)
    BY <1>2 DEF Upsert
  <2>2. rows[f] \in Rows
    OBVIOUS
  <2>3. CASE rows[f].status \in Protected
    BY <2>1, <2>3 DEF Enqueued, Protected
  <2>4. CASE rows[f].status = "Absent"
    BY <1>2, <2>1, <2>2, <2>4 DEF Enqueued, Protected, Renewed, Rows, Waiting
  <2>5. CASE rows[f].status \notin Protected \cup {"Absent"}
    <3>1. rows[f].status \in Waiting
      BY <2>2, <2>5 DEF Rows, Statuses, Protected
    <3>2. new[f] = [rows[f] EXCEPT !.status = "Pending", !.payload = version, !.due = TRUE]
      BY <2>1, <2>5 DEF Enqueued
    <3> QED BY <1>2, <2>2, <3>1, <3>2 DEF Renewed, Rows, Waiting
  <2> QED BY <2>3, <2>4, <2>5
<1> QED BY <1>1, <1>2

LEMMA MarkReadyKeeps ==
  ASSUME NEW rows \in [Events -> Rows], NEW e \in Events, NEW f \in Events
  PROVE  SameButName(rows[f], MarkReady(rows, e)[f])
<1>1. CASE f # e
  BY <1>1 DEF MarkReady, SameButName
<1>2. CASE f = e /\ rows[f].status \in Waiting
  BY <1>2 DEF MarkReady, SameButName, Rows, Waiting
<1>3. CASE f = e /\ rows[f].status \notin Waiting
  BY <1>3 DEF MarkReady, SameButName, Rows
<1> QED BY <1>1, <1>2, <1>3

\* Producers renew one row at most and rename others.
LEMMA ProducerRows ==
  ASSUME TypeOK, NEW e \in Events, Producer(e), NEW f \in Events
  PROVE  \/ SameButName(row[f], row'[f])
         \/ f = e /\ Renewed(row[f], row'[f])
<1>1. row \in [Events -> Rows] /\ lastId \in Nat /\ producing[e] \in 0..MaxVersion
  BY DEF TypeOK
<1>2. CASE EnqueueInTransaction(e)
  <2> DEFINE rows == Normalise(row)
  <2>1. rows \in [Events -> Rows] /\ SameButName(row[f], rows[f])
    BY <1>1, NormaliseType, NormaliseKeeps
  <2>2. 1 \in 1..MaxVersion /\ row' = Upsert(rows, e, 1)
    BY <1>2 DEF EnqueueInTransaction
  <2> HIDE DEF rows
  <2>3. row'[f] = rows[f] \/ (f = e /\ Renewed(rows[f], row'[f]))
    BY <1>1, <2>1, <2>2, UpsertRenews
  <2> QED BY <2>1, <2>3 DEF SameButName, Renewed, Waiting
<1>3. CASE CommitBusiness(e)
  BY <1>1, <1>3, NormaliseKeeps DEF CommitBusiness
<1>4. CASE EnqueueAfterCommit(e)
  <2> DEFINE rows == Upsert(row, e, producing[e])
  <2>1. producing[e] \in 1..MaxVersion /\ row' = MarkReady(rows, e)
    BY <1>1, <1>4 DEF EnqueueAfterCommit
  <2>2. rows \in [Events -> Rows]
    BY <1>1, UpsertType
  <2>3. rows[f] = row[f] \/ (f = e /\ Renewed(row[f], rows[f]))
    BY <1>1, <2>1, UpsertRenews
  <2> HIDE DEF rows
  <2>4. SameButName(rows[f], row'[f])
    BY <2>1, <2>2, MarkReadyKeeps
  <2> QED BY <2>3, <2>4 DEF SameButName, Renewed, Waiting
<1>5. CASE LoseEnqueue(e)
  BY <1>5 DEF LoseEnqueue, SameButName
<1> QED BY <1>2, <1>3, <1>4, <1>5 DEF Producer

\* What a worker's claim does to the rows.
LEMMA ClaimRows ==
  ASSUME TypeOK, NEW w \in Workers, Claim(w)
  PROVE  \E e \in Events :
           /\ row[e].status \in Waiting /\ row'[e].status = "Processing"
           /\ row'[e].payload = row[e].payload /\ row'[e].attempts = row[e].attempts
           /\ worker' = [worker EXCEPT ![w] =
                [pc |-> "claimed", event |-> e, attempts |-> row[e].attempts,
                 payload |-> row[e].payload, answer |-> "none"]]
           /\ \A f \in Events : f # e => SameButName(row[f], row'[f])
<1> DEFINE rows == Normalise(row)
<1>1. row \in [Events -> Rows] /\ rows \in [Events -> Rows]
  BY NormaliseType DEF TypeOK
<1>2. \A f \in Events : SameButName(row[f], rows[f])
  BY <1>1, NormaliseKeeps
<1>3. PICK e \in Events :
        /\ Claimable(rows, e)
        /\ row' = [rows EXCEPT ![e] = [rows[e] EXCEPT !.status = "Processing", !.stale = FALSE]]
        /\ worker' = [worker EXCEPT ![w] =
             [pc |-> "claimed", event |-> e, attempts |-> rows[e].attempts,
              payload |-> rows[e].payload, answer |-> "none"]]
  BY <1>1 DEF Claim
<1> HIDE DEF rows
<1>4. rows[e] \in Rows /\ SameButName(row[e], rows[e])
  BY <1>1, <1>2
<1>5. row[e].status \in Waiting
  BY <1>3, <1>4 DEF Claimable, SameButName, Waiting
<1>6. /\ row'[e].status = "Processing"
      /\ row'[e].payload = row[e].payload /\ row'[e].attempts = row[e].attempts
  BY <1>1, <1>3, <1>4 DEF SameButName, Rows
<1>7. \A f \in Events : f # e => row'[f] = rows[f]
  BY <1>1, <1>3
<1>8. worker' = [worker EXCEPT ![w] =
        [pc |-> "claimed", event |-> e, attempts |-> row[e].attempts,
         payload |-> row[e].payload, answer |-> "none"]]
  BY <1>3, <1>4 DEF SameButName
<1>9. \A f \in Events : f # e => SameButName(row[f], row'[f])
  BY <1>2, <1>7
<1> QED BY <1>5, <1>6, <1>8, <1>9

\* What the owner and the clock do to the rows.
LEMMA OwnerRows ==
  ASSUME TypeOK, NEW e \in Events, Owner(e), NEW f \in Events
  PROVE  \/ SameButName(row[f], row'[f])
         \/ /\ f = e /\ row[f].status \in {"Dead Letter", "Processing"}
            /\ row'[f].status = "Retry" /\ row'[f].payload = row[f].payload
            /\ row'[f].attempts = row[f].attempts
<1> DEFINE rows == Normalise(row)
<1>1. row \in [Events -> Rows] /\ rows \in [Events -> Rows]
  BY NormaliseType DEF TypeOK
<1>2. SameButName(row[f], rows[f])
  BY <1>1, NormaliseKeeps
<1>3. \/ row' = [rows EXCEPT ![e] = [rows[e] EXCEPT !.status = "Retry", !.due = TRUE]]
      \/ row' = [rows EXCEPT ![e] =
           [rows[e] EXCEPT !.status = "Retry", !.due = TRUE, !.stale = FALSE]]
  BY <1>1 DEF Owner, RetryEvent, RecoverStaleEvent
<1>4. row[e].status \notin {"Absent", "Completed"}
  BY DEF Owner, RetryEvent, RecoverStaleEvent
<1> HIDE DEF rows
<1>5. CASE f # e
  BY <1>1, <1>2, <1>3, <1>5
<1>6. CASE f = e
  <2>1. /\ row'[f].status = "Retry" /\ row'[f].payload = rows[f].payload
        /\ row'[f].attempts = rows[f].attempts
    <3>1. rows[e] \in Rows
      BY <1>1
    <3>2. \/ row'[e] = [rows[e] EXCEPT !.status = "Retry", !.due = TRUE]
          \/ row'[e] = [rows[e] EXCEPT !.status = "Retry", !.due = TRUE, !.stale = FALSE]
      BY <1>1, <1>3
    <3> QED BY <1>6, <3>1, <3>2 DEF Rows
  <2>2. row[f].status \in Waiting \cup {"Dead Letter", "Processing"}
    BY <1>1, <1>4, <1>6 DEF Rows, Statuses
  <2> QED BY <1>2, <1>6, <2>1, <2>2 DEF SameButName, Waiting
<1> QED BY <1>5, <1>6

LEMMA ClockRows ==
  ASSUME TypeOK, NEW e \in Events, Clock(e), NEW f \in Events
  PROVE  SameButName(row[f], row'[f])
<1>1. row \in [Events -> Rows]
  BY DEF TypeOK
<1>2. CASE f # e
  BY <1>1, <1>2 DEF Clock, BackoffElapses, ClaimAges, SameButName
<1>3. CASE f = e
  BY <1>1, <1>3 DEF Clock, BackoffElapses, ClaimAges, SameButName, Rows
<1> QED BY <1>2, <1>3

\* What the end of a delivery does to the rows.
LEMMA SkipRows ==
  ASSUME TypeOK, NEW w \in Workers, SkipUnconfigured(w)
  PROVE  LET e == worker[w].event IN
         /\ e \in Events /\ worker' = [worker EXCEPT ![w] = Idle]
         /\ row'[e].status = "Retry" /\ row'[e].attempts = worker[w].attempts + 1
         /\ row'[e].payload = row[e].payload
         /\ \A f \in Events : f # e => row'[f] = row[f]
<1> DEFINE e == worker[w].event
<1>1. row \in [Events -> Rows] /\ e \in Events
  BY BusyHolds DEF TypeOK, SkipUnconfigured
<1>2. row' = [row EXCEPT ![e] =
        [row[e] EXCEPT !.status = "Retry", !.attempts = worker[w].attempts + 1,
                       !.due = FALSE, !.stale = FALSE]]
  BY DEF SkipUnconfigured
<1>3. worker' = [worker EXCEPT ![w] = Idle]
  BY DEF SkipUnconfigured, Release
<1> HIDE DEF e
<1>4. row[e] \in Rows
  BY <1>1
<1> QED BY <1>1, <1>2, <1>3, <1>4 DEF Rows, e

LEMMA RecordRows ==
  ASSUME TypeOK, NEW w \in Workers, Record(w)
  PROVE  LET e == worker[w].event IN
         /\ e \in Events /\ worker' = [worker EXCEPT ![w] = Idle]
         /\ row'[e].status = Outcome(worker[w].answer, worker[w].attempts + 1)
         /\ row'[e].attempts = worker[w].attempts + 1
         /\ row'[e].payload = row[e].payload
         /\ \A f \in Events : f # e => row'[f] = row[f]
<1> DEFINE e == worker[w].event
           status == Outcome(worker[w].answer, worker[w].attempts + 1)
<1>1. row \in [Events -> Rows] /\ e \in Events
  BY BusyHolds DEF TypeOK, Record
<1>2. row' = [row EXCEPT ![e] =
        [row[e] EXCEPT !.status = status, !.attempts = worker[w].attempts + 1,
                       !.due = (status # "Retry"), !.stale = FALSE]]
  BY DEF Record
<1>3. worker' = [worker EXCEPT ![w] = Idle]
  BY DEF Record, Release
<1> HIDE DEF e, status
<1>4. row[e] \in Rows
  BY <1>1
<1>5. /\ row'[e].status = status /\ row'[e].attempts = worker[w].attempts + 1
      /\ row'[e].payload = row[e].payload
      /\ \A f \in Events : f # e => row'[f] = row[f]
  BY <1>1, <1>2, <1>4 DEF Rows
<1> QED BY <1>1, <1>3, <1>5 DEF e, status

\* A step of a producer, the owner or the clock closes no row.
LEMMA OutsideRows ==
  ASSUME TypeOK, NEW e \in Events, Producer(e) \/ Owner(e) \/ Clock(e), NEW f \in Events
  PROVE  /\ row'[f].status \in Closed => row'[f].status = row[f].status
         /\ row[f].status # "Absent" => row'[f].payload = row[f].payload
                                          \/ row'[f].payload \in 1..MaxVersion
         /\ row'[f].status # "Absent" => row[f].status # "Absent"
                                          \/ row'[f].payload \in 1..MaxVersion
         /\ row[f].status # "Absent" => row'[f].status # "Absent"
<1>1. CASE Producer(e)
  BY <1>1, ProducerRows DEF SameButName, Renewed, Closed, Waiting
<1>2. CASE Owner(e)
  BY <1>2, OwnerRows DEF SameButName, Closed, Waiting
<1>3. CASE Clock(e)
  BY <1>3, ClockRows DEF SameButName, Closed, Waiting
<1> QED BY <1>1, <1>2, <1>3

-----------------------------------------------------------------------------
(* Nothing is closed without cause.                                        *)

\* Every row and every claim carries a version, and a favourable answer in a
\* worker's hands was given by a receiver that had applied the event.
AppliedInv ==
  /\ CompletedWasApplied
  /\ \A e \in Events : row[e].status # "Absent" => row[e].payload # 0
  /\ \A w \in Workers : worker[w].pc # "idle" =>
       /\ worker[w].payload # 0
       /\ row[worker[w].event].status # "Absent"
       /\ worker[w].answer \in {"ok", "duplicate"} => received[worker[w].event] # 0

\* Who has an answer had a URL to ask.
AskedInv ==
  /\ UnconfiguredStaysQueued
  /\ \A w \in Workers : worker[w].pc = "answered" =>
       DestinationOf[worker[w].event] \in configured

CauseInv == AppliedInv /\ AskedInv

LEMMA OutsideCause ==
  ASSUME TypeOK, CauseInv, NEW e \in Events, Producer(e) \/ Owner(e) \/ Clock(e)
  PROVE  CauseInv'
<1>1. UNCHANGED <<worker, configured, received>>
  BY DEF Producer, EnqueueInTransaction, CommitBusiness, EnqueueAfterCommit, LoseEnqueue,
         Owner, RetryEvent, RecoverStaleEvent, Clock, BackoffElapses, ClaimAges
<1>2. CompletedWasApplied' /\ UnconfiguredStaysQueued'
  BY <1>1, OutsideRows
  DEF CauseInv, AppliedInv, AskedInv, CompletedWasApplied, UnconfiguredStaysQueued, Closed
<1>3. \A f \in Events : row'[f].status # "Absent" => row'[f].payload # 0
  BY OutsideRows DEF CauseInv, AppliedInv
<1>4. \A w \in Workers : worker[w].pc # "idle" => row'[worker[w].event].status # "Absent"
  BY OutsideRows, BusyHolds DEF CauseInv, AppliedInv
<1> QED BY <1>1, <1>2, <1>3, <1>4 DEF CauseInv, AppliedInv, AskedInv

LEMMA ClaimCause ==
  ASSUME TypeOK, CauseInv, NEW w \in Workers, Claim(w)
  PROVE  CauseInv'
<1>1. PICK e \in Events :
        /\ row[e].status \in Waiting /\ row'[e].status = "Processing"
        /\ row'[e].payload = row[e].payload
        /\ worker' = [worker EXCEPT ![w] =
             [pc |-> "claimed", event |-> e, attempts |-> row[e].attempts,
              payload |-> row[e].payload, answer |-> "none"]]
        /\ \A f \in Events : f # e => SameButName(row[f], row'[f])
  BY ClaimRows
<1>2. UNCHANGED <<configured, received>>
  BY DEF Claim
<1>3. \A f \in Events :
        /\ row'[f].status \in Closed => row'[f].status = row[f].status
        /\ row'[f].payload = row[f].payload
        /\ (row'[f].status = "Absent") = (row[f].status = "Absent")
  BY <1>1 DEF SameButName, Closed, Waiting
<1>4. \A v \in Workers : worker'[v].pc # "idle" =>
        \/ worker'[v] = worker[v] /\ worker[v].event \in Events
        \/ /\ worker'[v].pc = "claimed" /\ worker'[v].answer = "none"
           /\ worker'[v].payload = row[e].payload /\ worker'[v].event = e
  BY <1>1, BusyHolds DEF TypeOK
<1>5. row[e].payload # 0
  BY <1>1 DEF CauseInv, AppliedInv, Waiting
<1>6. AppliedInv'
  <2>1. CompletedWasApplied'
    BY <1>2, <1>3 DEF CauseInv, AppliedInv, CompletedWasApplied, Closed
  <2>2. \A f \in Events : row'[f].status # "Absent" => row'[f].payload # 0
    BY <1>3 DEF CauseInv, AppliedInv
  <2>3. ASSUME NEW v \in Workers, worker'[v].pc # "idle"
        PROVE  /\ worker'[v].payload # 0
               /\ row'[worker'[v].event].status # "Absent"
               /\ worker'[v].answer \in {"ok", "duplicate"} => received[worker'[v].event] # 0
    <3>1. CASE worker'[v] = worker[v] /\ worker[v].event \in Events
      BY <1>3, <2>3, <3>1 DEF CauseInv, AppliedInv
    <3>2. CASE /\ worker'[v].answer = "none"
               /\ worker'[v].payload = row[e].payload /\ worker'[v].event = e
      BY <1>1, <1>5, <3>2
    <3> QED BY <1>4, <2>3, <3>1, <3>2
  <2> QED BY <1>2, <2>1, <2>2, <2>3 DEF AppliedInv
<1>7. AskedInv'
  BY <1>2, <1>3, <1>4 DEF CauseInv, AskedInv, UnconfiguredStaysQueued, Closed
<1> QED BY <1>6, <1>7 DEF CauseInv

LEMMA PostCause ==
  ASSUME TypeOK, CauseInv, NEW w \in Workers, Post(w)
  PROVE  CauseInv'
<1>1. worker[w] \in Claims /\ worker[w].event \in Events
  BY BusyHolds DEF Post
<1>2. PICK answer \in Answers :
        /\ Receives(worker[w].event, worker[w].payload, answer)
        /\ worker' = [worker EXCEPT ![w] = [worker[w] EXCEPT !.pc = "answered", !.answer = answer]]
  BY DEF Post
<1>3. row' = row /\ configured' = configured /\ DestinationOf[worker[w].event] \in configured
  BY DEF Post
<1>4. worker[w].payload # 0
  BY DEF Post, CauseInv, AppliedInv
<1>5. /\ \A e \in Events : received[e] # 0 => received'[e] # 0
      /\ answer \in {"ok", "duplicate"} => received'[worker[w].event] # 0
  <2>1. received \in [Events -> 0..MaxVersion]
    BY DEF TypeOK
  <2>2. Receives(worker[w].event, worker[w].payload, answer)
    BY <1>2
  <2> QED BY <1>1, <1>4, <2>1, <2>2 DEF Receives
<1>6. /\ worker'[w].event = worker[w].event /\ worker'[w].payload = worker[w].payload
      /\ worker'[w].answer = answer
      /\ \A v \in Workers : v # w => worker'[v] = worker[v]
  BY <1>1, <1>2 DEF TypeOK, Claims
<1>7. \A v \in Workers : worker[v].pc # "idle" => worker[v].event \in Events
  BY BusyHolds
<1>8. AppliedInv'
  <2>1. CompletedWasApplied'
    BY <1>3, <1>5 DEF CauseInv, AppliedInv, CompletedWasApplied
  <2>2. ASSUME NEW v \in Workers, worker'[v].pc # "idle"
        PROVE  /\ worker'[v].payload # 0
               /\ row[worker'[v].event].status # "Absent"
               /\ worker'[v].answer \in {"ok", "duplicate"} => received'[worker'[v].event] # 0
    <3>1. CASE v = w
      BY <1>4, <1>5, <1>6, <3>1 DEF CauseInv, AppliedInv, Post
    <3>2. CASE v # w
      BY <1>5, <1>6, <1>7, <2>2, <3>2 DEF CauseInv, AppliedInv
    <3> QED BY <3>1, <3>2
  <2> QED BY <1>3, <2>1, <2>2 DEF CauseInv, AppliedInv
<1>9. AskedInv'
  BY <1>3, <1>6 DEF CauseInv, AskedInv, UnconfiguredStaysQueued
<1> QED BY <1>8, <1>9 DEF CauseInv

\* A worker that lets go of a row it closes only with cause.
LEMMA ReleaseCause ==
  ASSUME TypeOK, CauseInv, NEW w \in Workers, worker[w].pc # "idle", Release(w),
         UNCHANGED <<configured, received>>,
         row'[worker[w].event].payload = row[worker[w].event].payload,
         row'[worker[w].event].status # "Absent",
         row'[worker[w].event].status = "Completed" => received[worker[w].event] # 0,
         row'[worker[w].event].status \in Closed =>
           DestinationOf[worker[w].event] \in configured,
         \A f \in Events : f # worker[w].event => row'[f] = row[f]
  PROVE  CauseInv'
<1> DEFINE e == worker[w].event
<1>1. e \in Events /\ row[e].payload # 0
  BY BusyHolds DEF CauseInv, AppliedInv
<1>2. \A v \in Workers : worker'[v].pc # "idle" =>
        worker'[v] = worker[v] /\ worker[v].event \in Events
  BY BusyHolds DEF Release, TypeOK, Idle
<1>3. CompletedWasApplied' /\ UnconfiguredStaysQueued'
  BY <1>1 DEF CauseInv, AppliedInv, AskedInv, CompletedWasApplied,
              UnconfiguredStaysQueued, Closed
<1>4. \A f \in Events : /\ row'[f].payload = row[f].payload
                        /\ row'[f].status # "Absent" => row'[f].payload # 0
                        /\ row[f].status # "Absent" => row'[f].status # "Absent"
  BY <1>1 DEF CauseInv, AppliedInv
<1> QED BY <1>2, <1>3, <1>4 DEF CauseInv, AppliedInv, AskedInv

LEMMA SkipCause ==
  ASSUME TypeOK, CauseInv, NEW w \in Workers, SkipUnconfigured(w)
  PROVE  CauseInv'
<1>1. worker[w].pc # "idle" /\ Release(w) /\ UNCHANGED <<configured, received>>
  BY DEF SkipUnconfigured
<1> QED BY <1>1, SkipRows, ReleaseCause DEF Closed

LEMMA RecordCause ==
  ASSUME TypeOK, CauseInv, NEW w \in Workers, Record(w)
  PROVE  CauseInv'
<1> DEFINE e == worker[w].event
           outcome == Outcome(worker[w].answer, worker[w].attempts + 1)
<1>1. worker[w].pc = "answered" /\ Release(w) /\ UNCHANGED <<configured, received>>
  BY DEF Record
<1>2. outcome = "Completed" => received[e] # 0
  BY <1>1 DEF Outcome, CauseInv, AppliedInv
<1>3. DestinationOf[e] \in configured
  BY <1>1 DEF CauseInv, AskedInv
<1>4. outcome # "Absent"
  BY OutcomeType
<1>5. /\ row'[e].status = outcome
      /\ row'[e].payload = row[e].payload
      /\ \A f \in Events : f # e => row'[f] = row[f]
  BY RecordRows
<1> HIDE DEF outcome
<1> QED BY <1>1, <1>2, <1>3, <1>4, <1>5, ReleaseCause

LEMMA AbandonCause ==
  ASSUME TypeOK, CauseInv, NEW w \in Workers, Abandon(w)
  PROVE  CauseInv'
<1>1. UNCHANGED <<row, configured, received>>
  BY DEF Abandon, business, history
<1>2. \A v \in Workers : worker'[v].pc # "idle" => worker'[v] = worker[v]
  BY DEF Abandon, Release, TypeOK, Idle
<1> QED BY <1>1, <1>2
  DEF CauseInv, AppliedInv, AskedInv, CompletedWasApplied, UnconfiguredStaysQueued

LEMMA CauseInvariant == Spec => []CauseInv
<1>1. Init => CauseInv
  <2> SUFFICES ASSUME Init
               PROVE  CauseInv
    OBVIOUS
  <2>1. \A e \in Events : row[e].status = "Absent"
    BY DEF Init, Absent
  <2>2. \A w \in Workers : worker[w].pc = "idle"
    BY DEF Init, Idle
  <2> QED BY <2>1, <2>2 DEF CauseInv, AppliedInv, AskedInv, CompletedWasApplied,
                            UnconfiguredStaysQueued
<1>2. TypeOK /\ CauseInv /\ [Next]_vars => CauseInv'
  <2> SUFFICES ASSUME TypeOK, CauseInv, [Next]_vars
               PROVE  CauseInv'
    OBVIOUS
  <2>1. ASSUME NEW d \in Destinations, Configure(d)
        PROVE  CauseInv'
    BY <2>1 DEF Configure, CauseInv, AppliedInv, AskedInv, CompletedWasApplied,
                UnconfiguredStaysQueued
  <2>2. CASE UNCHANGED vars
    BY <2>2 DEF vars, CauseInv, AppliedInv, AskedInv, CompletedWasApplied,
                UnconfiguredStaysQueued
  <2> QED BY <2>1, <2>2, OutsideCause, ClaimCause, SkipCause, PostCause, RecordCause,
             AbandonCause DEF Next, Deliver
<1> QED BY <1>1, <1>2, TypeCorrect, PTL DEF Spec

(***************************************************************************)
(* Whatever workers, crashes and owners do, and even when a worker outlives *)
(* its claim, an event is Completed only if its receiver applied it.       *)
(***************************************************************************)
THEOREM AppliedBeforeCompleted == Spec => []CompletedWasApplied
<1>1. CauseInv => CompletedWasApplied
  BY DEF CauseInv, AppliedInv
<1> QED BY <1>1, CauseInvariant, PTL

(***************************************************************************)
(* An event whose destination has no URL is neither completed nor buried,  *)
(* however often workers meet it.                                          *)
(***************************************************************************)
THEOREM QueuedUntilConfigured == Spec => []UnconfiguredStaysQueued
<1>1. CauseInv => UnconfiguredStaysQueued
  BY DEF CauseInv, AskedInv
<1> QED BY <1>1, CauseInvariant, PTL

-----------------------------------------------------------------------------
(* Dead letters.                                                           *)

LEMMA OwnerCounts ==
  ASSUME TypeOK, NEW e \in Events, Owner(e)
  PROVE  interventions'[e] > interventions[e]
<1>1. interventions' = [interventions EXCEPT ![e] = interventions[e] + 1]
  BY DEF Owner, RetryEvent, RecoverStaleEvent, Intervene
<1>2. interventions \in [Events -> 0..MaxInterventions]
  BY DEF TypeOK
<1> QED BY <1>1, <1>2

(***************************************************************************)
(* While workers do not outlive their claims, only the owner's retry takes *)
(* an event out of the dead letters.                                       *)
(***************************************************************************)
THEOREM DeadLettersStay ==
  ASSUME ~LateWorkers
  PROVE  Spec => DeadLetterNeedsOwner
<1>1. ClaimInv /\ [Next]_vars =>
        [\A e \in Events :
           row[e].status = "Dead Letter" /\ row'[e].status # "Dead Letter" =>
             interventions'[e] > interventions[e]]_vars
  <2> SUFFICES ASSUME ClaimInv, Next, NEW f \in Events,
                      row[f].status = "Dead Letter", row'[f].status # "Dead Letter"
               PROVE  interventions'[f] > interventions[f]
    OBVIOUS
  <2>1. TypeOK
    BY DEF ClaimInv
  <2> DEFINE same == SameButName(row[f], row'[f])
             renewed == Renewed(row[f], row'[f])
  <2>0. ~same /\ ~renewed
    BY DEF SameButName, Renewed, Waiting
  <2> HIDE DEF same, renewed
  <2>2. ASSUME NEW e \in Events, Producer(e) \/ Clock(e)
        PROVE  FALSE
    <3>1. same \/ renewed
      BY <2>1, <2>2, ProducerRows, ClockRows DEF same, renewed
    <3> QED BY <2>0, <3>1
  <2>3. ASSUME NEW e \in Events, Owner(e)
        PROVE  interventions'[f] > interventions[f]
    <3>1. same \/ f = e
      BY <2>1, <2>3, OwnerRows, ZenonT(60) DEF same
    <3>2. f = e
      BY <2>0, <3>1
    <3> QED BY <2>1, <2>3, <3>2, OwnerCounts
  <2>4. ASSUME NEW w \in Workers, Claim(w)
        PROVE  FALSE
    BY <2>1, <2>4, ClaimRows DEF SameButName, Waiting
  <2>5. ASSUME NEW w \in Workers, SkipUnconfigured(w) \/ Record(w)
        PROVE  FALSE
    <3>1. worker[w].event # f
      BY <2>5 DEF ClaimInv, ExclusiveClaim, SkipUnconfigured, Record
    <3>2. row'[f] = row[f]
      BY <2>1, <2>5, <3>1, SkipRows, RecordRows
    <3> QED BY <3>2
  <2>6. ASSUME NEW w \in Workers, Post(w) \/ Abandon(w)
        PROVE  FALSE
    BY <2>6 DEF Post, Abandon
  <2>7. ASSUME NEW d \in Destinations, Configure(d)
        PROVE  FALSE
    BY <2>7 DEF Configure
  <2> QED BY <2>2, <2>3, <2>4, <2>5, <2>6, <2>7 DEF Next, Deliver
<1> QED BY <1>1, ClaimInvariant, PTL DEF Spec, DeadLetterNeedsOwner

-----------------------------------------------------------------------------
(* The budget of posts.                                                    *)

\* A post of the event may come without the owner stepping in before it.
Postable(e) ==
  \/ row[e].status \in Waiting \cup {"Absent"}
  \/ \E w \in Workers : worker[w].pc = "claimed" /\ worker[w].event = e

\* Each post is paid for by an attempt, an intervention or the one claim that
\* has not been recorded; while another may come, one is left in the budget.
WithinBudget(e) ==
  /\ posts[e] <= MaxAttempts + interventions[e]
  /\ posts[e] <= row[e].attempts + 1 + interventions[e]
  /\ Postable(e) => /\ posts[e] < MaxAttempts + interventions[e]
                    /\ posts[e] <= row[e].attempts + interventions[e]

BudgetInv == \A e \in Events : WithinBudget(e)

LEMMA BudgetKept ==
  ASSUME NEW f \in Events, WithinBudget(f),
         row'[f].attempts = row[f].attempts, Postable(f)' => Postable(f),
         posts' = posts, interventions'[f] = interventions[f]
  PROVE  WithinBudget(f)'
BY DEF WithinBudget

LEMMA BudgetTypes ==
  ASSUME TypeOK, NEW f \in Events
  PROVE  /\ posts[f] \in Nat /\ interventions[f] \in Nat /\ row[f].attempts \in Nat
         /\ row[f] \in Rows /\ row[f].status \in Statuses
BY DEF TypeOK, Rows

LEMMA OwnerBudget ==
  ASSUME TypeOK, BudgetInv, NEW e \in Events, Owner(e), NEW f \in Events
  PROVE  WithinBudget(f)'
<1>1. /\ posts' = posts /\ worker' = worker
      /\ interventions' = [interventions EXCEPT ![e] = interventions[e] + 1]
  BY DEF Owner, RetryEvent, RecoverStaleEvent, Intervene
<1>2. interventions'[f] = IF f = e THEN interventions[f] + 1 ELSE interventions[f]
  BY <1>1 DEF TypeOK
<1>3. row'[f].attempts = row[f].attempts
  BY OwnerRows DEF SameButName
<1>4. CASE f = e
  <2>1. posts[f] \in Nat /\ interventions[f] \in Nat /\ row[f].attempts \in Nat
    BY BudgetTypes
  <2>2. /\ posts[f] <= MaxAttempts + interventions[f]
        /\ posts[f] <= row[f].attempts + 1 + interventions[f]
    BY DEF BudgetInv, WithinBudget
  <2> QED BY <1>1, <1>2, <1>3, <1>4, <2>1, <2>2 DEF WithinBudget
<1>5. CASE f # e
  <2>1. Postable(f)' => Postable(f)
    BY <1>1, <1>5, OwnerRows DEF Postable, SameButName, Waiting
  <2> QED BY <1>1, <1>2, <1>3, <1>5, <2>1, BudgetKept DEF BudgetInv
<1> QED BY <1>4, <1>5

LEMMA OutsideBudget ==
  ASSUME TypeOK, BudgetInv, NEW e \in Events, Producer(e) \/ Clock(e), NEW f \in Events
  PROVE  WithinBudget(f)'
<1>1. UNCHANGED <<worker, posts, interventions>>
  BY DEF Producer, EnqueueInTransaction, CommitBusiness, EnqueueAfterCommit, LoseEnqueue,
         Clock, BackoffElapses, ClaimAges, history
<1>2. row'[f].attempts = row[f].attempts
  BY ProducerRows, ClockRows DEF SameButName, Renewed
<1>3. Postable(f)' => Postable(f)
  BY <1>1, ProducerRows, ClockRows DEF Postable, SameButName, Renewed
<1> QED BY <1>1, <1>2, <1>3, BudgetKept DEF BudgetInv

LEMMA ClaimBudget ==
  ASSUME TypeOK, BudgetInv, NEW w \in Workers, Claim(w), NEW f \in Events
  PROVE  WithinBudget(f)'
<1>1. PICK e \in Events :
        /\ row[e].status \in Waiting /\ row'[e].status = "Processing"
        /\ row'[e].attempts = row[e].attempts
        /\ worker' = [worker EXCEPT ![w] =
             [pc |-> "claimed", event |-> e, attempts |-> row[e].attempts,
              payload |-> row[e].payload, answer |-> "none"]]
        /\ \A g \in Events : g # e => SameButName(row[g], row'[g])
  BY ClaimRows
<1>2. UNCHANGED <<posts, interventions>>
  BY DEF Claim, history
<1>3. row'[f].attempts = row[f].attempts
  BY <1>1 DEF SameButName
<1>4. Postable(f)' => Postable(f)
  <2>1. CASE f = e
    BY <1>1, <2>1 DEF Postable
  <2>2. CASE f # e
    <3>1. \A v \in Workers : worker'[v].event = f => worker'[v] = worker[v]
      BY <1>1, <2>2 DEF TypeOK
    <3>2. row'[f].status \in Waiting \cup {"Absent"} => row[f].status \in Waiting \cup {"Absent"}
      BY <1>1, <2>2 DEF SameButName
    <3> QED BY <3>1, <3>2 DEF Postable
  <2> QED BY <2>1, <2>2
<1> QED BY <1>2, <1>3, <1>4, BudgetKept DEF BudgetInv

LEMMA PostBudget ==
  ASSUME ClaimInv, BudgetInv, NEW w \in Workers, Post(w), NEW f \in Events
  PROVE  WithinBudget(f)'
<1> DEFINE e == worker[w].event
<1>1. TypeOK /\ worker[w] \in Claims /\ e \in Events
  BY BusyHolds DEF Post, ClaimInv
<1>2. PICK answer \in Answers : worker' = [worker EXCEPT ![w] =
        [worker[w] EXCEPT !.pc = "answered", !.answer = answer]]
  BY DEF Post
<1>3. /\ worker[w].pc = "claimed" /\ row' = row /\ interventions' = interventions
      /\ posts' = [posts EXCEPT ![e] = posts[e] + 1]
  BY DEF Post
<1>4. /\ worker'[w].pc = "answered"
      /\ \A v \in Workers : v # w => worker'[v] = worker[v]
  BY <1>1, <1>2 DEF TypeOK, Claims
<1>5. posts'[f] = IF f = e THEN posts[f] + 1 ELSE posts[f]
  BY <1>1, <1>3 DEF TypeOK
<1>6. posts[f] \in Nat /\ interventions[f] \in Nat /\ row[f].attempts \in Nat
  BY <1>1, BudgetTypes
<1>7. CASE f = e
  <2>1. row[f].status = "Processing"
    BY <1>3, <1>7 DEF ClaimInv, ExclusiveClaim
  <2>2. \A v \in Workers : worker'[v].pc = "claimed" => worker'[v].event # f
    BY <1>3, <1>4, <1>7 DEF ClaimInv, ExclusiveClaim
  <2>3. ~Postable(f)'
    BY <1>3, <2>1, <2>2 DEF Postable, Waiting
  <2>4. /\ posts[f] < MaxAttempts + interventions[f]
        /\ posts[f] <= row[f].attempts + interventions[f]
    BY <1>3, <1>7 DEF BudgetInv, WithinBudget, Postable
  <2> QED BY <1>3, <1>5, <1>6, <1>7, <2>3, <2>4 DEF WithinBudget
<1>8. CASE f # e
  <2>1. Postable(f)' => Postable(f)
    BY <1>3, <1>4 DEF Postable
  <2>2. WithinBudget(f)
    BY DEF BudgetInv
  <2> QED BY <1>3, <1>5, <1>8, <2>1, <2>2 DEF WithinBudget
<1> QED BY <1>7, <1>8

\* The end of a delivery, with the attempt counted.
LEMMA ReleaseBudget ==
  ASSUME ClaimInv, BudgetInv, NEW w \in Workers, NEW f \in Events,
         worker[w].pc # "idle", Release(w), UNCHANGED history,
         row'[worker[w].event].attempts = worker[w].attempts + 1,
         row'[worker[w].event].status \in Waiting \cup {"Absent"} =>
           \/ worker[w].pc = "claimed"
           \/ worker[w].attempts + 1 < MaxAttempts,
         \A g \in Events : g # worker[w].event => row'[g] = row[g]
  PROVE  WithinBudget(f)'
<1> DEFINE e == worker[w].event
<1>1. TypeOK /\ e \in Events /\ worker[w].attempts = row[e].attempts
  BY BusyHolds DEF ClaimInv, ClaimSnapshotFresh
<1>2. \A v \in Workers : worker'[v].pc # "idle" =>
        worker'[v] = worker[v] /\ worker[v].event # e
  BY <1>1 DEF Release, TypeOK, Idle, ClaimInv, ExclusiveClaim
<1>3. posts' = posts /\ interventions' = interventions
  BY DEF history
<1>4. posts[f] \in Nat /\ interventions[f] \in Nat /\ row[f].attempts \in Nat
  BY <1>1, BudgetTypes
<1>5. CASE f = e
  <2>1. /\ posts[f] <= MaxAttempts + interventions[f]
        /\ posts[f] <= row[f].attempts + 1 + interventions[f]
        /\ worker[w].pc = "claimed" => posts[f] < MaxAttempts + interventions[f]
    BY <1>5 DEF BudgetInv, WithinBudget, Postable
  <2>2. row'[f].attempts = row[f].attempts + 1
    BY <1>1, <1>5
  <2>3. Postable(f)' => worker[w].pc = "claimed" \/ row[f].attempts + 1 < MaxAttempts
    BY <1>1, <1>2, <1>5 DEF Postable
  <2> QED BY <1>3, <1>4, <2>1, <2>2, <2>3 DEF WithinBudget
<1>6. CASE f # e
  <2>1. Postable(f)' => Postable(f)
    BY <1>2, <1>6 DEF Postable
  <2> QED BY <1>3, <1>6, <2>1, BudgetKept DEF BudgetInv
<1> QED BY <1>5, <1>6

LEMMA RecordBudget ==
  ASSUME ClaimInv, BudgetInv, NEW w \in Workers, Record(w), NEW f \in Events
  PROVE  WithinBudget(f)'
<1> DEFINE e == worker[w].event
           attempt == worker[w].attempts + 1
           outcome == Outcome(worker[w].answer, attempt)
<1>1. TypeOK /\ worker[w].pc # "idle" /\ Release(w) /\ UNCHANGED history
  BY DEF ClaimInv, Record
<1>2. /\ row'[e].status = outcome /\ row'[e].attempts = attempt
      /\ \A g \in Events : g # e => row'[g] = row[g]
  BY <1>1, RecordRows
<1>3. attempt \in Nat
  BY <1>1, BusyHolds DEF Claims
<1>4. outcome \in Waiting \cup {"Absent"} => attempt < MaxAttempts
  <2> HIDE DEF attempt
  <2> QED BY <1>3 DEF Outcome, Waiting
<1> HIDE DEF outcome
<1> QED BY <1>1, <1>2, <1>4, ReleaseBudget

LEMMA SkipBudget ==
  ASSUME ClaimInv, BudgetInv, NEW w \in Workers, SkipUnconfigured(w), NEW f \in Events
  PROVE  WithinBudget(f)'
<1>1. TypeOK /\ worker[w].pc = "claimed" /\ Release(w) /\ UNCHANGED history
  BY DEF ClaimInv, SkipUnconfigured
<1> QED BY <1>1, SkipRows, ReleaseBudget

LEMMA BudgetInvariant ==
  ASSUME ~LateWorkers
  PROVE  Spec => []BudgetInv
<1>1. Init => BudgetInv
  <2> SUFFICES ASSUME Init, NEW e \in Events
               PROVE  WithinBudget(e)
    BY DEF BudgetInv
  <2>1. posts[e] = 0 /\ interventions[e] = 0 /\ row[e].attempts = 0
    BY DEF Init, Absent
  <2> QED BY <2>1 DEF WithinBudget
<1>2. ClaimInv /\ BudgetInv /\ [Next]_vars => BudgetInv'
  <2> SUFFICES ASSUME ClaimInv, BudgetInv, [Next]_vars, NEW f \in Events
               PROVE  WithinBudget(f)'
    BY DEF BudgetInv
  <2>1. TypeOK
    BY DEF ClaimInv
  <2>2. ASSUME NEW w \in Workers, Abandon(w)
        PROVE  WithinBudget(f)'
    <3>1. UNCHANGED <<row, posts, interventions>>
      BY <2>2 DEF Abandon, history
    <3>2. \A v \in Workers : worker'[v].pc # "idle" => worker'[v] = worker[v]
      BY <2>1, <2>2 DEF Abandon, Release, TypeOK, Idle
    <3>3. Postable(f)' => Postable(f)
      BY <3>1, <3>2 DEF Postable
    <3> QED BY <3>1, <3>3, BudgetKept DEF BudgetInv
  <2>3. ASSUME NEW d \in Destinations, Configure(d)
        PROVE  WithinBudget(f)'
    BY <2>3, BudgetKept DEF Configure, history, BudgetInv, Postable
  <2>4. CASE UNCHANGED vars
    BY <2>4, BudgetKept DEF vars, BudgetInv, Postable
  <2> QED BY <2>1, <2>2, <2>3, <2>4, OwnerBudget, OutsideBudget, ClaimBudget, PostBudget,
             RecordBudget, SkipBudget DEF Next, Deliver
<1> QED BY <1>1, <1>2, ClaimInvariant, PTL DEF Spec

(***************************************************************************)
(* While workers do not outlive their claims, an event is posted at most   *)
(* max_attempts times plus once per intervention of the owner.             *)
(***************************************************************************)
THEOREM PostsAreBounded ==
  ASSUME ~LateWorkers
  PROVE  Spec => []RetryBudget
<1>1. BudgetInv => RetryBudget
  BY DEF BudgetInv, WithinBudget, RetryBudget
<1> QED BY <1>1, BudgetInvariant, PTL

-----------------------------------------------------------------------------
(* The outbox implements EventDelivery.                                    *)

\* The abstract state, as the refinement mapping of IntegrationOutbox gives it.
phaseOf == [e \in Events |-> Phase(row[e].status)]
contentOf == [e \in Events |-> row[e].payload]

LEMMA PhaseOfStatus ==
  ASSUME NEW s \in Statuses
  PROVE  /\ s = "Absent" => Phase(s) = "none"
         /\ s = "Completed" => Phase(s) = "delivered"
         /\ s = "Dead Letter" => Phase(s) = "dead"
         /\ s \in Waiting \cup {"Processing"} => Phase(s) = "queued"
BY DEF Statuses, Waiting, Phase

\* The abstract rows after a step that changed no more than one row.
LEMMA AbstractRow ==
  ASSUME row \in [Events -> Rows], row' \in [Events -> Rows], NEW e \in Events,
         \A f \in Events : f # e => /\ Phase(row'[f].status) = Phase(row[f].status)
                                   /\ row'[f].payload = row[f].payload
  PROVE  /\ phaseOf' = [phaseOf EXCEPT ![e] = Phase(row'[e].status)]
         /\ contentOf' = [contentOf EXCEPT ![e] = row'[e].payload]
         /\ phaseOf[e] = Phase(row[e].status) /\ contentOf[e] = row[e].payload
BY DEF phaseOf, contentOf

LEMMA AbstractStutter ==
  ASSUME row \in [Events -> Rows], row' \in [Events -> Rows], received' = received,
         \A f \in Events : /\ Phase(row'[f].status) = Phase(row[f].status)
                          /\ row'[f].payload = row[f].payload
  PROVE  UNCHANGED Delivery!vars
BY DEF Delivery!vars

\* A row that was only renamed is the same to the abstraction.
LEMMA RenamedStutters ==
  ASSUME NEW old \in Rows, NEW new \in Rows, SameButName(old, new)
  PROVE  Phase(new.status) = Phase(old.status) /\ new.payload = old.payload
<1>1. old.status \in Statuses /\ new.status \in Statuses
  BY DEF Rows
<1>2. CASE new.status = old.status
  BY <1>2 DEF SameButName
<1>3. CASE old.status \in Waiting /\ new.status \in Waiting
  <2>1. Phase(old.status) = "queued" /\ Phase(new.status) = "queued"
    BY <1>1, <1>3, PhaseOfStatus
  <2> QED BY <2>1 DEF SameButName
<1> QED BY <1>2, <1>3 DEF SameButName

LEMMA ProducerImplements ==
  ASSUME TypeOK, TypeOK', NEW e \in Events, Producer(e)
  PROVE  [Delivery!Next]_(Delivery!vars)
<1>1. row \in [Events -> Rows] /\ row' \in [Events -> Rows]
  BY DEF TypeOK
<1>2. received' = received
  BY DEF Producer, EnqueueInTransaction, CommitBusiness, EnqueueAfterCommit, LoseEnqueue
<1>3. \A f \in Events : f # e => /\ Phase(row'[f].status) = Phase(row[f].status)
                                 /\ row'[f].payload = row[f].payload
  BY <1>1, ProducerRows, RenamedStutters
<1>4. CASE SameButName(row[e], row'[e])
  BY <1>1, <1>2, <1>3, <1>4, RenamedStutters, AbstractStutter
<1>5. CASE Renewed(row[e], row'[e])
  <2>1. row[e].status \in Statuses /\ row'[e].status \in Statuses
    BY <1>1 DEF Rows
  <2>2. /\ Phase(row[e].status) \in {"none", "queued"}
        /\ Phase(row'[e].status) = "queued"
        /\ row'[e].payload \in 1..MaxVersion
    BY <1>5, <2>1, PhaseOfStatus DEF Renewed
  <2>3. /\ phaseOf' = [phaseOf EXCEPT ![e] = "queued"]
        /\ phaseOf[e] \in {"none", "queued"}
        /\ \E v \in 1..MaxVersion : contentOf' = [contentOf EXCEPT ![e] = v]
    BY <1>1, <1>3, <2>2, AbstractRow
  <2>4. Delivery!Queue(e) \/ Delivery!Amend(e)
    <3>1. CASE phaseOf[e] = "none"
      BY <1>2, <2>3, <3>1
      DEF Delivery!Queue, Delivery!Move, Delivery!Versions, phaseOf, contentOf
    <3>2. CASE phaseOf[e] = "queued"
      <4>1. phaseOf' = phaseOf
        BY <2>3, <3>2 DEF phaseOf
      <4> QED BY <1>2, <2>3, <3>2, <4>1
              DEF Delivery!Amend, Delivery!Versions, phaseOf, contentOf
    <3> QED BY <2>3, <3>1, <3>2
  <2> QED BY <2>4 DEF Delivery!Next
<1> QED BY <1>4, <1>5, ProducerRows

LEMMA ClaimImplements ==
  ASSUME TypeOK, TypeOK', NEW w \in Workers, Claim(w)
  PROVE  UNCHANGED Delivery!vars
<1>1. row \in [Events -> Rows] /\ row' \in [Events -> Rows] /\ received' = received
  BY DEF TypeOK, Claim
<1>2. PICK e \in Events :
        /\ row[e].status \in Waiting /\ row'[e].status = "Processing"
        /\ row'[e].payload = row[e].payload
        /\ \A f \in Events : f # e => SameButName(row[f], row'[f])
  BY ClaimRows
<1>3. Phase(row'[e].status) = Phase(row[e].status)
  <2>1. row[e].status \in Statuses /\ row'[e].status \in Statuses
    BY <1>1 DEF Rows
  <2> QED BY <1>2, <2>1, PhaseOfStatus
<1>4. \A f \in Events : f # e => /\ Phase(row'[f].status) = Phase(row[f].status)
                                 /\ row'[f].payload = row[f].payload
  BY <1>1, <1>2, RenamedStutters
<1> QED BY <1>1, <1>2, <1>3, <1>4, AbstractStutter

LEMMA PostImplements ==
  ASSUME TypeOK', ClaimInv, NEW w \in Workers, Post(w)
  PROVE  [Delivery!Next]_(Delivery!vars)
<1> DEFINE e == worker[w].event
<1>1. e \in Events /\ row \in [Events -> Rows] /\ row' = row
  BY BusyHolds DEF Post, ClaimInv, TypeOK
<1>2. worker[w].payload = row[e].payload /\ row[e].status = "Processing"
  BY DEF Post, ClaimInv, ExclusiveClaim, ClaimSnapshotFresh
<1>3. \/ received' = received
      \/ received[e] = 0 /\ received' = [received EXCEPT ![e] = row[e].payload]
  BY <1>2 DEF Post, Receives
<1> HIDE DEF e
<1>4. CASE received' = received
  BY <1>1, <1>4, AbstractStutter
<1>5. CASE received[e] = 0 /\ received' = [received EXCEPT ![e] = row[e].payload]
  <2>1. phaseOf[e] = "queued" /\ contentOf[e] = row[e].payload
    <3>1. "Processing" \in Statuses
      BY DEF Statuses
    <3> QED BY <1>1, <1>2, <3>1, PhaseOfStatus DEF phaseOf, contentOf
  <2>2. phaseOf' = phaseOf /\ contentOf' = contentOf
    BY <1>1 DEF phaseOf, contentOf
  <2>3. Delivery!Receive(e)
    BY <1>5, <2>1, <2>2 DEF Delivery!Receive, phaseOf, contentOf
  <2> QED BY <1>1, <2>3 DEF Delivery!Next
<1> QED BY <1>3, <1>4, <1>5

LEMMA SkipImplements ==
  ASSUME TypeOK', ClaimInv, NEW w \in Workers, SkipUnconfigured(w)
  PROVE  UNCHANGED Delivery!vars
<1> DEFINE e == worker[w].event
<1>1. row \in [Events -> Rows] /\ row' \in [Events -> Rows] /\ received' = received
  BY DEF TypeOK, ClaimInv, SkipUnconfigured
<1>2. /\ e \in Events /\ row'[e].status = "Retry" /\ row'[e].payload = row[e].payload
      /\ \A f \in Events : f # e => row'[f] = row[f]
  BY SkipRows DEF ClaimInv
<1>3. row[e].status = "Processing"
  BY DEF SkipUnconfigured, ClaimInv, ExclusiveClaim
<1> HIDE DEF e
<1>4. Phase(row'[e].status) = Phase(row[e].status)
  <2>1. row[e].status \in Statuses /\ row'[e].status \in Statuses
    BY <1>1, <1>2 DEF Rows
  <2> QED BY <1>2, <1>3, <2>1, PhaseOfStatus DEF Waiting
<1> QED BY <1>1, <1>2, <1>4, AbstractStutter

LEMMA RecordImplements ==
  ASSUME TypeOK', ClaimInv, CauseInv, NEW w \in Workers, Record(w)
  PROVE  [Delivery!Next]_(Delivery!vars)
<1> DEFINE e == worker[w].event
           outcome == Outcome(worker[w].answer, worker[w].attempts + 1)
<1>1. row \in [Events -> Rows] /\ row' \in [Events -> Rows] /\ received' = received
  BY DEF TypeOK, ClaimInv, Record
<1>2. /\ e \in Events /\ row'[e].status = outcome /\ row'[e].payload = row[e].payload
      /\ \A f \in Events : f # e => row'[f] = row[f]
  BY RecordRows DEF ClaimInv
<1>3. row[e].status = "Processing"
  BY DEF Record, ClaimInv, ExclusiveClaim
<1>4. outcome \in {"Completed", "Dead Letter", "Retry"}
  BY OutcomeType
<1>5. outcome = "Completed" => received[e] # 0
  BY DEF Record, Outcome, CauseInv, AppliedInv
<1> HIDE DEF e, outcome
<1>6. /\ phaseOf' = [phaseOf EXCEPT ![e] = Phase(row'[e].status)]
      /\ contentOf' = [contentOf EXCEPT ![e] = row'[e].payload]
      /\ phaseOf[e] = Phase(row[e].status) /\ contentOf[e] = row[e].payload
  BY <1>1, <1>2, AbstractRow
<1>7. contentOf' = contentOf
  BY <1>2, <1>6 DEF contentOf
<1>8. /\ row[e].status \in Statuses /\ row'[e].status \in Statuses
      /\ phaseOf[e] = "queued"
  <2>1. row[e].status \in Statuses /\ row'[e].status \in Statuses
    BY <1>1, <1>2 DEF Rows
  <2> QED BY <1>3, <1>6, <2>1, PhaseOfStatus
<1>9. CASE outcome = "Completed"
  <2>1. phaseOf' = [phaseOf EXCEPT ![e] = "delivered"]
    BY <1>2, <1>6, <1>8, <1>9, PhaseOfStatus
  <2>2. Delivery!Settle(e)
    BY <1>1, <1>5, <1>7, <1>8, <1>9, <2>1
    DEF Delivery!Settle, Delivery!Move, phaseOf, contentOf
  <2> QED BY <1>2, <2>2 DEF Delivery!Next
<1>10. CASE outcome = "Dead Letter"
  <2>1. phaseOf' = [phaseOf EXCEPT ![e] = "dead"]
    BY <1>2, <1>6, <1>8, <1>10, PhaseOfStatus
  <2>2. Delivery!Bury(e)
    BY <1>1, <1>7, <1>8, <2>1 DEF Delivery!Bury, Delivery!Move, phaseOf, contentOf
  <2> QED BY <1>2, <2>2 DEF Delivery!Next
<1>11. CASE outcome = "Retry"
  <2>1. Phase(row'[e].status) = Phase(row[e].status)
    BY <1>2, <1>6, <1>8, <1>11, PhaseOfStatus DEF Waiting
  <2> QED BY <1>1, <1>2, <2>1, AbstractStutter
<1> QED BY <1>4, <1>9, <1>10, <1>11

LEMMA OwnerImplements ==
  ASSUME TypeOK, TypeOK', NEW e \in Events, Owner(e)
  PROVE  [Delivery!Next]_(Delivery!vars)
<1>1. row \in [Events -> Rows] /\ row' \in [Events -> Rows] /\ received' = received
  BY DEF TypeOK, Owner, RetryEvent, RecoverStaleEvent
<1>2. \A f \in Events : f # e => /\ Phase(row'[f].status) = Phase(row[f].status)
                                 /\ row'[f].payload = row[f].payload
  <2> SUFFICES ASSUME NEW f \in Events, f # e
               PROVE  /\ Phase(row'[f].status) = Phase(row[f].status)
                      /\ row'[f].payload = row[f].payload
    OBVIOUS
  <2>1. SameButName(row[f], row'[f])
    BY OwnerRows DEF SameButName
  <2>2. row[f] \in Rows /\ row'[f] \in Rows
    BY <1>1
  <2> QED BY <2>1, <2>2, RenamedStutters
<1>3. row[e].status \in Statuses /\ row'[e].status \in Statuses
  BY <1>1 DEF Rows
<1>4. CASE SameButName(row[e], row'[e])
  BY <1>1, <1>2, <1>4, RenamedStutters, AbstractStutter
<1>5. CASE row[e].status = "Processing" /\ row'[e].status = "Retry"
           /\ row'[e].payload = row[e].payload
  <2>1. Phase(row'[e].status) = Phase(row[e].status)
    BY <1>3, <1>5, PhaseOfStatus DEF Waiting
  <2> QED BY <1>1, <1>2, <1>5, <2>1, AbstractStutter
<1>6. CASE row[e].status = "Dead Letter" /\ row'[e].status = "Retry"
           /\ row'[e].payload = row[e].payload
  <2>1. Phase(row[e].status) = "dead" /\ Phase(row'[e].status) = "queued"
    BY <1>3, <1>6, PhaseOfStatus DEF Waiting
  <2>2. /\ phaseOf' = [phaseOf EXCEPT ![e] = "queued"] /\ phaseOf[e] = "dead"
        /\ contentOf' = [contentOf EXCEPT ![e] = contentOf[e]]
    BY <1>1, <1>2, <1>6, <2>1, AbstractRow
  <2>3. contentOf' = contentOf
    BY <2>2 DEF contentOf
  <2>4. Delivery!Revive(e)
    BY <1>1, <2>2, <2>3 DEF Delivery!Revive, Delivery!Move, phaseOf, contentOf
  <2> QED BY <2>4 DEF Delivery!Next
<1> QED BY <1>4, <1>5, <1>6, OwnerRows

LEMMA ClockImplements ==
  ASSUME TypeOK, TypeOK', NEW e \in Events, Clock(e)
  PROVE  UNCHANGED Delivery!vars
<1>1. row \in [Events -> Rows] /\ row' \in [Events -> Rows] /\ received' = received
  BY DEF TypeOK, Clock, BackoffElapses, ClaimAges
<1>2. \A f \in Events : /\ Phase(row'[f].status) = Phase(row[f].status)
                        /\ row'[f].payload = row[f].payload
  BY <1>1, ClockRows, RenamedStutters
<1> QED BY <1>1, <1>2, AbstractStutter

(***************************************************************************)
(* While workers do not outlive their claims, the outbox implements        *)
(* EventDelivery: every step of a producer, worker or owner is a step of   *)
(* the abstract delivery or none at all.                                   *)
(***************************************************************************)
THEOREM OutboxImplementsDelivery ==
  ASSUME ~LateWorkers
  PROVE  Spec => ImplementsDelivery
<1>1. Init => Delivery!Init
  <2> SUFFICES ASSUME Init
               PROVE  Delivery!Init
    OBVIOUS
  <2>1. \A e \in Events : Phase(row[e].status) = "none" /\ row[e].payload = 0
    <3>1. "Absent" \in Statuses
      BY DEF Statuses
    <3> QED BY <3>1, PhaseOfStatus DEF Init, Absent
  <2> QED BY <2>1 DEF Init, Delivery!Init
<1>2. TypeOK' /\ ClaimInv /\ CauseInv /\ [Next]_vars => [Delivery!Next]_(Delivery!vars)
  <2> SUFFICES ASSUME TypeOK', ClaimInv, CauseInv, [Next]_vars
               PROVE  [Delivery!Next]_(Delivery!vars)
    OBVIOUS
  <2>1. TypeOK
    BY DEF ClaimInv
  <2>2. ASSUME UNCHANGED <<row, received>>
        PROVE  UNCHANGED Delivery!vars
    BY <2>1, <2>2, AbstractStutter DEF TypeOK
  <2>3. ASSUME NEW w \in Workers, Abandon(w)
        PROVE  UNCHANGED Delivery!vars
    BY <2>2, <2>3 DEF Abandon, history
  <2>4. ASSUME NEW d \in Destinations, Configure(d)
        PROVE  UNCHANGED Delivery!vars
    BY <2>2, <2>4 DEF Configure, history
  <2>5. CASE UNCHANGED vars
    BY <2>2, <2>5 DEF vars
  <2> QED BY <2>1, <2>3, <2>4, <2>5, ProducerImplements, OwnerImplements, ClockImplements,
             ClaimImplements, SkipImplements, PostImplements, RecordImplements
          DEF Next, Deliver
<1> QED BY <1>1, <1>2, TypeCorrect, ClaimInvariant, CauseInvariant, PTL
        DEF Spec, ImplementsDelivery, Delivery!Spec
=============================================================================
