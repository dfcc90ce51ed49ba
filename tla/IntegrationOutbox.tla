-------------------------- MODULE IntegrationOutbox --------------------------
(***************************************************************************)
(* The durable SQLite outbox that carries employee and financial events to *)
(* the other applications: core/integration_outbox.py with the legacy      *)
(* adapter core/integration_compat.py, the delivery loop of                *)
(* core/operations_v2_adapter.py and scripts/run_integration_worker.py,    *)
(* and the owner's endpoints in api/integrations.py.                       *)
(*                                                                         *)
(* An event is a key (destination, external_source, external_id); its row  *)
(* is one record of the table.  Each transaction the code commits is one   *)
(* step, the HTTP request of a worker is a step of its own, and a worker   *)
(* may vanish between any two steps.  Clock readings are abstracted to two *)
(* facts about a row: "due" (next_attempt_at is NULL or past) and "stale"  *)
(* (locked_at is more than 15 minutes old).                                *)
(***************************************************************************)
EXTENDS Naturals

CONSTANTS
  Events,            \* the unique keys of the outbox
  Transactional,     \* the events enqueued inside their business transaction
  Destinations,      \* accounting, operations, pos, inventory
  DestinationOf,     \* the destination of each event
  Workers,           \* threads that run process_due_events
  NoEvent,           \* what an idle worker holds
  MaxVersion,        \* bound: commits of the business record behind one event
  MaxAttempts,       \* max_attempts of a row
  AttemptCap,        \* bound: attempts a missing destination may use up
  MaxInterventions,  \* bound: owner retries and recoveries of one event
  LateWorkers        \* whether a worker may outlive the 15 minutes of its claim

ASSUME EventsAssumption == NoEvent \notin Events /\ Transactional \subseteq Events
ASSUME DestinationAssumption == DestinationOf \in [Events -> Destinations]
ASSUME BoundsAssumption ==
  /\ MaxVersion \in Nat \ {0}
  /\ MaxAttempts \in Nat \ {0}
  /\ AttemptCap \in Nat
  /\ MaxInterventions \in Nat
  /\ LateWorkers \in BOOLEAN

VARIABLES
  row,            \* the outbox row of each event
  lastId,         \* AUTOINCREMENT of the table
  worker,         \* what each worker has in its local variables
  configured,     \* destinations with a URL in the environment
  committed,      \* the committed version of the business record of each event
  producing,      \* the version a legacy producer has yet to enqueue, 0 for none
  received,       \* the version each receiver applied, 0 for none
  posts,          \* history: HTTP requests sent for each event
  interventions   \* history: owner retries and recoveries of each event

vars == <<row, lastId, worker, configured, committed, producing, received,
          posts, interventions>>

business == <<committed, producing>>
history == <<posts, interventions>>

Waiting == {"Ready", "Pending", "Retry"}
Statuses == Waiting \cup {"Absent", "Processing", "Completed", "Dead Letter"}
Answers == {"ok", "duplicate", "conflict", "rejected", "unavailable", "failed"}

Absent == [id |-> 0, status |-> "Absent", attempts |-> 0, payload |-> 0,
           due |-> FALSE, stale |-> FALSE]
Idle == [pc |-> "idle", event |-> NoEvent, attempts |-> 0, payload |-> 0,
         answer |-> "none"]

Rows == [id : Nat, status : Statuses, attempts : Nat, payload : 0..MaxVersion,
         due : BOOLEAN, stale : BOOLEAN]
Claims == [pc : {"claimed", "answered"}, event : Events, attempts : Nat,
           payload : 0..MaxVersion, answer : Answers \cup {"none"}]

(***************************************************************************)
(* Type invariant: rows, claims and counters stay in the shapes above; in  *)
(* particular no legacy status name survives a write of the worker.        *)
(***************************************************************************)
TypeOK ==
  /\ row \in [Events -> Rows]
  /\ lastId \in Nat
  /\ worker \in [Workers -> Claims \cup {Idle}]
  /\ configured \subseteq Destinations
  /\ committed \in [Events -> 0..MaxVersion]
  /\ producing \in [Events -> 0..MaxVersion]
  /\ received \in [Events -> 0..MaxVersion]
  /\ posts \in [Events -> Nat]
  /\ interventions \in [Events -> 0..MaxInterventions]

Init ==
  /\ row = [e \in Events |-> Absent]
  /\ lastId = 0
  /\ worker = [w \in Workers |-> Idle]
  /\ configured \in SUBSET Destinations
  /\ committed = [e \in Events |-> 0]
  /\ producing = [e \in Events |-> 0]
  /\ received = [e \in Events |-> 0]
  /\ posts = [e \in Events |-> 0]
  /\ interventions = [e \in Events |-> 0]

-----------------------------------------------------------------------------
(* The rows after one statement.                                           *)

Normalise_Nothing(rows) == rows

\* ensure_integration_schema and the claim adapter rename legacy statuses.
Normalise(rows) ==
  [e \in Events |->
    IF rows[e].status = "Ready" THEN [rows[e] EXCEPT !.status = "Pending"] ELSE rows[e]]

Protected_NotCompleted == {"Processing", "Dead Letter"}
Protected_NotProcessing == {"Completed", "Dead Letter"}

\* What the upsert of enqueue_event leaves alone.
Protected == {"Completed", "Processing", "Dead Letter"}

\* INSERT ... ON CONFLICT DO UPDATE: attempt_count survives an update.
Enqueued(r, version) ==
  CASE r.status = "Absent" ->
         [r EXCEPT !.id = lastId + 1, !.status = "Pending", !.payload = version, !.due = TRUE]
    [] r.status \in Protected -> r
    [] OTHER -> [r EXCEPT !.status = "Pending", !.payload = version, !.due = TRUE]

Upsert(rows, e, version) == [rows EXCEPT ![e] = Enqueued(@, version)]

\* The legacy adapter then releases the row to manual delivery.
MarkReady(rows, e) ==
  [rows EXCEPT ![e].status = IF @ \in Waiting THEN "Ready" ELSE @]

AllocateId(e) ==
  lastId' = IF row[e].status = "Absent" THEN lastId + 1 ELSE lastId

-----------------------------------------------------------------------------
(* Producers.                                                              *)

\* Release and manual repayment of a cash advance: BEGIN IMMEDIATE, the
\* business write, enqueue_event(schema_ready=True), one COMMIT.  Both
\* endpoints are idempotent, so such an event is produced once.
EnqueueInTransaction(e) ==
  /\ e \in Transactional
  /\ committed[e] = 0
  /\ committed' = [committed EXCEPT ![e] = 1]
  /\ row' = Upsert(Normalise(row), e, 1)
  /\ AllocateId(e)
  /\ UNCHANGED <<worker, configured, producing, received, history>>

\* Payroll approval and payment: ensure_integration_schema commits the
\* caller's business write before the event exists.
CommitBusiness(e) ==
  /\ e \notin Transactional
  /\ producing[e] = 0
  /\ committed[e] < MaxVersion
  /\ committed' = [committed EXCEPT ![e] = @ + 1]
  /\ producing' = [producing EXCEPT ![e] = committed[e] + 1]
  /\ row' = Normalise(row)
  /\ UNCHANGED <<lastId, worker, configured, received, history>>

\* The upsert and the Ready marker of the adapter, in a second transaction.
EnqueueAfterCommit(e) ==
  /\ producing[e] # 0
  /\ row' = MarkReady(Upsert(row, e, producing[e]), e)
  /\ AllocateId(e)
  /\ producing' = [producing EXCEPT ![e] = 0]
  /\ UNCHANGED <<worker, configured, committed, received, history>>

\* The process stops in between, or the enqueue raises and is only audited.
LoseEnqueue(e) ==
  /\ producing[e] # 0
  /\ producing' = [producing EXCEPT ![e] = 0]
  /\ UNCHANGED <<row, lastId, worker, configured, committed, received, history>>

-----------------------------------------------------------------------------
(* Workers.                                                                *)

ClaimableEvenIfTaken(rows, e) ==
  rows[e].status \in {"Pending", "Retry", "Processing"} /\ rows[e].due

Claimable(rows, e) == rows[e].status \in {"Pending", "Retry"} /\ rows[e].due

\* claim_events(limit=1): the due row with the lowest id, and the worker's
\* snapshot of it.
Claim(w) ==
  LET rows == Normalise(row) IN
  /\ worker[w].pc = "idle"
  /\ \E e \in Events :
       /\ Claimable(rows, e)
       /\ \A f \in Events : Claimable(rows, f) => rows[e].id <= rows[f].id
       /\ row' = [rows EXCEPT ![e] = [@ EXCEPT !.status = "Processing", !.stale = FALSE]]
       /\ worker' = [worker EXCEPT ![w] =
            [pc |-> "claimed", event |-> e, attempts |-> rows[e].attempts,
             payload |-> rows[e].payload, answer |-> "none"]]
  /\ UNCHANGED <<lastId, configured, business, received, history>>

Release(w) == worker' = [worker EXCEPT ![w] = Idle]

\* No URL for the destination: the row waits another hour, whatever its
\* attempt_count, and is never buried.
SkipUnconfigured(w) ==
  LET job == worker[w] IN
  /\ job.pc = "claimed"
  /\ DestinationOf[job.event] \notin configured
  /\ job.attempts < AttemptCap
  /\ row' = [row EXCEPT ![job.event] =
               [@ EXCEPT !.status = "Retry", !.attempts = job.attempts + 1,
                         !.due = FALSE, !.stale = FALSE]]
  /\ Release(w)
  /\ UNCHANGED <<lastId, configured, business, received, history>>

\* The receiver (another application): it applies a key once, may answer or
\* fail before or after applying it, and may refuse it.
Receives(e, payload, answer) ==
  \/ /\ received[e] = 0
     /\ answer \in {"ok", "unavailable", "failed"}
     /\ received' = [received EXCEPT ![e] = payload]
  \/ /\ received[e] # 0
     /\ answer \in {"ok", "duplicate"}
     /\ UNCHANGED received
  \/ /\ answer \in {"conflict", "rejected", "unavailable", "failed"}
     /\ UNCHANGED received

\* The HTTP request and whatever comes back of it.
Post(w) ==
  LET job == worker[w] IN
  /\ job.pc = "claimed"
  /\ DestinationOf[job.event] \in configured
  /\ \E answer \in Answers :
       /\ Receives(job.event, job.payload, answer)
       /\ worker' = [worker EXCEPT ![w] = [@ EXCEPT !.pc = "answered", !.answer = answer]]
  /\ posts' = [posts EXCEPT ![job.event] = @ + 1]
  /\ UNCHANGED <<row, lastId, configured, business, interventions>>

Outcome_AnyConflict(answer, attempt) ==
  IF answer \in {"ok", "duplicate", "conflict"} THEN "Completed"
  ELSE IF answer = "rejected" \/ attempt >= MaxAttempts THEN "Dead Letter"
  ELSE "Retry"

Outcome_OneMore(answer, attempt) ==
  IF answer \in {"ok", "duplicate"} THEN "Completed"
  ELSE IF answer \in {"conflict", "rejected"} \/ attempt > MaxAttempts THEN "Dead Letter"
  ELSE "Retry"

Outcome_Legacy(answer, attempt) ==
  IF answer \in {"ok", "duplicate"} THEN "Sent" ELSE "Error"

\* 2xx or an acknowledged duplicate completes; 5xx, 408, 425, 429 and
\* exceptions are retried until max_attempts; every other answer is final.
Outcome(answer, attempt) ==
  IF answer \in {"ok", "duplicate"} THEN "Completed"
  ELSE IF answer \in {"conflict", "rejected"} \/ attempt >= MaxAttempts THEN "Dead Letter"
  ELSE "Retry"

\* The worker's last UPDATE, by id alone: it checks neither status nor
\* locked_by, and counts from the snapshot it claimed.
Record(w) ==
  LET job == worker[w]
      attempt == job.attempts + 1
      status == Outcome(job.answer, attempt) IN
  /\ job.pc = "answered"
  /\ row' = [row EXCEPT ![job.event] =
               [@ EXCEPT !.status = status, !.attempts = attempt,
                         !.due = (status # "Retry"), !.stale = FALSE]]
  /\ Release(w)
  /\ UNCHANGED <<lastId, configured, business, received, history>>

\* The worker stops, or an exception it does not catch ends the pass: the
\* row stays Processing.
Abandon(w) ==
  /\ worker[w].pc # "idle"
  /\ Release(w)
  /\ UNCHANGED <<row, lastId, configured, business, received, history>>

-----------------------------------------------------------------------------
(* Time, deployment and the owner.                                         *)

Held(e) == \E w \in Workers : worker[w].event = e
Abandoned(e) == row[e].status = "Processing" /\ ~Held(e)

BackoffElapses(e) ==
  /\ row[e].status = "Retry"
  /\ ~row[e].due
  /\ row' = [row EXCEPT ![e] = [@ EXCEPT !.due = TRUE]]
  /\ UNCHANGED <<lastId, worker, configured, business, received, history>>

\* Fifteen minutes pass since the claim.  A request has a socket timeout of
\* 20 seconds, so a worker normally is done or gone by then.
ClaimAges(e) ==
  /\ row[e].status = "Processing"
  /\ ~row[e].stale
  /\ LateWorkers \/ ~Held(e)
  /\ row' = [row EXCEPT ![e] = [@ EXCEPT !.stale = TRUE]]
  /\ UNCHANGED <<lastId, worker, configured, business, received, history>>

Configure(d) ==
  /\ d \notin configured
  /\ configured' = configured \cup {d}
  /\ UNCHANGED <<row, lastId, worker, business, received, history>>

Intervene(e) ==
  /\ interventions[e] < MaxInterventions
  /\ interventions' = [interventions EXCEPT ![e] = @ + 1]

\* POST /events/{id}/retry: attempt_count is not reset.
RetryEvent(e) ==
  /\ row[e].status \notin {"Absent", "Completed", "Processing"}
  /\ row' = [Normalise(row) EXCEPT ![e] = [@ EXCEPT !.status = "Retry", !.due = TRUE]]
  /\ Intervene(e)
  /\ UNCHANGED <<lastId, worker, configured, business, received, posts>>

RecoverStaleEvent_AnyAge(e) ==
  /\ row[e].status = "Processing"
  /\ row' = [Normalise(row) EXCEPT ![e] =
               [@ EXCEPT !.status = "Retry", !.due = TRUE, !.stale = FALSE]]
  /\ Intervene(e)
  /\ UNCHANGED <<lastId, worker, configured, business, received, posts>>

\* POST /events/{id}/recover-stale.
RecoverStaleEvent(e) ==
  /\ row[e].status = "Processing"
  /\ row[e].stale
  /\ row' = [Normalise(row) EXCEPT ![e] =
               [@ EXCEPT !.status = "Retry", !.due = TRUE, !.stale = FALSE]]
  /\ Intervene(e)
  /\ UNCHANGED <<lastId, worker, configured, business, received, posts>>

-----------------------------------------------------------------------------
Producer(e) ==
  \/ EnqueueInTransaction(e)
  \/ CommitBusiness(e)
  \/ EnqueueAfterCommit(e)
  \/ LoseEnqueue(e)

Deliver(w) == Claim(w) \/ SkipUnconfigured(w) \/ Post(w) \/ Record(w)

Owner(e) == RetryEvent(e) \/ RecoverStaleEvent(e)

Clock(e) == BackoffElapses(e) \/ ClaimAges(e)

Next ==
  \/ \E e \in Events : Producer(e) \/ Owner(e) \/ Clock(e)
  \/ \E w \in Workers : Deliver(w) \/ Abandon(w)
  \/ \E d \in Destinations : Configure(d)

Spec == Init /\ [][Next]_vars

\* The worker service polls every few seconds and never stops for good
\* (systemd restarts it), and time passes.  Nothing is assumed of owners.
Fairness ==
  /\ \A w \in Workers : WF_vars(Deliver(w))
  /\ \A e \in Events : WF_vars(BackoffElapses(e))

FairSpec == Spec /\ Fairness

-----------------------------------------------------------------------------
(* Safety.                                                                 *)

(***************************************************************************)
(* A worker between its claim and its last UPDATE is the only one with     *)
(* that event, and the row is Processing: two workers never deliver the    *)
(* same event at the same time (claim_events under BEGIN IMMEDIATE, and    *)
(* recovery only of claims whose worker is gone).                          *)
(***************************************************************************)
ExclusiveClaim ==
  \A w \in Workers : worker[w].pc # "idle" =>
    /\ row[worker[w].event].status = "Processing"
    /\ \A v \in Workers : worker[v].event = worker[w].event => v = w

(***************************************************************************)
(* While a worker holds an event, the row still is what the worker read:   *)
(* neither its payload nor its attempt_count moved under the snapshot the  *)
(* last UPDATE is computed from.                                           *)
(***************************************************************************)
ClaimSnapshotFresh ==
  \A w \in Workers : worker[w].pc # "idle" =>
    /\ worker[w].payload = row[worker[w].event].payload
    /\ worker[w].attempts = row[worker[w].event].attempts

(***************************************************************************)
(* An event is marked Completed only if its receiver applied it: no answer *)
(* that proves nothing counts as a delivery.                               *)
(***************************************************************************)
CompletedWasApplied ==
  \A e \in Events : row[e].status = "Completed" => received[e] # 0

(***************************************************************************)
(* Without the owner an event is posted at most max_attempts times; each   *)
(* retry or recovery of the owner buys at most one more post beyond that,  *)
(* crashes and stale claims included.                                      *)
(***************************************************************************)
RetryBudget ==
  \A e \in Events : posts[e] <= MaxAttempts + interventions[e]

(***************************************************************************)
(* "Unconfigured destinations remain queued as Retry; events are not       *)
(* discarded": until its destination has a URL an event is neither         *)
(* completed nor buried, however often the worker meets it.                *)
(***************************************************************************)
UnconfiguredStaysQueued ==
  \A e \in Events :
    DestinationOf[e] \notin configured =>
      row[e].status \notin {"Completed", "Dead Letter"}

(***************************************************************************)
(* "Completed events are immutable": no producer, worker or owner changes  *)
(* a Completed row.                                                        *)
(***************************************************************************)
CompletedImmutable ==
  [][\A e \in Events : row[e].status = "Completed" => row'[e] = row[e]]_vars

(***************************************************************************)
(* A dead letter stays dead until the owner retries it: a producer that    *)
(* enqueues the same key again does not start deliveries behind the back   *)
(* of whoever has to review it.                                            *)
(***************************************************************************)
DeadLetterNeedsOwner ==
  [][\A e \in Events :
       row[e].status = "Dead Letter" /\ row'[e].status # "Dead Letter" =>
         interventions'[e] > interventions[e]]_vars

(***************************************************************************)
(* The outbox implements EventDelivery.                                    *)
(***************************************************************************)
Phase(status) ==
  CASE status = "Absent" -> "none"
    [] status = "Completed" -> "delivered"
    [] status = "Dead Letter" -> "dead"
    [] OTHER -> "queued"

Delivery == INSTANCE EventDelivery WITH
  phase <- [e \in Events |-> Phase(row[e].status)],
  content <- [e \in Events |-> row[e].payload]

ImplementsDelivery == Delivery!Spec

-----------------------------------------------------------------------------
(* Liveness.                                                               *)

(***************************************************************************)
(* A waiting event is not forgotten: it is eventually completed or buried, *)
(* or its worker vanished with it and only the owner can free it, or its   *)
(* destination has no URL.                                                 *)
(***************************************************************************)
WaitingIsSettled ==
  \A e \in Events :
    row[e].status \in Waiting ~>
      \/ row[e].status \in {"Completed", "Dead Letter"}
      \/ Abandoned(e)
      \/ DestinationOf[e] \notin configured
=============================================================================
