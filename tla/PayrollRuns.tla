----------------------------- MODULE PayrollRuns -----------------------------
(***************************************************************************)
(* The life of a payroll run: drafts, owner review, approval, payment and  *)
(* controlled revisions (api/payroll_drafts.py, payroll_service.py,        *)
(* payroll_return.py, payroll_recalculate.py, payroll_mark_paid.py,        *)
(* payroll_revision_workflow.py, payroll_adjustments_aggregate.py and      *)
(* core/payroll_engine.py, core/payroll_revision_lifecycle.py).            *)
(*                                                                         *)
(* A handler first reads the run and decides, outside any transaction, and *)
(* then writes: its SELECTs are autocommitted, its first UPDATE opens the  *)
(* transaction.  So each request is two steps, Ask... (the reads and the   *)
(* checks) and the write, and other requests may commit in between.  A     *)
(* process that stops loses what it has not committed.                     *)
(*                                                                         *)
(* The contents of a run are two version numbers: "calc", the computation  *)
(* its totals come from, and "manual", the saved adjustments they include. *)
(***************************************************************************)
EXTENDS Naturals

CONSTANTS
  MaxRuns,    \* bound: rows ever inserted into payroll_runs
  Periods,    \* payroll cutoffs; distinct cutoffs do not overlap
  Clerks,     \* requests in progress; one clerk means requests never overlap
  MaxEdits    \* bound: recalculations, and adjustment saves, of one run

ASSUME BoundsAssumption == MaxRuns \in Nat /\ MaxEdits \in Nat

VARIABLES
  run,        \* the rows of payroll_runs with the contents of their items
  saved,      \* the version of each run's payroll_item_adjustments, 0 for none
  clerk,      \* what each request has read
  signed,     \* history: the contents each approval committed
  announced   \* the statuses each run has been put into the outbox with

vars == <<run, saved, clerk, signed, announced>>

Runs == 1..MaxRuns
NoRun == 0

Statuses == {"Absent", "Draft", "For Owner Review", "Approved", "Paid", "Deleted"}
Treatments == {"none", "replace_unpaid", "adjust_paid"}
Operations == {"create", "submit", "approve", "reopen", "recalculate", "adjust",
               "delete", "revise", "pay", "post", "announce"}

Contents == [calc : 0..MaxEdits, manual : 0..MaxEdits]
Records == [status : Statuses, period : Periods, paid : BOOLEAN, parent : {NoRun} \cup Runs,
            treatment : Treatments, successor : {NoRun} \cup Runs, items : Contents]
Empty == [calc |-> 0, manual |-> 0]
Absent == [status |-> "Absent", period |-> CHOOSE p \in Periods : TRUE, paid |-> FALSE,
           parent |-> NoRun, treatment |-> "none", successor |-> NoRun, items |-> Empty]

Idle == [op |-> "idle", run |-> NoRun, period |-> Absent.period, treatment |-> "none",
         items |-> Empty, version |-> 0]
Jobs == [op : Operations, run : {NoRun} \cup Runs, period : Periods,
         treatment : Treatments, items : Contents, version : 0..MaxEdits]

(***************************************************************************)
(* Type invariant: rows, requests and histories keep the shapes above.     *)
(***************************************************************************)
TypeOK ==
  /\ run \in [Runs -> Records]
  /\ saved \in [Runs -> 0..MaxEdits]
  /\ clerk \in [Clerks -> Jobs \cup {Idle}]
  /\ signed \in [Runs -> Contents]
  /\ announced \in [Runs -> SUBSET Statuses]

Init ==
  /\ run = [r \in Runs |-> Absent]
  /\ saved = [r \in Runs |-> 0]
  /\ clerk = [c \in Clerks |-> Idle]
  /\ signed = [r \in Runs |-> Empty]
  /\ announced = [r \in Runs |-> {}]

-----------------------------------------------------------------------------
(* What the handlers ask of a row.                                         *)

Exists(r) == run[r].status \notin {"Absent", "Deleted"}
Current(r) == run[r].successor = NoRun
PaidLike(r) == run[r].paid \/ run[r].status = "Paid"
IsDifference(r) == run[r].treatment = "adjust_paid"
Live == {r \in Runs : Exists(r)}

\* _active_overlap: no run that is not superseded covers the period.
Uncovered(period) == \A r \in Live : Current(r) => run[r].period # period

Unrevised(r) == \A s \in Live : run[s].parent # r

\* mark_payroll_run_paid and revision_parent_for_payment.
Payable(r) ==
  LET p == run[r].parent IN
  /\ run[r].status = "Approved" /\ ~run[r].paid /\ Current(r)
  /\ \/ p = NoRun
     \/ /\ p # NoRun /\ Exists(p)
        /\ CASE run[r].treatment = "replace_unpaid" ->
                  ~PaidLike(p) /\ run[p].successor = r
             [] OTHER -> PaidLike(p) /\ run[p].successor \in {NoRun, r}

-----------------------------------------------------------------------------
(* Requests.                                                               *)

Doing(c, op) == clerk[c].op = op
Become(c, op) == clerk' = [clerk EXCEPT ![c] = [@ EXCEPT !.op = op]]
Done(c) == clerk' = [clerk EXCEPT ![c] = Idle]

\* A request begins: what it has read stays with it.
Begin(c, job) ==
  /\ Doing(c, "idle")
  /\ clerk' = [clerk EXCEPT ![c] = job]
  /\ UNCHANGED <<run, saved, signed, announced>>

Ask(c, op, r) == Begin(c, [Idle EXCEPT !.op = op, !.run = r])

AskEdit(c, op, r) ==
  Begin(c, [Idle EXCEPT !.op = op, !.run = r, !.items = run[r].items, !.version = saved[r]])

\* An UPDATE by id, which a deleted row ignores.
Update(r, new) == run' = IF Exists(r) THEN [run EXCEPT ![r] = new] ELSE run

Fresh(n) == run[n].status = "Absent" /\ \A m \in Runs : m < n => run[m].status # "Absent"

Insert(rows, n, period, parent, treatment, manual) ==
  [rows EXCEPT ![n] =
     [Absent EXCEPT !.status = "Draft", !.period = period, !.parent = parent,
                    !.treatment = treatment, !.items = [Empty EXCEPT !.manual = manual]]]

AskCreate(c, period) ==
  Uncovered(period) /\ Begin(c, [Idle EXCEPT !.op = "create", !.period = period])

\* The run, its computed items and their snapshots, in one transaction.
Create(c) ==
  /\ Doing(c, "create")
  /\ \E n \in Runs :
       /\ Fresh(n)
       /\ run' = Insert(run, n, clerk[c].period, NoRun, "none", 0)
  /\ Done(c)
  /\ UNCHANGED <<saved, signed, announced>>

AskSubmit(c, r) == run[r].status = "Draft" /\ Current(r) /\ Ask(c, "submit", r)

Submit(c) ==
  LET r == clerk[c].run IN
  /\ Doing(c, "submit")
  /\ Update(r, [run[r] EXCEPT !.status = "For Owner Review"])
  /\ Done(c)
  /\ UNCHANGED <<saved, signed, announced>>

AskApprove(c, r) == run[r].status = "For Owner Review" /\ Current(r) /\ Ask(c, "approve", r)

\* The event's enqueue commits the approval before it inserts the event.
Approve(c) ==
  LET r == clerk[c].run IN
  /\ Doing(c, "approve")
  /\ Update(r, [run[r] EXCEPT !.status = "Approved"])
  /\ signed' = [signed EXCEPT ![r] = IF Exists(r) THEN run[r].items ELSE @]
  /\ Become(c, "announce")
  /\ UNCHANGED <<saved, announced>>

\* enqueue_payroll_run: the event is named after the status it then reads.
Announce(c) ==
  LET r == clerk[c].run IN
  /\ Doing(c, "announce")
  /\ announced' = [announced EXCEPT ![r] = IF Exists(r) THEN @ \cup {run[r].status} ELSE @]
  /\ Done(c)
  /\ UNCHANGED <<run, saved, signed>>

AskReopen(c, r) ==
  run[r].status \in {"For Owner Review", "Approved"} /\ Current(r) /\ Ask(c, "reopen", r)

Reopen_ClearsPayment(c) ==
  LET r == clerk[c].run IN
  /\ Doing(c, "reopen")
  /\ Update(r, [run[r] EXCEPT !.status = "Draft", !.paid = FALSE])
  /\ Done(c)
  /\ UNCHANGED <<saved, signed, announced>>

\* The approval is cleared, paid_at is not.
Reopen(c) ==
  LET r == clerk[c].run IN
  /\ Doing(c, "reopen")
  /\ Update(r, [run[r] EXCEPT !.status = "Draft"])
  /\ Done(c)
  /\ UNCHANGED <<saved, signed, announced>>

AskRecalculate_AnyStatus(c, r) ==
  Exists(r) /\ ~IsDifference(r) /\ run[r].items.calc < MaxEdits /\ AskEdit(c, "recalculate", r)

AskRecalculate(c, r) ==
  /\ run[r].status = "Draft" /\ ~IsDifference(r)
  /\ run[r].items.calc < MaxEdits
  /\ AskEdit(c, "recalculate", r)

Recalculate_ForgetsManual(c) ==
  LET r == clerk[c].run
      items == [calc |-> clerk[c].items.calc + 1, manual |-> 0] IN
  /\ Doing(c, "recalculate")
  /\ Update(r, [run[r] EXCEPT !.items = items])
  /\ Done(c)
  /\ UNCHANGED <<saved, signed, announced>>

\* Items computed anew with the adjustments read before; neither the status
\* nor the adjustments are looked at again.
Recalculate(c) ==
  LET r == clerk[c].run
      items == [calc |-> clerk[c].items.calc + 1, manual |-> clerk[c].version] IN
  /\ Doing(c, "recalculate")
  /\ Update(r, [run[r] EXCEPT !.items = items])
  /\ Done(c)
  /\ UNCHANGED <<saved, signed, announced>>

AskAdjust(c, r) ==
  /\ run[r].status = "Draft" /\ ~IsDifference(r)
  /\ saved[r] < MaxEdits
  /\ AskEdit(c, "adjust", r)

\* save_adjustments: totals rebuilt from the item read before, guarded by the
\* version of the adjustment (and not by the status of the run).
Adjust(c) ==
  LET r == clerk[c].run
      version == clerk[c].version + 1 IN
  /\ Doing(c, "adjust")
  /\ IF saved[r] = clerk[c].version
       THEN /\ saved' = [saved EXCEPT ![r] = version]
            /\ Update(r, [run[r] EXCEPT !.items = [clerk[c].items EXCEPT !.manual = version]])
       ELSE UNCHANGED <<run, saved>>
  /\ Done(c)
  /\ UNCHANGED <<signed, announced>>

AskDelete(c, r) == run[r].status = "Draft" /\ Ask(c, "delete", r)

StillDraft_Unchecked(r) == Exists(r)
StillDraft(r) == run[r].status = "Draft"

Delete_KeepsSuccessors(c) ==
  LET r == clerk[c].run IN
  /\ Doing(c, "delete")
  /\ IF StillDraft(r)
       THEN /\ run' = [run EXCEPT ![r].status = "Deleted"]
            /\ saved' = [saved EXCEPT ![r] = 0]
       ELSE UNCHANGED <<run, saved>>
  /\ Done(c)
  /\ UNCHANGED <<signed, announced>>

\* The DELETE is guarded by the status; whatever the draft superseded is
\* current again, whoever superseded the draft.
Delete(c) ==
  LET r == clerk[c].run IN
  /\ Doing(c, "delete")
  /\ IF StillDraft(r)
       THEN /\ run' = [s \in Runs |->
                 CASE s = r -> [run[s] EXCEPT !.status = "Deleted"]
                   [] s # r /\ run[s].successor = r -> [run[s] EXCEPT !.successor = NoRun]
                   [] OTHER -> run[s]]
            /\ saved' = [saved EXCEPT ![r] = 0]
       ELSE UNCHANGED <<run, saved>>
  /\ Done(c)
  /\ UNCHANGED <<signed, announced>>

AskRevise(c, r, treatment) ==
  /\ Exists(r)
  /\ treatment = IF PaidLike(r) THEN "adjust_paid" ELSE "replace_unpaid"
  /\ Unrevised(r)
  /\ Begin(c, [Idle EXCEPT !.op = "revise", !.run = r, !.period = run[r].period,
                           !.treatment = treatment])

\* carry_forward_manual_values: the copy starts a history of its own.
Carried(r) == IF saved[r] = 0 THEN 0 ELSE 1

\* A new Draft that carries the saved adjustments over; an unpaid original is
\* superseded at once.
Revise(c) ==
  LET r == clerk[c].run IN
  /\ Doing(c, "revise")
  /\ \E n \in Runs :
       /\ Fresh(n)
       /\ LET rows == Insert(run, n, clerk[c].period, r, clerk[c].treatment, Carried(r)) IN
          run' = IF clerk[c].treatment = "replace_unpaid" /\ Exists(r)
                   THEN [rows EXCEPT ![r].successor = n]
                   ELSE rows
       /\ saved' = [saved EXCEPT ![n] = Carried(r)]
  /\ Done(c)
  /\ UNCHANGED <<signed, announced>>

AskPay(c, r) == Payable(r) /\ Ask(c, "pay", r)

\* For a paid adjustment the original is superseded first, and the schema
\* check of the cash-advance ledger commits that on its own.
SupersedeOriginal(c) ==
  LET r == clerk[c].run IN
  /\ Doing(c, "pay")
  /\ IsDifference(r)
  /\ Update(run[r].parent, [run[run[r].parent] EXCEPT !.successor = r])
  /\ Become(c, "post")
  /\ UNCHANGED <<saved, signed, announced>>

Pay_KeepsOriginal(c) ==
  LET r == clerk[c].run IN
  /\ Doing(c, "post") \/ Doing(c, "pay")
  /\ Update(r, [run[r] EXCEPT !.status = "Paid", !.paid = TRUE])
  /\ Become(c, "announce")
  /\ UNCHANGED <<saved, signed, announced>>

\* Repayments, status and accounting queue, committed by the enqueue that
\* follows.
Pay(c) ==
  LET r == clerk[c].run IN
  /\ Doing(c, "post") \/ (Doing(c, "pay") /\ ~IsDifference(r))
  /\ Update(r, [run[r] EXCEPT !.status = "Paid", !.paid = TRUE])
  /\ Become(c, "announce")
  /\ UNCHANGED <<saved, signed, announced>>

\* The process stops, or the request fails: what is not committed is lost.
Stop(c) ==
  /\ ~Doing(c, "idle")
  /\ Done(c)
  /\ UNCHANGED <<run, saved, signed, announced>>

-----------------------------------------------------------------------------
Ask_(c) ==
  \/ \E period \in Periods : AskCreate(c, period)
  \/ \E r \in Runs :
       \/ AskSubmit(c, r)
       \/ AskApprove(c, r)
       \/ AskReopen(c, r)
       \/ AskRecalculate(c, r)
       \/ AskAdjust(c, r)
       \/ AskDelete(c, r)
       \/ AskPay(c, r)
       \/ \E treatment \in Treatments : AskRevise(c, r, treatment)

Write(c) ==
  \/ Create(c)
  \/ Submit(c)
  \/ Approve(c)
  \/ Announce(c)
  \/ Reopen(c)
  \/ Recalculate(c)
  \/ Adjust(c)
  \/ Delete(c)
  \/ Revise(c)
  \/ SupersedeOriginal(c)
  \/ Pay(c)

Next == \E c \in Clerks : Ask_(c) \/ Write(c) \/ Stop(c)

Spec == Init /\ [][Next]_vars

-----------------------------------------------------------------------------
(* Properties.                                                             *)

(***************************************************************************)
(* What the owner approved is what is paid: from approval on, the items    *)
(* are the ones the approval committed.                                    *)
(***************************************************************************)
SignedIsKept ==
  \A r \in Runs : run[r].status \in {"Approved", "Paid"} => run[r].items = signed[r]

(***************************************************************************)
(* "Saved manual adjustments were preserved" (recalculate_draft): the      *)
(* items of a run include the adjustments saved last, after recalculation, *)
(* revision and deletion alike.                                            *)
(***************************************************************************)
ManualIsKept == \A r \in Live : run[r].items.manual = saved[r]

(***************************************************************************)
(* A superseded run points to a revision of it that still exists, so what  *)
(* was superseded is never "audit history only" in favour of nothing.      *)
(***************************************************************************)
SuccessorIsRevision ==
  \A r \in Live : ~Current(r) =>
    LET s == run[r].successor IN Exists(s) /\ run[s].parent = r

(***************************************************************************)
(* Ancestry of paid revisions (revision_parent_for_payment): a paid        *)
(* replacement's original was never paid, and a paid adjustment corrects a *)
(* run that was paid and that it supersedes.                               *)
(***************************************************************************)
RevisionAncestry ==
  \A r \in Live : PaidLike(r) /\ run[r].parent \in Live =>
    LET p == run[r].parent IN
    /\ run[r].treatment = "replace_unpaid" => ~PaidLike(p)
    /\ IsDifference(r) => PaidLike(p) /\ run[p].successor = r

(***************************************************************************)
(* A run that Accounting was told is paid carries its payment for as long  *)
(* as its row exists, and with it the guard against a second one: not even *)
(* a reopening that overlaps the payment clears it.                        *)
(***************************************************************************)
AnnouncedPaidIsPaid == \A r \in Live : "Paid" \in announced[r] => run[r].paid

(***************************************************************************)
(* "Draft changed while it was being deleted": a deletion never takes a    *)
(* run that was submitted or approved since it was asked for.              *)
(***************************************************************************)
OnlyDraftsVanish ==
  [][\A r \in Live : run'[r].status = "Deleted" => run[r].status = "Draft"]_vars
=============================================================================
