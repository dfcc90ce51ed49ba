---------------------------- MODULE CashAdvances ----------------------------
(***************************************************************************)
(* The cash-advance ledger of one employee and the payroll runs that       *)
(* deduct from it: api/cash_advances.py, api/cash_advance_service.py,      *)
(* api/cash_repayments.py, api/cash_advance_corrections.py,                *)
(* core/cash_advance_payroll.py, the deduction of a draft in               *)
(* api/payroll_drafts.py and core/payroll_engine.py, and its override in   *)
(* api/payroll_adjustments_aggregate.py.                                   *)
(*                                                                         *)
(* Two balances exist: the stored one (remaining_balance, always equal to  *)
(* outstanding_balance), which drafts deduct from, and the one             *)
(* calculate_balance derives from the repayments, which payment uses.      *)
(*                                                                         *)
(* A handler that reads before it opens its transaction is two steps:      *)
(* Load, everything it reads, at one instant, and the write that acts on   *)
(* it.  A handler under BEGIN IMMEDIATE is one step.  Advances are created *)
(* by the release workflow (release_confirmation_required = 1), are repaid *)
(* by payroll, and are dated and issued before the end of every cutoff;    *)
(* amounts are whole units.                                                *)
(***************************************************************************)
EXTENDS Naturals, FiniteSets, FiniteSetsExt

CONSTANTS
  Advances,        \* ids of the employee's advances, which are also their age
  Runs,            \* payroll runs, each of a cutoff of its own
  Clerks,          \* requests in progress
  MaxAmount,       \* bound: amount of an advance
  Installment,     \* deduction_per_payroll
  Capacity,        \* the pay of a cutoff that is left to deduct from
  MaxCorrections   \* bound: owner corrections of an amount

ASSUME AdvancesAssumption == Advances \subseteq Nat /\ IsFiniteSet(Advances)
ASSUME RunsAssumption == IsFiniteSet(Runs)
ASSUME AmountsAssumption ==
  /\ MaxAmount \in Nat \ {0}
  /\ Installment \in Nat
  /\ Capacity \in Nat
  /\ MaxCorrections \in Nat

VARIABLES
  advance,      \* the rows of cash_advances
  manual,       \* active repayments of source Manual of each advance
  posted,       \* active repayments of each payroll run, by advance
  run,          \* the payroll runs with the employee's item
  clerk,        \* what each request has read
  settled,      \* history: credit of each advance that was settled
  corrections,  \* history: owner corrections so far
  stale         \* history: some request wrote after what it had read changed

ledger == <<advance, manual, posted, run>>
vars == <<ledger, clerk, settled, corrections, stale>>

Amounts == 1..MaxAmount
Statuses == {"Absent", "Pending", "Active", "Released", "Partially Paid", "Fully Paid",
             "Rejected", "Cancelled"}
Rows == [status : Statuses, amount : Nat, opening : Nat, balance : Nat,
         approved : BOOLEAN, released : BOOLEAN, credit : Nat]
Items == [status : {"Absent", "Draft", "Approved", "Paid"}, deduction : 0..Capacity,
          paid : BOOLEAN, saved : BOOLEAN, cash : 0..Capacity]
Snapshots == [busy : {TRUE}, advance : [Advances -> Rows], paid : [Advances -> Nat],
              run : [Runs -> Items]]

NoAdvance == [status |-> "Absent", amount |-> 0, opening |-> 0, balance |-> 0,
              approved |-> FALSE, released |-> FALSE, credit |-> 0]
NoItem == [status |-> "Absent", deduction |-> 0, paid |-> FALSE, saved |-> FALSE, cash |-> 0]
Idle == [busy |-> FALSE]

(***************************************************************************)
(* Type invariant: rows, repayments and requests keep the shapes above.    *)
(***************************************************************************)
TypeOK ==
  /\ advance \in [Advances -> Rows]
  /\ manual \in [Advances -> Nat]
  /\ posted \in [Runs -> [Advances -> Nat]]
  /\ run \in [Runs -> Items]
  /\ clerk \in [Clerks -> Snapshots \cup {Idle}]
  /\ settled \in [Advances -> Nat]
  /\ corrections \in 0..MaxCorrections
  /\ stale \in BOOLEAN

Init ==
  /\ advance = [a \in Advances |-> NoAdvance]
  /\ manual = [a \in Advances |-> 0]
  /\ posted = [r \in Runs |-> [a \in Advances |-> 0]]
  /\ run = [r \in Runs |-> NoItem]
  /\ clerk = [c \in Clerks |-> Idle]
  /\ settled = [a \in Advances |-> 0]
  /\ corrections = 0
  /\ stale = FALSE

-----------------------------------------------------------------------------
(* Balances.                                                               *)

Least(m, n) == IF m <= n THEN m ELSE n
Less(m, n) == IF m <= n THEN 0 ELSE m - n

\* confirmed_new_repayments: manual ones and those of paid runs; a Credit
\* Offset is neither.
Paid(a) ==
  manual[a] + MapThenSumSet(LAMBDA r : posted[r][a], {r \in Runs : run[r].status = "Paid"})

\* calculate_balance.
Summary(row, paid) ==
  LET balance == Less(row.opening, paid)
      repaid == Less(row.amount, row.opening) + paid IN
  [balance |-> balance, repaid |-> repaid,
   status |-> CASE row.status = "Cancelled" -> "Cancelled"
                [] row.status # "Cancelled" /\ balance = 0 -> "Fully Paid"
                [] row.status # "Cancelled" /\ balance # 0 /\ repaid # 0 -> "Partially Paid"
                [] OTHER -> IF row.status \in {"Pending", "Rejected", "Released"}
                            THEN row.status ELSE "Active"]

Store(row, summary) == [row EXCEPT !.balance = summary.balance, !.status = summary.status]

\* recalculate_balance.
Recalculated(row, paid) == Store(row, Summary(row, paid))

Owed(a) == Summary(advance[a], Paid(a)).balance

-----------------------------------------------------------------------------
(* Requests.                                                               *)

Now == [busy |-> TRUE, advance |-> advance, paid |-> [a \in Advances |-> Paid(a)], run |-> run]

\* A request reads what it is about to act on.
Load(c) ==
  /\ ~clerk[c].busy
  /\ clerk' = [clerk EXCEPT ![c] = Now]
  /\ UNCHANGED <<ledger, settled, corrections, stale>>

\* It is refused, or its process stops before the commit.
Refuse(c) ==
  /\ clerk[c].busy
  /\ clerk' = [clerk EXCEPT ![c] = Idle]
  /\ UNCHANGED <<ledger, settled, corrections, stale>>

\* It commits.
Acts(c) ==
  /\ clerk[c].busy
  /\ clerk' = [clerk EXCEPT ![c] = Idle]
  /\ stale' = (stale \/ clerk[c] # Now)

Write_Unrefreshed(a, row) == advance' = [advance EXCEPT ![a] = row]

\* UPDATE by id, then recalculate_balance in the same transaction.
Write(a, row) == advance' = [advance EXCEPT ![a] = Recalculated(row, Paid(a))]

-----------------------------------------------------------------------------
(* The life of an advance.                                                 *)

Create(a, amount) ==
  /\ advance[a].status = "Absent"
  /\ \A b \in Advances : b < a => advance[b].status # "Absent"
  /\ Write(a, [NoAdvance EXCEPT !.status = "Pending", !.amount = amount, !.opening = amount])
  /\ UNCHANGED <<manual, posted, run, clerk, settled, corrections, stale>>

\* An ordinary edit rewrites the amount it has read.
Edit(c, a) ==
  /\ Acts(c)
  /\ clerk[c].advance[a].status # "Absent"
  /\ Write(a, [advance[a] EXCEPT !.amount = clerk[c].advance[a].amount])
  /\ UNCHANGED <<manual, posted, run, settled, corrections>>

Approve(c, a) ==
  /\ Acts(c)
  /\ clerk[c].advance[a].status \in {"Pending", "Rejected"}
  /\ Write(a, [advance[a] EXCEPT !.status = "Active", !.approved = TRUE])
  /\ UNCHANGED <<manual, posted, run, settled, corrections>>

Reject(c, a) ==
  /\ Acts(c)
  /\ clerk[c].advance[a].status = "Pending"
  /\ Write(a, [advance[a] EXCEPT !.status = "Rejected"])
  /\ UNCHANGED <<manual, posted, run, settled, corrections>>

Cancel_Issued(c, a) ==
  LET row == clerk[c].advance[a] IN
  /\ Acts(c)
  /\ row.status \in {"Pending", "Rejected", "Active", "Released"}
  /\ Summary(row, clerk[c].paid[a]).repaid = 0
  /\ Write(a, [advance[a] EXCEPT !.status = "Cancelled"])
  /\ UNCHANGED <<manual, posted, run, settled, corrections>>

Cancel(c, a) ==
  LET row == clerk[c].advance[a] IN
  /\ Acts(c)
  /\ row.status \in {"Pending", "Rejected", "Active", "Released"}
  /\ ~row.released
  /\ Summary(row, clerk[c].paid[a]).repaid = 0
  /\ Write(a, [advance[a] EXCEPT !.status = "Cancelled"])
  /\ UNCHANGED <<manual, posted, run, settled, corrections>>

\* confirm_cash_advance_release, under BEGIN IMMEDIATE.
Release(a) ==
  /\ advance[a].status \in {"Active", "Released"}
  /\ advance[a].approved
  /\ ~advance[a].released
  /\ Summary(advance[a], Paid(a)).repaid = 0
  /\ advance' = [advance EXCEPT ![a] = [@ EXCEPT !.status = "Released", !.released = TRUE]]
  /\ UNCHANGED <<manual, posted, run, clerk, settled, corrections, stale>>

ManualRepayment_StoredBalance(a, amount) ==
  /\ advance[a].released
  /\ advance[a].status # "Cancelled"
  /\ amount <= advance[a].balance
  /\ manual' = [manual EXCEPT ![a] = @ + amount]
  /\ advance' = [advance EXCEPT ![a] = Recalculated(@, Paid(a) + amount)]
  /\ UNCHANGED <<posted, run, clerk, settled, corrections, stale>>

\* record_manual_repayment, under BEGIN IMMEDIATE.
ManualRepayment(a, amount) ==
  /\ advance[a].released
  /\ advance[a].status # "Cancelled"
  /\ amount <= Owed(a)
  /\ manual' = [manual EXCEPT ![a] = @ + amount]
  /\ advance' = [advance EXCEPT ![a] = Recalculated(@, Paid(a) + amount)]
  /\ UNCHANGED <<posted, run, clerk, settled, corrections, stale>>

\* correct_cash_advance_amount: what was repaid above the corrected amount
\* becomes the employee's credit.
CorrectAmount(c, a, corrected) ==
  LET row == clerk[c].advance[a] IN
  /\ Acts(c)
  /\ row.status # "Absent"
  /\ corrected # row.opening
  /\ corrections < MaxCorrections
  /\ corrections' = corrections + 1
  /\ Write(a, [advance[a] EXCEPT
                 !.amount = corrected, !.opening = corrected,
                 !.credit = Less(Summary(row, clerk[c].paid[a]).repaid, corrected)])
  /\ UNCHANGED <<manual, posted, run, settled>>

\* settle_cash_advance_credit, as a payout or a payroll reimbursement.
SettleCredit(c, a, amount) ==
  /\ Acts(c)
  /\ amount <= clerk[c].advance[a].credit
  /\ settled' = [settled EXCEPT ![a] = @ + amount]
  /\ Write(a, [advance[a] EXCEPT !.credit = clerk[c].advance[a].credit - amount])
  /\ UNCHANGED <<manual, posted, run, corrections>>

\* The same against another advance b: its repayment of source Credit Offset
\* is never counted, so b is only recalculated.
OffsetCredit(c, a, b, amount) ==
  /\ Acts(c)
  /\ a # b
  /\ clerk[c].advance[b].status # "Absent"
  /\ amount <= clerk[c].advance[a].credit
  /\ amount <= Summary(clerk[c].advance[b], clerk[c].paid[b]).balance
  /\ settled' = [settled EXCEPT ![a] = @ + amount]
  /\ advance' = [advance EXCEPT
       ![a] = Recalculated([@ EXCEPT !.credit = clerk[c].advance[a].credit - amount], Paid(a)),
       ![b] = Recalculated(@, Paid(b))]
  /\ UNCHANGED <<manual, posted, run, corrections>>

-----------------------------------------------------------------------------
(* Payroll.                                                                *)

Open(rows) == {a \in Advances : rows[a].status \notin {"Absent", "Cancelled", "Fully Paid"}}

Scheduled(rows, S) ==
  Least(Capacity, MapThenSumSet(LAMBDA a : Least(rows[a].balance, Installment), S))

\* create_payroll_draft: the INSERT of the run opens the transaction, then
\* _apply_period_cash_advance_deduction reads the stored balances of every
\* advance that is not closed, issued or not.
CreateDraft(r) ==
  /\ run[r].status = "Absent"
  /\ run' = [run EXCEPT ![r] = [NoItem EXCEPT
       !.status = "Draft",
       !.deduction = Scheduled(advance, {a \in Open(advance) : advance[a].status # "Rejected"})]]
  /\ UNCHANGED <<advance, manual, posted, clerk, settled, corrections, stale>>

\* recalculate_draft: a saved amount is kept; otherwise compute_payroll's own
\* rule applies, which asks for an issued advance.
Recalculate(c, r) ==
  LET rows == clerk[c].advance
      item == clerk[c].run[r] IN
  /\ Acts(c)
  /\ item.status = "Draft"
  /\ run' = [run EXCEPT ![r].deduction =
       IF item.saved THEN item.cash
       ELSE Scheduled(rows, {a \in Advances : /\ rows[a].status \in {"Released", "Partially Paid"}
                                              /\ rows[a].released})]
  /\ UNCHANGED <<advance, manual, posted, settled, corrections>>

\* What recalculate_balance reads of the advances of S, oldest first: its
\* first UPDATE opens the transaction, so only the first reading can be old.
Reading(c, S, a) ==
  IF \A b \in S : a <= b THEN Summary(clerk[c].advance[a], clerk[c].paid[a])
  ELSE Summary(advance[a], Paid(a))

OwedTogether(c, S) == MapThenSumSet(LAMBDA a : Reading(c, S, a).balance, S)

\* _other_draft_reserved_total.
ReservedByOthers(r) ==
  MapThenSumSet(LAMBDA s : run[s].cash, {s \in Runs \ {r} : run[s].status = "Draft"})

\* save_adjustments: at most what is owed and not reserved by saved amounts of
\* other drafts; a saved amount that changed meanwhile is a conflict.  Repayments
\* the run has posted are deactivated, and their advances recalculated.
Adjust(c, r, cash) ==
  LET item == clerk[c].run[r]
      eligible == {a \in Open(clerk[c].advance) : clerk[c].advance[a].status # "Rejected"}
      read(a) == IF a \in eligible THEN Store(advance[a], Reading(c, eligible, a))
                 ELSE advance[a]
      counted(a) == IF run[r].status = "Paid" THEN posted[r][a] ELSE 0 IN
  /\ Acts(c)
  /\ item.status = "Draft"
  /\ run[r].saved = item.saved /\ run[r].cash = item.cash
  /\ cash <= Less(OwedTogether(c, eligible), ReservedByOthers(r))
  /\ run' = [run EXCEPT ![r] = [@ EXCEPT !.deduction = cash, !.saved = TRUE, !.cash = cash]]
  /\ posted' = [posted EXCEPT ![r] = [a \in Advances |-> 0]]
  /\ advance' = [a \in Advances |->
       IF posted[r][a] = 0 THEN read(a) ELSE Recalculated(read(a), Paid(a) - counted(a))]
  /\ UNCHANGED <<manual, settled, corrections>>

\* Submission and approval, and the return to Draft, as far as the ledger
\* can tell; PayrollRuns has them in full.
ApproveRun(c, r) ==
  /\ Acts(c)
  /\ clerk[c].run[r].status = "Draft"
  /\ run' = [run EXCEPT ![r].status = "Approved"]
  /\ UNCHANGED <<advance, manual, posted, settled, corrections>>

ReopenRun(c, r) ==
  /\ Acts(c)
  /\ clerk[c].run[r].status = "Approved"
  /\ run' = [run EXCEPT ![r].status = "Draft"]
  /\ UNCHANGED <<advance, manual, posted, settled, corrections>>

Due_Unissued(rows) == {a \in Open(rows) : rows[a].balance > 0}

\* The advances a payment posts to: open by the stored balance, and issued.
Due(rows) == {a \in Open(rows) : rows[a].balance > 0 /\ rows[a].released}

Older_Forgotten(absorbed, S, a) == 0

\* What the advances of S before a absorb of a deduction.
Older(absorbed, S, a) == MapThenSumSet(LAMBDA b : absorbed[b], {b \in S : b < a})

\* mark_payroll_run_paid with apply_payroll_cash_advance_repayments: the
\* deduction is posted to the issued advances, oldest first, and each is
\* recalculated before the run is Paid.  A repayment the run has already posted
\* is left alone.
Pay(c, r) ==
  LET item == clerk[c].run[r]
      due == Due(clerk[c].advance)
      fresh == {a \in due : posted[r][a] = 0}
      absorbed == [a \in Advances |->
                     IF a \in fresh THEN Reading(c, fresh, a).balance ELSE posted[r][a]]
      reached == {a \in fresh : Older(absorbed, due, a) < item.deduction}
      share(a) == Least(absorbed[a], item.deduction - Older(absorbed, due, a))
      read(a) == Store(advance[a], Reading(c, fresh, a))
      counted(a) == IF run[r].status = "Paid" THEN share(a) ELSE 0 IN
  /\ Acts(c)
  /\ item.status = "Approved"
  /\ ~item.paid
  /\ posted' = [posted EXCEPT ![r] =
       [a \in Advances |-> IF a \in reached THEN share(a) ELSE @[a]]]
  /\ advance' = [a \in Advances |->
       CASE a \notin reached -> advance[a]
         [] a \in reached /\ share(a) = 0 -> read(a)
         [] OTHER -> Recalculated(read(a), Paid(a) + counted(a))]
  /\ run' = [run EXCEPT ![r].status = "Paid", ![r].paid = TRUE]
  /\ UNCHANGED <<manual, settled, corrections>>

-----------------------------------------------------------------------------
Request(c) ==
  \/ Load(c)
  \/ Refuse(c)
  \/ \E a \in Advances : Edit(c, a) \/ Approve(c, a) \/ Reject(c, a) \/ Cancel(c, a)
  \/ \E a \in Advances, n \in Amounts :
       \/ CorrectAmount(c, a, n)
       \/ SettleCredit(c, a, n)
       \/ \E b \in Advances : OffsetCredit(c, a, b, n)
  \/ \E r \in Runs : Recalculate(c, r) \/ ApproveRun(c, r) \/ ReopenRun(c, r) \/ Pay(c, r)
  \/ \E r \in Runs, cash \in 0..Capacity : Adjust(c, r, cash)

Next ==
  \/ \E c \in Clerks : Request(c)
  \/ \E a \in Advances : Release(a)
  \/ \E a \in Advances, n \in Amounts : Create(a, n) \/ ManualRepayment(a, n)
  \/ \E r \in Runs : CreateDraft(r)

Spec == Init /\ [][Next]_vars

-----------------------------------------------------------------------------
(* Safety.                                                                 *)

(***************************************************************************)
(* Money is repaid only for money that was issued: no manual repayment and *)
(* no payroll deduction is posted to an advance before its release, even   *)
(* by a request that acts on what it read earlier.                         *)
(***************************************************************************)
RepaidWasIssued ==
  \A a \in Advances :
    (manual[a] > 0 \/ \E r \in Runs : posted[r][a] > 0) => advance[a].released

(***************************************************************************)
(* Unless a request acted on what had changed since it read it, an issued  *)
(* advance stays a debt: it is not Pending, Rejected or Cancelled (cancel  *)
(* refuses "as if funds were never issued").                               *)
(***************************************************************************)
IssuedIsOwed ==
  ~stale => \A a \in Advances :
    advance[a].released => advance[a].status \in {"Released", "Partially Paid", "Fully Paid"}

(***************************************************************************)
(* With the same proviso an employee never repays more than the advance:   *)
(* what exceeds its amount is, or was, credit that a correction recorded.  *)
(***************************************************************************)
RepaidWithinAmount ==
  ~stale => \A a \in Advances :
    Paid(a) <= advance[a].opening + advance[a].credit + settled[a]

(***************************************************************************)
(* With the same proviso the repayments posted by a paid run are at most   *)
(* what the run withheld, and a run that is not paid has posted none.      *)
(***************************************************************************)
PostedWithinWithheld ==
  ~stale => \A r \in Runs :
    MapThenSumSet(LAMBDA a : posted[r][a], Advances)
      <= (IF run[r].status = "Paid" THEN run[r].deduction ELSE 0)

(***************************************************************************)
(* With the same proviso the stored balance, which drafts deduct from, is  *)
(* never below what is owed: it lags behind payments, and no debt is lost. *)
(***************************************************************************)
StoredCoversOwed ==
  ~stale => \A a \in Advances : advance[a].balance >= Owed(a)
=============================================================================
