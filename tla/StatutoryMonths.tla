---------------------------- MODULE StatutoryMonths ----------------------------
(***************************************************************************)
(* Statutory contributions of one employee: what each payroll run withholds*)
(* for a calendar month, which earlier runs it takes into account, and how *)
(* missed contributions are collected (core/payroll_statutory.py,          *)
(* core/statutory_snapshots.py, core/statutory_legacy_history.py,          *)
(* api/statutory_settlements.py, with the life of a run as far as it       *)
(* decides what counts).                                                   *)
(*                                                                         *)
(* Contributions follow the month in which a cutoff ends.  A fixed one     *)
(* (PhilHealth, Pag-IBIG) is half due by the 15th; a share (SSS) follows   *)
(* from the earnings of the month so far.  Employer parts, which follow    *)
(* the same rules, and rates are left out; requests do not overlap here    *)
(* (they do in PayrollRuns).                                               *)
(***************************************************************************)
EXTENDS Naturals, Sequences, FiniteSets, FiniteSetsExt, Functions

CONSTANTS
  Segments,     \* the calendar segments of each cutoff: [month, from, to]
  MaxRuns,      \* bound: rows ever inserted into payroll_runs
  Earnings,     \* the possible earnings of each cutoff, by month
  Monthly,      \* the fixed contribution of a month
  Share(_),     \* get_sss_share
  Payments,     \* amounts of catch-ups and outside payments
  MaxCollected  \* bound: catch-ups on record and outside payments together

Cutoffs == DOMAIN Segments
SegmentsOf(c) == Range(Segments[c])
MonthsOf(c) == {s.month : s \in SegmentsOf(c)}
Months == UNION {MonthsOf(c) : c \in Cutoffs}
Last(c) == Segments[c][Len(Segments[c])]
Runs == 1..MaxRuns
NoRun == 0

ASSUME CalendarAssumption ==
  /\ Segments \in Seq(Seq([month : Nat, from : 1..31, to : 1..31])) /\ Segments # <<>>
  /\ \A c \in Cutoffs : \A k \in DOMAIN Segments[c] :
       /\ Segments[c][k].from <= Segments[c][k].to
       /\ \A j \in 1..(k - 1) : Segments[c][j].month < Segments[c][k].month
  \* Cutoffs follow one another.
  /\ \A c, d \in Cutoffs : c < d =>
       \A s \in SegmentsOf(c), t \in SegmentsOf(d) : s.month < t.month \/ (s.month = t.month /\ s.to < t.from)
ASSUME StatutoryAssumption ==
  /\ MaxRuns \in Nat \ {0} /\ Monthly \in Nat /\ Monthly % 2 = 0 /\ Payments \subseteq Nat
  /\ \A c \in Cutoffs : /\ Len(Segments[c]) > 0
                         /\ Earnings[c] \subseteq [Months -> Nat]
                         /\ \A g \in Earnings[c], m \in Months \ MonthsOf(c) : g[m] = 0

VARIABLES
  run,      \* payroll_runs with the employee's item, snapshots and catch-ups
  outside   \* outside payments of each month

vars == <<run, outside>>

Nobody == [m \in Months |-> 0]
Total(f) == FoldFunction(+, 0, f)
SumOf(S, f(_)) == FoldSet(LAMBDA r, n : f(r) + n, 0, S)

(* "recorded": the run has snapshots, which then agree with its item.  "seen" is    *)
(* history: the earlier runs of the month when the item was computed.                *)
Absent == [status |-> "Absent", cutoff |-> 1, parent |-> NoRun, adjusts |-> FALSE, successor |-> NoRun,
           gross |-> Nobody, fixed |-> 0, share |-> 0, other |-> 0,
           recorded |-> FALSE, catchup |-> Nobody, seen |-> {}]

Live == {r \in Runs : run[r].status \notin {"Absent", "Deleted"}}
Current(r) == run[r].successor = NoRun
(* For Owner Review and Approved are settled alike. *)
Settled(r) == run[r].status \in {"Settled", "Paid"}

-----------------------------------------------------------------------------
(* What was withheld before. *)

Overlapping(r, m) == m \in MonthsOf(run[r].cutoff)
(* The period of the run begins before the segment s of the cutoff c. *)
Before(r, c, s) == run[r].cutoff < c \/ (run[r].cutoff = c /\ s # Segments[c][1])

(* Settled, not superseded snapshots of the month. *)
Counted_Paid(c, s) ==
  {r \in Live : /\ run[r].status = "Paid" /\ Current(r) /\ run[r].recorded
                /\ Before(r, c, s) /\ Overlapping(r, s.month)}
Counted(c, s) ==
  {r \in Live : /\ Settled(r) /\ Current(r) /\ run[r].recorded
                /\ Before(r, c, s) /\ Overlapping(r, s.month)}

(* legacy_paid_first_half_evidence: paid runs without snapshots from the last day of *)
(* a month to the 14th of the next.                                                  *)
FirstHalf(c, m) ==
  /\ Len(Segments[c]) = 2 /\ Segments[c][1].from = Segments[c][1].to
  /\ Last(c).month = m /\ Last(c).to = 14
Evidence(s) ==
  {r \in Live : /\ run[r].status = "Paid" /\ Current(r) /\ ~run[r].recorded
                /\ FirstHalf(run[r].cutoff, s.month) /\ s.from > 14}

(* assert_prior_month_statutory_coverage: no earlier run without snapshots, but for  *)
(* the evidence.                                                                     *)
Covered(n, c) ==
  \A s \in SegmentsOf(c), r \in Live \ {n} :
    Settled(r) /\ Current(r) /\ Before(r, c, s) /\ Overlapping(r, s.month) /\ ~run[r].recorded
      => r \in Evidence(s)
Unambiguous(c) == \A s \in SegmentsOf(c) : Cardinality(Evidence(s)) <= 1
(* persist_computed_draft_snapshots *)
Persistable(n, c) == Unambiguous(c) /\ Covered(n, c)

DeductedFor(m) == {r \in Live : Last(run[r].cutoff).month = m}

-----------------------------------------------------------------------------
(* apply_calendar_month_statutory: the item of the cutoff c with earnings gross. *)

Target(c) == IF Last(c).to <= 15 THEN Monthly \div 2 ELSE Monthly

(* previous_month_snapshot_totals *)
Previous(c) ==
  LET s == Last(c)
      counted == Counted(c, s)
      before == counted \cup Evidence(s)
      Fixed(r) == IF r \in DeductedFor(s.month) THEN run[r].fixed ELSE 0
      Shared(r) == IF r \in DeductedFor(s.month) THEN run[r].share ELSE 0
      Earned(r) == IF r \in counted THEN run[r].gross[s.month] ELSE Total(run[r].gross) IN
  [gross |-> SumOf(before, Earned), fixed |-> SumOf(before, Fixed), share |-> SumOf(before, Shared)]

Rest(due, paid) == IF due > paid THEN due - paid ELSE 0

(* What the runs of the month up to the cutoff earned and withhold; history only. *)
Record(rows, r) == <<r, rows[r].fixed, rows[r].share, rows[r].gross>>
Records(rows, S) == {Record(rows, r) : r \in S}
Settling(c) == {e \in DeductedFor(Last(c).month) : Settled(e) /\ Current(e) /\ run[e].cutoff <= c}

Item(row, c, gross) ==
  LET before == Previous(c)
      nothing == Total(gross) = 0 IN
  [row EXCEPT !.cutoff = c, !.gross = gross,
              !.fixed = IF nothing THEN 0 ELSE Rest(Target(c), before.fixed),
              !.share = IF nothing THEN 0
                        ELSE Rest(Share(before.gross + Total(gross)), before.share),
              !.seen = Records(run, Settling(c))]

Fresh(n) == run[n].status = "Absent" /\ \A r \in Runs : r < n => run[r].status # "Absent"

(* The database holds nothing, or a first half paid before there were snapshots. *)
Legacy(c, g) ==
  [Absent EXCEPT !.status = "Paid", !.cutoff = c, !.gross = g, !.fixed = Target(c), !.share = Share(Total(g))]
Init ==
  /\ \E rows \in {[r \in Runs |-> Absent]} \cup
                 {[r \in Runs |-> IF r = 1 THEN Legacy(x[1], x[2]) ELSE Absent] :
                    x \in UNION {{c} \X (Earnings[c] \ {Nobody}) : c \in {d \in Cutoffs : FirstHalf(d, Last(d).month)}}} :
       run = rows
  /\ outside = Nobody

(* replace_run_employee_snapshots *)
Snapshotted(row) == [row EXCEPT !.recorded = TRUE]

CreateDraft(n, c, gross) ==
  /\ Fresh(n)
  /\ \A r \in Live : Current(r) => run[r].cutoff # c
  /\ Persistable(n, c)
  /\ run' = [run EXCEPT ![n] = Snapshotted([Item(Absent, c, gross) EXCEPT !.status = "Draft"])]
  /\ UNCHANGED outside

(* _adjustments, _apply_manual. *)
Manual(r) == Total(run[r].catchup)

(* The catch-ups of the run are deducted again from the new item. *)
Recalculate_ForgetsCatchups(r, gross) ==
  LET c == run[r].cutoff IN
  /\ run[r].status = "Draft" /\ ~run[r].adjusts
  /\ Persistable(r, c)
  /\ run' = [run EXCEPT ![r] = Snapshotted([Item(@, c, gross) EXCEPT !.other = 0])]
  /\ UNCHANGED outside
Recalculate(r, gross) ==
  LET c == run[r].cutoff IN
  /\ run[r].status = "Draft" /\ ~run[r].adjusts
  /\ Persistable(r, c)
  /\ run' = [run EXCEPT ![r] = Snapshotted([Item(@, c, gross) EXCEPT !.other = Manual(r)])]
  /\ UNCHANGED outside

(* save_controlled_revision: neither snapshots nor catch-ups come with the new item; *)
(* an unpaid original is superseded after it was computed.                           *)
Revise(n, r, gross) ==
  LET c == run[r].cutoff
      paid == run[r].status = "Paid"
      row == [Item(Absent, c, gross) EXCEPT !.status = "Draft", !.parent = r, !.adjusts = paid] IN
  /\ Fresh(n)
  /\ r \in Live /\ \A s \in Live : run[s].parent # r
  /\ Unambiguous(c)
  /\ run' = [run EXCEPT ![n] = row, ![r].successor = IF paid THEN @ ELSE n]
  /\ UNCHANGED outside

Move(r, from, to) ==
  /\ run[r].status = from /\ Current(r)
  /\ run' = [run EXCEPT ![r].status = to]
  /\ UNCHANGED outside
Settle(r) == Move(r, "Draft", "Settled")
Reopen(r) == Move(r, "Settled", "Draft")

(* A paid adjustment supersedes its original when it is paid. *)
Pay(r) ==
  LET p == run[r].parent IN
  /\ run[r].status = "Settled" /\ Current(r)
  /\ \/ p = NoRun
     \/ p \in Live /\ run[r].adjusts /\ run[p].status = "Paid" /\ Current(p)
     \/ p \in Live /\ ~run[r].adjusts /\ run[p].status # "Paid" /\ run[p].successor = r
  /\ run' = [s \in Runs |-> CASE s = r -> [run[s] EXCEPT !.status = "Paid"]
                              [] s # r /\ s = p /\ run[r].adjusts -> [run[s] EXCEPT !.successor = r]
                              [] OTHER -> run[s]]
  /\ UNCHANGED outside

(* What the draft superseded is current again; snapshots and catch-ups go with it. *)
Delete(r) ==
  /\ run[r].status = "Draft"
  /\ run' = [s \in Runs |-> CASE s = r -> [Absent EXCEPT !.status = "Deleted"]
                              [] s # r /\ run[s].successor = r -> [run[s] EXCEPT !.successor = NoRun]
                              [] OTHER -> run[s]]
  /\ UNCHANGED outside

-----------------------------------------------------------------------------
(* Collections of missed contributions. *)

Recorded(m, statuses) ==
  LET Fixed(r) == run[r].fixed IN
  SumOf({r \in DeductedFor(m) : run[r].status \in statuses /\ Current(r) /\ run[r].recorded}, Fixed)
Due(m) == Recorded(m, {"Settled", "Paid"})
(* Without the catch-up of the run "except". *)
Collected(m, except) ==
  LET Caught(r) == run[r].catchup[m] IN
  outside[m] + SumOf({r \in Live \ {except} : Current(r)}, Caught) + Recorded(m, {"Paid"})
Allowed(m, amount, except) == Due(m) = 0 \/ Collected(m, except) + amount <= Due(m)

Bounded(amount) ==
  LET Caught(r) == Total(run[r].catchup) IN Total(outside) + SumOf(Live, Caught) + amount <= MaxCollected

SaveCatchup(r, m, amount) ==
  /\ run[r].status = "Draft" /\ ~run[r].adjusts
  /\ amount > 0 => Allowed(m, amount, r) /\ Bounded(amount)
  /\ run' = [run EXCEPT ![r].catchup[m] = amount, ![r].other = @ + amount - run[r].catchup[m]]
  /\ UNCHANGED outside

RecordOutsidePayment(m, amount) ==
  /\ Bounded(amount)
  /\ Allowed(m, amount, NoRun)
  /\ outside' = [outside EXCEPT ![m] = @ + amount]
  /\ UNCHANGED run

-----------------------------------------------------------------------------
Next ==
  \/ \E n \in Runs, c \in Cutoffs : \E gross \in Earnings[c] : CreateDraft(n, c, gross)
  \/ \E r \in Runs : \E gross \in Earnings[run[r].cutoff] :
       Recalculate(r, gross) \/ \E n \in Runs : Revise(n, r, gross)
  \/ \E r \in Runs : Settle(r) \/ Reopen(r) \/ Pay(r) \/ Delete(r)
  \/ \E m \in Months, amount \in Payments :
       \/ RecordOutsidePayment(m, amount)
       \/ \E r \in Runs : SaveCatchup(r, m, amount)
  \/ \E m \in Months, r \in Runs : run[r].catchup[m] > 0 /\ SaveCatchup(r, m, 0)

Spec == Init /\ [][Next]_vars

-----------------------------------------------------------------------------
(***************************************************************************)
(* No month is charged twice and none is left out: when each cutoff of the *)
(* month has one current run, computed from the earlier ones as they stand *)
(* now, they withhold together what is due by the last of them, unless one *)
(* of them had nothing to withhold it from, and never more; and no larger  *)
(* share than that of all they earned.  (A cutoff that begins in the month *)
(* before counts the settled original or replacement of its run as an      *)
(* earlier one, and a revision has no snapshots before it is recalculated: *)
(* see the README.)                                                        *)
(***************************************************************************)
Withholding(m) == {r \in DeductedFor(m) : Current(r)}
Earlier(r) == {e \in Withholding(Last(run[r].cutoff).month) : run[e].cutoff < run[r].cutoff}
InOrder(m) ==
  /\ \A r \in Withholding(m) : /\ run[r].seen = Records(run, Earlier(r))
                               /\ run[r].parent = NoRun \/ run[r].recorded
  /\ Cardinality({run[r].cutoff : r \in Withholding(m)}) = Cardinality(Withholding(m))
Sums(m) ==
  LET Fixed(r) == run[r].fixed
      Shared(r) == run[r].share
      Earned(r) == Total(run[r].gross)
      S == Withholding(m) IN
  [fixed |-> SumOf(S, Fixed), share |-> SumOf(S, Shared), gross |-> SumOf(S, Earned)]
WithheldOnce ==
  \A m \in Months : InOrder(m) /\ Withholding(m) # {} =>
    LET due == Max({Target(run[r].cutoff) : r \in Withholding(m)}) IN
    /\ Sums(m).fixed <= due
    /\ Sums(m).share <= Share(Sums(m).gross)
    /\ (\A r \in Withholding(m) : Total(run[r].gross) > 0) => Sums(m).fixed = due

(***************************************************************************)
(* The catch-ups on record are the ones the pay was reduced by, through    *)
(* recalculations, revisions and deletions of drafts.                      *)
(***************************************************************************)
CatchupsAreWithheld == \A r \in Live : run[r].other = Total(run[r].catchup)
=============================================================================
