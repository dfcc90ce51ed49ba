----------------------------- MODULE LeaveLedger -----------------------------
(***************************************************************************)
(* The leave of one employee in one year: requests of the employee         *)
(* (api/staff_published_portal.py), decisions on them (api/hr_records.py), *)
(* the leave that editors of the schedule write for single days            *)
(* (api/schedule_leave_fractional.py, api/sil_leave.py, and the day reset  *)
(* of api/schedule_day_reset_safe.py as far as it touches leave), and the  *)
(* days that a payroll cutoff pays (core/payroll_leave_days.py and         *)
(* core/payroll_fractional_leave.py).                                      *)
(*                                                                         *)
(* A handler reads before the write that opens its transaction, and        *)
(* writes by id: Read is those reads, each handler is its writes.  Only    *)
(* SaveSIL reads the leave inside its transaction.                         *)
(***************************************************************************)
EXTENDS Integers, Sequences, FiniteSets, SequencesExt

CONSTANTS
  LastDate,      \* the dates of the year are 1..LastDate
  Types,         \* leave types, "SIL" among them
  PaidTypes,     \* those that are paid, and limited by credits when staff ask
  Credits,       \* employee_leave_entitlements: credits per type, in Units
  Asks,          \* what the employee asks for: a type and a range of dates
  Fractions,     \* the parts of a day that editors grant, in Units
  Clerks,        \* requests in progress
  MaxLeaves      \* bound: ids of leave_requests

Unit == 2        \* a day of leave is counted in halves

Dates == 1..LastDate
Ids == 1..MaxLeaves

ASSUME DatesAssumption == LastDate \in Nat /\ MaxLeaves \in Nat
ASSUME AsksAssumption ==
  \A a \in Asks : a.type \in Types /\ a.from \in Dates /\ a.to \in Dates /\ a.from <= a.to
ASSUME FractionsAssumption == Fractions \subseteq 1..Unit
ASSUME TypesAssumption ==
  /\ "SIL" \in PaidTypes /\ PaidTypes \subseteq Types
  /\ Credits \in [PaidTypes -> Nat]

Statuses == {"Pending", "Approved", "Rejected", "Withdrawn", "Cancelled"}
NoLeave == [status |-> "Absent"]
Idle == [busy |-> FALSE]

VARIABLES
  leaves,      \* leave_requests; asked is history: the employee asked for it
  nextId,      \* the next id of leave_requests
  clerk,       \* what each request in progress has read
  contested    \* history: dates of leave written by a handler whose reads were stale

vars == <<leaves, nextId, clerk, contested>>

-----------------------------------------------------------------------------
(* What the employee's requests and their decisions regard as active. *)
Counted == {"Pending", "Approved"}
(* What the schedule regards as inactive: a withdrawn request is not in the list. *)
Inactive == {"Rejected", "Cancelled"}

Stored(rows) == {i \in Ids : rows[i] # NoLeave}
DatesOf(rows, i) == IF rows[i] = NoLeave THEN {} ELSE rows[i].from..rows[i].to
Covers(row, d) == row.from <= d /\ d <= row.to
Span(row) == row.to - row.from + 1
Covering(rows, d) == {i \in Stored(rows) : rows[i].status \notin Inactive /\ Covers(rows[i], d)}
Latest(ids) == CHOOSE i \in ids : \A j \in ids : j <= i
CountedIds(rows) == {i \in Stored(rows) : rows[i].status \in Counted}
Overlapping(rows, from, to) ==
  {i \in CountedIds(rows) : rows[i].from <= to /\ rows[i].to >= from}

SumOver(f(_), ids) == MapThenFoldSet(+, 0, f, LAMBDA S : CHOOSE i \in S : TRUE, ids)
Total(rows, ids) == SumOver(LAMBDA i : rows[i].days, ids)
UsedOf_Approved(rows, type) ==
  Total(rows, {i \in CountedIds(rows) : rows[i].type = type /\ rows[i].status = "Approved"})
UsedOf(rows, type) == Total(rows, {i \in CountedIds(rows) : rows[i].type = type})

Leave(type, from, to, days, status, asked) ==
  [type |-> type, from |-> from, to |-> to, days |-> days, status |-> status, asked |-> asked]

(* What a handler acts on. *)
Seen(c) == IF clerk[c].busy THEN clerk[c].leaves ELSE leaves

-----------------------------------------------------------------------------
(* paid_leave_days_for_cutoff, _correct_paid_leave_detail: approved paid leave in *)
(* the order of its first day, every date paid for once.                          *)

PaidPart_Unprorated(row, dates) == row.days
PaidPart(row, dates) ==
  IF Span(row) = 1 THEN IF row.days < Unit THEN row.days ELSE Unit
  ELSE (row.days * Cardinality(dates)) \div Span(row)

Payable(rows) == {i \in Stored(rows) : rows[i].status = "Approved" /\ rows[i].type \in PaidTypes}
Before(rows, i, j) == rows[i].from < rows[j].from \/ (rows[i].from = rows[j].from /\ i < j)

(* The dates between first and last that no leave before leave i has used. *)
OwnDates(rows, i, first, last) ==
  {d \in DatesOf(rows, i) \cap (first..last) :
     \A j \in Payable(rows) : Before(rows, j, i) => ~Covers(rows[j], d)}

PaidDays(rows, first, last) ==
  LET paid == {i \in Payable(rows) : OwnDates(rows, i, first, last) # {}} IN
  SumOver(LAMBDA i : PaidPart(rows[i], OwnDates(rows, i, first, last)), paid)

-----------------------------------------------------------------------------
Init ==
  /\ leaves = [i \in Ids |-> NoLeave]
  /\ nextId = 1
  /\ clerk = [c \in Clerks |-> Idle]
  /\ contested = {}

Read(c) ==
  /\ ~clerk[c].busy
  /\ clerk' = [clerk EXCEPT ![c] = [busy |-> TRUE, leaves |-> leaves]]
  /\ UNCHANGED <<leaves, nextId, contested>>

(* The request is refused, or its connection is lost before the commit. *)
Refuse(c) ==
  /\ clerk[c].busy
  /\ clerk' = [clerk EXCEPT ![c] = Idle]
  /\ UNCHANGED <<leaves, nextId, contested>>

(* The end of a handler that wrote the rows of leave, the new ones from nextId on. *)
Commit(c, rows) ==
  /\ leaves' = rows
  /\ nextId' = nextId + Cardinality(Stored(rows) \ Stored(leaves))
  /\ clerk' = [clerk EXCEPT ![c] = Idle]
  /\ contested' = contested \cup
       (IF Seen(c) = leaves THEN {}
        ELSE UNION {DatesOf(rows, i) \cup DatesOf(leaves, i) : i \in {j \in Ids : rows[j] # leaves[j]}})

(* submit_leave_request: within the credits, and not over other leave. *)
Submit(c, ask) ==
  LET read == Seen(c)
      days == Unit * Span(ask) IN
  /\ ask.type \in PaidTypes => days <= Credits[ask.type] - UsedOf(read, ask.type)
  /\ Overlapping(read, ask.from, ask.to) = {}
  /\ nextId \in Ids
  /\ Commit(c, [leaves EXCEPT ![nextId] = Leave(ask.type, ask.from, ask.to, days, "Pending", TRUE)])

(* withdraw_leave_request *)
Withdraw(c, i) ==
  /\ Seen(c)[i].status = "Pending"
  /\ Commit(c, [leaves EXCEPT ![i].status = "Withdrawn"])

(* decide_leave_request: an approval is refused while other leave overlaps. *)
Decide(c, i, decision) ==
  LET read == Seen(c) IN
  /\ read[i].status = "Pending"
  /\ decision = "Approved" => Overlapping(read, read[i].from, read[i].to) \subseteq {i}
  /\ Commit(c, [leaves EXCEPT ![i].status = decision])

(* _split_or_shrink_leave: date d is taken out of the leave "row", read earlier.  Leave *)
(* of several days that is not counted in whole days is refused.                     *)
Divisible(row) == Span(row) = 1 \/ row.days = Unit * Span(row)
Splits(row, d) == row.from < d /\ d < row.to

(* What the UPDATE leaves of the present row. *)
Shrunk_KeepsDays(now, row, d) ==
  IF Span(row) = 1 THEN [now EXCEPT !.status = "Cancelled"]
  ELSE IF d = row.from THEN [now EXCEPT !.from = d + 1] ELSE [now EXCEPT !.to = d - 1]
Shrunk(now, row, d) ==
  IF Span(row) = 1 THEN [now EXCEPT !.status = "Cancelled"]
  ELSE IF d = row.from THEN [now EXCEPT !.from = d + 1, !.days = row.days - Unit]
  ELSE IF d = row.to THEN [now EXCEPT !.to = d - 1, !.days = row.days - Unit]
  ELSE [now EXCEPT !.to = d - 1, !.days = Unit * (d - row.from)]
(* The INSERT of what comes after d. *)
Remainder(row, d) == Leave(row.type, d + 1, row.to, Unit * (row.to - d), row.status, row.asked)

(* The rows when the leave of the ids, as read, has given up date d; what is split off *)
(* takes the next ids, in their order.                                               *)
SplitIds(read, ids, d) == {i \in ids : Splits(read[i], d)}
NewId(split, i) == nextId + Cardinality({j \in split : j < i})
Without(read, ids, d) ==
  LET split == SplitIds(read, ids, d) IN
  [n \in Ids |->
     IF n \in ids THEN Shrunk(leaves[n], read[n], d)
     ELSE IF \E i \in split : NewId(split, i) = n
     THEN Remainder(read[CHOOSE i \in split : NewId(split, i) = n], d)
     ELSE leaves[n]]
CanGiveUp(read, ids, d) ==
  LET split == SplitIds(read, ids, d) IN
  (\A i \in ids : Divisible(read[i])) /\ \A i \in split : NewId(split, i) \in Ids

(* save_day_leave: the latest leave that covers the day gives it up, and the day *)
(* gets leave of its own, or none (type "None", or an absence).                  *)
SaveDayLeave(c, d, type, days) ==
  LET read == Seen(c)
      covering == Covering(read, d)
      ids == IF covering = {} THEN {} ELSE {Latest(covering)}
      own == nextId + Cardinality(SplitIds(read, ids, d)) IN
  /\ CanGiveUp(read, ids, d)
  /\ IF type = "None" THEN Commit(c, Without(read, ids, d))
     ELSE /\ own \in Ids
          /\ Commit(c, [Without(read, ids, d) EXCEPT ![own] = Leave(type, d, d, days, "Approved", FALSE)])

(* save_sil_leave: SIL that covers the day becomes SIL of this day alone, whatever *)
(* it covered and whatever became of it; other leave is refused.  Its first write  *)
(* is the time log, so it reads the leave within the transaction.                  *)
SaveSIL(d) ==
  LET ids == Covering(leaves, d)
      i == IF ids = {} THEN nextId ELSE Latest(ids) IN
  /\ ids # {} => leaves[i].type = "SIL"
  /\ i \in Ids
  /\ leaves' = [leaves EXCEPT ![i] = Leave("SIL", d, d, Unit, "Approved", FALSE)]
  /\ nextId' = IF ids = {} THEN nextId + 1 ELSE nextId
  /\ UNCHANGED <<clerk, contested>>

(* reset_day: every leave that covers the day gives it up. *)
ResetDay(c, d) ==
  LET read == Seen(c) IN
  /\ CanGiveUp(read, Covering(read, d), d)
  /\ Commit(c, Without(read, Covering(read, d), d))

DayEdit(c, d) ==
  \/ ResetDay(c, d)
  \/ SaveDayLeave(c, d, "None", Unit)
  \/ \E type \in Types, days \in Fractions : SaveDayLeave(c, d, type, days)

Next ==
  \/ \E c \in Clerks :
       \/ Read(c) \/ Refuse(c)
       \/ \E ask \in Asks : Submit(c, ask)
       \/ \E i \in Ids : \/ Withdraw(c, i)
                         \/ \E decision \in {"Approved", "Rejected"} : Decide(c, i, decision)
       \/ \E d \in Dates : DayEdit(c, d)
  \/ \E d \in Dates : SaveSIL(d)

Spec == Init /\ [][Next]_vars

-----------------------------------------------------------------------------

(* All that is left of the leave was written by a handler with stale reads. *)
Contested(i) == DatesOf(leaves, i) \subseteq contested

(***************************************************************************)
(* What the employee asked for and still counts stays within the credits   *)
(* of its type, also after editors cut days out of it.                     *)
(***************************************************************************)
AskedFor(type) == {i \in CountedIds(leaves) : leaves[i].type = type /\ leaves[i].asked /\ ~Contested(i)}
AskedWithinCredits == \A type \in PaidTypes : Total(leaves, AskedFor(type)) <= Credits[type]

(***************************************************************************)
(* Leave of several days is counted in whole days, so that cutting a day   *)
(* out of it takes exactly one day off and payroll pays one day per date.  *)
(***************************************************************************)
DaysMatchSpan ==
  \A i \in Stored(leaves) :
    Span(leaves[i]) > 1 /\ ~Contested(i) => leaves[i].days = Unit * Span(leaves[i])

(***************************************************************************)
(* Two cutoffs that meet pay together what one cutoff over both would pay: *)
(* leave that crosses the boundary is neither paid twice nor lost.  Only   *)
(* where its days do not go evenly into its dates may the parts of it be   *)
(* rounded to one unit less.                                               *)
(***************************************************************************)
Uneven == {i \in Payable(leaves) : Span(leaves[i]) > 1 /\ leaves[i].days % Span(leaves[i]) # 0}
CutoffsAddUp ==
  \A d \in Dates :
    LET parts == PaidDays(leaves, 1, d) + PaidDays(leaves, d + 1, LastDate)
        whole == PaidDays(leaves, 1, LastDate) IN
    parts <= whole /\ whole <= parts + Cardinality(Uneven)
=============================================================================
