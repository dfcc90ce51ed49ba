------------------------------- MODULE PayPeriod -------------------------------
(***************************************************************************)
(* The computation of the pay of one employee for a cutoff, as the passes  *)
(* that every preview, draft and revision runs one after the other:        *)
(*   1. the engine (core/payroll_engine.py), which shares the regular      *)
(*      hours of a day between its logs;                                   *)
(*   2. the policy that gives every shift of a split day hours of its own  *)
(*      (core/payroll_split_shift_policy.py);                              *)
(*   3. the night differential of payable hours                            *)
(*      (core/night_diff_policy.py);                                       *)
(*   4. overtime, premiums and holidays from calendar segments             *)
(*      (core/holiday_payroll.py, core/holiday_ot_policy.py).              *)
(* Each pass corrects what the ones before it computed, and the earnings   *)
(* per calendar month beside it (core/dated_earnings.py).                  *)
(*                                                                         *)
(* Times are whole hours, counted from the midnight before day 0; unpaid   *)
(* breaks, centavo rounding, leave, lateness and warnings are left out.    *)
(* Amounts are thousandths of the hourly rate.                             *)
(***************************************************************************)
EXTENDS Integers, Sequences, FiniteSets, Functions, SequencesExt

CONSTANTS
  Inputs,     \* the records to compute: shifts, logs, holidays, rest
  Cutoff,     \* the days of the cutoff
  MonthOf,    \* the calendar month of each day
  Standard    \* standard_daily_paid_hours

Day == 24
Days == DOMAIN MonthOf
Months == Range(MonthOf)
Hours == 0..(Day - 1)
NoHours == [m \in Months |-> 0]
HolidayTypes == {"None", "Regular", "Special"}
ShiftType == [date : Days, from : Hours, to : Hours]
LogType == [date : Days, shift : Nat, in : Hours, out : Hours, approved : Nat, absent : BOOLEAN]

ASSUME CutoffAssumption == Cutoff \subseteq Days /\ Days \subseteq Nat /\ IsFiniteSet(Days) /\ Standard \in Nat
ASSUME InputsAssumption ==
  \A x \in Inputs :
    /\ x.shifts \in Seq(ShiftType) /\ x.logs \in Seq(LogType)
    /\ x.holidays \in [Days -> HolidayTypes] /\ x.rest \subseteq Days

VARIABLES
  input,   \* what the passes read
  pass,    \* how many passes are done
  result   \* PayrollResult

payVars == <<input, pass, result>>

-----------------------------------------------------------------------------
(* Hours of work and of shifts, as sets of absolute hours. *)

HoursFrom(d, from, to) == (d * Day + from)..(d * Day + to + (IF to <= from THEN Day ELSE 0) - 1)
DateOf(h) == h \div Day
Worked(l) == HoursFrom(l.date, l.in, l.out)
First(hours, n) == {h \in hours : Cardinality({k \in hours : k < h}) < n}
Night(hours) == {h \in hours : h % Day >= 22 \/ h % Day < 6}
AtMost(n, m) == IF n < m THEN n ELSE m
AtLeast(n, m) == IF n > m THEN n ELSE m
Summed(f) == FoldFunction(+, 0, f)
Plus(f, d, n) == [f EXCEPT ![MonthOf[d]] = @ + n]

(* time_logs and trusted_schedule_rows of the cutoff, by their places in the sequences. *)
Picked(s, places) == [n \in 1..Cardinality(places) |-> s[CHOOSE k \in places : Cardinality({j \in places : j <= k}) = n]]
LogsIn_NextDay(x, cutoff) ==
  Picked(x.logs, {k \in DOMAIN x.logs : x.logs[k].date \in cutoff \/ x.logs[k].date + 1 \in cutoff})
LogsIn(x, cutoff) == Picked(x.logs, {k \in DOMAIN x.logs : x.logs[k].date \in cutoff})
ShiftsIn(x, cutoff) == {i \in DOMAIN x.shifts : x.shifts[i].date \in cutoff}
OnDate(x, cutoff, d) == {i \in ShiftsIn(x, cutoff) : x.shifts[i].date = d}

(* The schedule of a log: its link, or the only shift of the day; 0 is none. *)
ScheduleOf(x, cutoff, l) ==
  LET candidates == OnDate(x, cutoff, l.date) IN
  IF l.shift # 0 THEN (IF l.shift \in ShiftsIn(x, cutoff) THEN l.shift ELSE 0)
  ELSE IF Cardinality(candidates) = 1 THEN CHOOSE i \in candidates : TRUE ELSE 0

(* The window of a log: the hours of its shift on the date of the log. *)
Window(x, i, l) == IF i = 0 THEN Worked(l) ELSE HoursFrom(l.date, x.shifts[i].from, x.shifts[i].to)
Inside(x, i, l) == Worked(l) \cap Window(x, i, l)
Outside(x, i, l) == Worked(l) \ Window(x, i, l)

(* Per cent of the hourly rate: the settings' defaults. *)
DayMultiplier(type, rest) ==
  CASE type = "Regular" /\ rest -> 260
    [] type = "Special" /\ rest -> 150
    [] type = "Regular" -> 200
    [] type = "Special" -> 130
    [] OTHER -> IF rest THEN 130 ELSE 100
OvertimeMultiplier(base) == IF base = 100 THEN 125 ELSE (base * 130) \div 100
Pay(n, percent) == n * percent * 10

-----------------------------------------------------------------------------
(* Pass 1: compute_employee_payroll.  A log takes its regular hours from what is *)
(* left of the day; what lies outside its window is paid as far as it is         *)
(* approved.  Its schedules carry no rest days.                                  *)

Nothing == [regularHours |-> 0, otHours |-> 0, ndHours |-> 0, regular |-> 0, ot |-> 0, nd |-> 0,
            holiday |-> 0, dated |-> NoHours, datedOt |-> NoHours, datedNd |-> NoHours,
            datedHoliday |-> NoHours]

Earned(r, d, regular, ot, nd, holiday) ==
  [r EXCEPT !.regular = @ + regular, !.ot = @ + ot, !.nd = @ + nd, !.holiday = @ + holiday,
            !.dated = Plus(@, d, regular + ot + nd + holiday),
            !.datedOt = Plus(@, d, ot), !.datedNd = Plus(@, d, nd), !.datedHoliday = Plus(@, d, holiday)]

(* The accumulator: what is earned, the regular hours used and the holidays paid. *)
BaseAbsent(x, acc, l) ==
  IF x.holidays[l.date] # "Regular" THEN acc
  ELSE [acc EXCEPT !.paid = @ \cup {l.date}, !.earned = Earned(@, l.date, 0, 0, 0, Pay(Standard, 100))]

BaseLog(x, cutoff, acc, l) ==
  LET i == ScheduleOf(x, cutoff, l)
      d == l.date
      inside == Cardinality(Inside(x, i, l))
      regular == AtMost(Standard - acc.used[d], inside)
      ot == inside - regular + AtMost(l.approved, Cardinality(Outside(x, i, l)))
      percent == DayMultiplier(x.holidays[d], FALSE)
      premium == Pay(regular, percent - 100)
      holiday == CASE x.holidays[d] # "Regular" -> premium
                   [] d \in acc.paid -> 0
                   [] OTHER -> AtLeast(Pay(Standard, 100), premium)
      nd == AtMost(Cardinality(Night(Worked(l))), regular + ot)
      earned == Earned(acc.earned, d, Pay(regular, 100), Pay(ot, OvertimeMultiplier(percent)), nd * percent, holiday) IN
  IF l.absent THEN BaseAbsent(x, acc, l)
  ELSE [used |-> [acc.used EXCEPT ![d] = @ + regular],
        paid |-> IF x.holidays[d] = "Regular" THEN acc.paid \cup {d} ELSE acc.paid,
        earned |-> [earned EXCEPT !.regularHours = @ + regular, !.otHours = @ + ot, !.ndHours = @ + nd]]

(* Regular holidays that neither a log nor an absence has paid. *)
Unworked(x, cutoff, paid) ==
  {d \in cutoff : /\ x.holidays[d] = "Regular" /\ d \notin paid
                  /\ \A k \in DOMAIN LogsIn(x, cutoff) : LogsIn(x, cutoff)[k].date # d}

Base(x, cutoff) ==
  LET acc == FoldLeft(LAMBDA a, l : BaseLog(x, cutoff, a, l),
                      [used |-> [d \in Days |-> 0], paid |-> {}, earned |-> Nothing], LogsIn(x, cutoff)) IN
  FoldLeft(LAMBDA r, d : Earned(r, d, 0, 0, 0, Pay(Standard, 100)),
           acc.earned, SetToSeq(Unworked(x, cutoff, acc.paid)))

-----------------------------------------------------------------------------
(* Pass 2: apply_independent_split_shift_allocation.  What the engine did with *)
(* the logs of a day is reconstructed log by log, and the difference applied.  *)

(* Logs of a day, present, with or without a schedule. *)
PresentOn(x, cutoff, d, scheduled) ==
  LET logs == LogsIn(x, cutoff) IN
  Picked(logs, {k \in DOMAIN logs : /\ ~logs[k].absent /\ logs[k].date = d
                                    /\ (ScheduleOf(x, cutoff, logs[k]) # 0) = scheduled})

(* Days on which logs were matched with several shifts; days without any shift. *)
MatchedOn(x, cutoff, d) == PresentOn(x, cutoff, d, TRUE)
SplitDays(x, cutoff) ==
  {d \in cutoff : \E k, j \in DOMAIN MatchedOn(x, cutoff, d) :
     ScheduleOf(x, cutoff, MatchedOn(x, cutoff, d)[k]) # ScheduleOf(x, cutoff, MatchedOn(x, cutoff, d)[j])}
UnscheduledOn(x, cutoff, d) ==
  IF OnDate(x, cutoff, d) # {} THEN <<>> ELSE PresentOn(x, cutoff, d, FALSE)

(* The accumulator: what is earned, and the hours of the engine's pool that are used. *)
Corrected(acc, d, oldRegular, regular, ot, percent) ==
  LET earned == Earned(acc.earned, d, Pay(regular, 100), Pay(ot, OvertimeMultiplier(percent)), 0,
                       Pay(regular, percent - 100)) IN
  [used |-> acc.used + oldRegular,
   earned |-> [earned EXCEPT !.regularHours = @ + regular, !.otHours = @ + ot]]

SplitLog(x, cutoff, acc, l) ==
  LET inside == Cardinality(Inside(x, ScheduleOf(x, cutoff, l), l))
      old == AtMost(AtLeast(0, Standard - acc.used), inside)
      new == AtMost(Standard, inside) IN
  Corrected(acc, l.date, old, new - old, old - new, DayMultiplier(x.holidays[l.date], FALSE))

UnscheduledLog(x, acc, l) ==
  LET worked == Cardinality(Worked(l))
      old == AtMost(AtLeast(0, Standard - acc.used), worked)
      excess == worked - old IN
  Corrected(acc, l.date, old, 0, AtMost(l.approved, excess) - excess, DayMultiplier(x.holidays[l.date], FALSE))

SplitDay(x, cutoff, r, d) ==
  FoldLeft(LAMBDA a, l : SplitLog(x, cutoff, a, l), [used |-> 0, earned |-> r], MatchedOn(x, cutoff, d)).earned
UnscheduledDay(x, cutoff, r, d) ==
  FoldLeft(LAMBDA a, l : UnscheduledLog(x, a, l), [used |-> 0, earned |-> r], UnscheduledOn(x, cutoff, d)).earned

PerShift(x, cutoff, r) ==
  LET split == FoldLeft(LAMBDA q, d : SplitDay(x, cutoff, q, d), r, SetToSeq(SplitDays(x, cutoff))) IN
  FoldLeft(LAMBDA q, d : UnscheduledDay(x, cutoff, q, d), split, SetToSeq(cutoff))

-----------------------------------------------------------------------------
(* The segments of a log by its position: hours of regular work and overtime.  Regular *)
(* hours are counted per shift, or per day without one.  Approved overtime is taken    *)
(* after the shift first, then before it.                                              *)

Key_OfTheDay(x, cutoff, l) == <<"date", l.date>>
Key(x, cutoff, l) == LET i == ScheduleOf(x, cutoff, l) IN IF i # 0 THEN <<"shift", i>> ELSE <<"date", l.date>>

RegularLog(x, cutoff, done, l) ==
  LET logs == LogsIn(x, cutoff)
      used == FoldLeft(+, 0, [j \in DOMAIN done |->
                IF Key(x, cutoff, logs[j]) = Key(x, cutoff, l) THEN Cardinality(done[j]) ELSE 0])
      hours == First(Inside(x, ScheduleOf(x, cutoff, l), l), AtLeast(0, Standard - used)) IN
  Append(done, IF l.absent THEN {} ELSE hours)

Regular(x, cutoff) == FoldLeft(LAMBDA done, l : RegularLog(x, cutoff, done, l), <<>>, LogsIn(x, cutoff))

(* Of hours outside the shift, those approved. *)
ApprovedOutside(x, i, l) ==
  LET after == {h \in Outside(x, i, l) : \A w \in Window(x, i, l) : w < h}
      before == Outside(x, i, l) \ after IN
  First(after, l.approved) \cup First(before, AtLeast(0, l.approved - Cardinality(after)))

Overtime(x, cutoff, l, regular) ==
  LET i == ScheduleOf(x, cutoff, l)
      excess == Inside(x, i, l) \ regular IN
  IF l.absent THEN {}
  ELSE IF i = 0 THEN First(excess, l.approved)
  ELSE excess \cup ApprovedOutside(x, i, l)

(* Hours that are paid, with their log and the shift of it (0: none). *)
Segments(x, cutoff) ==
  LET logs == LogsIn(x, cutoff)
      regular == Regular(x, cutoff)
      Of(k, hours, overtime) ==
        [log : {logs[k]}, at : {k}, shift : {ScheduleOf(x, cutoff, logs[k])}, hour : hours, overtime : {overtime}] IN
  UNION {Of(k, regular[k], FALSE) \cup Of(k, Overtime(x, cutoff, logs[k], regular[k]), TRUE) : k \in DOMAIN logs}

(* day_multiplier: the holiday of the calendar day, the rest day of the shift's own day. *)
MultiplierAt(x, s) ==
  LET early == \A w \in Window(x, s.shift, s.log) : s.hour < w
      own == IF s.shift = 0 THEN s.log.date
             ELSE IF early THEN DateOf(s.hour) ELSE x.shifts[s.shift].date IN
  DayMultiplier(x.holidays[DateOf(s.hour)], own \in x.rest)

Rated(x, s) ==
  IF s.overtime THEN OvertimeMultiplier(MultiplierAt(x, s)) ELSE MultiplierAt(x, s)
(* The month that a segment is earned in: that of its shift, or of its own day. *)
OriginMonth(x, s) == MonthOf[IF s.shift = 0 THEN s.log.date ELSE x.shifts[s.shift].date]

(* replace_dated_component: the months follow what a later pass put in its place. *)
Replaced(dated, old, new) == [m \in Months |-> dated[m] + new[m] - old[m]]

-----------------------------------------------------------------------------
(* Pass 3: apply_payable_night_diff. *)

NightSegments(x, cutoff) == {s \in Segments(x, cutoff) : Night({s.hour}) # {}}
NightDiff_OfTheLog(x, cutoff, r) == r
NightDiff_Undated(x, cutoff, r) == [r EXCEPT !.nd = Summed([s \in NightSegments(x, cutoff) |-> Rated(x, s)])]
NightDiff(x, cutoff, r) ==
  LET night == NightSegments(x, cutoff)
      months == [m \in Months |-> Summed([s \in {t \in night : OriginMonth(x, t) = m} |-> Rated(x, s)])] IN
  IF r.ndHours = Cardinality(night) /\ r.nd = Summed(months) THEN r
  ELSE [r EXCEPT !.ndHours = Cardinality(night), !.nd = Summed(months), !.datedNd = months,
                 !.dated = Replaced(@, r.datedNd, months)]

(* Pass 4: apply_holiday_payroll_adjustment. *)

(* regular_holiday_eligibility, from the last day before that is on record. *)
WorkedOn(x, d) == \E k \in DOMAIN x.logs : x.logs[k].date = d /\ ~x.logs[k].absent
OnRecord(x, d) == d \notin x.rest /\ ((\E k \in DOMAIN x.logs : x.logs[k].date = d)
                                      \/ \E i \in DOMAIN x.shifts : x.shifts[i].date = d)
Refused(x, holiday) ==
  \E d \in Days : /\ d < holiday /\ OnRecord(x, d) /\ ~WorkedOn(x, d)
                  /\ \A e \in Days : d < e /\ e < holiday => ~OnRecord(x, e)

(* A regular holiday pays the standard hours, worked or not, and those worked above 100 *)
(* per cent at the highest multiplier of the day's regular hours.                       *)
GuaranteeOn(x, segments, d) ==
  LET worked == {s \in segments : DateOf(s.hour) = d /\ ~s.overtime}
      percent == Max({200} \cup {MultiplierAt(x, s) : s \in worked}) IN
  IF Refused(x, d) THEN Pay(Cardinality(worked), percent - 100)
  ELSE Pay(Standard, 100) + Pay(Cardinality(worked), percent - 200)

(* Premiums of rest days and special holidays, per hour. *)
Premium(x, s) ==
  IF s.overtime \/ x.holidays[DateOf(s.hour)] = "Regular" THEN 0 ELSE Pay(1, MultiplierAt(x, s) - 100)

Holidays(x, cutoff, r) ==
  LET segments == Segments(x, cutoff)
      OfMonth(m) == {s \in segments : OriginMonth(x, s) = m}
      regular == {d \in cutoff : x.holidays[d] = "Regular"}
      ot == [m \in Months |-> Summed([s \in {t \in OfMonth(m) : t.overtime} |-> Pay(1, Rated(x, s))])]
      holiday == [m \in Months |->
        Summed([s \in OfMonth(m) |-> Premium(x, s)])
        + Summed([d \in {e \in regular : MonthOf[e] = m} |-> GuaranteeOn(x, segments, d)])] IN
  [r EXCEPT !.ot = Summed(ot), !.holiday = Summed(holiday), !.datedOt = ot, !.datedHoliday = holiday,
            !.dated = Replaced(Replaced(@, r.datedHoliday, holiday), r.datedOt, ot)]

-----------------------------------------------------------------------------
After(n, x, cutoff, r) ==
  CASE n = 1 -> Base(x, cutoff)
    [] n = 2 -> PerShift(x, cutoff, r)
    [] n = 3 -> NightDiff(x, cutoff, r)
    [] n = 4 -> Holidays(x, cutoff, r)
Computed(x, cutoff) == FoldLeft(LAMBDA r, n : After(n, x, cutoff, r), Nothing, <<1, 2, 3, 4>>)
Gross(r) == Summed([part \in {"regular", "ot", "nd", "holiday"} |-> r[part]])

PayInit ==
  /\ input \in Inputs
  /\ pass = 0
  /\ result = Nothing

Pass(n, r) ==
  /\ pass = n - 1
  /\ pass' = n
  /\ result' = r
  /\ UNCHANGED input

ComputeBase == Pass(1, Base(input, Cutoff))
ApplyPerShift == Pass(2, PerShift(input, Cutoff, result))
ApplyNightDiff == Pass(3, NightDiff(input, Cutoff, result))
ApplyHolidays == Pass(4, Holidays(input, Cutoff, result))

PayNext == ComputeBase \/ ApplyPerShift \/ ApplyNightDiff \/ ApplyHolidays

PaySpec == PayInit /\ [][PayNext]_payVars

-----------------------------------------------------------------------------

(***************************************************************************)
(* Statutory contributions are computed from the earnings per month, and   *)
(* _recompute_statutory_and_net refuses a cutoff over two months when they *)
(* do not add up to the gross pay: after every pass they do, and so do the *)
(* parts that a later pass takes out again.                                *)
(***************************************************************************)
MonthsAddUp ==
  /\ Summed(result.dated) = Gross(result)
  /\ Summed(result.datedOt) = result.ot /\ Summed(result.datedNd) = result.nd
  /\ Summed(result.datedHoliday) = result.holiday

(***************************************************************************)
(* The hours that a payslip shows come from the first two passes, the pay  *)
(* for overtime and nights from the last two, which allocate the hours     *)
(* anew: on days whose attendance is assigned to shifts without doubt they *)
(* are the same hours.                                                     *)
(***************************************************************************)
Certain(x) ==
  \A k \in DOMAIN LogsIn(x, Cutoff) :
    LET l == LogsIn(x, Cutoff)[k] IN ScheduleOf(x, Cutoff, l) = 0 => OnDate(x, Cutoff, l.date) = {}
SegmentHours(x, overtime) == Cardinality({s \in Segments(x, Cutoff) : s.overtime = overtime})
HoursAgree ==
  /\ result.regularHours = SegmentHours(input, FALSE)
  /\ result.otHours = SegmentHours(input, TRUE)
PaidHoursAreShown == pass = 4 /\ Certain(input) => HoursAgree

(***************************************************************************)
(* Time outside its shift that nobody approved earns nothing: neither pay, *)
(* nor a night differential, nor a holiday premium.                        *)
(***************************************************************************)
Trim(x, l) ==
  LET i == ScheduleOf(x, Cutoff, l)
      inside == Inside(x, i, l)
      from == CHOOSE h \in inside : \A k \in inside : h <= k
      to == CHOOSE h \in inside : \A k \in inside : k <= h IN
  IF l.absent \/ i = 0 \/ l.approved > 0 \/ inside = {} \/ from > (l.date + 1) * Day THEN l
  ELSE [l EXCEPT !.in = from % Day, !.out = (to + 1) % Day]
Trimmed(x) == [x EXCEPT !.logs = [k \in DOMAIN x.logs |-> Trim(x, x.logs[k])]]
UnapprovedEarnsNothing ==
  pass = 4 => Gross(result) = Gross(Computed(Trimmed(input), Cutoff))

(***************************************************************************)
(* Where a period is cut does not change what is earned: two cutoffs pay   *)
(* together what one over the days of both pays.  Excepted is work of a    *)
(* rest day that runs past midnight into a regular holiday of the second   *)
(* cutoff: the rate of the two together is only paid by a cutoff that      *)
(* holds both the holiday and the log of the day before.                   *)
(***************************************************************************)
Parts(d) == {{e \in Cutoff : e < d}, {e \in Cutoff : e >= d}}
SplitPays(x, d) == Summed([part \in Parts(d) |-> Gross(Computed(x, part))])
RunsIntoHoliday(x, d) ==
  /\ x.holidays[d] = "Regular"
  /\ \E k \in DOMAIN x.logs : x.logs[k].date \in x.rest /\ \E h \in Worked(x.logs[k]) : DateOf(h) = d
CutoffNeutral ==
  pass = 4 => \A d \in Cutoff : RunsIntoHoliday(input, d) \/ SplitPays(input, d) = Gross(result)
=============================================================================
