----------------------------- MODULE AttendanceDay -----------------------------
(***************************************************************************)
(* The actual attendance of one employee beside the scheduled shifts and   *)
(* the leave of the same days: the day editor (api/schedules.py), absences *)
(* and SIL (api/schedule_leave_fractional.py, api/sil_leave.py), the two   *)
(* imports of attendance templates (api/attendance_template_import.py and  *)
(* api/attendance_template_split_shift.py), reviews (api/main.py,          *)
(* api/schedule_review_queue.py), rest days (api/schedule_rest_days.py),   *)
(* the cleared day with its triggers (api/schedule_day_reset_safe.py), and *)
(* the reconciliation at every start of the service                        *)
(* (api/split_shift_actual_reconciliation.py).                             *)
(*                                                                         *)
(* Times are hours of the day; rows of which one time is missing, overtime *)
(* and notes are left out.  A handler reads before the write that opens    *)
(* its transaction: Read is those reads, each handler is its writes.       *)
(***************************************************************************)
EXTENDS Integers, Sequences, FiniteSets, SequencesExt

CONSTANTS
  Dates,       \* the days modelled
  BoardDates,  \* those and the days a shift may be moved to
  Slots,       \* hours of shifts: [from, to]
  Punches,     \* hours that the day editor saves: [in, out]
  Verdicts,    \* reviews that the day editor and the reviewers give
  Uploads,     \* template uploads for one day: sequences of rows
  Clerks,      \* requests in progress
  MaxShifts,   \* bound: ids of scheduled_shifts
  MaxLogs      \* bound: ids of time_logs

Day == 24
NoTime == -1

Hours == 0..(Day - 1)
ShiftIds == 1..MaxShifts
LogIds == 1..MaxLogs
Sources == {"manual", "template_upload"}
LogStatuses == {"Approved", "Needs Review", "Rejected"}
NoShift == [date |-> 0]
NoLog == [status |-> "Absent"]
ShiftType == [date : BoardDates, from : Hours, to : Hours]
LogType == [date : Dates, shift : ShiftIds \cup {0}, in : Hours \cup {NoTime},
            out : Hours \cup {NoTime}, absent : BOOLEAN, status : LogStatuses, source : Sources]
RowType == [in : Hours \cup {NoTime}, out : Hours \cup {NoTime}, absent : BOOLEAN, status : LogStatuses]
Idle == [busy |-> FALSE]

ASSUME DatesAssumption == BoardDates \subseteq Nat \ {0} /\ Dates \subseteq BoardDates /\ IsFiniteSet(Dates)
ASSUME SlotsAssumption == Slots \subseteq [from : Hours, to : Hours] /\ Punches \subseteq [in : Hours, out : Hours]
ASSUME VerdictsAssumption == Verdicts \subseteq {"Approved", "Needs Review"}
ASSUME UploadsAssumption == \A u \in Uploads : u # <<>> /\ u \in Seq(RowType)
ASSUME BoundsAssumption == MaxShifts \in Nat /\ MaxLogs \in Nat

VARIABLES
  shifts,    \* scheduled_shifts of the employee
  logs,      \* time_logs of the employee
  nextLog,   \* the next id of time_logs
  onLeave,   \* the dates that active leave covers
  cleared,   \* schedule_day_markers: Attendance Cleared
  clerk      \* what each request in progress has read

attendance == <<logs, nextLog>>
vars == <<shifts, attendance, onLeave, cleared, clerk>>

-----------------------------------------------------------------------------
Logs(rows) == {l \in LogIds : rows[l] # NoLog}
Active(rows) == {l \in Logs(rows) : rows[l].status # "Rejected"}
On(rows, d) == {l \in Active(rows) : rows[l].date = d}
Loose(rows, d) == {l \in On(rows, d) : rows[l].shift = 0}
Template(rows, d) == {l \in Logs(rows) : rows[l].date = d /\ rows[l].source = "template_upload"}
ShiftsOn(board, d) == {i \in ShiftIds : board[i].date = d}
Newest(ids) == IF ids = {} THEN 0 ELSE CHOOSE l \in ids : \A m \in ids : m <= l

(* fetch_time_log: the log of shift i, or of the day when i is 0. *)
LogFor(rows, board, d, i) ==
  LET linked == {l \in On(rows, d) : rows[l].shift = i} IN
  Newest(IF i = 0 THEN Loose(rows, d)
         ELSE IF linked # {} THEN linked
         ELSE IF Cardinality(ShiftsOn(board, d)) = 1 THEN Loose(rows, d) ELSE {})

(* The triggers on time_logs: on a cleared day only manual rows are written. *)
Blocked_Updates(date, source) == FALSE
Blocked(date, source) == date \in cleared /\ source # "manual"

(* UNIQUE of time_logs, and uq_time_logs_scheduled_shift_active. *)
Unique(rows) ==
  \A l, m \in Logs(rows) : l # m =>
    /\ rows[l].in # NoTime /\ rows[l].out # NoTime =>
         \/ rows[l].date # rows[m].date \/ rows[l].source # rows[m].source
         \/ rows[l].in # rows[m].in \/ rows[l].out # rows[m].out
    /\ rows[l].shift # 0 /\ {l, m} \subseteq Active(rows) => rows[l].shift # rows[m].shift

(* An UPDATE by id, which may find no row any more. *)
Updated(l, row) == IF logs[l] = NoLog \/ Blocked(row.date, row.source) THEN logs ELSE [logs EXCEPT ![l] = row]

(* The rows of new logs, a sequence, from the next id on. *)
Inserted(rows, new) ==
  [l \in LogIds |-> IF l \in nextLog..(nextLog + Len(new) - 1) THEN new[l - nextLog + 1] ELSE rows[l]]

Log(d, i, row, source) ==
  [date |-> d, shift |-> i, in |-> row.in, out |-> row.out, absent |-> row.absent,
   status |-> row.status, source |-> source]

-----------------------------------------------------------------------------
(* Continuous work over shifts that touch: the shifts in order of their start. *)

InOrder(board, ids) ==
  LET Before(j, i) == board[j].from < board[i].from \/ (board[j].from = board[i].from /\ j < i)
      Place(i) == 1 + Cardinality({j \in ids : Before(j, i)}) IN
  [k \in 1..Cardinality(ids) |-> CHOOSE i \in ids : Place(i) = k]

EndHour(from, to) == IF to <= from THEN to + Day ELSE to

Segmentable(board, order, row) ==
  LET Ends(k) == EndHour(board[order[k]].from, board[order[k]].to)
      n == Len(order) IN
  /\ n > 1 /\ row.in # NoTime /\ row.out # NoTime
  /\ \A k \in 1..(n - 1) :
       /\ Ends(k) = board[order[k + 1]].from
       /\ row.in < Ends(k) /\ Ends(k) < EndHour(row.in, row.out)
  /\ EndHour(row.in, row.out) > board[order[n]].from

(* The part of the work that falls to shift k of the order. *)
Segment_Scheduled(board, order, row, k) ==
  [row EXCEPT !.in = board[order[k]].from, !.out = board[order[k]].to]
Segment(board, order, row, k) ==
  [row EXCEPT !.in = IF k = 1 THEN row.in ELSE board[order[k]].from,
              !.out = IF k = Len(order) THEN row.out ELSE board[order[k]].to]

-----------------------------------------------------------------------------
(* reconcile_unlinked_split_shift_logs.  A link is stale when its shift is gone or *)
(* of another date.                                                                *)

Detached(rows) ==
  [l \in LogIds |->
     IF l \in Active(rows) /\ rows[l].shift # 0 /\ rows[l].shift \notin ShiftsOn(shifts, rows[l].date)
     THEN [rows[l] EXCEPT !.shift = 0] ELSE rows[l]]

Remaining(rows, d) == {i \in ShiftsOn(shifts, d) : \A l \in On(rows, d) : rows[l].shift # i}
Unlinked(rows, d) == {l \in Loose(rows, d) : rows[l].in # NoTime}

(* One row over all remaining shifts: it keeps the first segment, clones the others. *)
Segmented(rows, next, d, l, order) ==
  LET Part(k) == [Segment(shifts, order, rows[l], k) EXCEPT !.shift = order[k]] IN
  [m \in LogIds |-> IF m = l THEN Part(1)
                    ELSE IF m \in next..(next + Len(order) - 2) THEN Part(m - next + 2) ELSE rows[m]]

(* As many rows as shifts, no two with the same start: paired in order. *)
Pairable(rows, d) ==
  LET loose == Unlinked(rows, d) IN
  /\ Cardinality(loose) = Cardinality(Remaining(rows, d))
  /\ \A l, m \in loose : rows[l].in = rows[m].in => l = m

Paired(rows, d) ==
  LET order == InOrder(shifts, Remaining(rows, d))
      loose == Unlinked(rows, d)
      Rank(l) == Cardinality({m \in loose : rows[m].in <= rows[l].in}) IN
  [l \in LogIds |-> IF l \in loose THEN [rows[l] EXCEPT !.shift = order[Rank(l)]] ELSE rows[l]]

(* One day: pairs of the rows and the next id. *)
DayReconciled(acc, d) ==
  LET rows == acc.rows
      loose == Unlinked(rows, d)
      order == InOrder(shifts, Remaining(rows, d))
      l == Newest(loose)
      splittable == /\ Cardinality(loose) = 1 /\ Segmentable(shifts, order, rows[l])
                    /\ ~Blocked(d, rows[l].source) IN
  IF loose = {} \/ Cardinality(ShiftsOn(shifts, d)) < 2 THEN acc
  ELSE IF splittable THEN [rows |-> Segmented(rows, acc.next, d, l, order), next |-> acc.next + Len(order) - 1]
  ELSE IF Pairable(rows, d) THEN [acc EXCEPT !.rows = Paired(rows, d)]
  ELSE acc

(* The days one after the other, the last one on top. *)
Reconciled(rows, next) ==
  MapThenFoldSet(LAMBDA d, acc : DayReconciled(acc, d), [rows |-> Detached(rows), next |-> next],
                 LAMBDA d : d, Max, Dates)

-----------------------------------------------------------------------------
Init ==
  /\ shifts = [i \in ShiftIds |-> NoShift]
  /\ logs = [l \in LogIds |-> NoLog]
  /\ nextLog = 1
  /\ onLeave = {} /\ cleared = {}
  /\ clerk = [c \in Clerks |-> Idle]

Read(c) ==
  /\ ~clerk[c].busy
  /\ clerk' = [clerk EXCEPT ![c] = [busy |-> TRUE, shifts |-> shifts, logs |-> logs, onLeave |-> onLeave]]
  /\ UNCHANGED <<shifts, attendance, onLeave, cleared>>

(* What a handler acts on: its reads, or the present rows when nothing came in between. *)
Seen(c) == IF clerk[c].busy THEN clerk[c] ELSE [shifts |-> shifts, logs |-> logs, onLeave |-> onLeave]
Finish(c) == clerk' = [clerk EXCEPT ![c] = Idle]

(* The request is refused, or its connection is lost before the commit. *)
Abandon(c) ==
  /\ clerk[c].busy
  /\ Finish(c)
  /\ UNCHANGED <<shifts, attendance, onLeave, cleared>>

(* The commit of a handler that wrote these logs, n of them new: refused by UNIQUE. *)
Commit(rows, n) ==
  /\ nextLog + n - 1 <= MaxLogs
  /\ Unique(rows)
  /\ logs' = rows
  /\ nextLog' = nextLog + n

(* What editors of the grid and the undo do to shifts (ScheduleBoard): logs keep *)
(* their links, and a deleted shift may come back under its id.                  *)
EditGrid(i, shift) ==
  /\ shifts[i] # shift
  /\ shifts' = [shifts EXCEPT ![i] = shift]
  /\ UNCHANGED <<attendance, onLeave, cleared, clerk>>

(* What requests for leave and their decisions do (LeaveLedger): no log is touched. *)
ChangeLeave(d) ==
  /\ onLeave' = IF d \in onLeave THEN onLeave \ {d} ELSE onLeave \cup {d}
  /\ UNCHANGED <<shifts, attendance, cleared, clerk>>

(* save_day_actual: without a shift the day must have at most one. *)
SaveActual(c, d, i, punch, status) ==
  LET read == Seen(c)
      l == LogFor(read.logs, read.shifts, d, i)
      row == Log(d, i, [in |-> punch.in, out |-> punch.out, absent |-> FALSE, status |-> status], "manual") IN
  /\ d \notin read.onLeave
  /\ IF i = 0 THEN Cardinality(ShiftsOn(read.shifts, d)) <= 1 ELSE i \in ShiftsOn(read.shifts, d)
  /\ IF l = 0 THEN Commit(Inserted(logs, <<row>>), 1)
     ELSE Commit(Updated(l, [row EXCEPT !.source = read.logs[l].source]), 0)
  /\ Finish(c)
  /\ UNCHANGED <<shifts, onLeave, cleared>>

(* save_day_leave, save_sil_leave: only a log without a shift is found and marked. *)
SaveAbsence(c, d, kind) ==
  LET read == Seen(c)
      l == LogFor(read.logs, read.shifts, d, 0)
      status == IF kind = "AWOL" THEN "Needs Review" ELSE "Approved"
      new == Log(d, 0, [in |-> NoTime, out |-> NoTime, absent |-> TRUE, status |-> status], "manual") IN
  /\ IF l # 0 THEN Commit(IF kind = "None" THEN Updated(l, [logs[l] EXCEPT !.absent = FALSE])
                          ELSE Updated(l, [logs[l] EXCEPT !.absent = TRUE, !.status = status]), 0)
     ELSE IF kind = "None" THEN Commit(logs, 0)
     ELSE Commit(Inserted(logs, <<new>>), 1)
  /\ onLeave' = IF kind = "Leave" THEN onLeave \cup {d} ELSE onLeave \ {d}
  /\ Finish(c)
  /\ UNCHANGED <<shifts, cleared>>

Without(rows, ids) == [l \in LogIds |-> IF l \in ids THEN NoLog ELSE rows[l]]

(* A row of an upload as it is inserted. *)
Imported(d, i, row) == Log(d, i, row, "template_upload")

(* import_attendance_template: every row replaces the earlier ones of its day, the *)
(* rows before it in the same upload included.                                     *)
ImportTemplate(d, upload, replace) ==
  LET kept == IF replace THEN Without(logs, Template(logs, d)) ELSE logs
      rows == IF Blocked(d, "template_upload") THEN <<>> ELSE IF replace THEN <<Last(upload)>> ELSE upload IN
  /\ Commit(Inserted(kept, [k \in DOMAIN rows |-> Imported(d, 0, rows[k])]), Len(rows))
  /\ UNCHANGED <<shifts, onLeave, cleared, clerk>>

(* _link_split_shift_rows: the logs that an upload of one day stands for. *)
Matched(board, d, upload) ==
  LET order == InOrder(board, ShiftsOn(board, d))
      n == Len(upload)
      New(i, row) == Imported(d, i, row)
      Rank(k) == Cardinality({j \in 1..n : upload[j].in <= upload[k].in})
      distinct == \A j, k \in 1..n : upload[j].in # NoTime /\ (upload[j].in = upload[k].in => j = k) IN
  IF order = <<>> THEN [k \in 1..n |-> New(0, upload[k])]
  ELSE IF n = 1 /\ Len(order) = 1 THEN <<New(order[1], upload[1])>>
  ELSE IF n = Len(order) /\ distinct THEN [k \in 1..n |-> New(order[Rank(k)], upload[k])]
  ELSE IF n = 1 /\ Segmentable(board, order, upload[1])
    THEN [k \in DOMAIN order |-> New(order[k], Segment(board, order, upload[1], k))]
  ELSE [k \in 1..n |-> New(0, [upload[k] EXCEPT !.status = "Needs Review"])]

(* Of those, what is no duplicate and no second log of a shift with another source. *)
Importable(read, new) ==
  LET Taken(i) == i # 0 /\ \E l \in Active(read.logs) : read.logs[l].shift = i /\ read.logs[l].source = "manual"
      Ok(k) == /\ \A j \in 1..(k - 1) : new[j].in # new[k].in \/ new[j].out # new[k].out
               /\ ~Taken(new[k].shift)
      ok == {k \in DOMAIN new : Ok(k)}
      Place(k) == Cardinality({j \in ok : j <= k}) IN
  [n \in 1..Cardinality(ok) |-> new[CHOOSE k \in ok : Place(k) = n]]

(* An import that makes room for its rows without asking where the old ones came from. *)
ImportSplit_Replaces(c, d, upload, replace) ==
  LET rows == Importable(Seen(c), Matched(Seen(c).shifts, d, upload)) IN
  /\ Commit(Inserted(Without(logs, On(logs, d)), rows), Len(rows))
  /\ Finish(c)
  /\ UNCHANGED <<shifts, onLeave, cleared>>

(* import_attendance_template_v2 *)
ImportSplit(c, d, upload, replace) ==
  LET rows == Importable(Seen(c), Matched(Seen(c).shifts, d, upload))
      kept == IF replace /\ rows # <<>> THEN Without(logs, Template(logs, d)) ELSE logs
      new == IF Blocked(d, "template_upload") THEN <<>> ELSE rows IN
  /\ Commit(Inserted(kept, new), Len(new))
  /\ Finish(c)
  /\ UNCHANGED <<shifts, onLeave, cleared>>

(* decide_review_item and attendance_decision: any row, by id. *)
Decide(l, status) ==
  /\ logs[l] # NoLog
  /\ Commit(Updated(l, [logs[l] EXCEPT !.status = status]), 0)
  /\ UNCHANGED <<shifts, onLeave, cleared, clerk>>

(* What a rest day regards as attendance. *)
Actuals(rows, d) == {l \in On(rows, d) : rows[l].in # NoTime \/ rows[l].absent}

(* save_rest_day of a rest day: a day with shifts is refused, attendance that it saw *)
(* goes.  The marker itself is read by none of these handlers.                       *)
RestDay(c, d) ==
  /\ ShiftsOn(Seen(c).shifts, d) = {} /\ Actuals(Seen(c).logs, d) # {}
  /\ logs' = Without(logs, {l \in Logs(logs) : logs[l].date = d})
  /\ Finish(c)
  /\ UNCHANGED <<shifts, nextLog, onLeave, cleared>>

(* reset_day *)
ResetDay(d) ==
  /\ shifts' = [i \in ShiftIds |-> IF shifts[i].date = d THEN NoShift ELSE shifts[i]]
  /\ logs' = Without(logs, {l \in Logs(logs) : logs[l].date = d})
  /\ onLeave' = onLeave \ {d} /\ cleared' = cleared \cup {d}
  /\ UNCHANGED <<nextLog, clerk>>

(* The service stops, with whatever was in progress, and reconciles before it serves *)
(* again.  A reconciliation that UNIQUE refuses keeps it from starting.              *)
Restart ==
  LET end == Reconciled(logs, nextLog) IN
  /\ Commit(end.rows, end.next - nextLog)
  /\ clerk' = [c \in Clerks |-> Idle]
  /\ UNCHANGED <<shifts, onLeave, cleared>>

Imports ==
  \E d \in Dates, upload \in Uploads, replace \in BOOLEAN :
    \/ ImportTemplate(d, upload, replace)
    \/ \E c \in Clerks : ImportSplit(c, d, upload, replace)

Next ==
  \/ Imports
  \/ \E i \in ShiftIds :
       \/ EditGrid(i, NoShift)
       \/ \E d \in BoardDates, s \in Slots : EditGrid(i, [date |-> d, from |-> s.from, to |-> s.to])
  \/ \E d \in Dates : ChangeLeave(d) \/ ResetDay(d)
  \/ \E l \in LogIds, status \in Verdicts : Decide(l, status)
  \/ \E c \in Clerks :
       \/ Read(c) \/ Abandon(c)
       \/ \E d \in Dates :
            \/ \E i \in ShiftIds \cup {0}, p \in Punches, s \in Verdicts : SaveActual(c, d, i, p, s)
            \/ \E kind \in {"None", "AWOL", "Excused", "Leave"} : SaveAbsence(c, d, kind)
            \/ RestDay(c, d)
  \/ Restart

Spec == Init /\ [][Next]_vars

-----------------------------------------------------------------------------

(***************************************************************************)
(* A day that was cleared holds what people entered afterwards and nothing *)
(* else, whatever is imported, saved from stale reads or reconciled.       *)
(***************************************************************************)
ClearedDayStaysManual ==
  \A l \in Logs(logs) : logs[l].date \in cleared => logs[l].source = "manual"

(***************************************************************************)
(* An import adds and replaces template rows only: the times, the absence, *)
(* the review and the shift of a manual row survive it.                    *)
(***************************************************************************)
Manual == {l \in Logs(logs) : logs[l].source = "manual"}
ImportsKeepManual == [][(\A l \in Manual : logs'[l] = logs[l]) \/ ~Imports]_vars

(***************************************************************************)
(* The reconciliation at the start of the service only assigns work to     *)
(* shifts: every hour of every day is worked as often as before, also when *)
(* it splits one long row; no gap is filled and no overlap counted twice.  *)
(* (MaxLogs must leave room for the rows, and UNIQUE must accept them; a   *)
(* stop abandons what was in progress, so its absence loses nothing.)      *)
(***************************************************************************)
Covers(row, h) == row.in # NoTime /\ row.out # NoTime /\ row.in <= h /\ h < EndHour(row.in, row.out)
Workers(rows, d, h) == Cardinality({l \in On(rows, d) : Covers(rows[l], h)})
AllIdle == \A c \in Clerks : ~clerk[c].busy
Fits(end) == end.next <= MaxLogs + 1 /\ Unique(end.rows)
RestartKeepsWork ==
  LET end == Reconciled(logs, nextLog) IN
  AllIdle /\ end.rows # logs /\ Fits(end) =>
    \A d \in Dates, h \in 0..(2 * Day) : Workers(end.rows, d, h) = Workers(logs, d, h)
=============================================================================
