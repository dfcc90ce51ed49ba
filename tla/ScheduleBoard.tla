---------------------------- MODULE ScheduleBoard ----------------------------
(***************************************************************************)
(* The editable grid of scheduled shifts, its change log and undo, and the *)
(* published copy that staff see and acknowledge: api/schedules.py,        *)
(* api/schedule_standards.py, api/schedule_history_controls.py (move and   *)
(* delete), api/schedule_change_log.py, api/schedule_review_queue.py,      *)
(* api/schedule_publication.py, api/staff_schedule_ack.py, the day reset   *)
(* of api/schedule_day_reset_safe.py as far as it touches shifts, and the  *)
(* undo of api/payroll_revision_controls.py.                               *)
(*                                                                         *)
(* A handler reads before its first write opens its transaction: Load is   *)
(* those reads, at one instant, and each handler is a write that acts on   *)
(* what was loaded, or on the present rows when nothing came in between.   *)
(* What it reads after its first write is read from the grid as it is.     *)
(* Leave does not change here (LeaveLedger does that), and the payroll run *)
(* whose changes are undone covers every date and was saved when the grid  *)
(* was as InitialShifts says.                                              *)
(***************************************************************************)
EXTENDS Integers, Sequences, FiniteSets

CONSTANTS
  Employees,
  Nobody,          \* the employee of an unassigned shift
  Slots,           \* the dates, times and breaks that requests ask for
  Weeks,           \* the weeks that are copied and published
  OnLeave,         \* pairs <<employee, date>> that an active leave covers
  InitialShifts,   \* the shifts at the time of the saved payroll run
  Editors,         \* edits in progress
  MaxShifts,       \* bound: ids of scheduled_shifts
  MaxChanges,      \* bound: length of the change log
  MaxPublications  \* bound: publications of a week

Day == 1440
MaxPaid == 12 * 60
SlotType == [date : Nat, start : 0..(Day - 1), end : 0..(Day - 1), break : Nat]

ASSUME SlotsAssumption == Slots \subseteq SlotType
ASSUME NobodyAssumption == Nobody \notin Employees
ASSUME BoundsAssumption == MaxShifts \in Nat /\ MaxChanges \in Nat /\ MaxPublications \in Nat

Ids == 1..MaxShifts
Owners == Employees \cup {Nobody}
NoShift == [owner |-> Nobody, status |-> "Absent"]
ShiftType == [owner : Owners, slot : SlotType,
              status : {"Draft", "Needs Review", "Confirmed", "Approved"}]
Boards == [Ids -> ShiftType \cup {NoShift}]
Idle == [busy |-> FALSE]

ASSUME InitialAssumption == InitialShifts \in Seq(ShiftType) /\ Len(InitialShifts) <= MaxShifts
ASSUME WeeksAssumption == Weeks \subseteq Int

VARIABLES
  shifts,        \* scheduled_shifts
  nextId,        \* the next id of scheduled_shifts
  log,           \* schedule_change_logs
  editor,        \* what each edit in progress has read
  published,     \* per week: how often it was published
  acks,          \* per week and employee: the publication acknowledged, 0 for none
  unreviewed,    \* history: shifts placed or confirmed without a check of overlaps
  stale,         \* history: shifts written by a handler that had read another row
  unrestorable   \* history: shifts changed by what the undo does not restore

grid == <<shifts, nextId, log>>
history == <<unreviewed, stale, unrestorable>>
publication == <<published, acks>>
boardVars == <<grid, editor, publication, history>>

-----------------------------------------------------------------------------
(* Intervals in minutes; a shift that ends no later than it starts ends the next day. *)

Start(s) == s.date * Day + s.start
End(s) == s.date * Day + s.end + (IF s.end <= s.start THEN Day ELSE 0)
Overlap(s, t) == Start(s) < End(t) /\ Start(t) < End(s)
PaidMinutes(s) == End(s) - Start(s) - s.break
Nearby_SameDay(s, t) == t.date = s.date
Nearby(s, t) == t.date \in (s.date - 1)..(s.date + 1)

(* The payroll run was saved from a grid without double bookings. *)
ASSUME BaselineAssumption ==
  \A i, j \in DOMAIN InitialShifts :
    i # j /\ InitialShifts[i].owner = InitialShifts[j].owner
    => ~Overlap(InitialShifts[i].slot, InitialShifts[j].slot)

Present(board) == {i \in Ids : board[i] # NoShift}
OthersOf(board, e, except) == {i \in Present(board) \ except : board[i].owner = e}

(* ensure_shift_destination_available, conflicting_shift *)
Clashes(board, e, slot, except) ==
  \E i \in OthersOf(board, e, except) : Nearby(slot, board[i].slot) /\ Overlap(slot, board[i].slot)

(* schedule_standard_issues *)
HasIssues(board, i) ==
  LET s == board[i] IN
  \/ s.owner = Nobody
  \/ PaidMinutes(s.slot) > MaxPaid
  \/ Clashes(board, s.owner, s.slot, {i})
  \/ <<s.owner, s.slot.date>> \in OnLeave

(* set_schedule_review_state *)
Reviewed(board, i) ==
  [board EXCEPT ![i].status = IF HasIssues(board, i) THEN "Needs Review" ELSE "Confirmed"]

WeekOf(date) == date \div 7
ShiftsOfWeek(board, w) == {i \in Present(board) : WeekOf(board[i].slot.date) = w}

Entry(entity, i, before, after) ==
  [entity |-> entity, id |-> i, before |-> before, after |-> after, undone |-> FALSE]
Change(i, before, after) == Entry("scheduled_shift", i, before, after)

-----------------------------------------------------------------------------
BoardInit ==
  /\ shifts = [i \in Ids |-> IF i \in DOMAIN InitialShifts THEN InitialShifts[i] ELSE NoShift]
  /\ nextId = Len(InitialShifts) + 1
  /\ log = <<>>
  /\ editor = [c \in Editors |-> Idle]
  /\ published = [w \in Weeks |-> 0]
  /\ acks = [w \in Weeks |-> [e \in Employees |-> 0]]
  /\ unreviewed = {} /\ stale = {} /\ unrestorable = {}

(* The reads of an edit, each a statement of its own before the transaction. *)
Load(c) ==
  /\ ~editor[c].busy
  /\ editor' = [editor EXCEPT ![c] = [busy |-> TRUE, shifts |-> shifts, log |-> log]]
  /\ UNCHANGED <<grid, publication, history>>

(* What a handler acts on: its reads, or the rows as they are when nothing came *)
(* between its reads and its first write.                                       *)
Reads(c) == IF editor[c].busy THEN editor[c] ELSE [shifts |-> shifts, log |-> log]

Finish(c) == editor' = [editor EXCEPT ![c] = Idle]
StaleIds(read, ids) == {i \in ids : read[i] # shifts[i]}

(* An edit is refused, or its connection is lost before the commit. *)
Abandon(c) ==
  /\ editor[c].busy
  /\ Finish(c)
  /\ UNCHANGED <<grid, publication, history>>

Record(entries) ==
  /\ Len(log) + Len(entries) <= MaxChanges
  /\ log' = log \o entries

(* The insertion of a shift, reviewed in the same transaction. *)
InsertReviewed(e, slot) ==
  LET placed == [shifts EXCEPT ![nextId] = [owner |-> e, slot |-> slot, status |-> "Draft"]] IN
  /\ nextId \in Ids
  /\ shifts' = Reviewed(placed, nextId)
  /\ nextId' = nextId + 1
  /\ Record(<<Change(nextId, NoShift, shifts'[nextId])>>)
  /\ UNCHANGED <<editor, publication, history>>

(* create_shift: refused on a day of leave. *)
CreateShift(e, slot) ==
  /\ <<e, slot.date>> \notin OnLeave
  /\ InsertReviewed(e, slot)

(* save_day_schedule without a shift id: leave only makes the shift Needs Review. *)
SaveNewShift(e, slot) == InsertReviewed(e, slot)

(* save_day_schedule with a shift id: an UPDATE by id, which may find no row any more. *)
SaveShift(c, i, e, slot) ==
  LET read == Reads(c).shifts
      placed == [shifts EXCEPT ![i].owner = e, ![i].slot = slot] IN
  /\ read[i] # NoShift
  /\ shifts' = IF shifts[i] = NoShift THEN shifts ELSE Reviewed(placed, i)
  /\ Record(<<Change(i, read[i], shifts'[i])>>)
  /\ unreviewed' = unreviewed \ {i}
  /\ stale' = stale \cup StaleIds(read, {i})
  /\ Finish(c)
  /\ UNCHANGED <<nextId, publication, unrestorable>>

(* move_shift_history: the date alone, without a check of overlaps or a review. *)
MoveShift(c, i, date) ==
  LET read == Reads(c).shifts IN
  /\ read[i] # NoShift
  /\ shifts' = IF shifts[i] = NoShift THEN shifts ELSE [shifts EXCEPT ![i].slot.date = date]
  /\ Record(<<Change(i, read[i], shifts'[i])>>)
  /\ unreviewed' = unreviewed \cup {i}
  /\ stale' = stale \cup StaleIds(read, {i})
  /\ Finish(c)
  /\ UNCHANGED <<nextId, publication, unrestorable>>

(* delete_shift_history *)
DeleteShift(c, i) ==
  LET read == Reads(c).shifts IN
  /\ read[i] # NoShift
  /\ shifts' = [shifts EXCEPT ![i] = NoShift]
  /\ Record(<<Change(i, read[i], NoShift)>>)
  /\ stale' = stale \cup StaleIds(read, {i})
  /\ Finish(c)
  /\ UNCHANGED <<nextId, publication, unreviewed, unrestorable>>

(* duplicate_shift: refused when the copy would overlap; never reviewed. *)
DuplicateShift(c, i, e, date) ==
  LET read == Reads(c).shifts
      copy == [owner |-> e, slot |-> [read[i].slot EXCEPT !.date = date], status |-> "Draft"] IN
  /\ read[i] # NoShift
  /\ e # Nobody => ~Clashes(read, e, copy.slot, {})
  /\ nextId \in Ids
  /\ shifts' = [shifts EXCEPT ![nextId] = copy]
  /\ nextId' = nextId + 1
  /\ Record(<<Change(nextId, NoShift, copy)>>)
  /\ Finish(c)
  /\ UNCHANGED <<publication, history>>

(* copy_week: every shift of the week, whatever is in the target week already.  The *)
(* copies get the next ids, here in the order of the ids of the originals (the code *)
(* orders by date and time, which no property tells apart).                         *)
CopyWeek(c, from, to) ==
  LET read == Reads(c).shifts
      source == ShiftsOfWeek(read, from)
      CopyId(i) == nextId + Cardinality({j \in source : j < i})
      Copy(i) == [owner |-> read[i].owner, status |-> "Draft",
                  slot |-> [read[i].slot EXCEPT !.date = @ + 7 * (to - from)]] IN
  /\ source # {}
  /\ nextId + Cardinality(source) - 1 \in Ids
  /\ shifts' = [n \in Ids |-> IF \E i \in source : n = CopyId(i)
                              THEN Copy(CHOOSE i \in source : n = CopyId(i)) ELSE shifts[n]]
  /\ nextId' = nextId + Cardinality(source)
  /\ Record([k \in 1..Cardinality(source) |->
               Change(nextId + k - 1, NoShift, shifts'[nextId + k - 1])])
  /\ Finish(c)
  /\ UNCHANGED <<publication, history>>

(* reset_day, as far as the shifts go: one log entry for the whole day. *)
ResetDay(c, e, date) ==
  LET ofDay == {i \in OthersOf(shifts, e, {}) : shifts[i].slot.date = date} IN
  /\ shifts' = [i \in Ids |-> IF i \in ofDay THEN NoShift ELSE shifts[i]]
  /\ Record(<<Entry("employee_day", 0, NoShift, NoShift)>>)
  /\ unrestorable' = unrestorable \cup ofDay
  /\ Finish(c)
  /\ UNCHANGED <<nextId, publication, unreviewed, stale>>

(* decide_review_item, for a shift: approves any row, and logs no change. *)
ApproveReview(i) ==
  /\ shifts[i] # NoShift
  /\ shifts' = [shifts EXCEPT ![i].status = "Approved"]
  /\ UNCHANGED <<nextId, log, editor, publication, history>>

(* undo_payroll_period_changes: the entries read before the transaction, newest   *)
(* first, each putting a shift back to what it was before (or removing what was    *)
(* new), so a shift ends as its oldest entry says.  Entries of other entities are  *)
(* marked undone and restore no shift.                                             *)
Restorable(entries, i) ==
  {k \in DOMAIN entries :
     /\ ~entries[k].undone
     /\ entries[k].entity = "scheduled_shift" /\ entries[k].id = i
     /\ entries[k].before # NoShift \/ entries[k].after # NoShift}

Rewound_OldestFirst(entries, board) ==
  [i \in Ids |-> LET ks == Restorable(entries, i) IN
     IF ks = {} THEN board[i] ELSE entries[CHOOSE k \in ks : \A j \in ks : j <= k].before]
Rewound(entries, board) ==
  [i \in Ids |-> LET ks == Restorable(entries, i) IN
     IF ks = {} THEN board[i] ELSE entries[CHOOSE k \in ks : \A j \in ks : k <= j].before]

UndoChanges(c) ==
  LET read == Reads(c).log
      touched == {read[k].id : k \in {j \in DOMAIN read : ~read[j].undone}} \ {0}
      later == {log[k].id : k \in DOMAIN log \ DOMAIN read} \ {0} IN
  /\ \E k \in DOMAIN read : ~read[k].undone
  /\ shifts' = Rewound(read, shifts)
  /\ log' = [k \in DOMAIN log |-> IF k \in DOMAIN read THEN [log[k] EXCEPT !.undone = TRUE] ELSE log[k]]
  /\ unreviewed' = unreviewed \cup touched
  /\ stale' = stale \cup (IF read = log THEN {} ELSE touched \cup later)
  /\ Finish(c)
  /\ UNCHANGED <<nextId, publication, unrestorable>>

(* Publishing again without asking for acknowledgements again. *)
Publish_KeepsAcks(w) ==
  /\ published[w] < MaxPublications
  /\ published' = [published EXCEPT ![w] = @ + 1]
  /\ UNCHANGED <<grid, editor, acks, history>>

(* publish_schedule: the publication, the copy of the grid as it is after the first *)
(* write, and the removal of the acknowledgements are one transaction.              *)
Publish(w) ==
  /\ published[w] < MaxPublications
  /\ published' = [published EXCEPT ![w] = @ + 1]
  /\ acks' = [acks EXCEPT ![w] = [e \in Employees |-> 0]]
  /\ UNCHANGED <<grid, editor, history>>

(* acknowledge_my_schedule *)
Acknowledge(w, e) ==
  /\ published[w] > 0
  /\ acks' = [acks EXCEPT ![w][e] = published[w]]
  /\ UNCHANGED <<grid, editor, published, history>>

Dates == {s.date : s \in Slots}

EditorNext ==
  \E c \in Editors :
    \/ Load(c) \/ Abandon(c) \/ UndoChanges(c)
    \/ \E i \in Ids : \/ \E e \in Owners, s \in Slots : SaveShift(c, i, e, s)
                      \/ \E d \in Dates : MoveShift(c, i, d)
                      \/ DeleteShift(c, i)
                      \/ \E e \in Owners, d \in Dates : DuplicateShift(c, i, e, d)
    \/ \E from, to \in Weeks : CopyWeek(c, from, to)
    \/ \E e \in Employees, d \in Dates : ResetDay(c, e, d)

BoardNext ==
  \/ EditorNext
  \/ \E e \in Owners, s \in Slots : CreateShift(e, s) \/ SaveNewShift(e, s)
  \/ \E i \in Ids : ApproveReview(i)
  \/ \E w \in Weeks : Publish(w) \/ \E e \in Employees : Acknowledge(w, e)

BoardSpec == BoardInit /\ [][BoardNext]_boardVars

-----------------------------------------------------------------------------

(***************************************************************************)
(* Two shifts that the system calls Confirmed never overlap for one        *)
(* employee, unless one of them was placed by a step that does not check   *)
(* (a move, an undo) or by a handler whose reads were stale: creating,     *)
(* saving, duplicating, copying, swapping and changing keep the grid free  *)
(* of unnoticed double bookings.                                           *)
(***************************************************************************)
ConfirmedDoNotOverlap ==
  \A i, j \in Present(shifts) :
    /\ i # j
    /\ shifts[i].owner = shifts[j].owner
    /\ shifts[i].status = "Confirmed" /\ shifts[j].status = "Confirmed"
    /\ Overlap(shifts[i].slot, shifts[j].slot)
    => {i, j} \cap unreviewed # {}

(***************************************************************************)
(* At any time, undoing the open entries of the change log puts every      *)
(* shift back where it was when the payroll run was saved: who, when, and  *)
(* whether it exists.  Exempt are shifts whose row was changed by what the *)
(* undo does not restore (a cleared day, an approved staff request) and    *)
(* shifts that a handler with stale reads wrote.                           *)
(***************************************************************************)
Placement(s) == IF s = NoShift THEN NoShift ELSE [owner |-> s.owner, slot |-> s.slot]
UndoReturnsToBaseline ==
  \A i \in Ids \ (stale \cup unrestorable) :
    Placement(Rewound(log, shifts)[i]) =
      Placement(IF i \in DOMAIN InitialShifts THEN InitialShifts[i] ELSE NoShift)

(***************************************************************************)
(* An acknowledgement on record was given after the last publication of    *)
(* its week: republishing a changed week asks everyone again.              *)
(***************************************************************************)
AckIsOfThisPublication ==
  \A w \in Weeks, e \in Employees : acks[w][e] # 0 => acks[w][e] = published[w]
=============================================================================
