------------------------- MODULE ShiftRequestsProofs -------------------------
(***************************************************************************)
(* Proofs about the grid of ScheduleBoard and about the requests of staff  *)
(* that ShiftRequests adds to it.                                          *)
(*                                                                         *)
(* The grid keeps, for any number of employees, shifts, weeks and edits in *)
(* progress: no unnoticed double booking, no acknowledgement of a version  *)
(* that has been replaced, and a change log from which the undo finds back *)
(* to the grid of the saved payroll run.                                   *)
(*                                                                         *)
(* No swap changes the schedule over the head of a colleague, however the  *)
(* handlers of ShiftRequests overlap with each other and with the editors. *)
(* Every UPDATE is by id, so a row may change between the reads of a       *)
(* handler and its write.  What saves the property is that the columns it  *)
(* speaks of only ever change in one direction: who asked for a swap and   *)
(* whether it is an emergency are never rewritten, and a confirmation is   *)
(* never taken back.  A handler that read a row which may be decided       *)
(* therefore still writes to one that was agreed.                          *)
(*                                                                         *)
(* Together, the grid stays free of unnoticed double bookings when         *)
(* approvals of requests write to it beside the editors.                   *)
(***************************************************************************)
EXTENDS ShiftRequests, FiniteSetTheorems, WellFoundedInduction, TLAPS

-----------------------------------------------------------------------------
(* The grid. *)


(* Dates of rows are any integers: copying may lead out of the asked dates. *)
RowSlots == [date : Int, start : 0..(Day - 1), end : 0..(Day - 1), break : Nat]
RowType == [owner : Owners, slot : RowSlots,
            status : {"Draft", "Needs Review", "Confirmed", "Approved"}]
Cells == RowType \cup {NoShift}
Grids == [Ids -> Cells]
EntryType == [entity : {"scheduled_shift", "employee_day", "scheduled_shifts"}, id : Ids \cup {0},
              before : Cells, after : Cells, undone : BOOLEAN]
ReadType == [busy : {TRUE}, shifts : Grids, log : Seq(EntryType)]

GridOK == shifts \in Grids /\ nextId \in Nat \ {0} /\ log \in Seq(EntryType)
EditorOK == editor \in [Editors -> ReadType \cup {Idle}]
TypesOK == GridOK /\ EditorOK
AcksOK == published \in [Weeks -> Nat] /\ acks \in [Weeks -> [Employees -> Nat]]

(* Nobody else's shift of the same employee overlaps shift i. *)
Clear(board, i) ==
  \A j \in Ids \ {i} : board[j] # NoShift /\ board[j].owner = board[i].owner
    => ~Overlap(board[i].slot, board[j].slot)

(* What a step may do to a shift that counts as reviewed afterwards. *)
Accounted(i) ==
  \/ i \in unreviewed'
  \/ shifts'[i] = NoShift \/ shifts'[i].status # "Confirmed"
  \/ shifts'[i] = shifts[i] /\ i \notin unreviewed
  \/ Clear(shifts', i)

-----------------------------------------------------------------------------
(* A row is not an absent one. *)
LEMMA RowIsPresent == ASSUME NEW x \in RowType PROVE x # NoShift
<1>1. NoShift.status = "Absent"
  BY DEF NoShift
<1>2. x.status # "Absent"
  BY DEF RowType
<1> QED BY <1>1, <1>2

(* The slots asked for, and the shifts there were, are of the types of rows. *)
LEMMA AskedAreRows ==
  /\ Slots \subseteq RowSlots /\ ShiftType \subseteq RowType
  /\ \A d \in Dates : d \in Int
<1>1. SlotType \subseteq RowSlots
  BY DEF SlotType, RowSlots
<1>2. ShiftType \subseteq RowType
  BY <1>1 DEF ShiftType, RowType
<1>3. \A d \in Dates : d \in Int
  <2>1. \A s \in SlotType : s.date \in Int
    BY DEF SlotType
  <2> SUFFICES ASSUME NEW d \in Dates PROVE d \in Int
    OBVIOUS
  <2>2. PICK s \in Slots : d = s.date
    BY DEF Dates
  <2>3. s \in SlotType
    BY SlotsAssumption
  <2> QED BY <2>1, <2>2, <2>3
<1> QED BY <1>1, <1>2, <1>3, SlotsAssumption

(* A row's interval begins on its date and ends before the end of the next day. *)
LEMMA IntervalOfRow ==
  ASSUME NEW s \in RowSlots
  PROVE  /\ Start(s) \in Int /\ s.date * 1440 <= Start(s)
         /\ End(s) \in Int /\ End(s) <= s.date * 1440 + 2879
<1> DEFINE d == s.date  b == s.start  e == s.end
<1>1. d \in Int /\ b \in 0..1439 /\ e \in 0..1439
  <2>1. s.date \in Int /\ s.start \in 0..(Day - 1) /\ s.end \in 0..(Day - 1)
    BY DEF RowSlots
  <2>2. 0..(Day - 1) = 0..1439
    BY DEF Day
  <2> QED BY <2>1, <2>2
<1>2. /\ Start(s) = d * 1440 + b
      /\ End(s) = d * 1440 + e + (IF e <= b THEN 1440 ELSE 0)
  BY DEF Start, End, Day
<1> HIDE DEF d, b, e
<1>3. /\ Start(s) \in Int /\ d * 1440 <= Start(s)
      /\ End(s) \in Int /\ End(s) <= d * 1440 + 2879
  <2>1. CASE e <= b
    BY <1>1, <1>2, <2>1
  <2>2. CASE ~(e <= b)
    BY <1>1, <1>2, <2>2
  <2> QED BY <2>1, <2>2
<1> QED BY <1>3 DEF d

(* Two intervals that overlap start within a day of each other, so the rows of the *)
(* neighbouring dates are all that a check has to read.                            *)
LEMMA OverlapIsNearby ==
  ASSUME NEW s \in RowSlots, NEW t \in RowSlots, Overlap(s, t)
  PROVE  Nearby(s, t) /\ Overlap(t, s)
<1>1. s.date \in Int /\ t.date \in Int
  BY DEF RowSlots
<1> DEFINE x == s.date  y == t.date
<1>2. /\ Start(s) \in Int /\ x * 1440 <= Start(s)
      /\ Start(t) \in Int /\ y * 1440 <= Start(t)
  BY IntervalOfRow
<1>3. /\ End(s) \in Int /\ End(s) <= x * 1440 + 2879
      /\ End(t) \in Int /\ End(t) <= y * 1440 + 2879
  BY IntervalOfRow
<1>4. Start(s) < End(t) /\ Start(t) < End(s)
  BY DEF Overlap
<1>5. x \in Int /\ y \in Int
  BY <1>1
<1> HIDE DEF x, y
<1>6. x * 1440 < y * 1440 + 2879 /\ y * 1440 < x * 1440 + 2879
  BY <1>2, <1>3, <1>4, <1>5
<1>7. x <= y + 1 /\ y <= x + 1
  BY <1>5, <1>6
<1>8. t.date \in (s.date - 1)..(s.date + 1)
  BY <1>5, <1>7 DEF x, y
<1> QED BY <1>8 DEF Nearby, Overlap

(* A review that confirms a shift has seen every other shift of its employee. *)
LEMMA ReviewClears ==
  ASSUME NEW board \in Grids, NEW i \in Ids, board[i] \in RowType,
         Reviewed(board, i)[i].status = "Confirmed"
  PROVE  Clear(Reviewed(board, i), i)
<1> DEFINE after == Reviewed(board, i)
<1>1. /\ after[i].owner = board[i].owner /\ after[i].slot = board[i].slot
      /\ after[i].status = IF HasIssues(board, i) THEN "Needs Review" ELSE "Confirmed"
  BY DEF Reviewed, Grids, RowType
<1>2. \A j \in Ids \ {i} : after[j] = board[j]
  BY DEF Reviewed, Grids
<1>3. ~HasIssues(board, i)
  BY <1>1
<1>4. ~Clashes(board, board[i].owner, board[i].slot, {i})
  BY <1>3 DEF HasIssues
<1>5. ASSUME NEW j \in Ids \ {i}, board[j] # NoShift, board[j].owner = board[i].owner,
             Overlap(board[i].slot, board[j].slot)
      PROVE  FALSE
  <2>1. j \in OthersOf(board, board[i].owner, {i})
    BY <1>5 DEF OthersOf, Present
  <2>2. board[j].slot \in RowSlots /\ board[i].slot \in RowSlots
    BY <1>5 DEF Grids, Cells, RowType
  <2>3. Nearby(board[i].slot, board[j].slot)
    BY <1>5, <2>2, OverlapIsNearby
  <2> QED BY <1>4, <1>5, <2>1, <2>3 DEF Clashes
<1> HIDE DEF after
<1>6. Clear(after, i)
  BY <1>1, <1>2, <1>5 DEF Clear
<1> QED BY <1>6 DEF after

(* A review changes the status of one row. *)
LEMMA ReviewIsGrid ==
  ASSUME NEW board \in Grids, NEW i \in Ids, board[i] \in RowType
  PROVE  /\ Reviewed(board, i) \in Grids /\ Reviewed(board, i)[i] \in RowType
         /\ \A j \in Ids \ {i} : Reviewed(board, i)[j] = board[j]
         /\ Reviewed(board, i)[i].status = "Confirmed" => Clear(Reviewed(board, i), i)
<1>1. [board[i] EXCEPT !.status = IF HasIssues(board, i) THEN "Needs Review" ELSE "Confirmed"]
        \in RowType
  BY DEF RowType
<1> QED BY <1>1, ReviewClears DEF Reviewed, Grids, Cells

(* A step that accounts for every shift keeps the grid free of double bookings. *)
LEMMA PairsKept ==
  ASSUME ConfirmedDoNotOverlap, shifts' \in Grids, \A i \in Ids : Accounted(i)
  PROVE  ConfirmedDoNotOverlap'
<1> SUFFICES ASSUME NEW i \in Ids, NEW j \in Ids, i # j,
                    shifts'[i] # NoShift, shifts'[j] # NoShift,
                    shifts'[i].owner = shifts'[j].owner,
                    shifts'[i].status = "Confirmed", shifts'[j].status = "Confirmed",
                    Overlap(shifts'[i].slot, shifts'[j].slot),
                    i \notin unreviewed', j \notin unreviewed'
             PROVE  FALSE
  BY DEF ConfirmedDoNotOverlap, Present
<1>1. shifts'[i].slot \in RowSlots /\ shifts'[j].slot \in RowSlots
  BY DEF Grids, Cells, RowType
<1>2. Overlap(shifts'[j].slot, shifts'[i].slot)
  BY <1>1, OverlapIsNearby
<1>3. ~Clear(shifts', i) /\ ~Clear(shifts', j)
  BY <1>2 DEF Clear
<1>4. /\ shifts'[i] = shifts[i] /\ i \notin unreviewed
      /\ shifts'[j] = shifts[j] /\ j \notin unreviewed
  BY <1>3 DEF Accounted
<1> QED BY <1>4 DEF ConfirmedDoNotOverlap, Present

-----------------------------------------------------------------------------
(* What a handler acts on is a grid and a log. *)
LEMMA ReadsAreTyped ==
  ASSUME TypesOK, NEW c \in Editors
  PROVE  Reads(c).shifts \in Grids /\ Reads(c).log \in Seq(EntryType)
<1>1. CASE editor[c].busy
  <2>1. editor[c] # Idle
    BY <1>1 DEF Idle
  <2> QED BY <1>1, <2>1 DEF TypesOK, EditorOK, ReadType, Reads
<1>2. CASE ~editor[c].busy
  BY <1>2 DEF TypesOK, GridOK, Reads
<1> QED BY <1>1, <1>2

(* Edits end, or begin, without touching the others. *)
LEMMA EditorKept ==
  ASSUME TypesOK, NEW c \in Editors, Finish(c) \/ editor' = editor
  PROVE  EditorOK'
BY DEF TypesOK, EditorOK, Finish

(* Recording entries keeps a log. *)
LEMMA RecordKept ==
  ASSUME TypesOK, NEW entries \in Seq(EntryType), Record(entries)
  PROVE  log' \in Seq(EntryType)
BY DEF TypesOK, GridOK, Record

(* The entry of one shift. *)
LEMMA ChangeIsEntry ==
  ASSUME NEW i \in Ids, NEW b \in Cells, NEW a \in Cells
  PROVE  Change(i, b, a) \in EntryType /\ <<Change(i, b, a)>> \in Seq(EntryType)
BY DEF Change, Entry, EntryType

(* A shift that is written anew and reviewed. *)
LEMMA InsertKept ==
  ASSUME TypesOK, ConfirmedDoNotOverlap, NEW e \in Owners, NEW slot \in Slots,
         InsertReviewed(e, slot)
  PROVE  TypesOK' /\ ConfirmedDoNotOverlap'
<1> DEFINE row == [owner |-> e, slot |-> slot, status |-> "Draft"]
           placed == [shifts EXCEPT ![nextId] = row]
<1>1. row \in RowType
  BY AskedAreRows DEF RowType
<1>2. nextId \in Ids /\ shifts' = Reviewed(placed, nextId)
  BY DEF InsertReviewed
<1>3. placed \in Grids /\ placed[nextId] = row
      /\ \A j \in Ids \ {nextId} : placed[j] = shifts[j]
  BY <1>1, <1>2 DEF TypesOK, GridOK, Grids, Cells
<1>4. /\ shifts' \in Grids /\ shifts'[nextId] \in RowType
      /\ \A j \in Ids \ {nextId} : shifts'[j] = placed[j]
      /\ shifts'[nextId].status = "Confirmed" => Clear(shifts', nextId)
  BY <1>1, <1>2, <1>3, ReviewIsGrid
<1>5. unreviewed' = unreviewed /\ editor' = editor /\ nextId' = nextId + 1
  BY DEF InsertReviewed, history
<1>6. Record(<<Change(nextId, NoShift, shifts'[nextId])>>)
  BY DEF InsertReviewed
<1>7. log' \in Seq(EntryType)
  BY <1>2, <1>4, <1>6, ChangeIsEntry, RecordKept DEF Cells
<1>8. \A i \in Ids : Accounted(i)
  BY <1>3, <1>4, <1>5 DEF Accounted
<1>9. TypesOK'
  BY <1>4, <1>5, <1>7 DEF TypesOK, GridOK, EditorOK
<1> QED BY <1>4, <1>8, <1>9, PairsKept

(* A shift that is changed in place and reviewed. *)
LEMMA SaveKept ==
  ASSUME TypesOK, ConfirmedDoNotOverlap, NEW c \in Editors, NEW i \in Ids,
         NEW e \in Owners, NEW slot \in Slots, SaveShift(c, i, e, slot)
  PROVE  TypesOK' /\ ConfirmedDoNotOverlap'
<1> DEFINE read == Reads(c).shifts
           placed == [shifts EXCEPT ![i].owner = e, ![i].slot = slot]
<1>1. /\ shifts' = IF shifts[i] = NoShift THEN shifts ELSE Reviewed(placed, i)
      /\ Record(<<Change(i, read[i], shifts'[i])>>)
      /\ unreviewed' = unreviewed \ {i} /\ Finish(c) /\ nextId' = nextId
  BY DEF SaveShift
<1>2. /\ shifts' \in Grids
      /\ \A j \in Ids \ {i} : shifts'[j] = shifts[j]
      /\ shifts'[i] = NoShift \/ shifts'[i].status # "Confirmed" \/ Clear(shifts', i)
  <2>1. CASE shifts[i] = NoShift
    BY <1>1, <2>1 DEF TypesOK, GridOK
  <2>2. CASE shifts[i] # NoShift
    <3>1. shifts[i] \in RowType
      BY <2>2 DEF TypesOK, GridOK, Grids, Cells
    <3>2. [shifts[i] EXCEPT !.owner = e, !.slot = slot] \in RowType
      BY <3>1, AskedAreRows DEF RowType
    <3>3. placed \in Grids /\ placed[i] \in RowType
          /\ \A j \in Ids \ {i} : placed[j] = shifts[j]
      BY <3>2 DEF TypesOK, GridOK, Grids, Cells
    <3> QED BY <1>1, <2>2, <3>3, ReviewIsGrid
  <2> QED BY <2>1, <2>2
<1>3. read[i] \in Cells /\ shifts'[i] \in Cells
  BY <1>2, ReadsAreTyped DEF Grids
<1>4. log' \in Seq(EntryType)
  BY <1>1, <1>3, ChangeIsEntry, RecordKept
<1>5. \A j \in Ids : Accounted(j)
  BY <1>1, <1>2 DEF Accounted
<1>6. TypesOK'
  BY <1>1, <1>2, <1>4, EditorKept DEF TypesOK, GridOK
<1> QED BY <1>2, <1>5, <1>6, PairsKept

(* A shift that only changes its date: it counts as unreviewed. *)
LEMMA MoveKept ==
  ASSUME TypesOK, ConfirmedDoNotOverlap, NEW c \in Editors, NEW i \in Ids,
         NEW d \in Dates, MoveShift(c, i, d)
  PROVE  TypesOK' /\ ConfirmedDoNotOverlap'
<1> DEFINE read == Reads(c).shifts
<1>1. /\ shifts' = IF shifts[i] = NoShift THEN shifts ELSE [shifts EXCEPT ![i].slot.date = d]
      /\ Record(<<Change(i, read[i], shifts'[i])>>)
      /\ unreviewed' = unreviewed \cup {i} /\ Finish(c) /\ nextId' = nextId
  BY DEF MoveShift
<1>2. shifts' \in Grids /\ \A j \in Ids \ {i} : shifts'[j] = shifts[j]
  <2>1. CASE shifts[i] = NoShift
    BY <1>1, <2>1 DEF TypesOK, GridOK
  <2>2. CASE shifts[i] # NoShift
    <3>1. shifts[i] \in RowType
      BY <2>2 DEF TypesOK, GridOK, Grids, Cells
    <3>2. [shifts[i].slot EXCEPT !.date = d] \in RowSlots
      BY <3>1, AskedAreRows DEF RowType, RowSlots
    <3>3. [shifts[i] EXCEPT !.slot = [shifts[i].slot EXCEPT !.date = d]] \in RowType
      BY <3>1, <3>2 DEF RowType
    <3> DEFINE moved == [shifts[i] EXCEPT !.slot = [shifts[i].slot EXCEPT !.date = d]]
    <3>4. shifts' = [shifts EXCEPT ![i] = moved]
      BY <1>1, <2>2
    <3> HIDE DEF moved
    <3>5. moved \in RowType
      BY <3>3 DEF moved
    <3> QED BY <3>4, <3>5 DEF TypesOK, GridOK, Grids, Cells
  <2> QED BY <2>1, <2>2
<1>3. read[i] \in Cells /\ shifts'[i] \in Cells
  BY <1>2, ReadsAreTyped DEF Grids
<1>4. log' \in Seq(EntryType)
  BY <1>1, <1>3, ChangeIsEntry, RecordKept
<1>5. \A j \in Ids : Accounted(j)
  BY <1>1, <1>2 DEF Accounted
<1>6. TypesOK'
  BY <1>1, <1>2, <1>4, EditorKept DEF TypesOK, GridOK
<1> QED BY <1>2, <1>5, <1>6, PairsKept

(* A shift that goes. *)
LEMMA DeleteKept ==
  ASSUME TypesOK, ConfirmedDoNotOverlap, NEW c \in Editors, NEW i \in Ids, DeleteShift(c, i)
  PROVE  TypesOK' /\ ConfirmedDoNotOverlap'
<1>1. /\ shifts' = [shifts EXCEPT ![i] = NoShift]
      /\ Record(<<Change(i, Reads(c).shifts[i], NoShift)>>)
      /\ unreviewed' = unreviewed /\ Finish(c) /\ nextId' = nextId
  BY DEF DeleteShift
<1>2. /\ shifts' \in Grids /\ shifts'[i] = NoShift
      /\ \A j \in Ids \ {i} : shifts'[j] = shifts[j]
  BY <1>1 DEF TypesOK, GridOK, Grids, Cells
<1>3. Reads(c).shifts[i] \in Cells /\ NoShift \in Cells
  BY ReadsAreTyped DEF Grids, Cells
<1>4. log' \in Seq(EntryType)
  BY <1>1, <1>3, ChangeIsEntry, RecordKept
<1>5. \A j \in Ids : Accounted(j)
  BY <1>1, <1>2 DEF Accounted
<1>6. TypesOK'
  BY <1>1, <1>2, <1>4, EditorKept DEF TypesOK, GridOK
<1> QED BY <1>2, <1>5, <1>6, PairsKept

(* A copy is a draft until somebody reviews it. *)
LEMMA DuplicateKept ==
  ASSUME TypesOK, ConfirmedDoNotOverlap, NEW c \in Editors, NEW i \in Ids,
         NEW e \in Owners, NEW d \in Dates, DuplicateShift(c, i, e, d)
  PROVE  TypesOK' /\ ConfirmedDoNotOverlap'
<1> DEFINE read == Reads(c).shifts
           copy == [owner |-> e, slot |-> [read[i].slot EXCEPT !.date = d], status |-> "Draft"]
<1>1. /\ read[i] # NoShift /\ nextId \in Ids
      /\ shifts' = [shifts EXCEPT ![nextId] = copy]
      /\ nextId' = nextId + 1
      /\ Record(<<Change(nextId, NoShift, copy)>>)
      /\ unreviewed' = unreviewed /\ Finish(c)
  BY DEF DuplicateShift, history
<1>2. read[i] \in RowType
  BY <1>1, ReadsAreTyped DEF Grids, Cells
<1>3. [read[i].slot EXCEPT !.date = d] \in RowSlots
  BY <1>2, AskedAreRows DEF RowType, RowSlots
<1>4. copy \in RowType /\ copy.status = "Draft"
  BY <1>3 DEF RowType
<1> HIDE DEF copy
<1>5. /\ shifts' \in Grids /\ shifts'[nextId].status # "Confirmed"
      /\ \A j \in Ids \ {nextId} : shifts'[j] = shifts[j]
  BY <1>1, <1>4 DEF TypesOK, GridOK, Grids, Cells
<1>6. log' \in Seq(EntryType)
  BY <1>1, <1>4, ChangeIsEntry, RecordKept DEF Cells
<1>7. \A j \in Ids : Accounted(j)
  BY <1>1, <1>5 DEF Accounted
<1>8. TypesOK'
  BY <1>1, <1>5, <1>6, EditorKept DEF TypesOK, GridOK
<1> QED BY <1>5, <1>7, <1>8, PairsKept

(* A week is copied as drafts: the copies take the next ids, one for each original. *)
LEMMA CopyKept ==
  ASSUME TypesOK, ConfirmedDoNotOverlap, NEW c \in Editors,
         NEW from \in Weeks, NEW to \in Weeks, CopyWeek(c, from, to)
  PROVE  TypesOK' /\ ConfirmedDoNotOverlap'
<1> DEFINE read == Reads(c).shifts
           source == ShiftsOfWeek(read, from)
           CopyId(i) == nextId + Cardinality({j \in source : j < i})
           Copy(i) == [owner |-> read[i].owner, status |-> "Draft",
                       slot |-> [read[i].slot EXCEPT !.date = @ + 7 * (to - from)]]
           entry(k) == Change(nextId + k - 1, NoShift, shifts'[nextId + k - 1])
           entries == [k \in 1..Cardinality(source) |-> entry(k)]
<1>1. /\ nextId + Cardinality(source) - 1 \in Ids
      /\ shifts' = [n \in Ids |-> IF \E i \in source : n = CopyId(i)
                                  THEN Copy(CHOOSE i \in source : n = CopyId(i)) ELSE shifts[n]]
      /\ nextId' = nextId + Cardinality(source)
      /\ Record(entries)
      /\ unreviewed' = unreviewed /\ Finish(c)
  <2>1. nextId + Cardinality(source) - 1 \in Ids
    BY Zenon DEF CopyWeek
  <2>2. shifts' = [n \in Ids |-> IF \E i \in source : n = CopyId(i)
                                THEN Copy(CHOOSE i \in source : n = CopyId(i)) ELSE shifts[n]]
    BY Zenon DEF CopyWeek
  <2>3. nextId' = nextId + Cardinality(source)
    BY Zenon DEF CopyWeek
  <2>4. Record(entries) /\ Finish(c)
    BY Zenon DEF CopyWeek
  <2>5. UNCHANGED history
    BY Zenon DEF CopyWeek
  <2>6. unreviewed' = unreviewed
    BY <2>5 DEF history
  <2> QED BY <2>1, <2>2, <2>3, <2>4, <2>6
<1>2. source \subseteq Ids /\ \A i \in source : read[i] # NoShift
  BY DEF ShiftsOfWeek, Present
<1>3. IsFiniteSet(source) /\ Cardinality(source) \in Nat
  <2>1. IsFiniteSet(Ids)
    BY BoundsAssumption, FS_Interval DEF Ids
  <2> QED BY <1>2, <2>1, FS_Subset, FS_CardinalityType
<1>4. ASSUME NEW i \in source PROVE Copy(i) \in RowType /\ Copy(i).status = "Draft"
  <2>1. read[i] \in RowType
    BY <1>2, ReadsAreTyped DEF Grids, Cells
  <2>2. read[i].slot.date + 7 * (to - from) \in Int
    <3>1. read[i].slot.date \in Int
      BY <2>1 DEF RowType, RowSlots
    <3>2. from \in Int /\ to \in Int
      BY WeeksAssumption
    <3> QED BY <3>1, <3>2
  <2>3. [read[i].slot EXCEPT !.date = @ + 7 * (to - from)] \in RowSlots
    BY <2>1, <2>2 DEF RowType, RowSlots
  <2> QED BY <2>1, <2>3 DEF RowType
<1> HIDE DEF CopyId, Copy, source
<1>5. ASSUME NEW n \in Ids
      PROVE  \/ shifts'[n] \in RowType /\ shifts'[n].status = "Draft"
             \/ shifts'[n] = shifts[n]
  <2>1. CASE \E i \in source : n = CopyId(i)
    BY <1>1, <1>4, <2>1
  <2>2. CASE ~\E i \in source : n = CopyId(i)
    BY <1>1, <2>2
  <2> QED BY <2>1, <2>2
<1>6. shifts' \in Grids
  <2>1. shifts' = [n \in Ids |-> shifts'[n]]
    BY <1>1
  <2>2. \A n \in Ids : shifts'[n] \in Cells
    BY <1>5 DEF TypesOK, GridOK, Grids, Cells
  <2> QED BY <2>1, <2>2 DEF Grids
<1>7. \A j \in Ids : Accounted(j)
  BY <1>1, <1>5 DEF Accounted
<1>8. entries \in Seq(EntryType)
  <2>1. ASSUME NEW k \in 1..Cardinality(source) PROVE entry(k) \in EntryType
    <3>1. nextId + k - 1 \in Ids
      BY <1>1, <1>3, BoundsAssumption DEF TypesOK, GridOK, Ids
    <3>2. shifts'[nextId + k - 1] \in Cells /\ NoShift \in Cells
      BY <1>6, <3>1 DEF Grids, Cells
    <3> QED BY <3>1, <3>2, ChangeIsEntry
  <2> HIDE DEF entry
  <2> QED BY <1>3, <2>1
<1>9. log' \in Seq(EntryType)
  BY <1>1, <1>8, RecordKept
<1>10. TypesOK'
  BY <1>1, <1>3, <1>6, <1>9, EditorKept DEF TypesOK, GridOK
<1> QED BY <1>6, <1>7, <1>10, PairsKept

(* A day that is cleared. *)
LEMMA ResetKept ==
  ASSUME TypesOK, ConfirmedDoNotOverlap, NEW c \in Editors, NEW e, NEW d, ResetDay(c, e, d)
  PROVE  TypesOK' /\ ConfirmedDoNotOverlap'
<1> DEFINE ofDay == {i \in OthersOf(shifts, e, {}) : shifts[i].slot.date = d}
<1>1. /\ shifts' = [i \in Ids |-> IF i \in ofDay THEN NoShift ELSE shifts[i]]
      /\ Record(<<Entry("employee_day", 0, NoShift, NoShift)>>)
      /\ unreviewed' = unreviewed /\ Finish(c) /\ nextId' = nextId
  BY DEF ResetDay
<1>2. /\ shifts' \in Grids
      /\ \A i \in Ids : shifts'[i] = NoShift \/ shifts'[i] = shifts[i]
  BY <1>1 DEF TypesOK, GridOK, Grids, Cells
<1>3. <<Entry("employee_day", 0, NoShift, NoShift)>> \in Seq(EntryType)
  BY DEF Entry, EntryType, Cells
<1>4. log' \in Seq(EntryType)
  BY <1>1, <1>3, RecordKept
<1>5. \A j \in Ids : Accounted(j)
  BY <1>1, <1>2 DEF Accounted
<1>6. TypesOK'
  BY <1>1, <1>2, <1>4, EditorKept DEF TypesOK, GridOK
<1> QED BY <1>2, <1>5, <1>6, PairsKept

(* A nonempty set of positions has a first one. *)
First(ks) == CHOOSE k \in ks : \A j \in ks : k <= j

LEMMA FirstIsLeast ==
  ASSUME NEW ks \in SUBSET Nat, ks # {}
  PROVE  First(ks) \in ks /\ \A j \in ks : First(ks) <= j
<1>1. PICK x \in ks : \A y \in ks : ~ (<<y, x>> \in OpToRel(<, Nat))
  BY NatLessThanWellFounded, WFMin, Zenon
<1>2. x \in Nat /\ \A y \in ks : y \in Nat
  OBVIOUS
<1>3. \A y \in ks : ~ (y < x)
  BY <1>1, <1>2, Zenon DEF OpToRel
<1>4. \A y \in ks : x <= y
  BY <1>2, <1>3
<1> QED BY <1>4 DEF First

(* An undo restores rows that the log holds, and only of shifts that it counts as *)
(* unreviewed.                                                                    *)
LEMMA UndoKept ==
  ASSUME TypesOK, ConfirmedDoNotOverlap, NEW c \in Editors, UndoChanges(c)
  PROVE  TypesOK' /\ ConfirmedDoNotOverlap'
<1> DEFINE read == Reads(c).log
           touched == {read[k].id : k \in {j \in DOMAIN read : ~read[j].undone}} \ {0}
<1>1. /\ shifts' = Rewound(read, shifts)
      /\ log' = [k \in DOMAIN log |-> IF k \in DOMAIN read
                                      THEN [log[k] EXCEPT !.undone = TRUE] ELSE log[k]]
      /\ unreviewed' = unreviewed \cup touched /\ Finish(c) /\ nextId' = nextId
  BY DEF UndoChanges
<1>2. read \in Seq(EntryType)
  BY ReadsAreTyped
<1> HIDE DEF read
<1>3. ASSUME NEW i \in Ids
      PROVE  shifts'[i] \in Cells /\ (shifts'[i] = shifts[i] \/ i \in touched)
  <2> DEFINE ks == Restorable(read, i)
  <2>1. shifts'[i] = IF ks = {} THEN shifts[i]
                     ELSE read[CHOOSE k \in ks : \A j \in ks : k <= j].before
    BY <1>1 DEF Rewound
  <2>2. CASE ks = {}
    BY <2>1, <2>2 DEF TypesOK, GridOK, Grids
  <2>3. CASE ks # {}
    <3>1. ks \in SUBSET Nat /\ ks \subseteq DOMAIN read
      BY <1>2 DEF Restorable
    <3>2. PICK k \in ks : shifts'[i] = read[k].before
      BY <2>1, <2>3, <3>1, FirstIsLeast DEF First
    <3>3. k \in DOMAIN read /\ ~read[k].undone /\ read[k].id = i
      BY <3>2 DEF Restorable
    <3>4. read[k] \in EntryType
      BY <1>2, <3>3
    <3>5. i # 0
      BY DEF Ids
    <3> QED BY <3>2, <3>3, <3>4, <3>5 DEF EntryType
  <2> QED BY <2>2, <2>3
<1>4. shifts' \in Grids
  <2>1. shifts' = [i \in Ids |-> shifts'[i]]
    BY <1>1 DEF Rewound
  <2> QED BY <1>3, <2>1 DEF Grids
<1>5. log' \in Seq(EntryType)
  <2>1. log \in Seq(EntryType)
    BY DEF TypesOK, GridOK
  <2>2. ASSUME NEW k \in DOMAIN log
        PROVE  (IF k \in DOMAIN read THEN [log[k] EXCEPT !.undone = TRUE] ELSE log[k]) \in EntryType
    <3>1. log[k] \in EntryType
      BY <2>1
    <3> QED BY <3>1 DEF EntryType
  <2>3. DOMAIN log = 1..Len(log) /\ Len(log) \in Nat
    BY <2>1
  <2> QED BY <1>1, <2>2, <2>3
<1>6. \A j \in Ids : Accounted(j)
  BY <1>1, <1>3 DEF Accounted
<1>7. TypesOK'
  BY <1>1, <1>4, <1>5, EditorKept DEF TypesOK, GridOK
<1> QED BY <1>4, <1>6, <1>7, PairsKept

(* Reading, giving up, publishing and acknowledging leave the grid alone; approving a *)
(* shift takes it out of what the system calls Confirmed.                             *)
LEMMA OthersKept ==
  ASSUME TypesOK, ConfirmedDoNotOverlap,
         \/ \E c \in Editors : Load(c) \/ Abandon(c)
         \/ \E i \in Ids : ApproveReview(i)
         \/ \E w \in Weeks : Publish(w) \/ \E e \in Employees : Acknowledge(w, e)
         \/ UNCHANGED boardVars
  PROVE  TypesOK' /\ ConfirmedDoNotOverlap'
<1>1. CASE UNCHANGED boardVars \/ \E w \in Weeks : Publish(w) \/ \E e \in Employees : Acknowledge(w, e)
  <2>1. UNCHANGED <<shifts, nextId, log, editor, unreviewed>>
    BY <1>1 DEF boardVars, grid, history, Publish, Acknowledge
  <2> QED BY <2>1 DEF TypesOK, GridOK, EditorOK, ConfirmedDoNotOverlap, Present
<1>2. ASSUME NEW c \in Editors, Load(c) \/ Abandon(c)
      PROVE  TypesOK' /\ ConfirmedDoNotOverlap'
  <2>1. UNCHANGED <<shifts, nextId, log, unreviewed>>
    BY <1>2 DEF Load, Abandon, grid, history
  <2>2. EditorOK'
    <3>1. CASE Abandon(c)
      BY <3>1, EditorKept DEF Abandon
    <3>2. CASE Load(c)
      <4>1. [busy |-> TRUE, shifts |-> shifts, log |-> log] \in ReadType
        BY DEF TypesOK, GridOK, ReadType
      <4> QED BY <3>2, <4>1 DEF Load, TypesOK, EditorOK
    <3> QED BY <1>2, <3>1, <3>2
  <2> QED BY <2>1, <2>2 DEF TypesOK, GridOK, ConfirmedDoNotOverlap, Present
<1>3. ASSUME NEW i \in Ids, ApproveReview(i)
      PROVE  TypesOK' /\ ConfirmedDoNotOverlap'
  <2>1. shifts[i] # NoShift /\ shifts' = [shifts EXCEPT ![i].status = "Approved"]
        /\ UNCHANGED <<nextId, log, editor, unreviewed>>
    BY <1>3 DEF ApproveReview, history
  <2>2. shifts[i] \in RowType
    BY <2>1 DEF TypesOK, GridOK, Grids, Cells
  <2>3. [shifts[i] EXCEPT !.status = "Approved"] \in RowType
    BY <2>2 DEF RowType
  <2>4. /\ shifts' \in Grids /\ shifts'[i].status # "Confirmed"
        /\ \A j \in Ids \ {i} : shifts'[j] = shifts[j]
    BY <2>1, <2>2, <2>3 DEF TypesOK, GridOK, Grids, Cells, RowType
  <2>5. \A j \in Ids : Accounted(j)
    BY <2>1, <2>4 DEF Accounted
  <2>6. TypesOK'
    BY <2>1, <2>4 DEF TypesOK, GridOK, EditorOK
  <2> QED BY <2>4, <2>5, <2>6, PairsKept
<1> QED BY <1>1, <1>2, <1>3

-----------------------------------------------------------------------------
BoardInv == TypesOK /\ ConfirmedDoNotOverlap

(* The grid that the payroll run was saved from satisfies the invariant. *)
LEMMA InitialBoard == BoardInit => BoardInv
<1> SUFFICES ASSUME BoardInit PROVE BoardInv
  OBVIOUS
<1>1. Len(InitialShifts) \in Nat /\ DOMAIN InitialShifts = 1..Len(InitialShifts)
  BY InitialAssumption
<1>2. \A i \in DOMAIN InitialShifts : InitialShifts[i] \in RowType
  BY InitialAssumption, AskedAreRows
<1>3. shifts = [i \in Ids |-> IF i \in DOMAIN InitialShifts THEN InitialShifts[i] ELSE NoShift]
  BY DEF BoardInit
<1>4. shifts \in Grids
  BY <1>2, <1>3 DEF Grids, Cells
<1>5. GridOK
  BY <1>1, <1>4 DEF BoardInit, GridOK
<1>6. EditorOK
  BY DEF BoardInit, EditorOK
<1>7. ConfirmedDoNotOverlap
  <2> SUFFICES ASSUME NEW i \in Present(shifts), NEW j \in Present(shifts), i # j,
                      shifts[i].owner = shifts[j].owner,
                      Overlap(shifts[i].slot, shifts[j].slot)
               PROVE  FALSE
    BY DEF ConfirmedDoNotOverlap
  <2>1. /\ i \in DOMAIN InitialShifts /\ shifts[i] = InitialShifts[i]
        /\ j \in DOMAIN InitialShifts /\ shifts[j] = InitialShifts[j]
    BY <1>3 DEF Present
  <2> QED BY <2>1, BaselineAssumption
<1> QED BY <1>5, <1>6, <1>7 DEF BoardInv, TypesOK

(* Every operation keeps it. *)
LEMMA BoardStep == BoardInv /\ [BoardNext]_boardVars => BoardInv'
<1> SUFFICES ASSUME TypesOK, ConfirmedDoNotOverlap, [BoardNext]_boardVars
             PROVE  TypesOK' /\ ConfirmedDoNotOverlap'
  BY DEF BoardInv
<1>1. ASSUME NEW c \in Editors, UndoChanges(c) PROVE TypesOK' /\ ConfirmedDoNotOverlap'
  BY <1>1, UndoKept
<1>2. ASSUME NEW c \in Editors, NEW i \in Ids, NEW e \in Owners, NEW s \in Slots,
             SaveShift(c, i, e, s)
      PROVE  TypesOK' /\ ConfirmedDoNotOverlap'
  BY <1>2, SaveKept
<1>3. ASSUME NEW c \in Editors, NEW i \in Ids, NEW d \in Dates, MoveShift(c, i, d)
      PROVE  TypesOK' /\ ConfirmedDoNotOverlap'
  BY <1>3, MoveKept
<1>4. ASSUME NEW c \in Editors, NEW i \in Ids, DeleteShift(c, i)
      PROVE  TypesOK' /\ ConfirmedDoNotOverlap'
  BY <1>4, DeleteKept
<1>5. ASSUME NEW c \in Editors, NEW i \in Ids, NEW e \in Owners, NEW d \in Dates,
             DuplicateShift(c, i, e, d)
      PROVE  TypesOK' /\ ConfirmedDoNotOverlap'
  BY <1>5, DuplicateKept
<1>6. ASSUME NEW c \in Editors, NEW from \in Weeks, NEW to \in Weeks, CopyWeek(c, from, to)
      PROVE  TypesOK' /\ ConfirmedDoNotOverlap'
  BY <1>6, CopyKept
<1>7. ASSUME NEW c \in Editors, NEW e \in Employees, NEW d \in Dates, ResetDay(c, e, d)
      PROVE  TypesOK' /\ ConfirmedDoNotOverlap'
  BY <1>7, ResetKept
<1>8. ASSUME NEW e \in Owners, NEW s \in Slots, CreateShift(e, s) \/ SaveNewShift(e, s)
      PROVE  TypesOK' /\ ConfirmedDoNotOverlap'
  BY <1>8, InsertKept DEF CreateShift, SaveNewShift
<1>9. CASE EditorNext
  <2>1. CASE \E c \in Editors : Load(c) \/ Abandon(c)
    BY <2>1, OthersKept
  <2> QED BY <1>1, <1>2, <1>3, <1>4, <1>5, <1>6, <1>7, <1>9, <2>1 DEF EditorNext
<1>10. CASE \/ \E i \in Ids : ApproveReview(i)
            \/ \E w \in Weeks : Publish(w) \/ \E e \in Employees : Acknowledge(w, e)
            \/ UNCHANGED boardVars
  BY <1>10, OthersKept
<1> QED BY <1>8, <1>9, <1>10 DEF BoardNext

(***************************************************************************)
(* For any number of employees, shifts and edits in progress, and whatever *)
(* they have read: two Confirmed shifts of an employee overlap only if one *)
(* was placed without a check (schedule_standard_issues reads the rows of  *)
(* the neighbouring dates only, which is enough because no shift lasts     *)
(* longer than a day).                                                     *)
(***************************************************************************)
THEOREM NoUnnoticedDoubleBooking == BoardSpec => []ConfirmedDoNotOverlap
<1>1. BoardInv => ConfirmedDoNotOverlap
  BY DEF BoardInv
<1> QED BY <1>1, InitialBoard, BoardStep, PTL DEF BoardSpec

(***************************************************************************)
(* An acknowledgement on record is of the last publication of its week     *)
(* (publish_schedule, acknowledge_my_schedule).                            *)
(***************************************************************************)
THEOREM AcknowledgedIsCurrent == BoardSpec => []AckIsOfThisPublication
<1> DEFINE Inv == AcksOK /\ AckIsOfThisPublication
<1>1. BoardInit => Inv
  BY DEF BoardInit, AcksOK, AckIsOfThisPublication
<1>2. Inv /\ [BoardNext]_boardVars => Inv'
  <2> SUFFICES ASSUME Inv, [BoardNext]_boardVars PROVE Inv'
    OBVIOUS
  <2>1. CASE UNCHANGED publication
    BY <2>1 DEF publication, AcksOK, AckIsOfThisPublication
  <2>2. ASSUME NEW w \in Weeks, Publish(w) PROVE Inv'
    BY <2>2 DEF Publish, AcksOK, AckIsOfThisPublication
  <2>3. ASSUME NEW w \in Weeks, NEW e \in Employees, Acknowledge(w, e) PROVE Inv'
    BY <2>3 DEF Acknowledge, AcksOK, AckIsOfThisPublication
  <2>4. EditorNext => UNCHANGED publication
    <3> SUFFICES ASSUME NEW c \in Editors,
             \/ Load(c) \/ Abandon(c) \/ UndoChanges(c)
             \/ \E i \in Ids : \/ \E e \in Owners, s \in Slots : SaveShift(c, i, e, s)
                               \/ \E d \in Dates : MoveShift(c, i, d)
                               \/ DeleteShift(c, i)
                               \/ \E e \in Owners, d \in Dates : DuplicateShift(c, i, e, d)
             \/ \E from, to \in Weeks : CopyWeek(c, from, to)
             \/ \E e \in Employees, d \in Dates : ResetDay(c, e, d)
           PROVE  UNCHANGED publication
      BY Zenon DEF EditorNext
    <3>1. Load(c) \/ Abandon(c) \/ UndoChanges(c) => UNCHANGED publication
      BY Zenon DEF Load, Abandon, UndoChanges
    <3>2. ASSUME NEW i, NEW e, NEW s, SaveShift(c, i, e, s) PROVE UNCHANGED publication
      BY <3>2, Zenon DEF SaveShift
    <3>3. ASSUME NEW i, NEW d, MoveShift(c, i, d) PROVE UNCHANGED publication
      BY <3>3, Zenon DEF MoveShift
    <3>4. ASSUME NEW i, DeleteShift(c, i) PROVE UNCHANGED publication
      BY <3>4, Zenon DEF DeleteShift
    <3>5. ASSUME NEW i, NEW e, NEW d, DuplicateShift(c, i, e, d) PROVE UNCHANGED publication
      BY <3>5, Zenon DEF DuplicateShift
    <3>6. ASSUME NEW from, NEW to, CopyWeek(c, from, to) PROVE UNCHANGED publication
      BY <3>6, Zenon DEF CopyWeek
    <3>7. ASSUME NEW e, NEW d, ResetDay(c, e, d) PROVE UNCHANGED publication
      BY <3>7, Zenon DEF ResetDay
    <3> QED BY <3>1, <3>2, <3>3, <3>4, <3>5, <3>6, <3>7
  <2>5. (\E e \in Owners, s \in Slots : CreateShift(e, s) \/ SaveNewShift(e, s))
        => UNCHANGED publication
    BY DEF CreateShift, SaveNewShift, InsertReviewed
  <2>6. (\E i \in Ids : ApproveReview(i)) => UNCHANGED publication
    BY DEF ApproveReview
  <2>7. UNCHANGED boardVars => UNCHANGED publication
    BY DEF boardVars
  <2> QED BY <2>1, <2>2, <2>3, <2>4, <2>5, <2>6, <2>7 DEF BoardNext
<1>3. Inv => AckIsOfThisPublication
  OBVIOUS
<1> QED BY <1>1, <1>2, <1>3, PTL DEF BoardSpec
-----------------------------------------------------------------------------
(* Undoing.  What the rewound grid says of a shift depends on the oldest open entry of *)
(* the log about it, or on its row if there is none.                                    *)
LEMMA RewoundAt ==
  ASSUME NEW entries, NEW board, NEW i \in Ids
  PROVE  Rewound(entries, board)[i] =
           IF Restorable(entries, i) = {} THEN board[i]
           ELSE entries[First(Restorable(entries, i))].before
BY DEF Rewound, First

(* The open entries of a log that got longer. *)
LEMMA LongerLog ==
  ASSUME NEW old \in Seq(EntryType), NEW new \in Seq(EntryType), NEW i \in Ids
  PROVE  /\ Restorable(old, i) \subseteq 1..Len(old)
         /\ Restorable(new, i) \subseteq 1..Len(new)
         /\ Restorable(old, i) \subseteq Restorable(old \o new, i)
         /\ \A k \in Restorable(old \o new, i) :
              \/ k \in Restorable(old, i)
              \/ /\ k \in Nat /\ k > Len(old) /\ k - Len(old) \in Restorable(new, i)
                 /\ (old \o new)[k] = new[k - Len(old)]
         /\ \A k \in Restorable(new, i) : k + Len(old) \in Restorable(old \o new, i)
<1> DEFINE all == old \o new
<1>1. /\ all \in Seq(EntryType) /\ Len(all) = Len(old) + Len(new) /\ Len(old) \in Nat /\ Len(new) \in Nat
      /\ DOMAIN all = 1..Len(all) /\ DOMAIN old = 1..Len(old) /\ DOMAIN new = 1..Len(new)
  OBVIOUS
<1>2. /\ \A k \in 1..Len(old) : k \in 1..Len(all) /\ all[k] = old[k]
      /\ \A k \in 1..Len(new) : k + Len(old) \in 1..Len(all) /\ all[k + Len(old)] = new[k]
      /\ \A k \in 1..Len(all) : k \in 1..Len(old)
                                \/ (k > Len(old) /\ k - Len(old) \in 1..Len(new) /\ all[k] = new[k - Len(old)])
  OBVIOUS
<1> HIDE DEF all
<1>3. Restorable(old, i) \subseteq 1..Len(old) /\ Restorable(new, i) \subseteq 1..Len(new)
  BY <1>1 DEF Restorable
<1>4. Restorable(old, i) \subseteq Restorable(all, i)
  BY <1>1, <1>2 DEF Restorable
<1>5. ASSUME NEW k \in Restorable(all, i)
      PROVE  \/ k \in Restorable(old, i)
             \/ /\ k \in Nat /\ k > Len(old) /\ k - Len(old) \in Restorable(new, i)
                /\ all[k] = new[k - Len(old)]
  <2>1. k \in 1..Len(all)
    BY <1>1 DEF Restorable
  <2> QED BY <1>1, <1>2, <2>1 DEF Restorable
<1>6. \A k \in Restorable(new, i) : k + Len(old) \in Restorable(all, i)
  BY <1>1, <1>2, <1>3 DEF Restorable
<1> QED BY <1>3, <1>4, <1>5, <1>6 DEF all

(* Recording entries leaves every shift where the undo would put it, if a shift without new *)
(* entries keeps its place and the entries about the others hold the rows that they had.     *)
LEMMA RecordingKeepsPlace ==
  ASSUME NEW old \in Seq(EntryType), NEW new \in Seq(EntryType), NEW i \in Ids,
         NEW before, NEW after,
         Restorable(new, i) = {} => Placement(after[i]) = Placement(before[i]),
         \A k \in Restorable(new, i) : new[k].before = before[i]
  PROVE  Placement(Rewound(old \o new, after)[i]) = Placement(Rewound(old, before)[i])
<1> DEFINE all == old \o new
           ks == Restorable(old, i)
           ls == Restorable(all, i)
           ns == Restorable(new, i)
<1>1. /\ ks \subseteq 1..Len(old) /\ ks \subseteq ls /\ Len(old) \in Nat
      /\ \A k \in ls : \/ k \in ks
                       \/ /\ k \in Nat /\ k > Len(old) /\ k - Len(old) \in ns
                          /\ all[k] = new[k - Len(old)]
      /\ \A k \in ns : k + Len(old) \in ls
  BY LongerLog
<1>2. ks \in SUBSET Nat /\ ls \in SUBSET Nat
  BY <1>1
<1>3. \A k \in 1..Len(old) : all[k] = old[k]
  OBVIOUS
<1>4. /\ Rewound(all, after)[i] = IF ls = {} THEN after[i] ELSE all[First(ls)].before
      /\ Rewound(old, before)[i] = IF ks = {} THEN before[i] ELSE old[First(ks)].before
  BY RewoundAt
<1>5. /\ ns = {} => Placement(after[i]) = Placement(before[i])
      /\ \A k \in ns : new[k].before = before[i]
  OBVIOUS
<1> HIDE DEF all, ks, ls, ns
<1>6. CASE ks # {}
  <2>1. First(ks) \in ks /\ \A j \in ks : First(ks) <= j
    BY <1>2, <1>6, FirstIsLeast
  <2>2. ls # {}
    BY <1>1, <1>6
  <2>3. First(ls) \in ls /\ \A j \in ls : First(ls) <= j
    BY <1>2, <2>2, FirstIsLeast
  <2>4. First(ls) <= First(ks) /\ First(ks) \in 1..Len(old) /\ First(ls) \in Nat
    BY <1>1, <1>2, <2>1, <2>3
  <2>5. First(ls) \in ks
    BY <1>1, <2>3, <2>4
  <2>6. First(ls) = First(ks)
    BY <1>2, <2>1, <2>4, <2>5
  <2>7. Rewound(all, after)[i] = Rewound(old, before)[i]
    BY <1>3, <1>4, <1>6, <2>2, <2>4, <2>6
  <2> QED BY <2>7 DEF all
<1>7. CASE ks = {} /\ ns = {}
  <2>1. ls = {}
    BY <1>1, <1>7
  <2> QED BY <1>4, <1>5, <1>7, <2>1 DEF all
<1>8. CASE ks = {} /\ ns # {}
  <2>1. ls # {}
    BY <1>1, <1>8
  <2>2. First(ls) \in ls
    BY <1>2, <2>1, FirstIsLeast
  <2>3. First(ls) - Len(old) \in ns /\ all[First(ls)] = new[First(ls) - Len(old)]
    BY <1>1, <1>8, <2>2
  <2>4. Rewound(all, after)[i] = before[i]
    BY <1>4, <1>5, <2>1, <2>3
  <2> QED BY <1>4, <1>8, <2>4 DEF all
<1> QED BY <1>6, <1>7, <1>8

(* A step after which an undo would put shift i where it would have put it before. *)
SamePlace(i) == Placement(Rewound(log', shifts')[i]) = Placement(Rewound(log, shifts)[i])

(* The entries about one shift, and the rows that an undo of one entry looks at. *)
LEMMA OneEntry ==
  ASSUME NEW j \in Ids, NEW b \in Cells, NEW a \in Cells, NEW i \in Ids
  PROVE  /\ Restorable(<<Change(j, b, a)>>, i) =
              IF i = j /\ (b # NoShift \/ a # NoShift) THEN {1} ELSE {}
         /\ <<Change(j, b, a)>>[1].before = b
         /\ <<Change(j, b, a)>>[1].id = j
<1> DEFINE new == <<Change(j, b, a)>>
<1>1. DOMAIN new = {1} /\ new[1] = Change(j, b, a)
  OBVIOUS
<1>2. /\ Change(j, b, a).id = j /\ ~Change(j, b, a).undone
      /\ Change(j, b, a).entity = "scheduled_shift"
      /\ Change(j, b, a).before = b /\ Change(j, b, a).after = a
  BY DEF Change, Entry
<1> HIDE DEF new
<1>3. Restorable(new, i) = IF i = j /\ (b # NoShift \/ a # NoShift) THEN {1} ELSE {}
  BY <1>1, <1>2 DEF Restorable
<1> QED BY <1>1, <1>2, <1>3 DEF new

(* The recording of a change of one shift from the row that it has. *)
LEMMA OneChange ==
  ASSUME TypesOK, NEW j \in Ids, NEW b \in Cells, shifts' \in Grids,
         log' = log \o <<Change(j, b, shifts'[j])>>,
         \A i \in Ids \ {j} : shifts'[i] = shifts[i],
         NEW i \in Ids, i = j => b = shifts[i]
  PROVE  SamePlace(i)
<1> DEFINE a == shifts'[j]
           new == <<Change(j, b, a)>>
<1>1. a \in Cells
  BY DEF Grids
<1>2. log \in Seq(EntryType)
  BY DEF TypesOK, GridOK
<1>3. new \in Seq(EntryType)
  BY <1>1, ChangeIsEntry
<1>4. /\ Restorable(new, i) = IF i = j /\ (b # NoShift \/ a # NoShift) THEN {1} ELSE {}
      /\ new[1].before = b
  BY <1>1, OneEntry
<1>5. log' = log \o new
  OBVIOUS
<1> HIDE DEF new
<1>6. Restorable(new, i) = {} => Placement(shifts'[i]) = Placement(shifts[i])
  <2>1. CASE i # j
    BY <2>1
  <2>2. CASE i = j
    <3>1. Restorable(new, i) = {} => b = NoShift /\ a = NoShift
      BY <1>4, <2>2
    <3> QED BY <2>2, <3>1
  <2> QED BY <2>1, <2>2
<1>7. \A k \in Restorable(new, i) : new[k].before = shifts[i]
  BY <1>4
<1>8. Placement(Rewound(log \o new, shifts')[i]) = Placement(Rewound(log, shifts)[i])
  BY <1>2, <1>3, <1>6, <1>7, RecordingKeepsPlace
<1> QED BY <1>5, <1>8 DEF SamePlace

(* What an edit in progress has read of the log is a beginning of it, as far as the ids go, *)
(* and what was undone stays undone.                                                        *)
Ancestor(old, new) ==
  /\ Len(old) <= Len(new)
  /\ \A k \in 1..Len(old) : new[k].id = old[k].id /\ (old[k].undone => new[k].undone)
ReadsOK == \A c \in Editors : editor[c].busy => Ancestor(editor[c].log, log)

(* Ids not yet given away are of no row, of no entry, and nobody has read a row of them. *)
Unused(i) == shifts[i] = NoShift /\ \A k \in 1..Len(log) : log[k].id # i
FreshOK ==
  /\ Len(InitialShifts) < nextId
  /\ \A i \in Ids : i >= nextId =>
       /\ Unused(i)
       /\ \A c \in Editors : editor[c].busy => editor[c].shifts[i] = NoShift

LEMMA AncestorsOfAncestors ==
  ASSUME NEW x \in Seq(EntryType), NEW y \in Seq(EntryType), NEW z \in Seq(EntryType),
         Ancestor(x, y), Ancestor(y, z)
  PROVE  Ancestor(x, z)
<1>1. Len(x) \in Nat /\ Len(y) \in Nat /\ Len(z) \in Nat /\ Len(x) <= Len(y) /\ Len(y) <= Len(z)
  BY DEF Ancestor
<1>2. ASSUME NEW k \in 1..Len(x) PROVE z[k].id = x[k].id /\ (x[k].undone => z[k].undone)
  <2>1. k \in 1..Len(y)
    BY <1>1
  <2>2. y[k].id = x[k].id /\ (x[k].undone => y[k].undone)
    BY Zenon DEF Ancestor
  <2>3. z[k].id = y[k].id /\ (y[k].undone => z[k].undone)
    BY <2>1, Zenon DEF Ancestor
  <2> QED BY <2>2, <2>3, Zenon
<1>3. Len(x) <= Len(z)
  BY <1>1
<1> QED BY <1>2, <1>3, Zenon DEF Ancestor

(* What an edit in progress has read is typed. *)
LEMMA BusyReads ==
  ASSUME TypesOK, NEW c \in Editors, editor[c].busy
  PROVE  editor[c].log \in Seq(EntryType) /\ editor[c].shifts \in Grids
BY ReadsAreTyped DEF Reads

(* A step that lengthens the log, leaves the unused ids alone and loads nothing. *)
LEMMA FrameKept ==
  ASSUME TypesOK, TypesOK', FreshOK, ReadsOK, Ancestor(log, log'), nextId <= nextId',
         \A i \in Ids : i >= nextId' => Unused(i)',
         \A c \in Editors : editor'[c].busy => editor[c].busy /\ editor'[c] = editor[c]
  PROVE  FreshOK' /\ ReadsOK'
<1>1. nextId \in Nat /\ nextId' \in Nat /\ log \in Seq(EntryType) /\ log' \in Seq(EntryType)
  BY DEF TypesOK, GridOK
<1>2. Len(InitialShifts) \in Nat
  BY InitialAssumption
<1>3. ReadsOK'
  <2> SUFFICES ASSUME NEW c \in Editors, editor'[c].busy PROVE Ancestor(editor'[c].log, log')
    BY Zenon DEF ReadsOK
  <2>1. editor[c].busy /\ editor'[c] = editor[c]
    BY Zenon
  <2>2. Ancestor(editor[c].log, log) /\ editor[c].log \in Seq(EntryType)
    BY <2>1, BusyReads, Zenon DEF ReadsOK
  <2>3. Ancestor(editor[c].log, log')
    BY <1>1, <2>2, AncestorsOfAncestors, Zenon
  <2> QED BY <2>1, <2>3
<1>4. ASSUME NEW i \in Ids, i >= nextId', NEW c \in Editors, editor'[c].busy
      PROVE  editor'[c].shifts[i] = NoShift
  <2>1. editor[c].busy /\ editor'[c] = editor[c]
    BY <1>4, Zenon
  <2>2. i >= nextId
    BY <1>1, <1>4 DEF Ids
  <2>3. editor[c].shifts[i] = NoShift
    BY <2>1, <2>2, Zenon DEF FreshOK
  <2> QED BY <2>1, <2>3
<1>5. Len(InitialShifts) < nextId'
  BY <1>1, <1>2 DEF FreshOK
<1> QED BY <1>3, <1>4, <1>5, Zenon DEF FreshOK

(* Only the edits that go on are busy after a handler ends. *)
LEMMA FinishEnds ==
  ASSUME TypesOK, NEW c \in Editors, Finish(c)
  PROVE  \A d \in Editors : editor'[d].busy => editor[d].busy /\ editor'[d] = editor[d]
<1> SUFFICES ASSUME NEW d \in Editors, editor'[d].busy
             PROVE  editor[d].busy /\ editor'[d] = editor[d]
  OBVIOUS
<1>1. editor' = [editor EXCEPT ![c] = Idle]
  BY DEF Finish
<1>2. d # c
  <2>1. ~Idle.busy
    BY DEF Idle
  <2> QED BY <1>1, <2>1 DEF TypesOK, EditorOK
<1>3. editor'[d] = editor[d]
  BY <1>1, <1>2 DEF TypesOK, EditorOK
<1> QED BY <1>3

(* Recording entries about ids that are given away by then leaves the others unused. *)
LEMMA RecordedFrame ==
  ASSUME TypesOK, FreshOK, NEW entries \in Seq(EntryType), log' = log \o entries,
         nextId' \in Nat, nextId <= nextId',
         \A i \in Ids : i >= nextId' => shifts'[i] = shifts[i],
         \A k \in 1..Len(entries) : entries[k].id < nextId'
  PROVE  Ancestor(log, log') /\ \A i \in Ids : i >= nextId' => Unused(i)'
<1>1. /\ log \in Seq(EntryType) /\ Len(log) \in Nat /\ Len(entries) \in Nat
      /\ Len(log') = Len(log) + Len(entries) /\ nextId \in Nat
      /\ \A k \in 1..Len(log) : log'[k] = log[k]
      /\ \A k \in 1..Len(log') : \/ k \in 1..Len(log)
                                 \/ k - Len(log) \in 1..Len(entries) /\ log'[k] = entries[k - Len(log)]
  BY DEF TypesOK, GridOK
<1>2. Ancestor(log, log')
  BY <1>1 DEF Ancestor
<1>3. ASSUME NEW i \in Ids, i >= nextId' PROVE shifts'[i] = NoShift /\ \A k \in 1..Len(log') : log'[k].id # i
  <2>1. i >= nextId
    BY <1>1, <1>3 DEF Ids
  <2>2. shifts[i] = NoShift /\ \A k \in 1..Len(log) : log[k].id # i
    BY <2>1, Zenon DEF FreshOK, Unused
  <2>3. ASSUME NEW k \in 1..Len(log') PROVE log'[k].id # i
    <3>1. CASE k \in 1..Len(log)
      BY <1>1, <2>2, <3>1
    <3>2. CASE k - Len(log) \in 1..Len(entries) /\ log'[k] = entries[k - Len(log)]
      <4>1. entries[k - Len(log)].id < nextId'
        BY <3>2
      <4>2. entries[k - Len(log)].id # i
        <5>1. entries[k - Len(log)] \in EntryType
          BY <3>2
        <5>2. entries[k - Len(log)].id \in Ids \cup {0}
          BY <5>1 DEF EntryType
        <5> QED BY <1>3, <4>1, <5>2 DEF Ids
      <4> QED BY <3>2, <4>2
    <3> QED BY <1>1, <3>1, <3>2
  <2> QED BY <1>3, <2>2, <2>3
<1> QED BY <1>2, <1>3, Zenon DEF Unused

(* What a step keeps of the way back to the baseline. *)
Traced ==
  /\ FreshOK' /\ ReadsOK'
  /\ stale \subseteq stale' /\ unrestorable \subseteq unrestorable'
  /\ \A i \in Ids \ (stale' \cup unrestorable') : SamePlace(i)

(* The reads of a handler see rows of used ids only. *)
LEMMA ReadIdsAreUsed ==
  ASSUME TypesOK, FreshOK, NEW c \in Editors, NEW j \in Ids, Reads(c).shifts[j] # NoShift
  PROVE  j < nextId
<1> SUFFICES ASSUME j >= nextId PROVE FALSE
  BY DEF TypesOK, GridOK, Ids
<1>1. shifts[j] = NoShift /\ (editor[c].busy => editor[c].shifts[j] = NoShift)
  BY Zenon DEF FreshOK, Unused
<1>2. Reads(c).shifts = IF editor[c].busy THEN editor[c].shifts ELSE shifts
  BY DEF Reads
<1> QED BY <1>1, <1>2

(* A handler that changes one shift and records the row that it read. *)
LEMMA ChangeTraced ==
  ASSUME TypesOK, TypesOK', FreshOK, ReadsOK, NEW j \in Ids, NEW b \in Cells,
         log' = log \o <<Change(j, b, shifts'[j])>>,
         \A i \in Ids \ {j} : shifts'[i] = shifts[i],
         nextId <= nextId', j < nextId',
         \A c \in Editors : editor'[c].busy => editor[c].busy /\ editor'[c] = editor[c],
         stale \subseteq stale', unrestorable' = unrestorable,
         b = shifts[j] \/ j \in stale'
  PROVE  Traced
<1> DEFINE entries == <<Change(j, b, shifts'[j])>>
<1>1. shifts' \in Grids /\ nextId' \in Nat /\ nextId \in Nat /\ shifts'[j] \in Cells
  BY DEF TypesOK, GridOK, Grids
<1>2. entries \in Seq(EntryType) /\ entries[1].id = j /\ Len(entries) = 1
  BY <1>1, ChangeIsEntry, OneEntry
<1>3. log' = log \o entries
  OBVIOUS
<1> HIDE DEF entries
<1>4. \A k \in 1..Len(entries) : entries[k].id < nextId'
  BY <1>2
<1>5. \A i \in Ids : i >= nextId' => shifts'[i] = shifts[i]
  BY <1>1 DEF Ids
<1>6. Ancestor(log, log') /\ \A i \in Ids : i >= nextId' => Unused(i)'
  BY <1>1, <1>2, <1>3, <1>4, <1>5, RecordedFrame
<1>7. FreshOK' /\ ReadsOK'
  BY <1>6, FrameKept
<1>8. ASSUME NEW i \in Ids \ (stale' \cup unrestorable') PROVE SamePlace(i)
  <2>1. i = j => b = shifts[i]
    BY <1>8
  <2> QED BY <1>1, <2>1, OneChange
<1> QED BY <1>7, <1>8 DEF Traced

LEMMA InsertTraced ==
  ASSUME TypesOK, TypesOK', FreshOK, ReadsOK, NEW e \in Owners, NEW slot \in Slots,
         InsertReviewed(e, slot)
  PROVE  Traced
<1> DEFINE row == [owner |-> e, slot |-> slot, status |-> "Draft"]
           placed == [shifts EXCEPT ![nextId] = row]
<1>1. /\ nextId \in Ids /\ shifts' = Reviewed(placed, nextId) /\ nextId' = nextId + 1
      /\ log' = log \o <<Change(nextId, NoShift, shifts'[nextId])>>
      /\ editor' = editor /\ stale' = stale /\ unrestorable' = unrestorable
  BY DEF InsertReviewed, Record, history
<1>2. row \in RowType
  BY AskedAreRows DEF RowType
<1>3. placed \in Grids /\ placed[nextId] \in RowType /\ \A i \in Ids \ {nextId} : placed[i] = shifts[i]
  BY <1>1, <1>2 DEF TypesOK, GridOK, Grids, Cells
<1> HIDE DEF placed
<1>4. \A i \in Ids \ {nextId} : shifts'[i] = shifts[i]
  BY <1>1, <1>3, ReviewIsGrid
<1>5. NoShift = shifts[nextId]
  BY <1>1 DEF FreshOK, Unused, TypesOK, GridOK
<1>6. nextId <= nextId' /\ nextId < nextId' /\ NoShift \in Cells
  BY <1>1 DEF TypesOK, GridOK, Cells
<1> QED BY <1>1, <1>4, <1>5, <1>6, ChangeTraced

LEMMA DuplicateTraced ==
  ASSUME TypesOK, TypesOK', FreshOK, ReadsOK, NEW c \in Editors, NEW i \in Ids,
         NEW e \in Owners, NEW d \in Dates, DuplicateShift(c, i, e, d)
  PROVE  Traced
<1> DEFINE copy == [owner |-> e, slot |-> [Reads(c).shifts[i].slot EXCEPT !.date = d], status |-> "Draft"]
<1>1. /\ nextId \in Ids /\ shifts' = [shifts EXCEPT ![nextId] = copy] /\ nextId' = nextId + 1
      /\ log' = log \o <<Change(nextId, NoShift, copy)>>
      /\ Finish(c) /\ stale' = stale /\ unrestorable' = unrestorable
  BY DEF DuplicateShift, Record, history
<1> HIDE DEF copy
<1>2. shifts'[nextId] = copy /\ \A j \in Ids \ {nextId} : shifts'[j] = shifts[j]
  BY <1>1 DEF TypesOK, GridOK, Grids
<1>3. NoShift = shifts[nextId]
  BY <1>1 DEF FreshOK, Unused, TypesOK, GridOK
<1>4. nextId <= nextId' /\ nextId < nextId' /\ NoShift \in Cells
  BY <1>1 DEF TypesOK, GridOK, Cells
<1>5. \A j \in Editors : editor'[j].busy => editor[j].busy /\ editor'[j] = editor[j]
  BY <1>1, FinishEnds
<1> QED BY <1>1, <1>2, <1>3, <1>4, <1>5, ChangeTraced

(* What saving, moving and deleting have in common. *)
LEMMA EditTraced ==
  ASSUME TypesOK, TypesOK', FreshOK, ReadsOK, NEW c \in Editors, NEW i \in Ids,
         Reads(c).shifts[i] # NoShift,
         Record(<<Change(i, Reads(c).shifts[i], shifts'[i])>>),
         \A j \in Ids \ {i} : shifts'[j] = shifts[j],
         stale' = stale \cup StaleIds(Reads(c).shifts, {i}), unrestorable' = unrestorable,
         nextId' = nextId, Finish(c)
  PROVE  Traced
<1> DEFINE b == Reads(c).shifts[i]
<1>1. b \in Cells
  BY ReadsAreTyped DEF Grids
<1>2. b = shifts[i] \/ i \in stale'
  BY DEF StaleIds
<1>3. log' = log \o <<Change(i, b, shifts'[i])>>
  BY DEF Record
<1>4. i < nextId /\ nextId <= nextId'
  BY ReadIdsAreUsed DEF TypesOK, GridOK
<1>5. \A j \in Editors : editor'[j].busy => editor[j].busy /\ editor'[j] = editor[j]
  BY FinishEnds
<1> HIDE DEF b
<1> QED BY <1>1, <1>2, <1>3, <1>4, <1>5, ChangeTraced

LEMMA SaveTraced ==
  ASSUME TypesOK, TypesOK', FreshOK, ReadsOK, NEW c \in Editors, NEW i \in Ids,
         NEW e \in Owners, NEW slot \in Slots, SaveShift(c, i, e, slot)
  PROVE  Traced
<1> DEFINE placed == [shifts EXCEPT ![i].owner = e, ![i].slot = slot]
<1>1. /\ Reads(c).shifts[i] # NoShift
      /\ shifts' = IF shifts[i] = NoShift THEN shifts ELSE Reviewed(placed, i)
      /\ Record(<<Change(i, Reads(c).shifts[i], shifts'[i])>>)
      /\ stale' = stale \cup StaleIds(Reads(c).shifts, {i})
      /\ Finish(c) /\ nextId' = nextId /\ unrestorable' = unrestorable
  BY DEF SaveShift
<1>2. \A j \in Ids \ {i} : shifts'[j] = shifts[j]
  BY <1>1 DEF Reviewed, TypesOK, GridOK, Grids
<1> QED BY <1>1, <1>2, EditTraced

LEMMA MoveTraced ==
  ASSUME TypesOK, TypesOK', FreshOK, ReadsOK, NEW c \in Editors, NEW i \in Ids,
         NEW d \in Dates, MoveShift(c, i, d)
  PROVE  Traced
<1>1. /\ Reads(c).shifts[i] # NoShift
      /\ shifts' = IF shifts[i] = NoShift THEN shifts ELSE [shifts EXCEPT ![i].slot.date = d]
      /\ Record(<<Change(i, Reads(c).shifts[i], shifts'[i])>>)
      /\ stale' = stale \cup StaleIds(Reads(c).shifts, {i})
      /\ Finish(c) /\ nextId' = nextId /\ unrestorable' = unrestorable
  BY DEF MoveShift
<1>2. \A j \in Ids \ {i} : shifts'[j] = shifts[j]
  BY <1>1 DEF TypesOK, GridOK, Grids
<1> QED BY <1>1, <1>2, EditTraced

LEMMA DeleteTraced ==
  ASSUME TypesOK, TypesOK', FreshOK, ReadsOK, NEW c \in Editors, NEW i \in Ids, DeleteShift(c, i)
  PROVE  Traced
<1>1. /\ Reads(c).shifts[i] # NoShift
      /\ shifts' = [shifts EXCEPT ![i] = NoShift]
      /\ Record(<<Change(i, Reads(c).shifts[i], NoShift)>>)
      /\ stale' = stale \cup StaleIds(Reads(c).shifts, {i})
      /\ Finish(c) /\ nextId' = nextId /\ unrestorable' = unrestorable
  BY DEF DeleteShift
<1>2. shifts'[i] = NoShift /\ \A j \in Ids \ {i} : shifts'[j] = shifts[j]
  BY <1>1 DEF TypesOK, GridOK, Grids
<1>3. Record(<<Change(i, Reads(c).shifts[i], shifts'[i])>>)
  BY <1>1, <1>2
<1> QED BY <1>1, <1>2, <1>3, EditTraced

(* The copies of a week are new shifts, each with an entry that says so. *)
LEMMA CopyTraced ==
  ASSUME TypesOK, TypesOK', FreshOK, ReadsOK, NEW c \in Editors,
         NEW from \in Weeks, NEW to \in Weeks, CopyWeek(c, from, to)
  PROVE  Traced
<1> DEFINE read == Reads(c).shifts
           source == ShiftsOfWeek(read, from)
           CopyId(i) == nextId + Cardinality({j \in source : j < i})
           Copy(i) == [owner |-> read[i].owner, status |-> "Draft",
                       slot |-> [read[i].slot EXCEPT !.date = @ + 7 * (to - from)]]
           m == Cardinality(source)
           entry(k) == Change(nextId + k - 1, NoShift, shifts'[nextId + k - 1])
           entries == [k \in 1..m |-> entry(k)]
<1>1. shifts' = [n \in Ids |-> IF \E i \in source : n = CopyId(i)
                               THEN Copy(CHOOSE i \in source : n = CopyId(i)) ELSE shifts[n]]
  BY Zenon DEF CopyWeek
<1>2. nextId + m - 1 \in Ids /\ nextId' = nextId + m
  BY Zenon DEF CopyWeek
<1>3. Record(entries) /\ Finish(c) /\ UNCHANGED history
  BY Zenon DEF CopyWeek
<1>4. source \subseteq Ids
  BY DEF ShiftsOfWeek, Present
<1>5. IsFiniteSet(source) /\ m \in Nat /\ nextId \in Nat \ {0}
  <2>1. IsFiniteSet(Ids)
    BY BoundsAssumption, FS_Interval DEF Ids
  <2> QED BY <1>4, <2>1, FS_Subset, FS_CardinalityType DEF TypesOK, GridOK
<1> HIDE DEF source
<1>6. ASSUME NEW i \in source PROVE CopyId(i) >= nextId /\ CopyId(i) < nextId + m
  <2> DEFINE below == {j \in source : j < i}
  <2>1. below \subseteq source /\ i \notin below
    BY <1>4 DEF Ids
  <2>2. IsFiniteSet(below) /\ Cardinality(below) \in Nat /\ Cardinality(below) < m
    <3> HIDE DEF below
    <3>1. IsFiniteSet(below) /\ Cardinality(below) <= m /\ Cardinality(below) # m
      BY <1>5, <1>6, <2>1, FS_Subset
    <3> QED BY <1>5, <3>1, FS_CardinalityType
  <2> HIDE DEF below
  <2>3. CopyId(i) = nextId + Cardinality(below)
    BY DEF below
  <2> QED BY <1>5, <2>2, <2>3
<1> HIDE DEF m, CopyId, Copy
<1>7. \A i \in Ids : i < nextId \/ i >= nextId + m => shifts'[i] = shifts[i]
  BY <1>1, <1>5, <1>6 DEF Ids
<1>8. shifts' \in Grids
  BY DEF TypesOK, GridOK
<1>9. ASSUME NEW k \in 1..m
      PROVE  /\ nextId + k - 1 \in Ids /\ entry(k) \in EntryType
             /\ entry(k).id = nextId + k - 1 /\ entry(k).before = NoShift
             /\ entry(k).after = shifts'[nextId + k - 1]
             /\ ~entry(k).undone /\ entry(k).entity = "scheduled_shift"
  <2>1. nextId + k - 1 \in Ids
    BY <1>2, <1>5, BoundsAssumption DEF Ids
  <2>2. shifts'[nextId + k - 1] \in Cells /\ NoShift \in Cells
    BY <1>8, <2>1 DEF Grids, Cells
  <2> QED BY <2>1, <2>2, ChangeIsEntry DEF Change, Entry
<1> HIDE DEF entry
<1>10. entries \in Seq(EntryType) /\ Len(entries) = m /\ DOMAIN entries = 1..m
       /\ \A k \in 1..m : entries[k] = entry(k)
  BY <1>5, <1>9
<1> HIDE DEF entries
<1>11. log' = log \o entries
  BY <1>3 DEF Record
<1>12. \A j \in Editors : editor'[j].busy => editor[j].busy /\ editor'[j] = editor[j]
  BY <1>3, FinishEnds
<1>13. FreshOK' /\ ReadsOK'
  <2>1. nextId' \in Nat /\ nextId <= nextId'
    BY <1>2, <1>5
  <2>2. \A i \in Ids : i >= nextId' => shifts'[i] = shifts[i]
    BY <1>2, <1>7
  <2>3. \A k \in 1..Len(entries) : entries[k].id < nextId'
    BY <1>2, <1>5, <1>9, <1>10
  <2>4. Ancestor(log, log') /\ \A i \in Ids : i >= nextId' => Unused(i)'
    BY <1>10, <1>11, <2>1, <2>2, <2>3, RecordedFrame
  <2> QED BY <1>12, <2>1, <2>4, FrameKept
<1>14. ASSUME NEW i \in Ids PROVE SamePlace(i)
  <2>1. \A k \in Restorable(entries, i) :
          k \in 1..m /\ entries[k].id = i /\ entries[k].before = NoShift
    BY <1>9, <1>10 DEF Restorable
  <2>2. \A k \in Restorable(entries, i) : entries[k].before = shifts[i]
    <3> SUFFICES ASSUME NEW k \in Restorable(entries, i) PROVE shifts[i] = NoShift
      BY <2>1
    <3>1. k \in 1..m /\ i = nextId + k - 1
      BY <1>9, <1>10, <2>1
    <3>2. i >= nextId
      BY <1>5, <3>1
    <3> QED BY <3>2 DEF FreshOK, Unused
  <2>3. ASSUME Restorable(entries, i) = {} PROVE shifts'[i] = shifts[i]
    <3>1. CASE i < nextId \/ i >= nextId + m
      BY <1>7, <3>1
    <3>2. CASE i >= nextId /\ i < nextId + m
      <4>1. i - nextId + 1 \in 1..m /\ nextId + (i - nextId + 1) - 1 = i
        BY <1>5, <3>2 DEF Ids
      <4> DEFINE k == i - nextId + 1
      <4>2. entries[k] = entry(k) /\ entry(k).id = i /\ entry(k).after = shifts'[i]
            /\ ~entry(k).undone /\ entry(k).entity = "scheduled_shift" /\ k \in DOMAIN entries
        BY <1>9, <1>10, <4>1
      <4> HIDE DEF k
      <4>3. shifts'[i] = NoShift
        BY <2>3, <4>2 DEF Restorable
      <4>4. shifts[i] = NoShift
        BY <3>2, Zenon DEF FreshOK, Unused
      <4> QED BY <4>3, <4>4
    <3> QED BY <1>5, <3>1, <3>2 DEF Ids
  <2>4. log \in Seq(EntryType)
    BY DEF TypesOK, GridOK
  <2>5. Restorable(entries, i) = {} => Placement(shifts'[i]) = Placement(shifts[i])
    BY <2>3
  <2>6. Placement(Rewound(log \o entries, shifts')[i]) = Placement(Rewound(log, shifts)[i])
    BY <1>10, <2>2, <2>4, <2>5, RecordingKeepsPlace
  <2> QED BY <1>11, <2>6 DEF SamePlace
<1> QED BY <1>3, <1>13, <1>14 DEF Traced, history

(* A cleared day has one entry that restores no shift; its shifts are listed as such. *)
LEMMA ResetTraced ==
  ASSUME TypesOK, TypesOK', FreshOK, ReadsOK, NEW c \in Editors, NEW e, NEW d, ResetDay(c, e, d)
  PROVE  Traced
<1> DEFINE ofDay == {i \in OthersOf(shifts, e, {}) : shifts[i].slot.date = d}
           entry == Entry("employee_day", 0, NoShift, NoShift)
           entries == <<entry>>
<1>1. /\ shifts' = [i \in Ids |-> IF i \in ofDay THEN NoShift ELSE shifts[i]]
      /\ log' = log \o entries /\ Finish(c)
      /\ nextId' = nextId /\ stale' = stale /\ unrestorable' = unrestorable \cup ofDay
  BY DEF ResetDay, Record
<1>2. entry \in EntryType /\ entry.entity = "employee_day" /\ entry.id = 0
  BY DEF Entry, EntryType, Cells
<1> HIDE DEF ofDay, entry
<1>3. entries \in Seq(EntryType) /\ Len(entries) = 1 /\ DOMAIN entries = {1} /\ entries[1] = entry
  BY <1>2
<1> HIDE DEF entries
<1>4. nextId' \in Nat /\ nextId \in Nat /\ nextId <= nextId' /\ 0 < nextId'
  BY <1>1 DEF TypesOK, GridOK
<1>5. \A i \in Ids : shifts'[i] = NoShift \/ shifts'[i] = shifts[i]
  BY <1>1
<1>6. \A i \in Ids : i >= nextId' => shifts'[i] = shifts[i]
  BY <1>1, <1>5, Zenon DEF FreshOK, Unused
<1>7. \A k \in 1..Len(entries) : entries[k].id < nextId'
  BY <1>2, <1>3, <1>4
<1>8. Ancestor(log, log') /\ \A i \in Ids : i >= nextId' => Unused(i)'
  BY <1>1, <1>3, <1>4, <1>6, <1>7, RecordedFrame
<1>9. \A j \in Editors : editor'[j].busy => editor[j].busy /\ editor'[j] = editor[j]
  BY <1>1, FinishEnds
<1>10. FreshOK' /\ ReadsOK'
  BY <1>4, <1>8, <1>9, FrameKept
<1>11. ASSUME NEW i \in Ids \ (stale' \cup unrestorable') PROVE SamePlace(i)
  <2>1. Restorable(entries, i) = {}
    BY <1>2, <1>3 DEF Restorable
  <2>2. shifts'[i] = shifts[i]
    BY <1>1, <1>11
  <2>3. log \in Seq(EntryType)
    BY DEF TypesOK, GridOK
  <2>4. Placement(Rewound(log \o entries, shifts')[i]) = Placement(Rewound(log, shifts)[i])
    BY <1>3, <2>1, <2>2, <2>3, RecordingKeepsPlace
  <2> QED BY <1>1, <2>4 DEF SamePlace
<1> QED BY <1>1, <1>10, <1>11 DEF Traced

(* An undo does what it would have done before: to all shifts if its reads are the log as  *)
(* it is, and otherwise to the shifts that neither its reads nor later entries are about.  *)
LEMMA UndoTraced ==
  ASSUME TypesOK, TypesOK', FreshOK, ReadsOK, NEW c \in Editors, UndoChanges(c)
  PROVE  Traced
<1> DEFINE read == Reads(c).log
           touched == {read[k].id : k \in {j \in DOMAIN read : ~read[j].undone}} \ {0}
           later == {log[k].id : k \in DOMAIN log \ DOMAIN read} \ {0}
<1>1. /\ shifts' = Rewound(read, shifts)
      /\ log' = [k \in DOMAIN log |-> IF k \in DOMAIN read
                                      THEN [log[k] EXCEPT !.undone = TRUE] ELSE log[k]]
      /\ stale' = stale \cup (IF read = log THEN {} ELSE touched \cup later)
      /\ Finish(c) /\ nextId' = nextId /\ unrestorable' = unrestorable
  BY DEF UndoChanges
<1>2. read \in Seq(EntryType) /\ log \in Seq(EntryType) /\ log' \in Seq(EntryType)
  BY ReadsAreTyped DEF TypesOK, GridOK
<1>3. Ancestor(read, log)
  <2>1. CASE editor[c].busy
    BY <2>1 DEF ReadsOK, Reads
  <2>2. CASE ~editor[c].busy
    <3>1. read = log
      BY <2>2 DEF Reads
    <3>2. Ancestor(log, log)
      BY <1>2 DEF Ancestor
    <3> QED BY <3>1, <3>2
  <2> QED BY <2>1, <2>2
<1> HIDE DEF read
<1>4. /\ Len(read) \in Nat /\ Len(log) \in Nat /\ Len(read) <= Len(log) /\ Len(log') = Len(log)
      /\ DOMAIN read = 1..Len(read) /\ DOMAIN log = 1..Len(log) /\ DOMAIN log' = 1..Len(log)
  <2>1. DOMAIN log' = DOMAIN log
    BY <1>1
  <2>2. Len(read) <= Len(log)
    BY <1>3 DEF Ancestor
  <2> QED BY <1>2, <2>1, <2>2
<1>5. ASSUME NEW k \in 1..Len(log)
      PROVE  /\ log'[k].id = log[k].id /\ log'[k].entity = log[k].entity
             /\ log'[k].before = log[k].before /\ log'[k].after = log[k].after
             /\ log[k].undone => log'[k].undone
             /\ k \in DOMAIN read => log'[k].undone
  <2> DEFINE marked == [log[k] EXCEPT !.undone = TRUE]
  <2>1. log[k] \in EntryType
    BY <1>2
  <2>2. /\ marked.id = log[k].id /\ marked.entity = log[k].entity
        /\ marked.before = log[k].before /\ marked.after = log[k].after
        /\ marked.undone
    BY <2>1 DEF EntryType
  <2> HIDE DEF marked
  <2>3. log'[k] = IF k \in DOMAIN read THEN marked ELSE log[k]
    BY <1>1, <1>4 DEF marked
  <2>4. CASE k \in DOMAIN read
    <3>1. log'[k] = marked
      BY <2>3, <2>4
    <3> QED BY <2>2, <3>1, Zenon
  <2>5. CASE k \notin DOMAIN read
    <3>1. log'[k] = log[k]
      BY <2>3, <2>5
    <3> QED BY <2>5, <3>1, Zenon
  <2> QED BY <2>4, <2>5, Zenon
<1>6. ASSUME NEW i \in Ids PROVE Restorable(log', i) \subseteq Restorable(log, i)
  <2> SUFFICES ASSUME NEW k \in Restorable(log', i) PROVE k \in Restorable(log, i)
    OBVIOUS
  <2>1. /\ k \in DOMAIN log' /\ ~log'[k].undone /\ log'[k].entity = "scheduled_shift" /\ log'[k].id = i
        /\ log'[k].before # NoShift \/ log'[k].after # NoShift
    BY Zenon DEF Restorable
  <2>2. k \in 1..Len(log) /\ k \in DOMAIN log
    BY <1>4, <2>1
  <2>3. /\ ~log[k].undone /\ log[k].entity = "scheduled_shift" /\ log[k].id = i
        /\ log[k].before # NoShift \/ log[k].after # NoShift
    BY <1>5, <2>1, <2>2, Zenon
  <2> QED BY <2>2, <2>3, Zenon DEF Restorable
<1>7. ASSUME NEW i \in Ids, read = log PROVE SamePlace(i)
  <2>1. Restorable(log', i) = {}
    <3> SUFFICES ASSUME NEW k \in Restorable(log', i) PROVE FALSE
      OBVIOUS
    <3>1. k \in DOMAIN log' /\ ~log'[k].undone
      BY Zenon DEF Restorable
    <3>2. k \in 1..Len(log) /\ k \in DOMAIN read
      BY <1>4, <1>7, <3>1
    <3> QED BY <1>5, <3>1, <3>2, Zenon
  <2>2. Rewound(log', shifts')[i] = shifts'[i]
    BY <2>1, RewoundAt
  <2>3. shifts'[i] = Rewound(log, shifts)[i]
    BY <1>1, <1>7
  <2> QED BY <2>2, <2>3 DEF SamePlace
<1>8. ASSUME NEW i \in Ids, i \notin touched PROVE Restorable(read, i) = {} /\ shifts'[i] = shifts[i]
  <2>1. Restorable(read, i) = {}
    <3> SUFFICES ASSUME NEW k \in Restorable(read, i) PROVE FALSE
      OBVIOUS
    <3>1. k \in DOMAIN read /\ ~read[k].undone /\ read[k].id = i
      BY Zenon DEF Restorable
    <3>2. i # 0
      BY DEF Ids
    <3> QED BY <1>8, <3>1, <3>2
  <2>2. shifts'[i] = shifts[i]
    BY <1>1, <2>1, RewoundAt
  <2> QED BY <2>1, <2>2
<1>9. ASSUME NEW i \in Ids, i \notin touched, i \notin later PROVE SamePlace(i)
  <2>1. Restorable(log, i) = {}
    <3> SUFFICES ASSUME NEW k \in Restorable(log, i) PROVE FALSE
      OBVIOUS
    <3>1. k \in DOMAIN log /\ ~log[k].undone /\ log[k].id = i /\ i # 0
      <4>1. i # 0
        BY DEF Ids
      <4> QED BY <4>1, Zenon DEF Restorable
    <3>2. k \in DOMAIN read
      BY <1>9, <3>1
    <3>3. read[k].id = i /\ ~read[k].undone
      <4>1. k \in 1..Len(read)
        BY <1>4, <3>2
      <4>2. log[k].id = read[k].id /\ (read[k].undone => log[k].undone)
        BY <1>3, <4>1, Zenon DEF Ancestor
      <4> QED BY <3>1, <4>2, Zenon
    <3> QED BY <1>9, <3>1, <3>2, <3>3
  <2>2. Restorable(log', i) = {}
    BY <1>6, <2>1
  <2>3. Rewound(log', shifts')[i] = shifts'[i] /\ Rewound(log, shifts)[i] = shifts[i]
    BY <2>1, <2>2, RewoundAt
  <2> QED BY <1>8, <1>9, <2>3 DEF SamePlace
<1>10. \A i \in Ids \ (stale' \cup unrestorable') : SamePlace(i)
  <2> HIDE DEF touched, later
  <2> SUFFICES ASSUME NEW i \in Ids, i \notin stale' PROVE SamePlace(i)
    OBVIOUS
  <2>1. CASE read = log
    BY <1>7, <2>1
  <2>2. CASE read # log
    BY <1>1, <1>9, <2>2
  <2> QED BY <2>1, <2>2
<1>11. Ancestor(log, log')
  <2>1. Len(log) <= Len(log')
    BY <1>4
  <2>2. \A k \in 1..Len(log) : log'[k].id = log[k].id /\ (log[k].undone => log'[k].undone)
    BY <1>5, Zenon
  <2> QED BY <2>1, <2>2, Zenon DEF Ancestor
<1>12. ASSUME NEW i \in Ids, i >= nextId PROVE Unused(i)'
  <2>1. shifts[i] = NoShift /\ \A k \in 1..Len(log) : log[k].id # i
    BY <1>12, Zenon DEF FreshOK, Unused
  <2>2. \A k \in 1..Len(read) : read[k].id # i
    <3> SUFFICES ASSUME NEW k \in 1..Len(read) PROVE read[k].id # i
      OBVIOUS
    <3>1. log[k].id = read[k].id
      BY <1>3, Zenon DEF Ancestor
    <3>2. k \in 1..Len(log)
      BY <1>4
    <3> QED BY <2>1, <3>1, <3>2
  <2>3. i \notin touched
    BY <1>4, <2>2
  <2>4. shifts'[i] = NoShift
    BY <1>8, <2>1, <2>3
  <2>5. \A k \in 1..Len(log') : log'[k].id # i
    BY <1>4, <1>5, <2>1
  <2> QED BY <2>4, <2>5 DEF Unused
<1>13. \A j \in Editors : editor'[j].busy => editor[j].busy /\ editor'[j] = editor[j]
  BY <1>1, FinishEnds
<1>14. nextId <= nextId' /\ \A i \in Ids : i >= nextId' => Unused(i)'
  BY <1>1, <1>12 DEF TypesOK, GridOK
<1>15. FreshOK' /\ ReadsOK'
  BY <1>11, <1>13, <1>14, FrameKept
<1> QED BY <1>1, <1>10, <1>15 DEF Traced

(* Approving a shift changes no place; reading, giving up, publishing and acknowledging *)
(* change neither the grid nor its log.                                                 *)
LEMMA ApproveTraced ==
  ASSUME TypesOK, TypesOK', FreshOK, ReadsOK, NEW i \in Ids, ApproveReview(i)
  PROVE  Traced
<1>1. /\ shifts[i] # NoShift /\ shifts' = [shifts EXCEPT ![i].status = "Approved"]
      /\ nextId' = nextId /\ log' = log /\ editor' = editor /\ stale' = stale
      /\ unrestorable' = unrestorable
  BY DEF ApproveReview, history
<1>2. log \in Seq(EntryType) /\ Ancestor(log, log')
  BY <1>1 DEF TypesOK, GridOK, Ancestor
<1>3. i < nextId
  <2> SUFFICES ASSUME i >= nextId PROVE FALSE
    BY DEF TypesOK, GridOK, Ids
  <2> QED BY <1>1, Zenon DEF FreshOK, Unused
<1>4. \A j \in Ids \ {i} : shifts'[j] = shifts[j]
  BY <1>1 DEF TypesOK, GridOK, Grids
<1>5. nextId <= nextId' /\ \A j \in Ids : j >= nextId' => Unused(j)'
  <2>1. nextId \in Nat
    BY DEF TypesOK, GridOK
  <2>2. ASSUME NEW j \in Ids, j >= nextId PROVE Unused(j)'
    <3>1. j # i
      BY <1>3, <2>1, <2>2 DEF Ids
    <3>2. shifts[j] = NoShift /\ \A k \in 1..Len(log) : log[k].id # j
      BY <2>2, Zenon DEF FreshOK, Unused
    <3> QED BY <1>1, <1>4, <3>1, <3>2 DEF Unused
  <2> QED BY <1>1, <2>1, <2>2
<1>6. FreshOK' /\ ReadsOK'
  BY <1>1, <1>2, <1>5, FrameKept
<1>7. ASSUME NEW j \in Ids PROVE SamePlace(j)
  <2>1. Placement(shifts'[j]) = Placement(shifts[j])
    <3>1. CASE j # i
      BY <1>4, <3>1
    <3>2. CASE j = i
      <4>1. shifts[i] \in RowType
        BY <1>1 DEF TypesOK, GridOK, Grids, Cells
      <4> DEFINE after == [shifts[i] EXCEPT !.status = "Approved"]
      <4>2. after \in RowType /\ after.owner = shifts[i].owner /\ after.slot = shifts[i].slot
        BY <4>1 DEF RowType
      <4>3. shifts'[i] = after
        BY <1>1 DEF TypesOK, GridOK, Grids
      <4> HIDE DEF after
      <4>4. after # NoShift
        BY <4>2, RowIsPresent
      <4> QED BY <1>1, <3>2, <4>2, <4>3, <4>4 DEF Placement
    <3> QED BY <3>1, <3>2
  <2>2. /\ Rewound(log, shifts')[j] = IF Restorable(log, j) = {} THEN shifts'[j]
                                      ELSE log[First(Restorable(log, j))].before
        /\ Rewound(log, shifts)[j] = IF Restorable(log, j) = {} THEN shifts[j]
                                     ELSE log[First(Restorable(log, j))].before
    BY RewoundAt
  <2> QED BY <1>1, <2>1, <2>2 DEF SamePlace
<1> QED BY <1>1, <1>6, <1>7 DEF Traced

LEMMA OthersTraced ==
  ASSUME TypesOK, TypesOK', FreshOK, ReadsOK,
         \/ \E c \in Editors : Load(c) \/ Abandon(c)
         \/ \E w \in Weeks : Publish(w) \/ \E e \in Employees : Acknowledge(w, e)
         \/ UNCHANGED boardVars
  PROVE  Traced
<1>1. UNCHANGED <<shifts, nextId, log, stale, unrestorable>>
  BY DEF Load, Abandon, Publish, Acknowledge, boardVars, grid, history
<1>2. \A i \in Ids : SamePlace(i)
  BY <1>1 DEF SamePlace
<1>3. log \in Seq(EntryType) /\ Ancestor(log, log')
  BY <1>1 DEF TypesOK, GridOK, Ancestor
<1>4. nextId <= nextId' /\ \A j \in Ids : j >= nextId' => Unused(j)'
  <2>1. nextId <= nextId'
    BY <1>1 DEF TypesOK, GridOK
  <2> QED BY <1>1, <2>1, Zenon DEF FreshOK, Unused
<1>5. CASE \E c \in Editors : Load(c)
  <2>1. PICK c \in Editors : Load(c)
    BY <1>5
  <2>2. editor' = [editor EXCEPT ![c] = [busy |-> TRUE, shifts |-> shifts, log |-> log]]
    BY <2>1 DEF Load
  <2>3. /\ editor'[c].shifts = shifts /\ editor'[c].log = log
        /\ \A d \in Editors \ {c} : editor'[d] = editor[d]
    BY <2>2 DEF TypesOK, EditorOK
  <2>4. ReadsOK'
    <3> SUFFICES ASSUME NEW d \in Editors, editor'[d].busy PROVE Ancestor(editor'[d].log, log')
      BY Zenon DEF ReadsOK
    <3>1. CASE d = c
      BY <1>1, <1>3, <2>3, <3>1
    <3>2. CASE d # c
      BY <1>1, <2>3, <3>2, Zenon DEF ReadsOK
    <3> QED BY <3>1, <3>2
  <2>5. ASSUME NEW i \in Ids, i >= nextId', NEW d \in Editors, editor'[d].busy
        PROVE  editor'[d].shifts[i] = NoShift
    <3>1. i >= nextId
      BY <1>1, <2>5
    <3>2. CASE d = c
      BY <2>3, <3>1, <3>2, Zenon DEF FreshOK, Unused
    <3>3. CASE d # c
      <4>1. editor'[d] = editor[d]
        BY <2>3, <3>3
      <4> QED BY <2>5, <3>1, <4>1, Zenon DEF FreshOK
    <3> QED BY <3>2, <3>3
  <2>6. Len(InitialShifts) < nextId'
    BY <1>1 DEF FreshOK
  <2>7. FreshOK'
    BY <1>4, <2>5, <2>6, Zenon DEF FreshOK
  <2> QED BY <1>1, <1>2, <2>4, <2>7 DEF Traced
<1>6. CASE ~ \E c \in Editors : Load(c)
  <2>1. \A d \in Editors : editor'[d].busy => editor[d].busy /\ editor'[d] = editor[d]
    <3>1. CASE \E c \in Editors : Abandon(c)
      BY <3>1, FinishEnds DEF Abandon
    <3>2. CASE ~ \E c \in Editors : Abandon(c)
      <4>1. editor' = editor
        BY <1>6, <3>2 DEF Publish, Acknowledge, boardVars
      <4> QED BY <4>1
    <3> QED BY <3>1, <3>2
  <2>2. FreshOK' /\ ReadsOK'
    BY <1>3, <1>4, <2>1, FrameKept
  <2> QED BY <1>1, <1>2, <2>2 DEF Traced
<1> QED BY <1>5, <1>6

-----------------------------------------------------------------------------
BaselineInv == BoardInv /\ FreshOK /\ ReadsOK /\ UndoReturnsToBaseline

(* Nothing is to be undone when the run has just been saved. *)
LEMMA BaselineStart == BoardInit => BaselineInv
<1> SUFFICES ASSUME BoardInit PROVE BaselineInv
  OBVIOUS
<1>1. BoardInv
  BY InitialBoard
<1>2. /\ shifts = [i \in Ids |-> IF i \in DOMAIN InitialShifts THEN InitialShifts[i] ELSE NoShift]
      /\ nextId = Len(InitialShifts) + 1 /\ log = <<>> /\ editor = [c \in Editors |-> Idle]
  BY DEF BoardInit
<1>3. Len(InitialShifts) \in Nat /\ DOMAIN InitialShifts = 1..Len(InitialShifts)
  BY InitialAssumption
<1>4. \A c \in Editors : ~editor[c].busy
  BY <1>2 DEF Idle
<1>5. ReadsOK
  BY <1>4, Zenon DEF ReadsOK
<1>6. FreshOK
  <2>1. Len(InitialShifts) < nextId
    BY <1>2, <1>3
  <2>2. ASSUME NEW i \in Ids, i >= nextId PROVE Unused(i)
    <3>1. i \notin DOMAIN InitialShifts
      BY <1>2, <1>3, <2>2 DEF Ids
    <3>2. shifts[i] = NoShift
      BY <1>2, <3>1
    <3>3. 1..Len(log) = {}
      BY <1>2
    <3> QED BY <3>2, <3>3 DEF Unused
  <2> QED BY <1>4, <2>1, <2>2, Zenon DEF FreshOK
<1>7. UndoReturnsToBaseline
  <2> SUFFICES ASSUME NEW i \in Ids
               PROVE  Rewound(log, shifts)[i] = IF i \in DOMAIN InitialShifts THEN InitialShifts[i] ELSE NoShift
    BY DEF UndoReturnsToBaseline
  <2>1. Restorable(log, i) = {}
    BY <1>2 DEF Restorable
  <2> QED BY <1>2, <2>1, RewoundAt
<1> QED BY <1>1, <1>5, <1>6, <1>7 DEF BaselineInv

(* Every operation keeps the way back. *)
LEMMA StepsTraced ==
  ASSUME TypesOK, TypesOK', FreshOK, ReadsOK, [BoardNext]_boardVars
  PROVE  Traced
<1>1. ASSUME NEW c \in Editors, UndoChanges(c) PROVE Traced
  BY <1>1, UndoTraced
<1>2. ASSUME NEW c \in Editors, NEW i \in Ids, NEW e \in Owners, NEW s \in Slots,
             SaveShift(c, i, e, s)
      PROVE  Traced
  BY <1>2, SaveTraced
<1>3. ASSUME NEW c \in Editors, NEW i \in Ids, NEW d \in Dates, MoveShift(c, i, d) PROVE Traced
  BY <1>3, MoveTraced
<1>4. ASSUME NEW c \in Editors, NEW i \in Ids, DeleteShift(c, i) PROVE Traced
  BY <1>4, DeleteTraced
<1>5. ASSUME NEW c \in Editors, NEW i \in Ids, NEW e \in Owners, NEW d \in Dates,
             DuplicateShift(c, i, e, d)
      PROVE  Traced
  BY <1>5, DuplicateTraced
<1>6. ASSUME NEW c \in Editors, NEW from \in Weeks, NEW to \in Weeks, CopyWeek(c, from, to)
      PROVE  Traced
  BY <1>6, CopyTraced
<1>7. ASSUME NEW c \in Editors, NEW e \in Employees, NEW d \in Dates, ResetDay(c, e, d)
      PROVE  Traced
  BY <1>7, ResetTraced
<1>8. ASSUME NEW e \in Owners, NEW s \in Slots, CreateShift(e, s) \/ SaveNewShift(e, s)
      PROVE  Traced
  BY <1>8, InsertTraced DEF CreateShift, SaveNewShift
<1>9. ASSUME NEW i \in Ids, ApproveReview(i) PROVE Traced
  BY <1>9, ApproveTraced
<1>10. CASE EditorNext
  <2>1. CASE \E c \in Editors : Load(c) \/ Abandon(c)
    BY <2>1, OthersTraced
  <2> QED BY <1>1, <1>2, <1>3, <1>4, <1>5, <1>6, <1>7, <1>10, <2>1 DEF EditorNext
<1>11. CASE \/ \E w \in Weeks : Publish(w) \/ \E e \in Employees : Acknowledge(w, e)
            \/ UNCHANGED boardVars
  BY <1>11, OthersTraced
<1> QED BY <1>8, <1>9, <1>10, <1>11 DEF BoardNext

LEMMA BaselineStep == BaselineInv /\ [BoardNext]_boardVars => BaselineInv'
<1> SUFFICES ASSUME BaselineInv, [BoardNext]_boardVars PROVE BaselineInv'
  OBVIOUS
<1>1. TypesOK /\ FreshOK /\ ReadsOK /\ BoardInv /\ UndoReturnsToBaseline
  BY DEF BaselineInv, BoardInv
<1>2. BoardInv' /\ TypesOK'
  BY <1>1, BoardStep DEF BoardInv
<1>3. Traced
  BY <1>1, <1>2, StepsTraced
<1>4. UndoReturnsToBaseline'
  <2> SUFFICES ASSUME NEW i \in Ids \ (stale' \cup unrestorable')
               PROVE  Placement(Rewound(log', shifts')[i]) =
                        Placement(IF i \in DOMAIN InitialShifts THEN InitialShifts[i] ELSE NoShift)
    BY DEF UndoReturnsToBaseline
  <2>1. SamePlace(i) /\ i \in Ids \ (stale \cup unrestorable)
    BY <1>3 DEF Traced
  <2> QED BY <1>1, <2>1 DEF SamePlace, UndoReturnsToBaseline
<1> QED BY <1>2, <1>3, <1>4 DEF BaselineInv, Traced

(***************************************************************************)
(* For any number of employees, shifts, weeks and edits in progress, and   *)
(* however many changes, copies, earlier undos and further changes there   *)
(* were: undoing the open entries of the log puts every shift back where   *)
(* the saved payroll run had it (undo_payroll_period_changes), except the  *)
(* shifts that a handler with stale reads wrote and those that a cleared   *)
(* day removed.                                                            *)
(***************************************************************************)
THEOREM UndoRestoresBaseline == BoardSpec => []UndoReturnsToBaseline
<1>1. BaselineInv => UndoReturnsToBaseline
  BY DEF BaselineInv
<1> QED BY <1>1, BaselineStart, BaselineStep, PTL DEF BoardSpec

-----------------------------------------------------------------------------
(* Requests. *)


Statuses == OpenStatuses \cup {"Approved", "Rejected", "Withdrawn", "Swap Declined"}

RequestType ==
  [status : Statuses, by : Askers, shift : Ids, swap : BOOLEAN,
   with : Employees \cup {Nobody}, other : Ids \cup {0}, wanted : Wanted \cup {NoSlot},
   emergency : BOOLEAN, confirmed : BOOLEAN, applied : BOOLEAN]

(* A swap that may be decided was agreed to. *)
Agreed(row) == row.swap => row.confirmed \/ row.emergency
GoodRow(row) == row \in RequestType /\ (row.status \in DecidableStatuses => Agreed(row))

(* What later writes of a row keep of it. *)
Keeps(old, new) ==
  /\ new.swap = old.swap /\ new.emergency = old.emergency
  /\ old.confirmed => new.confirmed

GoodRows(rows) ==
  /\ rows = [r \in RequestIds |-> rows[r]]
  /\ \A r \in RequestIds : rows[r] # NoRequest => GoodRow(rows[r])

Advance(old, new) ==
  \A r \in RequestIds : old[r] # NoRequest => new[r] # NoRequest /\ Keeps(old[r], new[r])

DesksOK ==
  /\ desk = [d \in Desks |-> desk[d]]
  /\ \A d \in Desks : desk[d].busy =>
       GoodRows(desk[d].requests) /\ Advance(desk[d].requests, requests)

CarriedOK ==
  /\ carried = [r \in RequestIds |-> carried[r]]
  /\ \A r \in RequestIds : carried[r] > 0 => requests[r] # NoRequest /\ Agreed(requests[r])

AgreedInv == GoodRows(requests) /\ DesksOK /\ CarriedOK

-----------------------------------------------------------------------------
(* A row with a status of a request is one. *)
LEMMA RequestIsPresent ==
  ASSUME NEW row, row.status \in Statuses PROVE row # NoRequest
<1>1. NoRequest.status = "Absent"
  BY DEF NoRequest
<1>2. "Absent" \notin Statuses
  BY DEF Statuses, OpenStatuses
<1> QED BY <1>1, <1>2

(* Keeping is transitive, so a step that advances the rows keeps what desks have read. *)
LEMMA AdvanceTransitive ==
  ASSUME NEW a, NEW b, NEW c, Advance(a, b), Advance(b, c) PROVE Advance(a, c)
BY DEF Advance, Keeps

(* What a desk acts on is good and has only been advanced since. *)
LEMMA SeenIsKept ==
  ASSUME AgreedInv, NEW d \in Desks
  PROVE  GoodRows(Seen(d).requests) /\ Advance(Seen(d).requests, requests)
<1>1. CASE desk[d].busy
  BY <1>1 DEF AgreedInv, DesksOK, Seen
<1>2. CASE ~desk[d].busy
  <2>1. Seen(d).requests = requests
    BY <1>2 DEF Seen
  <2>2. Advance(requests, requests)
    BY DEF Advance, Keeps
  <2> QED BY <2>1, <2>2 DEF AgreedInv
<1> QED BY <1>1, <1>2

(* A step that ends the request of a desk keeps what the other desks have read. *)
LEMMA DesksFollow ==
  ASSUME AgreedInv, NEW d \in Desks, desk' = [desk EXCEPT ![d] = Idle],
         Advance(requests, requests')
  PROVE  DesksOK'
<1>1. desk' = [e \in Desks |-> desk'[e]]
  BY DEF AgreedInv, DesksOK
<1>2. ASSUME NEW e \in Desks, desk'[e].busy
      PROVE  GoodRows(desk'[e].requests) /\ Advance(desk'[e].requests, requests')
  <2>1. e # d
    BY <1>2 DEF AgreedInv, DesksOK, Idle
  <2>2. desk'[e] = desk[e]
    BY <2>1 DEF AgreedInv, DesksOK
  <2>3. GoodRows(desk[e].requests) /\ Advance(desk[e].requests, requests)
    BY <1>2, <2>2 DEF AgreedInv, DesksOK
  <2> QED BY <2>2, <2>3, AdvanceTransitive
<1> QED BY <1>1, <1>2 DEF DesksOK

(* An UPDATE by id of a row that the handler read. *)
LEMMA WriteAdvances ==
  ASSUME AgreedInv, NEW d \in Desks, NEW r \in RequestIds, NEW row,
         requests[r] # NoRequest, GoodRow(row), Keeps(requests[r], row),
         Write(d, r, row)
  PROVE  GoodRows(requests') /\ Advance(requests, requests') /\ DesksOK' /\ requests'[r] = row
<1>1. requests' = [requests EXCEPT ![r] = row] /\ desk' = [desk EXCEPT ![d] = Idle]
  BY DEF Write
<1>2. requests'[r] = row /\ \A x \in RequestIds : x # r => requests'[x] = requests[x]
  BY <1>1 DEF AgreedInv, GoodRows
<1>3. row # NoRequest
  BY RequestIsPresent DEF GoodRow, RequestType
<1>4. GoodRows(requests')
  BY <1>1, <1>2 DEF AgreedInv, GoodRows
<1>5. Advance(requests, requests')
  BY <1>2, <1>3 DEF Advance, Keeps
<1>6. DesksOK'
  BY <1>1, <1>5, DesksFollow
<1> QED BY <1>2, <1>4, <1>5, <1>6

(* What was carried out stays agreed when rows advance and nothing is carried out. *)
LEMMA CarriedFollows ==
  ASSUME AgreedInv, Advance(requests, requests'), carried' = carried
  PROVE  CarriedOK'
BY DEF AgreedInv, CarriedOK, Advance, Keeps, Agreed

(* Requests without a step of the desks: what they have read is as good as before. *)
LEMMA EditsKeepInv ==
  ASSUME AgreedInv, UNCHANGED requestVars PROVE AgreedInv'
BY DEF AgreedInv, DesksOK, CarriedOK, requestVars

(* The update of a row that ends its request, whatever the row said. *)
LEMMA ClosingKeeps ==
  ASSUME AgreedInv, NEW r \in RequestIds, requests[r] # NoRequest,
         NEW s \in Statuses \ DecidableStatuses, NEW a \in BOOLEAN
  PROVE  LET closed == [requests[r] EXCEPT !.status = s]
             decided == [requests[r] EXCEPT !.status = s, !.applied = a]
         IN /\ GoodRow(closed) /\ Keeps(requests[r], closed)
            /\ GoodRow(decided) /\ Keeps(requests[r], decided)
<1>1. requests[r] \in RequestType
  BY DEF AgreedInv, GoodRows, GoodRow
<1> QED BY <1>1 DEF GoodRow, Keeps, RequestType

(* A handler that read a request with a status writes to a row that exists. *)
LEMMA SeenIsPresent ==
  ASSUME AgreedInv, NEW d \in Desks, NEW r \in RequestIds,
         Seen(d).requests[r].status \in Statuses
  PROVE  /\ requests[r] # NoRequest
         /\ GoodRow(Seen(d).requests[r])
         /\ Keeps(Seen(d).requests[r], requests[r])
<1>1. Seen(d).requests[r] # NoRequest
  BY RequestIsPresent
<1> QED BY <1>1, SeenIsKept DEF GoodRows, Advance

(* Submitting fills an empty row. *)
LEMMA SubmitKeeps ==
  ASSUME AgreedInv, NEW d \in Desks, NEW e \in Askers, NEW i \in Ids, NEW swap \in BOOLEAN,
         NEW with \in Employees \cup {Nobody}, NEW other \in Ids \cup {0},
         NEW wanted \in Wanted \cup {NoSlot}, NEW emergency \in BOOLEAN,
         Submit(d, e, i, swap, with, other, wanted, emergency)
  PROVE  AgreedInv'
<1> DEFINE row == [status |-> IF emergency THEN "Emergency Review"
                              ELSE IF swap THEN "Swap Confirmation" ELSE "Pending",
                   by |-> e, shift |-> i, swap |-> swap, with |-> with, other |-> other,
                   wanted |-> wanted, emergency |-> emergency, confirmed |-> FALSE,
                   applied |-> FALSE]
<1>1. PICK r \in RequestIds : requests[r] = NoRequest /\ requests' = [requests EXCEPT ![r] = row]
  BY DEF Submit, NextRequest
<1>2. row \in RequestType
  BY DEF RequestType, Statuses, OpenStatuses
<1>3. row.status \in DecidableStatuses => Agreed(row)
  BY DEF DecidableStatuses, Agreed
<1>4. GoodRow(row)
  BY <1>2, <1>3 DEF GoodRow
<1> HIDE DEF row
<1>5. requests'[r] = row /\ \A x \in RequestIds : x # r => requests'[x] = requests[x]
  BY <1>1 DEF AgreedInv, GoodRows
<1>6. GoodRows(requests')
  BY <1>1, <1>4, <1>5 DEF AgreedInv, GoodRows
<1>7. Advance(requests, requests')
  BY <1>1, <1>5 DEF Advance, Keeps
<1>8. desk' = [desk EXCEPT ![d] = Idle] /\ carried' = carried
  BY DEF Submit
<1> QED BY <1>6, <1>7, <1>8, DesksFollow, CarriedFollows DEF AgreedInv

(* Withdrawing, answering and deciding without a change of the schedule. *)
LEMMA AnswerKeeps ==
  ASSUME AgreedInv, NEW d \in Desks, NEW r \in RequestIds,
         \/ Withdraw(d, r) \/ ConfirmSwap(d, r) \/ DeclineSwap(d, r)
         \/ \E decision \in {"Approved", "Rejected"} : DecideOnly(d, r, decision)
  PROVE  AgreedInv'
<1>1. Seen(d).requests[r].status \in Statuses
  BY DEF Withdraw, ConfirmSwap, DeclineSwap, DecideOnly, Decidable, DecidableStatuses,
         Statuses, OpenStatuses
<1>2. requests[r] # NoRequest
  BY <1>1, SeenIsPresent
<1>3. PICK row : GoodRow(row) /\ Keeps(requests[r], row) /\ Write(d, r, row)
  <2>1. CASE Withdraw(d, r)
    <3>1. "Withdrawn" \in Statuses \ DecidableStatuses
      BY DEF Statuses, OpenStatuses, DecidableStatuses
    <3> QED BY <1>2, <2>1, <3>1, ClosingKeeps DEF Withdraw
  <2>2. CASE DeclineSwap(d, r)
    <3>1. "Swap Declined" \in Statuses \ DecidableStatuses
      BY DEF Statuses, OpenStatuses, DecidableStatuses
    <3> QED BY <1>2, <2>2, <3>1, ClosingKeeps DEF DeclineSwap
  <2>3. ASSUME NEW decision \in {"Approved", "Rejected"}, DecideOnly(d, r, decision)
        PROVE  \E row : GoodRow(row) /\ Keeps(requests[r], row) /\ Write(d, r, row)
    <3>1. decision \in Statuses \ DecidableStatuses
      BY DEF Statuses, OpenStatuses, DecidableStatuses
    <3> QED BY <1>2, <2>3, <3>1, ClosingKeeps DEF DecideOnly
  <2>4. CASE ConfirmSwap(d, r)
    <3> DEFINE row == [requests[r] EXCEPT !.status = "Pending", !.confirmed = TRUE]
    <3>1. requests[r] \in RequestType
      BY <1>2 DEF AgreedInv, GoodRows, GoodRow
    <3>2. GoodRow(row) /\ Keeps(requests[r], row)
      BY <3>1 DEF GoodRow, Keeps, Agreed, RequestType, Statuses, OpenStatuses
    <3>3. Write(d, r, row)
      BY <2>4 DEF ConfirmSwap
    <3> QED BY <3>2, <3>3
  <2> QED BY <2>1, <2>2, <2>3, <2>4
<1>4. GoodRows(requests') /\ Advance(requests, requests') /\ DesksOK'
  BY <1>2, <1>3, WriteAdvances
<1>5. carried' = carried
  BY DEF Withdraw, ConfirmSwap, DeclineSwap, DecideOnly
<1> QED BY <1>4, <1>5, CarriedFollows DEF AgreedInv

(* A decision that changes the schedule was allowed by a row that was agreed, and *)
(* agreed it still is.                                                            *)
LEMMA ApplyKeeps ==
  ASSUME AgreedInv, NEW d \in Desks, NEW r \in RequestIds, NEW ids,
         Decidable(d, r), Apply(d, r, ids)
  PROVE  AgreedInv'
<1> DEFINE row == [requests[r] EXCEPT !.status = "Approved", !.applied = TRUE]
<1>1. Seen(d).requests[r].status \in DecidableStatuses
  BY DEF Decidable
<1>2. Seen(d).requests[r].status \in Statuses
  BY <1>1 DEF DecidableStatuses, Statuses, OpenStatuses
<1>3. /\ requests[r] # NoRequest
      /\ Agreed(Seen(d).requests[r])
      /\ Keeps(Seen(d).requests[r], requests[r])
  BY <1>1, <1>2, SeenIsPresent DEF GoodRow
<1>4. Agreed(requests[r])
  BY <1>3 DEF Agreed, Keeps
<1>5. "Approved" \in Statuses \ DecidableStatuses
  BY DEF Statuses, OpenStatuses, DecidableStatuses
<1>6. GoodRow(row) /\ Keeps(requests[r], row)
  BY <1>3, <1>5, ClosingKeeps
<1>7. Write(d, r, row) /\ carried' = [carried EXCEPT ![r] = @ + 1]
  BY DEF Apply
<1> HIDE DEF row
<1>8. GoodRows(requests') /\ Advance(requests, requests') /\ DesksOK' /\ requests'[r] = row
  BY <1>3, <1>6, <1>7, WriteAdvances
<1>9. Agreed(requests'[r]) /\ requests'[r] # NoRequest
  BY <1>3, <1>4, <1>6, <1>8 DEF Agreed, Keeps, Advance
<1>10. CarriedOK'
  <2>1. carried' = [x \in RequestIds |-> carried'[x]]
    BY <1>7 DEF AgreedInv, CarriedOK
  <2>2. ASSUME NEW x \in RequestIds, carried'[x] > 0
        PROVE  requests'[x] # NoRequest /\ Agreed(requests'[x])
    <3>1. CASE x = r
      BY <1>9, <3>1
    <3>2. CASE x # r
      <4>1. carried'[x] = carried[x]
        BY <1>7, <3>2 DEF AgreedInv, CarriedOK
      <4>2. requests[x] # NoRequest /\ Agreed(requests[x])
        BY <2>2, <4>1 DEF AgreedInv, CarriedOK
      <4> QED BY <1>8, <4>2 DEF Advance, Keeps, Agreed
    <3> QED BY <3>1, <3>2
  <2> QED BY <2>1, <2>2 DEF CarriedOK
<1> QED BY <1>8, <1>10 DEF AgreedInv

-----------------------------------------------------------------------------
(* What a desk reads on entering is good; what it leaves is forgotten. *)
LEMMA EnterKeeps ==
  ASSUME AgreedInv, NEW d \in Desks, Enter(d) \/ Leave(d)
  PROVE  AgreedInv'
<1>1. UNCHANGED <<requests, carried>>
  BY DEF Enter, Leave
<1>2. Advance(requests, requests)
  BY DEF Advance, Keeps
<1>3. CASE Leave(d)
  BY <1>1, <1>2, <1>3, DesksFollow, CarriedFollows DEF Leave, AgreedInv
<1>4. CASE Enter(d)
  <2> DEFINE reads == [busy |-> TRUE, shifts |-> shifts, requests |-> requests]
  <2>1. desk' = [desk EXCEPT ![d] = reads] /\ reads.requests = requests
    BY <1>4 DEF Enter
  <2> HIDE DEF reads
  <2>2. ASSUME NEW e \in Desks, desk'[e].busy
        PROVE  GoodRows(desk'[e].requests) /\ Advance(desk'[e].requests, requests)
    <3>1. CASE e = d
      BY <1>2, <2>1, <3>1 DEF AgreedInv, DesksOK
    <3>2. CASE e # d
      BY <2>1, <2>2, <3>2 DEF AgreedInv, DesksOK
    <3> QED BY <3>1, <3>2
  <2>3. desk' = [e \in Desks |-> desk'[e]]
    BY <2>1 DEF AgreedInv, DesksOK
  <2>4. DesksOK'
    BY <1>1, <2>2, <2>3 DEF DesksOK
  <2> QED BY <1>1, <1>2, <2>4, CarriedFollows DEF AgreedInv
<1> QED BY <1>3, <1>4

(* The invariant of the argument is inductive. *)
LEMMA AgreedInvariant == Spec => []AgreedInv
<1>1. Init => AgreedInv
  <2> SUFFICES ASSUME Init PROVE AgreedInv
    OBVIOUS
  <2>1. GoodRows(requests)
    BY DEF Init, GoodRows
  <2>2. DesksOK
    BY DEF Init, DesksOK, Idle
  <2>3. CarriedOK
    BY DEF Init, CarriedOK
  <2> QED BY <2>1, <2>2, <2>3 DEF AgreedInv
<1>2. AgreedInv /\ [Next]_vars => AgreedInv'
  <2> SUFFICES ASSUME AgreedInv, [Next]_vars PROVE AgreedInv'
    OBVIOUS
  <2>1. CASE UNCHANGED requestVars
    BY <2>1, EditsKeepInv
  <2>2. ASSUME NEW d \in Desks, Enter(d) \/ Leave(d) PROVE AgreedInv'
    BY <2>2, EnterKeeps
  <2>3. ASSUME NEW d \in Desks, SubmitAny(d) PROVE AgreedInv'
    <3>1. PICK e \in Askers, i \in Ids, swap, emergency \in BOOLEAN, with \in Employees \cup {Nobody},
               other \in Ids \cup {0}, wanted \in Wanted \cup {NoSlot} :
            /\ swap = (other # 0) /\ swap = (wanted = NoSlot)
            /\ swap = (with # Nobody)
            /\ Submit(d, e, i, swap, with, other, wanted, emergency)
      BY <2>3, ZenonT(90) DEF SubmitAny
    <3>2. Submit(d, e, i, swap, with, other, wanted, emergency)
      BY <3>1, Zenon
    <3> QED BY <3>2, SubmitKeeps, ZenonT(90)
  <2>4. ASSUME NEW d \in Desks, NEW r \in RequestIds,
               \/ Withdraw(d, r) \/ ConfirmSwap(d, r) \/ DeclineSwap(d, r)
               \/ \E decision \in {"Approved", "Rejected"} : DecideOnly(d, r, decision)
        PROVE  AgreedInv'
    BY <2>4, AnswerKeeps
  <2>5. ASSUME NEW d \in Desks, NEW r \in RequestIds, ApproveSwap(d, r) \/ ApproveChange(d, r)
        PROVE  AgreedInv'
    <3>1. Decidable(d, r)
      BY <2>5 DEF ApproveSwap, ApproveChange
    <3>2. \E ids : Apply(d, r, ids)
      BY <2>5 DEF ApproveSwap, ApproveChange
    <3> QED BY <3>1, <3>2, ApplyKeeps
  <2>6. UNCHANGED vars => UNCHANGED requestVars
    BY DEF vars
  <2>7. ASSUME NEW d \in Desks, NEW r \in RequestIds,
               \/ Withdraw(d, r) \/ ConfirmSwap(d, r) \/ DeclineSwap(d, r)
               \/ \E decision \in {"Approved", "Rejected"} : DecideOnly(d, r, decision)
               \/ ApproveSwap(d, r) \/ ApproveChange(d, r)
        PROVE  AgreedInv'
    <3>1. CASE ApproveSwap(d, r) \/ ApproveChange(d, r)
      BY <2>5, <3>1
    <3>2. CASE ~(ApproveSwap(d, r) \/ ApproveChange(d, r))
      BY <2>4, <2>7, <3>2
    <3> QED BY <3>1, <3>2
  <2>8. CASE DeskNext
    BY <2>2, <2>3, <2>7, <2>8 DEF DeskNext
  <2> QED BY <2>1, <2>6, <2>8 DEF Next
<1> QED BY <1>1, <1>2, PTL DEF Spec

(***************************************************************************)
(* A swap that changed the schedule was confirmed by the colleague or      *)
(* submitted as an emergency, for every number of requests, shifts and     *)
(* handlers at work at once (decide_shift_change_request and               *)
(* confirm_shift_swap of api/staff_self_service.py).                       *)
(***************************************************************************)
THEOREM SwapsAreAgreed == Spec => []SwapWasAgreed
<1>1. AgreedInv => SwapWasAgreed
  BY DEF AgreedInv, CarriedOK, Agreed, SwapWasAgreed
<1> QED BY <1>1, AgreedInvariant, PTL

-----------------------------------------------------------------------------
(* Requests that no two handlers wrote: what the row says is what was done.            *)
MatchedInv == AgreedInv /\ carried \in [RequestIds -> Nat] /\ DecisionMatchesSchedule

(* The row of a request says what was done for it. *)
Matches(row, times) ==
  /\ times = IF row.applied THEN 1 ELSE 0
  /\ row.applied => row.status = "Approved"

(* A handler's write of row r, where it matters, leaves a row that says what was done. *)
LEMMA WriteMatches ==
  ASSUME MatchedInv, NEW d \in Desks, NEW r \in RequestIds, NEW row, Write(d, r, row),
         carried' \in [RequestIds -> Nat],
         \A x \in RequestIds : x # r => carried'[x] = carried[x],
         Seen(d).requests[r] = requests[r] /\ r \notin contested => Matches(row, carried'[r])
  PROVE  DecisionMatchesSchedule'
<1>1. /\ requests' = [requests EXCEPT ![r] = row]
      /\ contested' = contested \cup (IF Seen(d).requests[r] = requests[r] THEN {} ELSE {r})
  BY DEF Write
<1>2. requests'[r] = row /\ \A x \in RequestIds : x # r => requests'[x] = requests[x]
  BY <1>1 DEF MatchedInv, AgreedInv, GoodRows
<1> SUFFICES ASSUME NEW x \in RequestIds \ contested', requests'[x] # NoRequest
             PROVE  Matches(requests'[x], carried'[x])
  BY DEF DecisionMatchesSchedule, Matches
<1>3. CASE x = r
  BY <1>1, <1>2, <1>3
<1>4. CASE x # r
  BY <1>1, <1>2, <1>4 DEF MatchedInv, DecisionMatchesSchedule, Matches
<1> QED BY <1>3, <1>4

(* A request that may still be answered has not been carried out. *)
LEMMA OpenIsUndone ==
  ASSUME MatchedInv, NEW r \in RequestIds \ contested, requests[r].status \in OpenStatuses
  PROVE  requests[r] \in RequestType /\ requests[r].applied = FALSE /\ carried[r] = 0
<1>1. requests[r] # NoRequest
  BY RequestIsPresent DEF Statuses
<1>2. requests[r] \in RequestType
  BY <1>1 DEF MatchedInv, AgreedInv, GoodRows, GoodRow
<1>3. requests[r].applied \in BOOLEAN
  BY <1>2 DEF RequestType
<1>4. ~requests[r].applied
  BY <1>1 DEF MatchedInv, DecisionMatchesSchedule, OpenStatuses
<1> QED BY <1>1, <1>2, <1>3, <1>4 DEF MatchedInv, DecisionMatchesSchedule

(* Answers and decisions that change no shift are only given to open requests. *)
LEMMA AnswersMatch ==
  ASSUME MatchedInv, NEW d \in Desks, NEW r \in RequestIds,
         \/ Withdraw(d, r) \/ ConfirmSwap(d, r) \/ DeclineSwap(d, r)
         \/ \E decision \in {"Approved", "Rejected"} : DecideOnly(d, r, decision)
  PROVE  DecisionMatchesSchedule'
<1>1. Seen(d).requests[r].status \in OpenStatuses
  BY DEF Withdraw, ConfirmSwap, DeclineSwap, DecideOnly, Decidable, DecidableStatuses, OpenStatuses
<1>2. carried' = carried
  BY DEF Withdraw, ConfirmSwap, DeclineSwap, DecideOnly
<1>3. ASSUME NEW row, Write(d, r, row),
             requests[r] \in RequestType /\ requests[r].applied = FALSE => row.applied = FALSE
      PROVE  DecisionMatchesSchedule'
  <2>1. carried' \in [RequestIds -> Nat] /\ \A x \in RequestIds : x # r => carried'[x] = carried[x]
    BY <1>2 DEF MatchedInv
  <2>2. Seen(d).requests[r] = requests[r] /\ r \notin contested => Matches(row, carried'[r])
    BY <1>1, <1>2, <1>3, OpenIsUndone DEF Matches
  <2> QED BY <1>3, <2>1, <2>2, WriteMatches
<1>4. ASSUME NEW s, Write(d, r, [requests[r] EXCEPT !.status = s]) PROVE DecisionMatchesSchedule'
  <2>1. requests[r] \in RequestType /\ requests[r].applied = FALSE
        => [requests[r] EXCEPT !.status = s].applied = FALSE
    BY DEF RequestType
  <2> QED BY <1>3, <1>4, <2>1
<1>5. ASSUME NEW s, Write(d, r, [requests[r] EXCEPT !.status = s, !.applied = FALSE])
      PROVE  DecisionMatchesSchedule'
  <2> DEFINE b == FALSE
             y == [requests[r] EXCEPT !.status = s]
             row == [y EXCEPT !.applied = b]
  <2>1. requests[r] \in RequestType => row.applied = b
    BY DEF RequestType
  <2>2. Write(d, r, row)
    BY <1>5
  <2> QED BY <1>3, <2>1, <2>2
<1>6. CASE ConfirmSwap(d, r)
  <2> DEFINE y == [requests[r] EXCEPT !.status = "Pending"]
             b == TRUE
             row == [y EXCEPT !.confirmed = b]
  <2>1. requests[r] \in RequestType => row.applied = requests[r].applied
    BY DEF RequestType
  <2>2. Write(d, r, row)
    BY <1>6 DEF ConfirmSwap
  <2> QED BY <1>3, <2>1, <2>2
<1> QED BY <1>4, <1>5, <1>6 DEF Withdraw, DeclineSwap, DecideOnly

(* Carrying a request out makes it the once that its row then tells of. *)
LEMMA ApplyMatches ==
  ASSUME MatchedInv, NEW d \in Desks, NEW r \in RequestIds, NEW ids, Decidable(d, r), Apply(d, r, ids)
  PROVE  DecisionMatchesSchedule' /\ carried' \in [RequestIds -> Nat]
<1> DEFINE row == [requests[r] EXCEPT !.status = "Approved", !.applied = TRUE]
<1>1. Write(d, r, row) /\ carried' = [carried EXCEPT ![r] = @ + 1]
  BY DEF Apply
<1>2. /\ carried' \in [RequestIds -> Nat] /\ carried'[r] = carried[r] + 1
      /\ \A x \in RequestIds : x # r => carried'[x] = carried[x]
  <2> DEFINE n == carried[r] + 1
  <2>1. n \in Nat
    BY DEF MatchedInv
  <2>2. carried' = [carried EXCEPT ![r] = n]
    BY <1>1
  <2> HIDE DEF n
  <2>3. carried' \in [RequestIds -> Nat] /\ carried'[r] = n
    BY <2>1, <2>2 DEF MatchedInv
  <2> QED BY <2>2, <2>3 DEF MatchedInv, n
<1>3. Seen(d).requests[r].status \in OpenStatuses
  BY DEF Decidable, DecidableStatuses, OpenStatuses
<1>4. ASSUME Seen(d).requests[r] = requests[r], r \notin contested PROVE Matches(row, carried'[r])
  <2>1. requests[r] \in RequestType /\ carried[r] = 0
    BY <1>3, <1>4, OpenIsUndone
  <2> DEFINE b == TRUE
             y == [requests[r] EXCEPT !.status = "Approved"]
  <2>2. row = [y EXCEPT !.applied = b]
    OBVIOUS
  <2>3. y.status = "Approved" /\ y = [k \in DOMAIN requests[r] |-> y[k]]
    BY <2>1 DEF RequestType
  <2>4. row.status = "Approved"
    BY <2>1 DEF RequestType
  <2>5. row.applied = b
    <3> HIDE DEF b
    <3> QED BY <2>1, <2>2 DEF RequestType
  <2> HIDE DEF row
  <2> QED BY <1>2, <2>1, <2>4, <2>5 DEF Matches
<1> HIDE DEF row
<1>5. DecisionMatchesSchedule'
  BY <1>1, <1>2, <1>4, WriteMatches
<1> QED BY <1>2, <1>5

(* A new request has not been carried out, and says so. *)
LEMMA SubmitMatches ==
  ASSUME MatchedInv, NEW d \in Desks, NEW e, NEW i, NEW swap, NEW with, NEW other,
         NEW wanted, NEW emergency, Submit(d, e, i, swap, with, other, wanted, emergency)
  PROVE  DecisionMatchesSchedule' /\ carried' = carried
<1> DEFINE row == [status |-> IF emergency THEN "Emergency Review"
                              ELSE IF swap THEN "Swap Confirmation" ELSE "Pending",
                   by |-> e, shift |-> i, swap |-> swap, with |-> with, other |-> other,
                   wanted |-> wanted, emergency |-> emergency, confirmed |-> FALSE,
                   applied |-> FALSE]
<1>1. PICK r \in RequestIds :
        /\ requests[r] = NoRequest /\ requests' = [requests EXCEPT ![r] = row]
        /\ contested \subseteq contested'
  BY DEF Submit, NextRequest
<1>2. carried' = carried
  BY DEF Submit
<1>3. row.applied = FALSE
  OBVIOUS
<1> HIDE DEF row
<1>4. requests'[r] = row /\ \A x \in RequestIds : x # r => requests'[x] = requests[x]
  BY <1>1 DEF MatchedInv, AgreedInv, GoodRows
<1>5. carried[r] = 0
  BY <1>1 DEF MatchedInv, AgreedInv, CarriedOK
<1>6. ASSUME NEW x \in RequestIds \ contested', requests'[x] # NoRequest
      PROVE  Matches(requests'[x], carried'[x])
  <2>1. CASE x = r
    BY <1>2, <1>3, <1>4, <1>5, <2>1 DEF Matches
  <2>2. CASE x # r
    BY <1>1, <1>2, <1>4, <1>6, <2>2 DEF MatchedInv, DecisionMatchesSchedule, Matches
  <2> QED BY <2>1, <2>2
<1> QED BY <1>2, <1>6 DEF DecisionMatchesSchedule, Matches

(***************************************************************************)
(* A request that no overlapping handler wrote says of itself what was     *)
(* done: carried out once if it is Approved and applied, never otherwise.  *)
(* A handler only ever answers a request that it read as open, and an      *)
(* open request has not been carried out.                                  *)
(***************************************************************************)
THEOREM DecisionsAreCarriedOut == Spec => []DecisionMatchesSchedule
<1>1. Init => carried \in [RequestIds -> Nat] /\ DecisionMatchesSchedule
  BY DEF Init, DecisionMatchesSchedule
<1>2. ASSUME AgreedInv, carried \in [RequestIds -> Nat] /\ DecisionMatchesSchedule, [Next]_vars
      PROVE  (carried \in [RequestIds -> Nat] /\ DecisionMatchesSchedule)'
  <2>1. MatchedInv
    BY <1>2 DEF MatchedInv
  <2>2. ASSUME UNCHANGED <<requests, carried, contested>>
        PROVE  (carried \in [RequestIds -> Nat] /\ DecisionMatchesSchedule)'
    BY <1>2, <2>2 DEF DecisionMatchesSchedule
  <2>3. ASSUME NEW d \in Desks, SubmitAny(d)
        PROVE  (carried \in [RequestIds -> Nat] /\ DecisionMatchesSchedule)'
    <3>1. PICK e \in Askers, i \in Ids, swap, emergency \in BOOLEAN, with \in Employees \cup {Nobody},
               other \in Ids \cup {0}, wanted \in Wanted \cup {NoSlot} :
            /\ swap = (other # 0) /\ swap = (wanted = NoSlot)
            /\ swap = (with # Nobody)
            /\ Submit(d, e, i, swap, with, other, wanted, emergency)
      BY <2>3, ZenonT(90) DEF SubmitAny
    <3>2. DecisionMatchesSchedule' /\ carried' = carried
      BY <2>1, <3>1, SubmitMatches, ZenonT(90)
    <3> QED BY <1>2, <3>2
  <2>4. ASSUME NEW d \in Desks, NEW r \in RequestIds,
               \/ Withdraw(d, r) \/ ConfirmSwap(d, r) \/ DeclineSwap(d, r)
               \/ \E decision \in {"Approved", "Rejected"} : DecideOnly(d, r, decision)
        PROVE  (carried \in [RequestIds -> Nat] /\ DecisionMatchesSchedule)'
    <3>1. carried' = carried
      BY <2>4 DEF Withdraw, ConfirmSwap, DeclineSwap, DecideOnly
    <3> QED BY <1>2, <2>1, <2>4, <3>1, AnswersMatch
  <2>5. ASSUME NEW d \in Desks, NEW r \in RequestIds, ApproveSwap(d, r) \/ ApproveChange(d, r)
        PROVE  (carried \in [RequestIds -> Nat] /\ DecisionMatchesSchedule)'
    <3>1. Decidable(d, r)
      BY <2>5 DEF ApproveSwap, ApproveChange
    <3>2. \E ids : Apply(d, r, ids)
      BY <2>5 DEF ApproveSwap, ApproveChange
    <3> QED BY <2>1, <3>1, <3>2, ApplyMatches
  <2>6. CASE UNCHANGED vars \/ UNCHANGED requestVars
    BY <2>2, <2>6 DEF vars, requestVars
  <2>7. CASE DeskNext
    <3>1. ASSUME NEW d \in Desks, Enter(d) \/ Leave(d)
          PROVE  (carried \in [RequestIds -> Nat] /\ DecisionMatchesSchedule)'
      BY <2>2, <3>1 DEF Enter, Leave
    <3>2. ASSUME NEW d \in Desks, NEW r \in RequestIds,
                 \/ Withdraw(d, r) \/ ConfirmSwap(d, r) \/ DeclineSwap(d, r)
                 \/ \E decision \in {"Approved", "Rejected"} : DecideOnly(d, r, decision)
                 \/ ApproveSwap(d, r) \/ ApproveChange(d, r)
          PROVE  (carried \in [RequestIds -> Nat] /\ DecisionMatchesSchedule)'
      <4>1. CASE ApproveSwap(d, r) \/ ApproveChange(d, r)
        BY <2>5, <4>1
      <4>2. CASE ~(ApproveSwap(d, r) \/ ApproveChange(d, r))
        BY <2>4, <3>2, <4>2
      <4> QED BY <4>1, <4>2
    <3> QED BY <2>3, <2>7, <3>1, <3>2 DEF DeskNext
  <2> QED BY <1>2, <2>6, <2>7 DEF Next
<1> QED BY <1>1, <1>2, AgreedInvariant, PTL DEF Spec
-----------------------------------------------------------------------------
(* The grid under requests: an approval is one more writer of the shifts.  *)

(* A swap is between two people and names both shifts, which no later write changes. *)
TwoPeople(row) == row.swap => row.with # row.by /\ row.other # 0
SwapsNameTwo(rows) == \A r \in RequestIds : rows[r] # NoRequest => TwoPeople(rows[r])
DeskReadsOK ==
  \A d \in Desks : desk[d].busy => desk[d].shifts \in Grids /\ SwapsNameTwo(desk[d].requests)
RequestedInv == BoardInv /\ AgreedInv /\ SwapsNameTwo(requests) /\ DeskReadsOK

LEMMA SeenIsRequested ==
  ASSUME RequestedInv, NEW d \in Desks
  PROVE  Seen(d).shifts \in Grids /\ SwapsNameTwo(Seen(d).requests)
<1>1. CASE desk[d].busy
  BY <1>1 DEF RequestedInv, DeskReadsOK, Seen
<1>2. CASE ~desk[d].busy
  BY <1>2 DEF RequestedInv, BoardInv, TypesOK, GridOK, Seen
<1> QED BY <1>1, <1>2

(* What a row that may be decided says. *)
LEMMA DecidedRow ==
  ASSUME RequestedInv, NEW d \in Desks, NEW r \in RequestIds, Decidable(d, r)
  PROVE  /\ Seen(d).requests[r] \in RequestType /\ TwoPeople(Seen(d).requests[r])
         /\ requests[r] # NoRequest
<1>1. Seen(d).requests[r].status \in Statuses
  BY DEF Decidable, DecidableStatuses, Statuses, OpenStatuses
<1>2. Seen(d).requests[r] # NoRequest
  BY <1>1, RequestIsPresent
<1>3. requests[r] # NoRequest /\ GoodRow(Seen(d).requests[r])
  BY <1>1, SeenIsPresent DEF RequestedInv
<1> QED BY <1>2, <1>3, SeenIsRequested DEF GoodRow, SwapsNameTwo

(* A shift that nobody's check missed: the read grid is the present one and shows no clash. *)
LEMMA NoClashIsClear ==
  ASSUME NEW board \in Grids, NEW e \in Owners, NEW slot \in RowSlots, NEW ids,
         ~Clashes(board, e, slot, ids),
         NEW k \in Ids \ ids, board[k] # NoShift, board[k].owner = e
  PROVE  ~Overlap(slot, board[k].slot)
<1> SUFFICES ASSUME Overlap(slot, board[k].slot) PROVE FALSE
  OBVIOUS
<1>1. board[k].slot \in RowSlots
  BY DEF Grids, Cells, RowType
<1>2. Nearby(slot, board[k].slot)
  BY <1>1, OverlapIsNearby
<1>3. k \in OthersOf(board, e, ids)
  BY DEF OthersOf, Present
<1> QED BY <1>2, <1>3 DEF Clashes

LEMMA SwapKeepsGrid ==
  ASSUME RequestedInv, NEW d \in Desks, NEW r \in RequestIds, ApproveSwap(d, r)
  PROVE  BoardInv'
<1> DEFINE row == Seen(d).requests[r]
           read == Seen(d).shifts
           i == row.shift
           j == row.other
<1>1. row \in RequestType /\ TwoPeople(row) /\ read \in Grids
  BY DecidedRow, SeenIsRequested DEF ApproveSwap
<1>2. /\ row.swap /\ read[i] # NoShift /\ read[i].owner = row.by
      /\ read[j] # NoShift /\ read[j].owner = row.with
      /\ ~Clashes(read, row.with, read[i].slot, {i, j})
      /\ ~Clashes(read, row.by, read[j].slot, {i, j})
  BY DEF ApproveSwap
<1>3. shifts' = [k \in Ids |->
         IF k = j THEN Placed(j, row.by, shifts[j].slot)
         ELSE IF k = i THEN Placed(i, row.with, shifts[i].slot) ELSE shifts[k]]
  BY DEF ApproveSwap
<1>4. Record(<<Entry("scheduled_shifts", i, read[i], [read[i] EXCEPT !.owner = row.with]),
               Entry("scheduled_shifts", j, read[j], [read[j] EXCEPT !.owner = row.by])>>)
  BY DEF ApproveSwap
<1>5. /\ unreviewed' = unreviewed \cup (IF read = shifts /\ OwnShift(d, r) THEN {} ELSE {i, j})
      /\ nextId' = nextId /\ editor' = editor
  BY DEF ApproveSwap, Apply
<1>6. OwnShift(d, r)
  BY <1>2 DEF OwnShift
<1> DEFINE who == row.by
           other == row.with
<1>7. /\ i \in Ids /\ j \in Ids /\ who # other /\ i # j
      /\ who \in Owners /\ other \in Owners
  <2>1. i \in Ids /\ j \in Ids \cup {0} /\ who \in Askers /\ other \in Employees \cup {Nobody}
    BY <1>1 DEF RequestType
  <2>2. who # other /\ j # 0
    BY <1>1, <1>2 DEF TwoPeople
  <2> QED BY <1>2, <2>1, <2>2, AskersAssumption DEF Owners
<1>8. TypesOK /\ ConfirmedDoNotOverlap /\ shifts \in Grids
  BY DEF RequestedInv, BoardInv, TypesOK, GridOK
<1>9. read[i] \in RowType /\ read[j] \in RowType
  BY <1>1, <1>2, <1>7 DEF Grids, Cells
<1> HIDE DEF row, read, i, j, who, other
<1>10. \A k \in Ids, e \in Owners : Placed(k, e, shifts[k].slot) \in Cells
  BY <1>8 DEF Placed, Grids, Cells, RowType
<1>11. /\ shifts' \in Grids
       /\ shifts'[j] = Placed(j, who, shifts[j].slot) /\ shifts'[i] = Placed(i, other, shifts[i].slot)
       /\ \A k \in Ids \ {i, j} : shifts'[k] = shifts[k]
  BY <1>3, <1>7, <1>8, <1>10 DEF Grids, who, other
<1>12. log' \in Seq(EntryType)
  <2>1. [read[i] EXCEPT !.owner = other] \in RowType /\ [read[j] EXCEPT !.owner = who] \in RowType
    BY <1>7, <1>9 DEF RowType
  <2>2. /\ Entry("scheduled_shifts", i, read[i], [read[i] EXCEPT !.owner = other]) \in EntryType
        /\ Entry("scheduled_shifts", j, read[j], [read[j] EXCEPT !.owner = who]) \in EntryType
    BY <1>7, <1>9, <2>1 DEF Entry, EntryType, Cells
  <2>3. <<Entry("scheduled_shifts", i, read[i], [read[i] EXCEPT !.owner = other]),
          Entry("scheduled_shifts", j, read[j], [read[j] EXCEPT !.owner = who])>> \in Seq(EntryType)
    BY <2>2
  <2> QED BY <1>4, <1>8, <2>3, RecordKept DEF who, other
<1>13. \A k \in Ids : Accounted(k)
  <2>1. CASE read # shifts
    BY <1>5, <1>11, <2>1 DEF Accounted
  <2>2. CASE read = shifts
    <3>1. unreviewed' = unreviewed
      BY <1>5, <1>6, <2>2
    <3>2. /\ shifts'[j] = [owner |-> who, slot |-> read[j].slot, status |-> "Confirmed"]
          /\ shifts'[i] = [owner |-> other, slot |-> read[i].slot, status |-> "Confirmed"]
      BY <1>2, <1>11, <2>2 DEF Placed
    <3>3. Clear(shifts', i)
      <4> SUFFICES ASSUME NEW k \in Ids \ {i}, shifts'[k] # NoShift, shifts'[k].owner = other
                   PROVE  ~Overlap(read[i].slot, shifts'[k].slot)
        BY <3>2 DEF Clear
      <4>1. k \in Ids \ {i, j} /\ shifts'[k] = read[k]
        BY <1>7, <1>11, <2>2, <3>2
      <4>2. read[i].slot \in RowSlots /\ ~Clashes(read, other, read[i].slot, {i, j})
        BY <1>2, <1>9 DEF RowType, other
      <4> QED BY <1>1, <1>7, <4>1, <4>2, NoClashIsClear
    <3>4. Clear(shifts', j)
      <4> SUFFICES ASSUME NEW k \in Ids \ {j}, shifts'[k] # NoShift, shifts'[k].owner = who
                   PROVE  ~Overlap(read[j].slot, shifts'[k].slot)
        BY <3>2 DEF Clear
      <4>1. k \in Ids \ {i, j} /\ shifts'[k] = read[k]
        BY <1>7, <1>11, <2>2, <3>2
      <4>2. read[j].slot \in RowSlots /\ ~Clashes(read, who, read[j].slot, {i, j})
        BY <1>2, <1>9 DEF RowType, who
      <4> QED BY <1>1, <1>7, <4>1, <4>2, NoClashIsClear
    <3> QED BY <1>11, <3>1, <3>3, <3>4 DEF Accounted
  <2> QED BY <2>1, <2>2
<1>14. TypesOK'
  BY <1>5, <1>8, <1>11, <1>12 DEF TypesOK, GridOK, EditorOK
<1> QED BY <1>8, <1>11, <1>13, <1>14, PairsKept DEF BoardInv

LEMMA ChangeKeepsGrid ==
  ASSUME RequestedInv, NEW d \in Desks, NEW r \in RequestIds, ApproveChange(d, r)
  PROVE  BoardInv'
<1> DEFINE row == Seen(d).requests[r]
           read == Seen(d).shifts
           i == row.shift
           slot == [row.wanted EXCEPT !.break = read[i].slot.break]
<1>1. row \in RequestType /\ read \in Grids
  BY DecidedRow, SeenIsRequested DEF ApproveChange
<1>2. /\ row.wanted # NoSlot /\ read[i] # NoShift
      /\ ~Clashes(read, row.by, slot, {i})
      /\ shifts' = [shifts EXCEPT ![i] = Placed(i, shifts[i].owner, slot)]
      /\ Record(<<Entry("scheduled_shifts", i, read[i], shifts'[i])>>)
  BY DEF ApproveChange
<1>3. /\ unreviewed' = unreviewed \cup (IF read = shifts /\ OwnShift(d, r) THEN {} ELSE {i})
      /\ nextId' = nextId /\ editor' = editor
  BY DEF ApproveChange, Apply
<1>4. OwnShift(d, r) => read[i].owner = row.by
  BY DEF OwnShift
<1>5. i \in Ids /\ row.by \in Owners /\ row.wanted \in RowSlots
  <2>1. i \in Ids /\ row.by \in Askers /\ row.wanted \in Wanted
    BY <1>1, <1>2 DEF RequestType
  <2> QED BY <2>1, AskersAssumption, AskedAreRows DEF Owners
<1>6. TypesOK /\ ConfirmedDoNotOverlap /\ shifts \in Grids
  BY DEF RequestedInv, BoardInv, TypesOK, GridOK
<1>7. read[i] \in RowType
  BY <1>1, <1>2, <1>5 DEF Grids, Cells
<1>8. slot \in RowSlots
  BY <1>5, <1>7 DEF RowSlots, RowType
<1> DEFINE who == row.by
<1> HIDE DEF read, i, slot, who
<1>9. Placed(i, shifts[i].owner, slot) \in Cells
  BY <1>5, <1>6, <1>8 DEF Placed, Grids, Cells, RowType
<1>10. /\ shifts' \in Grids /\ shifts'[i] = Placed(i, shifts[i].owner, slot)
       /\ \A k \in Ids \ {i} : shifts'[k] = shifts[k]
  BY <1>2, <1>5, <1>6, <1>9 DEF Grids
<1>11. log' \in Seq(EntryType)
  <2>1. Entry("scheduled_shifts", i, read[i], shifts'[i]) \in EntryType
    BY <1>5, <1>7, <1>9, <1>10 DEF Entry, EntryType, Cells
  <2>2. <<Entry("scheduled_shifts", i, read[i], shifts'[i])>> \in Seq(EntryType)
    BY <2>1
  <2> QED BY <1>2, <1>6, <2>2, RecordKept
<1>12. \A k \in Ids : Accounted(k)
  <2>1. CASE ~(read = shifts /\ OwnShift(d, r))
    BY <1>3, <1>10, <2>1 DEF Accounted
  <2>2. CASE read = shifts /\ OwnShift(d, r)
    <3>1. unreviewed' = unreviewed /\ read[i].owner = who
      BY <1>3, <1>4, <2>2 DEF who
    <3>2. shifts'[i] = [owner |-> who, slot |-> slot, status |-> "Confirmed"]
      BY <1>2, <1>10, <2>2, <3>1 DEF Placed
    <3>3. Clear(shifts', i)
      <4> SUFFICES ASSUME NEW k \in Ids \ {i}, shifts'[k] # NoShift, shifts'[k].owner = who
                   PROVE  ~Overlap(slot, shifts'[k].slot)
        BY <3>2 DEF Clear
      <4>1. shifts'[k] = read[k]
        BY <1>10, <2>2
      <4>2. ~Clashes(read, who, slot, {i}) /\ who \in Owners
        BY <1>2, <1>5 DEF who
      <4> QED BY <1>1, <1>8, <4>1, <4>2, NoClashIsClear
    <3> QED BY <1>10, <3>1, <3>3 DEF Accounted
  <2> QED BY <2>1, <2>2
<1>13. TypesOK'
  BY <1>3, <1>6, <1>10, <1>11 DEF TypesOK, GridOK, EditorOK
<1> QED BY <1>6, <1>10, <1>12, <1>13, PairsKept DEF BoardInv

-----------------------------------------------------------------------------
(* What a step of the desks keeps of a request. *)
SameSwap(old, new) == new.swap = old.swap /\ new.by = old.by /\ new.with = old.with /\ new.other = old.other

LEMMA WritesKeepSwaps ==
  ASSUME RequestedInv, NEW d \in Desks, NEW r \in RequestIds,
         \/ Withdraw(d, r) \/ ConfirmSwap(d, r) \/ DeclineSwap(d, r)
         \/ \E decision \in {"Approved", "Rejected"} : DecideOnly(d, r, decision)
         \/ ApproveSwap(d, r) \/ ApproveChange(d, r)
  PROVE  SwapsNameTwo(requests') /\ desk' = [desk EXCEPT ![d] = Idle]
<1>1. Seen(d).requests[r].status \in Statuses
  BY DEF Withdraw, ConfirmSwap, DeclineSwap, DecideOnly, ApproveSwap, ApproveChange, Decidable,
         DecidableStatuses, Statuses, OpenStatuses
<1>2. requests[r] # NoRequest /\ requests[r] \in RequestType
  <2>1. requests[r] # NoRequest
    BY <1>1, SeenIsPresent DEF RequestedInv
  <2> QED BY <2>1 DEF RequestedInv, AgreedInv, GoodRows, GoodRow
<1>3. \E row : SameSwap(requests[r], row) /\ Write(d, r, row)
  <2>1. ASSUME NEW s PROVE SameSwap(requests[r], [requests[r] EXCEPT !.status = s])
    BY <1>2 DEF SameSwap, RequestType
  <2>2. ASSUME NEW s, NEW a PROVE SameSwap(requests[r], [requests[r] EXCEPT !.status = s, !.applied = a])
    BY <1>2 DEF SameSwap, RequestType
  <2>3. SameSwap(requests[r], [requests[r] EXCEPT !.status = "Pending", !.confirmed = TRUE])
    BY <1>2 DEF SameSwap, RequestType
  <2> QED BY <2>1, <2>2, <2>3
          DEF Withdraw, ConfirmSwap, DeclineSwap, DecideOnly, ApproveSwap, ApproveChange, Apply
<1>4. PICK row : SameSwap(requests[r], row) /\ Write(d, r, row)
  BY <1>3
<1>5. requests' = [requests EXCEPT ![r] = row] /\ desk' = [desk EXCEPT ![d] = Idle]
  BY <1>4 DEF Write
<1>6. \A x \in RequestIds : requests'[x] = IF x = r THEN row ELSE requests[x]
  BY <1>5 DEF RequestedInv, AgreedInv, GoodRows
<1>7. TwoPeople(requests[r]) => TwoPeople(row)
  BY <1>4 DEF TwoPeople, SameSwap
<1> QED BY <1>2, <1>5, <1>6, <1>7 DEF SwapsNameTwo, RequestedInv

LEMMA SubmitNamesTwo ==
  ASSUME RequestedInv, NEW d \in Desks, NEW e, NEW i, NEW swap, NEW with, NEW other, NEW wanted,
         NEW emergency, Submit(d, e, i, swap, with, other, wanted, emergency)
  PROVE  SwapsNameTwo(requests') /\ desk' = [desk EXCEPT ![d] = Idle]
<1> DEFINE row == [status |-> IF emergency THEN "Emergency Review"
                              ELSE IF swap THEN "Swap Confirmation" ELSE "Pending",
                   by |-> e, shift |-> i, swap |-> swap, with |-> with, other |-> other,
                   wanted |-> wanted, emergency |-> emergency, confirmed |-> FALSE,
                   applied |-> FALSE]
<1>1. PICK r \in RequestIds : requests' = [requests EXCEPT ![r] = row]
  BY DEF Submit
<1>2. with # e /\ (swap => other # 0) /\ desk' = [desk EXCEPT ![d] = Idle]
  BY DEF Submit
<1>3. TwoPeople(row)
  BY <1>2 DEF TwoPeople
<1> HIDE DEF row
<1>4. \A x \in RequestIds : requests'[x] = IF x = r THEN row ELSE requests[x]
  BY <1>1 DEF RequestedInv, AgreedInv, GoodRows
<1> QED BY <1>2, <1>3, <1>4 DEF SwapsNameTwo, RequestedInv

(* A desk that is done has read nothing; one that enters reads what there is. *)
LEMMA DesksForget ==
  ASSUME RequestedInv, NEW d \in Desks, desk' = [desk EXCEPT ![d] = Idle]
  PROVE  DeskReadsOK'
BY DEF RequestedInv, AgreedInv, DesksOK, DeskReadsOK, Idle

LEMMA DesksRead ==
  ASSUME RequestedInv, NEW d \in Desks, Enter(d)
  PROVE  DeskReadsOK'
<1> DEFINE reads == [busy |-> TRUE, shifts |-> shifts, requests |-> requests]
<1>1. desk' = [desk EXCEPT ![d] = reads] /\ reads.shifts = shifts /\ reads.requests = requests
  BY DEF Enter
<1>2. shifts \in Grids /\ SwapsNameTwo(requests)
  BY DEF RequestedInv, BoardInv, TypesOK, GridOK
<1> HIDE DEF reads
<1>3. \A e \in Desks : desk'[e] = IF e = d THEN reads ELSE desk[e]
  BY <1>1 DEF RequestedInv, AgreedInv, DesksOK
<1> QED BY <1>1, <1>2, <1>3 DEF DeskReadsOK, RequestedInv

(***************************************************************************)
(* Editors and the approvals of requests together, for any number of both: *)
(* two Confirmed shifts of an employee overlap only if one of them was     *)
(* placed without a check, by a handler whose reads were stale or for a    *)
(* shift that is no longer the asker's.  The check of an approval for the  *)
(* two shifts and their neighbouring dates is enough                       *)
(* (decide_shift_change_request of api/staff_self_service.py).             *)
(***************************************************************************)
THEOREM RequestsBookNobodyTwice == Spec => []ConfirmedDoNotOverlap
<1> DEFINE Inv == BoardInv /\ SwapsNameTwo(requests) /\ DeskReadsOK
<1>1. Init => Inv
  <2> SUFFICES ASSUME Init PROVE Inv
    OBVIOUS
  <2>1. BoardInv
    BY InitialBoard DEF Init
  <2>2. SwapsNameTwo(requests) /\ DeskReadsOK
    BY DEF Init, SwapsNameTwo, DeskReadsOK, Idle
  <2> QED BY <2>1, <2>2
<1>2. AgreedInv /\ Inv /\ [Next]_vars => Inv'
  <2> SUFFICES ASSUME AgreedInv, Inv, [Next]_vars PROVE Inv'
    OBVIOUS
  <2>1. RequestedInv
    BY DEF RequestedInv
  <2>2. ASSUME UNCHANGED boardVars PROVE BoardInv'
    BY <2>2, BoardStep
  <2>3. ASSUME UNCHANGED requestVars PROVE SwapsNameTwo(requests') /\ DeskReadsOK'
    BY <2>3 DEF requestVars, DeskReadsOK
  <2>4. CASE EditNext /\ UNCHANGED requestVars
    <3>1. Employees \subseteq Owners
      BY DEF Owners
    <3>2. EditNext => BoardNext
      BY <3>1 DEF EditNext, BoardNext, EditorNext
    <3> QED BY <2>3, <2>4, <3>2, BoardStep
  <2>5. ASSUME NEW d \in Desks, Enter(d) \/ Leave(d) PROVE Inv'
    <3>1. UNCHANGED <<boardVars, requests>>
      BY <2>5 DEF Enter, Leave
    <3>2. BoardInv' /\ SwapsNameTwo(requests')
      BY <2>2, <3>1 DEF SwapsNameTwo
    <3>3. DeskReadsOK'
      BY <2>1, <2>5, DesksRead, DesksForget DEF Leave
    <3> QED BY <3>2, <3>3
  <2>6. ASSUME NEW d \in Desks, SubmitAny(d) PROVE Inv'
    <3>1. \E e, i, swap, with, other, wanted, emergency :
            Submit(d, e, i, swap, with, other, wanted, emergency)
      BY <2>6, Zenon DEF SubmitAny
    <3>2. SwapsNameTwo(requests') /\ desk' = [desk EXCEPT ![d] = Idle]
      BY <2>1, <3>1, SubmitNamesTwo, Zenon
    <3>3. UNCHANGED boardVars
      <4>1. ASSUME NEW e, NEW i, NEW swap, NEW with, NEW other, NEW wanted, NEW emergency,
                   Submit(d, e, i, swap, with, other, wanted, emergency)
            PROVE  UNCHANGED boardVars
        BY <4>1 DEF Submit
      <4> QED BY <3>1, <4>1, Zenon
    <3> QED BY <2>1, <2>2, <3>2, <3>3, DesksForget
  <2>7. ASSUME NEW d \in Desks, NEW r \in RequestIds,
               \/ Withdraw(d, r) \/ ConfirmSwap(d, r) \/ DeclineSwap(d, r)
               \/ \E decision \in {"Approved", "Rejected"} : DecideOnly(d, r, decision)
               \/ ApproveSwap(d, r) \/ ApproveChange(d, r)
        PROVE  Inv'
    <3>1. SwapsNameTwo(requests') /\ DeskReadsOK'
      BY <2>1, <2>7, WritesKeepSwaps, DesksForget
    <3>2. BoardInv'
      <4>1. CASE ApproveSwap(d, r) \/ ApproveChange(d, r)
        BY <2>1, <4>1, SwapKeepsGrid, ChangeKeepsGrid
      <4>2. CASE ~(ApproveSwap(d, r) \/ ApproveChange(d, r))
        <5>1. UNCHANGED boardVars
          BY <2>7, <4>2 DEF Withdraw, ConfirmSwap, DeclineSwap, DecideOnly
        <5> QED BY <2>2, <5>1
      <4> QED BY <4>1, <4>2
    <3> QED BY <3>1, <3>2
  <2>8. CASE DeskNext
    BY <2>5, <2>6, <2>7, <2>8 DEF DeskNext
  <2>9. CASE UNCHANGED vars
    BY <2>2, <2>3, <2>9 DEF vars
  <2> QED BY <2>4, <2>8, <2>9 DEF Next
<1>3. Inv => ConfirmedDoNotOverlap
  BY DEF BoardInv
<1> QED BY <1>1, <1>2, <1>3, AgreedInvariant, PTL DEF Spec
=============================================================================
