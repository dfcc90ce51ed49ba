---------------------------- MODULE ShiftRequests ----------------------------
(***************************************************************************)
(* Requests of staff to change or swap shifts, over the grid that editors  *)
(* keep changing: api/staff_self_service.py on top of ScheduleBoard.       *)
(*                                                                         *)
(* Every handler here reads the request (and the shifts) before the write  *)
(* that opens its transaction, and no write repeats a condition of the     *)
(* reads: its UPDATEs are by id.  Enter is those reads; the handlers are   *)
(* the writes.  Attachments and the audit trail are left out.              *)
(***************************************************************************)
EXTENDS ScheduleBoard

CONSTANTS
  Askers,       \* the employees who ask for changes
  Wanted,       \* the dates and times that they ask for
  Desks,        \* requests of the self-service and its reviewers in progress
  MaxRequests   \* bound: shift_change_requests

VARIABLES
  requests,     \* shift_change_requests
  desk,         \* what each request in progress has read
  carried,      \* history: how often the schedule was changed for a request
  contested     \* history: requests written by a handler whose reads were stale

requestVars == <<requests, desk, carried, contested>>
vars == <<boardVars, requestVars>>

RequestIds == 1..MaxRequests
OpenStatuses == {"Pending", "Swap Confirmation", "Emergency Review"}
DecidableStatuses_Unconfirmed == {"Pending", "Emergency Review", "Swap Confirmation"}
DecidableStatuses == {"Pending", "Emergency Review"}
NoRequest == [status |-> "Absent"]
NoSlot == [date |-> 0, start |-> 0, end |-> 0, break |-> 0]

ASSUME DesksAssumption == MaxRequests \in Nat /\ NoSlot \notin Slots
ASSUME AskersAssumption == Askers \subseteq Employees /\ Wanted \subseteq Slots

Init ==
  /\ BoardInit
  /\ requests = [r \in RequestIds |-> NoRequest]
  /\ desk = [d \in Desks |-> Idle]
  /\ carried = [r \in RequestIds |-> 0]
  /\ contested = {}

Enter(d) ==
  /\ ~desk[d].busy
  /\ desk' = [desk EXCEPT ![d] = [busy |-> TRUE, shifts |-> shifts, requests |-> requests]]
  /\ UNCHANGED <<boardVars, requests, carried, contested>>

Seen(d) == IF desk[d].busy THEN desk[d] ELSE [shifts |-> shifts, requests |-> requests]

(* The request is refused, or its connection is lost before the commit. *)
Leave(d) ==
  /\ desk[d].busy
  /\ desk' = [desk EXCEPT ![d] = Idle]
  /\ UNCHANGED <<boardVars, requests, carried, contested>>

(* An UPDATE of request r, whatever its row says by now. *)
Write(d, r, row) ==
  /\ requests' = [requests EXCEPT ![r] = row]
  /\ desk' = [desk EXCEPT ![d] = Idle]
  /\ contested' = contested \cup (IF Seen(d).requests[r] = requests[r] THEN {} ELSE {r})

OpenFor(rows, e, i) ==
  {r \in RequestIds : rows[r].status \in OpenStatuses /\ rows[r].by = e /\ rows[r].shift = i}

(* The next id of shift_change_requests. *)
NextRequest(r) == requests[r] = NoRequest /\ \A x \in 1..(r - 1) : requests[x] # NoRequest

(* submit_shift_change_request *)
Submit(d, e, i, swap, with, other, wanted, emergency) ==
  LET read == Seen(d).shifts IN
  /\ read[i] # NoShift /\ read[i].owner = e
  /\ OpenFor(Seen(d).requests, e, i) = {}
  /\ with # e
  /\ swap => with # Nobody /\ other # 0 /\ read[other] # NoShift /\ read[other].owner = with
  /\ \E r \in RequestIds :
     /\ NextRequest(r)
     /\ requests' = [requests EXCEPT ![r] =
          [status |-> IF emergency THEN "Emergency Review"
                      ELSE IF swap THEN "Swap Confirmation" ELSE "Pending",
           by |-> e, shift |-> i, swap |-> swap, with |-> with, other |-> other,
           wanted |-> wanted, emergency |-> emergency, confirmed |-> FALSE, applied |-> FALSE]]
     /\ contested' = contested \cup (IF OpenFor(requests, e, i) = {} THEN {} ELSE {r})
  /\ desk' = [desk EXCEPT ![d] = Idle]
  /\ UNCHANGED <<boardVars, carried>>

(* withdraw_shift_change_request *)
Withdraw(d, r) ==
  /\ Seen(d).requests[r].status \in OpenStatuses
  /\ Write(d, r, [requests[r] EXCEPT !.status = "Withdrawn"])
  /\ UNCHANGED <<boardVars, carried>>

(* confirm_shift_swap *)
ConfirmSwap(d, r) ==
  /\ Seen(d).requests[r].status = "Swap Confirmation"
  /\ Write(d, r, [requests[r] EXCEPT !.status = "Pending", !.confirmed = TRUE])
  /\ UNCHANGED <<boardVars, carried>>

(* decline_shift_swap *)
DeclineSwap(d, r) ==
  /\ Seen(d).requests[r].status = "Swap Confirmation"
  /\ Write(d, r, [requests[r] EXCEPT !.status = "Swap Declined"])
  /\ UNCHANGED <<boardVars, carried>>

-----------------------------------------------------------------------------
(* decide_shift_change_request.  applied_at is written with every decision. *)

Decidable_Again(d, r) == Seen(d).requests[r].status \in DecidableStatuses \cup {"Approved"}
Decidable(d, r) == Seen(d).requests[r].status \in DecidableStatuses

(* A rejection, or an approval that changes no shift: apply_change is off, or the *)
(* request names no new date or time.                                             *)
DecideOnly(d, r, decision) ==
  /\ Decidable(d, r)
  /\ Write(d, r, [requests[r] EXCEPT !.status = decision, !.applied = FALSE])
  /\ UNCHANGED <<boardVars, carried>>

(* What a shift becomes for the request: an UPDATE by id that may find no row. *)
Placed(i, owner, slot) ==
  IF shifts[i] = NoShift THEN NoShift
  ELSE [owner |-> owner, slot |-> slot, status |-> "Confirmed"]

(* Whether the shift is still of the employee who asked, which only a swap checks. *)
OwnShift(d, r) ==
  LET row == Seen(d).requests[r] IN Seen(d).shifts[row.shift].owner = row.by

Apply(d, r, ids) ==
  /\ Write(d, r, [requests[r] EXCEPT !.status = "Approved", !.applied = TRUE])
  /\ carried' = [carried EXCEPT ![r] = @ + 1]
  /\ unreviewed' = unreviewed \cup
       (IF Seen(d).shifts = shifts /\ OwnShift(d, r) THEN {} ELSE ids)
  /\ stale' = stale \cup StaleIds(Seen(d).shifts, ids)
  /\ unrestorable' = unrestorable \cup ids
  /\ UNCHANGED <<nextId, editor, publication>>

(* The two shifts exchange the employees that were read; nobody may get an overlap. *)
ApproveSwap(d, r) ==
  LET row == Seen(d).requests[r]
      read == Seen(d).shifts
      i == row.shift  j == row.other IN
  /\ Decidable(d, r) /\ row.swap
  /\ read[i] # NoShift /\ read[i].owner = row.by
  /\ read[j] # NoShift /\ read[j].owner = row.with
  /\ ~Clashes(read, row.with, read[i].slot, {i, j})
  /\ ~Clashes(read, row.by, read[j].slot, {i, j})
  /\ shifts' = [k \in Ids |->
       IF k = j THEN Placed(j, row.by, shifts[j].slot)
       ELSE IF k = i THEN Placed(i, row.with, shifts[i].slot) ELSE shifts[k]]
  /\ Record(<<Entry("scheduled_shifts", i, read[i], [read[i] EXCEPT !.owner = row.with]),
              Entry("scheduled_shifts", j, read[j], [read[j] EXCEPT !.owner = row.by])>>)
  /\ Apply(d, r, {i, j})

(* The shift moves to the wanted date and time; the check of overlaps is for the *)
(* employee who asked.                                                           *)
ApproveChange(d, r) ==
  LET row == Seen(d).requests[r]
      read == Seen(d).shifts
      i == row.shift IN
  /\ Decidable(d, r) /\ ~row.swap /\ row.wanted # NoSlot
  /\ read[i] # NoShift
  /\ LET slot == [row.wanted EXCEPT !.break = read[i].slot.break] IN
     /\ ~Clashes(read, row.by, slot, {i})
     /\ shifts' = [shifts EXCEPT ![i] = Placed(i, shifts[i].owner, slot)]
  /\ Record(<<Entry("scheduled_shifts", i, read[i], shifts'[i])>>)
  /\ Apply(d, r, {i})

(* A swap names a colleague and a shift of theirs, a change a date and times. *)
SubmitAny(d) ==
  \E e \in Askers, i \in Ids, swap, emergency \in BOOLEAN, with \in Employees \cup {Nobody},
     other \in Ids \cup {0}, wanted \in Wanted \cup {NoSlot} :
    /\ swap = (other # 0) /\ swap = (wanted = NoSlot)
    /\ swap = (with # Nobody)
    /\ Submit(d, e, i, swap, with, other, wanted, emergency)

DeskNext ==
  \E d \in Desks :
    \/ Enter(d) \/ Leave(d) \/ SubmitAny(d)
    \/ \E r \in RequestIds :
         \/ Withdraw(d, r) \/ ConfirmSwap(d, r) \/ DeclineSwap(d, r)
         \/ \E decision \in {"Approved", "Rejected"} : DecideOnly(d, r, decision)
         \/ ApproveSwap(d, r) \/ ApproveChange(d, r)

(* The edits that a request in progress can run into: a shift appears, is given to *)
(* somebody else, moved or deleted.  The other edits do one of these to each shift. *)
EditNext ==
  \/ \E e \in Employees, s \in Slots : CreateShift(e, s)
  \/ \E c \in Editors, i \in Ids :
       \/ \E e \in Owners, s \in Slots : SaveShift(c, i, e, s)
       \/ \E d \in Dates : MoveShift(c, i, d)
       \/ DeleteShift(c, i)

Next == (EditNext /\ UNCHANGED requestVars) \/ DeskNext

Spec == Init /\ [][Next]_vars

-----------------------------------------------------------------------------

(***************************************************************************)
(* A colleague's shift is never given away over the colleague's head: a    *)
(* swap that changed the schedule was confirmed by the other employee or   *)
(* was submitted as an emergency, whatever handlers overlapped.            *)
(***************************************************************************)
SwapWasAgreed ==
  \A r \in RequestIds :
    carried[r] > 0 /\ requests[r].swap => requests[r].confirmed \/ requests[r].emergency

(***************************************************************************)
(* What a request says of itself is what happened to the schedule: it was  *)
(* carried out once if it is Approved and applied and never otherwise.     *)
(* Only a request that two overlapping handlers wrote is exempt.           *)
(***************************************************************************)
DecisionMatchesSchedule ==
  \A r \in RequestIds \ contested : requests[r] # NoRequest =>
    /\ carried[r] = IF requests[r].applied THEN 1 ELSE 0
    /\ requests[r].applied => requests[r].status = "Approved"
=============================================================================
