---------------------------- MODULE MCAttendanceDay ----------------------------
(***************************************************************************)
(* AttendanceDay on one day with the two halves of a split duty, of which  *)
(* the second is a night shift, and a second day they may be moved to.     *)
(***************************************************************************)
EXTENDS AttendanceDay

MCSlots == {[from |-> 8, to |-> 20], [from |-> 20, to |-> 2]}
MCPunches == {[in |-> 8, out |-> 2]}
Row(in, out, status) == [in |-> in, out |-> out, absent |-> FALSE, status |-> status]
MCUploads == {<<Row(9, 1, "Needs Review")>>, <<Row(8, 20, "Needs Review"), Row(20, 2, "Needs Review")>>}

(* Each shift keeps its hours. *)
OwnHours == \A i \in ShiftIds : shifts[i] # NoShift => (shifts[i].from = 8) = (i = 1)

(* A request in progress found at most one log, and is overtaken by changes of the *)
(* shifts or of the logs; what nothing overtakes is handled in one step.           *)
OneOvertakes ==
  \A c \in Clerks : clerk[c].busy =>
    /\ clerk[c].onLeave = onLeave
    /\ clerk[c].shifts = shifts \/ clerk[c].logs = logs
    /\ Cardinality(Logs(clerk[c].logs)) <= 1

Bounded == OwnHours /\ OneOvertakes
=============================================================================
