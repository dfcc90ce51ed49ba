--------------------------- MODULE MCScheduleBoard ---------------------------
(***************************************************************************)
(* ScheduleBoard on a small instance: a night shift that reaches into the  *)
(* next day, a slot on that day that clashes with it, a day of leave, and  *)
(* an edit that others may overtake.                                       *)
(***************************************************************************)
EXTENDS ScheduleBoard, TLC

CONSTANTS ana, ben

Morning == [date |-> 1, start |-> 480, end |-> 1020, break |-> 60]
Night == [date |-> 1, start |-> 1320, end |-> 360, break |-> 60]
Dawn == [date |-> 2, start |-> 300, end |-> 720, break |-> 0]

MCSlots == {Night, Dawn}
MCOnLeave == {<<ben, 2>>}
MCInitialShifts == << [owner |-> ana, slot |-> Night, status |-> "Confirmed"],
                      [owner |-> ben, slot |-> Morning, status |-> "Confirmed"] >>

(* A publication reads and writes nothing that an edit in progress has read or will *)
(* write beyond the grid, so it is enough to publish between edits.                 *)
PublishBetweenEdits ==
  (\E w \in Weeks : published[w] > 0) => \A c \in Editors : ~editor[c].busy
=============================================================================
