--------------------------- MODULE MCShiftRequests ---------------------------
(***************************************************************************)
(* ShiftRequests on a small instance: two employees with a shift each, a   *)
(* night shift that reaches into the next day, and a slot on that day that *)
(* clashes with it.                                                        *)
(***************************************************************************)
EXTENDS ShiftRequests, TLC

CONSTANTS ana, ben

Morning == [date |-> 1, start |-> 480, end |-> 1020, break |-> 60]
Night == [date |-> 1, start |-> 1320, end |-> 360, break |-> 60]
Dawn == [date |-> 2, start |-> 300, end |-> 720, break |-> 0]

MCSlots == {Night, Dawn}
MCWanted == {Dawn}
MCOnLeave == {<<ben, 2>>}
MCInitialShifts == << [owner |-> ana, slot |-> Night, status |-> "Confirmed"],
                      [owner |-> ben, slot |-> Morning, status |-> "Confirmed"] >>

Symmetry == Permutations(Desks)
=============================================================================
