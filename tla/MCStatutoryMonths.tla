--------------------------- MODULE MCStatutoryMonths ---------------------------
(***************************************************************************)
(* StatutoryMonths on the cutoffs August 31 to September 14 and September  *)
(* 15 to 29.  The share is owed from earnings of 3 on, which the first     *)
(* cutoff reaches alone, or together with the second one, or not at all.   *)
(***************************************************************************)
EXTENDS StatutoryMonths

Segment(m, from, to) == [month |-> m, from |-> from, to |-> to]
MCSegments ==
  << <<Segment(8, 31, 31), Segment(9, 1, 14)>>, <<Segment(9, 15, 29)>> >>
InSeptember(g) == [m \in Months |-> IF m = 9 THEN g ELSE 0]
MCEarnings == << {Nobody, [m \in Months |-> 1], InSeptember(3)}, {Nobody, InSeptember(1)} >>
MCShare(gross) == IF gross < 3 THEN 0 ELSE 2
=============================================================================
