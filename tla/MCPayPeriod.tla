------------------------------ MODULE MCPayPeriod ------------------------------
(***************************************************************************)
(* PayPeriod on a cutoff of two days, the last of a month and the first of *)
(* the next, with a day before and a day after it.                         *)
(***************************************************************************)
EXTENDS PayPeriod

MCMonthOf == (0 :> 8) @@ (1 :> 8) @@ (2 :> 9) @@ (3 :> 9)
Shift(d, from, to) == [date |-> d, from |-> from, to |-> to]
Log(d, i, in, out, approved, absent) ==
  [date |-> d, shift |-> i, in |-> in, out |-> out, approved |-> approved, absent |-> absent]

(* No shift, a day shift, a night shift, two shifts of a day, one on each day. *)
Boards ==
  {<<>>, <<Shift(1, 8, 17)>>, <<Shift(1, 20, 6)>>, <<Shift(1, 6, 12), Shift(1, 14, 23)>>,
   <<Shift(1, 20, 6), Shift(2, 8, 16)>>}
Times == {<<5, 12>>, <<7, 18>>, <<13, 1>>, <<20, 7>>}
Logs(d) ==
  {Log(d, i, t[1], t[2], n, FALSE) : i \in 0..2, t \in Times, n \in {0, 2}} \cup {Log(d, 0, 0, 1, 0, TRUE)}
(* At most two logs: of the first day, or one of each day. *)
Pairs ==
  {p \in Logs(1) \X Logs(1) : p[1].in <= p[2].in} \cup {p \in Logs(1) \X Logs(2) : p[2].approved = 0 /\ p[2].in \in {7, 20}}
Sheets == {<<>>} \cup {<<l>> : l \in Logs(1)} \cup Pairs
(* Links lead to shifts of the day of the log, and no two logs to the same. *)
Linkable(shifts, logs) ==
  /\ \A k \in DOMAIN logs :
       logs[k].shift = 0 \/ (logs[k].shift \in DOMAIN shifts /\ shifts[logs[k].shift].date = logs[k].date)
  /\ \A j, k \in DOMAIN logs : j # k => logs[j].shift # logs[k].shift \/ logs[j].shift = 0
Calendar(day, type) == [d \in Days |-> IF d = day THEN type ELSE "None"]
Calendars ==
  {Calendar(1, "None"), Calendar(1, "Regular"), Calendar(2, "Regular"), Calendar(2, "Special"),
   [Calendar(1, "Special") EXCEPT ![2] = "Regular"]}
MCInputs ==
  {[shifts |-> p[1], logs |-> p[2], holidays |-> c, rest |-> r] :
     p \in {q \in Boards \X Sheets : Linkable(q[1], q[2])}, c \in Calendars, r \in {{}, {1}}}
=============================================================================
