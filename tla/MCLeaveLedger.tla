---------------------------- MODULE MCLeaveLedger ----------------------------
(***************************************************************************)
(* LeaveLedger on a small instance: three dates, SIL and an unpaid type,   *)
(* and requests for one, two and three days.                               *)
(***************************************************************************)
EXTENDS LeaveLedger, TLC

MCCredits == [t \in {"SIL"} |-> 2 * Unit]
MCAsks == {[type |-> "Emergency Leave", from |-> 1, to |-> 3],
           [type |-> "SIL", from |-> 2, to |-> 3],
           [type |-> "SIL", from |-> 1, to |-> 1]}

(* Bounds: of two requests in progress one acts on stale reads, and only once; it has *)
(* read at most one leave, and there are at most two by then and after it.           *)
OneOvertaken ==
  /\ contested # {} => Cardinality(Stored(leaves)) <= 2
  /\ \A c \in Clerks : clerk[c].busy =>
       /\ contested = {} /\ \A d \in Clerks \ {c} : ~clerk[d].busy
       /\ Cardinality(Stored(clerk[c].leaves)) <= 1 /\ Cardinality(Stored(leaves)) <= 2
Interchangeable == Permutations(Clerks)
=============================================================================
