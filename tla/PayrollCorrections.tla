-------------------------- MODULE PayrollCorrections --------------------------
(***************************************************************************)
(* Corrections of an earlier cutoff and the run that pays them             *)
(* (core/corrections.py, api/payroll_corrections.py, and the places that   *)
(* compute, recalculate, revise and delete drafts).                        *)
(*                                                                         *)
(* A correction is recorded on a run and is due in the run of a later      *)
(* cutoff.  Creating a draft computes its items with the corrections that  *)
(* are due and marks those as Applied to it; a recalculation and a         *)
(* controlled revision compute in the same way and mark nothing.  Notes    *)
(* and corrections that are for the record only are never due and left     *)
(* out.  One employee; requests one after the other.                       *)
(***************************************************************************)
EXTENDS Naturals

CONSTANTS
  Cutoffs,      \* 1..n, in the order of time
  Runs,         \* bound: rows of payroll_runs, numbered
  Corrections   \* bound: rows of payroll_corrections

VARIABLES
  run,          \* the rows of payroll_runs, with the corrections their items include
  correction    \* the rows of payroll_corrections

vars == <<run, correction>>

NoRun == 0
NoCutoff == 0
NoOne == [status |-> "None", cutoff |-> NoCutoff, items |-> {}, parent |-> NoRun,
          treatment |-> "none", successor |-> NoRun]
Unknown == [status |-> "None", source |-> NoRun, applied |-> NoRun]

Init ==
  /\ run = [r \in Runs |-> NoOne]
  /\ correction = [c \in Corrections |-> Unknown]

-----------------------------------------------------------------------------
Saved == {r \in Runs : run[r].status # "None"}
Current(r) == run[r].successor = NoRun
Uncovered(k) == \A r \in Saved : Current(r) => run[r].cutoff # k
Unrevised(r) == \A s \in Saved : run[s].parent # r

(* eligible_corrections: any run of an earlier cutoff will do as the source. *)
Eligible(k) ==
  {c \in Corrections : /\ correction[c].status = "Recorded"
                       /\ correction[c].source \in Saved
                       /\ run[correction[c].source].cutoff < k}

(* mark_eligible_corrections_applied *)
MarkApplied(r, k) ==
  correction' = [c \in Corrections |->
    IF c \in Eligible(k) THEN [correction[c] EXCEPT !.status = "Applied", !.applied = r]
                         ELSE correction[c]]

Record(c, r) ==
  /\ correction[c] = Unknown /\ r \in Saved
  /\ correction' = [correction EXCEPT ![c] = [status |-> "Recorded", source |-> r, applied |-> NoRun]]
  /\ UNCHANGED run

Void(c) ==
  /\ correction[c].status = "Recorded"
  /\ correction' = [correction EXCEPT ![c].status = "Voided"]
  /\ UNCHANGED run

Create(r, k) ==
  /\ r \notin Saved /\ Uncovered(k)
  /\ run' = [run EXCEPT ![r] = [NoOne EXCEPT !.status = "Draft", !.cutoff = k, !.items = Eligible(k)]]
  /\ MarkApplied(r, k)

(* What was Applied to this draft is no longer eligible; what is due since
   is included, and stays due. *)
Recalculate(r) ==
  /\ run[r].status = "Draft" /\ run[r].treatment # "adjust_paid"
  /\ run' = [run EXCEPT ![r].items = Eligible(run[r].cutoff)]
  /\ UNCHANGED correction

(* _delete_draft_dependents: what is Applied is due again, corrections
   recorded on the draft go with it. *)
Delete(r) ==
  /\ run[r].status = "Draft"
  /\ run' = [s \in Runs |-> IF s = r THEN NoOne
                            ELSE IF run[s].successor = r THEN [run[s] EXCEPT !.successor = NoRun]
                            ELSE run[s]]
  /\ correction' = [c \in Corrections |->
       IF correction[c].source = r THEN Unknown
       ELSE IF correction[c].status = "Applied" /\ correction[c].applied = r
         THEN [correction[c] EXCEPT !.status = "Recorded", !.applied = NoRun]
       ELSE correction[c]]

Move(r, from, to) ==
  /\ run[r].status = from /\ Current(r)
  /\ run' = [run EXCEPT ![r].status = to]
  /\ UNCHANGED correction

Revise(r, s) ==
  LET treatment == IF run[r].status = "Paid" THEN "adjust_paid" ELSE "replace_unpaid"
      new == [NoOne EXCEPT !.status = "Draft", !.cutoff = run[r].cutoff, !.parent = r,
                           !.treatment = treatment, !.items = Eligible(run[r].cutoff)] IN
  /\ r \in Saved /\ s \notin Saved /\ Unrevised(r)
  /\ run' = [run EXCEPT ![s] = new,
                        ![r].successor = IF treatment = "replace_unpaid" THEN s ELSE @]
  /\ UNCHANGED correction

Payable(r) ==
  LET p == run[r].parent IN
  /\ run[r].status = "Approved" /\ Current(r)
  /\ run[r].treatment = "replace_unpaid" =>
       p \in Saved /\ run[p].status # "Paid" /\ run[p].successor = r
  /\ run[r].treatment = "adjust_paid" =>
       p \in Saved /\ run[p].status = "Paid" /\ run[p].successor \in {NoRun, r}

(* A paid revision pays the difference, and supersedes what it corrects. *)
Pay(r) ==
  /\ Payable(r)
  /\ run' = [s \in Runs |->
       IF s = r THEN [run[s] EXCEPT !.status = "Paid"]
       ELSE IF run[r].treatment = "adjust_paid" /\ s = run[r].parent
         THEN [run[s] EXCEPT !.successor = r]
       ELSE run[s]]
  /\ UNCHANGED correction

-----------------------------------------------------------------------------
Next ==
  \/ \E c \in Corrections : Void(c) \/ \E r \in Runs : Record(c, r)
  \/ \E r \in Runs :
       \/ \E k \in Cutoffs : Create(r, k)
       \/ \E s \in Runs \ {r} : Revise(r, s)
       \/ Recalculate(r) \/ Delete(r) \/ Pay(r)
       \/ Move(r, "Draft", "For Owner Review")
       \/ Move(r, "For Owner Review", "Approved")
       \/ \E from \in {"For Owner Review", "Approved"} : Move(r, from, "Draft")

Spec == Init /\ [][Next]_vars

-----------------------------------------------------------------------------
(***************************************************************************)
(* Corrections are "next-run earning/deduction adjustments" (the page they *)
(* are recorded on): at most one cutoff pays a correction.  What a cutoff  *)
(* paid is what its last paid run includes.                                *)
(***************************************************************************)
Paying(k) == {r \in Saved : run[r].cutoff = k /\ run[r].status = "Paid" /\ Current(r)}
PaidInOneCutoff ==
  \A c \in Corrections : \A k, l \in Cutoffs :
    (\E r \in Paying(k) : c \in run[r].items) /\ (\E r \in Paying(l) : c \in run[r].items) => k = l
=============================================================================
