-------------------------- MODULE PayrollRunsProofs --------------------------
(***************************************************************************)
(* What PayrollRuns keeps for every number of runs, cutoffs and edits.     *)
(*                                                                         *)
(* For requests that overlap at will: a payment that Accounting was told   *)
(* of stays on the run, and only drafts are deleted.  Both rest on what    *)
(* one step may do to one row (RowStep).                                   *)
(*                                                                         *)
(* For requests that follow each other: signatures and adjustments hold    *)
(* (SequentialInv), and so do the ties between a run, its original and its *)
(* revision (FamilyInv).                                                   *)
(***************************************************************************)
EXTENDS PayrollRuns, TLAPS

AnyPeriod == Periods \cup {Absent.period}
Items == [calc : Nat, manual : Nat]
Row == [status : Statuses, period : AnyPeriod, paid : BOOLEAN, parent : {NoRun} \cup Runs,
        treatment : Treatments, successor : {NoRun} \cup Runs, items : Items]
JobRecord == [op : Operations \cup {"idle"}, run : {NoRun} \cup Runs, period : AnyPeriod,
              treatment : Treatments, items : Items, version : Nat]
Job == {j \in JobRecord : j.op \in {"idle", "create"} \/ j.run \in Runs}

(* The shapes, without the bounds of the instances. *)
Shapes ==
  /\ run \in [Runs -> Row]
  /\ saved \in [Runs -> Nat]
  /\ clerk \in [Clerks -> Job]
  /\ signed \in [Runs -> Items]
  /\ announced \in [Runs -> SUBSET Statuses]

(* What a step may do to the row of run s: nothing to its status and payment, insert *)
(* it, delete it as a draft, or move it on without taking its payment back.          *)
RowStep(s) ==
  \/ run'[s].status = run[s].status /\ run'[s].paid = run[s].paid
  \/ run[s].status = "Absent" /\ run'[s].status = "Draft"
  \/ run[s].status = "Draft" /\ run'[s].status = "Deleted"
  \/ /\ Exists(s) /\ run'[s].status \notin {"Absent", "Deleted"}
     /\ run[s].paid => run'[s].paid
     /\ run'[s].status = "Paid" => run'[s].paid

-----------------------------------------------------------------------------
(* The values that rows and jobs start from. *)
LEMMA EmptyShapes == Absent \in Row /\ Idle \in Job /\ Empty \in Items
<1>1. Empty \in Items
  BY DEF Empty, Items
<1>2. Absent \in Row
  <2> DEFINE p == Absent.period
  <2>1. Absent = [status |-> "Absent", period |-> p, paid |-> FALSE, parent |-> NoRun,
                  treatment |-> "none", successor |-> NoRun, items |-> Empty]
    BY DEF Absent
  <2>2. p \in AnyPeriod
    BY DEF AnyPeriod
  <2> HIDE DEF p
  <2> QED BY <1>1, <2>1, <2>2 DEF Row, Statuses, Treatments
<1>3. Idle \in Job
  BY <1>1 DEF Idle, Job, JobRecord, AnyPeriod, Treatments
<1> QED BY <1>1, <1>2, <1>3

(* An UPDATE by id writes one row, if it finds it. *)
LEMMA UpdateRow ==
  ASSUME Shapes, NEW r \in {NoRun} \cup Runs, NEW new, r \in Runs => new \in Row, Update(r, new)
  PROVE  /\ run' \in [Runs -> Row]
         /\ \A s \in Runs : run'[s] = run[s] \/ (s = r /\ Exists(s) /\ run'[s] = new)
BY DEF Shapes, Update, Runs, NoRun

(* The row that Insert writes. *)
DraftOf(p, parent, t, m) ==
  [Absent EXCEPT !.status = "Draft", !.period = p, !.parent = parent,
                 !.treatment = t, !.items = [Empty EXCEPT !.manual = m]]

LEMMA DraftIsRow ==
  ASSUME NEW p \in AnyPeriod, NEW parent \in {NoRun} \cup Runs, NEW t \in Treatments, NEW m \in Nat
  PROVE  DraftOf(p, parent, t, m) \in Row /\ DraftOf(p, parent, t, m).status = "Draft"
<1> DEFINE items == [Empty EXCEPT !.manual = m]
<1>1. items \in Items
  BY EmptyShapes DEF Items
<1>2. DraftOf(p, parent, t, m) = [Absent EXCEPT !.status = "Draft", !.period = p, !.parent = parent,
                                                !.treatment = t, !.items = items]
  BY DEF DraftOf
<1> HIDE DEF items
<1> QED BY <1>1, <1>2, EmptyShapes DEF Row, Statuses

LEMMA DraftCarries ==
  ASSUME NEW p \in AnyPeriod, NEW parent \in {NoRun} \cup Runs, NEW t \in Treatments, NEW m \in Nat
  PROVE  DraftOf(p, parent, t, m).items.manual = m
<1> DEFINE items == [Empty EXCEPT !.manual = m]
<1>1. items.manual = m
  BY EmptyShapes DEF Items
<1>2. DraftOf(p, parent, t, m) = [Absent EXCEPT !.status = "Draft", !.period = p, !.parent = parent,
                                                !.treatment = t, !.items = items]
  BY DEF DraftOf
<1> HIDE DEF items
<1> QED BY <1>1, <1>2, EmptyShapes DEF Row

(* A row that is paid. *)
LEMMA PaidIsRow ==
  ASSUME NEW x \in Row
  PROVE  LET new == [x EXCEPT !.status = "Paid", !.paid = TRUE]
         IN  new \in Row /\ new.status = "Paid" /\ new.paid = TRUE
<1> DEFINE y == [x EXCEPT !.status = "Paid"]
           b == TRUE
           new == [y EXCEPT !.paid = b]
<1>1. y \in Row /\ y.status = "Paid"
  BY DEF Row, Statuses
<1>2. b \in BOOLEAN
  OBVIOUS
<1> HIDE DEF y, b
<1>3. new \in Row /\ new.status = "Paid" /\ new.paid = b
  BY <1>1, <1>2 DEF Row
<1> QED BY <1>3 DEF y, b

(* A request that begins or ends leaves everything else alone. *)
LEMMA BeginShapes ==
  ASSUME Shapes, NEW c \in Clerks, NEW job \in Job, Begin(c, job) PROVE Shapes'
BY DEF Shapes, Begin

(* A request that ends, or goes on with its run. *)
LEMMA ClerkShapes ==
  ASSUME Shapes, NEW c \in Clerks,
         Done(c) \/ (clerk[c].op # "create" /\ clerk[c].op # "idle"
                     /\ \E op \in {"announce", "post"} : Become(c, op))
  PROVE  clerk' \in [Clerks -> Job]
<1>1. CASE Done(c)
  BY <1>1, EmptyShapes DEF Done, Shapes
<1>2. ASSUME NEW op \in {"announce", "post"}, Become(c, op),
             clerk[c].op # "create", clerk[c].op # "idle"
      PROVE  clerk' \in [Clerks -> Job]
  <2>1. [clerk[c] EXCEPT !.op = op] \in Job
    BY <1>2 DEF Shapes, Job, JobRecord, Operations
  <2> QED BY <1>2, <2>1 DEF Become, Shapes
<1> QED BY <1>1, <1>2

(* What a request asks is a job. *)
LEMMA AskShapes == ASSUME Shapes, NEW c \in Clerks, Ask_(c) PROVE Shapes' /\ UNCHANGED <<run, saved, signed, announced>>
<1>1. \E job \in Job : Begin(c, job)
  <2>1. ASSUME NEW period \in Periods, AskCreate(c, period) PROVE \E job \in Job : Begin(c, job)
    <3>1. [Idle EXCEPT !.op = "create", !.period = period] \in Job
      BY EmptyShapes DEF Job, JobRecord, AnyPeriod, Operations
    <3> QED BY <2>1, <3>1 DEF AskCreate
  <2>2. ASSUME NEW op \in Operations, NEW r \in Runs, Ask(c, op, r) PROVE \E job \in Job : Begin(c, job)
    <3>1. [Idle EXCEPT !.op = op, !.run = r] \in Job
      BY EmptyShapes DEF Job, JobRecord
    <3> QED BY <2>2, <3>1 DEF Ask
  <2>3. ASSUME NEW op \in Operations, NEW r \in Runs, AskEdit(c, op, r) PROVE \E job \in Job : Begin(c, job)
    <3>1. run[r].items \in Items /\ saved[r] \in Nat
      BY DEF Shapes, Row
    <3>2. [Idle EXCEPT !.op = op, !.run = r, !.items = run[r].items, !.version = saved[r]] \in Job
      BY <3>1, EmptyShapes DEF Job, JobRecord
    <3> QED BY <2>3, <3>2 DEF AskEdit
  <2>4. ASSUME NEW r \in Runs, NEW t \in Treatments, AskRevise(c, r, t)
        PROVE  \E job \in Job : Begin(c, job)
    <3>1. run[r].period \in AnyPeriod
      BY DEF Shapes, Row
    <3>2. [Idle EXCEPT !.op = "revise", !.run = r, !.period = run[r].period, !.treatment = t] \in Job
      BY <3>1, EmptyShapes DEF Job, JobRecord, Operations
    <3> QED BY <2>4, <3>2 DEF AskRevise
  <2>5. {"submit", "approve", "reopen", "recalculate", "adjust", "delete", "pay"} \subseteq Operations
    BY DEF Operations
  <2> QED BY <2>1, <2>2, <2>3, <2>4, <2>5
          DEF Ask_, AskSubmit, AskApprove, AskReopen, AskRecalculate, AskAdjust, AskDelete, AskPay
<1> QED BY <1>1, BeginShapes DEF Begin

-----------------------------------------------------------------------------
(* What a write does to the rows, the histories and the request that makes it. *)

(* A write whose one UPDATE keeps the row of the same life: status, payment. *)
LEMMA UpdateSteps ==
  ASSUME Shapes, NEW r \in {NoRun} \cup Runs, NEW new, r \in Runs => new \in Row, Update(r, new),
         r \in Runs /\ Exists(r) =>
           /\ new.status \notin {"Absent", "Deleted"}
           /\ run[r].paid => new.paid
           /\ new.status = "Paid" => new.paid \/ (run[r].status = "Paid" /\ new.paid = run[r].paid)
  PROVE  run' \in [Runs -> Row] /\ \A s \in Runs : RowStep(s)
BY UpdateRow DEF RowStep

(* The run that a request is about. *)
LEMMA JobRun ==
  ASSUME Shapes, NEW c \in Clerks
  PROVE  /\ clerk[c].op \notin {"idle", "create"} => clerk[c].run \in Runs
         /\ clerk[c].run \in {NoRun} \cup Runs /\ clerk[c].period \in AnyPeriod
         /\ clerk[c].treatment \in Treatments /\ clerk[c].items \in Items /\ clerk[c].version \in Nat
BY DEF Shapes, Job, JobRecord

(* Submitting, approving, reopening and paying change the status of one run. *)
LEMMA StatusSteps ==
  ASSUME Shapes, NEW c \in Clerks, Submit(c) \/ Approve(c) \/ Reopen(c) \/ Pay(c)
  PROVE  run' \in [Runs -> Row] /\ \A s \in Runs : RowStep(s)
<1> DEFINE r == clerk[c].run
<1>1. r \in {NoRun} \cup Runs
  BY JobRun
<1>2. ASSUME NEW st \in Statuses \ {"Absent", "Deleted", "Paid"}, Update(r, [run[r] EXCEPT !.status = st])
      PROVE  run' \in [Runs -> Row] /\ \A s \in Runs : RowStep(s)
  <2> DEFINE new == [run[r] EXCEPT !.status = st]
  <2>1. r \in Runs => new \in Row /\ new.status = st /\ new.paid = run[r].paid
    BY DEF Shapes, Row
  <2>2. Update(r, new)
    BY <1>2
  <2> HIDE DEF new, r
  <2> QED BY <1>1, <2>1, <2>2, UpdateSteps
<1>3. CASE Pay(c)
  <2> DEFINE new == [run[r] EXCEPT !.status = "Paid", !.paid = TRUE]
  <2>1. r \in Runs => new \in Row /\ new.status = "Paid" /\ new.paid = TRUE
    <3>1. r \in Runs => run[r] \in Row
      BY DEF Shapes
    <3> HIDE DEF r
    <3> QED BY <3>1, PaidIsRow
  <2>2. Update(r, new)
    BY <1>3 DEF Pay
  <2> HIDE DEF new, r
  <2> QED BY <1>1, <2>1, <2>2, UpdateSteps
<1>4. {"For Owner Review", "Approved", "Draft"} \subseteq Statuses \ {"Absent", "Deleted", "Paid"}
  BY DEF Statuses
<1> QED BY <1>2, <1>3, <1>4 DEF Submit, Approve, Reopen

(* Recalculating, saving adjustments and superseding change no status. *)
LEMMA ContentSteps ==
  ASSUME Shapes, NEW c \in Clerks, Recalculate(c) \/ Adjust(c) \/ SupersedeOriginal(c)
  PROVE  run' \in [Runs -> Row] /\ saved' \in [Runs -> Nat] /\ \A s \in Runs : RowStep(s)
<1> DEFINE r == clerk[c].run
<1>1. r \in {NoRun} \cup Runs /\ clerk[c].items \in Items /\ clerk[c].version \in Nat
  BY JobRun
<1>2. ASSUME NEW items \in Items, Update(r, [run[r] EXCEPT !.items = items])
      PROVE  run' \in [Runs -> Row] /\ \A s \in Runs : RowStep(s)
  <2> DEFINE new == [run[r] EXCEPT !.items = items]
  <2>1. r \in Runs => new \in Row /\ new.status = run[r].status /\ new.paid = run[r].paid
    BY DEF Shapes, Row
  <2>2. Update(r, new)
    BY <1>2
  <2> HIDE DEF new, r
  <2> QED BY <1>1, <2>1, <2>2, UpdateRow DEF RowStep
<1>3. CASE Recalculate(c)
  <2>1. [calc |-> clerk[c].items.calc + 1, manual |-> clerk[c].version] \in Items
    BY <1>1 DEF Items
  <2>2. Update(r, [run[r] EXCEPT !.items = [calc |-> clerk[c].items.calc + 1,
                                            manual |-> clerk[c].version]]) /\ saved' = saved
    BY <1>3 DEF Recalculate
  <2> QED BY <1>2, <2>1, <2>2 DEF Shapes
<1>4. CASE Adjust(c)
  <2>1. CASE saved[r] = clerk[c].version
    <3>1. [clerk[c].items EXCEPT !.manual = clerk[c].version + 1] \in Items
      BY <1>1 DEF Items
    <3>2. /\ Update(r, [run[r] EXCEPT !.items = [clerk[c].items EXCEPT !.manual = clerk[c].version + 1]])
          /\ saved' = [saved EXCEPT ![r] = clerk[c].version + 1]
      BY <1>4, <2>1 DEF Adjust
    <3>3. saved' \in [Runs -> Nat]
      <4> DEFINE v == clerk[c].version + 1
      <4>1. v \in Nat
        BY <1>1
      <4>2. saved' = [saved EXCEPT ![r] = v]
        BY <3>2
      <4> HIDE DEF v, r
      <4> QED BY <4>1, <4>2 DEF Shapes
    <3> QED BY <1>2, <3>1, <3>2, <3>3
  <2>2. CASE saved[r] # clerk[c].version
    BY <1>4, <2>2 DEF Adjust, Shapes, RowStep
  <2> QED BY <2>1, <2>2
<1>5. CASE SupersedeOriginal(c)
  <2> DEFINE p == run[r].parent
             new == [run[p] EXCEPT !.successor = r]
  <2>1. Update(p, new) /\ saved' = saved /\ IsDifference(r)
    BY <1>5 DEF SupersedeOriginal
  <2>2. r \in Runs
    BY <1>5, JobRun DEF SupersedeOriginal, Doing
  <2>3. p \in {NoRun} \cup Runs
    BY <2>2 DEF Shapes, Row
  <2>4. p \in Runs => new \in Row /\ new.status = run[p].status /\ new.paid = run[p].paid
    BY <2>2 DEF Shapes, Row
  <2> HIDE DEF new, p
  <2> QED BY <2>1, <2>3, <2>4, UpdateRow DEF RowStep, Shapes
<1> QED BY <1>3, <1>4, <1>5

(* A deletion takes a row that is a draft, and frees what the draft superseded. *)
LEMMA DeleteSteps ==
  ASSUME Shapes, NEW c \in Clerks, Delete(c)
  PROVE  run' \in [Runs -> Row] /\ saved' \in [Runs -> Nat] /\ \A s \in Runs : RowStep(s)
<1> DEFINE r == clerk[c].run
<1>1. r \in Runs
  BY JobRun DEF Delete, Doing
<1>2. CASE ~StillDraft(r)
  BY <1>2 DEF Delete, Shapes, RowStep
<1>3. CASE StillDraft(r)
  <2>1. /\ run' = [s \in Runs |->
                 CASE s = r -> [run[s] EXCEPT !.status = "Deleted"]
                   [] s # r /\ run[s].successor = r -> [run[s] EXCEPT !.successor = NoRun]
                   [] OTHER -> run[s]]
        /\ saved' = [saved EXCEPT ![r] = 0]
    BY <1>3 DEF Delete
  <2>2. ASSUME NEW s \in Runs
        PROVE  /\ run'[s] \in Row
               /\ run'[s].status = IF s = r THEN "Deleted" ELSE run[s].status
               /\ run'[s].paid = run[s].paid
    <3>1. run[s] \in Row
      BY DEF Shapes
    <3>2. CASE s = r
      BY <2>1, <3>1, <3>2 DEF Row, Statuses
    <3>3. CASE s # r /\ run[s].successor = r
      BY <2>1, <3>1, <3>3 DEF Row
    <3>4. CASE s # r /\ run[s].successor # r
      BY <2>1, <3>1, <3>4
    <3> QED BY <3>2, <3>3, <3>4
  <2>3. run' \in [Runs -> Row]
    BY <2>1, <2>2
  <2>4. \A s \in Runs : RowStep(s)
    BY <1>3, <2>2 DEF RowStep, StillDraft
  <2> QED BY <2>1, <2>3, <2>4 DEF Shapes
<1> QED BY <1>2, <1>3

(* Creating and revising insert a draft; a revision may mark its original. *)
LEMMA InsertSteps ==
  ASSUME Shapes, NEW c \in Clerks, Create(c) \/ Revise(c)
  PROVE  run' \in [Runs -> Row] /\ saved' \in [Runs -> Nat] /\ \A s \in Runs : RowStep(s)
<1>1. CASE Create(c)
  <2>1. PICK n \in Runs : Fresh(n) /\ run' = Insert(run, n, clerk[c].period, NoRun, "none", 0)
    BY <1>1 DEF Create
  <2>2. saved' = saved
    BY <1>1 DEF Create
  <2>3. /\ run' \in [Runs -> Row] /\ run'[n].status = "Draft"
        /\ \A s \in Runs \ {n} : run'[s] = run[s]
    <3> DEFINE row == DraftOf(clerk[c].period, NoRun, "none", 0)
    <3>1. clerk[c].period \in AnyPeriod /\ NoRun \in {NoRun} \cup Runs /\ "none" \in Treatments
      BY JobRun DEF Treatments
    <3>2. row \in Row /\ row.status = "Draft"
      BY <3>1, DraftIsRow
    <3>3. run' = [run EXCEPT ![n] = row]
      BY <2>1 DEF Insert, DraftOf
    <3> HIDE DEF row
    <3> QED BY <3>2, <3>3 DEF Shapes
  <2>4. run[n].status = "Absent"
    BY <2>1 DEF Fresh
  <2> QED BY <2>2, <2>3, <2>4 DEF RowStep, Shapes
<1>2. CASE Revise(c)
  <2> DEFINE r == clerk[c].run
  <2>1. r \in Runs
    BY <1>2, JobRun DEF Revise, Doing
  <2>2. PICK n \in Runs :
          /\ Fresh(n)
          /\ LET rows == Insert(run, n, clerk[c].period, r, clerk[c].treatment, Carried(r)) IN
             run' = IF clerk[c].treatment = "replace_unpaid" /\ Exists(r)
                      THEN [rows EXCEPT ![r].successor = n] ELSE rows
          /\ saved' = [saved EXCEPT ![n] = Carried(r)]
    BY <1>2 DEF Revise
  <2> DEFINE rows == Insert(run, n, clerk[c].period, r, clerk[c].treatment, Carried(r))
  <2>3. Carried(r) \in Nat
    BY DEF Carried
  <2>4. /\ rows \in [Runs -> Row] /\ rows[n].status = "Draft"
        /\ \A s \in Runs \ {n} : rows[s] = run[s]
    <3> DEFINE row == DraftOf(clerk[c].period, r, clerk[c].treatment, Carried(r))
    <3>1. /\ clerk[c].period \in AnyPeriod /\ r \in {NoRun} \cup Runs
          /\ clerk[c].treatment \in Treatments
      BY JobRun
    <3>2. row \in Row /\ row.status = "Draft"
      BY <2>3, <3>1, DraftIsRow
    <3>3. rows = [run EXCEPT ![n] = row]
      BY DEF Insert, DraftOf
    <3> HIDE DEF row, rows
    <3> QED BY <3>2, <3>3 DEF Shapes
  <2>5. run' = rows \/ run' = [rows EXCEPT ![r].successor = n]
    BY <2>2
  <2> HIDE DEF rows
  <2>6. run' \in [Runs -> Row]
    <3>1. [rows[r] EXCEPT !.successor = n] \in Row
      BY <2>1, <2>4 DEF Row
    <3> QED BY <2>4, <2>5, <3>1
  <2>7. \A s \in Runs : run'[s].status = rows[s].status /\ run'[s].paid = rows[s].paid
    BY <2>4, <2>5 DEF Row
  <2>8. run[n].status = "Absent"
    BY <2>2 DEF Fresh
  <2>9. saved' \in [Runs -> Nat]
    BY <2>2, <2>3 DEF Shapes
  <2> QED BY <2>4, <2>6, <2>7, <2>8, <2>9 DEF RowStep
<1> QED BY <1>1, <1>2

-----------------------------------------------------------------------------
(* Every step keeps the shapes and does to each row what RowStep allows. *)
LEMMA StepShapes ==
  ASSUME Shapes, [Next]_vars PROVE Shapes' /\ \A s \in Runs : RowStep(s)
<1>1. CASE UNCHANGED vars
  BY <1>1 DEF vars, Shapes, RowStep
<1>2. ASSUME NEW c \in Clerks, Ask_(c) PROVE Shapes' /\ \A s \in Runs : RowStep(s)
  BY <1>2, AskShapes DEF RowStep
<1>3. ASSUME NEW c \in Clerks, Stop(c) PROVE Shapes' /\ \A s \in Runs : RowStep(s)
  BY <1>3, ClerkShapes DEF Stop, Shapes, RowStep
<1>4. ASSUME NEW c \in Clerks, Write(c) PROVE Shapes' /\ \A s \in Runs : RowStep(s)
  <2>1. clerk' \in [Clerks -> Job]
    BY <1>4, ClerkShapes
       DEF Write, Create, Submit, Approve, Announce, Reopen, Recalculate, Adjust, Delete, Revise,
           SupersedeOriginal, Pay, Doing
  <2>2. CASE Submit(c) \/ Reopen(c) \/ Pay(c)
    BY <2>1, <2>2, StatusSteps DEF Submit, Reopen, Pay, Shapes
  <2>3. CASE Approve(c)
    <3>1. run' \in [Runs -> Row] /\ \A s \in Runs : RowStep(s)
      BY <2>3, StatusSteps
    <3>2. clerk[c].run \in Runs
      BY <2>3, JobRun DEF Approve, Doing
    <3>3. run[clerk[c].run].items \in Items
      BY <3>2 DEF Shapes, Row
    <3>4. signed' \in [Runs -> Items]
      BY <2>3, <3>3 DEF Approve, Shapes
    <3> QED BY <2>1, <2>3, <3>1, <3>4 DEF Approve, Shapes
  <2>4. CASE Recalculate(c) \/ Adjust(c) \/ SupersedeOriginal(c)
    BY <2>1, <2>4, ContentSteps DEF Recalculate, Adjust, SupersedeOriginal, Shapes
  <2>5. CASE Delete(c)
    BY <2>1, <2>5, DeleteSteps DEF Delete, Shapes
  <2>6. CASE Create(c) \/ Revise(c)
    BY <2>1, <2>6, InsertSteps DEF Create, Revise, Shapes
  <2>7. CASE Announce(c)
    <3>1. clerk[c].run \in Runs
      BY <2>7, JobRun DEF Announce, Doing
    <3>2. run[clerk[c].run].status \in Statuses
      BY <3>1 DEF Shapes, Row
    <3>3. announced' \in [Runs -> SUBSET Statuses]
      BY <2>7, <3>2 DEF Announce, Shapes
    <3> QED BY <2>1, <2>7, <3>3 DEF Announce, Shapes, RowStep
  <2> QED BY <1>4, <2>2, <2>3, <2>4, <2>5, <2>6, <2>7 DEF Write
<1> QED BY <1>1, <1>2, <1>3, <1>4 DEF Next

(* The initial rows have the shapes. *)
LEMMA InitialShapes == Init => Shapes
BY EmptyShapes DEF Init, Shapes

(* The shapes are an invariant. *)
LEMMA ShapesInvariant == Spec => []Shapes
BY InitialShapes, StepShapes, PTL DEF Spec

(***************************************************************************)
(* A deletion never takes a run that was submitted or approved after it    *)
(* was asked for: the DELETE of delete_draft_run names the status again.   *)
(***************************************************************************)
THEOREM DraftsVanish == Spec => OnlyDraftsVanish
<1>1. Shapes /\ [Next]_vars => \A r \in Live : run'[r].status = "Deleted" => run[r].status = "Draft"
  BY StepShapes DEF RowStep, Live, Exists
<1> QED BY <1>1, ShapesInvariant, PTL DEF Spec, OnlyDraftsVanish

(* What an announced payment rests on: Paid rows carry their payment, absent rows have *)
(* been announced as nothing.                                                          *)
PaymentInv ==
  /\ Shapes
  /\ \A r \in Runs : run[r].status = "Paid" => run[r].paid
  /\ \A r \in Runs : run[r].status = "Absent" => announced[r] = {}
  /\ AnnouncedPaidIsPaid

(* Announcing adds the status that the row has. *)
LEMMA AnnouncedSteps ==
  ASSUME Shapes, [Next]_vars, NEW r \in Runs
  PROVE  \/ announced'[r] = announced[r]
         \/ run' = run /\ Exists(r) /\ announced'[r] = announced[r] \cup {run[r].status}
<1>1. ASSUME NEW c \in Clerks, Announce(c)
      PROVE  \/ announced'[r] = announced[r]
             \/ run' = run /\ Exists(r) /\ announced'[r] = announced[r] \cup {run[r].status}
  BY <1>1 DEF Announce, Shapes
<1>2. ASSUME NEW c \in Clerks, Ask_(c) PROVE announced' = announced
  BY <1>2, AskShapes
<1>3. ASSUME NEW c \in Clerks, Stop(c) PROVE announced' = announced
  BY <1>3 DEF Stop
<1>4. ASSUME NEW c \in Clerks, Write(c), ~Announce(c) PROVE announced' = announced
  BY <1>4 DEF Write, Create, Submit, Approve, Reopen, Recalculate, Adjust, Delete, Revise,
              SupersedeOriginal, Pay
<1>5. UNCHANGED vars => announced' = announced
  BY DEF vars
<1> QED BY <1>1, <1>2, <1>3, <1>4, <1>5 DEF Next

(***************************************************************************)
(* However requests overlap, a run that Accounting was told is paid stays  *)
(* paid: mark_payroll_run_paid writes status and paid_at together, and no  *)
(* other write clears paid_at, a reopening included.                       *)
(***************************************************************************)
THEOREM PaymentsStay == Spec => []AnnouncedPaidIsPaid
<1>1. Init => PaymentInv
  <2>1. Absent.status = "Absent"
    BY DEF Absent
  <2> QED BY <2>1, InitialShapes DEF Init, PaymentInv, AnnouncedPaidIsPaid, Live, Exists
<1>2. PaymentInv /\ [Next]_vars => PaymentInv'
  <2> SUFFICES ASSUME PaymentInv, [Next]_vars PROVE PaymentInv'
    OBVIOUS
  <2>1. Shapes' /\ \A s \in Runs : RowStep(s)
    BY StepShapes DEF PaymentInv
  <2>2. ASSUME NEW r \in Runs
        PROVE  /\ run'[r].status = "Paid" => run'[r].paid
               /\ run'[r].status = "Absent" => announced'[r] = {}
               /\ run'[r].status \notin {"Absent", "Deleted"} /\ "Paid" \in announced'[r] => run'[r].paid
    <3>1. RowStep(r)
      BY <2>1
    <3>2. \/ announced'[r] = announced[r]
          \/ run' = run /\ Exists(r) /\ announced'[r] = announced[r] \cup {run[r].status}
      BY AnnouncedSteps DEF PaymentInv
    <3>3. /\ run[r].status = "Paid" => run[r].paid
          /\ run[r].status = "Absent" => announced[r] = {}
          /\ Exists(r) /\ "Paid" \in announced[r] => run[r].paid
      BY DEF PaymentInv, AnnouncedPaidIsPaid, Live
    <3> QED BY <3>1, <3>2, <3>3 DEF RowStep, Exists
  <2> QED BY <2>1, <2>2 DEF PaymentInv, AnnouncedPaidIsPaid, Live, Exists
<1>3. PaymentInv => AnnouncedPaidIsPaid
  BY DEF PaymentInv
<1> QED BY <1>1, <1>2, <1>3, PTL DEF Spec

-----------------------------------------------------------------------------
(* Requests that follow each other: what a request has read is still so when it writes. *)
OneAtATime == \A c, d \in Clerks : c = d

JobOK(c) ==
  LET r == clerk[c].run IN
  /\ clerk[c].op \in {"recalculate", "adjust"} =>
       /\ run[r].status = "Draft"
       /\ clerk[c].items = run[r].items /\ clerk[c].version = saved[r]
  /\ clerk[c].op = "submit" => run[r].status = "Draft"
  /\ clerk[c].op = "approve" => run[r].status = "For Owner Review"
  /\ clerk[c].op \in {"pay", "post"} => run[r].status = "Approved"

(* An approved or paid run has the items that were signed, a row includes the saved   *)
(* adjustments, and nothing is saved for a run before it is there.                    *)
RowOK(s) ==
  /\ run[s].status \in {"Approved", "Paid"} => run[s].items = signed[s]
  /\ Exists(s) => run[s].items.manual = saved[s]
  /\ run[s].status = "Absent" => saved[s] = 0

SequentialInv ==
  /\ Shapes
  /\ \A s \in Runs : RowOK(s)
  /\ \A c \in Clerks : JobOK(c)

(* What a row and its histories keep when a step is about something else. *)
Kept(s) ==
  /\ run'[s].status = run[s].status /\ run'[s].items = run[s].items
  /\ saved'[s] = saved[s] /\ signed'[s] = signed[s]

LEMMA KeptIsOK == ASSUME NEW s \in Runs, RowOK(s), Kept(s) PROVE RowOK(s)'
BY DEF RowOK, Kept, Exists

(* Submitting and reopening end in a status that promises nothing; approving signs what *)
(* is there, and paying keeps what was signed.                                          *)
LEMMA StatusRows ==
  ASSUME SequentialInv, NEW c \in Clerks, Submit(c) \/ Approve(c) \/ Reopen(c) \/ Pay(c),
         NEW s \in Runs
  PROVE  RowOK(s)'
<1> DEFINE r == clerk[c].run
<1>1. r \in Runs
  BY JobRun DEF SequentialInv, Submit, Approve, Reopen, Pay, Doing
<1>2. run[r] \in Row /\ run \in [Runs -> Row] /\ signed \in [Runs -> Items] /\ RowOK(s) /\ RowOK(r)
  BY <1>1 DEF SequentialInv, Shapes
<1>3. saved' = saved
  BY DEF Submit, Approve, Reopen, Pay
<1>4. CASE s # r \/ ~Exists(r)
  <2>1. run'[s] = run[s] /\ signed'[s] = signed[s]
    BY <1>1, <1>2, <1>4 DEF Submit, Approve, Reopen, Pay, Update
  <2> QED BY <1>2, <1>3, <2>1, KeptIsOK DEF Kept
<1>5. CASE s = r /\ Exists(r)
  <2>1. CASE Submit(c) \/ Reopen(c)
    <3>1. \E st \in {"Draft", "For Owner Review"} : run' = [run EXCEPT ![r] = [run[r] EXCEPT !.status = st]]
      BY <1>5, <2>1 DEF Submit, Reopen, Update
    <3>2. run'[r].status \in {"Draft", "For Owner Review"} /\ run'[r].items = run[r].items
      <4>1. PICK st \in {"Draft", "For Owner Review"} :
              run' = [run EXCEPT ![r] = [run[r] EXCEPT !.status = st]]
        BY <3>1
      <4> DEFINE x == [run[r] EXCEPT !.status = st]
      <4>2. x.status = st /\ x.items = run[r].items
        BY <1>2 DEF Row
      <4>3. run'[r] = x
        BY <1>1, <1>2, <4>1
      <4> HIDE DEF r, x
      <4> QED BY <4>1, <4>2, <4>3
    <3> QED BY <1>2, <1>3, <1>5, <3>2 DEF RowOK, Exists
  <2>2. CASE Approve(c)
    <3>1. /\ run'[r].status = "Approved" /\ run'[r].items = run[r].items
      BY <1>1, <1>2, <1>5, <2>2 DEF Approve, Update, Row
    <3>2. signed'[r] = run[r].items
      BY <1>1, <1>2, <1>5, <2>2 DEF Approve
    <3> QED BY <1>2, <1>3, <1>5, <3>1, <3>2 DEF RowOK, Exists
  <2>3. CASE Pay(c)
    <3>1. run[r].status = "Approved"
      BY <2>3 DEF Pay, Doing, SequentialInv, JobOK
    <3>2. run' = [run EXCEPT ![r] = [run[r] EXCEPT !.status = "Paid", !.paid = TRUE]] /\ signed' = signed
      BY <1>5, <2>3 DEF Pay, Update
    <3>3. run'[r].status = "Paid" /\ run'[r].items = run[r].items
      <4> DEFINE b == TRUE
                 y == [run[r] EXCEPT !.status = "Paid"]
      <4>1. run'[r] = [y EXCEPT !.paid = b]
        <5> DEFINE new == [run[r] EXCEPT !.status = "Paid", !.paid = TRUE]
        <5>1. run' = [run EXCEPT ![r] = new]
          BY <3>2
        <5>2. new = [y EXCEPT !.paid = b]
          OBVIOUS
        <5> HIDE DEF new, y, b, r
        <5> QED BY <1>1, <1>2, <5>1, <5>2
      <4>2. y \in Row /\ y.status = "Paid" /\ y.items = run[r].items
        BY <1>2 DEF Row, Statuses
      <4> HIDE DEF b, y, r
      <4> QED BY <4>1, <4>2 DEF Row
    <3> QED BY <1>2, <1>3, <1>5, <3>1, <3>2, <3>3 DEF RowOK, Exists
  <2> QED BY <2>1, <2>2, <2>3
<1> QED BY <1>4, <1>5

(* A recalculation and a save write what they read, which is still there. *)
LEMMA ContentRows ==
  ASSUME SequentialInv, NEW c \in Clerks, Recalculate(c) \/ Adjust(c) \/ SupersedeOriginal(c),
         NEW s \in Runs
  PROVE  RowOK(s)'
<1> DEFINE r == clerk[c].run
<1>1. r \in Runs
  BY JobRun DEF SequentialInv, Recalculate, Adjust, SupersedeOriginal, Doing
<1>2. /\ run[r] \in Row /\ run \in [Runs -> Row] /\ saved \in [Runs -> Nat]
      /\ RowOK(s) /\ RowOK(r) /\ clerk[c].items \in Items /\ clerk[c].version \in Nat
  BY <1>1, JobRun DEF SequentialInv, Shapes
<1>3. signed' = signed
  BY DEF Recalculate, Adjust, SupersedeOriginal
<1>4. ASSUME NEW items \in Items, run' = [run EXCEPT ![r] = [run[r] EXCEPT !.items = items]],
             saved' = [saved EXCEPT ![r] = items.manual], run[r].status = "Draft"
      PROVE  RowOK(s)'
  <2>1. CASE s = r
    <3>1. run'[r].status = "Draft" /\ run'[r].items = items /\ saved'[r] = items.manual
      BY <1>1, <1>2, <1>4 DEF Row
    <3> QED BY <2>1, <3>1 DEF RowOK, Exists
  <2>2. CASE s # r
    BY <1>2, <1>3, <1>4, <2>2, KeptIsOK DEF Kept
  <2> QED BY <2>1, <2>2
<1>5. CASE Recalculate(c) \/ Adjust(c)
  <2>1. run[r].status = "Draft" /\ clerk[c].version = saved[r] /\ clerk[c].items = run[r].items
    BY <1>5 DEF Recalculate, Adjust, Doing, SequentialInv, JobOK
  <2>2. Exists(r)
    BY <2>1 DEF Exists
  <2>3. CASE Recalculate(c)
    <3> DEFINE items == [calc |-> clerk[c].items.calc + 1, manual |-> clerk[c].version]
    <3>1. items \in Items /\ items.manual = saved[r]
      BY <1>2, <2>1 DEF Items
    <3>2. run' = [run EXCEPT ![r] = [run[r] EXCEPT !.items = items]] /\ saved' = saved
      BY <2>2, <2>3 DEF Recalculate, Update
    <3>3. saved' = [saved EXCEPT ![r] = items.manual]
      BY <1>1, <1>2, <3>1, <3>2
    <3> HIDE DEF items, r
    <3> QED BY <1>4, <2>1, <3>1, <3>2, <3>3
  <2>4. CASE Adjust(c)
    <3> DEFINE version == clerk[c].version + 1
               items == [clerk[c].items EXCEPT !.manual = version]
    <3>1. version \in Nat
      BY <1>2
    <3>2. /\ run' = [run EXCEPT ![r] = [run[r] EXCEPT !.items = items]]
          /\ saved' = [saved EXCEPT ![r] = version]
      BY <2>1, <2>2, <2>4 DEF Adjust, Update
    <3> HIDE DEF version
    <3>3. items \in Items /\ items.manual = version
      BY <1>2, <3>1 DEF Items
    <3> HIDE DEF items, r
    <3> QED BY <1>4, <2>1, <3>2, <3>3
  <2> QED BY <1>5, <2>3, <2>4
<1>6. CASE SupersedeOriginal(c)
  <2> DEFINE p == run[r].parent
             new == [run[p] EXCEPT !.successor = r]
  <2>1. Update(p, new) /\ saved' = saved
    BY <1>6 DEF SupersedeOriginal
  <2>2. p \in {NoRun} \cup Runs
    BY <1>2 DEF Row
  <2>3. p \in Runs => new \in Row /\ new.status = run[p].status /\ new.items = run[p].items
    BY <1>1, <1>2 DEF Row
  <2> HIDE DEF new, p
  <2>4. run'[s].status = run[s].status /\ run'[s].items = run[s].items
    BY <2>1, <2>2, <2>3, UpdateRow DEF SequentialInv
  <2> QED BY <1>2, <1>3, <2>1, <2>4, KeptIsOK DEF Kept
<1> QED BY <1>5, <1>6

(* A deleted row promises nothing, and takes its saved adjustments along. *)
LEMMA DeleteRows ==
  ASSUME SequentialInv, NEW c \in Clerks, Delete(c), NEW s \in Runs
  PROVE  RowOK(s)'
<1> DEFINE r == clerk[c].run
<1>1. r \in Runs /\ run[s] \in Row /\ saved \in [Runs -> Nat] /\ RowOK(s) /\ signed' = signed
  BY JobRun DEF SequentialInv, Shapes, Delete, Doing
<1>2. CASE ~StillDraft(r)
  BY <1>1, <1>2, KeptIsOK DEF Delete, Kept
<1>3. CASE StillDraft(r)
  <2>1. /\ run' = [t \in Runs |->
                 CASE t = r -> [run[t] EXCEPT !.status = "Deleted"]
                   [] t # r /\ run[t].successor = r -> [run[t] EXCEPT !.successor = NoRun]
                   [] OTHER -> run[t]]
        /\ saved' = [saved EXCEPT ![r] = 0]
    BY <1>3 DEF Delete
  <2>2. CASE s = r
    <3>1. run'[s].status = "Deleted"
      BY <1>1, <2>1, <2>2 DEF Row
    <3> QED BY <3>1 DEF RowOK, Exists
  <2>3. CASE s # r
    <3>1. run'[s].status = run[s].status /\ run'[s].items = run[s].items
      <4>1. CASE run[s].successor = r
        BY <1>1, <2>1, <2>3, <4>1 DEF Row
      <4>2. CASE run[s].successor # r
        BY <1>1, <2>1, <2>3, <4>2
      <4> QED BY <4>1, <4>2
    <3>2. saved'[s] = saved[s]
      BY <1>1, <2>1, <2>3
    <3> QED BY <1>1, <3>1, <3>2, KeptIsOK DEF Kept
  <2> QED BY <2>2, <2>3
<1> QED BY <1>2, <1>3

(* A new draft starts with the adjustments that are saved for it. *)
LEMMA InsertRows ==
  ASSUME SequentialInv, NEW c \in Clerks, Create(c) \/ Revise(c), NEW s \in Runs
  PROVE  RowOK(s)'
<1> DEFINE r == clerk[c].run
<1>1. /\ run \in [Runs -> Row] /\ saved \in [Runs -> Nat] /\ RowOK(s) /\ signed' = signed
  BY DEF SequentialInv, Shapes, Create, Revise
<1>2. clerk[c].period \in AnyPeriod /\ clerk[c].treatment \in Treatments /\ r \in {NoRun} \cup Runs
  BY JobRun DEF SequentialInv
<1>3. ASSUME NEW n \in Runs, NEW m \in Nat, NEW rows, NEW p \in AnyPeriod,
             NEW parent \in {NoRun} \cup Runs, NEW t \in Treatments,
             rows = Insert(run, n, p, parent, t, m),
             run'[s].status = rows[s].status, run'[s].items = rows[s].items,
             saved'[n] = m, s # n => saved'[s] = saved[s]
      PROVE  RowOK(s)'
  <2>1. rows = [run EXCEPT ![n] = DraftOf(p, parent, t, m)]
    BY <1>3 DEF Insert, DraftOf
  <2>2. CASE s # n
    BY <1>1, <1>3, <2>1, <2>2, KeptIsOK DEF Kept
  <2>3. CASE s = n
    <3>1. DraftOf(p, parent, t, m).status = "Draft"
      BY <1>3, DraftIsRow
    <3>2. DraftOf(p, parent, t, m).items.manual = m
      BY <1>3, DraftCarries
    <3>3. run'[s].status = "Draft" /\ run'[s].items.manual = m
      BY <1>1, <1>3, <2>1, <2>3, <3>1, <3>2
    <3> QED BY <1>3, <2>3, <3>3 DEF RowOK, Exists
  <2> QED BY <2>2, <2>3
<1>4. CASE Create(c)
  <2>1. PICK n \in Runs : Fresh(n) /\ run' = Insert(run, n, clerk[c].period, NoRun, "none", 0)
    BY <1>4 DEF Create
  <2>2. saved' = saved /\ saved[n] = 0
    BY <1>4, <2>1 DEF Create, Fresh, SequentialInv, RowOK
  <2>3. NoRun \in {NoRun} \cup Runs /\ "none" \in Treatments /\ 0 \in Nat
    BY DEF Treatments
  <2> QED BY <1>2, <1>3, <2>1, <2>2, <2>3
<1>5. CASE Revise(c)
  <2>1. r \in Runs
    BY <1>5, JobRun DEF Revise, Doing, SequentialInv
  <2>2. PICK n \in Runs :
          /\ Fresh(n)
          /\ LET rows == Insert(run, n, clerk[c].period, r, clerk[c].treatment, Carried(r)) IN
             run' = IF clerk[c].treatment = "replace_unpaid" /\ Exists(r)
                      THEN [rows EXCEPT ![r].successor = n] ELSE rows
          /\ saved' = [saved EXCEPT ![n] = Carried(r)]
    BY <1>5 DEF Revise
  <2> DEFINE m == Carried(r)
             rows == Insert(run, n, clerk[c].period, r, clerk[c].treatment, m)
             row == DraftOf(clerk[c].period, r, clerk[c].treatment, m)
  <2>3. m \in Nat
    BY DEF Carried
  <2>4. rows = [run EXCEPT ![n] = row]
    BY DEF Insert, DraftOf
  <2>5. row \in Row
    BY <1>2, <2>3, DraftIsRow
  <2>6. run' = rows \/ run' = [rows EXCEPT ![r].successor = n]
    BY <2>2
  <2>7. run'[s].status = rows[s].status /\ run'[s].items = rows[s].items
    <3>1. rows \in [Runs -> Row]
      <4> HIDE DEF row, rows
      <4> QED BY <1>1, <2>4, <2>5
    <3> HIDE DEF rows, r
    <3> QED BY <2>1, <2>6, <3>1 DEF Row
  <2>8. saved'[n] = m /\ (s # n => saved'[s] = saved[s])
    BY <1>1, <2>2
  <2> HIDE DEF m, r
  <2> QED BY <1>2, <1>3, <2>3, <2>7, <2>8
<1> QED BY <1>4, <1>5

(* With one request at a time, what the request in progress is about is settled. *)
LEMMA SettledJobs ==
  ASSUME OneAtATime, NEW c \in Clerks, JobOK(c)' PROVE \A d \in Clerks : JobOK(d)'
BY DEF OneAtATime

(* A request that asks has checked what it will rely on. *)
LEMMA AskJobs ==
  ASSUME SequentialInv, NEW c \in Clerks, Ask_(c) PROVE JobOK(c)'
<1>1. UNCHANGED <<run, saved>> /\ clerk \in [Clerks -> Job]
  BY AskShapes DEF SequentialInv, Shapes
<1>2. ASSUME NEW j, Begin(c, j) PROVE clerk'[c] = j
  BY <1>1, <1>2 DEF Begin
<1>3. ASSUME NEW op, NEW r, Ask(c, op, r), op \notin {"recalculate", "adjust"},
             op = "submit" => run[r].status = "Draft",
             op = "approve" => run[r].status = "For Owner Review",
             op \in {"pay", "post"} => run[r].status = "Approved"
      PROVE  JobOK(c)'
  <2> DEFINE j == [Idle EXCEPT !.op = op, !.run = r]
  <2>1. clerk'[c] = j
    BY <1>2, <1>3 DEF Ask
  <2>2. j.op = op /\ j.run = r
    BY DEF Idle
  <2> HIDE DEF j
  <2> QED BY <1>1, <1>3, <2>1, <2>2 DEF JobOK
<1>4. ASSUME NEW op \in {"recalculate", "adjust"}, NEW r, AskEdit(c, op, r), run[r].status = "Draft"
      PROVE  JobOK(c)'
  <2> DEFINE j == [Idle EXCEPT !.op = op, !.run = r, !.items = run[r].items, !.version = saved[r]]
  <2>1. clerk'[c] = j
    BY <1>2, <1>4 DEF AskEdit
  <2>2. j.op = op /\ j.run = r /\ j.items = run[r].items /\ j.version = saved[r]
    BY DEF Idle
  <2> HIDE DEF j
  <2> QED BY <1>1, <1>4, <2>1, <2>2 DEF JobOK
<1>5. ASSUME NEW period \in Periods, AskCreate(c, period) PROVE JobOK(c)'
  <2> DEFINE j == [Idle EXCEPT !.op = "create", !.period = period]
  <2>1. clerk'[c] = j
    BY <1>2, <1>5 DEF AskCreate
  <2>2. j.op = "create"
    BY DEF Idle
  <2> HIDE DEF j
  <2> QED BY <2>1, <2>2 DEF JobOK
<1>6. ASSUME NEW r \in Runs, NEW t \in Treatments, AskRevise(c, r, t) PROVE JobOK(c)'
  <2> DEFINE j == [Idle EXCEPT !.op = "revise", !.run = r, !.period = run[r].period, !.treatment = t]
  <2>1. clerk'[c] = j
    BY <1>2, <1>6 DEF AskRevise
  <2>2. j.op = "revise"
    BY DEF Idle
  <2> HIDE DEF j
  <2> QED BY <2>1, <2>2 DEF JobOK
<1>7. ASSUME NEW r \in Runs,
             AskSubmit(c, r) \/ AskApprove(c, r) \/ AskReopen(c, r) \/ AskDelete(c, r) \/ AskPay(c, r)
      PROVE  JobOK(c)'
  <2>1. CASE AskSubmit(c, r)
    BY <1>3, <2>1 DEF AskSubmit
  <2>2. CASE AskApprove(c, r)
    BY <1>3, <2>2 DEF AskApprove
  <2>3. CASE AskReopen(c, r)
    BY <1>3, <2>3 DEF AskReopen
  <2>4. CASE AskDelete(c, r)
    BY <1>3, <2>4 DEF AskDelete
  <2>5. CASE AskPay(c, r)
    BY <1>3, <2>5 DEF AskPay, Payable
  <2> QED BY <1>7, <2>1, <2>2, <2>3, <2>4, <2>5
<1>8. ASSUME NEW r \in Runs, AskRecalculate(c, r) \/ AskAdjust(c, r) PROVE JobOK(c)'
  BY <1>4, <1>8 DEF AskRecalculate, AskAdjust
<1> QED BY <1>5, <1>6, <1>7, <1>8 DEF Ask_

(* A request that is done relies on nothing more, one that announces relies on no row, *)
(* and superseding the original leaves the approval of the adjustment that is paid.    *)
LEMMA DoneJobs ==
  ASSUME SequentialInv, NEW c \in Clerks, Write(c) \/ Stop(c) PROVE JobOK(c)'
<1>1. clerk \in [Clerks -> Job]
  BY DEF SequentialInv, Shapes
<1>2. CASE Done(c)
  <2>1. clerk'[c] = Idle
    BY <1>1, <1>2 DEF Done
  <2>2. Idle.op = "idle"
    BY DEF Idle
  <2> QED BY <2>1, <2>2 DEF JobOK
<1>3. ASSUME NEW op, Become(c, op) PROVE clerk'[c].op = op /\ clerk'[c].run = clerk[c].run
  BY <1>1, <1>3 DEF Become, Job, JobRecord
<1>4. CASE Become(c, "announce")
  <2>1. clerk'[c].op = "announce"
    BY <1>3, <1>4
  <2> QED BY <2>1 DEF JobOK
<1>5. CASE SupersedeOriginal(c)
  <2> DEFINE r == clerk[c].run
             p == run[r].parent
             new == [run[p] EXCEPT !.successor = r]
  <2>1. clerk'[c].op = "post" /\ clerk'[c].run = r
    BY <1>3, <1>5 DEF SupersedeOriginal
  <2>2. r \in Runs /\ run[r].status = "Approved"
    BY <1>5, JobRun DEF SequentialInv, JobOK, SupersedeOriginal, Doing
  <2>3. Update(p, new)
    BY <1>5 DEF SupersedeOriginal
  <2>4. run \in [Runs -> Row] /\ p \in {NoRun} \cup Runs
    BY <2>2 DEF SequentialInv, Shapes, Row
  <2>5. p \in Runs => new \in Row /\ new.status = run[p].status
    BY <2>2, <2>4, SMTT(30) DEF Row
  <2> HIDE DEF new, p
  <2>6. run'[r].status = run[r].status
    BY <2>2, <2>3, <2>4, <2>5, UpdateRow DEF SequentialInv
  <2> HIDE DEF r
  <2> QED BY <2>1, <2>2, <2>6 DEF JobOK
<1> QED
  BY <1>2, <1>4, <1>5
     DEF Write, Stop, Create, Submit, Approve, Announce, Reopen, Recalculate, Adjust, Delete,
         Revise, Pay

(* With one request at a time, rows and requests stay as they should be. *)
LEMMA SequentialSteps ==
  ASSUME OneAtATime, SequentialInv, [Next]_vars PROVE SequentialInv'
<1>1. Shapes'
  BY StepShapes DEF SequentialInv
<1>2. CASE UNCHANGED vars
  BY <1>1, <1>2 DEF vars, SequentialInv, RowOK, JobOK, Exists
<1>3. ASSUME NEW c \in Clerks, Ask_(c) PROVE SequentialInv'
  <2>1. \A s \in Runs : RowOK(s)'
    BY <1>3, AskShapes, KeptIsOK DEF SequentialInv, Kept
  <2>2. \A d \in Clerks : JobOK(d)'
    BY <1>3, AskJobs, SettledJobs
  <2> QED BY <1>1, <2>1, <2>2 DEF SequentialInv
<1>4. ASSUME NEW c \in Clerks, Stop(c) PROVE SequentialInv'
  <2>1. \A s \in Runs : RowOK(s)'
    BY <1>4, KeptIsOK DEF SequentialInv, Stop, Kept
  <2>2. \A d \in Clerks : JobOK(d)'
    BY <1>4, DoneJobs, SettledJobs
  <2> QED BY <1>1, <2>1, <2>2 DEF SequentialInv
<1>5. ASSUME NEW c \in Clerks, Write(c) PROVE SequentialInv'
  <2>1. \A s \in Runs : RowOK(s)'
    <3> SUFFICES ASSUME NEW s \in Runs PROVE RowOK(s)'
      OBVIOUS
    <3>1. CASE Announce(c)
      BY <3>1, KeptIsOK DEF SequentialInv, Announce, Kept
    <3>2. CASE Submit(c) \/ Approve(c) \/ Reopen(c) \/ Pay(c)
      BY <3>2, StatusRows
    <3>3. CASE Recalculate(c) \/ Adjust(c) \/ SupersedeOriginal(c)
      BY <3>3, ContentRows
    <3>4. CASE Delete(c)
      BY <3>4, DeleteRows
    <3>5. CASE Create(c) \/ Revise(c)
      BY <3>5, InsertRows
    <3> QED BY <1>5, <3>1, <3>2, <3>3, <3>4, <3>5 DEF Write
  <2>2. \A d \in Clerks : JobOK(d)'
    BY <1>5, DoneJobs, SettledJobs
  <2> QED BY <1>1, <2>1, <2>2 DEF SequentialInv
<1> QED BY <1>2, <1>3, <1>4, <1>5 DEF Next

LEMMA SequentialStart == Init => SequentialInv
<1>1. Absent.status = "Absent" /\ Idle.op = "idle"
  BY DEF Absent, Idle
<1> QED BY <1>1, InitialShapes DEF Init, SequentialInv, RowOK, JobOK, Exists

LEMMA SequentialInvariant == ASSUME OneAtATime PROVE Spec => []SequentialInv
BY OneAtATime, SequentialStart, SequentialSteps, PTL DEF Spec

(***************************************************************************)
(* Where requests do not overlap, what the owner approved is what is paid: *)
(* an edit only starts from a draft, so no UPDATE of the items meets a run *)
(* that is approved.                                                       *)
(***************************************************************************)
THEOREM SignaturesHold == ASSUME OneAtATime PROVE Spec => []SignedIsKept
<1>1. SequentialInv => SignedIsKept
  BY DEF SequentialInv, RowOK, SignedIsKept
<1> QED BY <1>1, SequentialInvariant, PTL

(***************************************************************************)
(* Where requests do not overlap, the items of a run include the           *)
(* adjustments saved for it, through recalculation, revision and deletion. *)
(***************************************************************************)
THEOREM AdjustmentsStay == ASSUME OneAtATime PROVE Spec => []ManualIsKept
<1>1. SequentialInv => ManualIsKept
  BY DEF SequentialInv, RowOK, ManualIsKept, Live
<1> QED BY <1>1, SequentialInvariant, PTL

-----------------------------------------------------------------------------
(* Revisions: what a run, the run it revises and the run that supersedes it know of     *)
(* each other.  A live run has at most one live revision; a replacement supersedes its  *)
(* original, which is unpaid; an adjustment corrects a paid run, and supersedes it      *)
(* before it is paid.                                                                   *)
FamilyOK(s) ==
  LET p == run[s].parent IN
  Exists(s) =>
    /\ p # s /\ (IsDifference(s) => p # NoRun)
    /\ p \in Runs => run[p].status # "Absent"
    /\ ~Current(s) => run[s].successor \in Live /\ run[run[s].successor].parent = s
    /\ p \in Live =>
         /\ \A t \in Live : run[t].parent = p => t = s
         /\ run[s].treatment = "replace_unpaid" => ~run[p].paid /\ run[p].successor = s
         /\ IsDifference(s) => run[p].paid /\ (run[s].paid => run[p].successor = s)

(* A revision in progress still is the first of its run, and has its treatment right; a *)
(* payment in progress is of a current run, and one that goes on has its original       *)
(* superseded.                                                                          *)
FamilyJobOK(c) ==
  LET r == clerk[c].run IN
  /\ clerk[c].op = "revise" =>
       /\ Exists(r) /\ Unrevised(r)
       /\ clerk[c].treatment = IF run[r].paid THEN "adjust_paid" ELSE "replace_unpaid"
  /\ clerk[c].op \in {"pay", "post"} => Exists(r) /\ Current(r)
  /\ clerk[c].op = "pay" /\ IsDifference(r) => run[r].parent \in Live
  /\ clerk[c].op = "post" =>
       IsDifference(r) /\ run[r].parent \in Live /\ run[run[r].parent].successor = r

FamilyInv ==
  /\ SequentialInv
  /\ \A s \in Runs : run[s].status = "Paid" => run[s].paid
  /\ \A s \in Runs : FamilyOK(s)
  /\ \A c \in Clerks : FamilyJobOK(c)

(* No run has the number that stands for none. *)
LEMMA NoRunIsNone == NoRun \notin Runs
BY DEF NoRun, Runs

(* A row that keeps its place among the revisions, and its payment. *)
SameFamily(s) ==
  /\ run'[s].parent = run[s].parent /\ run'[s].treatment = run[s].treatment
  /\ run'[s].successor = run[s].successor /\ run'[s].paid = run[s].paid
  /\ run'[s].status = "Absent" <=> run[s].status = "Absent"
  /\ run'[s].status = "Deleted" <=> run[s].status = "Deleted"

LEMMA FamilyKept ==
  ASSUME \A s \in Runs : FamilyOK(s), \A s \in Runs : SameFamily(s), Shapes
  PROVE  \A s \in Runs : FamilyOK(s)'
<1> SUFFICES ASSUME NEW s \in Runs PROVE FamilyOK(s)'
  OBVIOUS
<1>1. \A t \in Runs : t \in Live <=> (t \in Live)'
  BY DEF Live, Exists, SameFamily
<1>2. FamilyOK(s) /\ SameFamily(s) /\ run[s] \in Row
  BY DEF Shapes
<1>3. run[s].successor \in {NoRun} \cup Runs
  BY <1>2 DEF Row
<1>4. \A t \in Live : run'[t].parent = run[t].parent
  BY DEF Live, SameFamily
<1>5. Live \subseteq Runs
  BY DEF Live
<1> QED BY <1>1, <1>2, <1>3, <1>4, <1>5 DEF FamilyOK, Exists, Current, IsDifference, SameFamily, Live

(* An UPDATE that keeps parent, treatment, successor and payment. *)
LEMMA UpdateKeepsFamily ==
  ASSUME Shapes, NEW r \in {NoRun} \cup Runs, NEW new, Update(r, new),
         r \in Runs => /\ new \in Row /\ new.parent = run[r].parent /\ new.treatment = run[r].treatment
                       /\ new.successor = run[r].successor /\ new.paid = run[r].paid
                       /\ new.status \notin {"Absent", "Deleted"} \/ new.status = run[r].status
  PROVE  \A s \in Runs : SameFamily(s)
BY UpdateRow DEF SameFamily, Exists

(* Submitting, approving, reopening, recalculating and adjusting leave families alone. *)
LEMMA EditsKeepFamily ==
  ASSUME Shapes, NEW c \in Clerks,
         Submit(c) \/ Approve(c) \/ Reopen(c) \/ Recalculate(c) \/ Adjust(c)
  PROVE  \A s \in Runs : SameFamily(s)
<1> DEFINE r == clerk[c].run
<1>1. r \in {NoRun} \cup Runs /\ clerk[c].items \in Items /\ clerk[c].version \in Nat
  BY JobRun
<1>2. ASSUME NEW st \in {"Draft", "For Owner Review", "Approved"},
             Update(r, [run[r] EXCEPT !.status = st])
      PROVE  \A s \in Runs : SameFamily(s)
  <2> DEFINE new == [run[r] EXCEPT !.status = st]
  <2>1. r \in Runs => /\ new \in Row /\ new.parent = run[r].parent /\ new.treatment = run[r].treatment
                      /\ new.successor = run[r].successor /\ new.paid = run[r].paid
                      /\ new.status = st
    <3>1. st \in Statuses
      BY DEF Statuses
    <3>2. r \in Runs => run[r] \in Row
      BY DEF Shapes
    <3> HIDE DEF r
    <3> QED BY <3>1, <3>2 DEF Row
  <2>2. Update(r, new)
    BY <1>2
  <2> HIDE DEF new, r
  <2> QED BY <1>1, <2>1, <2>2, UpdateKeepsFamily
<1>3. ASSUME NEW items \in Items, Update(r, [run[r] EXCEPT !.items = items])
      PROVE  \A s \in Runs : SameFamily(s)
  <2> DEFINE new == [run[r] EXCEPT !.items = items]
  <2>1. r \in Runs => /\ new \in Row /\ new.parent = run[r].parent /\ new.treatment = run[r].treatment
                      /\ new.successor = run[r].successor /\ new.paid = run[r].paid
                      /\ new.status = run[r].status
    BY DEF Shapes, Row
  <2>2. Update(r, new)
    BY <1>3
  <2> HIDE DEF new, r
  <2> QED BY <1>1, <2>1, <2>2, UpdateKeepsFamily
<1>4. CASE Submit(c) \/ Approve(c) \/ Reopen(c)
  BY <1>2, <1>4 DEF Submit, Approve, Reopen
<1>5. CASE Recalculate(c)
  <2>1. [calc |-> clerk[c].items.calc + 1, manual |-> clerk[c].version] \in Items
    BY <1>1 DEF Items
  <2> QED BY <1>3, <1>5, <2>1 DEF Recalculate
<1>6. CASE Adjust(c)
  <2>1. CASE saved[r] = clerk[c].version
    <3>1. [clerk[c].items EXCEPT !.manual = clerk[c].version + 1] \in Items
      BY <1>1 DEF Items
    <3> QED BY <1>3, <1>6, <2>1, <3>1 DEF Adjust
  <2>2. CASE saved[r] # clerk[c].version
    BY <1>6, <2>2 DEF Adjust, SameFamily
  <2> QED BY <2>1, <2>2
<1> QED BY <1>4, <1>5, <1>6

(* A payment pays a run that nothing supersedes and, if it is an adjustment, one that *)
(* supersedes its original already.                                                    *)
LEMMA PayKeepsFamily ==
  ASSUME FamilyInv, NEW c \in Clerks, Pay(c) PROVE \A s \in Runs : FamilyOK(s)'
<1> DEFINE r == clerk[c].run
           new == [run[r] EXCEPT !.status = "Paid", !.paid = TRUE]
<1>1. r \in Runs /\ Shapes
  BY JobRun DEF FamilyInv, SequentialInv, Pay, Doing
<1>2. /\ Exists(r) /\ Current(r)
      /\ IsDifference(r) => run[r].parent \in Live /\ run[run[r].parent].successor = r
  BY DEF FamilyInv, FamilyJobOK, Pay, Doing
<1>3. run[r] \in Row
  BY <1>1 DEF Shapes
<1>4. /\ new \in Row /\ new.status = "Paid" /\ new.paid = TRUE
      /\ new.parent = run[r].parent /\ new.treatment = run[r].treatment /\ new.successor = run[r].successor
  <2> DEFINE b == TRUE
             y == [run[r] EXCEPT !.status = "Paid"]
  <2>1. new = [y EXCEPT !.paid = b]
    OBVIOUS
  <2>2. /\ y \in Row /\ y.status = "Paid" /\ y.parent = run[r].parent
        /\ y.treatment = run[r].treatment /\ y.successor = run[r].successor
    BY <1>3 DEF Row, Statuses
  <2>3. b \in BOOLEAN
    OBVIOUS
  <2> HIDE DEF y, b, new, r
  <2>4. /\ new \in Row /\ new.status = "Paid" /\ new.paid = b
        /\ new.parent = run[r].parent /\ new.treatment = run[r].treatment
        /\ new.successor = run[r].successor
    BY <2>1, <2>2, <2>3 DEF Row
  <2> QED BY <2>4 DEF b
<1>5. run' = [run EXCEPT ![r] = new]
  BY <1>2 DEF Pay, Update
<1>6. \A t \in Runs : run[t] \in Row /\ FamilyOK(t)
  BY <1>1 DEF FamilyInv, Shapes
<1> HIDE DEF new, r
<1>7. \A t \in Runs : /\ run'[t].parent = run[t].parent /\ run'[t].treatment = run[t].treatment
                      /\ run'[t].successor = run[t].successor
                      /\ t # r => run'[t] = run[t]
                      /\ run'[r].paid /\ run'[r].status = "Paid"
  BY <1>1, <1>4, <1>5 DEF Shapes
<1>8. Live' = Live
  BY <1>1, <1>2, <1>7 DEF Live, Exists
<1> SUFFICES ASSUME NEW s \in Runs, s \in Live PROVE FamilyOK(s)'
  BY <1>8 DEF FamilyOK, Live
<1> DEFINE p == run[s].parent
           succ == run[s].successor
<1>9. succ \in {NoRun} \cup Runs /\ p \in {NoRun} \cup Runs
  BY <1>6 DEF Row
<1>10. p # s /\ (IsDifference(s) => p # NoRun) /\ (p \in Runs => run'[p].status # "Absent")
  BY <1>6, <1>7 DEF FamilyOK, Live
<1>11. succ # NoRun => succ \in Live /\ run'[succ].parent = s
  BY <1>6, <1>7, <1>9 DEF FamilyOK, Live, Current
<1>12. ASSUME p \in Live
       PROVE  /\ \A t \in Live : run'[t].parent = p => t = s
              /\ run[s].treatment = "replace_unpaid" => ~run'[p].paid /\ run'[p].successor = s
              /\ IsDifference(s) => run'[p].paid /\ (run'[s].paid => run'[p].successor = s)
  <2>1. /\ \A t \in Live : run[t].parent = p => t = s
        /\ run[s].treatment = "replace_unpaid" => ~run[p].paid /\ run[p].successor = s
        /\ IsDifference(s) => run[p].paid /\ (run[s].paid => run[p].successor = s)
    BY <1>6, <1>12 DEF FamilyOK, Live
  <2>2. p = r => run[s].treatment # "replace_unpaid"
    BY <1>2, <2>1, NoRunIsNone DEF Current
  <2>3. Live \subseteq Runs
    BY DEF Live
  <2> QED BY <1>2, <1>7, <1>12, <2>1, <2>2, <2>3
<1> QED BY <1>7, <1>8, <1>9, <1>10, <1>11, <1>12 DEF FamilyOK, Current, IsDifference, NoRun

(* Deleting a draft frees the run it superseded; what it revised may be revised anew. *)
LEMMA DeleteKeepsFamily ==
  ASSUME FamilyInv, NEW c \in Clerks, Delete(c) PROVE \A s \in Runs : FamilyOK(s)'
<1> DEFINE r == clerk[c].run
<1>1. r \in Runs /\ Shapes
  BY JobRun DEF FamilyInv, SequentialInv, Delete, Doing
<1>2. \A t \in Runs : run[t] \in Row /\ FamilyOK(t)
  BY <1>1 DEF FamilyInv, Shapes
<1>3. CASE ~StillDraft(r)
  BY <1>1, <1>2, <1>3, FamilyKept DEF Delete, SameFamily
<1>4. CASE StillDraft(r)
  <2>1. run' = [t \in Runs |->
                 CASE t = r -> [run[t] EXCEPT !.status = "Deleted"]
                   [] t # r /\ run[t].successor = r -> [run[t] EXCEPT !.successor = NoRun]
                   [] OTHER -> run[t]]
    BY <1>4 DEF Delete
  <2> HIDE DEF r
  <2>2. \A t \in Runs : /\ run'[t].parent = run[t].parent /\ run'[t].treatment = run[t].treatment
                        /\ run'[t].paid = run[t].paid
                        /\ run'[t].status = IF t = r THEN "Deleted" ELSE run[t].status
                        /\ t # r => run'[t].successor = IF run[t].successor = r THEN NoRun
                                                        ELSE run[t].successor
    <3> SUFFICES ASSUME NEW t \in Runs
                 PROVE  /\ run'[t].parent = run[t].parent /\ run'[t].treatment = run[t].treatment
                        /\ run'[t].paid = run[t].paid
                        /\ run'[t].status = IF t = r THEN "Deleted" ELSE run[t].status
                        /\ t # r => run'[t].successor = IF run[t].successor = r THEN NoRun
                                                        ELSE run[t].successor
      OBVIOUS
    <3>1. CASE t = r
      BY <1>2, <2>1, <3>1 DEF Row
    <3>2. CASE t # r /\ run[t].successor = r
      BY <1>2, <2>1, <3>2 DEF Row
    <3>3. CASE t # r /\ run[t].successor # r
      BY <1>2, <2>1, <3>3
    <3> QED BY <3>1, <3>2, <3>3
  <2>3. Live' = Live \ {r}
    BY <2>2 DEF Live, Exists
  <2> SUFFICES ASSUME NEW s \in Runs, s \in Live, s # r PROVE FamilyOK(s)'
    BY <2>3 DEF FamilyOK, Live
  <2> DEFINE p == run[s].parent
             succ == run[s].successor
  <2>4. succ \in {NoRun} \cup Runs /\ p \in {NoRun} \cup Runs
    BY <1>2 DEF Row
  <2>5. p # s /\ (IsDifference(s) => p # NoRun) /\ (p \in Runs => run'[p].status # "Absent")
    BY <1>2, <2>2 DEF FamilyOK, Live
  <2>6. succ # NoRun => succ \in Live /\ run[succ].parent = s
    BY <1>2, <2>4 DEF FamilyOK, Live, Current
  <2>7. run'[s].successor # NoRun => run'[s].successor \in Live' /\ run'[run'[s].successor].parent = s
    BY <2>2, <2>3, <2>4, <2>6
  <2>8. ASSUME p \in Live'
         PROVE  /\ \A t \in Live' : run'[t].parent = p => t = s
                /\ run[s].treatment = "replace_unpaid" => ~run'[p].paid /\ run'[p].successor = s
                /\ IsDifference(s) => run'[p].paid /\ (run'[s].paid => run'[p].successor = s)
    <3>1. /\ \A t \in Live : run[t].parent = p => t = s
          /\ run[s].treatment = "replace_unpaid" => ~run[p].paid /\ run[p].successor = s
          /\ IsDifference(s) => run[p].paid /\ (run[s].paid => run[p].successor = s)
      BY <1>2, <2>3, <2>8 DEF FamilyOK, Live
    <3>2. Live' \subseteq Runs
      BY DEF Live
    <3> QED BY <2>2, <2>3, <2>8, <3>1, <3>2
  <2> QED BY <2>2, <2>4, <2>5, <2>7, <2>8 DEF FamilyOK, Current, IsDifference
<1> QED BY <1>3, <1>4

(* The place of an inserted draft among the revisions. *)
Placed(d, parent, t) == d.parent = parent /\ d.treatment = t /\ d.successor = NoRun /\ ~d.paid

LEMMA DraftsPlace ==
  ASSUME NEW p \in AnyPeriod, NEW parent \in {NoRun} \cup Runs, NEW t \in Treatments, NEW m \in Nat
  PROVE  Placed(DraftOf(p, parent, t, m), parent, t)
<1> DEFINE items == [Empty EXCEPT !.manual = m]
           a == [Absent EXCEPT !.status = "Draft", !.period = p]
           b == [a EXCEPT !.parent = parent, !.treatment = t]
           d == [b EXCEPT !.items = items]
<1>1. a \in Row /\ a.successor = NoRun /\ a.paid = FALSE
  <2>1. Absent \in Row /\ Absent.successor = NoRun /\ Absent.paid = FALSE
    BY EmptyShapes DEF Absent
  <2> QED BY <2>1 DEF Row, Statuses
<1>2. d = DraftOf(p, parent, t, m)
  BY DEF DraftOf
<1>3. items \in Items
  BY EmptyShapes DEF Items
<1> HIDE DEF a, items
<1>4. b \in Row /\ b.parent = parent /\ b.treatment = t /\ b.successor = NoRun /\ b.paid = FALSE
  BY <1>1 DEF Row
<1> HIDE DEF b
<1>5. Placed(d, parent, t)
  BY <1>3, <1>4 DEF Row, Placed
<1> QED BY <1>2, <1>5

(* A draft that revises nothing joins no family. *)
LEMMA CreateKeepsFamily ==
  ASSUME FamilyInv, NEW c \in Clerks, Create(c) PROVE \A s \in Runs : FamilyOK(s)'
<1>1. PICK n \in Runs : Fresh(n) /\ run' = Insert(run, n, clerk[c].period, NoRun, "none", 0)
  BY DEF Create
<1> DEFINE row == DraftOf(clerk[c].period, NoRun, "none", 0)
<1>2. /\ row \in Row /\ row.status = "Draft" /\ row.parent = NoRun /\ row.successor = NoRun
      /\ row.treatment # "adjust_paid"
  <2>1. clerk[c].period \in AnyPeriod /\ NoRun \in {NoRun} \cup Runs /\ "none" \in Treatments /\ 0 \in Nat
    BY JobRun DEF FamilyInv, SequentialInv, Treatments
  <2>2. row \in Row /\ row.status = "Draft"
    BY <2>1, DraftIsRow
  <2>3. Placed(row, NoRun, "none")
    BY <2>1, DraftsPlace
  <2> QED BY <2>2, <2>3 DEF Placed
<1>3. run' = [run EXCEPT ![n] = row]
  BY <1>1 DEF Insert, DraftOf
<1>4. \A t \in Runs : run[t] \in Row /\ FamilyOK(t)
  BY DEF FamilyInv, SequentialInv, Shapes
<1>5. run[n].status = "Absent"
  BY <1>1 DEF Fresh
<1> HIDE DEF row
<1>6. run'[n] = row /\ \A t \in Runs \ {n} : run'[t] = run[t]
  BY <1>3 DEF FamilyInv, SequentialInv, Shapes
<1>7. Live' = Live \cup {n} /\ n \notin Live
  BY <1>2, <1>5, <1>6 DEF Live, Exists
<1>8. FamilyOK(n)'
  BY <1>2, <1>6, <1>7, NoRunIsNone DEF FamilyOK, Live, Current, IsDifference
<1> SUFFICES ASSUME NEW s \in Runs, s \in Live PROVE FamilyOK(s)'
  BY <1>7, <1>8 DEF FamilyOK, Live
<1> DEFINE p == run[s].parent
           succ == run[s].successor
<1>9. succ \in {NoRun} \cup Runs /\ p \in {NoRun} \cup Runs /\ s # n
  BY <1>4, <1>7 DEF Row
<1>10. p # s /\ p # n /\ (IsDifference(s) => p # NoRun) /\ (p \in Runs => run[p].status # "Absent")
  BY <1>4, <1>5 DEF FamilyOK, Live
<1>11. succ # NoRun => succ \in Live /\ run[succ].parent = s
  BY <1>4, <1>9 DEF FamilyOK, Live, Current
<1>12. p \in Live =>
         /\ \A t \in Live : run[t].parent = p => t = s
         /\ run[s].treatment = "replace_unpaid" => ~run[p].paid /\ run[p].successor = s
         /\ IsDifference(s) => run[p].paid /\ (run[s].paid => run[p].successor = s)
  BY <1>4 DEF FamilyOK, Live
<1>13. Live \subseteq Runs
  BY DEF Live
<1>14. \A t \in Live' : run'[t].parent = p /\ p \in Live => t = s
  BY <1>2, <1>6, <1>7, <1>12, <1>13, NoRunIsNone
<1> QED BY <1>6, <1>7, <1>9, <1>10, <1>11, <1>12, <1>13, <1>14 DEF FamilyOK, Current, IsDifference, Live

(* A revision is the only live one of its run, and supersedes it at once if it is unpaid. *)
LEMMA ReviseKeepsFamily ==
  ASSUME FamilyInv, NEW c \in Clerks, Revise(c) PROVE \A s \in Runs : FamilyOK(s)'
<1> DEFINE r == clerk[c].run
           treatment == clerk[c].treatment
<1>1. PICK n \in Runs :
        /\ Fresh(n)
        /\ LET rows == Insert(run, n, clerk[c].period, r, treatment, Carried(r)) IN
           run' = IF treatment = "replace_unpaid" /\ Exists(r)
                    THEN [rows EXCEPT ![r].successor = n] ELSE rows
  BY DEF Revise
<1>2. /\ r \in Runs /\ Exists(r) /\ Unrevised(r)
      /\ treatment = IF run[r].paid THEN "adjust_paid" ELSE "replace_unpaid"
  BY JobRun DEF FamilyInv, FamilyJobOK, SequentialInv, Revise, Doing
<1> DEFINE row == DraftOf(clerk[c].period, r, treatment, Carried(r))
           rows == [run EXCEPT ![n] = row]
<1>3. /\ row \in Row /\ row.status = "Draft" /\ row.parent = r /\ row.successor = NoRun
      /\ row.treatment = treatment /\ ~row.paid
  <2>1. /\ clerk[c].period \in AnyPeriod /\ r \in {NoRun} \cup Runs /\ treatment \in Treatments
        /\ Carried(r) \in Nat
    BY JobRun DEF FamilyInv, SequentialInv, Carried
  <2>2. row \in Row /\ row.status = "Draft"
    BY <2>1, DraftIsRow
  <2>3. Placed(row, r, treatment)
    BY <2>1, DraftsPlace
  <2> QED BY <2>2, <2>3 DEF Placed
<1>4. rows = Insert(run, n, clerk[c].period, r, treatment, Carried(r))
  BY DEF Insert, DraftOf
<1>5. run' = IF treatment = "replace_unpaid" THEN [rows EXCEPT ![r].successor = n] ELSE rows
  BY <1>1, <1>2, <1>4
<1>6. \A t \in Runs : run[t] \in Row /\ FamilyOK(t)
  BY DEF FamilyInv, SequentialInv, Shapes
<1>7. run[n].status = "Absent" /\ n # r
  BY <1>1, <1>2 DEF Fresh, Exists
<1> HIDE DEF row, r, treatment
<1>8. /\ rows \in [Runs -> Row] /\ rows[n] = row /\ \A t \in Runs \ {n} : rows[t] = run[t]
  BY <1>3 DEF FamilyInv, SequentialInv, Shapes
<1> HIDE DEF rows
<1>9. /\ run'[n] = row
      /\ \A t \in Runs \ {n, r} : run'[t] = run[t]
      /\ run'[r].status = run[r].status /\ run'[r].paid = run[r].paid
      /\ run'[r].parent = run[r].parent /\ run'[r].treatment = run[r].treatment
      /\ run'[r].successor = IF treatment = "replace_unpaid" THEN n ELSE run[r].successor
  <2>1. CASE treatment = "replace_unpaid"
    <3> DEFINE x == [rows[r] EXCEPT !.successor = n]
    <3>1. /\ x.status = run[r].status /\ x.paid = run[r].paid /\ x.parent = run[r].parent
          /\ x.treatment = run[r].treatment /\ x.successor = n
      BY <1>2, <1>6, <1>7, <1>8 DEF Row
    <3>2. run' = [rows EXCEPT ![r] = x]
      BY <1>5, <2>1
    <3> HIDE DEF x
    <3> QED BY <1>2, <1>7, <1>8, <2>1, <3>1, <3>2
  <2>2. CASE treatment # "replace_unpaid"
    BY <1>2, <1>5, <1>7, <1>8, <2>2
  <2> QED BY <2>1, <2>2
<1>10. Live' = Live \cup {n} /\ n \notin Live /\ r \in Live /\ Live \subseteq Runs
  BY <1>2, <1>3, <1>7, <1>9 DEF Live, Exists
<1>11. \A t \in Live : run[t].parent # r
  BY <1>2 DEF Unrevised
<1>12. ASSUME NEW t \in Live PROVE run'[t].parent = run[t].parent /\ run'[t].paid = run[t].paid
  BY <1>9, <1>10
<1>13. FamilyOK(n)'
  <2>1. r # n /\ r # NoRun /\ run'[r].status # "Absent"
    BY <1>2, <1>7, <1>9, NoRunIsNone DEF Exists
  <2>2. \A t \in Live' : run'[t].parent = r => t = n
    BY <1>10, <1>11, <1>12
  <2>3. /\ treatment = "replace_unpaid" => ~run'[r].paid /\ run'[r].successor = n
        /\ treatment = "adjust_paid" => run'[r].paid
    BY <1>2, <1>9
  <2> QED BY <1>3, <1>9, <2>1, <2>2, <2>3 DEF FamilyOK, Current, IsDifference
<1> SUFFICES ASSUME NEW s \in Runs, s \in Live PROVE FamilyOK(s)'
  BY <1>10, <1>13 DEF FamilyOK, Live
<1> DEFINE p == run[s].parent
           succ == run[s].successor
<1>14. succ \in {NoRun} \cup Runs /\ p \in {NoRun} \cup Runs /\ s # n /\ p # r
  BY <1>6, <1>10, <1>11 DEF Row
<1>15. p # s /\ p # n /\ (IsDifference(s) => p # NoRun) /\ (p \in Runs => run[p].status # "Absent")
  BY <1>6, <1>7 DEF FamilyOK, Live
<1>16. succ # NoRun => succ \in Live /\ run[succ].parent = s
  BY <1>6, <1>14 DEF FamilyOK, Live, Current
<1>17. p \in Live =>
         /\ \A t \in Live : run[t].parent = p => t = s
         /\ run[s].treatment = "replace_unpaid" => ~run[p].paid /\ run[p].successor = s
         /\ IsDifference(s) => run[p].paid /\ (run[s].paid => run[p].successor = s)
  BY <1>6 DEF FamilyOK, Live
<1>18. run'[s].successor # NoRun => run'[s].successor \in Live' /\ run'[run'[s].successor].parent = s
  BY <1>3, <1>9, <1>10, <1>12, <1>14, <1>16
<1>19. \A t \in Live' : run'[t].parent = p /\ p \in Live => t = s
  BY <1>3, <1>9, <1>10, <1>12, <1>14, <1>17
<1>20. p \in Runs => run'[p] = run[p]
  BY <1>9, <1>14, <1>15
<1>21. run'[s].parent = p /\ run'[s].treatment = run[s].treatment /\ run'[s].paid = run[s].paid
  BY <1>9, <1>10, <1>14
<1> HIDE DEF p, succ
<1> QED BY <1>10, <1>14, <1>15, <1>17, <1>18, <1>19, <1>20, <1>21 DEF FamilyOK, Current, IsDifference, p

(* Before an adjustment is paid it supersedes the run it corrects. *)
LEMMA SupersedeKeepsFamily ==
  ASSUME FamilyInv, NEW c \in Clerks, SupersedeOriginal(c)
  PROVE  /\ \A s \in Runs : FamilyOK(s)'
         /\ FamilyJobOK(c)'
<1> DEFINE r == clerk[c].run
           o == run[r].parent
           new == [run[o] EXCEPT !.successor = r]
<1>1. r \in Runs /\ Exists(r) /\ Current(r) /\ IsDifference(r) /\ o \in Live
  BY JobRun DEF FamilyInv, FamilyJobOK, SequentialInv, SupersedeOriginal, Doing
<1>2. run' = [run EXCEPT ![o] = new]
  BY <1>1 DEF SupersedeOriginal, Update, Live
<1>3. \A t \in Runs : run[t] \in Row /\ FamilyOK(t)
  BY DEF FamilyInv, SequentialInv, Shapes
<1>4. clerk'[c].run = r /\ clerk'[c].op = "post"
  BY DEF SupersedeOriginal, Become, FamilyInv, SequentialInv, Shapes, Job, JobRecord
<1> HIDE DEF r
<1>5. o \in Runs /\ o # r /\ r \in Live
  BY <1>1, <1>3 DEF Live, FamilyOK
<1>6. /\ \A t \in Runs : t # o => run'[t] = run[t]
      /\ run'[o].status = run[o].status /\ run'[o].paid = run[o].paid
      /\ run'[o].parent = run[o].parent /\ run'[o].treatment = run[o].treatment
      /\ run'[o].successor = r
  <2>1. /\ new.status = run[o].status /\ new.paid = run[o].paid /\ new.parent = run[o].parent
        /\ new.treatment = run[o].treatment /\ new.successor = r
    BY <1>3, <1>5 DEF Row
  <2> HIDE DEF new, o
  <2> QED BY <1>2, <1>5, <2>1 DEF FamilyInv, SequentialInv, Shapes
<1>7. \A t \in Live : run[t].parent = o => t = r
  BY <1>1, <1>3, <1>5 DEF FamilyOK
<1> HIDE DEF new
<1>8. Live' = Live /\ Live \subseteq Runs
  BY <1>5, <1>6 DEF Live, Exists
<1>9. FamilyJobOK(c)'
  BY <1>1, <1>4, <1>5, <1>6, <1>8 DEF FamilyJobOK, Live, Exists, Current, IsDifference
<1>10. ASSUME NEW s \in Runs, s \in Live PROVE FamilyOK(s)'
  <2> DEFINE p == run[s].parent
             succ == run[s].successor
  <2>1. succ \in {NoRun} \cup Runs /\ p \in {NoRun} \cup Runs
    BY <1>3 DEF Row
  <2>2. p # s /\ (IsDifference(s) => p # NoRun) /\ (p \in Runs => run[p].status # "Absent")
    BY <1>3, <1>10 DEF FamilyOK, Live
  <2>3. succ # NoRun => succ \in Live /\ run[succ].parent = s
    BY <1>3, <1>10, <2>1 DEF FamilyOK, Live, Current
  <2>4. p \in Live =>
          /\ \A t \in Live : run[t].parent = p => t = s
          /\ run[s].treatment = "replace_unpaid" => ~run[p].paid /\ run[p].successor = s
          /\ IsDifference(s) => run[p].paid /\ (run[s].paid => run[p].successor = s)
    BY <1>3, <1>10 DEF FamilyOK, Live
  <2>5. \A t \in Runs : run'[t].parent = run[t].parent /\ run'[t].treatment = run[t].treatment
                        /\ run'[t].paid = run[t].paid /\ run'[t].status = run[t].status
    BY <1>6
  <2>6. run'[s].successor # NoRun => run'[s].successor \in Live' /\ run'[run'[s].successor].parent = s
    BY <1>5, <1>6, <1>8, <1>10, <2>1, <2>3, <2>5
  <2>7. p \in Live =>
          /\ \A t \in Live' : run'[t].parent = p => t = s
          /\ run[s].treatment = "replace_unpaid" => ~run'[p].paid /\ run'[p].successor = s
          /\ IsDifference(s) => run'[p].paid /\ (run'[s].paid => run'[p].successor = s)
    <3>1. CASE p = o
      <4>1. s = r
        BY <1>7, <1>10, <3>1
      <4> QED BY <1>1, <1>6, <1>8, <2>4, <2>5, <3>1, <4>1 DEF IsDifference
    <3>2. CASE p # o
      BY <1>6, <1>8, <2>4, <2>5, <3>2
    <3> QED BY <3>1, <3>2
  <2> HIDE DEF p, succ
  <2> QED BY <1>8, <1>10, <2>2, <2>5, <2>6, <2>7 DEF FamilyOK, Current, IsDifference, p
<1>11. ASSUME NEW s \in Runs, s \notin Live PROVE FamilyOK(s)'
  BY <1>8, <1>11 DEF FamilyOK, Live
<1> QED BY <1>9, <1>10, <1>11

(* A request that asks has checked where its run stands among the revisions. *)
LEMMA AskFamilyJobs ==
  ASSUME FamilyInv, NEW c \in Clerks, Ask_(c) PROVE FamilyJobOK(c)'
<1>1. UNCHANGED <<run, saved>> /\ clerk \in [Clerks -> Job] /\ \A s \in Runs : run[s] \in Row
  BY AskShapes DEF FamilyInv, SequentialInv, Shapes
<1>2. ASSUME NEW j, Begin(c, j) PROVE clerk'[c] = j
  BY <1>1, <1>2 DEF Begin
<1>3. \A s \in Runs : PaidLike(s) <=> run[s].paid
  BY DEF FamilyInv, PaidLike
<1>4. CASE clerk'[c].op \notin {"revise", "pay", "post"}
  BY <1>4 DEF FamilyJobOK
<1>5. ASSUME NEW r \in Runs, AskPay(c, r) PROVE FamilyJobOK(c)'
  <2> DEFINE j == [Idle EXCEPT !.op = "pay", !.run = r]
  <2>1. clerk'[c] = j
    BY <1>2, <1>5 DEF AskPay, Ask
  <2>2. j.op = "pay" /\ j.run = r
    BY DEF Idle
  <2> HIDE DEF j
  <2>3. Payable(r)
    BY <1>5 DEF AskPay
  <2>4. Exists(r) /\ Current(r)
    BY <2>3 DEF Payable, Exists
  <2>5. IsDifference(r) => run[r].parent \in Live
    <3>1. IsDifference(r) => run[r].parent # NoRun
      BY <2>4 DEF FamilyInv, FamilyOK
    <3>2. run[r].parent # NoRun => run[r].parent \in Runs
      BY <1>1 DEF Row
    <3> QED BY <2>3, <3>1, <3>2 DEF Payable, Live
  <2>6. clerk'[c].op = "pay" /\ clerk'[c].run = r
    BY <2>1, <2>2
  <2>7. Live' = Live /\ run' = run
    BY <1>1 DEF Live, Exists
  <2> QED BY <2>4, <2>5, <2>6, <2>7 DEF FamilyJobOK, Exists, Current, IsDifference
<1>6. ASSUME NEW r \in Runs, NEW t \in Treatments, AskRevise(c, r, t) PROVE FamilyJobOK(c)'
  <2> DEFINE j == [Idle EXCEPT !.op = "revise", !.run = r, !.period = run[r].period, !.treatment = t]
  <2>1. clerk'[c] = j
    BY <1>2, <1>6 DEF AskRevise
  <2>2. j.op = "revise" /\ j.run = r /\ j.treatment = t
    BY DEF Idle
  <2> HIDE DEF j
  <2>3. Exists(r) /\ Unrevised(r) /\ t = IF run[r].paid THEN "adjust_paid" ELSE "replace_unpaid"
    BY <1>3, <1>6 DEF AskRevise
  <2> QED BY <1>1, <2>1, <2>2, <2>3 DEF FamilyJobOK, Exists, Unrevised, Live
<1>7. ASSUME NEW op \in {"submit", "approve", "reopen", "delete"}, NEW r \in Runs, Ask(c, op, r)
      PROVE  clerk'[c].op = op
  <2> DEFINE j == [Idle EXCEPT !.op = op, !.run = r]
  <2>1. clerk'[c] = j
    BY <1>2, <1>7 DEF Ask
  <2> QED BY <2>1 DEF Idle
<1>8. ASSUME NEW op \in {"recalculate", "adjust"}, NEW r \in Runs, AskEdit(c, op, r)
      PROVE  clerk'[c].op = op
  <2> DEFINE j == [Idle EXCEPT !.op = op, !.run = r, !.items = run[r].items, !.version = saved[r]]
  <2>1. clerk'[c] = j
    BY <1>2, <1>8 DEF AskEdit
  <2> QED BY <2>1 DEF Idle
<1>9. ASSUME NEW period \in Periods, AskCreate(c, period) PROVE clerk'[c].op = "create"
  <2> DEFINE j == [Idle EXCEPT !.op = "create", !.period = period]
  <2>1. clerk'[c] = j
    BY <1>2, <1>9 DEF AskCreate
  <2> QED BY <2>1 DEF Idle
<1> QED
  BY <1>4, <1>5, <1>6, <1>7, <1>8, <1>9
     DEF Ask_, AskSubmit, AskApprove, AskReopen, AskRecalculate, AskAdjust, AskDelete

(* A request that is done claims nothing, and one that announces no more. *)
LEMMA DoneFamilyJobs ==
  ASSUME FamilyInv, NEW c \in Clerks, Write(c) \/ Stop(c), ~SupersedeOriginal(c) PROVE FamilyJobOK(c)'
<1>1. clerk \in [Clerks -> Job]
  BY DEF FamilyInv, SequentialInv, Shapes
<1>2. CASE Done(c)
  <2>1. clerk'[c] = Idle
    BY <1>1, <1>2 DEF Done
  <2>2. Idle.op = "idle"
    BY DEF Idle
  <2> QED BY <2>1, <2>2 DEF FamilyJobOK
<1>3. CASE Become(c, "announce")
  <2>1. clerk'[c].op = "announce"
    BY <1>1, <1>3 DEF Become, Job, JobRecord
  <2> QED BY <2>1 DEF FamilyJobOK
<1> QED
  BY <1>2, <1>3
     DEF Write, Stop, Create, Submit, Approve, Announce, Reopen, Recalculate, Adjust, Delete,
         Revise, Pay

(* With one request at a time, families stay as they should be. *)
LEMMA FamilySteps ==
  ASSUME OneAtATime, FamilyInv, [Next]_vars PROVE FamilyInv'
<1>1. SequentialInv'
  BY SequentialSteps DEF FamilyInv
<1>2. \A s \in Runs : (run[s].status = "Paid" => run[s].paid)'
  <2>1. Shapes /\ \A s \in Runs : run[s].status = "Paid" => run[s].paid
    BY DEF FamilyInv, SequentialInv
  <2> SUFFICES ASSUME NEW s \in Runs PROVE (run[s].status = "Paid" => run[s].paid)'
    OBVIOUS
  <2>2. RowStep(s)
    BY <2>1, StepShapes
  <2> QED BY <2>1, <2>2 DEF RowStep
<1>3. ASSUME NEW c \in Clerks, FamilyJobOK(c)' PROVE \A d \in Clerks : FamilyJobOK(d)'
  BY <1>3 DEF OneAtATime
<1>4. Shapes /\ \A s \in Runs : FamilyOK(s)
  BY DEF FamilyInv, SequentialInv
<1>5. CASE UNCHANGED vars
  <2>1. \A s \in Runs : FamilyOK(s)'
    BY <1>4, <1>5, FamilyKept DEF vars, SameFamily
  <2>2. \A c \in Clerks : FamilyJobOK(c)'
    BY <1>5, SMTT(60) DEF vars, FamilyInv, FamilyJobOK, Exists, Unrevised, Live, Current, IsDifference
  <2> QED BY <1>1, <1>2, <2>1, <2>2 DEF FamilyInv
<1>6. ASSUME NEW c \in Clerks, Ask_(c) PROVE FamilyInv'
  <2>1. \A s \in Runs : FamilyOK(s)'
    BY <1>4, <1>6, AskShapes, FamilyKept DEF SameFamily
  <2> QED BY <1>1, <1>2, <1>3, <1>6, <2>1, AskFamilyJobs DEF FamilyInv
<1>7. ASSUME NEW c \in Clerks, Write(c) \/ Stop(c) PROVE FamilyInv'
  <2>1. \A s \in Runs : FamilyOK(s)'
    <3>1. CASE Announce(c) \/ Stop(c)
      BY <1>4, <3>1, FamilyKept DEF Announce, Stop, SameFamily
    <3>2. CASE Submit(c) \/ Approve(c) \/ Reopen(c) \/ Recalculate(c) \/ Adjust(c)
      BY <1>4, <3>2, EditsKeepFamily, FamilyKept
    <3>3. CASE Pay(c)
      BY <3>3, PayKeepsFamily
    <3>4. CASE Delete(c)
      BY <3>4, DeleteKeepsFamily
    <3>5. CASE Create(c)
      BY <3>5, CreateKeepsFamily
    <3>6. CASE Revise(c)
      BY <3>6, ReviseKeepsFamily
    <3>7. CASE SupersedeOriginal(c)
      BY <3>7, SupersedeKeepsFamily
    <3> QED BY <1>7, <3>1, <3>2, <3>3, <3>4, <3>5, <3>6, <3>7 DEF Write
  <2>2. FamilyJobOK(c)'
    BY <1>7, DoneFamilyJobs, SupersedeKeepsFamily
  <2> QED BY <1>1, <1>2, <1>3, <2>1, <2>2 DEF FamilyInv
<1> QED BY <1>5, <1>6, <1>7 DEF Next

LEMMA FamilyStart == Init => FamilyInv
<1>1. Absent.status = "Absent" /\ Idle.op = "idle"
  BY DEF Absent, Idle
<1> QED BY <1>1, SequentialStart DEF Init, FamilyInv, FamilyOK, FamilyJobOK, Exists

LEMMA FamilyInvariant == ASSUME OneAtATime PROVE Spec => []FamilyInv
BY OneAtATime, FamilyStart, FamilySteps, PTL DEF Spec

(***************************************************************************)
(* Where requests do not overlap, a run is superseded by a revision of it  *)
(* that exists, whatever is revised, deleted and paid in between: what     *)
(* create_revision and mark_payroll_run_paid set, delete_draft_run takes   *)
(* back.                                                                   *)
(***************************************************************************)
THEOREM SuccessorsExist == ASSUME OneAtATime PROVE Spec => []SuccessorIsRevision
<1>1. FamilyInv => SuccessorIsRevision
  BY DEF FamilyInv, FamilyOK, SuccessorIsRevision, Live
<1> QED BY <1>1, FamilyInvariant, PTL

(***************************************************************************)
(* Where requests do not overlap, nobody is paid twice for a cutoff: the   *)
(* original of a paid replacement never is paid, before or after, and a    *)
(* paid adjustment corrects a paid run that it supersedes.                 *)
(***************************************************************************)
THEOREM AncestryHolds == ASSUME OneAtATime PROVE Spec => []RevisionAncestry
<1>1. FamilyInv => RevisionAncestry
  BY DEF FamilyInv, FamilyOK, RevisionAncestry, Live, PaidLike
<1> QED BY <1>1, FamilyInvariant, PTL
=============================================================================
