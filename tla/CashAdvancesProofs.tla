------------------------- MODULE CashAdvancesProofs -------------------------
(***************************************************************************)
(* Proofs about CashAdvances, for any number of advances, runs and         *)
(* requests: first that money is repaid only for money that was issued,    *)
(* then that the amounts agree.                                            *)
(***************************************************************************)
EXTENDS CashAdvances, FiniteSetsExt, FiniteSetTheorems, WellFoundedInduction, TLAPS

-----------------------------------------------------------------------------
(* Sums over a finite set, as the models write them with MapThenSumSet.  The sum is *)
(* counted in units, so that what it does follows from the theorems about finite    *)
(* cardinalities; that the fold computes it is shown by the smallest set on which   *)
(* the two would differ.                                                            *)

(* A nonempty finite set of numbers has a last one. *)
LEMMA LastOne ==
  ASSUME NEW R, IsFiniteSet(R), R \subseteq Nat, R # {}
  PROVE  \E z \in R : \A a \in R : a <= z
<1> DEFINE After(a) == {b \in R : a < b}
           F == {After(a) : a \in R}
<1>1. F \subseteq FiniteSubsetsOf(R) /\ F # {}
  <2>1. \A a \in R : After(a) \in SUBSET R /\ IsFiniteSet(After(a))
    BY FS_Subset
  <2> QED BY <2>1 DEF FiniteSubsetsOf
<1>2. PICK T \in F : \A U \in F : ~ (<<U, T>> \in StrictSubsetOrdering(R))
  <2> HIDE DEF F
  <2> QED BY <1>1, FS_StrictSubsetOrderingWellFounded, WFMin, Zenon
<1>3. PICK z \in R : T = After(z)
  OBVIOUS
<1>4. ASSUME NEW a \in R, ~ (a <= z) PROVE FALSE
  <2>1. a \in Nat /\ z \in Nat /\ z < a
    BY <1>4
  <2>2. After(a) \subseteq After(z) /\ a \in After(z) /\ a \notin After(a)
    <3>1. \A b \in R : a < b => z < b
      BY <2>1
    <3>2. a \in After(z) /\ a \notin After(a)
      BY <2>1
    <3> QED BY <3>1, <3>2
  <2>3. <<After(a), After(z)>> \in StrictSubsetOrdering(R)
    BY <2>2 DEF StrictSubsetOrdering
  <2> QED BY <1>2, <1>3, <2>3
<1> QED BY <1>4

Units(f, S) == UNION {{x} \X (1..f[x]) : x \in S}
Tally(f, S) == Cardinality(Units(f, S))

(* The units of one element. *)
LEMMA UnitsOfOne ==
  ASSUME NEW x, NEW n \in Nat
  PROVE  IsFiniteSet({x} \X (1..n)) /\ Cardinality({x} \X (1..n)) = n
<1>1. IsFiniteSet({x}) /\ Cardinality({x}) = 1
  BY FS_Singleton
<1>2. IsFiniteSet(1..n) /\ Cardinality(1..n) = n
  BY FS_Interval
<1>3. /\ IsFiniteSet({x} \X (1..n))
      /\ Cardinality({x} \X (1..n)) = Cardinality({x}) * Cardinality(1..n)
  BY <1>1, <1>2, FS_Product, Zenon
<1>4. 1 * n = n
  OBVIOUS
<1> QED BY <1>1, <1>2, <1>3, <1>4

LEMMA UnitsAreFinite ==
  ASSUME NEW S, IsFiniteSet(S), NEW f, \A x \in S : f[x] \in Nat
  PROVE  IsFiniteSet(Units(f, S)) /\ Tally(f, S) \in Nat
<1> DEFINE T == {{x} \X (1..f[x]) : x \in S}
           g == [x \in S |-> {x} \X (1..f[x])]
<1>1. g \in Surjection(S, T)
  BY DEF Surjection
<1>2. IsFiniteSet(T)
  <2> HIDE DEF g, T
  <2> QED BY <1>1, FS_Surjection
<1>3. ASSUME NEW t \in T PROVE IsFiniteSet(t)
  <2>1. PICK x \in S : t = {x} \X (1..f[x])
    OBVIOUS
  <2> QED BY <2>1, UnitsOfOne
<1> HIDE DEF T
<1>4. IsFiniteSet(UNION T)
  BY <1>2, <1>3, FS_UNION
<1>5. Units(f, S) = UNION T
  BY DEF Units, T
<1> QED BY <1>4, <1>5, FS_CardinalityType DEF Tally

(* Nothing sums up to nothing. *)
LEMMA TallyOfNone == ASSUME NEW f PROVE Tally(f, {}) = 0
BY FS_EmptySet DEF Tally, Units

(* One more element adds what the function says of it. *)
LEMMA TallyOfOneMore ==
  ASSUME NEW S, IsFiniteSet(S), NEW y, y \notin S, NEW f, \A x \in S \cup {y} : f[x] \in Nat
  PROVE  Tally(f, S \cup {y}) = Tally(f, S) + f[y]
<1> DEFINE A == Units(f, S)
           B == {y} \X (1..f[y])
<1>1. Units(f, S \cup {y}) = A \cup B
  BY DEF Units
<1>2. A \cap B = {}
  BY DEF Units
<1>3. IsFiniteSet(A) /\ Cardinality(A) \in Nat /\ Cardinality(A) = Tally(f, S)
  BY UnitsAreFinite DEF Tally
<1>4. f[y] \in Nat /\ IsFiniteSet(B) /\ Cardinality(B) = f[y]
  BY UnitsOfOne
<1> HIDE DEF A, B
<1>5. Cardinality(A \cup B) = Cardinality(A) + Cardinality(B) - Cardinality(A \cap B)
  BY <1>3, <1>4, FS_Union
<1>6. Cardinality(A \cap B) = 0
  BY <1>2, FS_EmptySet
<1>7. Cardinality(A \cup B) = Cardinality(A) + Cardinality(B)
  BY <1>3, <1>4, <1>5, <1>6
<1>8. Tally(f, S \cup {y}) = Cardinality(A \cup B)
  BY <1>1 DEF Tally
<1> QED BY <1>3, <1>4, <1>7, <1>8, Zenon

(* A sum grows with its set and with what is summed. *)
LEMMA TallyGrows ==
  ASSUME NEW T, IsFiniteSet(T), NEW S \in SUBSET T, NEW f, NEW g,
         \A x \in T : g[x] \in Nat,
         \A x \in S : f[x] \in Nat /\ f[x] <= g[x]
  PROVE  Tally(f, S) <= Tally(g, T)
<1>1. Units(f, S) \subseteq Units(g, T)
  BY DEF Units
<1>2. IsFiniteSet(Units(g, T))
  BY UnitsAreFinite
<1> QED BY <1>1, <1>2, FS_Subset DEF Tally

(* A sum depends on the values only. *)
LEMMA TallyOfSame ==
  ASSUME NEW S, NEW f, NEW g, \A x \in S : f[x] = g[x]
  PROVE  Tally(f, S) = Tally(g, S)
<1>1. Units(f, S) = Units(g, S)
  BY DEF Units
<1> QED BY <1>1 DEF Tally

(* The recursion of MapThenSumSet, for what the function f says of the elements of S. *)
IsFold(it, f, S) ==
  it = [s \in SUBSET S |-> IF s = {} THEN 0
                           ELSE f[CHOOSE x \in s : TRUE] + it[s \ {CHOOSE x \in s : TRUE}]]

LEMMA TallyIsFold ==
  ASSUME NEW S, IsFiniteSet(S), NEW f, \A x \in S : f[x] \in Nat
  PROVE  IsFold([s \in SUBSET S |-> Tally(f, s)], f, S)
<1> DEFINE it == [s \in SUBSET S |-> Tally(f, s)]
<1>1. ASSUME NEW s \in SUBSET S, s # {}
      PROVE  Tally(f, s) = f[CHOOSE x \in s : TRUE] + it[s \ {CHOOSE x \in s : TRUE}]
  <2> DEFINE y == CHOOSE x \in s : TRUE
             rest == s \ {y}
  <2>1. y \in s
    BY <1>1
  <2> HIDE DEF y
  <2>2. IsFiniteSet(rest) /\ y \notin rest /\ s = rest \cup {y} /\ rest \in SUBSET S
    <3>1. IsFiniteSet(s)
      BY FS_Subset
    <3> QED BY <2>1, <3>1, FS_Subset
  <2>3. \A x \in rest \cup {y} : f[x] \in Nat
    BY <2>1
  <2> HIDE DEF rest
  <2>4. Tally(f, s) = Tally(f, rest) + f[y] /\ Tally(f, rest) \in Nat
    BY <2>2, <2>3, TallyOfOneMore, UnitsAreFinite
  <2>5. f[y] \in Nat /\ it[rest] = Tally(f, rest)
    BY <2>1, <2>2
  <2> HIDE DEF it
  <2>6. Tally(f, s) = f[y] + it[rest]
    BY <2>4, <2>5
  <2> QED BY <2>6 DEF y, rest
<1>2. Tally(f, {}) = 0
  BY TallyOfNone
<1>3. it = [s \in SUBSET S |-> IF s = {} THEN 0
                               ELSE f[CHOOSE x \in s : TRUE] + it[s \ {CHOOSE x \in s : TRUE}]]
  BY <1>1, <1>2
<1> QED BY <1>3 DEF IsFold

LEMMA FoldIsTally ==
  ASSUME NEW S, IsFiniteSet(S), NEW f, \A x \in S : f[x] \in Nat, NEW it, IsFold(it, f, S)
  PROVE  it[S] = Tally(f, S)
<1> DEFINE bad == {s \in SUBSET S : it[s] # Tally(f, s)}
<1>1. \A s \in SUBSET S : it[s] = IF s = {} THEN 0
                          ELSE f[CHOOSE x \in s : TRUE] + it[s \ {CHOOSE x \in s : TRUE}]
  BY DEF IsFold
<1>2. SUFFICES ASSUME bad # {} PROVE FALSE
  OBVIOUS
<1>3. bad \subseteq FiniteSubsetsOf(S)
  BY FS_Subset DEF FiniteSubsetsOf
<1>4. PICK s \in bad : \A r \in bad : ~ (<<r, s>> \in StrictSubsetOrdering(S))
  <2> HIDE DEF bad
  <2> QED BY <1>2, <1>3, FS_StrictSubsetOrderingWellFounded, WFMin, Zenon
<1>5. s # {}
  BY <1>1, TallyOfNone
<1> DEFINE y == CHOOSE x \in s : TRUE
           rest == s \ {y}
<1>6. y \in s
  BY <1>5
<1>7. it[s] = f[y] + it[rest]
  BY <1>1, <1>5
<1> HIDE DEF y
<1>8. rest \in SUBSET S /\ rest \subseteq s /\ rest # s /\ y \notin rest /\ s = rest \cup {y}
  BY <1>6
<1> HIDE DEF rest
<1>9. it[rest] = Tally(f, rest)
  <2>1. <<rest, s>> \in StrictSubsetOrdering(S)
    BY <1>8 DEF StrictSubsetOrdering
  <2> QED BY <1>4, <1>8, <2>1
<1>10. IsFiniteSet(rest) /\ \A x \in rest \cup {y} : f[x] \in Nat
  <2>1. IsFiniteSet(rest)
    BY <1>8, FS_Subset
  <2> QED BY <1>6, <1>8, <2>1
<1>11. Tally(f, s) = Tally(f, rest) + f[y] /\ Tally(f, rest) \in Nat /\ f[y] \in Nat
  BY <1>8, <1>10, TallyOfOneMore, UnitsAreFinite
<1>12. it[s] = Tally(f, s)
  BY <1>7, <1>9, <1>11
<1> QED BY <1>12

LEMMA SumIsTally ==
  ASSUME NEW S, IsFiniteSet(S), NEW f, \A x \in S : f[x] \in Nat
  PROVE  MapThenSumSet(LAMBDA x : f[x], S) = Tally(f, S)
<1> DEFINE it == CHOOSE it : IsFold(it, f, S)
<1>1. IsFold(it, f, S)
  BY TallyIsFold
<1>2. MapThenSumSet(LAMBDA x : f[x], S) = it[S]
  BY DEF MapThenSumSet, MapThenFoldSet, IsFold
<1> QED BY <1>1, <1>2, FoldIsTally

-----------------------------------------------------------------------------

(***************************************************************************)
(* The tables keep their columns, and an issued advance is a row.          *)
(***************************************************************************)
Columns ==
  /\ DOMAIN advance = Advances
  /\ \A a \in Advances : {"released", "status"} \subseteq DOMAIN advance[a]
  /\ DOMAIN manual = Advances
  /\ DOMAIN posted = Runs
  /\ \A r \in Runs : DOMAIN posted[r] = Advances
  /\ DOMAIN clerk = Clerks

IssuedIsRow ==
  \A a \in Advances :
    advance[a].released \in BOOLEAN /\ (advance[a].released => advance[a].status # "Absent")

(***************************************************************************)
(* What a request has read as issued is issued.                            *)
(***************************************************************************)
ReadAsIssued ==
  \A c \in Clerks : clerk[c].busy =>
    \A a \in Advances : clerk[c].advance[a].released => advance[a].released

IssueInv == Columns /\ IssuedIsRow /\ ReadAsIssued /\ RepaidWasIssued

(***************************************************************************)
(* What a step does to the rows: no column is lost, no release is undone.  *)
(***************************************************************************)
RowKept(old, new) ==
  /\ {"released", "status"} \subseteq DOMAIN new
  /\ new.released \in BOOLEAN
  /\ old.released => new.released
  /\ new.released => new.status # "Absent"

RowsKept ==
  /\ DOMAIN advance' = Advances
  /\ \A a \in Advances : RowKept(advance[a], advance'[a])

(***************************************************************************)
(* recalculate_balance writes a balance and a status, never released_at.   *)
(***************************************************************************)
LEMMA SummaryIsNotAbsent ==
  ASSUME NEW row, NEW paid
  PROVE  Summary(row, paid).status # "Absent"
BY DEF Summary

LEMMA StoreKeepsRow ==
  ASSUME NEW old, NEW row, NEW read, NEW paid,
         {"released", "status"} \subseteq DOMAIN row,
         row.released = old.released, old.released \in BOOLEAN
  PROVE  RowKept(old, Store(row, Summary(read, paid)))
<1>1. Summary(read, paid).status # "Absent"
  BY SummaryIsNotAbsent
<1> QED BY <1>1 DEF Store, RowKept

LEMMA WriteKeepsRows ==
  ASSUME Columns, IssuedIsRow, NEW a \in Advances, NEW row, Write(a, row),
         {"released", "status"} \subseteq DOMAIN row, row.released = advance[a].released
  PROVE  RowsKept
<1>1. RowKept(advance[a], Recalculated(row, Paid(a)))
  BY StoreKeepsRow DEF Recalculated, IssuedIsRow
<1>2. \A b \in Advances : RowKept(advance[b], advance[b])
  BY DEF Columns, IssuedIsRow, RowKept
<1> QED BY <1>1, <1>2 DEF Columns, Write, RowsKept

LEMMA RequestKeepsRows ==
  ASSUME Columns, IssuedIsRow, NEW c \in Clerks, NEW a \in Advances, NEW n \in Amounts,
         \/ Edit(c, a) \/ Approve(c, a) \/ Reject(c, a) \/ Cancel(c, a)
         \/ CorrectAmount(c, a, n) \/ SettleCredit(c, a, n)
  PROVE  RowsKept
<1>1. CASE Edit(c, a) BY <1>1, WriteKeepsRows DEF Edit, Columns
<1>2. CASE Approve(c, a) BY <1>2, WriteKeepsRows DEF Approve, Columns
<1>3. CASE Reject(c, a) BY <1>3, WriteKeepsRows DEF Reject, Columns
<1>4. CASE Cancel(c, a) BY <1>4, WriteKeepsRows DEF Cancel, Columns
<1>5. CASE CorrectAmount(c, a, n) BY <1>5, WriteKeepsRows DEF CorrectAmount, Columns
<1>6. CASE SettleCredit(c, a, n) BY <1>6, WriteKeepsRows DEF SettleCredit, Columns
<1> QED BY <1>1, <1>2, <1>3, <1>4, <1>5, <1>6

LEMMA OffsetKeepsRows ==
  ASSUME Columns, IssuedIsRow, NEW c \in Clerks, NEW a \in Advances, NEW b \in Advances,
         NEW n \in Amounts, OffsetCredit(c, a, b, n)
  PROVE  RowsKept
<1> DEFINE rest == clerk[c].advance[a].credit - n
<1>1. RowKept(advance[a], Recalculated([advance[a] EXCEPT !.credit = rest], Paid(a)))
  BY StoreKeepsRow DEF Recalculated, Columns, IssuedIsRow
<1>2. RowKept(advance[b], Recalculated(advance[b], Paid(b)))
  BY StoreKeepsRow DEF Recalculated, Columns, IssuedIsRow
<1>3. \A d \in Advances : RowKept(advance[d], advance[d])
  BY DEF Columns, IssuedIsRow, RowKept
<1>4. a # b
  BY DEF OffsetCredit
<1>5. advance' = [advance EXCEPT
        ![a] = Recalculated([advance[a] EXCEPT !.credit = rest], Paid(a)),
        ![b] = Recalculated(advance[b], Paid(b))]
  BY <1>4 DEF OffsetCredit, Columns
<1> HIDE DEF rest
<1> QED BY <1>1, <1>2, <1>3, <1>4, <1>5 DEF Columns, RowsKept

LEMMA OfficeKeepsRows ==
  ASSUME Columns, IssuedIsRow, NEW a \in Advances, NEW n \in Amounts,
         Create(a, n) \/ Release(a) \/ ManualRepayment(a, n)
  PROVE  RowsKept
<1>0. \A b \in Advances : RowKept(advance[b], advance[b])
  BY DEF Columns, IssuedIsRow, RowKept
<1>1. CASE Create(a, n)
  <2> DEFINE row == [NoAdvance EXCEPT !.status = "Pending", !.amount = n, !.opening = n]
  <2>1. ~advance[a].released
    BY <1>1 DEF Create, IssuedIsRow
  <2>2. Write(a, row)
    BY <1>1 DEF Create
  <2>3. {"released", "status"} \subseteq DOMAIN row /\ row.released = FALSE
    BY DEF NoAdvance
  <2>4. row.released = advance[a].released
    BY <2>1, <2>3 DEF IssuedIsRow
  <2> QED BY <2>2, <2>3, <2>4, WriteKeepsRows
<1>2. CASE Release(a)
  BY <1>0, <1>2 DEF Release, Columns, RowsKept, RowKept
<1>3. CASE ManualRepayment(a, n)
  <2>1. RowKept(advance[a], Recalculated(advance[a], Paid(a) + n))
    BY StoreKeepsRow DEF Recalculated, Columns, IssuedIsRow
  <2> QED BY <1>0, <1>3, <2>1 DEF ManualRepayment, Columns, RowsKept
<1> QED BY <1>1, <1>2, <1>3
LEMMA ReadingKeepsRow ==
  ASSUME Columns, IssuedIsRow, NEW c, NEW S, NEW a \in Advances, NEW paid
  PROVE  LET read == Store(advance[a], Reading(c, S, a)) IN
         /\ RowKept(advance[a], read)
         /\ RowKept(advance[a], Recalculated(read, paid))
<1> DEFINE read == Store(advance[a], Reading(c, S, a))
<1>1. RowKept(advance[a], read)
  BY StoreKeepsRow DEF Reading, Columns, IssuedIsRow
<1>2. {"released", "status"} \subseteq DOMAIN read /\ read.released = advance[a].released
  BY DEF Store, Columns
<1>3. RowKept(advance[a], Recalculated(read, paid))
  BY <1>2, StoreKeepsRow DEF Recalculated, IssuedIsRow
<1> QED BY <1>1, <1>3

LEMMA AdjustKeepsRows ==
  ASSUME Columns, IssuedIsRow, NEW c \in Clerks, NEW r \in Runs, NEW cash, Adjust(c, r, cash)
  PROVE  RowsKept
<1>1. DOMAIN advance' = Advances
  BY DEF Adjust
<1>2. ASSUME NEW a \in Advances PROVE RowKept(advance[a], advance'[a])
  <2> DEFINE eligible == {b \in Open(clerk[c].advance) : clerk[c].advance[b].status # "Rejected"}
             counted == IF run[r].status = "Paid" THEN posted[r][a] ELSE 0
             read == Store(advance[a], Reading(c, eligible, a))
  <2>1. RowKept(advance[a], advance[a])
    BY DEF Columns, IssuedIsRow, RowKept
  <2>2. /\ RowKept(advance[a], read)
        /\ RowKept(advance[a], Recalculated(read, Paid(a) - counted))
    BY ReadingKeepsRow
  <2>3. RowKept(advance[a], Recalculated(advance[a], Paid(a) - counted))
    BY StoreKeepsRow DEF Recalculated, Columns, IssuedIsRow
  <2>4. advance'[a] \in {advance[a], read, Recalculated(read, Paid(a) - counted),
                         Recalculated(advance[a], Paid(a) - counted)}
    BY DEF Adjust
  <2> QED BY <2>1, <2>2, <2>3, <2>4
<1> QED BY <1>1, <1>2 DEF RowsKept

LEMMA PayKeepsRows ==
  ASSUME Columns, IssuedIsRow, NEW c \in Clerks, NEW r \in Runs, Pay(c, r)
  PROVE  RowsKept
<1>1. DOMAIN advance' = Advances
  BY DEF Pay
<1>2. ASSUME NEW a \in Advances PROVE RowKept(advance[a], advance'[a])
  <2> DEFINE fresh == {b \in Due(clerk[c].advance) : posted[r][b] = 0}
             read == Store(advance[a], Reading(c, fresh, a))
  <2>1. RowKept(advance[a], advance[a])
    BY DEF Columns, IssuedIsRow, RowKept
  <2>2. RowKept(advance[a], read) /\ \A paid : RowKept(advance[a], Recalculated(read, paid))
    BY ReadingKeepsRow
  <2>3. advance'[a] = advance[a] \/ advance'[a] = read
          \/ \E paid : advance'[a] = Recalculated(read, paid)
    BY DEF Pay
  <2> QED BY <2>1, <2>2, <2>3
<1> QED BY <1>1, <1>2 DEF RowsKept

(***************************************************************************)
(* Only issued advances are repaid.                                        *)
(***************************************************************************)
Repays ==
  /\ DOMAIN manual' = Advances /\ DOMAIN posted' = Runs
  /\ \A r \in Runs : DOMAIN posted'[r] = Advances
  /\ \A a \in Advances :
       /\ manual'[a] > 0 => manual[a] > 0 \/ advance[a].released
       /\ \A r \in Runs : posted'[r][a] > 0 => posted[r][a] > 0 \/ advance[a].released

LEMMA PayRepaysIssued ==
  ASSUME IssueInv, NEW c \in Clerks, NEW r \in Runs, Pay(c, r)
  PROVE  Repays
<1>1. clerk[c].busy
  BY DEF Pay, Acts
<1>2. \A a \in Due(clerk[c].advance) : a \in Advances /\ advance[a].released
  BY <1>1 DEF Due, Open, IssueInv, ReadAsIssued
<1>3. \A a \in Advances : posted'[r][a] = posted[r][a] \/ a \in Due(clerk[c].advance)
  BY DEF Pay, IssueInv, Columns
<1>4. \A s \in Runs : DOMAIN posted'[s] = Advances /\ (s # r => posted'[s] = posted[s])
  BY DEF Pay, IssueInv, Columns
<1>5. DOMAIN posted' = Runs /\ manual' = manual
  BY DEF Pay, IssueInv, Columns
<1> QED BY <1>2, <1>3, <1>4, <1>5 DEF Repays, IssueInv, Columns

LEMMA AdjustRepaysIssued ==
  ASSUME IssueInv, NEW c \in Clerks, NEW r \in Runs, NEW cash, Adjust(c, r, cash)
  PROVE  Repays
<1>1. manual' = manual /\ posted' = [posted EXCEPT ![r] = [a \in Advances |-> 0]]
  BY DEF Adjust
<1> QED BY <1>1 DEF Repays, IssueInv, Columns

LEMMA ManualRepaysIssued ==
  ASSUME IssueInv, NEW a \in Advances, NEW n \in Amounts, ManualRepayment(a, n)
  PROVE  Repays
<1>1. advance[a].released /\ posted' = posted /\ manual' = [manual EXCEPT ![a] = @ + n]
  BY DEF ManualRepayment
<1> QED BY <1>1 DEF Repays, IssueInv, Columns

(***************************************************************************)
(* One step: the rows are kept, repayments are of issued advances, and a   *)
(* request remembers what was there.                                       *)
(***************************************************************************)
Remembers ==
  /\ DOMAIN clerk' = Clerks
  /\ \A c \in Clerks :
       \/ clerk'[c] = clerk[c]
       \/ ~clerk'[c].busy
       \/ clerk'[c].advance = advance /\ advance' = advance

LEMMA ActsRemembers ==
  ASSUME Columns, NEW c \in Clerks, Acts(c)
  PROVE  Remembers
BY DEF Acts, Remembers, Idle, Columns

LEMMA StepKeepsInv ==
  ASSUME IssueInv, RowsKept, Repays, Remembers
  PROVE  IssueInv'
<1>1. Columns'
  BY DEF IssueInv, Columns, RowsKept, RowKept, Repays, Remembers
<1>2. IssuedIsRow'
  BY DEF IssuedIsRow, RowsKept, RowKept
<1>3. ReadAsIssued'
  BY DEF IssueInv, ReadAsIssued, RowsKept, RowKept, Remembers
<1>4. RepaidWasIssued'
  BY DEF IssueInv, RepaidWasIssued, RowsKept, RowKept, Repays
<1> QED BY <1>1, <1>2, <1>3, <1>4 DEF IssueInv

LEMMA Unmoved ==
  ASSUME IssueInv
  PROVE  /\ UNCHANGED advance => RowsKept
         /\ UNCHANGED <<manual, posted>> => Repays
         /\ UNCHANGED clerk => Remembers
<1>1. UNCHANGED advance => RowsKept
  BY DEF IssueInv, Columns, IssuedIsRow, RowsKept, RowKept
<1>2. UNCHANGED <<manual, posted>> => Repays
  BY DEF IssueInv, Columns, Repays
<1>3. UNCHANGED clerk => Remembers
  BY DEF IssueInv, Columns, Remembers
<1> QED BY <1>1, <1>2, <1>3
LEMMA IssueInit == Init => IssueInv
<1> SUFFICES ASSUME Init PROVE IssueInv
  OBVIOUS
<1>1. Columns
  BY DEF Init, Columns, NoAdvance
<1>2. IssuedIsRow
  BY DEF Init, IssuedIsRow, NoAdvance
<1>3. ReadAsIssued
  BY DEF Init, ReadAsIssued, Idle
<1>4. RepaidWasIssued
  BY DEF Init, RepaidWasIssued
<1> QED BY <1>1, <1>2, <1>3, <1>4 DEF IssueInv

LEMMA IssueNext == IssueInv /\ [Next]_vars => IssueInv'
<1> SUFFICES ASSUME IssueInv, [Next]_vars PROVE IssueInv'
  OBVIOUS
<1> USE DEF IssueInv
<1>1. CASE UNCHANGED vars
  BY <1>1, Unmoved, StepKeepsInv DEF vars, ledger
<1>2. ASSUME NEW c \in Clerks, Load(c) PROVE IssueInv'
  <2>1. Remembers
    BY <1>2 DEF Load, Now, Remembers, Columns, ledger
  <2> QED BY <1>2, <2>1, Unmoved, StepKeepsInv DEF Load, ledger
<1>3. ASSUME NEW c \in Clerks, Refuse(c) PROVE IssueInv'
  <2>1. Remembers
    BY <1>3 DEF Refuse, Idle, Remembers, Columns
  <2> QED BY <1>3, <2>1, Unmoved, StepKeepsInv DEF Refuse, ledger
<1>4. ASSUME NEW c \in Clerks, NEW a \in Advances,
             Edit(c, a) \/ Approve(c, a) \/ Reject(c, a) \/ Cancel(c, a)
      PROVE  IssueInv'
  <2>1. RowsKept
    <3>1. Amounts # {}
      BY AmountsAssumption DEF Amounts
    <3> QED BY <1>4, <3>1, RequestKeepsRows
  <2>2. Acts(c) /\ UNCHANGED <<manual, posted>>
    BY <1>4 DEF Edit, Approve, Reject, Cancel
  <2> QED BY <2>1, <2>2, ActsRemembers, Unmoved, StepKeepsInv
<1>5. ASSUME NEW c \in Clerks, NEW a \in Advances, NEW n \in Amounts,
             CorrectAmount(c, a, n) \/ SettleCredit(c, a, n)
      PROVE  IssueInv'
  <2>1. RowsKept
    BY <1>5, RequestKeepsRows
  <2>2. Acts(c) /\ UNCHANGED <<manual, posted>>
    BY <1>5 DEF CorrectAmount, SettleCredit
  <2> QED BY <2>1, <2>2, ActsRemembers, Unmoved, StepKeepsInv
<1>6. ASSUME NEW c \in Clerks, NEW a \in Advances, NEW b \in Advances, NEW n \in Amounts,
             OffsetCredit(c, a, b, n)
      PROVE  IssueInv'
  <2>1. RowsKept
    BY <1>6, OffsetKeepsRows
  <2>2. Acts(c) /\ UNCHANGED <<manual, posted>>
    BY <1>6 DEF OffsetCredit
  <2> QED BY <2>1, <2>2, ActsRemembers, Unmoved, StepKeepsInv
<1>7. ASSUME NEW c \in Clerks, NEW r \in Runs,
             Recalculate(c, r) \/ ApproveRun(c, r) \/ ReopenRun(c, r)
      PROVE  IssueInv'
  <2>1. Acts(c) /\ UNCHANGED <<advance, manual, posted>>
    BY <1>7 DEF Recalculate, ApproveRun, ReopenRun
  <2> QED BY <2>1, ActsRemembers, Unmoved, StepKeepsInv
<1>8. ASSUME NEW c \in Clerks, NEW r \in Runs, Pay(c, r) PROVE IssueInv'
  <2>1. Acts(c)
    BY <1>8 DEF Pay
  <2> QED BY <1>8, <2>1, PayKeepsRows, PayRepaysIssued, ActsRemembers, StepKeepsInv
<1>9. ASSUME NEW c \in Clerks, NEW r \in Runs, NEW cash, Adjust(c, r, cash) PROVE IssueInv'
  <2>1. Acts(c)
    BY <1>9 DEF Adjust
  <2> QED BY <1>9, <2>1, AdjustKeepsRows, AdjustRepaysIssued, ActsRemembers, StepKeepsInv
<1>10. ASSUME NEW a \in Advances, NEW n \in Amounts,
              Create(a, n) \/ Release(a) \/ ManualRepayment(a, n)
       PROVE  IssueInv'
  <2>1. RowsKept
    BY <1>10, OfficeKeepsRows
  <2>2. UNCHANGED clerk
    BY <1>10 DEF Create, Release, ManualRepayment
  <2>3. CASE Create(a, n) \/ Release(a)
    <3>1. UNCHANGED <<manual, posted>>
      BY <2>3 DEF Create, Release
    <3> QED BY <2>1, <2>2, <3>1, Unmoved, StepKeepsInv
  <2>4. CASE ManualRepayment(a, n)
    BY <2>1, <2>2, <2>4, ManualRepaysIssued, Unmoved, StepKeepsInv
  <2> QED BY <1>10, <2>3, <2>4
<1>11. ASSUME NEW a \in Advances, Release(a) PROVE IssueInv'
  <2>1. Amounts # {}
    BY AmountsAssumption DEF Amounts
  <2> QED BY <1>10, <1>11, <2>1
<1>12. ASSUME NEW r \in Runs, CreateDraft(r) PROVE IssueInv'
  <2>1. UNCHANGED <<advance, manual, posted, clerk>>
    BY <1>12 DEF CreateDraft
  <2> QED BY <2>1, Unmoved, StepKeepsInv
<1> QED
  BY <1>1, <1>2, <1>3, <1>4, <1>5, <1>6, <1>7, <1>8, <1>9, <1>10, <1>11, <1>12
  DEF Next, Request

(***************************************************************************)
(* Money is repaid only for money that was issued.                         *)
(***************************************************************************)
THEOREM RepaymentsAreOfIssued == Spec => []RepaidWasIssued
<1>1. IssueInv => RepaidWasIssued
  BY DEF IssueInv
<1> QED BY <1>1, IssueInit, IssueNext, PTL DEF Spec
-----------------------------------------------------------------------------
(* Money.  As long as no request acted on what had changed since it read it, the ledger is *)
(* sound; the sums are of FiniteSums.                                                    *)
OwedStatuses == {"Released", "Partially Paid", "Fully Paid"}

(* A row as recalculate_balance finds it, of an advance of which paid is repaid and s was *)
(* settled in credit.                                                                     *)
Ready(row, paid, s) ==
  /\ row \in Rows
  /\ row.amount = row.opening /\ row.opening > 0
  /\ row.status # "Absent"
  /\ row.status \in {"Partially Paid", "Fully Paid"} => paid > 0
  /\ row.released => row.status \in OwedStatuses
  /\ paid <= row.opening + row.credit + s

(* A row as it is kept: its stored balance covers what is owed. *)
Sound(row, paid, s) ==
  /\ row \in Rows
  /\ row.status = "Absent" => /\ row.amount = 0 /\ row.opening = 0 /\ row.credit = 0
                              /\ ~row.released /\ paid <= s
  /\ row.status # "Absent" => Ready(row, paid, s)
  /\ row.balance >= Less(row.opening, paid)

PaidRuns(items) == {r \in Runs : items[r].status = "Paid"}
PaidOf(m, p, items, a) == m[a] + MapThenSumSet(LAMBDA r : p[r][a], PaidRuns(items))
Withheld(item) == IF item.status = "Paid" THEN item.deduction ELSE 0

LedgerOK ==
  /\ advance \in [Advances -> Rows] /\ manual \in [Advances -> Nat]
  /\ posted \in [Runs -> [Advances -> Nat]] /\ run \in [Runs -> Items]
  /\ settled \in [Advances -> Nat]
RowsSound == \A a \in Advances : Sound(advance[a], PaidOf(manual, posted, run, a), settled[a])
RunsSound == \A r \in Runs : Tally(posted[r], Advances) <= Withheld(run[r])
MoneyInv == stale \in BOOLEAN /\ (~stale => LedgerOK /\ RowsSound /\ RunsSound)

LEMMA PaidIsPaidOf == \A a \in Advances : Paid(a) = PaidOf(manual, posted, run, a)
BY DEF Paid, PaidOf, PaidRuns

(* The repayments of the paid runs, as a sum. *)
LEMMA PaidIsTally ==
  ASSUME NEW m \in [Advances -> Nat], NEW p \in [Runs -> [Advances -> Nat]], NEW items,
         NEW a \in Advances
  PROVE  /\ PaidOf(m, p, items, a) = m[a] + Tally([r \in Runs |-> p[r][a]], PaidRuns(items))
         /\ PaidOf(m, p, items, a) \in Nat
         /\ Tally([r \in Runs |-> p[r][a]], PaidRuns(items)) \in Nat
<1> DEFINE f == [r \in Runs |-> p[r][a]]
           S == PaidRuns(items)
<1>1. IsFiniteSet(S)
  BY RunsAssumption, FS_Subset DEF PaidRuns
<1>2. \A r \in S : r \in Runs /\ f[r] = p[r][a] /\ f[r] \in Nat
  BY DEF PaidRuns
<1>3. MapThenSumSet(LAMBDA r : p[r][a], S) = Tally(f, S) /\ Tally(f, S) \in Nat
  <2> DEFINE g == [r \in S |-> p[r][a]]
  <2> HIDE DEF S
  <2>1. \A r \in S : g[r] \in Nat /\ g[r] = f[r]
    BY <1>2
  <2>2. MapThenSumSet(LAMBDA r : g[r], S) = Tally(g, S) /\ Tally(g, S) \in Nat
    BY <1>1, <2>1, SumIsTally, UnitsAreFinite
  <2>3. MapThenSumSet(LAMBDA r : g[r], S) = MapThenSumSet(LAMBDA r : p[r][a], S)
    BY ZenonT(90) DEF MapThenSumSet, MapThenFoldSet
  <2>4. Tally(g, S) = Tally(f, S)
    <3> HIDE DEF f, g
    <3> QED BY <2>1, TallyOfSame
  <2> QED BY <2>2, <2>3, <2>4
<1>5. m[a] \in Nat
  OBVIOUS
<1> HIDE DEF f, S
<1>6. PaidOf(m, p, items, a) = m[a] + Tally(f, S)
  BY <1>3 DEF PaidOf, S
<1> QED BY <1>3, <1>5, <1>6 DEF f, S

(* What is repaid depends on the repayments of the paid runs alone. *)
LEMMA SamePaid ==
  ASSUME NEW m \in [Advances -> Nat], NEW p \in [Runs -> [Advances -> Nat]], NEW items,
         NEW q \in [Runs -> [Advances -> Nat]], NEW jtems, NEW a \in Advances,
         PaidRuns(jtems) = PaidRuns(items),
         \A r \in PaidRuns(items) : q[r][a] = p[r][a]
  PROVE  PaidOf(m, q, jtems, a) = PaidOf(m, p, items, a)
<1> DEFINE f == [r \in Runs |-> p[r][a]]
           g == [r \in Runs |-> q[r][a]]
           S == PaidRuns(items)
<1>1. \A r \in S : f[r] = g[r]
  BY DEF PaidRuns
<1>2. PaidOf(m, p, items, a) = m[a] + Tally(f, S)
  BY PaidIsTally
<1>3. PaidOf(m, q, jtems, a) = m[a] + Tally(g, S)
  <2>1. /\ PaidOf(m, q, jtems, a) = m[a] + Tally([r \in Runs |-> q[r][a]], PaidRuns(jtems))
        /\ PaidOf(m, q, jtems, a) \in Nat
        /\ Tally([r \in Runs |-> q[r][a]], PaidRuns(jtems)) \in Nat
    <3> HIDE DEF f, g, S
    <3> QED BY PaidIsTally, Zenon
  <2> QED BY <2>1
<1> HIDE DEF f, g, S
<1>4. Tally(f, S) = Tally(g, S)
  BY <1>1, TallyOfSame
<1> QED BY <1>2, <1>3, <1>4

(* The repayments of one more paid run. *)
LEMMA OneMorePaid ==
  ASSUME NEW m \in [Advances -> Nat], NEW p \in [Runs -> [Advances -> Nat]], NEW items,
         NEW q \in [Runs -> [Advances -> Nat]], NEW jtems, NEW a \in Advances, NEW z \in Runs
  PROVE  (/\ z \notin PaidRuns(items) /\ PaidRuns(jtems) = PaidRuns(items) \cup {z}
          /\ \A s \in Runs \ {z} : q[s] = p[s])
         => PaidOf(m, q, jtems, a) = PaidOf(m, p, items, a) + q[z][a]
<1> DEFINE f == [r \in Runs |-> p[r][a]]
           g == [r \in Runs |-> q[r][a]]
           S == PaidRuns(items)
<1>1. PaidOf(m, p, items, a) = m[a] + Tally(f, S) /\ Tally(f, S) \in Nat
  <2>1. /\ PaidOf(m, p, items, a) = m[a] + Tally([r \in Runs |-> p[r][a]], PaidRuns(items))
        /\ PaidOf(m, p, items, a) \in Nat
        /\ Tally([r \in Runs |-> p[r][a]], PaidRuns(items)) \in Nat
    <3> HIDE DEF f, g, S
    <3> QED BY PaidIsTally, Zenon
  <2> QED BY <2>1
<1>2. PaidOf(m, q, jtems, a) = m[a] + Tally(g, PaidRuns(jtems))
  <2>1. /\ PaidOf(m, q, jtems, a) = m[a] + Tally([r \in Runs |-> q[r][a]], PaidRuns(jtems))
        /\ PaidOf(m, q, jtems, a) \in Nat
        /\ Tally([r \in Runs |-> q[r][a]], PaidRuns(jtems)) \in Nat
    <3> HIDE DEF f, g, S
    <3> QED BY PaidIsTally, Zenon
  <2> QED BY <2>1
<1> SUFFICES ASSUME z \notin PaidRuns(items), PaidRuns(jtems) = PaidRuns(items) \cup {z},
                    \A s \in Runs \ {z} : q[s] = p[s]
             PROVE  PaidOf(m, q, jtems, a) = PaidOf(m, p, items, a) + q[z][a]
  OBVIOUS
<1>3. \A s \in S : f[s] = g[s]
  BY DEF PaidRuns
<1>4. IsFiniteSet(S)
  BY RunsAssumption, FS_Subset DEF PaidRuns
<1>5. \A s \in S \cup {z} : g[s] \in Nat
  BY DEF PaidRuns
<1>6. g[z] = q[z][a] /\ q[z][a] \in Nat /\ m[a] \in Nat
  OBVIOUS
<1>7. PaidRuns(jtems) = S \cup {z}
  OBVIOUS
<1> HIDE DEF f, g, S
<1>8. Tally(g, S \cup {z}) = Tally(g, S) + g[z]
  BY <1>4, <1>5, TallyOfOneMore DEF S
<1>9. Tally(f, S) = Tally(g, S)
  BY <1>3, TallyOfSame
<1>10. PaidOf(m, q, jtems, a) = m[a] + (Tally(f, S) + g[z])
  BY <1>2, <1>7, <1>8, <1>9, Zenon
<1> QED BY <1>1, <1>6, <1>10

(* A run that has posted nothing in all has posted nothing to any advance, and conversely. *)
LEMMA NothingPosted ==
  ASSUME NEW p \in [Advances -> Nat]
  PROVE  /\ Tally(p, Advances) <= 0 => \A a \in Advances : p[a] = 0
         /\ (\A a \in Advances : p[a] = 0) => Tally(p, Advances) <= 0
<1>1. IsFiniteSet(Advances)
  BY AdvancesAssumption
<1>2. ASSUME NEW a \in Advances, Tally(p, Advances) <= 0 PROVE p[a] = 0
  <2>1. Tally(p, {} \cup {a}) = Tally(p, {}) + p[a]
    BY FS_EmptySet, TallyOfOneMore
  <2>2. Tally(p, {}) = 0 /\ {} \cup {a} = {a}
    BY TallyOfNone
  <2>3. Tally(p, {a}) <= Tally(p, Advances)
    BY <1>1, TallyGrows
  <2>4. Tally(p, {a}) \in Nat /\ Tally(p, Advances) \in Nat
    BY <1>1, FS_Singleton, UnitsAreFinite
  <2> QED BY <1>2, <2>1, <2>2, <2>3, <2>4
<1>3. ASSUME \A a \in Advances : p[a] = 0 PROVE Tally(p, Advances) <= 0
  <2>1. Units(p, Advances) = {}
    BY <1>3 DEF Units
  <2> QED BY <2>1, FS_EmptySet DEF Tally
<1> QED BY <1>2, <1>3

-----------------------------------------------------------------------------
(* recalculate_balance makes a ready row sound. *)
LEMMA RecalculatedIsSound ==
  ASSUME NEW row, NEW paid \in Nat, NEW s \in Nat, Ready(row, paid, s)
  PROVE  Sound(Recalculated(row, paid), paid, s) /\ Ready(Recalculated(row, paid), paid, s)
<1> DEFINE sum == Summary(row, paid)
           new == Recalculated(row, paid)
<1>1. /\ row \in Rows /\ row.amount = row.opening /\ row.opening > 0 /\ row.opening \in Nat
      /\ row.credit \in Nat /\ row.status # "Absent" /\ row.status \in Statuses
  BY DEF Ready, Rows
<1>2. /\ sum.balance = Less(row.opening, paid) /\ sum.balance \in Nat
      /\ sum.repaid = paid
  BY <1>1 DEF Summary, Less
<1>3. sum.balance = 0 => paid > 0
  BY <1>1, <1>2 DEF Less
<1>4. /\ sum.status \in Statuses \ {"Absent"}
      /\ sum.status \in {"Partially Paid", "Fully Paid"} => paid > 0
      /\ row.status \in OwedStatuses => sum.status \in OwedStatuses
  <2> DEFINE st == sum.status
  <2>1. /\ row.status = "Cancelled" => st = "Cancelled"
        /\ row.status # "Cancelled" /\ sum.balance = 0 => st = "Fully Paid"
        /\ row.status # "Cancelled" /\ sum.balance # 0 /\ sum.repaid # 0 => st = "Partially Paid"
        /\ row.status # "Cancelled" /\ sum.balance # 0 /\ sum.repaid = 0 =>
             st = IF row.status \in {"Pending", "Rejected", "Released"} THEN row.status ELSE "Active"
    BY DEF Summary
  <2>2. row.status \in {"Partially Paid", "Fully Paid"} => paid > 0
    BY DEF Ready
  <2> HIDE DEF st, sum
  <2>3. st \in Statuses \ {"Absent"}
    BY <1>1, <2>1 DEF Statuses
  <2>4. st \in {"Partially Paid", "Fully Paid"} => sum.balance = 0 \/ sum.repaid # 0
    BY <2>1
  <2>5. row.status \in OwedStatuses => st \in OwedStatuses
    <3>1. sum.repaid = 0 => row.status \notin {"Partially Paid", "Fully Paid"}
      <4>1. sum.repaid = 0 => ~(paid > 0)
        BY <1>2
      <4> QED BY <2>2, <4>1, Zenon
    <3> QED BY <2>1, <3>1 DEF OwedStatuses
  <2>6. sum.balance = 0 \/ sum.repaid # 0 => paid > 0
    BY <1>2, <1>3
  <2> QED BY <2>3, <2>4, <2>5, <2>6 DEF st
<1>5. /\ new \in Rows /\ new.amount = row.amount /\ new.opening = row.opening
      /\ new.credit = row.credit /\ new.released = row.released
      /\ new.status = sum.status /\ new.balance = sum.balance
  <2> DEFINE st == sum.status  bal == sum.balance
  <2>1. st \in Statuses /\ bal \in Nat
    BY <1>2, <1>4
  <2>2. new = [row EXCEPT !.balance = bal, !.status = st]
    BY DEF Recalculated, Store
  <2> HIDE DEF st, bal, new
  <2>3. /\ new \in Rows /\ new.amount = row.amount /\ new.opening = row.opening
        /\ new.credit = row.credit /\ new.released = row.released
        /\ new.status = st /\ new.balance = bal
    BY <1>1, <2>1, <2>2 DEF Rows
  <2> QED BY <2>3 DEF st, bal
<1> HIDE DEF new, sum
<1>6. Ready(new, paid, s)
  <2>1. row.released => row.status \in OwedStatuses
    BY DEF Ready
  <2>2. paid <= row.opening + row.credit + s
    BY DEF Ready
  <2>3. new.released => new.status \in OwedStatuses
    BY <1>4, <1>5, <2>1
  <2> QED BY <1>1, <1>4, <1>5, <2>2, <2>3 DEF Ready
<1>7. Sound(new, paid, s)
  <2>1. new.balance >= Less(new.opening, paid)
    BY <1>2, <1>5
  <2> QED BY <1>1, <1>4, <1>5, <1>6, <2>1 DEF Sound
<1> QED BY <1>6, <1>7 DEF new

(* A row stays sound when more is repaid, if it is not more than is accounted for. *)
LEMMA SoundWithMore ==
  ASSUME NEW row, NEW paid \in Nat, NEW more \in Nat, NEW s \in Nat, Sound(row, paid, s),
         row.status # "Absent", paid <= more, more <= row.opening + row.credit + s
  PROVE  Sound(row, more, s)
<1>1. row.opening \in Nat /\ row.balance \in Nat /\ row.credit \in Nat
  BY DEF Sound, Rows
<1>2. Ready(row, paid, s)
  BY DEF Sound
<1>3. Ready(row, more, s)
  <2>1. paid > 0 => more > 0
    OBVIOUS
  <2> QED BY <1>2, <2>1 DEF Ready
<1>4. row.balance >= Less(row.opening, more)
  BY <1>1 DEF Sound, Less
<1> QED BY <1>3, <1>4 DEF Sound

-----------------------------------------------------------------------------
(* What an act of a request that nothing came in between has read: the ledger as it is. *)
LEMMA ActsOnTheLedger ==
  ASSUME NEW c \in Clerks, Acts(c), stale \in BOOLEAN, ~stale'
  PROVE  /\ ~stale /\ stale' \in BOOLEAN
         /\ clerk[c].advance = advance /\ clerk[c].run = run
         /\ \A a \in Advances : clerk[c].paid[a] = PaidOf(manual, posted, run, a)
<1>1. stale' = (stale \/ clerk[c] # Now)
  BY DEF Acts
<1>2. ~stale /\ clerk[c] = Now
  BY <1>1
<1>3. /\ Now.advance = advance /\ Now.run = run
      /\ \A a \in Advances : Now.paid[a] = Paid(a)
  BY DEF Now
<1>4. stale' \in BOOLEAN
  BY <1>1
<1>5. clerk[c].advance = advance /\ clerk[c].run = run
  BY <1>2, <1>3, Zenon
<1>6. \A a \in Advances : clerk[c].paid[a] = PaidOf(manual, posted, run, a)
  BY <1>2, <1>3, PaidIsPaidOf, Zenon
<1> QED BY <1>2, <1>4, <1>5, <1>6

(* The runs keep within what they withheld when repayments and paid runs are as they were. *)
LEMMA WriteKeepsMoney ==
  ASSUME LedgerOK, RowsSound, RunsSound, NEW a \in Advances, NEW row, Write(a, row),
         settled' \in [Advances -> Nat], \A b \in Advances \ {a} : settled'[b] = settled[b],
         UNCHANGED <<manual, posted, run>>,
         Ready(row, PaidOf(manual, posted, run, a), settled'[a])
  PROVE  LedgerOK' /\ RowsSound' /\ RunsSound'
<1> DEFINE new == Recalculated(row, Paid(a))
<1>1. PaidOf(manual, posted, run, a) \in Nat /\ settled'[a] \in Nat
  BY PaidIsTally DEF LedgerOK
<1>2. Sound(new, PaidOf(manual, posted, run, a), settled'[a])
  BY <1>1, PaidIsPaidOf, RecalculatedIsSound
<1>3. advance' = [advance EXCEPT ![a] = new]
  BY DEF Write
<1> HIDE DEF new
<1>4. new \in Rows
  BY <1>2 DEF Sound
<1>5. LedgerOK'
  BY <1>3, <1>4 DEF LedgerOK
<1>6. advance'[a] = new /\ \A b \in Advances \ {a} : advance'[b] = advance[b]
  BY <1>3 DEF LedgerOK
<1>7. RowsSound'
  <2> SUFFICES ASSUME NEW b \in Advances
               PROVE  Sound(advance'[b], PaidOf(manual', posted', run', b), settled'[b])
    BY DEF RowsSound
  <2>1. CASE b = a
    BY <1>2, <1>6, <2>1
  <2>2. CASE b # a
    BY <1>6, <2>2 DEF RowsSound
  <2> QED BY <2>1, <2>2
<1>8. RunsSound'
  BY DEF RunsSound
<1> QED BY <1>5, <1>7, <1>8

(* A row with another column than those that the books add up. *)
LEMMA Restated ==
  ASSUME NEW row, NEW paid, NEW s, Sound(row, paid, s), row.status # "Absent",
         NEW status \in Statuses, NEW appr \in BOOLEAN,
         status # "Absent", status \notin {"Partially Paid", "Fully Paid"} \/ status = row.status,
         row.released => status \in OwedStatuses
  PROVE  Ready([row EXCEPT !.status = status, !.approved = appr], paid, s)
<1> DEFINE new == [row EXCEPT !.status = status, !.approved = appr]
<1>1. Ready(row, paid, s) /\ row \in Rows
  BY DEF Sound
<1>2. /\ new \in Rows /\ new.status = status /\ new.amount = row.amount
      /\ new.opening = row.opening /\ new.credit = row.credit /\ new.released = row.released
  BY <1>1 DEF Rows
<1> HIDE DEF new
<1>3. Ready(new, paid, s)
  BY <1>1, <1>2 DEF Ready
<1> QED BY <1>3 DEF new

LEMMA CreateKeepsMoney ==
  ASSUME LedgerOK, RowsSound, RunsSound, NEW a \in Advances, NEW n \in Amounts, Create(a, n)
  PROVE  LedgerOK' /\ RowsSound' /\ RunsSound'
<1> DEFINE row == [NoAdvance EXCEPT !.status = "Pending", !.amount = n, !.opening = n]
           paid == PaidOf(manual, posted, run, a)
<1>1. /\ advance[a].status = "Absent" /\ Write(a, row)
      /\ UNCHANGED <<manual, posted, run>> /\ settled' = settled
  BY DEF Create
<1>2. n \in Nat /\ n > 0
  BY AmountsAssumption DEF Amounts
<1>3. paid \in Nat /\ settled[a] \in Nat /\ paid <= settled[a]
  BY <1>1, PaidIsTally DEF LedgerOK, RowsSound, Sound
<1>4. /\ row \in Rows /\ row.amount = n /\ row.opening = n /\ row.status = "Pending"
      /\ row.credit = 0 /\ ~row.released
  BY <1>2 DEF NoAdvance, Rows, Statuses
<1> HIDE DEF row, paid
<1>5. Ready(row, paid, settled[a])
  BY <1>2, <1>3, <1>4 DEF Ready
<1>6. settled' \in [Advances -> Nat]
  BY <1>1 DEF LedgerOK
<1> QED BY <1>1, <1>5, <1>6, WriteKeepsMoney DEF paid

(* Edits, approvals, rejections and cancellations of what was not issued. *)
LEMMA ReviewKeepsMoney ==
  ASSUME LedgerOK, RowsSound, RunsSound, stale \in BOOLEAN, ~stale',
         NEW c \in Clerks, NEW a \in Advances,
         Edit(c, a) \/ Approve(c, a) \/ Reject(c, a) \/ Cancel(c, a)
  PROVE  LedgerOK' /\ RowsSound' /\ RunsSound'
<1> DEFINE old == advance[a]
           paid == PaidOf(manual, posted, run, a)
<1>1. Acts(c) /\ UNCHANGED <<manual, posted, run>> /\ settled' = settled
  BY DEF Edit, Approve, Reject, Cancel
<1>2. clerk[c].advance = advance
  BY <1>1, ActsOnTheLedger
<1>3. old \in Rows /\ Sound(old, paid, settled[a])
  BY DEF LedgerOK, RowsSound
<1>4. settled' \in [Advances -> Nat]
  BY <1>1 DEF LedgerOK
<1>5. \A row : Write(a, row) /\ Ready(row, paid, settled[a])
               => LedgerOK' /\ RowsSound' /\ RunsSound'
  BY <1>1, <1>4, WriteKeepsMoney
<1>6. CASE Edit(c, a)
  <2>1. old.status # "Absent" /\ Write(a, [old EXCEPT !.amount = old.amount])
    BY <1>2, <1>6 DEF Edit
  <2>2. [old EXCEPT !.amount = old.amount] = old
    BY <1>3 DEF Rows
  <2>3. Ready(old, paid, settled[a])
    BY <1>3, <2>1 DEF Sound
  <2> QED BY <1>5, <2>1, <2>2, <2>3
<1>7. CASE Approve(c, a)
  <2> DEFINE row == [old EXCEPT !.status = "Active", !.approved = TRUE]
  <2>1. old.status \in {"Pending", "Rejected"} /\ Write(a, row)
    BY <1>2, <1>7 DEF Approve
  <2>2. old.status # "Absent" /\ ~old.released
    BY <1>3, <2>1 DEF Sound, Ready, OwedStatuses
  <2>3. Ready(row, paid, settled[a])
    BY <1>3, <2>2, Restated DEF Statuses
  <2> HIDE DEF row
  <2> QED BY <1>5, <2>1, <2>3
<1>8. CASE Reject(c, a)
  <2> DEFINE row == [old EXCEPT !.status = "Rejected"]
  <2>1. old.status = "Pending" /\ Write(a, row)
    BY <1>2, <1>8 DEF Reject
  <2>2. old.status # "Absent" /\ ~old.released
    BY <1>3, <2>1 DEF Sound, Ready, OwedStatuses
  <2>3. row = [old EXCEPT !.status = "Rejected", !.approved = old.approved] /\ old.approved \in BOOLEAN
    BY <1>3 DEF Rows
  <2>4. Ready(row, paid, settled[a])
    BY <1>3, <2>2, <2>3, Restated DEF Statuses
  <2> HIDE DEF row
  <2> QED BY <1>5, <2>1, <2>4
<1>9. CASE Cancel(c, a)
  <2> DEFINE row == [old EXCEPT !.status = "Cancelled"]
  <2>1. /\ old.status \in {"Pending", "Rejected", "Active", "Released"} /\ ~old.released
        /\ Write(a, row)
    BY <1>2, <1>9 DEF Cancel
  <2>2. row = [old EXCEPT !.status = "Cancelled", !.approved = old.approved] /\ old.approved \in BOOLEAN
    BY <1>3 DEF Rows
  <2>3. Ready(row, paid, settled[a])
    BY <1>3, <2>1, <2>2, Restated DEF Statuses
  <2> HIDE DEF row
  <2> QED BY <1>5, <2>1, <2>3
<1> QED BY <1>6, <1>7, <1>8, <1>9

(* Corrections of the amount, and credit that is settled. *)
LEMMA CreditKeepsMoney ==
  ASSUME LedgerOK, RowsSound, RunsSound, stale \in BOOLEAN, ~stale',
         NEW c \in Clerks, NEW a \in Advances, NEW n \in Amounts,
         CorrectAmount(c, a, n) \/ SettleCredit(c, a, n)
  PROVE  LedgerOK' /\ RowsSound' /\ RunsSound'
<1> DEFINE old == advance[a]
           paid == PaidOf(manual, posted, run, a)
<1>1. Acts(c) /\ UNCHANGED <<manual, posted, run>>
  BY DEF CorrectAmount, SettleCredit
<1>2. clerk[c].advance[a] = old /\ clerk[c].paid[a] = paid
  BY <1>1, ActsOnTheLedger
<1>3. old \in Rows /\ Sound(old, paid, settled[a]) /\ paid \in Nat /\ settled[a] \in Nat
  BY PaidIsTally DEF LedgerOK, RowsSound
<1>4. n \in Nat /\ n > 0
  BY AmountsAssumption DEF Amounts
<1>5. old.credit \in Nat /\ old.opening \in Nat
  BY <1>3 DEF Rows
<1>6. \A row : /\ Write(a, row) /\ Ready(row, paid, settled'[a])
               /\ settled' \in [Advances -> Nat]
               /\ \A b \in Advances \ {a} : settled'[b] = settled[b]
               => LedgerOK' /\ RowsSound' /\ RunsSound'
  BY <1>1, WriteKeepsMoney
<1>7. CASE CorrectAmount(c, a, n)
  <2> DEFINE over == Less(Summary(old, paid).repaid, n)
             row == [old EXCEPT !.amount = n, !.opening = n, !.credit = over]
  <2>1. old.status # "Absent" /\ Write(a, row) /\ settled' = settled
    BY <1>2, <1>7 DEF CorrectAmount
  <2>2. Ready(old, paid, settled[a])
    BY <1>3, <2>1 DEF Sound
  <2>3. Summary(old, paid).repaid = paid
    <3>1. old.amount = old.opening
      BY <2>2 DEF Ready
    <3> QED BY <1>3, <1>5, <3>1 DEF Summary, Less
  <2>4. over \in Nat /\ paid <= n + over
    BY <1>3, <1>4, <2>3 DEF Less
  <2> HIDE DEF over
  <2>5. /\ row \in Rows /\ row.amount = n /\ row.opening = n /\ row.credit = over
        /\ row.status = old.status /\ row.released = old.released
    BY <1>3, <1>4, <2>4 DEF Rows
  <2> HIDE DEF row
  <2>6. paid <= row.opening + row.credit + settled[a]
    BY <1>3, <1>4, <2>4, <2>5
  <2>7. Ready(row, paid, settled[a])
    BY <1>4, <2>2, <2>5, <2>6 DEF Ready
  <2>8. settled' \in [Advances -> Nat] /\ settled'[a] = settled[a]
    BY <2>1 DEF LedgerOK
  <2> QED BY <1>6, <2>1, <2>7, <2>8
<1>8. CASE SettleCredit(c, a, n)
  <2> DEFINE rest == old.credit - n
             row == [old EXCEPT !.credit = rest]
  <2>1. n <= old.credit /\ Write(a, row) /\ settled' = [settled EXCEPT ![a] = @ + n]
    BY <1>2, <1>8 DEF SettleCredit
  <2>2. old.status # "Absent"
    BY <1>3, <1>4, <2>1 DEF Sound
  <2>3. Ready(old, paid, settled[a])
    BY <1>3, <2>2 DEF Sound
  <2>4. /\ settled' \in [Advances -> Nat] /\ settled'[a] = settled[a] + n
        /\ \A b \in Advances \ {a} : settled'[b] = settled[b]
    BY <1>3, <1>4, <2>1 DEF LedgerOK
  <2>5. rest \in Nat /\ rest + n = old.credit
    BY <1>4, <1>5, <2>1
  <2> HIDE DEF rest
  <2>6. /\ row \in Rows /\ row.amount = old.amount /\ row.opening = old.opening
        /\ row.credit = rest /\ row.status = old.status /\ row.released = old.released
    BY <1>3, <2>5 DEF Rows
  <2> HIDE DEF row
  <2>7. paid <= row.opening + row.credit + settled'[a]
    <3>1. paid <= old.opening + old.credit + settled[a]
      BY <2>3 DEF Ready
    <3> QED BY <1>3, <1>4, <1>5, <2>4, <2>5, <2>6, <3>1
  <2>8. Ready(row, paid, settled'[a])
    BY <2>3, <2>6, <2>7 DEF Ready
  <2> QED BY <1>6, <2>1, <2>4, <2>8
<1> QED BY <1>7, <1>8

LEMMA OffsetKeepsMoney ==
  ASSUME LedgerOK, RowsSound, RunsSound, stale \in BOOLEAN, ~stale',
         NEW c \in Clerks, NEW a \in Advances, NEW b \in Advances, NEW n \in Amounts,
         OffsetCredit(c, a, b, n)
  PROVE  LedgerOK' /\ RowsSound' /\ RunsSound'
<1> DEFINE old == advance[a]
           paid == PaidOf(manual, posted, run, a)
           rest == old.credit - n
           row == [old EXCEPT !.credit = rest]
           newA == Recalculated(row, Paid(a))
           newB == Recalculated(advance[b], Paid(b))
<1>1. /\ Acts(c) /\ a # b /\ UNCHANGED <<manual, posted, run>>
      /\ settled' = [settled EXCEPT ![a] = @ + n]
  BY DEF OffsetCredit
<1>2. clerk[c].advance = advance
  BY <1>1, ActsOnTheLedger
<1>3. /\ advance[b].status # "Absent" /\ n <= old.credit
      /\ advance' = [advance EXCEPT ![a] = newA, ![b] = newB]
  BY <1>1, <1>2 DEF OffsetCredit, LedgerOK
<1>4. /\ old \in Rows /\ Sound(old, paid, settled[a]) /\ paid \in Nat /\ settled[a] \in Nat
      /\ Sound(advance[b], PaidOf(manual, posted, run, b), settled[b])
      /\ PaidOf(manual, posted, run, b) \in Nat /\ settled[b] \in Nat
  BY PaidIsTally DEF LedgerOK, RowsSound
<1>5. n \in Nat /\ n > 0 /\ old.credit \in Nat /\ old.opening \in Nat
  BY <1>4, AmountsAssumption DEF Amounts, Rows
<1>6. Ready(old, paid, settled[a])
  <2>1. old.status # "Absent"
    BY <1>3, <1>4, <1>5 DEF Sound
  <2> QED BY <1>4, <2>1 DEF Sound
<1>7. /\ settled' \in [Advances -> Nat] /\ settled'[a] = settled[a] + n
      /\ \A d \in Advances \ {a} : settled'[d] = settled[d]
  BY <1>1, <1>4, <1>5 DEF LedgerOK
<1>8. rest \in Nat /\ rest + n = old.credit
  BY <1>3, <1>5
<1> HIDE DEF rest
<1>9. /\ row \in Rows /\ row.amount = old.amount /\ row.opening = old.opening
      /\ row.credit = rest /\ row.status = old.status /\ row.released = old.released
  BY <1>4, <1>8 DEF Rows
<1> HIDE DEF row
<1>10. Ready(row, paid, settled'[a])
  <2>1. paid <= old.opening + old.credit + settled[a]
    BY <1>6 DEF Ready
  <2>2. paid <= row.opening + row.credit + settled'[a]
    BY <1>4, <1>5, <1>7, <1>8, <1>9, <2>1
  <2> QED BY <1>6, <1>9, <2>2 DEF Ready
<1>11. Sound(newA, paid, settled'[a])
  <2>1. settled'[a] \in Nat
    BY <1>7
  <2> QED BY <1>4, <1>10, <2>1, PaidIsPaidOf, RecalculatedIsSound
<1>12. Sound(newB, PaidOf(manual, posted, run, b), settled'[b])
  <2>1. Ready(advance[b], PaidOf(manual, posted, run, b), settled[b])
    BY <1>3, <1>4 DEF Sound
  <2>2. settled'[b] = settled[b]
    BY <1>1, <1>7
  <2> QED BY <1>4, <2>1, <2>2, PaidIsPaidOf, RecalculatedIsSound
<1> HIDE DEF newA, newB
<1>13. newA \in Rows /\ newB \in Rows
  BY <1>11, <1>12 DEF Sound
<1>14. LedgerOK'
  BY <1>1, <1>3, <1>7, <1>13 DEF LedgerOK
<1>15. /\ advance'[a] = newA /\ advance'[b] = newB
       /\ \A d \in Advances \ {a, b} : advance'[d] = advance[d]
  BY <1>1, <1>3 DEF LedgerOK
<1>16. RowsSound'
  <2> SUFFICES ASSUME NEW d \in Advances
               PROVE  Sound(advance'[d], PaidOf(manual', posted', run', d), settled'[d])
    BY DEF RowsSound
  <2>1. CASE d = a
    BY <1>1, <1>11, <1>15, <2>1
  <2>2. CASE d = b
    BY <1>1, <1>12, <1>15, <2>2
  <2>3. CASE d \notin {a, b}
    BY <1>1, <1>7, <1>15, <2>3 DEF RowsSound
  <2> QED BY <2>1, <2>2, <2>3
<1>17. RunsSound'
  BY <1>1 DEF RunsSound
<1> QED BY <1>14, <1>16, <1>17

(* The release, and a repayment at the office, of what is still owed. *)
LEMMA OfficeKeepsMoney ==
  ASSUME LedgerOK, RowsSound, RunsSound, NEW a \in Advances, NEW n \in Amounts,
         Release(a) \/ ManualRepayment(a, n)
  PROVE  LedgerOK' /\ RowsSound' /\ RunsSound'
<1> DEFINE old == advance[a]
           paid == PaidOf(manual, posted, run, a)
<1>1. UNCHANGED <<posted, run>> /\ settled' = settled
  BY DEF Release, ManualRepayment
<1>2. old \in Rows /\ Sound(old, paid, settled[a]) /\ paid \in Nat /\ settled[a] \in Nat
  BY PaidIsTally DEF LedgerOK, RowsSound
<1>3. n \in Nat /\ n > 0 /\ old.credit \in Nat /\ old.opening \in Nat
  BY <1>2, AmountsAssumption DEF Amounts, Rows
<1>4. RunsSound'
  BY <1>1 DEF RunsSound
<1>5. CASE Release(a)
  <2> DEFINE new == [old EXCEPT !.status = "Released", !.released = TRUE]
  <2>1. /\ old.status \in {"Active", "Released"} /\ advance' = [advance EXCEPT ![a] = new]
        /\ manual' = manual
    BY <1>5 DEF Release
  <2>2. /\ new \in Rows /\ new.amount = old.amount /\ new.opening = old.opening
        /\ new.credit = old.credit /\ new.balance = old.balance /\ new.status = "Released"
    BY <1>2 DEF Rows, Statuses
  <2> HIDE DEF new
  <2>3. Ready(old, paid, settled[a])
    BY <1>2, <2>1 DEF Sound
  <2>4. Sound(new, paid, settled[a])
    <3>1. Ready(new, paid, settled[a])
      BY <2>2, <2>3 DEF Ready, OwedStatuses
    <3> QED BY <1>2, <2>2, <3>1 DEF Sound
  <2>5. advance'[a] = new /\ \A b \in Advances \ {a} : advance'[b] = advance[b]
    BY <2>1 DEF LedgerOK
  <2>6. LedgerOK'
    BY <1>1, <2>1, <2>2 DEF LedgerOK
  <2>7. RowsSound'
    <3> SUFFICES ASSUME NEW b \in Advances
                 PROVE  Sound(advance'[b], PaidOf(manual', posted', run', b), settled'[b])
      BY DEF RowsSound
    <3>1. CASE b = a
      BY <1>1, <2>1, <2>4, <2>5, <3>1
    <3>2. CASE b # a
      BY <1>1, <2>1, <2>5, <3>2 DEF RowsSound
    <3> QED BY <3>1, <3>2
  <2> QED BY <1>4, <2>6, <2>7
<1>6. CASE ManualRepayment(a, n)
  <2> DEFINE more == paid + n
             new == Recalculated(old, Paid(a) + n)
  <2>1. /\ old.released /\ n <= Owed(a) /\ manual' = [manual EXCEPT ![a] = @ + n]
        /\ advance' = [advance EXCEPT ![a] = new]
    BY <1>6 DEF ManualRepayment
  <2>2. old.status # "Absent"
    BY <1>2, <2>1 DEF Sound
  <2>3. Ready(old, paid, settled[a])
    BY <1>2, <2>2 DEF Sound
  <2>4. Paid(a) = paid /\ Owed(a) = Less(old.opening, paid)
    BY PaidIsPaidOf DEF Owed, Summary
  <2>5. more \in Nat /\ more <= old.opening
    BY <1>2, <1>3, <2>1, <2>4 DEF Less
  <2>6. Ready(old, more, settled[a])
    <3>1. more > 0 /\ more <= old.opening + old.credit + settled[a]
      BY <1>2, <1>3, <2>5
    <3> HIDE DEF more
    <3> QED BY <2>3, <3>1 DEF Ready
  <2>7. Sound(new, more, settled[a])
    <3>1. new = Recalculated(old, more)
      BY <2>4
    <3> HIDE DEF more, new
    <3> QED BY <1>2, <2>5, <2>6, <3>1, RecalculatedIsSound
  <2> HIDE DEF new
  <2>8. manual' \in [Advances -> Nat] /\ new \in Rows
    BY <1>3, <2>1, <2>7 DEF LedgerOK, Sound
  <2>9. LedgerOK'
    BY <1>1, <2>1, <2>8 DEF LedgerOK
  <2>10. /\ manual'[a] = manual[a] + n /\ advance'[a] = new
         /\ \A b \in Advances \ {a} : manual'[b] = manual[b] /\ advance'[b] = advance[b]
    BY <2>1 DEF LedgerOK
  <2>11. PaidOf(manual', posted, run, a) = more
    <3>1. /\ PaidOf(manual', posted, run, a)
               = manual'[a] + Tally([r \in Runs |-> posted[r][a]], PaidRuns(run))
      <4>1. manual' \in [Advances -> Nat] /\ posted \in [Runs -> [Advances -> Nat]]
        BY <2>8 DEF LedgerOK
      <4> HIDE DEF more, new, paid
      <4> QED BY <4>1, PaidIsTally
    <3>2. /\ paid = manual[a] + Tally([r \in Runs |-> posted[r][a]], PaidRuns(run))
          /\ Tally([r \in Runs |-> posted[r][a]], PaidRuns(run)) \in Nat
      BY PaidIsTally DEF LedgerOK
    <3>3. manual[a] \in Nat
      BY DEF LedgerOK
    <3> QED BY <1>3, <2>10, <3>1, <3>2, <3>3
  <2>12. RowsSound'
    <3> SUFFICES ASSUME NEW b \in Advances
                 PROVE  Sound(advance'[b], PaidOf(manual', posted', run', b), settled'[b])
      BY DEF RowsSound
    <3>1. CASE b = a
      BY <1>1, <2>7, <2>10, <2>11, <3>1
    <3>2. CASE b # a
      <4>1. PaidOf(manual', posted', run', b) = PaidOf(manual, posted, run, b)
        BY <1>1, <2>10, <3>2 DEF PaidOf
      <4> QED BY <1>1, <2>10, <3>2, <4>1 DEF RowsSound
    <3> QED BY <3>1, <3>2
  <2> QED BY <1>4, <2>9, <2>12
<1> QED BY <1>5, <1>6

-----------------------------------------------------------------------------
(* What a draft deducts fits into what is left to deduct from. *)
LEMMA ScheduledFits ==
  ASSUME NEW rows \in [Advances -> Rows], NEW S \in SUBSET Advances
  PROVE  Scheduled(rows, S) \in 0..Capacity
<1> DEFINE g == [a \in S |-> Least(rows[a].balance, Installment)]
           total == MapThenSumSet(LAMBDA a : Least(rows[a].balance, Installment), S)
<1>1. IsFiniteSet(S)
  BY AdvancesAssumption, FS_Subset
<1>2. \A a \in S : g[a] \in Nat
  <2> SUFFICES ASSUME NEW a \in S PROVE Least(rows[a].balance, Installment) \in Nat
    OBVIOUS
  <2>1. rows[a].balance \in Nat
    BY DEF Rows
  <2> QED BY <2>1, AmountsAssumption DEF Least
<1>3. MapThenSumSet(LAMBDA a : g[a], S) \in Nat
  <2> HIDE DEF g
  <2>1. MapThenSumSet(LAMBDA a : g[a], S) = Tally(g, S)
    BY <1>1, <1>2, SumIsTally
  <2> QED BY <1>1, <1>2, <2>1, UnitsAreFinite
<1>4. MapThenSumSet(LAMBDA a : g[a], S) = total
  BY ZenonT(90) DEF MapThenSumSet, MapThenFoldSet
<1>5. total \in Nat
  BY <1>3, <1>4
<1>6. Scheduled(rows, S) = Least(Capacity, total)
  BY DEF Scheduled
<1> HIDE DEF total
<1> QED BY <1>5, <1>6, AmountsAssumption DEF Least

(* A run that is not paid, before or after, has nothing to do with what is repaid. *)
LEMMA ItemKeepsMoney ==
  ASSUME LedgerOK, RowsSound, RunsSound, NEW r \in Runs, NEW item \in Items,
         run' = [run EXCEPT ![r] = item], run[r].status # "Paid", item.status # "Paid",
         UNCHANGED <<advance, manual, posted, settled>>
  PROVE  LedgerOK' /\ RowsSound' /\ RunsSound'
<1>1. run'[r] = item /\ \A s \in Runs \ {r} : run'[s] = run[s]
  BY DEF LedgerOK
<1>2. PaidRuns(run') = PaidRuns(run)
  BY <1>1 DEF PaidRuns
<1>3. LedgerOK'
  BY DEF LedgerOK
<1>4. \A a \in Advances : PaidOf(manual', posted', run', a) = PaidOf(manual, posted, run, a)
  BY <1>2 DEF PaidOf
<1>5. RowsSound'
  BY <1>4 DEF RowsSound
<1>6. \A s \in Runs : Withheld(run'[s]) = Withheld(run[s])
  BY <1>1 DEF Withheld
<1>7. RunsSound'
  BY <1>6 DEF RunsSound
<1> QED BY <1>3, <1>5, <1>7

LEMMA DraftKeepsMoney ==
  ASSUME LedgerOK, RowsSound, RunsSound, NEW r \in Runs, CreateDraft(r)
  PROVE  LedgerOK' /\ RowsSound' /\ RunsSound'
<1> DEFINE ded == Scheduled(advance, {a \in Open(advance) : advance[a].status # "Rejected"})
           item == [NoItem EXCEPT !.status = "Draft", !.deduction = ded]
<1>1. /\ run[r].status = "Absent" /\ run' = [run EXCEPT ![r] = item]
      /\ UNCHANGED <<advance, manual, posted, settled>>
  BY DEF CreateDraft
<1>2. ded \in 0..Capacity
  BY ScheduledFits DEF LedgerOK, Open
<1> HIDE DEF ded
<1>3. item \in Items /\ item.status = "Draft"
  <2> DEFINE no == FALSE
  <2>1. no \in BOOLEAN /\ 0 \in 0..Capacity
    BY AmountsAssumption
  <2>2. NoItem = [status |-> "Absent", deduction |-> 0, paid |-> no, saved |-> no, cash |-> 0]
    BY Zenon DEF NoItem
  <2> HIDE DEF no
  <2>3. NoItem \in Items
    BY <2>1, <2>2 DEF Items
  <2> QED BY <1>2, <2>3 DEF Items
<1> HIDE DEF item
<1> QED BY <1>1, <1>3, ItemKeepsMoney

LEMMA RunKeepsMoney ==
  ASSUME LedgerOK, RowsSound, RunsSound, stale \in BOOLEAN, ~stale',
         NEW c \in Clerks, NEW r \in Runs,
         Recalculate(c, r) \/ ApproveRun(c, r) \/ ReopenRun(c, r)
  PROVE  LedgerOK' /\ RowsSound' /\ RunsSound'
<1>1. Acts(c) /\ UNCHANGED <<advance, manual, posted, settled>>
  BY DEF Recalculate, ApproveRun, ReopenRun
<1>2. clerk[c].run = run /\ clerk[c].advance = advance
  BY <1>1, ActsOnTheLedger
<1>3. run[r] \in Items
  BY DEF LedgerOK
<1>4. \A item \in Items : /\ run' = [run EXCEPT ![r] = item]
                          /\ run[r].status # "Paid" /\ item.status # "Paid"
                          => LedgerOK' /\ RowsSound' /\ RunsSound'
  BY <1>1, ItemKeepsMoney
<1>5. CASE Recalculate(c, r)
  <2> DEFINE issued == {a \in Advances : /\ advance[a].status \in {"Released", "Partially Paid"}
                                         /\ advance[a].released}
             ded == IF run[r].saved THEN run[r].cash ELSE Scheduled(advance, issued)
             item == [run[r] EXCEPT !.deduction = ded]
  <2>1. run[r].status = "Draft" /\ run' = [run EXCEPT ![r] = item]
    BY <1>2, <1>5 DEF Recalculate
  <2>2. ded \in 0..Capacity
    <3>1. Scheduled(advance, issued) \in 0..Capacity
      BY ScheduledFits DEF LedgerOK
    <3>2. run[r].cash \in 0..Capacity
      BY <1>3 DEF Items
    <3> QED BY <3>1, <3>2
  <2> HIDE DEF ded
  <2>3. item \in Items /\ item.status = "Draft"
    BY <1>3, <2>1, <2>2 DEF Items
  <2> HIDE DEF item
  <2> QED BY <1>4, <2>1, <2>3
<1>6. CASE ApproveRun(c, r)
  <2> DEFINE item == [run[r] EXCEPT !.status = "Approved"]
  <2>1. run[r].status = "Draft" /\ run' = [run EXCEPT ![r] = item]
    BY <1>2, <1>6 DEF ApproveRun
  <2>2. item \in Items /\ item.status = "Approved"
    BY <1>3 DEF Items
  <2> HIDE DEF item
  <2> QED BY <1>4, <2>1, <2>2
<1>7. CASE ReopenRun(c, r)
  <2> DEFINE item == [run[r] EXCEPT !.status = "Draft"]
  <2>1. run[r].status = "Approved" /\ run' = [run EXCEPT ![r] = item]
    BY <1>2, <1>7 DEF ReopenRun
  <2>2. item \in Items /\ item.status = "Draft"
    BY <1>3 DEF Items
  <2> HIDE DEF item
  <2> QED BY <1>4, <2>1, <2>2
<1> QED BY <1>5, <1>6, <1>7

(* What recalculate_balance stores in a request that nothing came in between. *)
LEMMA FreshReading ==
  ASSUME NEW c, NEW S, NEW a \in Advances, clerk[c].advance = advance,
         clerk[c].paid[a] = PaidOf(manual, posted, run, a)
  PROVE  /\ Reading(c, S, a) = Summary(advance[a], PaidOf(manual, posted, run, a))
         /\ Store(advance[a], Reading(c, S, a))
              = Recalculated(advance[a], PaidOf(manual, posted, run, a))
<1>1. Reading(c, S, a) = Summary(advance[a], PaidOf(manual, posted, run, a))
  BY PaidIsPaidOf DEF Reading
<1> QED BY <1>1 DEF Recalculated

(* A run that is not paid has posted nothing. *)
LEMMA UnpaidPostsNothing ==
  ASSUME LedgerOK, RunsSound, NEW r \in Runs, run[r].status # "Paid"
  PROVE  \A a \in Advances : posted[r][a] = 0
<1>1. posted[r] \in [Advances -> Nat] /\ Tally(posted[r], Advances) <= 0
  BY DEF LedgerOK, RunsSound, Withheld
<1> QED BY <1>1, NothingPosted

(* Saving an amount recalculates the open advances. *)
LEMMA AdjustKeepsMoney ==
  ASSUME LedgerOK, RowsSound, RunsSound, stale \in BOOLEAN, ~stale',
         NEW c \in Clerks, NEW r \in Runs, NEW cash \in 0..Capacity, Adjust(c, r, cash)
  PROVE  LedgerOK' /\ RowsSound' /\ RunsSound'
<1> DEFINE eligible == {a \in Open(advance) : advance[a].status # "Rejected"}
           again(a) == Recalculated(advance[a], PaidOf(manual, posted, run, a))
           item == [run[r] EXCEPT !.deduction = cash, !.saved = TRUE, !.cash = cash]
           none == [a \in Advances |-> 0]
<1>1. Acts(c) /\ manual' = manual /\ settled' = settled
  BY DEF Adjust
<1>2. /\ clerk[c].advance = advance /\ clerk[c].run = run
      /\ \A a \in Advances : clerk[c].paid[a] = PaidOf(manual, posted, run, a)
  BY <1>1, ActsOnTheLedger
<1>3. /\ run[r].status = "Draft" /\ run' = [run EXCEPT ![r] = item]
      /\ posted' = [posted EXCEPT ![r] = none]
  BY <1>2 DEF Adjust
<1>4. run[r] \in Items /\ \A a \in Advances : posted[r][a] = 0
  BY <1>3, UnpaidPostsNothing DEF LedgerOK
<1>5. ASSUME NEW a \in Advances
      PROVE  advance'[a] = IF a \in eligible THEN again(a) ELSE advance[a]
  <2>1. advance'[a] = IF a \in eligible THEN Store(advance[a], Reading(c, eligible, a)) ELSE advance[a]
    BY <1>2, <1>4 DEF Adjust
  <2>2. Store(advance[a], Reading(c, eligible, a)) = again(a)
    BY <1>2, FreshReading
  <2> QED BY <2>1, <2>2
<1>6. item \in Items /\ item.status = "Draft"
  <2> DEFINE yes == TRUE
  <2>1. yes \in BOOLEAN
    OBVIOUS
  <2>2. item = [run[r] EXCEPT !.deduction = cash, !.saved = yes, !.cash = cash]
    OBVIOUS
  <2> HIDE DEF yes, item
  <2> QED BY <1>3, <1>4, <2>1, <2>2 DEF Items
<1>7. \A a \in Open(advance) : a \in Advances /\ advance[a].status # "Absent"
  BY DEF Open
<1>8. PaidRuns(run') = PaidRuns(run) /\ r \notin PaidRuns(run)
  BY <1>3, <1>6 DEF PaidRuns, LedgerOK
<1>9. posted' \in [Runs -> [Advances -> Nat]] /\ \A s \in Runs \ {r} : posted'[s] = posted[s]
  BY <1>3 DEF LedgerOK
<1>10. \A a \in Advances : PaidOf(manual', posted', run', a) = PaidOf(manual, posted, run, a)
  <2> SUFFICES ASSUME NEW a \in Advances
               PROVE  PaidOf(manual, posted', run', a) = PaidOf(manual, posted, run, a)
    BY <1>1
  <2>1. \A s \in PaidRuns(run) : posted'[s][a] = posted[s][a]
    BY <1>8, <1>9 DEF PaidRuns
  <2>2. manual \in [Advances -> Nat] /\ posted \in [Runs -> [Advances -> Nat]]
    BY DEF LedgerOK
  <2> QED BY <1>8, <1>9, <2>1, <2>2, SamePaid
<1>11. ASSUME NEW a \in Advances
       PROVE  Sound(advance'[a], PaidOf(manual, posted, run, a), settled[a])
  <2>1. Sound(advance[a], PaidOf(manual, posted, run, a), settled[a])
    BY DEF RowsSound
  <2>2. PaidOf(manual, posted, run, a) \in Nat /\ settled[a] \in Nat
    BY PaidIsTally DEF LedgerOK
  <2>3. CASE a \in eligible
    <3>1. advance[a].status # "Absent" /\ advance'[a] = again(a)
      BY <1>5, <1>7, <2>3
    <3> QED BY <2>1, <2>2, <3>1, RecalculatedIsSound DEF Sound
  <2>4. CASE a \notin eligible
    BY <1>5, <2>1, <2>4
  <2> QED BY <2>3, <2>4
<1>12. LedgerOK'
  <2>1. DOMAIN advance' = Advances /\ advance' = [a \in Advances |-> advance'[a]]
    BY DEF Adjust
  <2>2. advance' \in [Advances -> Rows]
    BY <1>11, <2>1 DEF Sound
  <2>3. run' \in [Runs -> Items]
    BY <1>3, <1>6 DEF LedgerOK
  <2> QED BY <1>1, <1>9, <2>2, <2>3 DEF LedgerOK
<1>13. RowsSound'
  BY <1>1, <1>10, <1>11 DEF RowsSound
<1>14. RunsSound'
  <2> SUFFICES ASSUME NEW s \in Runs PROVE Tally(posted'[s], Advances) <= Withheld(run'[s])
    BY DEF RunsSound
  <2>1. CASE s # r
    BY <1>3, <1>9, <2>1 DEF RunsSound, LedgerOK
  <2>2. CASE s = r
    <3>1. posted'[r] = none /\ run'[r] = item
      BY <1>3 DEF LedgerOK
    <3>2. Tally(none, Advances) <= 0
      BY NothingPosted
    <3> HIDE DEF none, item
    <3> QED BY <1>6, <2>2, <3>1, <3>2 DEF Withheld
  <2> QED BY <2>1, <2>2
<1> QED BY <1>12, <1>13, <1>14

-----------------------------------------------------------------------------
(* Shares that go oldest first, each within what the older ones leave of a deduction, are *)
(* together within it.                                                                    *)
LEMMA SharesFit ==
  ASSUME NEW absorbed \in [Advances -> Nat], NEW due \in SUBSET Advances, NEW ded \in Nat,
         NEW p \in [Advances -> Nat],
         \A a \in Advances : p[a] # 0 =>
           /\ a \in due /\ p[a] <= absorbed[a]
           /\ p[a] + Tally(absorbed, {b \in due : b < a}) <= ded
  PROVE  Tally(p, Advances) <= ded
<1> DEFINE R == {a \in Advances : p[a] # 0}
<1>1. CASE R = {}
  <2>1. Tally(p, Advances) <= 0
    BY <1>1, NothingPosted
  <2>2. Tally(p, Advances) \in Nat
    BY AdvancesAssumption, UnitsAreFinite
  <2> QED BY <2>1, <2>2
<1>2. CASE R # {}
  <2>1. PICK z \in R : \A a \in R : a <= z
    <3> HIDE DEF R
    <3>1. R \subseteq Nat /\ IsFiniteSet(R)
      BY AdvancesAssumption, FS_Subset DEF R
    <3> QED BY <1>2, <3>1, LastOne
  <2> DEFINE rest == R \ {z}
             before == {b \in due : b < z}
  <2>2. Tally(p, Advances) = Tally(p, R)
    <3>1. Units(p, Advances) = Units(p, R)
      BY DEF Units
    <3> QED BY <3>1 DEF Tally
  <2>3. /\ IsFiniteSet(rest) /\ z \notin rest /\ R = rest \cup {z}
        /\ \A a \in rest \cup {z} : p[a] \in Nat
    <3>1. IsFiniteSet(rest)
      BY AdvancesAssumption, FS_Subset
    <3> QED BY <3>1
  <2>4. rest \subseteq before
    <3> SUFFICES ASSUME NEW b \in rest PROVE b \in due /\ b < z
      OBVIOUS
    <3>1. b \in due /\ b <= z /\ b # z
      BY <2>1
    <3>2. b \in Nat /\ z \in Nat
      BY AdvancesAssumption
    <3> QED BY <3>1, <3>2
  <2>5. IsFiniteSet(before) /\ \A a \in before : absorbed[a] \in Nat
    BY AdvancesAssumption, FS_Subset
  <2>6. \A a \in rest : p[a] \in Nat /\ p[a] <= absorbed[a]
    OBVIOUS
  <2>7. p[z] \in Nat /\ p[z] + Tally(absorbed, before) <= ded
    BY <2>1
  <2> HIDE DEF R, rest, before
  <2>8. Tally(p, R) = Tally(p, rest) + p[z] /\ Tally(p, rest) \in Nat
    BY <2>3, TallyOfOneMore, UnitsAreFinite
  <2>9. Tally(p, rest) <= Tally(absorbed, before) /\ Tally(absorbed, before) \in Nat
    BY <2>4, <2>5, <2>6, TallyGrows, UnitsAreFinite
  <2> QED BY <2>2, <2>7, <2>8, <2>9
<1> QED BY <1>1, <1>2

(* The repayments of the run being paid join those of the paid runs. *)
LEMMA PayingAdds ==
  ASSUME NEW a \in Advances, NEW r \in Runs, manual \in [Advances -> Nat],
         posted \in [Runs -> [Advances -> Nat]], posted' \in [Runs -> [Advances -> Nat]],
         r \notin PaidRuns(run), PaidRuns(run') = PaidRuns(run) \cup {r},
         \A s \in Runs \ {r} : posted'[s] = posted[s]
  PROVE  PaidOf(manual, posted', run', a) = PaidOf(manual, posted, run, a) + posted'[r][a]
BY OneMorePaid, SMTT(60)

(* A payment posts to each advance at most what is owed on it, and in all at most what *)
(* the run withheld.                                                                   *)
LEMMA PayKeepsMoney ==
  ASSUME LedgerOK, RowsSound, RunsSound, stale \in BOOLEAN, ~stale',
         NEW c \in Clerks, NEW r \in Runs, Pay(c, r)
  PROVE  LedgerOK' /\ RowsSound' /\ RunsSound'
<1> DEFINE paid(a) == PaidOf(manual, posted, run, a)
           owed(a) == Less(advance[a].opening, paid(a))
           again(a) == Recalculated(advance[a], paid(a))
           due == Due(advance)
           absorbed == [a \in Advances |-> IF a \in due THEN owed(a) ELSE 0]
           older(a) == Tally(absorbed, {b \in due : b < a})
           ded == run[r].deduction
           reached == {a \in due : older(a) < ded}
           share(a) == Least(absorbed[a], ded - older(a))
           p == [a \in Advances |-> IF a \in reached THEN share(a) ELSE 0]
<1>1. Acts(c) /\ manual' = manual /\ settled' = settled
  BY DEF Pay
<1>2. /\ clerk[c].advance = advance /\ clerk[c].run = run
      /\ \A a \in Advances : clerk[c].paid[a] = paid(a)
  BY <1>1, ActsOnTheLedger
<1>3. run[r].status = "Approved" /\ run' = [run EXCEPT ![r].status = "Paid", ![r].paid = TRUE]
  BY <1>2 DEF Pay
<1>4. run[r] \in Items /\ ded \in Nat /\ \A a \in Advances : posted[r][a] = 0
  <2>1. run[r] \in Items
    BY DEF LedgerOK
  <2>2. ded \in Nat
    BY <2>1, AmountsAssumption DEF Items
  <2> QED BY <1>3, <2>1, <2>2, UnpaidPostsNothing
<1>5. due \subseteq Advances /\ \A a \in due : advance[a].status # "Absent"
  BY DEF Due, Open
<1>6. \A a \in Advances : /\ Sound(advance[a], paid(a), settled[a]) /\ paid(a) \in Nat
                          /\ settled[a] \in Nat /\ advance[a].opening \in Nat
                          /\ advance[a].credit \in Nat
  <2> SUFFICES ASSUME NEW a \in Advances
               PROVE  /\ Sound(advance[a], paid(a), settled[a]) /\ paid(a) \in Nat
                      /\ settled[a] \in Nat /\ advance[a].opening \in Nat
                      /\ advance[a].credit \in Nat
    OBVIOUS
  <2>1. Sound(advance[a], paid(a), settled[a])
    BY DEF RowsSound
  <2>2. paid(a) \in Nat /\ settled[a] \in Nat
    BY PaidIsTally DEF LedgerOK
  <2> QED BY <2>1, <2>2 DEF Sound, Rows
<1>7. absorbed \in [Advances -> Nat] /\ \A a \in due : absorbed[a] = owed(a)
  <2>1. \A a \in Advances : owed(a) \in Nat
    BY <1>6 DEF Less
  <2> QED BY <1>5, <2>1
<1>8. {a \in due : posted[r][a] = 0} = due
  BY <1>4, <1>5
<1>9. [a \in Advances |-> IF a \in due THEN Reading(c, due, a).balance ELSE posted[r][a]] = absorbed
  <2>1. \A a \in Advances : Reading(c, due, a).balance = owed(a)
    <3> SUFFICES ASSUME NEW a \in Advances PROVE Reading(c, due, a).balance = owed(a)
      OBVIOUS
    <3>1. Reading(c, due, a) = Summary(advance[a], paid(a))
      <4> HIDE DEF due
      <4> QED BY <1>2, FreshReading
    <3>2. Summary(advance[a], paid(a)).balance = owed(a)
      BY DEF Summary
    <3> QED BY <3>1, <3>2, Zenon
  <2> QED BY <1>4, <2>1
<1>10. \A a \in Advances : /\ Older(absorbed, due, a) = older(a) /\ older(a) \in Nat
  <2> SUFFICES ASSUME NEW a \in Advances
               PROVE  Older(absorbed, due, a) = older(a) /\ older(a) \in Nat
    OBVIOUS
  <2> DEFINE S == {b \in due : b < a}
  <2>1. IsFiniteSet(S) /\ \A b \in S : absorbed[b] \in Nat
    BY <1>5, <1>7, AdvancesAssumption, FS_Subset
  <2> HIDE DEF absorbed, S
  <2>2. MapThenSumSet(LAMBDA b : absorbed[b], S) = Tally(absorbed, S) /\ Tally(absorbed, S) \in Nat
    BY <2>1, SumIsTally, UnitsAreFinite
  <2> QED BY <2>2 DEF Older, S
<1>11. /\ posted' = [posted EXCEPT ![r] = p]
       /\ \A a \in Advances : \/ p[a] = 0 /\ advance'[a] = advance[a]
                              \/ a \in due /\ p[a] = 0 /\ advance'[a] = again(a)
                              \/ a \in due /\ advance'[a] = Recalculated(again(a), paid(a))
  <2> DEFINE due0 == Due(clerk[c].advance)
             fresh0 == {a \in due0 : posted[r][a] = 0}
             absorbed0 == [a \in Advances |-> IF a \in fresh0 THEN Reading(c, fresh0, a).balance
                                              ELSE posted[r][a]]
             ded0 == clerk[c].run[r].deduction
             reached0 == {a \in fresh0 : Older(absorbed0, due0, a) < ded0}
             share0(a) == Least(absorbed0[a], ded0 - Older(absorbed0, due0, a))
             read0(a) == Store(advance[a], Reading(c, fresh0, a))
             counted0(a) == IF run[r].status = "Paid" THEN share0(a) ELSE 0
  <2>1. /\ posted' = [posted EXCEPT ![r] =
             [a \in Advances |-> IF a \in reached0 THEN share0(a) ELSE posted[r][a]]]
        /\ advance' = [a \in Advances |->
             CASE a \notin reached0 -> advance[a]
               [] a \in reached0 /\ share0(a) = 0 -> read0(a)
               [] OTHER -> Recalculated(read0(a), Paid(a) + counted0(a))]
    BY DEF Pay, LedgerOK
  <2>2. due0 = due /\ ded0 = ded
    BY <1>2
  <2>3. fresh0 = due
    BY <1>8, <2>2
  <2> HIDE DEF due0, fresh0, due, ded0, ded
  <2>4. absorbed0 = absorbed
    BY <1>9, <2>3
  <2> HIDE DEF absorbed0, absorbed
  <2>5. \A a \in Advances : Older(absorbed0, due0, a) = older(a)
    BY <1>10, <2>2, <2>4
  <2> HIDE DEF older
  <2>6. reached0 = reached /\ \A a \in Advances : share0(a) = share(a)
    BY <1>5, <2>2, <2>3, <2>4, <2>5
  <2>61. reached \subseteq due
    OBVIOUS
  <2>7. \A a \in Advances : read0(a) = again(a)
    BY <1>2, <2>3, FreshReading
  <2>8. \A a \in Advances : counted0(a) = 0 /\ Paid(a) = paid(a)
    BY <1>3, PaidIsPaidOf
  <2> HIDE DEF reached0, share0, read0, counted0, reached, share, again, paid
  <2>9. posted' = [posted EXCEPT ![r] = p]
    BY <1>4, <2>1, <2>6
  <2>10. ASSUME NEW a \in Advances
         PROVE  \/ p[a] = 0 /\ advance'[a] = advance[a]
                \/ a \in due /\ p[a] = 0 /\ advance'[a] = again(a)
                \/ a \in due /\ advance'[a] = Recalculated(again(a), paid(a))
    <3>1. CASE a \notin reached0
      BY <2>1, <2>6, <3>1
    <3>2. CASE a \in reached0 /\ share0(a) = 0
      <4>1. advance'[a] = read0(a)
        BY <2>1, <3>2
      <4> QED BY <2>6, <2>61, <2>7, <3>2, <4>1
    <3>3. CASE a \in reached0 /\ share0(a) # 0
      <4>1. advance'[a] = Recalculated(read0(a), Paid(a) + counted0(a))
        BY <2>1, <3>3
      <4>2. Paid(a) + counted0(a) = paid(a)
        BY <1>6, <2>8
      <4> QED BY <2>6, <2>61, <2>7, <3>3, <4>1, <4>2
    <3> QED BY <3>1, <3>2, <3>3
  <2> QED BY <2>9, <2>10
<1>12. /\ p \in [Advances -> Nat]
       /\ \A a \in Advances : p[a] # 0 =>
            a \in due /\ p[a] <= absorbed[a] /\ p[a] + older(a) <= ded
  <2> SUFFICES ASSUME NEW a \in Advances
               PROVE  /\ p[a] \in Nat
                      /\ p[a] # 0 => /\ a \in due /\ p[a] <= absorbed[a]
                                     /\ p[a] + older(a) <= ded
    OBVIOUS
  <2>1. CASE a \notin reached
    <3>1. p[a] = 0
      BY <2>1
    <3> QED BY <3>1
  <2>2. CASE a \in reached
    <3>1. p[a] = share(a) /\ older(a) < ded /\ a \in due
      BY <2>2
    <3>2. absorbed[a] \in Nat /\ older(a) \in Nat /\ ded \in Nat
      BY <1>4, <1>7, <1>10
    <3>3. share(a) = Least(absorbed[a], ded - older(a))
      OBVIOUS
    <3> HIDE DEF p, share, older, absorbed, ded, due, reached
    <3>4. share(a) \in Nat /\ share(a) <= absorbed[a] /\ share(a) + older(a) <= ded
      BY <3>1, <3>2, <3>3 DEF Least
    <3> QED BY <3>1, <3>4
  <2> QED BY <2>1, <2>2
<1>13. Tally(p, Advances) <= ded
  <2> HIDE DEF p, absorbed, due, ded
  <2> QED BY <1>4, <1>5, <1>7, <1>12, SharesFit
<1>14. /\ run' \in [Runs -> Items] /\ run'[r].status = "Paid" /\ run'[r].deduction = ded
       /\ \A s \in Runs \ {r} : run'[s] = run[s]
  <2> DEFINE yes == TRUE
             item == [run[r] EXCEPT !.status = "Paid", !.paid = yes]
  <2>1. run' = [run EXCEPT ![r] = item]
    BY <1>3, <1>4 DEF LedgerOK
  <2>2. yes \in BOOLEAN
    OBVIOUS
  <2> HIDE DEF yes
  <2>3. item \in Items /\ item.status = "Paid" /\ item.deduction = run[r].deduction
    BY <1>4, <2>2 DEF Items
  <2> HIDE DEF item
  <2> QED BY <2>1, <2>3 DEF LedgerOK
<1>15. /\ posted' \in [Runs -> [Advances -> Nat]] /\ posted'[r] = p
       /\ \A s \in Runs \ {r} : posted'[s] = posted[s]
  <2> HIDE DEF p
  <2> QED BY <1>11, <1>12 DEF LedgerOK
<1>16. RunsSound'
  <2> HIDE DEF p, ded
  <2> SUFFICES ASSUME NEW s \in Runs
               PROVE  Tally(posted'[s], Advances) <= Withheld(run'[s])
    BY DEF RunsSound
  <2>1. CASE s = r
    BY <1>13, <1>14, <1>15, <2>1 DEF Withheld
  <2>2. CASE s # r
    <3>1. posted'[s] = posted[s] /\ run'[s] = run[s]
      BY <1>14, <1>15, <2>2
    <3> QED BY <3>1 DEF RunsSound
  <2> QED BY <2>1, <2>2
<1>17. \A a \in Advances : PaidOf(manual', posted', run', a) = paid(a) + p[a]
  <2> HIDE DEF p
  <2> SUFFICES ASSUME NEW a \in Advances
               PROVE  PaidOf(manual, posted', run', a) = paid(a) + p[a]
    BY <1>1
  <2>1. r \notin PaidRuns(run) /\ PaidRuns(run') = PaidRuns(run) \cup {r}
    BY <1>3, <1>14 DEF PaidRuns
  <2>2. \A s \in Runs \ {r} : posted'[s] = posted[s]
    BY <1>15
  <2>3. /\ manual \in [Advances -> Nat] /\ posted \in [Runs -> [Advances -> Nat]]
        /\ posted' \in [Runs -> [Advances -> Nat]]
    BY <1>15 DEF LedgerOK
  <2>4. PaidOf(manual, posted', run', a) = PaidOf(manual, posted, run, a) + posted'[r][a]
    BY <2>1, <2>2, <2>3, PayingAdds
  <2> QED BY <1>15, <2>4
<1>18. \A a \in due : /\ Sound(again(a), paid(a), settled[a])
                      /\ Ready(again(a), paid(a), settled[a])
                      /\ again(a).opening = advance[a].opening
  <2> SUFFICES ASSUME NEW a \in due
               PROVE  /\ Sound(again(a), paid(a), settled[a])
                      /\ Ready(again(a), paid(a), settled[a])
                      /\ again(a).opening = advance[a].opening
    OBVIOUS
  <2>1. a \in Advances /\ Ready(advance[a], paid(a), settled[a])
    BY <1>5, <1>6 DEF Sound
  <2>2. paid(a) \in Nat /\ settled[a] \in Nat
    BY <1>6, <2>1
  <2>3. again(a).opening = advance[a].opening
    BY <2>1 DEF Recalculated, Store, Ready, Rows
  <2> HIDE DEF paid
  <2> QED BY <2>1, <2>2, <2>3, RecalculatedIsSound
<1>19. \A a \in due : /\ Sound(Recalculated(again(a), paid(a)), paid(a), settled[a])
                      /\ Recalculated(again(a), paid(a)).status # "Absent"
                      /\ Recalculated(again(a), paid(a)).opening = advance[a].opening
                      /\ Recalculated(again(a), paid(a)).credit \in Nat
  <2> SUFFICES ASSUME NEW a \in due
               PROVE  /\ Sound(Recalculated(again(a), paid(a)), paid(a), settled[a])
                      /\ Recalculated(again(a), paid(a)).status # "Absent"
                      /\ Recalculated(again(a), paid(a)).opening = advance[a].opening
                      /\ Recalculated(again(a), paid(a)).credit \in Nat
    OBVIOUS
  <2> DEFINE row == again(a)
             new == Recalculated(row, paid(a))
  <2>1. Ready(row, paid(a), settled[a]) /\ row.opening = advance[a].opening
    BY <1>18
  <2>2. paid(a) \in Nat /\ settled[a] \in Nat
    BY <1>5, <1>6
  <2> HIDE DEF row, paid, due
  <2>3. Sound(new, paid(a), settled[a]) /\ Ready(new, paid(a), settled[a])
    BY <2>1, <2>2, RecalculatedIsSound
  <2>4. new.opening = row.opening
    BY <2>1 DEF Recalculated, Store, Ready, Rows
  <2>5. new.status # "Absent" /\ new.credit \in Nat
    BY <2>3 DEF Ready, Rows
  <2> QED BY <2>1, <2>3, <2>4, <2>5 DEF row
<1>20. ASSUME NEW a \in Advances
       PROVE  Sound(advance'[a], paid(a) + p[a], settled[a])
  <2>1. p[a] \in Nat /\ paid(a) \in Nat /\ settled[a] \in Nat
    BY <1>6, <1>12
  <2>2. CASE p[a] = 0
    <3>1. paid(a) + p[a] = paid(a)
      BY <2>1, <2>2
    <3>2. Sound(advance'[a], paid(a), settled[a])
      <4> HIDE DEF p, again, due, paid
      <4> QED BY <1>6, <1>11, <1>18, <1>19
    <3> QED BY <3>1, <3>2, Zenon
  <2>3. CASE p[a] # 0
    <3>1. /\ a \in due /\ p[a] <= absorbed[a]
          /\ advance'[a] = Recalculated(again(a), paid(a))
      <4> HIDE DEF p, again, due, paid, absorbed
      <4> QED BY <1>11, <1>12, <2>3
    <3>2. /\ Sound(advance'[a], paid(a), settled[a]) /\ advance'[a].status # "Absent"
          /\ advance'[a].opening = advance[a].opening /\ advance'[a].credit \in Nat
      <4> HIDE DEF again, due, paid
      <4> QED BY <1>19, <3>1
    <3>3. p[a] <= Less(advance[a].opening, paid(a)) /\ advance[a].opening \in Nat
      BY <1>6, <1>7, <3>1
    <3> HIDE DEF p, paid, again, due, absorbed
    <3>4. paid(a) + p[a] <= advance[a].opening
      BY <2>1, <2>3, <3>3 DEF Less
    <3>5. /\ paid(a) <= paid(a) + p[a] /\ paid(a) + p[a] \in Nat
          /\ paid(a) + p[a] <= advance'[a].opening + advance'[a].credit + settled[a]
      BY <2>1, <3>2, <3>3, <3>4
    <3> QED BY <2>1, <3>2, <3>5, SoundWithMore
  <2> QED BY <2>2, <2>3
<1>21. RowsSound'
  <2> HIDE DEF p, paid
  <2> SUFFICES ASSUME NEW a \in Advances
               PROVE  Sound(advance'[a], PaidOf(manual', posted', run', a), settled'[a])
    BY DEF RowsSound
  <2>1. PaidOf(manual', posted', run', a) = paid(a) + p[a] /\ settled'[a] = settled[a]
    BY <1>1, <1>17
  <2> QED BY <1>20, <2>1
<1>22. LedgerOK'
  <2>1. \A a \in Advances : advance'[a] \in Rows
    BY <1>20 DEF Sound
  <2>2. advance' = [a \in Advances |-> advance'[a]]
    BY DEF Pay
  <2>3. advance' \in [Advances -> Rows]
    BY <2>1, <2>2
  <2> QED BY <1>1, <1>14, <1>15, <2>3 DEF LedgerOK
<1> QED BY <1>16, <1>21, <1>22

-----------------------------------------------------------------------------
LEMMA MoneyInit == Init => MoneyInv
<1> SUFFICES ASSUME Init PROVE LedgerOK /\ RowsSound /\ RunsSound /\ stale \in BOOLEAN
  BY DEF MoneyInv
<1>1. LedgerOK
  <2>1. NoAdvance \in Rows
    BY DEF NoAdvance, Rows, Statuses
  <2>2. NoItem \in Items
    BY AmountsAssumption DEF NoItem, Items
  <2> QED BY <2>1, <2>2 DEF Init, LedgerOK
<1>2. PaidRuns(run) = {}
  BY DEF Init, NoItem, PaidRuns
<1>3. ASSUME NEW a \in Advances PROVE Sound(advance[a], PaidOf(manual, posted, run, a), settled[a])
  <2>1. PaidOf(manual, posted, run, a)
          = manual[a] + Tally([r \in Runs |-> posted[r][a]], PaidRuns(run))
    BY <1>1, PaidIsTally DEF LedgerOK
  <2>2. Tally([r \in Runs |-> posted[r][a]], {}) = 0
    BY TallyOfNone
  <2>3. advance[a] = NoAdvance /\ manual[a] = 0 /\ settled[a] = 0
    BY DEF Init
  <2>4. PaidOf(manual, posted, run, a) = 0
    BY <1>2, <2>1, <2>2, <2>3
  <2>5. Sound(NoAdvance, 0, 0)
    BY DEF Sound, NoAdvance, Rows, Statuses, Less
  <2> QED BY <2>3, <2>4, <2>5
<1>4. ASSUME NEW r \in Runs PROVE Tally(posted[r], Advances) <= Withheld(run[r])
  <2>1. posted[r] \in [Advances -> Nat] /\ \A a \in Advances : posted[r][a] = 0
    BY DEF Init
  <2>2. Tally(posted[r], Advances) <= 0
    BY <2>1, NothingPosted
  <2>3. Withheld(run[r]) = 0
    BY DEF Init, NoItem, Withheld
  <2> QED BY <2>2, <2>3
<1> QED BY <1>1, <1>3, <1>4 DEF RowsSound, RunsSound, Init

(* A step that leaves the ledger alone. *)
LEMMA LedgerAlone ==
  ASSUME MoneyInv, UNCHANGED <<ledger, settled, stale>>
  PROVE  MoneyInv'
<1>1. /\ advance' = advance /\ manual' = manual /\ posted' = posted /\ run' = run
      /\ settled' = settled /\ stale' = stale
  BY DEF ledger
<1> QED BY <1>1 DEF MoneyInv, LedgerOK, RowsSound, RunsSound

(* A step that acts on what was read: of no account once stale. *)
LEMMA ActedUpon ==
  ASSUME MoneyInv, NEW c \in Clerks, Acts(c),
         ~stale' /\ LedgerOK /\ RowsSound /\ RunsSound => LedgerOK' /\ RowsSound' /\ RunsSound'
  PROVE  MoneyInv'
<1>1. stale \in BOOLEAN /\ stale' = (stale \/ clerk[c] # Now)
  BY DEF MoneyInv, Acts
<1>2. stale' \in BOOLEAN /\ (~stale' => ~stale)
  BY <1>1
<1> QED BY <1>2 DEF MoneyInv

LEMMA MoneyNext == MoneyInv /\ [Next]_vars => MoneyInv'
<1> SUFFICES ASSUME MoneyInv, [Next]_vars PROVE MoneyInv'
  OBVIOUS
<1>0. stale \in BOOLEAN
  BY DEF MoneyInv
<1>1. CASE UNCHANGED vars
  BY <1>1, LedgerAlone DEF vars
<1>2. ASSUME NEW c \in Clerks, Load(c) \/ Refuse(c) PROVE MoneyInv'
  <2>1. UNCHANGED <<ledger, settled, stale>>
    BY <1>2 DEF Load, Refuse
  <2> QED BY <2>1, LedgerAlone
<1>3. ASSUME NEW c \in Clerks, NEW a \in Advances,
             Edit(c, a) \/ Approve(c, a) \/ Reject(c, a) \/ Cancel(c, a)
      PROVE  MoneyInv'
  <2>1. Acts(c)
    BY <1>3 DEF Edit, Approve, Reject, Cancel
  <2> QED BY <1>0, <1>3, <2>1, ReviewKeepsMoney, ActedUpon
<1>4. ASSUME NEW c \in Clerks, NEW a \in Advances, NEW n \in Amounts,
             CorrectAmount(c, a, n) \/ SettleCredit(c, a, n)
      PROVE  MoneyInv'
  <2>1. Acts(c)
    BY <1>4 DEF CorrectAmount, SettleCredit
  <2> QED BY <1>0, <1>4, <2>1, CreditKeepsMoney, ActedUpon
<1>5. ASSUME NEW c \in Clerks, NEW a \in Advances, NEW b \in Advances, NEW n \in Amounts,
             OffsetCredit(c, a, b, n)
      PROVE  MoneyInv'
  <2>1. Acts(c)
    BY <1>5 DEF OffsetCredit
  <2> QED BY <1>0, <1>5, <2>1, OffsetKeepsMoney, ActedUpon
<1>6. ASSUME NEW c \in Clerks, NEW r \in Runs,
             Recalculate(c, r) \/ ApproveRun(c, r) \/ ReopenRun(c, r)
      PROVE  MoneyInv'
  <2>1. Acts(c)
    BY <1>6 DEF Recalculate, ApproveRun, ReopenRun
  <2> QED BY <1>0, <1>6, <2>1, RunKeepsMoney, ActedUpon
<1>7. ASSUME NEW c \in Clerks, NEW r \in Runs, Pay(c, r) PROVE MoneyInv'
  <2>1. Acts(c)
    BY <1>7 DEF Pay
  <2> QED BY <1>0, <1>7, <2>1, PayKeepsMoney, ActedUpon
<1>8. ASSUME NEW c \in Clerks, NEW r \in Runs, NEW cash \in 0..Capacity, Adjust(c, r, cash)
      PROVE  MoneyInv'
  <2>1. Acts(c)
    BY <1>8 DEF Adjust
  <2> QED BY <1>0, <1>8, <2>1, AdjustKeepsMoney, ActedUpon
<1>9. ASSUME NEW a \in Advances, NEW n \in Amounts,
             Release(a) \/ Create(a, n) \/ ManualRepayment(a, n)
      PROVE  MoneyInv'
  <2>1. stale' = stale
    BY <1>9 DEF Create, Release, ManualRepayment
  <2> QED BY <1>9, <2>1, CreateKeepsMoney, OfficeKeepsMoney DEF MoneyInv
<1>10. ASSUME NEW a \in Advances, Release(a) PROVE MoneyInv'
  <2>1. Amounts # {}
    BY AmountsAssumption DEF Amounts
  <2> QED BY <1>9, <1>10, <2>1
<1>11. ASSUME NEW r \in Runs, CreateDraft(r) PROVE MoneyInv'
  <2>1. stale' = stale
    BY <1>11 DEF CreateDraft
  <2> QED BY <1>11, <2>1, DraftKeepsMoney DEF MoneyInv
<1> QED
  BY <1>1, <1>2, <1>3, <1>4, <1>5, <1>6, <1>7, <1>8, <1>9, <1>10, <1>11 DEF Next, Request

(* What the money invariant says in the terms of the model. *)
LEMMA MoneyInvIsEnough ==
  MoneyInv => IssuedIsOwed /\ RepaidWithinAmount /\ PostedWithinWithheld /\ StoredCoversOwed
<1> SUFFICES ASSUME MoneyInv, ~stale
             PROVE  IssuedIsOwed /\ RepaidWithinAmount /\ PostedWithinWithheld /\ StoredCoversOwed
  BY DEF IssuedIsOwed, RepaidWithinAmount, PostedWithinWithheld, StoredCoversOwed
<1>1. LedgerOK /\ RowsSound /\ RunsSound
  BY DEF MoneyInv
<1>2. ASSUME NEW a \in Advances
      PROVE  /\ advance[a].released => advance[a].status \in OwedStatuses
             /\ Paid(a) <= advance[a].opening + advance[a].credit + settled[a]
             /\ advance[a].balance >= Owed(a)
  <2> DEFINE paid == PaidOf(manual, posted, run, a)
  <2>1. Paid(a) = paid /\ paid \in Nat /\ settled[a] \in Nat
    BY <1>1, PaidIsPaidOf, PaidIsTally DEF LedgerOK
  <2>2. Sound(advance[a], paid, settled[a])
    BY <1>1 DEF RowsSound
  <2>3. Owed(a) = Less(advance[a].opening, paid)
    BY <2>1 DEF Owed, Summary
  <2> HIDE DEF paid
  <2>4. CASE advance[a].status = "Absent"
    <3>1. ~advance[a].released /\ paid <= 0 + 0 + settled[a]
      BY <2>1, <2>2, <2>4 DEF Sound
    <3> QED BY <2>1, <2>2, <2>3, <2>4, <3>1 DEF Sound
  <2>5. CASE advance[a].status # "Absent"
    BY <2>1, <2>2, <2>3, <2>5 DEF Sound, Ready
  <2> QED BY <2>4, <2>5
<1>3. ASSUME NEW r \in Runs
      PROVE  MapThenSumSet(LAMBDA a : posted[r][a], Advances) <= Withheld(run[r])
  <2> DEFINE f == posted[r]
  <2>1. \A a \in Advances : f[a] \in Nat
    BY <1>1 DEF LedgerOK
  <2>2. Tally(f, Advances) <= Withheld(run[r])
    BY <1>1 DEF RunsSound
  <2> HIDE DEF f
  <2>3. MapThenSumSet(LAMBDA a : f[a], Advances) = Tally(f, Advances)
    BY <2>1, AdvancesAssumption, SumIsTally
  <2> QED BY <2>2, <2>3 DEF f
<1>4. IssuedIsOwed /\ RepaidWithinAmount /\ StoredCoversOwed
  BY <1>2 DEF IssuedIsOwed, RepaidWithinAmount, StoredCoversOwed, OwedStatuses
<1>5. PostedWithinWithheld
  BY <1>3 DEF PostedWithinWithheld, Withheld
<1> QED BY <1>4, <1>5

LEMMA MoneyIsSound == Spec => []MoneyInv
BY MoneyInit, MoneyNext, PTL DEF Spec

(***************************************************************************)
(* Unless a request acted on what had changed since it read it, no         *)
(* approval, rejection, cancellation, correction, settlement, repayment or *)
(* payroll takes an issued advance out of the debts.                       *)
(***************************************************************************)
THEOREM IssuedStaysOwed == Spec => []IssuedIsOwed
BY MoneyIsSound, MoneyInvIsEnough, PTL

(***************************************************************************)
(* With the same proviso the repayments of an advance, by hand and by any  *)
(* number of paid runs, never exceed its amount and its credit.            *)
(***************************************************************************)
THEOREM RepaidWithin == Spec => []RepaidWithinAmount
BY MoneyIsSound, MoneyInvIsEnough, PTL

(***************************************************************************)
(* With the same proviso a run posts, over all advances together, at most  *)
(* what it withheld, and nothing before it is Paid.                        *)
(***************************************************************************)
THEOREM PostedFitsWithheld == Spec => []PostedWithinWithheld
BY MoneyIsSound, MoneyInvIsEnough, PTL

(***************************************************************************)
(* With the same proviso the stored balance of an advance, from which      *)
(* drafts deduct, is never below what is owed on it.                       *)
(***************************************************************************)
THEOREM StoredCovers == Spec => []StoredCoversOwed
BY MoneyIsSound, MoneyInvIsEnough, PTL
=============================================================================
