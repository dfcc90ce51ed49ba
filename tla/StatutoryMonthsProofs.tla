------------------------- MODULE StatutoryMonthsProofs -------------------------
(***************************************************************************)
(* Proofs about StatutoryMonths, for any calendar of cutoffs that follow   *)
(* one another, any number of runs and any earnings.                       *)
(***************************************************************************)
EXTENDS StatutoryMonths, FiniteSetsExt, FiniteSetTheorems, WellFoundedInduction, TLAPS

-----------------------------------------------------------------------------
(* Sums over a finite set, as the models write them with MapThenSumSet.  The sum is *)
(* counted in units, so that what it does follows from the theorems about finite    *)
(* cardinalities; that the fold computes it is shown by the smallest set on which   *)
(* the two would differ.                                                            *)

(* A nonempty finite set of numbers has a last one. *)
LEMMA LastOne ==
  ASSUME NEW R, IsFiniteSet(R), R \subseteq Nat, R # {}
  PROVE  \E z \in R : \A a \in R : a <= z
<1> DEFINE After(a) == {b \in R : a < b}
           F == {After(a) : a \in R}
<1>1. F \subseteq FiniteSubsetsOf(R) /\ F # {}
  <2>1. \A a \in R : After(a) \in SUBSET R /\ IsFiniteSet(After(a))
    BY FS_Subset
  <2> QED BY <2>1 DEF FiniteSubsetsOf
<1>2. PICK T \in F : \A U \in F : ~ (<<U, T>> \in StrictSubsetOrdering(R))
  <2> HIDE DEF F
  <2> QED BY <1>1, FS_StrictSubsetOrderingWellFounded, WFMin, Zenon
<1>3. PICK z \in R : T = After(z)
  OBVIOUS
<1>4. ASSUME NEW a \in R, ~ (a <= z) PROVE FALSE
  <2>1. a \in Nat /\ z \in Nat /\ z < a
    BY <1>4
  <2>2. After(a) \subseteq After(z) /\ a \in After(z) /\ a \notin After(a)
    <3>1. \A b \in R : a < b => z < b
      BY <2>1
    <3>2. a \in After(z) /\ a \notin After(a)
      BY <2>1
    <3> QED BY <3>1, <3>2
  <2>3. <<After(a), After(z)>> \in StrictSubsetOrdering(R)
    BY <2>2 DEF StrictSubsetOrdering
  <2> QED BY <1>2, <1>3, <2>3
<1> QED BY <1>4

Units(f, S) == UNION {{x} \X (1..f[x]) : x \in S}
Tally(f, S) == Cardinality(Units(f, S))

(* The units of one element. *)
LEMMA UnitsOfOne ==
  ASSUME NEW x, NEW n \in Nat
  PROVE  IsFiniteSet({x} \X (1..n)) /\ Cardinality({x} \X (1..n)) = n
<1>1. IsFiniteSet({x}) /\ Cardinality({x}) = 1
  BY FS_Singleton
<1>2. IsFiniteSet(1..n) /\ Cardinality(1..n) = n
  BY FS_Interval
<1>3. /\ IsFiniteSet({x} \X (1..n))
      /\ Cardinality({x} \X (1..n)) = Cardinality({x}) * Cardinality(1..n)
  BY <1>1, <1>2, FS_Product, Zenon
<1>4. 1 * n = n
  OBVIOUS
<1> QED BY <1>1, <1>2, <1>3, <1>4

LEMMA UnitsAreFinite ==
  ASSUME NEW S, IsFiniteSet(S), NEW f, \A x \in S : f[x] \in Nat
  PROVE  IsFiniteSet(Units(f, S)) /\ Tally(f, S) \in Nat
<1> DEFINE T == {{x} \X (1..f[x]) : x \in S}
           g == [x \in S |-> {x} \X (1..f[x])]
<1>1. g \in Surjection(S, T)
  BY DEF Surjection
<1>2. IsFiniteSet(T)
  <2> HIDE DEF g, T
  <2> QED BY <1>1, FS_Surjection
<1>3. ASSUME NEW t \in T PROVE IsFiniteSet(t)
  <2>1. PICK x \in S : t = {x} \X (1..f[x])
    OBVIOUS
  <2> QED BY <2>1, UnitsOfOne
<1> HIDE DEF T
<1>4. IsFiniteSet(UNION T)
  BY <1>2, <1>3, FS_UNION
<1>5. Units(f, S) = UNION T
  BY DEF Units, T
<1> QED BY <1>4, <1>5, FS_CardinalityType DEF Tally

(* Nothing sums up to nothing. *)
LEMMA TallyOfNone == ASSUME NEW f PROVE Tally(f, {}) = 0
BY FS_EmptySet DEF Tally, Units

(* One more element adds what the function says of it. *)
LEMMA TallyOfOneMore ==
  ASSUME NEW S, IsFiniteSet(S), NEW y, y \notin S, NEW f, \A x \in S \cup {y} : f[x] \in Nat
  PROVE  Tally(f, S \cup {y}) = Tally(f, S) + f[y]
<1> DEFINE A == Units(f, S)
           B == {y} \X (1..f[y])
<1>1. Units(f, S \cup {y}) = A \cup B
  BY DEF Units
<1>2. A \cap B = {}
  BY DEF Units
<1>3. IsFiniteSet(A) /\ Cardinality(A) \in Nat /\ Cardinality(A) = Tally(f, S)
  BY UnitsAreFinite DEF Tally
<1>4. f[y] \in Nat /\ IsFiniteSet(B) /\ Cardinality(B) = f[y]
  BY UnitsOfOne
<1> HIDE DEF A, B
<1>5. Cardinality(A \cup B) = Cardinality(A) + Cardinality(B) - Cardinality(A \cap B)
  BY <1>3, <1>4, FS_Union
<1>6. Cardinality(A \cap B) = 0
  BY <1>2, FS_EmptySet
<1>7. Cardinality(A \cup B) = Cardinality(A) + Cardinality(B)
  BY <1>3, <1>4, <1>5, <1>6
<1>8. Tally(f, S \cup {y}) = Cardinality(A \cup B)
  BY <1>1 DEF Tally
<1> QED BY <1>3, <1>4, <1>7, <1>8, Zenon

(* A sum grows with its set and with what is summed. *)
LEMMA TallyGrows ==
  ASSUME NEW T, IsFiniteSet(T), NEW S \in SUBSET T, NEW f, NEW g,
         \A x \in T : g[x] \in Nat,
         \A x \in S : f[x] \in Nat /\ f[x] <= g[x]
  PROVE  Tally(f, S) <= Tally(g, T)
<1>1. Units(f, S) \subseteq Units(g, T)
  BY DEF Units
<1>2. IsFiniteSet(Units(g, T))
  BY UnitsAreFinite
<1> QED BY <1>1, <1>2, FS_Subset DEF Tally

(* A sum depends on the values only. *)
LEMMA TallyOfSame ==
  ASSUME NEW S, NEW f, NEW g, \A x \in S : f[x] = g[x]
  PROVE  Tally(f, S) = Tally(g, S)
<1>1. Units(f, S) = Units(g, S)
  BY DEF Units
<1> QED BY <1>1 DEF Tally

(* The recursion of MapThenSumSet, for what the function f says of the elements of S. *)
IsFold(it, f, S) ==
  it = [s \in SUBSET S |-> IF s = {} THEN 0
                           ELSE f[CHOOSE x \in s : TRUE] + it[s \ {CHOOSE x \in s : TRUE}]]

LEMMA TallyIsFold ==
  ASSUME NEW S, IsFiniteSet(S), NEW f, \A x \in S : f[x] \in Nat
  PROVE  IsFold([s \in SUBSET S |-> Tally(f, s)], f, S)
<1> DEFINE it == [s \in SUBSET S |-> Tally(f, s)]
<1>1. ASSUME NEW s \in SUBSET S, s # {}
      PROVE  Tally(f, s) = f[CHOOSE x \in s : TRUE] + it[s \ {CHOOSE x \in s : TRUE}]
  <2> DEFINE y == CHOOSE x \in s : TRUE
             rest == s \ {y}
  <2>1. y \in s
    BY <1>1
  <2> HIDE DEF y
  <2>2. IsFiniteSet(rest) /\ y \notin rest /\ s = rest \cup {y} /\ rest \in SUBSET S
    <3>1. IsFiniteSet(s)
      BY FS_Subset
    <3> QED BY <2>1, <3>1, FS_Subset
  <2>3. \A x \in rest \cup {y} : f[x] \in Nat
    BY <2>1
  <2> HIDE DEF rest
  <2>4. Tally(f, s) = Tally(f, rest) + f[y] /\ Tally(f, rest) \in Nat
    BY <2>2, <2>3, TallyOfOneMore, UnitsAreFinite
  <2>5. f[y] \in Nat /\ it[rest] = Tally(f, rest)
    BY <2>1, <2>2
  <2> HIDE DEF it
  <2>6. Tally(f, s) = f[y] + it[rest]
    BY <2>4, <2>5
  <2> QED BY <2>6 DEF y, rest
<1>2. Tally(f, {}) = 0
  BY TallyOfNone
<1>3. it = [s \in SUBSET S |-> IF s = {} THEN 0
                               ELSE f[CHOOSE x \in s : TRUE] + it[s \ {CHOOSE x \in s : TRUE}]]
  BY <1>1, <1>2
<1> QED BY <1>3 DEF IsFold

LEMMA FoldIsTally ==
  ASSUME NEW S, IsFiniteSet(S), NEW f, \A x \in S : f[x] \in Nat, NEW it, IsFold(it, f, S)
  PROVE  it[S] = Tally(f, S)
<1> DEFINE bad == {s \in SUBSET S : it[s] # Tally(f, s)}
<1>1. \A s \in SUBSET S : it[s] = IF s = {} THEN 0
                          ELSE f[CHOOSE x \in s : TRUE] + it[s \ {CHOOSE x \in s : TRUE}]
  BY DEF IsFold
<1>2. SUFFICES ASSUME bad # {} PROVE FALSE
  OBVIOUS
<1>3. bad \subseteq FiniteSubsetsOf(S)
  BY FS_Subset DEF FiniteSubsetsOf
<1>4. PICK s \in bad : \A r \in bad : ~ (<<r, s>> \in StrictSubsetOrdering(S))
  <2> HIDE DEF bad
  <2> QED BY <1>2, <1>3, FS_StrictSubsetOrderingWellFounded, WFMin, Zenon
<1>5. s # {}
  BY <1>1, TallyOfNone
<1> DEFINE y == CHOOSE x \in s : TRUE
           rest == s \ {y}
<1>6. y \in s
  BY <1>5
<1>7. it[s] = f[y] + it[rest]
  BY <1>1, <1>5
<1> HIDE DEF y
<1>8. rest \in SUBSET S /\ rest \subseteq s /\ rest # s /\ y \notin rest /\ s = rest \cup {y}
  BY <1>6
<1> HIDE DEF rest
<1>9. it[rest] = Tally(f, rest)
  <2>1. <<rest, s>> \in StrictSubsetOrdering(S)
    BY <1>8 DEF StrictSubsetOrdering
  <2> QED BY <1>4, <1>8, <2>1
<1>10. IsFiniteSet(rest) /\ \A x \in rest \cup {y} : f[x] \in Nat
  <2>1. IsFiniteSet(rest)
    BY <1>8, FS_Subset
  <2> QED BY <1>6, <1>8, <2>1
<1>11. Tally(f, s) = Tally(f, rest) + f[y] /\ Tally(f, rest) \in Nat /\ f[y] \in Nat
  BY <1>8, <1>10, TallyOfOneMore, UnitsAreFinite
<1>12. it[s] = Tally(f, s)
  BY <1>7, <1>9, <1>11
<1> QED BY <1>12

LEMMA SumIsTally ==
  ASSUME NEW S, IsFiniteSet(S), NEW f, \A x \in S : f[x] \in Nat
  PROVE  MapThenSumSet(LAMBDA x : f[x], S) = Tally(f, S)
<1> DEFINE it == CHOOSE it : IsFold(it, f, S)
<1>1. IsFold(it, f, S)
  BY TallyIsFold
<1>2. MapThenSumSet(LAMBDA x : f[x], S) = it[S]
  BY DEF MapThenSumSet, MapThenFoldSet, IsFold
<1> QED BY <1>1, <1>2, FoldIsTally

-----------------------------------------------------------------------------

(***************************************************************************)
(* What get_sss_share is assumed to do: the share does not fall when the   *)
(* earnings rise, as in the table that the database is created with.       *)
(***************************************************************************)
ShareRises ==
  /\ \A n \in Nat : Share(n) \in Nat
  /\ \A m, n \in Nat : m <= n => Share(m) <= Share(n)

Amounts == [Months -> Nat]
Statuses == {"Absent", "Draft", "Settled", "Paid", "Deleted"}
Seen == SUBSET (Runs \X Nat \X Nat \X Amounts)
Rows == [status : Statuses, cutoff : Cutoffs, parent : Runs \cup {NoRun}, adjusts : BOOLEAN,
         successor : Runs \cup {NoRun}, gross : Amounts, fixed : Nat, share : Nat, other : Nat,
         recorded : BOOLEAN, catchup : Amounts, seen : Seen]

Typed == run \in [Runs -> Rows] /\ outside \in Amounts

-----------------------------------------------------------------------------
(* The calendar, and sums over its months and over runs.                   *)

LEMMA TheCalendar ==
  /\ Cutoffs = 1..Len(Segments) /\ Len(Segments) \in Nat /\ 1 \in Cutoffs
  /\ \A c \in Cutoffs :
       /\ Len(Segments[c]) \in Nat \ {0} /\ DOMAIN Segments[c] = 1..Len(Segments[c])
       /\ Last(c) \in SegmentsOf(c) /\ Last(c).month \in MonthsOf(c)
       /\ \A s \in SegmentsOf(c) : /\ s.month \in Nat /\ s.from \in Nat /\ s.to \in Nat
                                   /\ s.from <= s.to /\ s.month <= Last(c).month
<1>1. Cutoffs = 1..Len(Segments) /\ Len(Segments) \in Nat /\ 1 \in Cutoffs
  BY CalendarAssumption DEF Cutoffs
<1>2. ASSUME NEW c \in Cutoffs
      PROVE  /\ Len(Segments[c]) \in Nat \ {0} /\ DOMAIN Segments[c] = 1..Len(Segments[c])
             /\ Last(c) \in SegmentsOf(c) /\ Last(c).month \in MonthsOf(c)
             /\ \A s \in SegmentsOf(c) : /\ s.month \in Nat /\ s.from \in Nat /\ s.to \in Nat
                                         /\ s.from <= s.to /\ s.month <= Last(c).month
  <2> DEFINE seg == Segments[c]
             n == Len(seg)
         T == [month : Nat, from : 1..31, to : 1..31]
  <2>1. seg \in Seq(T)
    <3> HIDE DEF T
    <3>1. Segments \in Seq(Seq(T))
      BY CalendarAssumption DEF T
    <3> QED BY <1>1, <3>1
  <2>2. n \in Nat \ {0} /\ DOMAIN seg = 1..n
    BY <2>1, StatutoryAssumption
  <2>3. \A k \in 1..n : seg[k] \in T
    <3> HIDE DEF T, seg
    <3> QED BY <2>1, <2>2
  <2>4. n \in 1..n
    BY <2>2
  <2>5. Last(c) = seg[n] /\ Last(c) \in SegmentsOf(c)
    BY <2>2, <2>4 DEF Last, SegmentsOf, Range
  <2>6. ASSUME NEW s \in SegmentsOf(c)
        PROVE  /\ s.month \in Nat /\ s.from \in Nat /\ s.to \in Nat
               /\ s.from <= s.to /\ s.month <= Last(c).month
    <3>1. PICK k \in 1..n : s = seg[k]
      BY <2>2, <2>6 DEF SegmentsOf, Range
    <3>2. s.from <= s.to
      BY <2>2, <3>1, CalendarAssumption
    <3>3. k < n => seg[k].month < seg[n].month
      <4>1. \A j \in 1..(n - 1) : seg[j].month < seg[n].month
        BY <2>2, <2>4, CalendarAssumption
      <4>2. k < n => k \in 1..(n - 1)
        BY <2>2
      <4> QED BY <4>1, <4>2
    <3>4. seg[k].month \in Nat /\ seg[n].month \in Nat /\ s.from \in Nat /\ s.to \in Nat
      <4>1. seg[k] \in T /\ seg[n] \in T
        BY <2>3, <2>4
      <4> HIDE DEF seg, n
      <4> QED BY <3>1, <4>1
    <3> HIDE DEF seg, n
    <3> QED BY <2>2, <2>5, <3>1, <3>2, <3>3, <3>4
  <2>7. Last(c).month \in MonthsOf(c)
    BY <2>5 DEF MonthsOf
  <2> QED BY <2>2, <2>5, <2>6, <2>7
<1> QED BY <1>1, <1>2

(* Of two cutoffs, the segments of the first are before those of the second. *)
LEMMA CutoffsFollow ==
  \A c, d \in Cutoffs : c < d =>
    \A s \in SegmentsOf(c), t \in SegmentsOf(d) : s.month < t.month \/ (s.month = t.month /\ s.to < t.from)
BY CalendarAssumption

LEMMA MonthsAreFinite == IsFiniteSet(Months)
<1>1. ASSUME NEW c \in Cutoffs PROVE IsFiniteSet(MonthsOf(c))
  <2> DEFINE D == DOMAIN Segments[c]
             f == [k \in D |-> Segments[c][k].month]
  <2>1. IsFiniteSet(D)
    <3>1. Len(Segments[c]) \in Int /\ D = 1..Len(Segments[c])
      BY TheCalendar
    <3>2. IsFiniteSet(1..Len(Segments[c]))
      <4>1. 1 \in Int
        OBVIOUS
      <4> QED BY <3>1, <4>1, FS_Interval, Zenon
    <3> HIDE DEF D
    <3> QED BY <3>1, <3>2, Zenon
  <2>2. f \in Surjection(D, MonthsOf(c))
    BY DEF Surjection, MonthsOf, SegmentsOf, Range
  <2> QED BY <2>1, <2>2, FS_Surjection
<1> DEFINE g == [c \in Cutoffs |-> MonthsOf(c)]
           T == {MonthsOf(c) : c \in Cutoffs}
<1>2. IsFiniteSet(Cutoffs)
  BY TheCalendar, FS_Interval
<1>3. g \in Surjection(Cutoffs, T)
  BY DEF Surjection
<1>4. IsFiniteSet(T)
  BY <1>2, <1>3, FS_Surjection
<1>5. \A t \in T : IsFiniteSet(t)
  BY <1>1
<1> QED BY <1>4, <1>5, FS_UNION DEF Months

LEMMA TotalIsTally ==
  ASSUME NEW f \in Amounts
  PROVE  Total(f) = Tally(f, Months) /\ Total(f) \in Nat
<1>1. IsFiniteSet(Months) /\ \A m \in Months : f[m] \in Nat
  BY MonthsAreFinite DEF Amounts
<1>2. MapThenSumSet(LAMBDA x : f[x], Months) = Tally(f, Months) /\ Tally(f, Months) \in Nat
  BY <1>1, SumIsTally, UnitsAreFinite
<1>3. DOMAIN f = Months
  BY DEF Amounts
<1>4. Total(f) = MapThenSumSet(LAMBDA x : f[x], Months)
  BY <1>3 DEF Total, FoldFunction, FoldFunctionOnSet, MapThenSumSet
<1> QED BY <1>2, <1>4

LEMMA SumOfIsTally ==
  ASSUME NEW S, IsFiniteSet(S), NEW g, \A x \in S : g[x] \in Nat
  PROVE  SumOf(S, LAMBDA x : g[x]) = Tally(g, S)
<1>1. MapThenSumSet(LAMBDA x : g[x], S) = Tally(g, S)
  BY SumIsTally
<1>2. SumOf(S, LAMBDA x : g[x]) = MapThenSumSet(LAMBDA x : g[x], S)
  BY DEF SumOf, FoldSet, MapThenSumSet, MapThenFoldSet
<1> QED BY <1>1, <1>2

-----------------------------------------------------------------------------
(* What an item is computed from, as sums.                                 *)

FixedOf(rows) == [r \in Runs |-> rows[r].fixed]
ShareOf(rows) == [r \in Runs |-> rows[r].share]
GrossOf(rows) == [r \in Runs |-> Tally(rows[r].gross, Months)]

Taken(c) == Counted(c, Last(c)) \cup Evidence(Last(c))
FixedBefore(c) == [r \in Runs |-> IF r \in DeductedFor(Last(c).month) THEN run[r].fixed ELSE 0]
ShareBefore(c) == [r \in Runs |-> IF r \in DeductedFor(Last(c).month) THEN run[r].share ELSE 0]
GrossBefore(c) ==
  [r \in Runs |-> IF r \in Counted(c, Last(c)) THEN run[r].gross[Last(c).month] ELSE Total(run[r].gross)]

LEMMA RowsTyped ==
  ASSUME Typed, NEW r \in Runs
  PROVE  /\ run[r] \in Rows /\ run[r].status \in Statuses /\ run[r].cutoff \in Cutoffs
         /\ run[r].gross \in Amounts /\ run[r].catchup \in Amounts
         /\ run[r].fixed \in Nat /\ run[r].share \in Nat /\ run[r].other \in Nat
         /\ run[r].recorded \in BOOLEAN /\ run[r].seen \in Seen
<1>1. run[r] \in Rows
  BY DEF Typed
<1> QED BY <1>1 DEF Rows

LEMMA PreviousIsTally ==
  ASSUME Typed, NEW c \in Cutoffs
  PROVE  /\ Taken(c) \subseteq Runs /\ IsFiniteSet(Taken(c))
         /\ \A r \in Taken(c) : /\ FixedBefore(c)[r] \in Nat /\ ShareBefore(c)[r] \in Nat
                                /\ GrossBefore(c)[r] \in Nat
         /\ Previous(c).fixed = Tally(FixedBefore(c), Taken(c)) /\ Previous(c).fixed \in Nat
         /\ Previous(c).share = Tally(ShareBefore(c), Taken(c)) /\ Previous(c).share \in Nat
         /\ Previous(c).gross = Tally(GrossBefore(c), Taken(c)) /\ Previous(c).gross \in Nat
<1> DEFINE S == Taken(c)
           m == Last(c).month
<1>1. S \subseteq Runs /\ IsFiniteSet(S)
  <2>1. S \subseteq Runs
    BY DEF Taken, Counted, Evidence, Live
  <2>2. IsFiniteSet(Runs)
    BY StatutoryAssumption, FS_Interval DEF Runs
  <2> QED BY <2>1, <2>2, FS_Subset
<1>2. m \in Months
  BY TheCalendar DEF Months
<1>3. \A r \in S : /\ FixedBefore(c)[r] \in Nat /\ ShareBefore(c)[r] \in Nat
                   /\ GrossBefore(c)[r] \in Nat
  <2> SUFFICES ASSUME NEW r \in S
               PROVE  /\ FixedBefore(c)[r] \in Nat /\ ShareBefore(c)[r] \in Nat
                      /\ GrossBefore(c)[r] \in Nat
    OBVIOUS
  <2>1. r \in Runs
    BY <1>1
  <2>2. /\ run[r].fixed \in Nat /\ run[r].share \in Nat /\ run[r].gross \in Amounts
    BY <2>1, RowsTyped
  <2>3. run[r].gross[m] \in Nat /\ Total(run[r].gross) \in Nat
    BY <1>2, <2>2, TotalIsTally DEF Amounts
  <2> QED BY <2>1, <2>2, <2>3 DEF FixedBefore, ShareBefore, GrossBefore
<1> DEFINE f == [r \in S |-> IF r \in DeductedFor(m) THEN run[r].fixed ELSE 0]
           h == [r \in S |-> IF r \in DeductedFor(m) THEN run[r].share ELSE 0]
           g == [r \in S |-> IF r \in Counted(c, Last(c)) THEN run[r].gross[m] ELSE Total(run[r].gross)]
<1>4. \A r \in S : f[r] = FixedBefore(c)[r] /\ h[r] = ShareBefore(c)[r] /\ g[r] = GrossBefore(c)[r]
  BY <1>1 DEF FixedBefore, ShareBefore, GrossBefore
<1>5. /\ Previous(c).fixed = SumOf(S, LAMBDA r : f[r])
      /\ Previous(c).share = SumOf(S, LAMBDA r : h[r])
      /\ Previous(c).gross = SumOf(S, LAMBDA r : g[r])
  <2>1. /\ Previous(c).fixed =
               SumOf(S, LAMBDA r : IF r \in DeductedFor(m) THEN run[r].fixed ELSE 0)
        /\ Previous(c).share =
               SumOf(S, LAMBDA r : IF r \in DeductedFor(m) THEN run[r].share ELSE 0)
        /\ Previous(c).gross =
               SumOf(S, LAMBDA r : IF r \in Counted(c, Last(c)) THEN run[r].gross[m]
                                   ELSE Total(run[r].gross))
    BY DEF Previous, Taken
  <2> HIDE DEF S, m
  <2>2. SumOf(S, LAMBDA r : f[r]) = SumOf(S, LAMBDA r : IF r \in DeductedFor(m) THEN run[r].fixed ELSE 0)
    BY ZenonT(90) DEF SumOf, FoldSet, MapThenFoldSet
  <2>3. SumOf(S, LAMBDA r : h[r]) = SumOf(S, LAMBDA r : IF r \in DeductedFor(m) THEN run[r].share ELSE 0)
    BY ZenonT(90) DEF SumOf, FoldSet, MapThenFoldSet
  <2>4. SumOf(S, LAMBDA r : g[r]) =
          SumOf(S, LAMBDA r : IF r \in Counted(c, Last(c)) THEN run[r].gross[m] ELSE Total(run[r].gross))
    BY ZenonT(90) DEF SumOf, FoldSet, MapThenFoldSet
  <2> HIDE DEF f, g, h
  <2> QED BY <2>1, <2>2, <2>3, <2>4, Zenon
<1>6. /\ Tally(f, S) = Tally(FixedBefore(c), S) /\ Tally(h, S) = Tally(ShareBefore(c), S)
      /\ Tally(g, S) = Tally(GrossBefore(c), S)
  <2> HIDE DEF f, g, h, S
  <2> QED BY <1>4, TallyOfSame
<1>7. \A r \in S : f[r] \in Nat /\ h[r] \in Nat /\ g[r] \in Nat
  <2> HIDE DEF f, g, h, S
  <2> QED BY <1>3, <1>4
<1> HIDE DEF f, g, h, S
<1>8. /\ SumOf(S, LAMBDA r : f[r]) = Tally(f, S) /\ Tally(f, S) \in Nat
      /\ SumOf(S, LAMBDA r : h[r]) = Tally(h, S) /\ Tally(h, S) \in Nat
      /\ SumOf(S, LAMBDA r : g[r]) = Tally(g, S) /\ Tally(g, S) \in Nat
  BY <1>1, <1>7, SumOfIsTally, UnitsAreFinite
<1> QED BY <1>1, <1>3, <1>5, <1>6, <1>8 DEF S

LEMMA TargetsAre ==
  ASSUME NEW c \in Cutoffs
  PROVE  /\ Target(c) \in Nat /\ Target(c) \in {Monthly \div 2, Monthly}
         /\ Monthly \div 2 \in Nat /\ Monthly \div 2 <= Monthly
BY StatutoryAssumption DEF Target

(* The item keeps what belongs to the run, and is a row. *)
LEMMA ItemTyped ==
  ASSUME ShareRises, Typed, NEW base \in Rows, NEW c \in Cutoffs, NEW gross \in Amounts
  PROVE  /\ Item(base, c, gross) \in Rows
         /\ Item(base, c, gross).cutoff = c /\ Item(base, c, gross).gross = gross
         /\ Item(base, c, gross).seen = Records(run, Settling(c))
         /\ Item(base, c, gross).fixed =
              IF Total(gross) = 0 THEN 0 ELSE Rest(Target(c), Previous(c).fixed)
         /\ Item(base, c, gross).share =
              IF Total(gross) = 0 THEN 0
              ELSE Rest(Share(Previous(c).gross + Total(gross)), Previous(c).share)
         /\ Item(base, c, gross).status = base.status /\ Item(base, c, gross).parent = base.parent
         /\ Item(base, c, gross).successor = base.successor
         /\ Item(base, c, gross).other = base.other /\ Item(base, c, gross).catchup = base.catchup
         /\ Item(base, c, gross).recorded = base.recorded
         /\ Item(base, c, gross).adjusts = base.adjusts
<1> DEFINE fix == IF Total(gross) = 0 THEN 0 ELSE Rest(Target(c), Previous(c).fixed)
           shr == IF Total(gross) = 0 THEN 0
                  ELSE Rest(Share(Previous(c).gross + Total(gross)), Previous(c).share)
           old == Records(run, Settling(c))
<1>1. /\ Previous(c).fixed \in Nat /\ Previous(c).share \in Nat /\ Previous(c).gross \in Nat
      /\ Target(c) \in Nat /\ Total(gross) \in Nat
  BY PreviousIsTally, TargetsAre, TotalIsTally
<1>2. Share(Previous(c).gross + Total(gross)) \in Nat
  BY <1>1 DEF ShareRises
<1>3. fix \in Nat /\ shr \in Nat
  BY <1>1, <1>2 DEF Rest
<1>4. old \in Seen
  <2> SUFFICES ASSUME NEW r \in Settling(c) PROVE Record(run, r) \in Runs \X Nat \X Nat \X Amounts
    BY DEF Records, Seen
  <2>1. r \in Runs
    BY DEF Settling, DeductedFor, Live
  <2> QED BY <2>1, RowsTyped DEF Record
<1>5. Item(base, c, gross) = [base EXCEPT !.cutoff = c, !.gross = gross, !.fixed = fix, !.share = shr,
                                         !.seen = old]
  BY DEF Item
<1> HIDE DEF fix, shr, old
<1> DEFINE item == [base EXCEPT !.cutoff = c, !.gross = gross, !.fixed = fix, !.share = shr, !.seen = old]
<1>6. /\ item \in Rows /\ item.cutoff = c /\ item.gross = gross /\ item.seen = old
      /\ item.fixed = fix /\ item.share = shr
      /\ item.status = base.status /\ item.parent = base.parent /\ item.successor = base.successor
      /\ item.other = base.other /\ item.catchup = base.catchup
  BY <1>3, <1>4 DEF Rows
<1>7. item.recorded = base.recorded /\ item.adjusts = base.adjusts
  BY Zenon DEF Rows
<1> QED BY <1>5, <1>6, <1>7 DEF fix, shr, old

-----------------------------------------------------------------------------
(* What a step does to the row of one run.                                 *)

SameItem(old, new) ==
  /\ new.cutoff = old.cutoff /\ new.gross = old.gross /\ new.fixed = old.fixed /\ new.share = old.share
  /\ new.parent = old.parent /\ new.recorded = old.recorded /\ new.seen = old.seen
SameCatchups(old, new) == new.catchup = old.catchup /\ new.other = old.other
Gone == {"Absent", "Deleted"}

\* It moves between statuses, or what it is superseded by changes.
Moved(old, new) ==
  /\ SameItem(old, new) /\ SameCatchups(old, new)
  /\ new.status = old.status \/ {old.status, new.status} \cap Gone = {}
\* It is deleted.
Erased(new) == new = [Absent EXCEPT !.status = "Deleted"]
\* Its catch-ups change.
CaughtUp(old, new) ==
  SameItem(old, new) /\ new.status = old.status /\ new.other = Tally(new.catchup, Months)
\* Its item is computed.
Anew(r, old, new) ==
  /\ new.status = "Draft"
  /\ old.status = "Absent" \/ (old.status = "Draft" /\ new.cutoff = old.cutoff)
  /\ new.other = Tally(new.catchup, Months)
  /\ \E base \in Rows, gross \in Amounts : SameItem([Item(base, new.cutoff, gross) EXCEPT
                                             !.parent = new.parent, !.recorded = new.recorded], new)
  /\ new.parent = NoRun \/ new.recorded => Persistable(r, new.cutoff)

CatchupInv == \A r \in Runs : run[r].other = Tally(run[r].catchup, Months)

Steps ==
  /\ Typed'
  /\ \A r \in Runs : Moved(run[r], run'[r]) \/ Erased(run'[r]) \/ CaughtUp(run[r], run'[r])
                     \/ Anew(r, run[r], run'[r])

LEMMA NobodyIsAmounts == Nobody \in Amounts /\ Total(Nobody) = 0 /\ Tally(Nobody, Months) = 0
<1>1. Nobody \in Amounts
  BY DEF Nobody, Amounts
<1>2. Units(Nobody, Months) = {}
  BY DEF Units, Nobody
<1>3. Tally(Nobody, Months) = 0
  BY <1>2, FS_EmptySet DEF Tally
<1> QED BY <1>1, <1>3, TotalIsTally

LEMMA AbsentIsRow ==
  /\ Absent \in Rows /\ [Absent EXCEPT !.status = "Deleted"] \in Rows
  /\ Absent.other = 0 /\ Absent.catchup = Nobody
BY TheCalendar, NobodyIsAmounts DEF Absent, Rows, Statuses, NoRun, Seen

LEMMA Unchanged ==
  ASSUME Typed, UNCHANGED run, outside' \in Amounts
  PROVE  Steps
BY DEF Typed, Steps, Moved, SameItem, SameCatchups

LEMMA MoveSteps ==
  ASSUME Typed, NEW r \in Runs, NEW from \in Statuses \ Gone, NEW to \in Statuses \ Gone, Move(r, from, to)
  PROVE  Steps
<1> DEFINE new == [run[r] EXCEPT !.status = to]
<1>1. run' = [run EXCEPT ![r] = new] /\ outside' = outside /\ run[r].status = from
  BY DEF Move, Typed
<1>2. run[r] \in Rows
  BY RowsTyped
<1>3. new \in Rows /\ SameItem(run[r], new) /\ SameCatchups(run[r], new) /\ new.status = to
  BY <1>2 DEF Rows, SameItem, SameCatchups
<1> HIDE DEF new
<1>4. Moved(run[r], new)
  BY <1>1, <1>3 DEF Moved
<1>5. Typed'
  BY <1>1, <1>3 DEF Typed
<1>6. ASSUME NEW s \in Runs PROVE Moved(run[s], run'[s])
  <2>1. CASE s = r
    BY <1>1, <1>4, <2>1 DEF Typed
  <2>2. CASE s # r
    BY <1>1, <2>2 DEF Typed, Moved, SameItem, SameCatchups
  <2> QED BY <2>1, <2>2
<1> QED BY <1>5, <1>6 DEF Steps

LEMMA PaySteps ==
  ASSUME Typed, NEW r \in Runs, Pay(r)
  PROVE  Steps
<1> DEFINE p == run[r].parent
           new(s) == CASE s = r -> [run[s] EXCEPT !.status = "Paid"]
                       [] s # r /\ s = p /\ run[r].adjusts -> [run[s] EXCEPT !.successor = r]
                       [] OTHER -> run[s]
<1>1. run' = [s \in Runs |-> new(s)] /\ outside' = outside /\ run[r].status = "Settled"
  BY DEF Pay
<1>2. ASSUME NEW s \in Runs PROVE new(s) \in Rows /\ Moved(run[s], new(s))
  <2>0. run[s] \in Rows
    BY RowsTyped
  <2>1. CASE s = r
    <3>1. new(s) = [run[s] EXCEPT !.status = "Paid"]
      BY <2>1
    <3> QED BY <1>1, <2>0, <2>1, <3>1 DEF Rows, Statuses, Moved, SameItem, SameCatchups, Gone
  <2>2. CASE s # r /\ s = p /\ run[r].adjusts
    <3>1. new(s) = [run[s] EXCEPT !.successor = r]
      BY <2>2
    <3> QED BY <2>0, <3>1 DEF Rows, Moved, SameItem, SameCatchups
  <2>3. CASE s # r /\ ~(s = p /\ run[r].adjusts)
    <3>1. new(s) = run[s]
      BY <2>3
    <3> QED BY <2>0, <3>1 DEF Moved, SameItem, SameCatchups
  <2> QED BY <2>1, <2>2, <2>3
<1> HIDE DEF new
<1>3. Typed'
  BY <1>1, <1>2 DEF Typed
<1> QED BY <1>1, <1>2, <1>3 DEF Steps

LEMMA DeleteSteps ==
  ASSUME Typed, NEW r \in Runs, Delete(r)
  PROVE  Steps
<1> DEFINE new(s) == CASE s = r -> [Absent EXCEPT !.status = "Deleted"]
                       [] s # r /\ run[s].successor = r -> [run[s] EXCEPT !.successor = NoRun]
                       [] OTHER -> run[s]
<1>1. run' = [s \in Runs |-> new(s)] /\ outside' = outside
  BY DEF Delete
<1>2. ASSUME NEW s \in Runs PROVE new(s) \in Rows /\ (Moved(run[s], new(s)) \/ Erased(new(s)))
  <2>0. run[s] \in Rows
    BY RowsTyped
  <2>1. CASE s = r
    <3>1. new(s) = [Absent EXCEPT !.status = "Deleted"]
      BY <2>1
    <3> QED BY <3>1, AbsentIsRow DEF Erased
  <2>2. CASE s # r /\ run[s].successor = r
    <3>1. new(s) = [run[s] EXCEPT !.successor = NoRun]
      BY <2>2
    <3> QED BY <2>0, <3>1 DEF Rows, Moved, SameItem, SameCatchups
  <2>3. CASE s # r /\ run[s].successor # r
    <3>1. new(s) = run[s]
      BY <2>3
    <3> QED BY <2>0, <3>1 DEF Moved, SameItem, SameCatchups
  <2> QED BY <2>1, <2>2, <2>3
<1> HIDE DEF new
<1>3. Typed'
  BY <1>1, <1>2 DEF Typed
<1> QED BY <1>1, <1>2, <1>3 DEF Steps

(* A row whose item is computed, and what is written beside the item. *)
LEMMA ComputedAnew ==
  ASSUME ShareRises, Typed, NEW r \in Runs, NEW base \in Rows, NEW c \in Cutoffs, NEW gross \in Amounts,
         NEW new \in Rows, new.status = "Draft",
         run[r].status = "Absent" \/ (run[r].status = "Draft" /\ run[r].cutoff = c),
         new.cutoff = c, new.gross = Item(base, c, gross).gross, new.fixed = Item(base, c, gross).fixed,
         new.share = Item(base, c, gross).share, new.seen = Item(base, c, gross).seen,
         new.other = Tally(new.catchup, Months),
         new.parent = NoRun \/ new.recorded => Persistable(r, c)
  PROVE  Anew(r, run[r], new)
<1> DEFINE item == Item(base, c, gross)
           same == [item EXCEPT !.parent = new.parent, !.recorded = new.recorded]
<1>1. item \in Rows /\ item.cutoff = c
  BY ItemTyped
<1>2. SameItem(same, new)
  <2> HIDE DEF item
  <2>1. /\ same.cutoff = item.cutoff /\ same.gross = item.gross /\ same.fixed = item.fixed
        /\ same.share = item.share /\ same.seen = item.seen /\ same.parent = new.parent
    BY <1>1 DEF Rows
  <2>2. same.recorded = new.recorded
    BY <1>1, Zenon DEF Rows
  <2>3. /\ new.gross = item.gross /\ new.fixed = item.fixed /\ new.share = item.share
        /\ new.seen = item.seen
    BY DEF item
  <2> QED BY <1>1, <2>1, <2>2, <2>3, Zenon DEF SameItem
<1>3. \E b \in Rows, g \in Amounts :
        SameItem([Item(b, new.cutoff, g) EXCEPT !.parent = new.parent, !.recorded = new.recorded], new)
  BY <1>2
<1> QED BY <1>3 DEF Anew

LEMMA RestAlone ==
  ASSUME Typed, NEW r \in Runs, NEW new \in Rows, run' = [run EXCEPT ![r] = new], outside' = outside,
         Moved(run[r], new) \/ Erased(new) \/ CaughtUp(run[r], new) \/ Anew(r, run[r], new)
  PROVE  Steps
<1>1. Typed' /\ run'[r] = new
  BY DEF Typed
<1>2. ASSUME NEW s \in Runs, s # r PROVE Moved(run[s], run'[s])
  BY <1>2 DEF Typed, Moved, SameItem, SameCatchups
<1> QED BY <1>1, <1>2 DEF Steps

LEMMA CreateSteps ==
  ASSUME ShareRises, Typed, NEW n \in Runs, NEW c \in Cutoffs, NEW gross \in Earnings[c],
         CreateDraft(n, c, gross)
  PROVE  Steps
<1> DEFINE item == Item(Absent, c, gross)
           drft == [item EXCEPT !.status = "Draft"]
           new == Snapshotted(drft)
           yes == TRUE
<1>1. /\ run' = [run EXCEPT ![n] = new] /\ outside' = outside /\ run[n].status = "Absent"
      /\ Persistable(n, c)
  BY DEF CreateDraft, Fresh
<1>2. gross \in Amounts
  BY StatutoryAssumption DEF Amounts
<1>3. item \in Rows /\ item.other = 0 /\ item.catchup = Nobody /\ item.cutoff = c
  BY <1>2, ItemTyped, AbsentIsRow
<1>4. new = [drft EXCEPT !.recorded = yes] /\ yes \in BOOLEAN
  BY DEF Snapshotted
<1> HIDE DEF item, yes, new
<1>5. /\ new \in Rows /\ new.status = "Draft" /\ new.other = 0 /\ new.catchup = Nobody
      /\ new.cutoff = c /\ new.gross = item.gross /\ new.fixed = item.fixed
      /\ new.share = item.share /\ new.seen = item.seen
  BY <1>3, <1>4 DEF Rows, Statuses
<1>6. new.other = Tally(new.catchup, Months)
  BY <1>5, NobodyIsAmounts
<1>7. Anew(n, run[n], new)
  BY <1>1, <1>2, <1>5, <1>6, AbsentIsRow, ComputedAnew DEF item
<1> QED BY <1>1, <1>5, <1>7, RestAlone

LEMMA RecalculateSteps ==
  ASSUME ShareRises, Typed, NEW r \in Runs, NEW gross \in Earnings[run[r].cutoff], Recalculate(r, gross)
  PROVE  Steps
<1> DEFINE c == run[r].cutoff
           item == Item(run[r], c, gross)
           kept == [item EXCEPT !.other = Manual(r)]
           new == Snapshotted(kept)
           yes == TRUE
<1>1. /\ run' = [run EXCEPT ![r] = new] /\ outside' = outside /\ run[r].status = "Draft"
      /\ Persistable(r, c)
  BY DEF Recalculate, Typed
<1>2. c \in Cutoffs /\ gross \in Amounts /\ run[r] \in Rows /\ run[r].catchup \in Amounts
  BY RowsTyped, StatutoryAssumption DEF Amounts
<1>3. /\ item \in Rows /\ item.catchup = run[r].catchup /\ item.cutoff = c
      /\ item.status = run[r].status
  BY <1>2, ItemTyped
<1>4. new = [kept EXCEPT !.recorded = yes] /\ yes \in BOOLEAN
  BY DEF Snapshotted
<1>5. Manual(r) = Tally(run[r].catchup, Months) /\ Manual(r) \in Nat
  BY <1>2, TotalIsTally DEF Manual
<1> HIDE DEF item, yes, new, c
<1>6. /\ new \in Rows /\ new.status = item.status /\ new.other = Manual(r)
      /\ new.catchup = item.catchup /\ new.cutoff = item.cutoff /\ new.gross = item.gross
      /\ new.fixed = item.fixed /\ new.share = item.share /\ new.seen = item.seen
  BY <1>3, <1>4, <1>5 DEF Rows
<1>7. new.other = Tally(new.catchup, Months)
  BY <1>3, <1>5, <1>6
<1>8. new.status = "Draft" /\ new.cutoff = c
  BY <1>1, <1>3, <1>6
<1>9. run[r].status = "Draft" /\ run[r].cutoff = c
  BY <1>1 DEF c
<1>10. Anew(r, run[r], new)
  BY <1>1, <1>2, <1>6, <1>7, <1>8, <1>9, ComputedAnew DEF item
<1> QED BY <1>1, <1>6, <1>10, RestAlone

LEMMA ReviseSteps ==
  ASSUME ShareRises, Typed, NEW n \in Runs, NEW r \in Runs, NEW gross \in Earnings[run[r].cutoff],
         Revise(n, r, gross)
  PROVE  Steps
<1> DEFINE c == run[r].cutoff
           paid == run[r].status = "Paid"
           item == Item(Absent, c, gross)
           new == [item EXCEPT !.status = "Draft", !.parent = r, !.adjusts = paid]
           next == IF paid THEN run[r].successor ELSE n
           old == [run[r] EXCEPT !.successor = next]
<1>1. /\ run' = [run EXCEPT ![n] = new, ![r].successor = IF paid THEN @ ELSE n]
      /\ outside' = outside /\ run[n].status = "Absent" /\ r \in Live
  BY DEF Revise, Fresh
<1>2. n # r /\ run[r] \in Rows /\ paid \in BOOLEAN
  BY <1>1, RowsTyped DEF Live
<1>3. c \in Cutoffs /\ gross \in Amounts
  BY RowsTyped, StatutoryAssumption DEF Amounts
<1>4. /\ item \in Rows /\ item.other = 0 /\ item.catchup = Nobody /\ item.cutoff = c
      /\ item.recorded = FALSE
  <2>1. Absent.recorded = FALSE
    BY Zenon DEF Absent
  <2>2. /\ item \in Rows /\ item.other = Absent.other /\ item.catchup = Absent.catchup
        /\ item.cutoff = c /\ item.recorded = Absent.recorded
    BY <1>3, ItemTyped, AbsentIsRow
  <2> QED BY <2>1, <2>2, AbsentIsRow
<1>5. next \in Runs \cup {NoRun}
  BY <1>2 DEF Rows
<1>6. run' = [run EXCEPT ![n] = new, ![r] = old]
  <2> HIDE DEF new, paid
  <2> QED BY <1>1, <1>2 DEF Typed
<1> HIDE DEF item, paid, next, c
<1>7. /\ new \in Rows /\ new.status = "Draft" /\ new.other = 0 /\ new.catchup = Nobody
      /\ new.cutoff = c /\ new.gross = item.gross /\ new.fixed = item.fixed
      /\ new.share = item.share /\ new.seen = item.seen /\ new.parent = r
  BY <1>2, <1>4 DEF Rows, Statuses
<1>8. new.recorded = item.recorded
  BY <1>4, Zenon DEF Rows
<1>9. old \in Rows /\ SameItem(run[r], old) /\ SameCatchups(run[r], old) /\ old.status = run[r].status
  BY <1>2, <1>5 DEF Rows, SameItem, SameCatchups
<1> HIDE DEF new, old
<1>10. ~(new.parent = NoRun \/ new.recorded)
  <2>1. r # NoRun
    BY DEF Runs, NoRun
  <2> QED BY <1>4, <1>7, <1>8, <2>1
<1>11. new.other = Tally(new.catchup, Months)
  BY <1>7, NobodyIsAmounts
<1>12. Anew(n, run[n], new)
  BY <1>1, <1>3, <1>7, <1>10, <1>11, AbsentIsRow, ComputedAnew DEF item
<1>13. Typed'
  BY <1>1, <1>6, <1>7, <1>9 DEF Typed
<1>14. ASSUME NEW s \in Runs PROVE Moved(run[s], run'[s]) \/ Anew(s, run[s], run'[s])
  <2>1. CASE s = n
    BY <1>2, <1>6, <1>12, <2>1 DEF Typed
  <2>2. CASE s = r
    BY <1>6, <1>9, <2>2 DEF Typed, Moved
  <2>3. CASE s # n /\ s # r
    BY <1>6, <2>3 DEF Typed, Moved, SameItem, SameCatchups
  <2> QED BY <2>1, <2>2, <2>3
<1> QED BY <1>13, <1>14 DEF Steps

(* The sum with one of the values replaced. *)
LEMMA TallyOfExcept ==
  ASSUME NEW f \in Amounts, NEW m \in Months, NEW a \in Nat
  PROVE  Tally([f EXCEPT ![m] = a], Months) = Tally(f, Months) + a - f[m]
<1> DEFINE h == [f EXCEPT ![m] = a]
           rest == Months \ {m}
<1>1. IsFiniteSet(rest) /\ m \notin rest /\ Months = rest \cup {m}
  BY MonthsAreFinite, FS_Subset
<1>2. /\ \A x \in rest \cup {m} : f[x] \in Nat /\ h[x] \in Nat
      /\ \A x \in rest : h[x] = f[x]
      /\ h[m] = a
  BY DEF Amounts
<1> HIDE DEF h, rest
<1>3. Tally(f, rest \cup {m}) = Tally(f, rest) + f[m]
  BY <1>1, <1>2, TallyOfOneMore
<1>4. Tally(h, rest \cup {m}) = Tally(h, rest) + h[m]
  BY <1>1, <1>2, TallyOfOneMore
<1>5. Tally(h, rest) = Tally(f, rest)
  BY <1>2, TallyOfSame
<1>6. Tally(f, rest) \in Nat /\ f[m] \in Nat
  BY <1>1, <1>2, UnitsAreFinite
<1>7. Tally(h, Months) = Tally(f, Months) + a - f[m]
  <2>1. Tally(h, Months) = Tally(h, rest \cup {m}) /\ Tally(f, Months) = Tally(f, rest \cup {m})
    BY <1>1, Zenon
  <2> QED BY <1>2, <1>3, <1>4, <1>5, <1>6, <2>1
<1> QED BY <1>7 DEF h

LEMMA SaveCatchupSteps ==
  ASSUME Typed, CatchupInv, NEW r \in Runs, NEW m \in Months, NEW amount \in Nat,
         SaveCatchup(r, m, amount)
  PROVE  Steps
<1> DEFINE caught == [run[r].catchup EXCEPT ![m] = amount]
           taken == run[r].other + amount - run[r].catchup[m]
           new == [run[r] EXCEPT !.catchup = caught, !.other = taken]
<1>1. run' = [run EXCEPT ![r] = new] /\ outside' = outside
  BY DEF SaveCatchup, Typed
<1>2. run[r] \in Rows /\ run[r].catchup \in Amounts /\ run[r].other = Tally(run[r].catchup, Months)
  BY RowsTyped DEF CatchupInv
<1>3. caught \in Amounts
  BY <1>2 DEF Amounts
<1>4. taken = Tally(caught, Months)
  BY <1>2, TallyOfExcept
<1>5. Tally(caught, Months) \in Nat
  <2> HIDE DEF caught
  <2> QED BY <1>3, TotalIsTally
<1> HIDE DEF caught, taken
<1>6. /\ new \in Rows /\ SameItem(run[r], new) /\ new.status = run[r].status
      /\ new.other = taken /\ new.catchup = caught
  BY <1>2, <1>3, <1>4, <1>5 DEF Rows, SameItem
<1> HIDE DEF new
<1>7. CaughtUp(run[r], new)
  BY <1>4, <1>6 DEF CaughtUp
<1> QED BY <1>1, <1>6, <1>7, RestAlone

LEMMA NextSteps ==
  ASSUME ShareRises, Typed, CatchupInv, [Next]_vars
  PROVE  Steps
<1>1. CASE \E n \in Runs, c \in Cutoffs : \E gross \in Earnings[c] : CreateDraft(n, c, gross)
  BY <1>1, CreateSteps
<1>2. CASE \E r \in Runs : \E gross \in Earnings[run[r].cutoff] :
             Recalculate(r, gross) \/ \E n \in Runs : Revise(n, r, gross)
  BY <1>2, RecalculateSteps, ReviseSteps
<1>3. CASE \E r \in Runs : Settle(r) \/ Reopen(r) \/ Pay(r) \/ Delete(r)
  <2>1. PICK r \in Runs : Settle(r) \/ Reopen(r) \/ Pay(r) \/ Delete(r)
    BY <1>3
  <2>2. "Draft" \in Statuses \ Gone /\ "Settled" \in Statuses \ Gone
    BY DEF Statuses, Gone
  <2>3. CASE Settle(r) \/ Reopen(r)
    BY <2>2, <2>3, MoveSteps DEF Settle, Reopen
  <2>4. CASE Pay(r) \/ Delete(r)
    BY <2>4, PaySteps, DeleteSteps
  <2> QED BY <2>1, <2>3, <2>4
<1>4. CASE \E m \in Months, amount \in Payments :
             \/ RecordOutsidePayment(m, amount)
             \/ \E r \in Runs : SaveCatchup(r, m, amount)
  <2>1. PICK m \in Months, amount \in Payments :
             \/ RecordOutsidePayment(m, amount)
             \/ \E r \in Runs : SaveCatchup(r, m, amount)
    BY <1>4
  <2>2. amount \in Nat
    BY StatutoryAssumption
  <2>3. CASE RecordOutsidePayment(m, amount)
    <3>1. UNCHANGED run /\ outside' = [outside EXCEPT ![m] = @ + amount]
      BY <2>3 DEF RecordOutsidePayment
    <3>2. outside' \in Amounts
      BY <2>2, <3>1 DEF Typed, Amounts
    <3> QED BY <3>1, <3>2, Unchanged
  <2>4. CASE \E r \in Runs : SaveCatchup(r, m, amount)
    BY <2>2, <2>4, SaveCatchupSteps
  <2> QED BY <2>1, <2>3, <2>4
<1>5. CASE \E m \in Months, r \in Runs : run[r].catchup[m] > 0 /\ SaveCatchup(r, m, 0)
  BY <1>5, SaveCatchupSteps
<1>6. CASE UNCHANGED vars
  BY <1>6, Unchanged DEF vars, Typed
<1> QED BY <1>1, <1>2, <1>3, <1>4, <1>5, <1>6 DEF Next

LEMMA LegacyTyped ==
  ASSUME ShareRises, NEW c \in Cutoffs, NEW g \in Amounts
  PROVE  /\ Legacy(c, g) \in Rows /\ Legacy(c, g).status = "Paid" /\ Legacy(c, g).cutoff = c
         /\ Legacy(c, g).gross = g /\ Legacy(c, g).fixed = Target(c)
         /\ Legacy(c, g).share = Share(Total(g)) /\ Legacy(c, g).seen = {}
         /\ Legacy(c, g).other = 0 /\ Legacy(c, g).catchup = Nobody
<1>1. Target(c) \in Nat /\ Share(Total(g)) \in Nat
  BY TargetsAre, TotalIsTally DEF ShareRises
<1> DEFINE t == Target(c)
           s == Share(Total(g))
<1> HIDE DEF t, s
<1>2. t \in Nat /\ s \in Nat
  BY <1>1 DEF t, s
<1>3. Legacy(c, g) = [Absent EXCEPT !.status = "Paid", !.cutoff = c, !.gross = g, !.fixed = t, !.share = s]
  BY DEF Legacy, t, s
<1>4. Absent.seen = {}
  BY DEF Absent
<1> DEFINE A == Absent
           row == [A EXCEPT !.status = "Paid", !.cutoff = c, !.gross = g, !.fixed = t, !.share = s]
<1>5. /\ row \in Rows /\ row.status = "Paid" /\ row.cutoff = c /\ row.gross = g /\ row.fixed = t
      /\ row.share = s /\ row.seen = A.seen /\ row.other = A.other /\ row.catchup = A.catchup
  <2>1. A \in Rows
    BY AbsentIsRow
  <2> HIDE DEF A
  <2> QED BY <1>2, <2>1 DEF Rows, Statuses
<1>6. Legacy(c, g) = row
  BY <1>3
<1> HIDE DEF row
<1> QED BY <1>4, <1>5, <1>6, AbsentIsRow DEF t, s

(* Every row of the initial database is empty or legacy. *)
LEMMA InitRows ==
  ASSUME Init
  PROVE  /\ DOMAIN run = Runs /\ outside = Nobody /\ run = [r \in Runs |-> run[r]]
         /\ \A r \in Runs : \/ run[r] = Absent
                            \/ r = 1 /\ \E c \in Cutoffs, g \in Amounts : g # Nobody /\ run[r] = Legacy(c, g)
<1>1. outside = Nobody
  BY DEF Init
<1>2. \A c \in Cutoffs : Earnings[c] \subseteq Amounts
  BY StatutoryAssumption DEF Amounts
<1>3. CASE run = [r \in Runs |-> Absent]
  BY <1>1, <1>3
<1>4. CASE \E c \in Cutoffs : \E g \in Earnings[c] \ {Nobody} :
             run = [r \in Runs |-> IF r = 1 THEN Legacy(c, g) ELSE Absent]
  BY <1>1, <1>2, <1>4
<1>5. \/ run = [r \in Runs |-> Absent]
      \/ \E x \in UNION {{c} \X (Earnings[c] \ {Nobody}) : c \in {d \in Cutoffs : FirstHalf(d, Last(d).month)}} :
           run = [r \in Runs |-> IF r = 1 THEN Legacy(x[1], x[2]) ELSE Absent]
  BY DEF Init
<1>6. ASSUME NEW x \in UNION {{c} \X (Earnings[c] \ {Nobody}) : c \in {d \in Cutoffs : FirstHalf(d, Last(d).month)}}
      PROVE  x[1] \in Cutoffs /\ x[2] \in Earnings[x[1]] \ {Nobody}
  OBVIOUS
<1> QED BY <1>3, <1>4, <1>5, <1>6

LEMMA TypedInit == ASSUME ShareRises, Init PROVE Typed /\ CatchupInv
<1>1. \A r \in Runs : run[r] \in Rows /\ run[r].other = 0 /\ run[r].catchup = Nobody
  BY InitRows, LegacyTyped, AbsentIsRow
<1>2. outside \in Amounts
  BY InitRows, NobodyIsAmounts
<1>3. run \in [Runs -> Rows]
  BY <1>1, InitRows
<1> QED BY <1>1, <1>2, <1>3, NobodyIsAmounts DEF Typed, CatchupInv

LEMMA CatchupStep == ASSUME CatchupInv, Steps PROVE CatchupInv'
<1> SUFFICES ASSUME NEW r \in Runs PROVE run'[r].other = Tally(run'[r].catchup, Months)
  BY DEF CatchupInv
<1>1. CASE Moved(run[r], run'[r])
  BY <1>1 DEF Moved, SameCatchups, CatchupInv
<1>2. CASE Erased(run'[r])
  <2>1. run'[r].other = Absent.other /\ run'[r].catchup = Absent.catchup
    BY <1>2 DEF Erased, Absent
  <2> QED BY <2>1, AbsentIsRow, NobodyIsAmounts
<1>3. CASE CaughtUp(run[r], run'[r]) \/ Anew(r, run[r], run'[r])
  BY <1>3 DEF CaughtUp, Anew
<1> QED BY <1>1, <1>2, <1>3 DEF Steps

LEMMA CatchupsMean == ASSUME Typed, CatchupInv PROVE CatchupsAreWithheld
<1> SUFFICES ASSUME NEW r \in Live PROVE run[r].other = Total(run[r].catchup)
  BY DEF CatchupsAreWithheld
<1>1. r \in Runs
  BY DEF Live
<1> QED BY <1>1, RowsTyped, TotalIsTally DEF CatchupInv

(***************************************************************************)
(* The pay of every run is reduced by the catch-ups on record for it       *)
(* (save_statutory_adjustment, _apply_manual, replace_run_employee_        *)
(* snapshots), whatever was recalculated, revised or deleted since.        *)
(***************************************************************************)
THEOREM CatchupsWithheld == ASSUME ShareRises PROVE Spec => []CatchupsAreWithheld
<1>1. Init => Typed /\ CatchupInv
  BY TypedInit
<1>2. Typed /\ CatchupInv /\ [Next]_vars => (Typed /\ CatchupInv)'
  BY NextSteps, CatchupStep DEF Steps
<1>3. Typed /\ CatchupInv => CatchupsAreWithheld
  BY CatchupsMean
<1> QED BY <1>1, <1>2, <1>3, PTL DEF Spec

-----------------------------------------------------------------------------
(* What an item withholds after the earlier ones.                          *)

Priced(row, S, rows) ==
  LET g == Tally(row.gross, Months) IN
  /\ g = 0 => row.fixed = 0 /\ row.share = 0
  /\ g > 0 => /\ row.fixed = Rest(Target(row.cutoff), Tally(FixedOf(rows), S))
              /\ \E b \in Nat : /\ b <= Tally(GrossOf(rows), S)
                                /\ row.share = Rest(Share(b + g), Tally(ShareOf(rows), S))

\* What an item remembers was there before it.
SeenInv == \A r \in Runs : \A t \in run[r].seen : run[t[1]].status # "Absent"

\* If the runs which an item remembers have earlier cutoffs, it withholds the rest after them.
PricedInv ==
  \A r \in Live : run[r].parent = NoRun \/ run[r].recorded =>
    \A S \in SUBSET Live, rows \in [Runs -> Rows] :
      run[r].seen = Records(rows, S) /\ (\A e \in S : run[e].cutoff < run[r].cutoff)
        => Priced(run[r], S, rows)

LEMMA ValueWithin ==
  ASSUME NEW f \in Amounts, NEW m \in Months
  PROVE  f[m] \in Nat /\ f[m] <= Tally(f, Months) /\ Tally(f, Months) \in Nat
<1> DEFINE rest == Months \ {m}
<1>1. IsFiniteSet(rest) /\ m \notin rest /\ Months = rest \cup {m}
  BY MonthsAreFinite, FS_Subset
<1>2. \A x \in rest \cup {m} : f[x] \in Nat
  BY DEF Amounts
<1> HIDE DEF rest
<1>3. Tally(f, rest \cup {m}) = Tally(f, rest) + f[m] /\ Tally(f, rest) \in Nat
  BY <1>1, <1>2, TallyOfOneMore, UnitsAreFinite
<1> QED BY <1>1, <1>2, <1>3

LEMMA RunsAreFinite == IsFiniteSet(Runs) /\ \A S \in SUBSET Runs : IsFiniteSet(S)
<1>1. IsFiniteSet(Runs)
  BY StatutoryAssumption, FS_Interval DEF Runs
<1> QED BY <1>1, FS_Subset

LEMMA SumsOfRuns ==
  ASSUME NEW rows \in [Runs -> Rows], NEW S \in SUBSET Runs
  PROVE  /\ \A r \in Runs : /\ FixedOf(rows)[r] = rows[r].fixed /\ FixedOf(rows)[r] \in Nat
                            /\ ShareOf(rows)[r] = rows[r].share /\ ShareOf(rows)[r] \in Nat
                            /\ GrossOf(rows)[r] = Tally(rows[r].gross, Months) /\ GrossOf(rows)[r] \in Nat
         /\ Tally(FixedOf(rows), S) \in Nat /\ Tally(ShareOf(rows), S) \in Nat
         /\ Tally(GrossOf(rows), S) \in Nat
<1>1. ASSUME NEW r \in Runs
      PROVE  /\ FixedOf(rows)[r] = rows[r].fixed /\ FixedOf(rows)[r] \in Nat
             /\ ShareOf(rows)[r] = rows[r].share /\ ShareOf(rows)[r] \in Nat
             /\ GrossOf(rows)[r] = Tally(rows[r].gross, Months) /\ GrossOf(rows)[r] \in Nat
  <2>1. rows[r].fixed \in Nat /\ rows[r].share \in Nat /\ rows[r].gross \in Amounts
    BY DEF Rows
  <2>2. Tally(rows[r].gross, Months) \in Nat
    BY <2>1, TotalIsTally
  <2> QED BY <2>1, <2>2 DEF FixedOf, ShareOf, GrossOf
<1>2. IsFiniteSet(S)
  BY RunsAreFinite
<1> HIDE DEF FixedOf, ShareOf, GrossOf
<1>3. Tally(FixedOf(rows), S) \in Nat
  BY <1>1, <1>2, UnitsAreFinite
<1>4. Tally(ShareOf(rows), S) \in Nat
  BY <1>1, <1>2, UnitsAreFinite
<1>5. Tally(GrossOf(rows), S) \in Nat
  BY <1>1, <1>2, UnitsAreFinite
<1> QED BY <1>1, <1>3, <1>4, <1>5

(* Records name their runs, and what these withheld. *)
LEMMA RecordsSame ==
  ASSUME NEW a \in [Runs -> Rows], NEW b \in [Runs -> Rows], NEW S \in SUBSET Runs, NEW T \in SUBSET Runs,
         Records(a, S) = Records(b, T)
  PROVE  /\ S = T
         /\ Tally(FixedOf(a), S) = Tally(FixedOf(b), S) /\ Tally(ShareOf(a), S) = Tally(ShareOf(b), S)
         /\ Tally(GrossOf(a), S) = Tally(GrossOf(b), S)
<1>1. ASSUME NEW r \in S
      PROVE  r \in T /\ a[r].fixed = b[r].fixed /\ a[r].share = b[r].share /\ a[r].gross = b[r].gross
  <2>1. Record(a, r) \in Records(b, T)
    BY DEF Records
  <2>2. PICK t \in T : Record(a, r) = Record(b, t)
    BY <2>1 DEF Records
  <2> QED BY <2>2 DEF Record
<1>2. ASSUME NEW t \in T PROVE t \in S
  <2>1. Record(b, t) \in Records(a, S)
    BY DEF Records
  <2>2. PICK r \in S : Record(b, t) = Record(a, r)
    BY <2>1 DEF Records
  <2> QED BY <2>2 DEF Record
<1>3. \A r \in S : /\ FixedOf(a)[r] = FixedOf(b)[r] /\ ShareOf(a)[r] = ShareOf(b)[r]
                   /\ GrossOf(a)[r] = GrossOf(b)[r]
  BY <1>1 DEF FixedOf, ShareOf, GrossOf
<1>4. Tally(FixedOf(a), S) = Tally(FixedOf(b), S)
  BY <1>3, TallyOfSame
<1>5. Tally(ShareOf(a), S) = Tally(ShareOf(b), S)
  BY <1>3, TallyOfSame
<1>6. Tally(GrossOf(a), S) = Tally(GrossOf(b), S)
  BY <1>3, TallyOfSame
<1> QED BY <1>1, <1>2, <1>4, <1>5, <1>6

(* An item is computed from the runs that settle the month before it. *)
LEMMA TakenAreSettling ==
  ASSUME Typed, NEW n \in Runs, NEW c \in Cutoffs, Persistable(n, c), n \in Live => ~Settled(n),
         \A e \in Settling(c) : run[e].cutoff < c
  PROVE  Taken(c) = Settling(c) /\ Settling(c) \subseteq DeductedFor(Last(c).month)
<1> DEFINE s == Last(c)
           m == s.month
<1>0. s \in SegmentsOf(c) /\ m \in Nat /\ s.from \in Nat /\ s.to \in Nat /\ s.from <= s.to
  BY TheCalendar
<1>1. ASSUME NEW e \in Settling(c) PROVE e \in Taken(c)
  <2>1. e \in Live /\ Settled(e) /\ Current(e) /\ run[e].cutoff < c /\ Last(run[e].cutoff).month = m
    BY DEF Settling, DeductedFor
  <2>2. e \in Runs /\ run[e].cutoff \in Cutoffs
    BY <2>1, RowsTyped DEF Live
  <2>3. Overlapping(e, m) /\ Before(e, c, s)
    BY <2>1, <2>2, TheCalendar DEF Overlapping, Before
  <2>4. CASE run[e].recorded
    BY <2>1, <2>3, <2>4 DEF Taken, Counted
  <2>5. CASE ~run[e].recorded
    <3>1. e \in Live \ {n}
      BY <2>1
    <3>2. e \in Evidence(s)
      BY <1>0, <2>1, <2>3, <2>5, <3>1 DEF Persistable, Covered
    <3> QED BY <3>2 DEF Taken
  <2> QED BY <2>4, <2>5
<1>2. ASSUME NEW e \in Counted(c, s) PROVE e \in Settling(c)
  <2>1. e \in Live /\ Settled(e) /\ Current(e) /\ Before(e, c, s) /\ Overlapping(e, m)
    BY DEF Counted
  <2>2. e \in Runs /\ run[e].cutoff \in Cutoffs
    BY <2>1, RowsTyped DEF Live
  <2> DEFINE d == run[e].cutoff
  <2>3. d \in Nat /\ c \in Nat
    BY <2>2, TheCalendar
  <2>4. d < c \/ d = c
    BY <2>1 DEF Before
  <2>5. Last(d).month = m
    <3>1. CASE d < c
      <4>1. PICK t \in SegmentsOf(d) : t.month = m
        BY <2>1 DEF Overlapping, MonthsOf
      <4>2. m <= Last(d).month /\ Last(d) \in SegmentsOf(d) /\ Last(d).month \in Nat
        BY <2>2, <4>1, TheCalendar
      <4>3. Last(d).month < m \/ Last(d).month = m
        BY <1>0, <2>2, <3>1, <4>2, CutoffsFollow
      <4> HIDE DEF d, m
      <4> QED BY <1>0, <4>2, <4>3
    <3>2. CASE d = c
      BY <3>2
    <3> QED BY <2>4, <3>1, <3>2
  <2>6. d <= c
    BY <2>3, <2>4
  <2> QED BY <2>1, <2>5, <2>6 DEF Settling, DeductedFor
<1>3. ASSUME NEW e \in Evidence(s) PROVE e \in Settling(c)
  <2>1. /\ e \in Live /\ run[e].status = "Paid" /\ Current(e)
        /\ FirstHalf(run[e].cutoff, m) /\ s.from > 14
    BY DEF Evidence
  <2>2. e \in Runs /\ run[e].cutoff \in Cutoffs
    BY <2>1, RowsTyped DEF Live
  <2> DEFINE d == run[e].cutoff
  <2>3. d \in Nat /\ c \in Nat
    BY <2>2, TheCalendar
  <2>4. /\ Last(d).month = m /\ Last(d).to = 14 /\ Last(d) \in SegmentsOf(d)
        /\ Last(d).from \in Nat /\ Last(d).from <= Last(d).to
    BY <2>1, <2>2, TheCalendar DEF FirstHalf
  <2>5. ~ (c < d)
    <3>1. SUFFICES ASSUME c < d PROVE FALSE
      OBVIOUS
    <3>2. m < Last(d).month \/ s.to < Last(d).from
      BY <1>0, <2>2, <2>4, <3>1, CutoffsFollow
    <3> HIDE DEF d, m
    <3>3. s.to < Last(d).from
      BY <1>0, <2>4, <3>2
    <3> QED BY <1>0, <2>1, <2>4, <3>3
  <2>6. d <= c
    BY <2>3, <2>5
  <2> QED BY <2>1, <2>4, <2>6 DEF Settling, DeductedFor, Settled
<1> QED BY <1>1, <1>2, <1>3 DEF Taken, Settling

LEMMA ItemIsPriced ==
  ASSUME ShareRises, Typed, NEW n \in Runs, NEW c \in Cutoffs, Persistable(n, c), n \in Live => ~Settled(n),
         \A e \in Settling(c) : run[e].cutoff < c,
         NEW base \in Rows, NEW gross \in Amounts
  PROVE  Priced(Item(base, c, gross), Settling(c), run)
<1> DEFINE S == Settling(c)
           g == Tally(gross, Months)
           b == Previous(c).gross
<1>1. Taken(c) = S /\ S \subseteq DeductedFor(Last(c).month) /\ S \subseteq Runs /\ IsFiniteSet(S)
  BY TakenAreSettling, PreviousIsTally
<1>2. run \in [Runs -> Rows]
  BY DEF Typed
<1>3. Previous(c).fixed = Tally(FixedOf(run), S)
  <2>1. \A r \in S : FixedBefore(c)[r] = FixedOf(run)[r]
    BY <1>1 DEF FixedBefore, FixedOf
  <2>2. Tally(FixedBefore(c), S) = Tally(FixedOf(run), S)
    BY <2>1, TallyOfSame
  <2> QED BY <1>1, <2>2, PreviousIsTally
<1>4. Previous(c).share = Tally(ShareOf(run), S)
  <2>1. \A r \in S : ShareBefore(c)[r] = ShareOf(run)[r]
    BY <1>1 DEF ShareBefore, ShareOf
  <2>2. Tally(ShareBefore(c), S) = Tally(ShareOf(run), S)
    BY <2>1, TallyOfSame
  <2> QED BY <1>1, <2>2, PreviousIsTally
<1>5. b \in Nat /\ b <= Tally(GrossOf(run), S)
  <2>1. \A r \in S : /\ GrossBefore(c)[r] \in Nat /\ GrossOf(run)[r] \in Nat
                     /\ GrossBefore(c)[r] <= GrossOf(run)[r]
    <3> SUFFICES ASSUME NEW r \in S
                 PROVE  /\ GrossBefore(c)[r] \in Nat /\ GrossOf(run)[r] \in Nat
                        /\ GrossBefore(c)[r] <= GrossOf(run)[r]
      OBVIOUS
    <3>1. r \in Runs /\ run[r].gross \in Amounts
      BY <1>1, RowsTyped
    <3>2. Last(c).month \in Months
      BY TheCalendar DEF Months
    <3>3. /\ run[r].gross[Last(c).month] \in Nat
          /\ run[r].gross[Last(c).month] <= Tally(run[r].gross, Months)
          /\ Tally(run[r].gross, Months) \in Nat /\ Total(run[r].gross) = Tally(run[r].gross, Months)
      BY <3>1, <3>2, ValueWithin, TotalIsTally
    <3> QED BY <3>1, <3>3 DEF GrossBefore, GrossOf
  <2>2. Tally(GrossBefore(c), S) <= Tally(GrossOf(run), S)
    BY <1>1, <2>1, TallyGrows
  <2> QED BY <1>1, <2>2, PreviousIsTally
<1>6. g = Total(gross) /\ g \in Nat
  BY TotalIsTally
<1> DEFINE item == Item(base, c, gross)
<1>7. /\ item.cutoff = c /\ item.gross = gross
      /\ item.fixed = IF Total(gross) = 0 THEN 0 ELSE Rest(Target(c), Previous(c).fixed)
      /\ item.share = IF Total(gross) = 0 THEN 0
                      ELSE Rest(Share(Previous(c).gross + Total(gross)), Previous(c).share)
  BY ItemTyped
<1> HIDE DEF item, S
<1>8. g > 0 => /\ item.fixed = Rest(Target(c), Tally(FixedOf(run), S))
               /\ item.share = Rest(Share(b + g), Tally(ShareOf(run), S))
  <2> SUFFICES ASSUME g > 0
               PROVE  /\ item.fixed = Rest(Target(c), Tally(FixedOf(run), S))
                      /\ item.share = Rest(Share(b + g), Tally(ShareOf(run), S))
    OBVIOUS
  <2>1. Total(gross) # 0
    BY <1>6
  <2> QED BY <1>3, <1>4, <1>6, <1>7, <2>1, Zenon
<1>9. g = 0 => item.fixed = 0 /\ item.share = 0
  BY <1>6, <1>7
<1> HIDE DEF b
<1>10. Priced(item, S, run)
  BY <1>5, <1>7, <1>8, <1>9 DEF Priced
<1> QED BY <1>10 DEF item, S

LEMMA PricedInit == ASSUME ShareRises, Init PROVE SeenInv /\ PricedInv
<1>1. ASSUME NEW r \in Runs PROVE run[r].seen = {}
  <2>1. Absent.seen = {}
    BY DEF Absent
  <2> QED BY <2>1, InitRows, LegacyTyped
<1>2. SeenInv
  BY <1>1 DEF SeenInv
<1>3. ASSUME NEW r \in Live, NEW S \in SUBSET Live, NEW rows \in [Runs -> Rows], run[r].seen = Records(rows, S)
      PROVE  Priced(run[r], S, rows)
  <2>1. r \in Runs
    BY DEF Live
  <2>2. S = {}
    BY <1>1, <1>3, <2>1 DEF Records
  <2>3. PICK c \in Cutoffs, g \in Amounts : g # Nobody /\ run[r] = Legacy(c, g)
    <3>1. run[r] # Absent
      BY DEF Live, Absent
    <3> QED BY <2>1, <3>1, InitRows
  <2>4. PICK m \in Months : g[m] # 0
    BY <2>3 DEF Nobody, Amounts
  <2>5. Tally(g, Months) \in Nat /\ Tally(g, Months) > 0 /\ Total(g) = Tally(g, Months)
    BY <2>4, ValueWithin, TotalIsTally
  <2> DEFINE row == run[r]
             n == Tally(g, Months)
  <2>6. /\ row.cutoff = c /\ row.gross = g /\ row.fixed = Target(c)
        /\ row.share = Share(n)
    BY <2>3, <2>5, LegacyTyped
  <2>7. Tally(FixedOf(rows), S) = 0 /\ Tally(ShareOf(rows), S) = 0 /\ Tally(GrossOf(rows), S) = 0
    BY <2>2, TallyOfNone
  <2>8. Target(c) \in Nat /\ Share(n) \in Nat /\ 0 + n = n
    BY <2>5, TargetsAre DEF ShareRises
  <2>9. Rest(Target(c), 0) = Target(c) /\ Rest(Share(n), 0) = Share(n)
    BY <2>8 DEF Rest
  <2>10. row.fixed = Rest(Target(row.cutoff), Tally(FixedOf(rows), S))
    BY <2>6, <2>7, <2>9
  <2>11. row.share = Rest(Share(0 + n), Tally(ShareOf(rows), S))
    BY <2>6, <2>7, <2>8, <2>9
  <2>12. 0 <= Tally(GrossOf(rows), S)
    BY <2>7
  <2>13. ~ (n = 0) /\ Tally(row.gross, Months) = n
    BY <2>5, <2>6
  <2> HIDE DEF row, n
  <2>14. Priced(row, S, rows)
    BY <2>10, <2>11, <2>12, <2>13 DEF Priced
  <2> QED BY <2>14 DEF row
<1> QED BY <1>2, <1>3 DEF PricedInv

LEMMA AnewIs ==
  ASSUME ShareRises, Typed, NEW r, NEW old, NEW new, new.cutoff \in Cutoffs, Anew(r, old, new)
  PROVE  \E base \in Rows, gross \in Amounts :
           /\ new.seen = Records(run, Settling(new.cutoff)) /\ new.gross = Item(base, new.cutoff, gross).gross
           /\ new.fixed = Item(base, new.cutoff, gross).fixed
           /\ new.share = Item(base, new.cutoff, gross).share
           /\ new.cutoff = Item(base, new.cutoff, gross).cutoff
<1> DEFINE c == new.cutoff
<1>1. PICK base \in Rows, gross \in Amounts :
        SameItem([Item(base, c, gross) EXCEPT !.parent = new.parent, !.recorded = new.recorded], new)
  BY DEF Anew
<1> DEFINE item == Item(base, c, gross)
           same == [item EXCEPT !.parent = new.parent, !.recorded = new.recorded]
<1>2. item \in Rows /\ item.cutoff = c /\ item.seen = Records(run, Settling(c))
  BY ItemTyped
<1> HIDE DEF item
<1>3. /\ same.gross = item.gross /\ same.fixed = item.fixed /\ same.share = item.share
      /\ same.seen = item.seen
  BY <1>2 DEF Rows
<1>4. /\ new.gross = same.gross /\ new.fixed = same.fixed /\ new.share = same.share
      /\ new.seen = same.seen
  BY <1>1 DEF SameItem, item
<1> HIDE DEF same
<1> QED BY <1>2, <1>3, <1>4 DEF item

\* The runs that a row remembers, and that are live after a step, were so before it, in the same cutoff.
LEMMA RememberedStay ==
  ASSUME Typed, Steps, NEW e \in Runs, run[e].status # "Absent", e \in Live'
  PROVE  e \in Live /\ run'[e].cutoff = run[e].cutoff
<1>0. run'[e].status \notin Gone /\ run[e].status \in Statuses
  BY RowsTyped DEF Live, Gone
<1>1. CASE Moved(run[e], run'[e])
  <2>1. run[e].status \notin Gone
    BY <1>0, <1>1 DEF Moved
  <2> QED BY <1>1, <2>1 DEF Moved, SameItem, Live, Gone
<1>2. CASE Erased(run'[e])
  <2>1. run'[e].status = "Deleted"
    BY <1>2 DEF Erased, Absent
  <2> QED BY <1>0, <2>1 DEF Gone
<1>3. CASE CaughtUp(run[e], run'[e])
  BY <1>0, <1>3 DEF CaughtUp, SameItem, Live, Gone
<1>4. CASE Anew(e, run[e], run'[e])
  BY <1>4 DEF Anew, Live
<1> QED BY <1>1, <1>2, <1>3, <1>4 DEF Steps

LEMMA SeenStep ==
  ASSUME ShareRises, Typed, SeenInv, Steps
  PROVE  SeenInv'
<1>1. ASSUME NEW e \in Runs, run[e].status # "Absent" PROVE run'[e].status # "Absent"
  <2>1. CASE Moved(run[e], run'[e])
    BY <1>1, <2>1 DEF Moved, Gone
  <2>2. CASE Erased(run'[e])
    BY <2>2 DEF Erased, Absent
  <2>3. CASE CaughtUp(run[e], run'[e]) \/ Anew(e, run[e], run'[e])
    BY <1>1, <2>3 DEF CaughtUp, Anew
  <2> QED BY <2>1, <2>2, <2>3 DEF Steps
<1>2. ASSUME NEW r \in Runs, NEW t \in run'[r].seen PROVE t[1] \in Runs /\ run[t[1]].status # "Absent"
  <2>0. t[1] \in Runs
    <3>1. run'[r].seen \in Seen
      BY DEF Steps, Typed, Rows
    <3> QED BY <3>1 DEF Seen
  <2>1. CASE Moved(run[r], run'[r]) \/ CaughtUp(run[r], run'[r])
    BY <2>0, <2>1 DEF Moved, CaughtUp, SameItem, SeenInv
  <2>2. CASE Erased(run'[r])
    BY <2>2 DEF Erased, Absent
  <2>3. CASE Anew(r, run[r], run'[r])
    <3>1. run'[r].cutoff \in Cutoffs
      BY DEF Steps, Typed, Rows
    <3>2. run'[r].seen = Records(run, Settling(run'[r].cutoff))
      BY <2>3, <3>1, AnewIs
    <3>3. PICK e \in Settling(run'[r].cutoff) : t = Record(run, e)
      BY <3>2 DEF Records
    <3>4. e \in Live /\ t[1] = e
      BY <3>3 DEF Settling, DeductedFor, Record
    <3> QED BY <2>0, <3>4 DEF Live
  <2> QED BY <2>1, <2>2, <2>3 DEF Steps
<1> QED BY <1>1, <1>2 DEF SeenInv

LEMMA PricedStep ==
  ASSUME ShareRises, Typed, SeenInv, PricedInv, Steps
  PROVE  PricedInv'
<1> SUFFICES ASSUME NEW r \in Live', run'[r].parent = NoRun \/ run'[r].recorded,
                    NEW S \in SUBSET (Live'), NEW rows \in [Runs -> Rows], run'[r].seen = Records(rows, S),
                    \A e \in S : run'[e].cutoff < run'[r].cutoff
             PROVE  Priced(run'[r], S, rows)
  BY DEF PricedInv
<1>0. r \in Runs /\ S \subseteq Runs /\ run' \in [Runs -> Rows] /\ run \in [Runs -> Rows]
  BY DEF Live, Steps, Typed
<1>1. ASSUME SameItem(run[r], run'[r]), r \in Live PROVE Priced(run'[r], S, rows)
  <2>1. ASSUME NEW e \in S PROVE e \in Live /\ run'[e].cutoff = run[e].cutoff
    <3>1. Record(rows, e) \in run[r].seen
      BY <1>1 DEF SameItem, Records
    <3>2. Record(rows, e)[1] = e
      BY DEF Record
    <3>3. run[e].status # "Absent"
      BY <1>0, <3>1, <3>2 DEF SeenInv
    <3> QED BY <1>0, <3>3, RememberedStay
  <2>2. /\ run[r].parent = NoRun \/ run[r].recorded
        /\ run[r].seen = Records(rows, S) /\ \A e \in S : run[e].cutoff < run[r].cutoff
    BY <1>1, <2>1 DEF SameItem
  <2>3. S \in SUBSET Live
    BY <2>1
  <2>4. Priced(run[r], S, rows)
    BY <1>1, <2>2, <2>3 DEF PricedInv
  <2> QED BY <1>1, <2>4 DEF Priced, SameItem
<1>2. CASE Moved(run[r], run'[r])
  <2>1. r \in Live
    BY <1>0, <1>2, RowsTyped DEF Moved, Live, Gone
  <2> QED BY <1>1, <1>2, <2>1 DEF Moved
<1>3. CASE Erased(run'[r])
  <2>1. run'[r].status = "Deleted"
    BY <1>3 DEF Erased, Absent
  <2> QED BY <2>1 DEF Live
<1>4. CASE CaughtUp(run[r], run'[r])
  <2>1. r \in Live
    BY <1>0, <1>4 DEF CaughtUp, Live
  <2> QED BY <1>1, <1>4, <2>1 DEF CaughtUp
<1>5. CASE Anew(r, run[r], run'[r])
  <2> DEFINE c == run'[r].cutoff
  <2>1. c \in Cutoffs /\ Persistable(r, c)
    BY <1>0, <1>5 DEF Rows, Anew
  <2>2. r \in Live => ~Settled(r)
    BY <1>5 DEF Anew, Live, Settled
  <2>3. PICK base \in Rows, gross \in Amounts :
          /\ run'[r].seen = Records(run, Settling(c)) /\ run'[r].gross = Item(base, c, gross).gross
          /\ run'[r].fixed = Item(base, c, gross).fixed /\ run'[r].share = Item(base, c, gross).share
          /\ c = Item(base, c, gross).cutoff
    BY <1>5, <2>1, AnewIs
  <2> HIDE DEF c
  <2>4. Settling(c) \subseteq Runs
    BY DEF Settling, DeductedFor, Live
  <2>5. Records(rows, S) = Records(run, Settling(c))
    BY <2>3
  <2>6. /\ S = Settling(c)
        /\ Tally(FixedOf(rows), S) = Tally(FixedOf(run), S) /\ Tally(ShareOf(rows), S) = Tally(ShareOf(run), S)
        /\ Tally(GrossOf(rows), S) = Tally(GrossOf(run), S)
    BY <1>0, <2>4, <2>5, RecordsSame
  <2>7. \A e \in Settling(c) : run[e].cutoff < c
    <3> SUFFICES ASSUME NEW e \in Settling(c) PROVE run[e].cutoff < c
      OBVIOUS
    <3>1. e \in Runs /\ e \in Live' /\ run[e].status # "Absent"
      BY <2>4, <2>6 DEF Settling, DeductedFor, Live
    <3>2. run'[e].cutoff = run[e].cutoff
      BY <3>1, RememberedStay
    <3>3. run'[e].cutoff < c
      BY <2>6 DEF c
    <3> QED BY <3>2, <3>3
  <2>8. Priced(Item(base, c, gross), Settling(c), run)
    BY <1>0, <2>1, <2>2, <2>7, ItemIsPriced
  <2>9. run'[r].cutoff = Item(base, c, gross).cutoff
    BY <2>3 DEF c
  <2> DEFINE item == Item(base, c, gross)
  <2>10. /\ run'[r].cutoff = item.cutoff /\ run'[r].gross = item.gross
         /\ run'[r].fixed = item.fixed /\ run'[r].share = item.share
    BY <2>3, <2>9
  <2> HIDE DEF item
  <2>11. Priced(item, S, run)
    BY <2>6, <2>8 DEF item
  <2> QED BY <2>6, <2>10, <2>11, Zenon DEF Priced
<1> QED BY <1>0, <1>2, <1>3, <1>4, <1>5 DEF Steps

-----------------------------------------------------------------------------
(* Cutoff by cutoff, the runs of a month withhold what is due so far.      *)

\* The runs of the month m up to the cutoff c.
UpTo(m, c) == {e \in Withholding(m) : run[e].cutoff <= c}
Prior(m, c) == {e \in Withholding(m) : run[e].cutoff < c}

\* What the runs of the set S withhold, all of them due by the cutoff c.
WithholdDue(S, c) ==
  /\ Tally(FixedOf(run), S) <= Target(c)
  /\ Tally(ShareOf(run), S) <= Share(Tally(GrossOf(run), S))
  /\ (\A r \in S : GrossOf(run)[r] > 0) => Tally(FixedOf(run), S) = Target(c)

LEMMA WithholdingIs ==
  ASSUME Typed, NEW m \in Months
  PROVE  /\ Withholding(m) \subseteq Live /\ Withholding(m) \subseteq Runs /\ IsFiniteSet(Withholding(m))
         /\ \A r \in Withholding(m) : /\ run[r].cutoff \in Cutoffs /\ run[r].cutoff \in Nat
                                      /\ Last(run[r].cutoff).month = m /\ Current(r)
<1>1. Withholding(m) \subseteq Live /\ Withholding(m) \subseteq Runs
  BY DEF Withholding, DeductedFor, Live
<1>2. \A r \in Withholding(m) : Last(run[r].cutoff).month = m /\ Current(r)
  BY DEF Withholding, DeductedFor
<1>3. \A r \in Withholding(m) : run[r].cutoff \in Cutoffs /\ run[r].cutoff \in Nat
  BY <1>1, RowsTyped, TheCalendar
<1> QED BY <1>1, <1>2, <1>3, RunsAreFinite

\* What is due by a later cutoff of the month is no less.
LEMMA TargetsRise ==
  ASSUME NEW c \in Cutoffs, NEW d \in Cutoffs, c <= d, Last(c).month = Last(d).month
  PROVE  Target(c) <= Target(d)
<1>1. CASE c = d
  BY <1>1, TargetsAre
<1>2. CASE c # d
  <2>1. c \in Nat /\ d \in Nat /\ c < d
    BY <1>2, TheCalendar
  <2>2. /\ Last(c) \in SegmentsOf(c) /\ Last(d) \in SegmentsOf(d) /\ Last(c).month \in Nat
        /\ Last(c).to \in Nat /\ Last(d).from \in Nat /\ Last(d).to \in Nat /\ Last(d).from <= Last(d).to
    BY TheCalendar
  <2>3. Last(c).month < Last(d).month \/ Last(c).to < Last(d).from
    BY <2>1, <2>2, CutoffsFollow
  <2>4. Last(c).to < Last(d).to
    BY <2>2, <2>3
  <2>5. Last(d).to <= 15 => Last(c).to <= 15
    BY <2>2, <2>4
  <2> QED BY <2>5, TargetsAre DEF Target
<1> QED BY <1>1, <1>2

LEMMA OneRunEach ==
  ASSUME Typed, NEW m \in Months, InOrder(m),
         NEW r \in Withholding(m), NEW s \in Withholding(m), run[r].cutoff = run[s].cutoff
  PROVE  r = s
<1> DEFINE W == Withholding(m)
           T == {run[x].cutoff : x \in W}
           f == [x \in W |-> run[x].cutoff]
<1>1. f \in Surjection(W, T)
  BY DEF Surjection
<1>2. Cardinality(T) = Cardinality(W) /\ IsFiniteSet(W)
  BY WithholdingIs DEF InOrder
<1>3. f[r] = f[s] /\ r \in W /\ s \in W
  OBVIOUS
<1> HIDE DEF f, T, W
<1>4. f \in Injection(W, T)
  BY <1>1, <1>2, FS_Surjection, Zenon
<1>5. \A x, y \in W : f[x] = f[y] => x = y
  BY <1>4 DEF Injection, IsInjective
<1> QED BY <1>3, <1>5

LEMMA PricedInOrder ==
  ASSUME Typed, PricedInv, NEW m \in Months, InOrder(m), NEW z \in Withholding(m)
  PROVE  Priced(run[z], Prior(m, run[z].cutoff), run)
<1> DEFINE S == Prior(m, run[z].cutoff)
<1>1. z \in Live /\ S \in SUBSET Live /\ run \in [Runs -> Rows] /\ Last(run[z].cutoff).month = m
  BY WithholdingIs DEF Prior, Typed
<1>2. run[z].seen = Records(run, Earlier(z)) /\ (run[z].parent = NoRun \/ run[z].recorded)
  BY DEF InOrder
<1>3. Earlier(z) = S
  BY <1>1 DEF Earlier, Prior
<1>4. \A e \in S : run[e].cutoff < run[z].cutoff
  BY DEF Prior
<1> HIDE DEF S
<1>5. run[z].seen = Records(run, S)
  BY <1>2, <1>3
<1>6. Priced(run[z], S, run)
  BY <1>1, <1>2, <1>4, <1>5 DEF PricedInv
<1> QED BY <1>6 DEF S

\* One more run withholds the rest.
LEMMA OneMoreRun ==
  ASSUME ShareRises, Typed, NEW z \in Runs, NEW S \in SUBSET Runs, z \notin S, Priced(run[z], S, run),
         NEW E \in Nat, NEW H \in Nat, NEW G \in Nat,
         E = Tally(FixedOf(run), S), H = Tally(ShareOf(run), S), G = Tally(GrossOf(run), S),
         E <= Target(run[z].cutoff), H <= Share(G)
  PROVE  WithholdDue(S \cup {z}, run[z].cutoff)
<1> DEFINE U == S \cup {z}
           c == run[z].cutoff
           g == GrossOf(run)[z]
<1>1. IsFiniteSet(S) /\ U \in SUBSET Runs /\ run \in [Runs -> Rows] /\ c \in Cutoffs
  BY RunsAreFinite, RowsTyped DEF Typed
<1>2. /\ \A r \in U : FixedOf(run)[r] \in Nat /\ ShareOf(run)[r] \in Nat /\ GrossOf(run)[r] \in Nat
      /\ FixedOf(run)[z] = run[z].fixed /\ ShareOf(run)[z] = run[z].share
      /\ GrossOf(run)[z] = Tally(run[z].gross, Months) /\ g \in Nat
      /\ run[z].fixed \in Nat /\ run[z].share \in Nat
  BY <1>1, SumsOfRuns, RowsTyped
<1> HIDE DEF g, U
<1>3. Tally(FixedOf(run), U) = E + run[z].fixed
  <2>1. \A r \in S \cup {z} : FixedOf(run)[r] \in Nat
    BY <1>2 DEF U
  <2> QED BY <1>1, <1>2, <2>1, TallyOfOneMore DEF U
<1>4. Tally(ShareOf(run), U) = H + run[z].share
  <2>1. \A r \in S \cup {z} : ShareOf(run)[r] \in Nat
    BY <1>2 DEF U
  <2>2. Tally(ShareOf(run), S \cup {z}) = Tally(ShareOf(run), S) + ShareOf(run)[z]
    BY <1>1, <2>1, TallyOfOneMore
  <2> QED BY <1>2, <2>2 DEF U
<1>5. Tally(GrossOf(run), U) = G + g
  <2>1. \A r \in S \cup {z} : GrossOf(run)[r] \in Nat
    BY <1>2 DEF U
  <2>2. Tally(GrossOf(run), S \cup {z}) = Tally(GrossOf(run), S) + GrossOf(run)[z]
    BY <1>1, <2>1, TallyOfOneMore
  <2> QED BY <1>2, <2>2 DEF U, g
<1>6. Target(c) \in Nat /\ Share(G) \in Nat /\ Share(G + g) \in Nat /\ Share(G) <= Share(G + g)
  BY <1>1, <1>2, TargetsAre DEF ShareRises
<1>7. CASE g = 0
  <2>1. run[z].fixed = 0 /\ run[z].share = 0
    BY <1>2, <1>7 DEF Priced, g
  <2>2. Tally(FixedOf(run), U) = E /\ Tally(ShareOf(run), U) = H /\ Tally(GrossOf(run), U) = G
    BY <1>3, <1>4, <1>5, <1>7, <2>1
  <2>3. z \in U /\ ~ (GrossOf(run)[z] > 0)
    BY <1>7 DEF U, g
  <2> QED BY <2>2, <2>3 DEF WithholdDue, U
<1>8. CASE g # 0
  <2>1. g > 0
    BY <1>2, <1>8
  <2>2. PICK b \in Nat : b <= G /\ run[z].share = Rest(Share(b + g), H)
    BY <1>2, <2>1 DEF Priced, g
  <2>3. run[z].fixed = Rest(Target(c), E)
    BY <1>2, <2>1 DEF Priced, g
  <2>4. Tally(FixedOf(run), U) = Target(c)
    BY <1>3, <1>6, <2>3 DEF Rest
  <2>5. Share(b + g) \in Nat /\ Share(b + g) <= Share(G + g)
    <3>1. b + g \in Nat /\ G + g \in Nat /\ b + g <= G + g
      BY <1>2, <2>2
    <3> QED BY <3>1 DEF ShareRises
  <2>6. Tally(ShareOf(run), U) <= Share(G + g)
    <3>1. H + run[z].share <= Share(G + g)
      BY <1>6, <2>2, <2>5 DEF Rest
    <3> QED BY <1>4, <3>1
  <2> QED BY <1>5, <1>6, <2>4, <2>6 DEF WithholdDue, U
<1> QED BY <1>7, <1>8

\* Of some of the runs of a month, one with the last cutoff, and one with the first.
LEMMA LastRun ==
  ASSUME Typed, NEW m \in Months, NEW S \in SUBSET Withholding(m), S # {}
  PROVE  \E z \in S : \A e \in S : run[e].cutoff <= run[z].cutoff
<1> DEFINE R == {run[e].cutoff : e \in S}
           f == [e \in S |-> run[e].cutoff]
<1>1. IsFiniteSet(S) /\ \A e \in S : run[e].cutoff \in Nat
  BY WithholdingIs, FS_Subset
<1>2. f \in Surjection(S, R)
  BY DEF Surjection
<1>3. IsFiniteSet(R) /\ R \subseteq Nat /\ R # {}
  BY <1>1, <1>2, FS_Surjection
<1>4. \E k \in R : \A a \in R : a <= k
  <2> HIDE DEF R
  <2> QED BY <1>3, LastOne
<1> QED BY <1>4

LEMMA FirstRun ==
  ASSUME Typed, NEW m \in Months, NEW S \in SUBSET Withholding(m), S # {}
  PROVE  \E z \in S : \A e \in S : run[z].cutoff <= run[e].cutoff
<1> DEFINE N == Len(Segments)
           R == {N - run[e].cutoff : e \in S}
           f == [e \in S |-> N - run[e].cutoff]
<1>1. IsFiniteSet(S) /\ N \in Nat /\ \A e \in S : run[e].cutoff \in 1..N
  BY WithholdingIs, FS_Subset, TheCalendar
<1>2. f \in Surjection(S, R)
  BY DEF Surjection
<1> HIDE DEF N
<1>3. IsFiniteSet(R) /\ R # {}
  BY <1>1, <1>2, FS_Surjection
<1>4. R \subseteq Nat
  BY <1>1
<1>5. PICK k \in R : \A a \in R : a <= k
  <2> HIDE DEF R
  <2> QED BY <1>3, <1>4, LastOne
<1>6. PICK z \in S : k = N - run[z].cutoff
  OBVIOUS
<1>7. ASSUME NEW e \in S PROVE run[z].cutoff <= run[e].cutoff
  <2>1. N - run[e].cutoff <= N - run[z].cutoff
    BY <1>5, <1>6
  <2> QED BY <1>1, <2>1
<1> QED BY <1>7

LEMMA WithheldUpTo ==
  ASSUME ShareRises, Typed, PricedInv, NEW m \in Months, InOrder(m), NEW z \in Withholding(m)
  PROVE  WithholdDue(UpTo(m, run[z].cutoff), run[z].cutoff)
<1> DEFINE W == Withholding(m)
           AsDue(x) == WithholdDue(UpTo(m, run[x].cutoff), run[x].cutoff)
           bad == {x \in W : ~AsDue(x)}
<1>1. SUFFICES ASSUME bad # {} PROVE FALSE
  OBVIOUS
<1>2. PICK x \in bad : \A y \in bad : run[x].cutoff <= run[y].cutoff
  BY <1>1, FirstRun
<1> DEFINE c == run[x].cutoff
           S == Prior(m, c)
<1>3. x \in W /\ ~AsDue(x)
  OBVIOUS
<1>4. /\ W \subseteq Runs /\ c \in Cutoffs /\ c \in Nat /\ Last(c).month = m
      /\ \A y \in W : run[y].cutoff \in Cutoffs /\ run[y].cutoff \in Nat /\ Last(run[y].cutoff).month = m
  BY <1>3, WithholdingIs
<1>5. S \subseteq W /\ S \in SUBSET Runs /\ x \notin S /\ x \in Runs
  BY <1>3, <1>4 DEF Prior
<1>6. UpTo(m, c) = S \cup {x}
  <2>1. \A e \in W : run[e].cutoff <= c <=> run[e].cutoff < c \/ run[e].cutoff = c
    BY <1>4
  <2>2. \A e \in W : run[e].cutoff = c => e = x
    BY <1>3, OneRunEach
  <2> QED BY <1>3, <2>1, <2>2 DEF UpTo, Prior
<1>7. Priced(run[x], S, run)
  BY <1>3, PricedInOrder
<1>8. run \in [Runs -> Rows] /\ Target(c) \in Nat
  BY <1>4, TargetsAre DEF Typed
<1>9. /\ Tally(FixedOf(run), S) \in Nat /\ Tally(ShareOf(run), S) \in Nat /\ Tally(GrossOf(run), S) \in Nat
  BY <1>5, <1>8, SumsOfRuns
<1>10. Tally(FixedOf(run), S) <= Target(c) /\ Tally(ShareOf(run), S) <= Share(Tally(GrossOf(run), S))
  <2>1. CASE S = {}
    <3>1. Tally(FixedOf(run), S) = 0 /\ Tally(ShareOf(run), S) = 0 /\ Tally(GrossOf(run), S) = 0
      BY <2>1, TallyOfNone
    <3>2. Share(0) \in Nat
      BY DEF ShareRises
    <3> HIDE DEF S
    <3> QED BY <1>8, <3>1, <3>2
  <2>2. CASE S # {}
    <3>1. PICK y \in S : \A e \in S : run[e].cutoff <= run[y].cutoff
      BY <1>5, <2>2, LastRun
    <3>2. run[y].cutoff < c /\ y \in W
      BY <1>5 DEF Prior
    <3>3. AsDue(y)
      <4>1. ~ (run[x].cutoff <= run[y].cutoff)
        BY <1>4, <3>2
      <4> QED BY <1>2, <3>2, <4>1
    <3>4. UpTo(m, run[y].cutoff) = S
      <4>1. ASSUME NEW e \in W PROVE run[e].cutoff <= run[y].cutoff <=> e \in S
        <5>1. e \in S => run[e].cutoff <= run[y].cutoff
          BY <3>1
        <5>2. run[e].cutoff <= run[y].cutoff => run[e].cutoff < c
          BY <1>4, <3>2
        <5> QED BY <5>1, <5>2 DEF Prior
      <4> QED BY <1>5, <4>1 DEF UpTo
    <3>5. Target(run[y].cutoff) <= Target(c) /\ Target(run[y].cutoff) \in Nat
      <4>1. run[y].cutoff \in Cutoffs /\ run[y].cutoff <= c /\ Last(run[y].cutoff).month = Last(c).month
        BY <1>4, <3>2
      <4> QED BY <1>4, <4>1, TargetsRise, TargetsAre
    <3>6. WithholdDue(S, run[y].cutoff)
      BY <3>3, <3>4
    <3> HIDE DEF S
    <3> QED BY <1>8, <1>9, <3>5, <3>6 DEF WithholdDue
  <2> QED BY <2>1, <2>2
<1> HIDE DEF S
<1>11. WithholdDue(S \cup {x}, run[x].cutoff)
  BY <1>5, <1>7, <1>9, <1>10, OneMoreRun
<1> QED BY <1>3, <1>6, <1>11

LEMMA SumsAreTallies ==
  ASSUME Typed, NEW m \in Months
  PROVE  /\ Sums(m).fixed = Tally(FixedOf(run), Withholding(m))
         /\ Sums(m).share = Tally(ShareOf(run), Withholding(m))
         /\ Sums(m).gross = Tally(GrossOf(run), Withholding(m))
         /\ \A r \in Withholding(m) : Total(run[r].gross) = GrossOf(run)[r]
<1> DEFINE S == Withholding(m)
           f == [r \in S |-> run[r].fixed]
           h == [r \in S |-> run[r].share]
           g == [r \in S |-> Total(run[r].gross)]
<1>1. S \subseteq Runs /\ IsFiniteSet(S) /\ run \in [Runs -> Rows]
  BY WithholdingIs DEF Typed
<1>2. ASSUME NEW r \in S
      PROVE  /\ f[r] = FixedOf(run)[r] /\ f[r] \in Nat /\ h[r] = ShareOf(run)[r] /\ h[r] \in Nat
             /\ g[r] = GrossOf(run)[r] /\ g[r] \in Nat /\ Total(run[r].gross) = GrossOf(run)[r]
  <2>1. r \in Runs /\ run[r].gross \in Amounts /\ run[r].fixed \in Nat /\ run[r].share \in Nat
    BY <1>1, RowsTyped
  <2>2. Total(run[r].gross) = Tally(run[r].gross, Months) /\ Total(run[r].gross) \in Nat
    BY <2>1, TotalIsTally
  <2> QED BY <2>1, <2>2 DEF FixedOf, ShareOf, GrossOf
<1>3. /\ Sums(m).fixed = SumOf(S, LAMBDA r : f[r])
      /\ Sums(m).share = SumOf(S, LAMBDA r : h[r])
      /\ Sums(m).gross = SumOf(S, LAMBDA r : g[r])
  <2>1. /\ Sums(m).fixed = SumOf(S, LAMBDA r : run[r].fixed)
        /\ Sums(m).share = SumOf(S, LAMBDA r : run[r].share)
        /\ Sums(m).gross = SumOf(S, LAMBDA r : Total(run[r].gross))
    BY DEF Sums
  <2> HIDE DEF S
  <2>2. SumOf(S, LAMBDA r : f[r]) = SumOf(S, LAMBDA r : run[r].fixed)
    BY ZenonT(90) DEF SumOf, FoldSet, MapThenFoldSet
  <2>3. SumOf(S, LAMBDA r : h[r]) = SumOf(S, LAMBDA r : run[r].share)
    BY ZenonT(90) DEF SumOf, FoldSet, MapThenFoldSet
  <2>4. SumOf(S, LAMBDA r : g[r]) = SumOf(S, LAMBDA r : Total(run[r].gross))
    BY ZenonT(90) DEF SumOf, FoldSet, MapThenFoldSet
  <2> HIDE DEF f, g, h
  <2> QED BY <2>1, <2>2, <2>3, <2>4, Zenon
<1> HIDE DEF f, g, h, S
<1>4. /\ SumOf(S, LAMBDA r : f[r]) = Tally(f, S)
      /\ SumOf(S, LAMBDA r : h[r]) = Tally(h, S)
      /\ SumOf(S, LAMBDA r : g[r]) = Tally(g, S)
  BY <1>1, <1>2, SumOfIsTally
<1>5. Tally(f, S) = Tally(FixedOf(run), S)
  BY <1>2, TallyOfSame
<1>6. Tally(h, S) = Tally(ShareOf(run), S)
  BY <1>2, TallyOfSame
<1>7. Tally(g, S) = Tally(GrossOf(run), S)
  BY <1>2, TallyOfSame
<1> QED BY <1>2, <1>3, <1>4, <1>5, <1>6, <1>7 DEF S

LEMMA WithheldOnceHolds ==
  ASSUME ShareRises, Typed, PricedInv
  PROVE  WithheldOnce
<1> SUFFICES ASSUME NEW m \in Months, InOrder(m), Withholding(m) # {}
             PROVE  LET due == Max({Target(run[r].cutoff) : r \in Withholding(m)}) IN
                      /\ Sums(m).fixed <= due
                      /\ Sums(m).share <= Share(Sums(m).gross)
                      /\ (\A r \in Withholding(m) : Total(run[r].gross) > 0) => Sums(m).fixed = due
  BY DEF WithheldOnce
<1> DEFINE W == Withholding(m)
           T == {Target(run[r].cutoff) : r \in W}
<1>1. PICK z \in W : \A e \in W : run[e].cutoff <= run[z].cutoff
  BY LastRun
<1>2. UpTo(m, run[z].cutoff) = W
  BY <1>1 DEF UpTo
<1>3. WithholdDue(W, run[z].cutoff)
  BY <1>2, WithheldUpTo
<1>4. \A r \in W : Target(run[r].cutoff) \in Nat /\ Target(run[r].cutoff) <= Target(run[z].cutoff)
  BY <1>1, WithholdingIs, TargetsRise, TargetsAre
<1>5. Max(T) = Target(run[z].cutoff)
  <2> DEFINE t == Target(run[z].cutoff)
  <2>1. t \in T /\ t \in Nat /\ \A y \in T : y \in Nat /\ t >= y
    BY <1>4
  <2> HIDE DEF T, t
  <2>2. Max(T) \in T /\ \A y \in T : Max(T) >= y
    BY <2>1 DEF Max
  <2>3. Max(T) >= t /\ t >= Max(T) /\ Max(T) \in Nat
    BY <2>1, <2>2
  <2> QED BY <2>1, <2>3 DEF t
<1> QED BY <1>3, <1>5, SumsAreTallies DEF WithholdDue

(***************************************************************************)
(* When each cutoff of a month has one current run, computed from the      *)
(* earlier ones as they stand, the runs withhold together no more than is  *)
(* due by the last of them, all of it if each had something to withhold it *)
(* from, and no larger share than that of what they earned                 *)
(* (apply_calendar_month_statutory, previous_month_snapshot_totals,        *)
(* legacy_paid_first_half_evidence).                                       *)
(***************************************************************************)
THEOREM ContributionsWithheldOnce == ASSUME ShareRises PROVE Spec => []WithheldOnce
<1> DEFINE Inv == Typed /\ CatchupInv /\ SeenInv /\ PricedInv
<1>1. Init => Inv
  BY TypedInit, PricedInit
<1>2. Inv /\ [Next]_vars => Inv'
  <2> SUFFICES ASSUME Inv, [Next]_vars PROVE Inv'
    OBVIOUS
  <2>1. Steps
    BY NextSteps
  <2>2. Typed'
    BY <2>1 DEF Steps
  <2> QED BY <2>1, <2>2, CatchupStep, SeenStep, PricedStep
<1>3. Inv => WithheldOnce
  BY WithheldOnceHolds
<1> QED BY <1>1, <1>2, <1>3, PTL DEF Spec
================================================================================
