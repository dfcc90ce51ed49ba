---------------------------- MODULE PaidTimeProofs ----------------------------
(***************************************************************************)
(* Proofs about the time that a cutoff pays: leave (LeaveLedger), for any  *)
(* number of dates, leave types, leaves and requests in progress and for   *)
(* any credits and asks; and work (PayPeriod), for any shifts, logs,       *)
(* holidays, rest days, months and cutoff.                                 *)
(*                                                                         *)
(* LeaveInv is inductive: the rows are typed, new ids are unused and what  *)
(* a request has read is still there (Shape), and the properties hold of   *)
(* the rows.  A handler with stale reads may write anything to the rows it *)
(* read, but then all their dates are contested (StaleCommit), so only     *)
(* fresh reads remain: a cut with fresh reads is followed piece by piece   *)
(* (CutKeeps), where the pieces of a leave stand for disjoint parts of its *)
(* days (PartsWithin).                                                     *)
(*                                                                         *)
(* PayInv is inductive: the months of the result add up (Good).  The first *)
(* two passes are folds of corrections to a day, each of which changes a   *)
(* month and the whole by the same amount (EarnedAddsUp); the last two put *)
(* sums over finitely many segments in the place of earlier ones           *)
(* (ReplacedAddsUp).                                                       *)
(***************************************************************************)
EXTENDS LeaveLedger, PayPeriod, FiniteSetsExt, FiniteSetTheorems, WellFoundedInduction, TLAPS

-----------------------------------------------------------------------------
(* Sums over a finite set, as the models write them with MapThenSumSet.  The sum is *)
(* counted in units, so that what it does follows from the theorems about finite    *)
(* cardinalities; that the fold computes it is shown by the smallest set on which   *)
(* the two would differ.                                                            *)

(* A nonempty finite set of numbers has a last one. *)
LEMMA LastOne ==
  ASSUME NEW R, IsFiniteSet(R), R \subseteq Nat, R # {}
  PROVE  \E z \in R : \A a \in R : a <= z
<1> DEFINE Above(a) == {b \in R : a < b}
           F == {Above(a) : a \in R}
<1>1. F \subseteq FiniteSubsetsOf(R) /\ F # {}
  <2>1. \A a \in R : Above(a) \in SUBSET R /\ IsFiniteSet(Above(a))
    BY FS_Subset
  <2> QED BY <2>1 DEF FiniteSubsetsOf
<1>2. PICK T \in F : \A U \in F : ~ (<<U, T>> \in StrictSubsetOrdering(R))
  <2> HIDE DEF F
  <2> QED BY <1>1, FS_StrictSubsetOrderingWellFounded, WFMin, Zenon
<1>3. PICK z \in R : T = Above(z)
  OBVIOUS
<1>4. ASSUME NEW a \in R, ~ (a <= z) PROVE FALSE
  <2>1. a \in Nat /\ z \in Nat /\ z < a
    BY <1>4
  <2>2. Above(a) \subseteq Above(z) /\ a \in Above(z) /\ a \notin Above(a)
    <3>1. \A b \in R : a < b => z < b
      BY <2>1
    <3>2. a \in Above(z) /\ a \notin Above(a)
      BY <2>1
    <3> QED BY <3>1, <3>2
  <2>3. <<Above(a), Above(z)>> \in StrictSubsetOrdering(R)
    BY <2>2 DEF StrictSubsetOrdering
  <2> QED BY <1>2, <1>3, <2>3
<1> QED BY <1>4

Units(f, S) == UNION {{x} \X (1..f[x]) : x \in S}
Tally(f, S) == Cardinality(Units(f, S))

(* The units of one element. *)
LEMMA UnitsOfOne ==
  ASSUME NEW x, NEW n \in Nat
  PROVE  IsFiniteSet({x} \X (1..n)) /\ Cardinality({x} \X (1..n)) = n
<1>1. IsFiniteSet({x}) /\ Cardinality({x}) = 1
  BY FS_Singleton
<1>2. IsFiniteSet(1..n) /\ Cardinality(1..n) = n
  BY FS_Interval
<1>3. /\ IsFiniteSet({x} \X (1..n))
      /\ Cardinality({x} \X (1..n)) = Cardinality({x}) * Cardinality(1..n)
  BY <1>1, <1>2, FS_Product, Zenon
<1>4. 1 * n = n
  OBVIOUS
<1> QED BY <1>1, <1>2, <1>3, <1>4

LEMMA UnitsAreFinite ==
  ASSUME NEW S, IsFiniteSet(S), NEW f, \A x \in S : f[x] \in Nat
  PROVE  IsFiniteSet(Units(f, S)) /\ Tally(f, S) \in Nat
<1> DEFINE T == {{x} \X (1..f[x]) : x \in S}
           g == [x \in S |-> {x} \X (1..f[x])]
<1>1. g \in Surjection(S, T)
  BY DEF Surjection
<1>2. IsFiniteSet(T)
  <2> HIDE DEF g, T
  <2> QED BY <1>1, FS_Surjection
<1>3. ASSUME NEW t \in T PROVE IsFiniteSet(t)
  <2>1. PICK x \in S : t = {x} \X (1..f[x])
    OBVIOUS
  <2> QED BY <2>1, UnitsOfOne
<1> HIDE DEF T
<1>4. IsFiniteSet(UNION T)
  BY <1>2, <1>3, FS_UNION
<1>5. Units(f, S) = UNION T
  BY DEF Units, T
<1> QED BY <1>4, <1>5, FS_CardinalityType DEF Tally

(* Nothing sums up to nothing. *)
LEMMA TallyOfNone == ASSUME NEW f PROVE Tally(f, {}) = 0
BY FS_EmptySet DEF Tally, Units

(* One more element adds what the function says of it. *)
LEMMA TallyOfOneMore ==
  ASSUME NEW S, IsFiniteSet(S), NEW y, y \notin S, NEW f, \A x \in S \cup {y} : f[x] \in Nat
  PROVE  Tally(f, S \cup {y}) = Tally(f, S) + f[y]
<1> DEFINE A == Units(f, S)
           B == {y} \X (1..f[y])
<1>1. Units(f, S \cup {y}) = A \cup B
  BY DEF Units
<1>2. A \cap B = {}
  BY DEF Units
<1>3. IsFiniteSet(A) /\ Cardinality(A) \in Nat /\ Cardinality(A) = Tally(f, S)
  BY UnitsAreFinite DEF Tally
<1>4. f[y] \in Nat /\ IsFiniteSet(B) /\ Cardinality(B) = f[y]
  BY UnitsOfOne
<1> HIDE DEF A, B
<1>5. Cardinality(A \cup B) = Cardinality(A) + Cardinality(B) - Cardinality(A \cap B)
  BY <1>3, <1>4, FS_Union
<1>6. Cardinality(A \cap B) = 0
  BY <1>2, FS_EmptySet
<1>7. Cardinality(A \cup B) = Cardinality(A) + Cardinality(B)
  BY <1>3, <1>4, <1>5, <1>6
<1>8. Tally(f, S \cup {y}) = Cardinality(A \cup B)
  BY <1>1 DEF Tally
<1> QED BY <1>3, <1>4, <1>7, <1>8, Zenon

(* A sum grows with its set and with what is summed. *)
LEMMA TallyGrows ==
  ASSUME NEW T, IsFiniteSet(T), NEW S \in SUBSET T, NEW f, NEW g,
         \A x \in T : g[x] \in Nat,
         \A x \in S : f[x] \in Nat /\ f[x] <= g[x]
  PROVE  Tally(f, S) <= Tally(g, T)
<1>1. Units(f, S) \subseteq Units(g, T)
  BY DEF Units
<1>2. IsFiniteSet(Units(g, T))
  BY UnitsAreFinite
<1> QED BY <1>1, <1>2, FS_Subset DEF Tally

(* A sum depends on the values only. *)
LEMMA TallyOfSame ==
  ASSUME NEW S, NEW f, NEW g, \A x \in S : f[x] = g[x]
  PROVE  Tally(f, S) = Tally(g, S)
<1>1. Units(f, S) = Units(g, S)
  BY DEF Units
<1> QED BY <1>1 DEF Tally

(* The recursion of MapThenSumSet, for what the function f says of the elements of S. *)
IsFold(it, f, S) ==
  it = [s \in SUBSET S |-> IF s = {} THEN 0
                           ELSE f[CHOOSE x \in s : TRUE] + it[s \ {CHOOSE x \in s : TRUE}]]

LEMMA TallyIsFold ==
  ASSUME NEW S, IsFiniteSet(S), NEW f, \A x \in S : f[x] \in Nat
  PROVE  IsFold([s \in SUBSET S |-> Tally(f, s)], f, S)
<1> DEFINE it == [s \in SUBSET S |-> Tally(f, s)]
<1>1. ASSUME NEW s \in SUBSET S, s # {}
      PROVE  Tally(f, s) = f[CHOOSE x \in s : TRUE] + it[s \ {CHOOSE x \in s : TRUE}]
  <2> DEFINE y == CHOOSE x \in s : TRUE
             rest == s \ {y}
  <2>1. y \in s
    BY <1>1
  <2> HIDE DEF y
  <2>2. IsFiniteSet(rest) /\ y \notin rest /\ s = rest \cup {y} /\ rest \in SUBSET S
    <3>1. IsFiniteSet(s)
      BY FS_Subset
    <3> QED BY <2>1, <3>1, FS_Subset
  <2>3. \A x \in rest \cup {y} : f[x] \in Nat
    BY <2>1
  <2> HIDE DEF rest
  <2>4. Tally(f, s) = Tally(f, rest) + f[y] /\ Tally(f, rest) \in Nat
    BY <2>2, <2>3, TallyOfOneMore, UnitsAreFinite
  <2>5. f[y] \in Nat /\ it[rest] = Tally(f, rest)
    BY <2>1, <2>2
  <2> HIDE DEF it
  <2>6. Tally(f, s) = f[y] + it[rest]
    BY <2>4, <2>5
  <2> QED BY <2>6 DEF y, rest
<1>2. Tally(f, {}) = 0
  BY TallyOfNone
<1>3. it = [s \in SUBSET S |-> IF s = {} THEN 0
                               ELSE f[CHOOSE x \in s : TRUE] + it[s \ {CHOOSE x \in s : TRUE}]]
  BY <1>1, <1>2
<1> QED BY <1>3 DEF IsFold

LEMMA FoldIsTally ==
  ASSUME NEW S, IsFiniteSet(S), NEW f, \A x \in S : f[x] \in Nat, NEW it, IsFold(it, f, S)
  PROVE  it[S] = Tally(f, S)
<1> DEFINE bad == {s \in SUBSET S : it[s] # Tally(f, s)}
<1>1. \A s \in SUBSET S : it[s] = IF s = {} THEN 0
                          ELSE f[CHOOSE x \in s : TRUE] + it[s \ {CHOOSE x \in s : TRUE}]
  BY DEF IsFold
<1>2. SUFFICES ASSUME bad # {} PROVE FALSE
  OBVIOUS
<1>3. bad \subseteq FiniteSubsetsOf(S)
  BY FS_Subset DEF FiniteSubsetsOf
<1>4. PICK s \in bad : \A r \in bad : ~ (<<r, s>> \in StrictSubsetOrdering(S))
  <2> HIDE DEF bad
  <2> QED BY <1>2, <1>3, FS_StrictSubsetOrderingWellFounded, WFMin, Zenon
<1>5. s # {}
  BY <1>1, TallyOfNone
<1> DEFINE y == CHOOSE x \in s : TRUE
           rest == s \ {y}
<1>6. y \in s
  BY <1>5
<1>7. it[s] = f[y] + it[rest]
  BY <1>1, <1>5
<1> HIDE DEF y
<1>8. rest \in SUBSET S /\ rest \subseteq s /\ rest # s /\ y \notin rest /\ s = rest \cup {y}
  BY <1>6
<1> HIDE DEF rest
<1>9. it[rest] = Tally(f, rest)
  <2>1. <<rest, s>> \in StrictSubsetOrdering(S)
    BY <1>8 DEF StrictSubsetOrdering
  <2> QED BY <1>4, <1>8, <2>1
<1>10. IsFiniteSet(rest) /\ \A x \in rest \cup {y} : f[x] \in Nat
  <2>1. IsFiniteSet(rest)
    BY <1>8, FS_Subset
  <2> QED BY <1>6, <1>8, <2>1
<1>11. Tally(f, s) = Tally(f, rest) + f[y] /\ Tally(f, rest) \in Nat /\ f[y] \in Nat
  BY <1>8, <1>10, TallyOfOneMore, UnitsAreFinite
<1>12. it[s] = Tally(f, s)
  BY <1>7, <1>9, <1>11
<1> QED BY <1>12

LEMMA SumIsTally ==
  ASSUME NEW S, IsFiniteSet(S), NEW f, \A x \in S : f[x] \in Nat
  PROVE  MapThenSumSet(LAMBDA x : f[x], S) = Tally(f, S)
<1> DEFINE it == CHOOSE it : IsFold(it, f, S)
<1>1. IsFold(it, f, S)
  BY TallyIsFold
<1>2. MapThenSumSet(LAMBDA x : f[x], S) = it[S]
  BY DEF MapThenSumSet, MapThenFoldSet, IsFold
<1> QED BY <1>1, <1>2, FoldIsTally

(* The sum of sums. *)
LEMMA TallyOfSum ==
  ASSUME NEW S, IsFiniteSet(S), NEW f, NEW g, NEW h,
         \A x \in S : f[x] \in Nat /\ g[x] \in Nat /\ h[x] = f[x] + g[x]
  PROVE  Tally(h, S) = Tally(f, S) + Tally(g, S)
<1> DEFINE A == Units(f, S)
           B == Units(g, S)
           C == Units(h, S)
           rest == C \ A
           shift == [u \in B |-> <<u[1], f[u[1]] + u[2]>>]
<1>1. IsFiniteSet(A) /\ IsFiniteSet(B) /\ IsFiniteSet(C)
  <2>1. \A x \in S : h[x] \in Nat
    OBVIOUS
  <2> QED BY <2>1, UnitsAreFinite
<1>2. A \subseteq C
  BY DEF Units
<1>3. ASSUME NEW u \in B PROVE u[1] \in S /\ u[2] \in 1..g[u[1]] /\ u = <<u[1], u[2]>>
  BY DEF Units
<1>4. ASSUME NEW u \in B PROVE shift[u] \in rest
  <2> DEFINE x == u[1]
             k == u[2]
  <2>1. x \in S /\ k \in 1..g[x] /\ f[x] \in Nat /\ g[x] \in Nat /\ h[x] = f[x] + g[x]
    BY <1>3
  <2>2. shift[u] = <<x, f[x] + k>>
    OBVIOUS
  <2> HIDE DEF x, k, shift
  <2>3. f[x] + k \in 1..h[x] /\ f[x] + k \notin 1..f[x]
    BY <2>1
  <2>4. <<x, f[x] + k>> \in C
    BY <2>1, <2>3 DEF Units
  <2>5. <<x, f[x] + k>> \notin A
    BY <2>3 DEF Units
  <2> QED BY <2>2, <2>4, <2>5
<1>5. ASSUME NEW u \in B, NEW w \in B, shift[u] = shift[w] PROVE u = w
  <2> DEFINE x == u[1]
             k == u[2]
             y == w[1]
             l == w[2]
  <2>1. /\ x \in S /\ k \in 1..g[x] /\ u = <<x, k>> /\ f[x] \in Nat /\ g[x] \in Nat
        /\ y \in S /\ l \in 1..g[y] /\ w = <<y, l>>
    BY <1>3
  <2>2. x = y /\ f[x] + k = f[y] + l
    BY <1>5
  <2> HIDE DEF x, k, y, l
  <2>3. k = l
    BY <2>1, <2>2
  <2> QED BY <2>1, <2>2, <2>3
<1>6. ASSUME NEW t \in rest PROVE \E u \in B : shift[u] = t
  <2>1. PICK x \in S : t \in {x} \X (1..h[x])
    BY DEF Units
  <2>2. PICK n \in 1..h[x] : t = <<x, n>>
    BY <2>1
  <2>3. f[x] \in Nat /\ g[x] \in Nat /\ h[x] = f[x] + g[x]
    OBVIOUS
  <2>4. n \notin 1..f[x]
    <3>1. n \in 1..f[x] => t \in A
      BY <2>2 DEF Units
    <3> QED BY <3>1
  <2> DEFINE k == n - f[x]
             u == <<x, k>>
  <2>5. k \in 1..g[x] /\ f[x] + k = n
    BY <2>2, <2>3, <2>4
  <2> HIDE DEF k
  <2>6. u \in B
    BY <2>5 DEF Units
  <2>7. shift[u] = t
    BY <2>2, <2>5, <2>6
  <2> QED BY <2>6, <2>7
<1>7. shift \in Bijection(B, rest)
  <2>1. shift \in [B -> rest]
    BY <1>4
  <2> HIDE DEF shift, B, rest
  <2> QED BY <1>4, <1>5, <1>6, <2>1, Zenon DEF Bijection, Injection, IsInjective, Surjection
<1> HIDE DEF A, B, C, shift, rest
<1>8. IsFiniteSet(rest) /\ Cardinality(rest) = Cardinality(B)
  BY <1>1, <1>7, FS_Bijection DEF ExistsBijection
<1>9. C = A \cup rest /\ A \cap rest = {}
  BY <1>2 DEF rest
<1>10. /\ Cardinality(A \cup rest) = Cardinality(A) + Cardinality(rest) - Cardinality(A \cap rest)
  BY <1>1, <1>8, FS_Union
<1>11. Cardinality(A \cap rest) = 0 /\ Cardinality(A) \in Nat /\ Cardinality(rest) \in Nat
  BY <1>1, <1>8, <1>9, FS_EmptySet, FS_CardinalityType
<1>12. Cardinality(C) = Cardinality(A) + Cardinality(B)
  BY <1>8, <1>9, <1>10, <1>11
<1> QED BY <1>12 DEF Tally, A, B, C

(* What counts for nothing may be left out. *)
LEMMA TallyWithoutZeros ==
  ASSUME NEW S, NEW T \in SUBSET S, NEW f, NEW g,
         \A x \in T : f[x] = g[x], \A x \in S \ T : g[x] = 0
  PROVE  Tally(f, T) = Tally(g, S)
<1>1. 1..0 = {}
  OBVIOUS
<1>2. Units(f, T) = Units(g, S)
  BY <1>1 DEF Units
<1> QED BY <1>2 DEF Tally

-----------------------------------------------------------------------------

Row == [type : Types, from : Int, to : Int, days : Nat, status : Statuses, asked : BOOLEAN]
Tables == [Ids -> Row \cup {NoLeave}]
ReadType == [busy : {TRUE}, leaves : Tables]

Typed ==
  /\ leaves \in Tables /\ nextId \in Nat \ {0}
  /\ clerk \in [Clerks -> ReadType \cup {Idle}]
\* New ids are unused, and no row that a request has read is gone.
FreshIds == \A n \in Ids : nextId <= n => leaves[n] = NoLeave
ReadsStay == \A c \in Clerks : Stored(Seen(c)) \subseteq Stored(leaves)
Shape == Typed /\ FreshIds /\ ReadsStay

LEMMA IdsAreFinite == IsFiniteSet(Ids) /\ \A S \in SUBSET Ids : IsFiniteSet(S)
<1>1. IsFiniteSet(Ids)
  BY DatesAssumption, FS_Interval DEF Ids
<1> QED BY <1>1, FS_Subset

LEMMA RowsAre ==
  ASSUME NEW rows \in Tables, NEW i \in Stored(rows)
  PROVE  /\ i \in Ids /\ rows[i] \in Row /\ rows[i].type \in Types /\ rows[i].status \in Statuses
         /\ rows[i].from \in Int /\ rows[i].to \in Int /\ rows[i].days \in Nat
         /\ rows[i].asked \in BOOLEAN
BY DEF Stored, Tables, Row

LEMMA StoredIs ==
  ASSUME NEW rows \in Tables, NEW i \in Ids
  PROVE  /\ i \in Stored(rows) <=> rows[i] \in Row
         /\ i \notin Stored(rows) <=> rows[i] = NoLeave
<1>1. NoLeave \notin Row
  BY DEF NoLeave, Row, Statuses
<1> QED BY <1>1 DEF Stored, Tables

LEMMA SeenTyped ==
  ASSUME Shape, NEW c \in Clerks
  PROVE  Seen(c) \in Tables /\ Stored(Seen(c)) \subseteq Stored(leaves)
<1>1. clerk[c] \in ReadType \cup {Idle}
  BY DEF Shape, Typed
<1>2. CASE clerk[c] \in ReadType
  BY <1>2 DEF ReadType, Seen, Shape, ReadsStay
<1>3. CASE clerk[c] = Idle
  <2>2. Idle.busy = FALSE
    BY DEF Idle
  <2>1. ~clerk[c].busy
    BY <1>3, <2>2, Zenon
  <2> QED BY <2>1 DEF Seen, Shape, Typed
<1> QED BY <1>1, <1>2, <1>3

(* Places in the order of a set of ids. *)
LEMMA Places ==
  ASSUME NEW S, IsFiniteSet(S), S \subseteq Nat
  PROVE  /\ Cardinality(S) \in Nat
         /\ \A i \in S : /\ Cardinality({j \in S : j < i}) \in Nat
                         /\ Cardinality({j \in S : j < i}) < Cardinality(S)
         /\ \A i, k \in S : i < k => Cardinality({j \in S : j < i}) < Cardinality({j \in S : j < k})
<1> DEFINE P(i) == {j \in S : j < i}
<1>1. ASSUME NEW T, IsFiniteSet(T), NEW R \in SUBSET T, NEW x \in T, x \notin R
      PROVE  Cardinality(R) \in Nat /\ Cardinality(T) \in Nat /\ Cardinality(R) < Cardinality(T)
  <2>1. IsFiniteSet(R) /\ Cardinality(R) <= Cardinality(T) /\ (Cardinality(R) = Cardinality(T) => R = T)
    BY <1>1, FS_Subset
  <2>2. R # T
    BY <1>1
  <2>3. Cardinality(R) \in Nat /\ Cardinality(T) \in Nat
    BY <1>1, <2>1, FS_CardinalityType
  <2> QED BY <2>1, <2>2, <2>3
<1>2. ASSUME NEW i \in S
      PROVE  Cardinality(P(i)) \in Nat /\ Cardinality(P(i)) < Cardinality(S)
  <2>1. P(i) \in SUBSET S /\ i \notin P(i)
    OBVIOUS
  <2> QED BY <1>1, <2>1
<1>3. ASSUME NEW i \in S, NEW k \in S, i < k PROVE Cardinality(P(i)) < Cardinality(P(k))
  <2>1. \A j \in S : j < i => j < k
    BY <1>3
  <2>4. i \in Nat /\ ~ (i < i)
    OBVIOUS
  <2>2. P(i) \in SUBSET P(k) /\ i \in P(k) /\ i \notin P(i)
    <3>1. P(i) \in SUBSET P(k)
      BY <2>1, Zenon
    <3>2. i \in P(k)
      BY <1>3, Zenon
    <3>3. i \notin P(i)
      BY <2>4, Zenon
    <3> QED BY <3>1, <3>2, <3>3
  <2>3. IsFiniteSet(P(k))
    BY FS_Subset
  <2> HIDE DEF P
  <2> QED BY <1>1, <2>2, <2>3
<1>4. Cardinality(S) \in Nat
  BY FS_CardinalityType
<1> QED BY <1>2, <1>3, <1>4

LEMMA TotalIsTally ==
  ASSUME NEW rows \in Tables, NEW S \in SUBSET Stored(rows)
  PROVE  LET days == [i \in S |-> rows[i].days] IN
           /\ Total(rows, S) = Tally(days, S) /\ Total(rows, S) \in Nat
<1> DEFINE days == [i \in S |-> rows[i].days]
<1>1. IsFiniteSet(S) /\ \A i \in S : days[i] \in Nat
  BY IdsAreFinite, RowsAre DEF Stored
<1>2. Total(rows, S) = MapThenSumSet(LAMBDA i : days[i], S)
  BY ZenonT(90) DEF Total, SumOver, MapThenSumSet, MapThenFoldSet
<1> HIDE DEF days
<1>3. MapThenSumSet(LAMBDA i : days[i], S) = Tally(days, S) /\ Tally(days, S) \in Nat
  BY <1>1, SumIsTally, UnitsAreFinite
<1> QED BY <1>2, <1>3 DEF days

(* The parts of some numbers do not sum up to more than these. *)
LEMMA PartsWithin ==
  ASSUME NEW S, NEW T, IsFiniteSet(T), NEW f, NEW g, NEW o \in [S -> T], NEW off \in [S -> Nat],
         \A x \in S : f[x] \in Nat /\ off[x] + f[x] <= g[o[x]],
         \A x \in T : g[x] \in Nat,
         \A x, y \in S : x # y /\ o[x] = o[y] => off[x] + f[x] <= off[y] \/ off[y] + f[y] <= off[x]
  PROVE  Tally(f, S) <= Tally(g, T)
<1> DEFINE A == Units(f, S)
           B == Units(g, T)
           h == [u \in A |-> <<o[u[1]], off[u[1]] + u[2]>>]
<1>1. ASSUME NEW u \in A PROVE u[1] \in S /\ u[2] \in 1..f[u[1]] /\ u = <<u[1], u[2]>>
  BY DEF Units
<1>2. ASSUME NEW u \in A PROVE h[u] \in B
  <2> DEFINE x == u[1]
             k == u[2]
  <2>1. x \in S /\ k \in 1..f[x] /\ o[x] \in T /\ off[x] \in Nat /\ f[x] \in Nat /\ g[o[x]] \in Nat
    BY <1>1
  <2>2. off[x] + k \in 1..g[o[x]]
    <3> HIDE DEF x, k
    <3> QED BY <2>1
  <2>3. h[u] = <<o[x], off[x] + k>>
    OBVIOUS
  <2> HIDE DEF x, k, h
  <2> QED BY <2>1, <2>2, <2>3 DEF Units
<1>3. ASSUME NEW u \in A, NEW v \in A, h[u] = h[v] PROVE u = v
  <2> DEFINE x == u[1]
             y == v[1]
             k == u[2]
             l == v[2]
  <2>1. /\ x \in S /\ k \in 1..f[x] /\ u = <<x, k>> /\ y \in S /\ l \in 1..f[y] /\ v = <<y, l>>
    BY <1>1
  <2>2. o[x] = o[y] /\ off[x] + k = off[y] + l
    BY <1>3
  <2>3. off[x] \in Nat /\ off[y] \in Nat /\ f[x] \in Nat /\ f[y] \in Nat
    BY <2>1
  <2> HIDE DEF x, y, k, l
  <2>4. x = y
    <3>1. SUFFICES ASSUME x # y PROVE FALSE
      OBVIOUS
    <3>2. off[x] + f[x] <= off[y] \/ off[y] + f[y] <= off[x]
      BY <2>1, <2>2, <3>1
    <3> QED BY <2>1, <2>2, <2>3, <3>2
  <2>5. k = l
    BY <2>1, <2>2, <2>3, <2>4
  <2> QED BY <2>1, <2>4, <2>5
<1>4. h \in Injection(A, B)
  BY <1>2, <1>3 DEF Injection, IsInjective
<1>5. IsFiniteSet(B)
  BY UnitsAreFinite
<1> HIDE DEF A, B, h
<1>6. Cardinality(A) <= Cardinality(B)
  BY <1>4, <1>5, FS_Injection
<1> QED BY <1>6 DEF Tally, A, B

(* A request either has not read yet, or acts on rows it read earlier. *)
SeesItsReads ==
  \A c \in Clerks : \/ clerk[c] = Idle /\ Seen(c) = leaves
                    \/ clerk[c] \in ReadType /\ Seen(c) = clerk[c].leaves
LEMMA SeenIs == Typed => SeesItsReads
<1> SUFFICES ASSUME Typed, NEW c \in Clerks
             PROVE  \/ clerk[c] = Idle /\ Seen(c) = leaves
                    \/ clerk[c] \in ReadType /\ Seen(c) = clerk[c].leaves
  BY DEF SeesItsReads
<1>1. clerk[c] \in ReadType \/ clerk[c] = Idle
  BY DEF Typed
<1>2. Idle.busy = FALSE
  BY DEF Idle
<1>3. CASE clerk[c] = Idle
  BY <1>2, <1>3, Zenon DEF Seen
<1>4. CASE clerk[c] \in ReadType
  BY <1>4 DEF ReadType, Seen
<1> QED BY <1>1, <1>3, <1>4

(* What of a commit matters for the types, the new ids and the reads. *)
LEMMA CommitShape ==
  ASSUME Shape, NEW c \in Clerks, NEW rows \in Tables, Stored(leaves) \subseteq Stored(rows),
         \A n \in Stored(rows) \ Stored(leaves) :
           n < nextId + Cardinality(Stored(rows) \ Stored(leaves)),
         Commit(c, rows)
  PROVE  Shape'
<1> DEFINE new == Stored(rows) \ Stored(leaves)
<1>1. Cardinality(new) \in Nat
  <2>1. new \in SUBSET Ids
    BY DEF Stored
  <2> QED BY <2>1, IdsAreFinite, FS_CardinalityType
<1>2. leaves' = rows /\ nextId' = nextId + Cardinality(new) /\ clerk' = [clerk EXCEPT ![c] = Idle]
  BY DEF Commit
<1>3. \A n \in new : n < nextId + Cardinality(new)
  OBVIOUS
<1> HIDE DEF new
<1>4. Typed'
  <2>1. nextId' \in Nat \ {0}
    BY <1>1, <1>2 DEF Shape, Typed
  <2>2. clerk' \in [Clerks -> ReadType \cup {Idle}]
    BY <1>2 DEF Shape, Typed
  <2> QED BY <1>2, <2>1, <2>2 DEF Typed
<1>5. FreshIds'
  <2> SUFFICES ASSUME NEW n \in Ids, nextId' <= n, rows[n] # NoLeave PROVE FALSE
    BY <1>2 DEF FreshIds
  <2>1. n \in Nat /\ nextId \in Nat
    BY DEF Ids, Shape, Typed
  <2>2. n \in Stored(rows)
    BY DEF Stored
  <2>3. CASE n \in Stored(leaves)
    <3>1. ~ (nextId <= n)
      BY <2>3 DEF Shape, FreshIds, Stored
    <3> QED BY <3>1, <2>1, <1>1, <1>2
  <2>4. CASE n \notin Stored(leaves)
    <3>1. n \in new
      BY <2>2, <2>4 DEF new
    <3> QED BY <3>1, <1>1, <1>2, <1>3, <2>1
  <2> QED BY <2>3, <2>4
<1>6. ReadsStay'
  <2> SUFFICES ASSUME NEW d \in Clerks PROVE Stored(Seen(d)') \subseteq Stored(leaves')
    BY DEF ReadsStay, Stored
  <2>1. \/ clerk'[d] = Idle /\ Seen(d)' = leaves'
        \/ clerk'[d] \in ReadType /\ Seen(d)' = clerk'[d].leaves
    <3>1. Typed' => SeesItsReads'
      BY SeenIs, PTL
    <3> QED BY <3>1, <1>4 DEF SeesItsReads
  <2>2. CASE Seen(d)' = leaves'
    BY <2>2
  <2>3. CASE clerk'[d] \in ReadType /\ Seen(d)' = clerk'[d].leaves
    <3>1. Idle \notin ReadType
      BY DEF Idle, ReadType
    <3>2. d # c /\ clerk'[d] = clerk[d]
      BY <1>2, <2>3, <3>1 DEF Shape, Typed
    <3>3. Seen(d) = clerk[d].leaves
      BY <3>1, <3>2, <2>3, SeenIs DEF Shape, SeesItsReads
    <3>4. Stored(Seen(d)) \subseteq Stored(leaves)
      BY DEF Shape, ReadsStay
    <3> QED BY <3>2, <3>3, <3>4, <2>3, <1>2
  <2> QED BY <2>1, <2>2, <2>3
<1> QED BY <1>4, <1>5, <1>6 DEF Shape

-----------------------------------------------------------------------------
(* The day that leave gives up. *)

LEMMA LatestIs ==
  ASSUME NEW ids \in SUBSET Ids, ids # {}
  PROVE  Latest(ids) \in ids
<1>1. IsFiniteSet(ids) /\ ids \subseteq Nat
  BY IdsAreFinite DEF Ids
<1>2. \E i \in ids : \A j \in ids : j <= i
  BY <1>1, LastOne
<1> QED BY <1>2 DEF Latest

LEMMA ChangedRows ==
  ASSUME NEW now \in Row, NEW f \in Int, NEW t \in Int, NEW n \in Nat, NEW s \in Statuses
  PROVE  /\ [now EXCEPT !.status = s] \in Row
         /\ [now EXCEPT !.from = f, !.days = n] \in Row
         /\ [now EXCEPT !.to = t, !.days = n] \in Row
<1> DEFINE B == BOOLEAN
<1> HIDE DEF B
<1>1. Row = [type : Types, from : Int, to : Int, days : Nat, status : Statuses, asked : B]
  BY DEF Row, B
<1> QED BY <1>1

(* The rows that leave gives up date d from are typed, and so is what is split off. *)
LEMMA PiecesAreRows ==
  ASSUME NEW now \in Row, NEW row \in Row, NEW d \in Dates, Covers(row, d), Divisible(row)
  PROVE  Shrunk(now, row, d) \in Row /\ Remainder(row, d) \in Row
<1>1. /\ row.from \in Int /\ row.to \in Int /\ row.days \in Nat /\ d \in Int
      /\ row.from <= d /\ d <= row.to
  BY DatesAssumption DEF Row, Covers, Dates
<1>2. "Cancelled" \in Statuses
  BY DEF Statuses
<1>3. Unit * (d - row.from) \in Nat /\ Unit * (row.to - d) \in Nat
  BY <1>1 DEF Unit
<1>4. Remainder(row, d) \in Row
  BY <1>1, <1>3 DEF Remainder, Leave, Row
<1>5. Span(row) # 1 => row.days - Unit \in Nat
  BY <1>1 DEF Span, Divisible, Unit
<1>6. Shrunk(now, row, d) \in Row
  <2>1. CASE Span(row) = 1
    <3>1. Shrunk(now, row, d) = [now EXCEPT !.status = "Cancelled"]
      BY <2>1 DEF Shrunk
    <3>3. [now EXCEPT !.status = "Cancelled"] \in Row
      BY <1>1, <1>2, ChangedRows
    <3> QED BY <3>1, <3>3, Zenon
  <2>2. CASE Span(row) # 1 /\ d = row.from
    <3>1. Shrunk(now, row, d) = [now EXCEPT !.from = d + 1, !.days = row.days - Unit]
      BY <2>2 DEF Shrunk
    <3>2. d + 1 \in Int /\ row.days - Unit \in Nat
      BY <1>1, <1>5, <2>2
    <3>3. [now EXCEPT !.from = d + 1, !.days = row.days - Unit] \in Row
      BY <1>1, <1>2, <3>2, ChangedRows
    <3> QED BY <3>1, <3>3, Zenon
  <2>3. CASE Span(row) # 1 /\ d # row.from /\ d = row.to
    <3>1. Shrunk(now, row, d) = [now EXCEPT !.to = d - 1, !.days = row.days - Unit]
      BY <2>3 DEF Shrunk
    <3>2. d - 1 \in Int /\ row.days - Unit \in Nat
      BY <1>1, <1>5, <2>3
    <3>3. [now EXCEPT !.to = d - 1, !.days = row.days - Unit] \in Row
      BY <1>1, <1>2, <3>2, ChangedRows
    <3> QED BY <3>1, <3>3, Zenon
  <2>4. CASE Span(row) # 1 /\ d # row.from /\ d # row.to
    <3>1. Shrunk(now, row, d) = [now EXCEPT !.to = d - 1, !.days = Unit * (d - row.from)]
      BY <2>4 DEF Shrunk
    <3>2. d - 1 \in Int
      BY <1>1
    <3>3. [now EXCEPT !.to = d - 1, !.days = Unit * (d - row.from)] \in Row
      BY <1>1, <1>2, <1>3, <3>2, ChangedRows
    <3> QED BY <3>1, <3>3, Zenon
  <2> QED BY <2>1, <2>2, <2>3, <2>4
<1> QED BY <1>4, <1>6

LEMMA NewIds ==
  ASSUME Shape, NEW split \in SUBSET Ids, \A i \in split : NewId(split, i) \in Ids
  PROVE  LET news == {NewId(split, i) : i \in split} IN
         /\ IsFiniteSet(news) /\ Cardinality(news) = Cardinality(split) /\ Cardinality(split) \in Nat
         /\ news \subseteq Ids /\ news \cap Stored(leaves) = {}
         /\ \A n \in news : nextId <= n /\ n < nextId + Cardinality(split)
         /\ \A i, j \in split : NewId(split, i) = NewId(split, j) => i = j
<1> DEFINE news == {NewId(split, i) : i \in split}
           at == [i \in split |-> NewId(split, i)]
<1>1. IsFiniteSet(split) /\ split \subseteq Nat
  BY IdsAreFinite DEF Ids
<1>2. nextId \in Nat /\ nextId # 0
  BY DEF Shape, Typed
<1>3. /\ Cardinality(split) \in Nat
      /\ \A i \in split : /\ Cardinality({j \in split : j < i}) \in Nat
                          /\ Cardinality({j \in split : j < i}) < Cardinality(split)
      /\ \A i, k \in split : i < k =>
           Cardinality({j \in split : j < i}) < Cardinality({j \in split : j < k})
  BY <1>1, Places
<1>4. \A i \in split : nextId <= NewId(split, i) /\ NewId(split, i) < nextId + Cardinality(split)
  BY <1>2, <1>3 DEF NewId
<1>5. ASSUME NEW i \in split, NEW j \in split, NewId(split, i) = NewId(split, j) PROVE i = j
  <2>1. i \in Nat /\ j \in Nat
    BY <1>1
  <2>2. ~ (i < j) /\ ~ (j < i)
    <3> DEFINE P(k) == Cardinality({l \in split : l < k})
    <3>1. P(i) \in Nat /\ P(j) \in Nat /\ nextId + P(i) = nextId + P(j)
      BY <1>3, <1>5 DEF NewId
    <3>2. (i < j => P(i) < P(j)) /\ (j < i => P(j) < P(i))
      BY <1>3
    <3> HIDE DEF P
    <3> QED BY <3>1, <3>2, <1>2
  <2> QED BY <2>1, <2>2
<1>6. at \in Bijection(split, news)
  BY <1>5, Zenon DEF Bijection, Injection, IsInjective, Surjection
<1>7. IsFiniteSet(news) /\ Cardinality(news) = Cardinality(split)
  <2> HIDE DEF at, news
  <2> QED BY <1>1, <1>6, FS_Bijection DEF ExistsBijection
<1>8. news \cap Stored(leaves) = {}
  BY <1>4 DEF Shape, FreshIds, Stored
<1> QED BY <1>3, <1>4, <1>5, <1>7, <1>8

(* The rows once the ids have given up date d. *)
CutIs(read, ids, d) ==
  LET split == SplitIds(read, ids, d)
      news == {NewId(split, i) : i \in split}
      rows == Without(read, ids, d) IN
  /\ ids \subseteq Stored(leaves) /\ ids \subseteq Stored(read)
  /\ split \subseteq ids /\ \A i \in split : NewId(split, i) \in Ids
  /\ \A i \in ids : Covers(read[i], d) /\ Divisible(read[i])
  /\ \A n \in ids : rows[n] = Shrunk(leaves[n], read[n], d)
  /\ \A i \in split : rows[NewId(split, i)] = Remainder(read[i], d)
  /\ \A n \in Ids \ (ids \cup news) : rows[n] = leaves[n]
  /\ rows \in Tables /\ Stored(rows) = Stored(leaves) \cup news

LEMMA WithoutIs ==
  ASSUME Shape, NEW c \in Clerks, NEW d \in Dates, NEW ids \in SUBSET Covering(Seen(c), d),
         CanGiveUp(Seen(c), ids, d)
  PROVE  CutIs(Seen(c), ids, d)
<1> DEFINE read == Seen(c)
           split == SplitIds(read, ids, d)
           news == {NewId(split, i) : i \in split}
           rows == Without(read, ids, d)
<1>1. read \in Tables /\ Stored(read) \subseteq Stored(leaves) /\ leaves \in Tables
  BY SeenTyped DEF Shape, Typed
<1>2. ids \subseteq Stored(read) /\ ids \subseteq Stored(leaves) /\ \A i \in ids : Covers(read[i], d)
  BY <1>1 DEF Covering
<1>3. ids \subseteq Ids /\ split \subseteq ids /\ split \subseteq Ids
  BY <1>2 DEF Stored, SplitIds
<1>4. (\A i \in ids : Divisible(read[i])) /\ \A i \in split : NewId(split, i) \in Ids
  BY DEF CanGiveUp
<1>5. /\ news \subseteq Ids /\ news \cap Stored(leaves) = {}
      /\ \A i, j \in split : NewId(split, i) = NewId(split, j) => i = j
  <2>1. split \in SUBSET Ids
    BY <1>3
  <2> HIDE DEF split
  <2> QED BY <2>1, <1>4, NewIds, Zenon
<1>6. rows = [n \in Ids |->
                IF n \in ids THEN Shrunk(leaves[n], read[n], d)
                ELSE IF n \in news
                THEN Remainder(read[CHOOSE i \in split : NewId(split, i) = n], d)
                ELSE leaves[n]]
  <2>1. \A n \in Ids : n \in news <=> \E i \in split : NewId(split, i) = n
    OBVIOUS
  <2> HIDE DEF news
  <2> QED BY <2>1 DEF Without
<1> HIDE DEF rows, split
<1>7. \A n \in ids : rows[n] = Shrunk(leaves[n], read[n], d)
  BY <1>3, <1>6
<1>8. ASSUME NEW i \in split PROVE rows[NewId(split, i)] = Remainder(read[i], d)
  <2> DEFINE n == NewId(split, i)
             k == CHOOSE j \in split : NewId(split, j) = n
  <2>1. n \in news /\ n \in Ids /\ n \notin ids
    BY <1>2, <1>4, <1>5
  <2>2. k \in split /\ NewId(split, k) = n
    OBVIOUS
  <2>3. k = i
    BY <2>2, <1>5
  <2>4. rows[n] = Remainder(read[k], d)
    <3> HIDE DEF news, n
    <3> QED BY <1>6, <2>1 DEF n
  <2> HIDE DEF n, k
  <2> QED BY <2>3, <2>4 DEF n
<1>9. \A n \in Ids \ (ids \cup news) : rows[n] = leaves[n]
  <2> HIDE DEF news
  <2> QED BY <1>6
<1>10. ASSUME NEW n \in Ids
       PROVE  /\ rows[n] \in Row \cup {NoLeave}
              /\ rows[n] \in Row <=> n \in Stored(leaves) \cup news
  <2>1. CASE n \in ids
    <3>1. rows[n] \in Row
      BY <2>1, <1>1, <1>2, <1>4, <1>7, RowsAre, PiecesAreRows
    <3> QED BY <3>1, <2>1, <1>2
  <2>2. CASE n \in news
    <3>1. PICK i \in split : n = NewId(split, i)
      BY <2>2
    <3>2. i \in ids /\ read[i] \in Row
      BY <1>1, <1>2, <1>3, RowsAre
    <3>3. rows[n] \in Row
      BY <3>1, <3>2, <1>2, <1>4, <1>8, PiecesAreRows
    <3> QED BY <3>3, <2>2
  <2>3. CASE n \notin ids \cup news
    <3>1. rows[n] = leaves[n]
      BY <2>3, <1>9
    <3> HIDE DEF news
    <3> QED BY <3>1, <2>3, <1>1, StoredIs DEF Tables
  <2> QED BY <2>1, <2>2, <2>3
<1>11. rows \in Tables
  <2>1. \E f : rows = [n \in Ids |-> f[n]]
    <3>1. rows = [n \in Ids |-> rows[n]]
      BY <1>6
    <3> QED BY <3>1
  <2> QED BY <1>6, <1>10, <2>1 DEF Tables
<1>12. Stored(rows) = Stored(leaves) \cup news
  <2>1. \A n \in Ids : n \in Stored(rows) <=> n \in Stored(leaves) \cup news
    BY <1>10, <1>11, StoredIs
  <2>2. Stored(rows) \subseteq Ids /\ Stored(leaves) \subseteq Ids
    BY DEF Stored
  <2> HIDE DEF news
  <2> QED BY <2>1, <2>2, <1>5
<1> HIDE DEF read
<1> QED BY <1>2, <1>3, <1>4, <1>7, <1>8, <1>9, <1>11, <1>12, Zenon DEF rows, split, CutIs, read

-----------------------------------------------------------------------------
(* Every step keeps the types, the new ids and the reads. *)

LEMMA SubmitShape ==
  ASSUME Shape, NEW c \in Clerks, NEW ask \in Asks, Submit(c, ask)
  PROVE  Shape'
<1> DEFINE days == Unit * Span(ask)
           row == Leave(ask.type, ask.from, ask.to, days, "Pending", TRUE)
           rows == [leaves EXCEPT ![nextId] = row]
<1>1. nextId \in Ids /\ Commit(c, rows)
  BY DEF Submit
<1>2. row \in Row
  <2>1. /\ ask.type \in Types /\ ask.from \in Int /\ ask.to \in Int /\ ask.from <= ask.to
    BY AsksAssumption, DatesAssumption DEF Dates
  <2>2. days \in Nat
    BY <2>1 DEF Span, Unit
  <2>3. "Pending" \in Statuses
    BY DEF Statuses
  <2> HIDE DEF days
  <2> QED BY <2>1, <2>2, <2>3 DEF Leave, Row
<1> HIDE DEF row
<1>3. leaves \in Tables /\ rows \in Tables
  BY <1>2 DEF Shape, Typed, Tables
<1>4. nextId \notin Stored(leaves)
  BY <1>1 DEF Shape, FreshIds, Stored, Typed
<1>5. Stored(rows) = Stored(leaves) \cup {nextId}
  <2>1. \A n \in Ids : n \in Stored(rows) <=> n \in Stored(leaves) \/ n = nextId
    <3> SUFFICES ASSUME NEW n \in Ids
                 PROVE  n \in Stored(rows) <=> n \in Stored(leaves) \/ n = nextId
      OBVIOUS
    <3>1. CASE n = nextId
      <4>1. rows[n] \in Row
        BY <3>1, <1>1, <1>2, <1>3 DEF Tables
      <4> HIDE DEF rows
      <4> QED BY <4>1, <3>1, <1>3, StoredIs
    <3>2. CASE n # nextId
      <4>1. rows[n] = leaves[n]
        BY <3>2, <1>3 DEF Tables
      <4> HIDE DEF rows
      <4> QED BY <4>1, <3>2, <1>3 DEF Stored
    <3> QED BY <3>1, <3>2
  <2>2. Stored(rows) \subseteq Ids /\ Stored(leaves) \subseteq Ids
    BY DEF Stored
  <2> HIDE DEF rows
  <2> QED BY <2>1, <2>2, <1>1
<1> HIDE DEF rows
<1>6. Stored(rows) \ Stored(leaves) = {nextId} /\ Cardinality({nextId}) = 1
  BY <1>4, <1>5, FS_Singleton
<1>7. nextId < nextId + 1
  BY DEF Shape, Typed
<1> QED BY <1>1, <1>3, <1>5, <1>6, <1>7, CommitShape

(* A stored row changes, no row comes or goes. *)
LEMMA StatusShape ==
  ASSUME Shape, NEW c \in Clerks, NEW i \in Stored(leaves), NEW s \in Statuses,
         Commit(c, [leaves EXCEPT ![i].status = s])
  PROVE  Shape'
<1> DEFINE rows == [leaves EXCEPT ![i].status = s]
           row == [leaves[i] EXCEPT !.status = s]
<1>1. leaves \in Tables /\ i \in Ids /\ leaves[i] \in Row
  BY RowsAre DEF Shape, Typed
<1>2. row \in Row
  <2>1. 0 \in Int /\ 0 \in Nat
    OBVIOUS
  <2> QED BY <1>1, <2>1, ChangedRows
<1>3. rows = [leaves EXCEPT ![i] = row]
  OBVIOUS
<1> HIDE DEF row
<1>4. rows \in Tables
  BY <1>1, <1>2, <1>3 DEF Tables
<1>5. \A n \in Ids : n \in Stored(rows) <=> n \in Stored(leaves)
  <2> SUFFICES ASSUME NEW n \in Ids PROVE n \in Stored(rows) <=> n \in Stored(leaves)
    OBVIOUS
  <2>1. CASE n = i
    <3>1. rows[n] \in Row
      BY <2>1, <1>1, <1>2, <1>3 DEF Tables
    <3> HIDE DEF rows
    <3> QED BY <3>1, <2>1, <1>4, StoredIs
  <2>2. CASE n # i
    <3>1. rows[n] = leaves[n]
      BY <2>2, <1>1 DEF Tables
    <3> HIDE DEF rows
    <3> QED BY <3>1 DEF Stored
  <2> QED BY <2>1, <2>2
<1>6. Stored(rows) = Stored(leaves)
  <2>1. Stored(rows) \subseteq Ids /\ Stored(leaves) \subseteq Ids
    BY DEF Stored
  <2> HIDE DEF rows
  <2> QED BY <2>1, <1>5
<1>7. Commit(c, rows)
  OBVIOUS
<1> HIDE DEF rows
<1> QED BY <1>4, <1>6, <1>7, CommitShape

(* A request that is pending among the reads is stored. *)
LEMMA PendingIsStored ==
  ASSUME Shape, NEW c \in Clerks, NEW i \in Ids, Seen(c)[i].status = "Pending"
  PROVE  i \in Stored(Seen(c)) /\ i \in Stored(leaves)
<1>1. Seen(c) \in Tables /\ Stored(Seen(c)) \subseteq Stored(leaves)
  BY SeenTyped
<1>2. NoLeave.status # "Pending"
  BY DEF NoLeave
<1> QED BY <1>1, <1>2 DEF Stored

LEMMA CutShape ==
  ASSUME Shape, NEW c \in Clerks, NEW d \in Dates, NEW ids \in SUBSET Covering(Seen(c), d),
         CanGiveUp(Seen(c), ids, d), Commit(c, Without(Seen(c), ids, d))
  PROVE  Shape'
<1> DEFINE read == Seen(c)
           split == SplitIds(read, ids, d)
           news == {NewId(split, i) : i \in split}
           rows == Without(read, ids, d)
<1>1. /\ split \subseteq ids /\ ids \subseteq Stored(leaves)
      /\ \A i \in split : NewId(split, i) \in Ids
      /\ rows \in Tables /\ Stored(rows) = Stored(leaves) \cup news
  BY WithoutIs, Zenon DEF CutIs
<1>2. split \in SUBSET Ids
  BY <1>1 DEF Stored
<1>3. Commit(c, rows)
  OBVIOUS
<1> HIDE DEF split, rows
<1>4. /\ Cardinality(news) = Cardinality(split) /\ news \cap Stored(leaves) = {}
      /\ \A n \in news : n < nextId + Cardinality(split)
  BY <1>1, <1>2, NewIds, Zenon
<1> HIDE DEF news
<1>5. Stored(rows) \ Stored(leaves) = news
  BY <1>1, <1>4
<1> QED BY <1>1, <1>3, <1>4, <1>5, CommitShape

(* One more row at an unused id. *)
LEMMA OneMoreRow ==
  ASSUME NEW rows \in Tables, NEW n \in Ids, n \notin Stored(rows), NEW row \in Row
  PROVE  LET more == [rows EXCEPT ![n] = row] IN
           more \in Tables /\ Stored(more) = Stored(rows) \cup {n}
<1> DEFINE more == [rows EXCEPT ![n] = row]
<1>1. more \in Tables /\ more[n] = row /\ \A k \in Ids : k # n => more[k] = rows[k]
  BY DEF Tables
<1> HIDE DEF more
<1>2. \A k \in Ids : k \in Stored(more) <=> k \in Stored(rows) \/ k = n
  <2> SUFFICES ASSUME NEW k \in Ids PROVE k \in Stored(more) <=> k \in Stored(rows) \/ k = n
    OBVIOUS
  <2>1. CASE k = n
    BY <2>1, <1>1, StoredIs
  <2>2. CASE k # n
    BY <2>2, <1>1 DEF Stored
  <2> QED BY <2>1, <2>2
<1>3. Stored(more) \subseteq Ids /\ Stored(rows) \subseteq Ids
  BY DEF Stored
<1>4. Stored(more) = Stored(rows) \cup {n}
  BY <1>2, <1>3
<1> QED BY <1>1, <1>4 DEF more

LEMMA DayRowIsRow ==
  ASSUME NEW type \in Types, NEW d \in Dates, NEW days \in Nat
  PROVE  Leave(type, d, d, days, "Approved", FALSE) \in Row
<1>1. d \in Int /\ "Approved" \in Statuses
  BY DatesAssumption DEF Dates, Statuses
<1> QED BY <1>1 DEF Leave, Row

(* What of an edit of a day concerns the invariants. *)
Covered(c, d) ==
  LET covering == Covering(Seen(c), d) IN IF covering = {} THEN {} ELSE {Latest(covering)}
OwnId(c, d) == nextId + Cardinality(SplitIds(Seen(c), Covered(c, d), d))

LEMMA CoveredIs ==
  ASSUME NEW c \in Clerks, NEW d \in Dates
  PROVE  Covered(c, d) \subseteq Covering(Seen(c), d)
<1>1. Covering(Seen(c), d) \in SUBSET Ids
  BY DEF Covering, Stored
<1> QED BY <1>1, LatestIs DEF Covered

LEMMA SaveDayLeaveIs ==
  ASSUME NEW c \in Clerks, NEW d \in Dates, NEW type, NEW days, SaveDayLeave(c, d, type, days)
  PROVE  LET without == Without(Seen(c), Covered(c, d), d) IN
         /\ CanGiveUp(Seen(c), Covered(c, d), d)
         /\ \/ Commit(c, without)
            \/ /\ type # "None" /\ OwnId(c, d) \in Ids
               /\ Commit(c, [without EXCEPT ![OwnId(c, d)] = Leave(type, d, d, days, "Approved", FALSE)])
BY DEF SaveDayLeave, Covered, OwnId

LEMMA OwnIdIs ==
  ASSUME Shape, NEW c \in Clerks, NEW d \in Dates, CanGiveUp(Seen(c), Covered(c, d), d)
  PROVE  LET split == SplitIds(Seen(c), Covered(c, d), d)
             news == {NewId(split, i) : i \in split}
             without == Without(Seen(c), Covered(c, d), d) IN
         /\ without \in Tables /\ Stored(without) = Stored(leaves) \cup news
         /\ IsFiniteSet(news) /\ Cardinality(news) \in Nat /\ OwnId(c, d) = nextId + Cardinality(news)
         /\ news \subseteq Ids /\ news \cap Stored(leaves) = {}
         /\ \A n \in news : n < OwnId(c, d)
         /\ OwnId(c, d) \in Ids => OwnId(c, d) \notin Stored(without)
<1> DEFINE ids == Covered(c, d)
           split == SplitIds(Seen(c), ids, d)
           news == {NewId(split, i) : i \in split}
           without == Without(Seen(c), ids, d)
           own == OwnId(c, d)
<1>1. ids \in SUBSET Covering(Seen(c), d)
  BY CoveredIs
<1>2. /\ split \subseteq ids /\ ids \subseteq Stored(leaves)
      /\ \A i \in split : NewId(split, i) \in Ids
      /\ without \in Tables /\ Stored(without) = Stored(leaves) \cup news
  <2> HIDE DEF ids
  <2>1. CanGiveUp(Seen(c), ids, d)
    BY DEF ids
  <2> QED BY <1>1, <2>1, WithoutIs, Zenon DEF CutIs
<1>3. own = nextId + Cardinality(split)
  BY DEF OwnId
<1>4. split \in SUBSET Ids
  BY <1>2 DEF Stored
<1> HIDE DEF split, without, own
<1>5. /\ IsFiniteSet(news) /\ Cardinality(news) = Cardinality(split) /\ Cardinality(split) \in Nat
      /\ news \subseteq Ids /\ news \cap Stored(leaves) = {}
      /\ \A n \in news : n < nextId + Cardinality(split)
  BY <1>2, <1>4, NewIds, Zenon
<1> HIDE DEF news
<1>6. ASSUME own \in Ids PROVE own \notin Stored(leaves) \cup news
  <2>1. nextId \in Nat /\ own \in Nat
    BY <1>6 DEF Shape, Typed, Ids
  <2>2. nextId <= own
    BY <2>1, <1>3, <1>5
  <2>3. own \notin Stored(leaves)
    BY <1>6, <2>2 DEF Shape, FreshIds, Stored
  <2>4. ~ (own < own)
    BY <2>1
  <2> QED BY <2>3, <2>4, <1>3, <1>5
<1> QED BY <1>2, <1>3, <1>5, <1>6 DEF split, news, without, own, ids

LEMMA OwnRowShape ==
  ASSUME Shape, NEW c \in Clerks, NEW d \in Dates, NEW type \in Types, NEW days \in Nat,
         CanGiveUp(Seen(c), Covered(c, d), d), OwnId(c, d) \in Ids,
         Commit(c, [Without(Seen(c), Covered(c, d), d)
                      EXCEPT ![OwnId(c, d)] = Leave(type, d, d, days, "Approved", FALSE)])
  PROVE  Shape'
<1> DEFINE split == SplitIds(Seen(c), Covered(c, d), d)
           news == {NewId(split, i) : i \in split}
           without == Without(Seen(c), Covered(c, d), d)
           own == OwnId(c, d)
           row == Leave(type, d, d, days, "Approved", FALSE)
           rows == [without EXCEPT ![own] = row]
<1>1. /\ without \in Tables /\ Stored(without) = Stored(leaves) \cup news
      /\ IsFiniteSet(news) /\ Cardinality(news) \in Nat /\ own = nextId + Cardinality(news)
      /\ news \subseteq Ids /\ news \cap Stored(leaves) = {}
      /\ \A n \in news : n < own
      /\ own \in Ids => own \notin Stored(without)
  BY OwnIdIs, Zenon
<1>2. row \in Row
  BY DayRowIsRow
<1>3. Commit(c, rows) /\ own \in Ids
  OBVIOUS
<1> HIDE DEF news, without, own, row
<1>4. rows \in Tables /\ Stored(rows) = Stored(without) \cup {own}
  BY <1>1, <1>2, <1>3, OneMoreRow
<1> HIDE DEF rows
<1>5. Stored(rows) \ Stored(leaves) = news \cup {own} /\ own \notin news
  BY <1>1, <1>3, <1>4
<1>6. Cardinality(news \cup {own}) = Cardinality(news) + 1
  BY <1>1, <1>5, FS_AddElement
<1>7. \A n \in news \cup {own} : n < nextId + Cardinality(news \cup {own})
  <2> SUFFICES ASSUME NEW n \in news \cup {own} PROVE n < nextId + Cardinality(news \cup {own})
    OBVIOUS
  <2>1. n \in Nat /\ nextId \in Nat /\ n <= own
    BY <1>1, <1>3 DEF Ids, Shape, Typed
  <2> QED BY <2>1, <1>1, <1>6
<1> QED BY <1>1, <1>3, <1>4, <1>5, <1>7, CommitShape

LEMMA SaveSILShape ==
  ASSUME Shape, NEW d \in Dates, SaveSIL(d)
  PROVE  /\ Shape' /\ contested' = contested /\ clerk' = clerk
         /\ \E i \in Ids : leaves' = [leaves EXCEPT ![i] = Leave("SIL", d, d, Unit, "Approved", FALSE)]
<1> DEFINE ids == Covering(leaves, d)
           i == IF ids = {} THEN nextId ELSE Latest(ids)
           row == Leave("SIL", d, d, Unit, "Approved", FALSE)
<1>1. /\ i \in Ids /\ leaves' = [leaves EXCEPT ![i] = row] /\ UNCHANGED <<clerk, contested>>
      /\ nextId' = IF ids = {} THEN nextId + 1 ELSE nextId
  BY DEF SaveSIL
<1>2. row \in Row
  <2>1. "SIL" \in Types
    BY TypesAssumption
  <2> QED BY <2>1, DayRowIsRow DEF Unit
<1>3. i \in Stored(leaves) \/ (i = nextId /\ nextId' = nextId + 1)
  <2>1. ids \in SUBSET Ids /\ ids \subseteq Stored(leaves)
    BY DEF Covering, Stored
  <2> HIDE DEF ids
  <2> QED BY <2>1, <1>1, LatestIs
<1>4. nextId' \in Nat \ {0} /\ nextId <= nextId' /\ nextId \in Nat
  BY <1>1 DEF Shape, Typed
<1> HIDE DEF i, row
<1>5. /\ leaves \in Tables /\ leaves' \in Tables
      /\ leaves'[i] = row /\ \A n \in Ids : n # i => leaves'[n] = leaves[n]
  BY <1>1, <1>2 DEF Shape, Typed, Tables
<1>6. Typed'
  BY <1>1, <1>4, <1>5 DEF Shape, Typed
<1>7. FreshIds'
  <2> SUFFICES ASSUME NEW n \in Ids, nextId' <= n PROVE leaves'[n] = NoLeave
    BY DEF FreshIds
  <2>1. n \in Nat /\ nextId <= n
    BY <1>4 DEF Ids
  <2>2. leaves[n] = NoLeave /\ n \notin Stored(leaves)
    BY <2>1 DEF Shape, FreshIds, Stored
  <2>3. n # i
    BY <1>3, <1>4, <2>1, <2>2
  <2> QED BY <1>5, <2>2, <2>3
<1>8. Stored(leaves) \subseteq Stored(leaves')
  <2> SUFFICES ASSUME NEW n \in Ids, n \in Stored(leaves) PROVE n \in Stored(leaves')
    BY DEF Stored
  <2>1. CASE n = i
    BY <2>1, <1>2, <1>5, StoredIs
  <2>2. CASE n # i
    BY <2>2, <1>5 DEF Stored
  <2> QED BY <2>1, <2>2
<1>9. ReadsStay'
  <2> SUFFICES ASSUME NEW c \in Clerks PROVE Stored(Seen(c)') \subseteq Stored(leaves')
    BY DEF ReadsStay, Stored
  <2>1. \/ Seen(c)' = leaves' \/ (clerk'[c] \in ReadType /\ Seen(c)' = clerk'[c].leaves)
    <3>1. Typed' => SeesItsReads'
      BY SeenIs, PTL
    <3> QED BY <3>1, <1>6 DEF SeesItsReads
  <2>2. CASE clerk'[c] \in ReadType /\ Seen(c)' = clerk'[c].leaves
    <3>1. Idle \notin ReadType
      BY DEF Idle, ReadType
    <3>2. clerk[c] \in ReadType /\ clerk[c] # Idle /\ clerk'[c] = clerk[c]
      BY <2>2, <3>1, <1>1
    <3>3. Seen(c) = clerk[c].leaves
      BY <3>2, SeenIs DEF Shape, SeesItsReads
    <3>4. Stored(Seen(c)) \subseteq Stored(leaves)
      BY DEF Shape, ReadsStay
    <3> QED BY <3>2, <3>3, <3>4, <2>2, <1>8
  <2> QED BY <2>1, <2>2
<1> QED BY <1>1, <1>6, <1>7, <1>9 DEF Shape, row

-----------------------------------------------------------------------------
(* The properties of any rows and any dates written by handlers with stale reads. *)
Marked(rows, marks, i) == DatesOf(rows, i) \subseteq marks
AskedOf(rows, marks, type) ==
  {i \in CountedIds(rows) : rows[i].type = type /\ rows[i].asked /\ ~Marked(rows, marks, i)}
WithinCredits(rows, marks) ==
  \A type \in PaidTypes : Total(rows, AskedOf(rows, marks, type)) <= Credits[type]
WholeDays(rows, marks) ==
  \A i \in Stored(rows) :
    Span(rows[i]) > 1 /\ ~Marked(rows, marks, i) => rows[i].days = Unit * Span(rows[i])

LEMMA OfTheLeaves ==
  /\ AskedWithinCredits <=> WithinCredits(leaves, contested)
  /\ DaysMatchSpan <=> WholeDays(leaves, contested)
<1>1. \A type : AskedFor(type) = AskedOf(leaves, contested, type)
  BY Zenon DEF AskedFor, AskedOf, Contested, Marked
<1>2. DaysMatchSpan <=> WholeDays(leaves, contested)
  BY Zenon DEF DaysMatchSpan, WholeDays, Contested, Marked
<1> QED BY <1>1, <1>2, Zenon DEF AskedWithinCredits, WithinCredits

LEMMA AskedAreStored ==
  ASSUME NEW rows \in Tables, NEW marks, NEW type
  PROVE  /\ AskedOf(rows, marks, type) \in SUBSET Stored(rows) /\ AskedOf(rows, marks, type) \subseteq Ids
         /\ IsFiniteSet(AskedOf(rows, marks, type))
<1>1. AskedOf(rows, marks, type) \subseteq Stored(rows) /\ Stored(rows) \subseteq Ids
  BY DEF AskedOf, CountedIds, Stored
<1> QED BY <1>1, IdsAreFinite

(* Nothing was added to what the employee asked for. *)
LEMMA NothingAdded ==
  ASSUME NEW old \in Tables, NEW new \in Tables, NEW was, NEW marks, NEW type \in PaidTypes,
         Total(old, AskedOf(old, was, type)) <= Credits[type],
         \A n \in AskedOf(new, marks, type) :
           n \in AskedOf(old, was, type) /\ new[n].days <= old[n].days
  PROVE  Total(new, AskedOf(new, marks, type)) <= Credits[type]
<1> DEFINE S == AskedOf(new, marks, type)
           T == AskedOf(old, was, type)
           f == [i \in S |-> new[i].days]
           g == [i \in T |-> old[i].days]
<1>1. /\ S \in SUBSET Stored(new) /\ T \in SUBSET Stored(old) /\ IsFiniteSet(T)
  BY AskedAreStored
<1>2. /\ \A i \in S : new[i].days \in Nat /\ i \in T /\ new[i].days <= old[i].days
      /\ \A i \in T : old[i].days \in Nat
  BY <1>1, RowsAre
<1> HIDE DEF S, T
<1>3. \A i \in S : f[i] \in Nat /\ f[i] <= g[i]
  BY <1>2
<1>4. \A i \in T : g[i] \in Nat
  BY <1>2
<1>5. S \in SUBSET T
  BY <1>2
<1>6. Total(new, S) = Tally(f, S) /\ Total(old, T) = Tally(g, T) /\ Total(new, S) \in Nat /\ Total(old, T) \in Nat
  BY <1>1, TotalIsTally
<1> HIDE DEF f, g
<1>7. Tally(f, S) <= Tally(g, T)
  BY <1>1, <1>3, <1>4, <1>5, TallyGrows
<1>8. Credits[type] \in Nat /\ Total(old, T) <= Credits[type]
  BY TypesAssumption DEF T
<1> QED BY <1>6, <1>7, <1>8 DEF S

(* A handler with stale reads leaves only marked rows and rows as they were. *)
LEMMA StaleCommit ==
  ASSUME Shape, NEW c \in Clerks, NEW rows \in Tables, Commit(c, rows), Seen(c) # leaves
  PROVE  \A n \in Ids : \/ Marked(rows, contested', n)
                        \/ rows[n] = leaves[n] /\ ~Marked(leaves, contested, n)
<1> SUFFICES ASSUME NEW n \in Ids, rows[n] # leaves[n] \/ Marked(leaves, contested, n)
             PROVE  Marked(rows, contested', n)
  OBVIOUS
<1> DEFINE written == {DatesOf(rows, i) \cup DatesOf(leaves, i) : i \in {j \in Ids : rows[j] # leaves[j]}}
<1>1. contested' = contested \cup UNION written
  BY DEF Commit
<1>2. CASE rows[n] # leaves[n]
  <2>1. DatesOf(rows, n) \cup DatesOf(leaves, n) \in written
    BY <1>2
  <2> HIDE DEF written
  <2> QED BY <1>1, <2>1 DEF Marked
<1>3. CASE rows[n] = leaves[n] /\ Marked(leaves, contested, n)
  BY <1>1, <1>3 DEF Marked, DatesOf
<1> QED BY <1>2, <1>3

LEMMA StaleCommitKeeps ==
  ASSUME Shape, NEW c \in Clerks, NEW rows \in Tables, Commit(c, rows), Seen(c) # leaves,
         WithinCredits(leaves, contested), WholeDays(leaves, contested)
  PROVE  WithinCredits(rows, contested') /\ WholeDays(rows, contested')
<1>1. leaves \in Tables
  BY DEF Shape, Typed
<1>2. \A n \in Ids : ~Marked(rows, contested', n) => rows[n] = leaves[n] /\ ~Marked(leaves, contested, n)
  BY StaleCommit
<1>3. WithinCredits(rows, contested')
  <2> SUFFICES ASSUME NEW type \in PaidTypes
               PROVE  Total(rows, AskedOf(rows, contested', type)) <= Credits[type]
    BY DEF WithinCredits
  <2>1. ASSUME NEW n \in AskedOf(rows, contested', type)
        PROVE  n \in AskedOf(leaves, contested, type) /\ rows[n].days <= leaves[n].days
    <3>1. n \in Ids /\ n \in Stored(rows) /\ ~Marked(rows, contested', n)
      BY DEF AskedOf, CountedIds, Stored
    <3>2. rows[n] = leaves[n] /\ ~Marked(leaves, contested, n)
      BY <3>1, <1>2
    <3>3. rows[n].days \in Nat
      BY <3>1, RowsAre
    <3>4. n \in AskedOf(leaves, contested, type)
      BY <2>1, <3>1, <3>2, Zenon DEF AskedOf, CountedIds, Stored
    <3> QED BY <3>2, <3>3, <3>4
  <2>2. Total(leaves, AskedOf(leaves, contested, type)) <= Credits[type]
    BY DEF WithinCredits
  <2> QED BY <1>1, <2>1, <2>2, NothingAdded
<1>4. WholeDays(rows, contested')
  BY <1>2, Zenon DEF WholeDays, Stored
<1> QED BY <1>3, <1>4

(* Handlers with fresh reads. *)

LEMMA StatusKeeps ==
  ASSUME NEW old \in Tables, NEW marks, NEW i \in Stored(old), NEW s \in Statuses,
         old[i].status \in Counted, WithinCredits(old, marks), WholeDays(old, marks)
  PROVE  LET new == [old EXCEPT ![i].status = s] IN WithinCredits(new, marks) /\ WholeDays(new, marks)
<1> DEFINE row == [old[i] EXCEPT !.status = s]
           new == [old EXCEPT ![i].status = s]
<1>1. i \in Ids /\ old[i] \in Row
  BY RowsAre
<1>2. row \in Row
  <2>1. 0 \in Int /\ 0 \in Nat
    OBVIOUS
  <2> QED BY <1>1, <2>1, ChangedRows
<1>3. /\ row.type = old[i].type /\ row.from = old[i].from /\ row.to = old[i].to
      /\ row.days = old[i].days /\ row.asked = old[i].asked
  <2>1. old[i] = [old[i] EXCEPT !.status = old[i].status]
    BY <1>1, Zenon DEF Row
  <2> QED BY <1>1, Zenon DEF Row
<1> HIDE DEF row
<1>4. new \in Tables /\ new[i] = row /\ \A n \in Ids : n # i => new[n] = old[n]
  <2>1. new = [old EXCEPT ![i] = row]
    BY DEF row
  <2> HIDE DEF new
  <2> QED BY <1>1, <1>2, <2>1 DEF Tables
<1> HIDE DEF new
<1>5. \A n \in Ids : DatesOf(new, n) = DatesOf(old, n)
  <2>1. DatesOf(new, i) = DatesOf(old, i)
    <3>1. i \in Stored(new)
      BY <1>1, <1>2, <1>4, StoredIs
    <3>2. new[i] # NoLeave /\ old[i] # NoLeave
      BY <3>1 DEF Stored
    <3> QED BY <3>2, <1>3, <1>4 DEF DatesOf
  <2> QED BY <1>4, <2>1 DEF DatesOf
<1>6. ASSUME NEW type \in PaidTypes
      PROVE  Total(new, AskedOf(new, marks, type)) <= Credits[type]
  <2>1. ASSUME NEW n \in AskedOf(new, marks, type)
        PROVE  n \in AskedOf(old, marks, type) /\ new[n].days <= old[n].days
    <3>1. n \in Ids /\ n \in Stored(new) /\ ~Marked(new, marks, n)
      BY DEF AskedOf, CountedIds, Stored
    <3>2. ~Marked(old, marks, n)
      BY <3>1, <1>5 DEF Marked
    <3>3. new[n].days \in Nat
      BY <3>1, <1>4, RowsAre
    <3>4. CASE n = i
      <4>1. n \in AskedOf(old, marks, type)
        BY <2>1, <3>2, <3>4, <1>3, <1>4, Zenon DEF AskedOf, CountedIds
      <4> QED BY <4>1, <3>3, <3>4, <1>3, <1>4
    <3>5. CASE n # i
      <4>0. new[n] = old[n]
        BY <3>1, <3>5, <1>4
      <4>1. n \in AskedOf(old, marks, type)
        BY <2>1, <3>1, <3>2, <4>0, Zenon DEF AskedOf, CountedIds, Stored
      <4> QED BY <4>0, <4>1, <3>3
    <3> QED BY <3>4, <3>5
  <2>2. Total(old, AskedOf(old, marks, type)) <= Credits[type]
    BY DEF WithinCredits
  <2> QED BY <1>4, <2>1, <2>2, NothingAdded
<1>7. ASSUME NEW n \in Stored(new), Span(new[n]) > 1, ~Marked(new, marks, n)
      PROVE  new[n].days = Unit * Span(new[n])
  <2>1. n \in Ids /\ ~Marked(old, marks, n)
    BY <1>5, <1>7 DEF Stored, Marked
  <2>2. CASE n = i
    <3>1. Span(new[n]) = Span(old[n])
      BY <2>2, <1>3, <1>4 DEF Span
    <3>2. old[n].days = Unit * Span(old[n])
      BY <2>1, <2>2, <3>1, <1>7 DEF WholeDays
    <3> QED BY <3>1, <3>2, <2>2, <1>3, <1>4
  <2>3. CASE n # i
    BY <2>1, <2>3, <1>4, <1>7 DEF WholeDays, Stored
  <2> QED BY <2>2, <2>3
<1> QED BY <1>6, <1>7 DEF WithinCredits, WholeDays, new

(* A row that the employee did not ask for, of one day. *)
LEMMA DayRowKeeps ==
  ASSUME NEW old \in Tables, NEW marks, NEW i \in Ids, NEW type \in Types, NEW d \in Dates,
         NEW days \in Nat, WithinCredits(old, marks), WholeDays(old, marks)
  PROVE  LET new == [old EXCEPT ![i] = Leave(type, d, d, days, "Approved", FALSE)] IN
           WithinCredits(new, marks) /\ WholeDays(new, marks)
<1> DEFINE row == Leave(type, d, d, days, "Approved", FALSE)
           new == [old EXCEPT ![i] = row]
<1>1. row \in Row
  BY DayRowIsRow
<1>2. ~row.asked /\ Span(row) = 1
  <2>1. row.asked = FALSE
    BY DEF Leave
  <2>2. d \in Int
    BY DatesAssumption DEF Dates
  <2>3. row.from = d /\ row.to = d
    BY DEF Leave
  <2> HIDE DEF row
  <2>4. Span(row) = 1
    BY <2>2, <2>3 DEF Span
  <2> QED BY <2>1, <2>4, Zenon
<1> HIDE DEF row
<1>4. new \in Tables /\ new[i] = row /\ \A n \in Ids : n # i => new[n] = old[n]
  BY <1>1 DEF Tables
<1> HIDE DEF new
<1>6. ASSUME NEW t \in PaidTypes
      PROVE  Total(new, AskedOf(new, marks, t)) <= Credits[t]
  <2>1. ASSUME NEW n \in AskedOf(new, marks, t)
        PROVE  n \in AskedOf(old, marks, t) /\ new[n].days <= old[n].days
    <3>1. n \in Ids /\ n \in Stored(new) /\ ~Marked(new, marks, n)
      BY DEF AskedOf, CountedIds, Stored
    <3>2. new[n].asked
      BY Zenon DEF AskedOf
    <3>3. n # i
      BY <3>2, <1>2, <1>4, Zenon
    <3>4. new[n] = old[n]
      BY <3>1, <3>3, <1>4
    <3>5. new[n].days \in Nat
      BY <3>1, <1>4, RowsAre
    <3>6. ~Marked(old, marks, n)
      BY <3>1, <3>4 DEF Marked, DatesOf
    <3>7. n \in AskedOf(old, marks, t)
      BY <2>1, <3>1, <3>4, <3>6, Zenon DEF AskedOf, CountedIds, Stored
    <3> QED BY <3>4, <3>5, <3>7
  <2>2. Total(old, AskedOf(old, marks, t)) <= Credits[t]
    BY DEF WithinCredits
  <2> QED BY <1>4, <2>1, <2>2, NothingAdded
<1>7. ASSUME NEW n \in Stored(new), Span(new[n]) > 1, ~Marked(new, marks, n)
      PROVE  new[n].days = Unit * Span(new[n])
  <2>1. n # i /\ n \in Ids
    BY <1>2, <1>4, <1>7 DEF Stored
  <2>2. new[n] = old[n] /\ ~Marked(old, marks, n)
    BY <2>1, <1>4, <1>7 DEF Marked, DatesOf
  <2> QED BY <2>1, <2>2, <1>7 DEF WholeDays, Stored
<1> QED BY <1>6, <1>7 DEF WithinCredits, WholeDays, new, row

(* A request is within what is left of its credits. *)
LEMMA SubmitKeeps ==
  ASSUME NEW old \in Tables, NEW marks, NEW i \in Ids, i \notin Stored(old), NEW ask \in Asks,
         ask.type \in PaidTypes => Unit * Span(ask) <= Credits[ask.type] - UsedOf(old, ask.type),
         WithinCredits(old, marks), WholeDays(old, marks)
  PROVE  LET new == [old EXCEPT ![i] = Leave(ask.type, ask.from, ask.to, Unit * Span(ask), "Pending", TRUE)]
         IN WithinCredits(new, marks) /\ WholeDays(new, marks)
<1> DEFINE days == Unit * Span(ask)
           row == Leave(ask.type, ask.from, ask.to, days, "Pending", TRUE)
           new == [old EXCEPT ![i] = row]
<1>0. /\ ask.type \in Types /\ ask.from \in Int /\ ask.to \in Int /\ ask.from <= ask.to
  BY AsksAssumption, DatesAssumption DEF Dates
<1>1. days \in Nat
  BY <1>0 DEF Span, Unit
<1>2. /\ row.type = ask.type /\ row.days = days /\ row.from = ask.from /\ row.to = ask.to
  BY DEF Leave
<1>3. row \in Row
  <2>3. "Pending" \in Statuses
    BY DEF Statuses
  <2> HIDE DEF days
  <2> QED BY <1>0, <1>1, <2>3 DEF Leave, Row
<1>4. row.days = Unit * Span(row)
  BY <1>2 DEF Span
<1> HIDE DEF row
<1>5. new \in Tables /\ new[i] = row /\ \A n \in Ids : n # i => new[n] = old[n]
  BY <1>3 DEF Tables
<1> HIDE DEF new
<1>6. ASSUME NEW t \in PaidTypes
      PROVE  Total(new, AskedOf(new, marks, t)) <= Credits[t]
  <2>1. ASSUME NEW n \in AskedOf(new, marks, t), n # i
        PROVE  n \in AskedOf(old, marks, t) /\ new[n] = old[n] /\ new[n].days \in Nat
    <3>1. n \in Ids /\ n \in Stored(new) /\ ~Marked(new, marks, n)
      BY DEF AskedOf, CountedIds, Stored
    <3>4. new[n] = old[n]
      BY <3>1, <2>1, <1>5
    <3>5. new[n].days \in Nat
      BY <3>1, <1>5, RowsAre
    <3>6. ~Marked(old, marks, n)
      BY <3>1, <3>4 DEF Marked, DatesOf
    <3>7. n \in AskedOf(old, marks, t)
      BY <2>1, <3>1, <3>4, <3>6, Zenon DEF AskedOf, CountedIds, Stored
    <3> QED BY <3>4, <3>5, <3>7
  <2>2. Total(old, AskedOf(old, marks, t)) <= Credits[t]
    BY DEF WithinCredits
  <2>3. CASE i \notin AskedOf(new, marks, t)
    <3>1. \A n \in AskedOf(new, marks, t) : n \in AskedOf(old, marks, t) /\ new[n].days <= old[n].days
      BY <2>1, <2>3
    <3> QED BY <1>5, <2>2, <3>1, NothingAdded
  <2>4. CASE i \in AskedOf(new, marks, t)
    <3> DEFINE S == AskedOf(new, marks, t) \ {i}
               T == {n \in CountedIds(old) : old[n].type = t}
               f == [n \in S \cup {i} |-> new[n].days]
               f1 == [n \in S |-> new[n].days]
               g == [n \in T |-> old[n].days]
    <3>1. ask.type = t
      BY <2>4, <1>2, <1>5 DEF AskedOf
    <3>2. T \in SUBSET Stored(old) /\ T \subseteq Ids /\ IsFiniteSet(T)
      <4>1. T \subseteq Stored(old) /\ Stored(old) \subseteq Ids
        BY DEF CountedIds, Stored
      <4> QED BY <4>1, IdsAreFinite
    <3>3. \A n \in S : n \in T /\ new[n] = old[n] /\ new[n].days \in Nat /\ n # i
      BY <2>1 DEF AskedOf
    <3>4. AskedOf(new, marks, t) = S \cup {i} /\ S \cup {i} \in SUBSET Stored(new) /\ S \in SUBSET Stored(new)
      BY <2>4, <1>5, AskedAreStored
    <3>5. IsFiniteSet(S) /\ i \notin S
      <4>1. S \subseteq Ids
        BY AskedAreStored, <1>5
      <4> QED BY <4>1, IdsAreFinite
    <3>6. \A n \in T : old[n].days \in Nat
      BY <3>2, RowsAre
    <3>7. new[i].days = days
      BY <1>2, <1>5
    <3>8. Total(old, T) <= Credits[t] - days
      <4>1. UsedOf(old, t) = Total(old, T)
        BY DEF UsedOf
      <4>2. Total(old, T) \in Nat
        BY <3>2, TotalIsTally
      <4>4. Credits[t] \in Nat
        BY TypesAssumption
      <4>3. days <= Credits[t] - UsedOf(old, t)
        BY <3>1
      <4> HIDE DEF T, days
      <4> QED BY <4>1, <4>2, <4>3, <4>4, <1>1
    <3> HIDE DEF S, T, days
    <3>9. Total(new, S \cup {i}) = Tally(f, S \cup {i})
      BY <1>5, <3>4, TotalIsTally
    <3>10. Total(old, T) = Tally(g, T) /\ Total(old, T) \in Nat
      BY <3>2, TotalIsTally
    <3>11. /\ \A n \in S \cup {i} : f[n] \in Nat
           /\ f[i] = days /\ \A n \in S : f[n] = f1[n] /\ f1[n] \in Nat
      BY <3>3, <3>7, <1>1
    <3>12. (\A n \in T : g[n] \in Nat) /\ \A n \in S : f1[n] \in Nat /\ f1[n] <= g[n]
      BY <3>3, <3>6
    <3>13. S \in SUBSET T
      BY <3>3
    <3> HIDE DEF f, f1, g
    <3>14. Tally(f, S \cup {i}) = Tally(f, S) + f[i]
      BY <3>5, <3>11, TallyOfOneMore
    <3>15. Tally(f, S) = Tally(f1, S)
      BY <3>11, TallyOfSame
    <3>16. Tally(f1, S) <= Tally(g, T)
      BY <3>2, <3>12, <3>13, TallyGrows
    <3>17. Tally(f1, S) \in Nat
      BY <3>5, <3>12, UnitsAreFinite
    <3>18. Credits[t] \in Nat
      BY TypesAssumption
    <3> QED BY <3>4, <3>8, <3>9, <3>10, <3>11, <3>14, <3>15, <3>16, <3>17, <3>18, <1>1
  <2> QED BY <2>3, <2>4
<1>7. ASSUME NEW n \in Stored(new), Span(new[n]) > 1, ~Marked(new, marks, n)
      PROVE  new[n].days = Unit * Span(new[n])
  <2>1. n \in Ids
    BY DEF Stored
  <2>2. CASE n = i
    BY <2>2, <1>4, <1>5
  <2>3. CASE n # i
    <3>1. new[n] = old[n] /\ ~Marked(old, marks, n)
      BY <2>1, <2>3, <1>5, <1>7 DEF Marked, DatesOf
    <3> QED BY <2>1, <3>1, <1>7 DEF WholeDays, Stored
  <2> QED BY <2>2, <2>3
<1> QED BY <1>6, <1>7 DEF WithinCredits, WholeDays, new, row

(* The pieces of leave that is counted in whole days are counted in whole days, and *)
(* are together one day less.                                                       *)
LEMMA PiecesAreWhole ==
  ASSUME NEW row \in Row, NEW d \in Dates, Covers(row, d), Divisible(row)
  PROVE  LET left == Shrunk(row, row, d)
             right == Remainder(row, d) IN
         /\ Span(row) = 1 => left.status = "Cancelled" /\ left.from = row.from /\ left.to = row.to
         /\ Span(row) # 1 =>
              /\ left.status = row.status /\ left.type = row.type /\ left.asked = row.asked
              /\ row.from <= left.from /\ left.to <= row.to
              /\ left.days <= row.days /\ left.days = Unit * Span(left)
         /\ right.status = row.status /\ right.type = row.type /\ right.asked = row.asked
         /\ row.from <= right.from /\ right.to = row.to /\ right.days = Unit * Span(right)
         /\ Splits(row, d) =>
              /\ Span(row) # 1 /\ left.days = Unit * (d - row.from) /\ Unit * (d - row.from) \in Nat
              /\ Unit * (d - row.from) + right.days <= row.days
<1> DEFINE left == Shrunk(row, row, d)
           right == Remainder(row, d)
<1>1. /\ row.from \in Int /\ row.to \in Int /\ row.days \in Nat /\ d \in Int
      /\ row.from <= d /\ d <= row.to
  BY DatesAssumption DEF Row, Covers, Dates
<1>2. /\ right.status = row.status /\ right.type = row.type /\ right.asked = row.asked
      /\ right.from = d + 1 /\ right.to = row.to /\ right.days = Unit * (row.to - d)
  BY Zenon DEF Remainder, Leave
<1>3. row.from <= right.from /\ right.days = Unit * Span(right)
  <2> HIDE DEF right
  <2> QED BY <1>1, <1>2 DEF Span, Unit
<1>4. CASE Span(row) = 1
  <2>1. left = [row EXCEPT !.status = "Cancelled"]
    BY <1>4 DEF Shrunk
  <2>2. left.status = "Cancelled" /\ left.from = row.from /\ left.to = row.to
    BY <2>1, Zenon DEF Row
  <2>3. ~Splits(row, d)
    BY <1>1, <1>4 DEF Splits, Span
  <2> HIDE DEF left, right
  <2> QED BY <1>2, <1>3, <1>4, <2>2, <2>3 DEF left, right
<1>5. CASE Span(row) # 1
  <2>1. row.days = Unit * Span(row)
    BY <1>5 DEF Divisible
  <2>2. CASE d = row.from
    <3>1. left = [row EXCEPT !.from = d + 1, !.days = row.days - Unit]
      BY <1>5, <2>2 DEF Shrunk
    <3>2. /\ left.status = row.status /\ left.type = row.type /\ left.asked = row.asked
          /\ left.from = d + 1 /\ left.to = row.to /\ left.days = row.days - Unit
      BY <3>1, Zenon DEF Row
    <3> HIDE DEF left, right
    <3>3. row.from <= left.from /\ left.to <= row.to /\ left.days <= row.days /\ left.days = Unit * Span(left)
      BY <1>1, <2>1, <2>2, <3>2 DEF Span, Unit
    <3>4. ~Splits(row, d)
      BY <1>1, <2>2 DEF Splits
    <3> QED BY <1>2, <1>3, <1>5, <3>2, <3>3, <3>4, Zenon DEF left, right
  <2>3. CASE d # row.from /\ d = row.to
    <3>1. left = [row EXCEPT !.to = d - 1, !.days = row.days - Unit]
      BY <1>5, <2>3 DEF Shrunk
    <3>2. /\ left.status = row.status /\ left.type = row.type /\ left.asked = row.asked
          /\ left.from = row.from /\ left.to = d - 1 /\ left.days = row.days - Unit
      BY <3>1, Zenon DEF Row
    <3> HIDE DEF left, right
    <3>3. row.from <= left.from /\ left.to <= row.to /\ left.days <= row.days /\ left.days = Unit * Span(left)
      BY <1>1, <2>1, <2>3, <3>2 DEF Span, Unit
    <3>4. ~Splits(row, d)
      BY <1>1, <2>3 DEF Splits
    <3> QED BY <1>2, <1>3, <1>5, <3>2, <3>3, <3>4, Zenon DEF left, right
  <2>4. CASE d # row.from /\ d # row.to
    <3>1. left = [row EXCEPT !.to = d - 1, !.days = Unit * (d - row.from)]
      BY <1>5, <2>4 DEF Shrunk
    <3>2. /\ left.status = row.status /\ left.type = row.type /\ left.asked = row.asked
          /\ left.from = row.from /\ left.to = d - 1 /\ left.days = Unit * (d - row.from)
      BY <3>1, Zenon DEF Row
    <3> HIDE DEF left, right
    <3>3. /\ row.from <= left.from /\ left.to <= row.to /\ left.days <= row.days
          /\ left.days = Unit * Span(left) /\ Unit * (d - row.from) \in Nat
          /\ Unit * (d - row.from) + right.days <= row.days
      BY <1>1, <1>2, <2>1, <2>4, <3>2 DEF Span, Unit
    <3> QED BY <1>2, <1>3, <1>5, <3>2, <3>3, Zenon DEF left, right
  <2> QED BY <2>2, <2>3, <2>4
<1> QED BY <1>4, <1>5

LEMMA LeftIsWhole ==
  ASSUME NEW row \in Row, NEW d \in Dates, Covers(row, d), Divisible(row), Span(row) # 1,
         NEW left, left = Shrunk(row, row, d)
  PROVE  /\ left.status = row.status /\ left.type = row.type /\ left.asked = row.asked
         /\ row.from <= left.from /\ left.to <= row.to
         /\ left.days <= row.days /\ left.days = Unit * Span(left)
BY PiecesAreWhole, Zenon

LEMMA RightIsWhole ==
  ASSUME NEW row \in Row, NEW d \in Dates, Covers(row, d), Divisible(row), Splits(row, d),
         NEW right, right = Remainder(row, d)
  PROVE  /\ right.status = row.status /\ right.type = row.type /\ right.asked = row.asked
         /\ row.from <= right.from /\ right.to = row.to
         /\ Unit * (d - row.from) \in Nat
         /\ Unit * (d - row.from) + right.days <= row.days
BY PiecesAreWhole, Zenon

(* A date is cut out of leave with fresh reads. *)
LEMMA CutKeeps ==
  ASSUME Shape, NEW c \in Clerks, Seen(c) = leaves, NEW d \in Dates,
         NEW ids \in SUBSET Covering(leaves, d), CanGiveUp(leaves, ids, d), NEW marks,
         WithinCredits(leaves, marks), WholeDays(leaves, marks)
  PROVE  WithinCredits(Without(leaves, ids, d), marks) /\ WholeDays(Without(leaves, ids, d), marks)
<1> DEFINE split == SplitIds(leaves, ids, d)
           news == {NewId(split, i) : i \in split}
           new == Without(leaves, ids, d)
           origin == [n \in Ids |-> IF n \in news THEN CHOOSE i \in split : NewId(split, i) = n ELSE n]
           skip == [n \in Ids |-> IF n \in news THEN Unit * (d - leaves[origin[n]].from) ELSE 0]
<1>1. /\ ids \subseteq Stored(leaves) /\ split \subseteq ids
      /\ \A i \in split : NewId(split, i) \in Ids
      /\ \A i \in ids : Covers(leaves[i], d) /\ Divisible(leaves[i])
      /\ \A n \in ids : new[n] = Shrunk(leaves[n], leaves[n], d)
      /\ \A i \in split : new[NewId(split, i)] = Remainder(leaves[i], d)
      /\ \A n \in Ids \ (ids \cup news) : new[n] = leaves[n]
      /\ new \in Tables /\ Stored(new) = Stored(leaves) \cup news
  <2>1. CutIs(leaves, ids, d)
    BY WithoutIs
  <2> QED BY <2>1, Zenon DEF CutIs
<1>2. /\ leaves \in Tables /\ ids \subseteq Ids /\ split \in SUBSET Ids
      /\ \A i \in ids : leaves[i] \in Row
  BY <1>1, RowsAre DEF Shape, Typed, Stored
<1>3. \A i \in split : Splits(leaves[i], d)
  BY DEF SplitIds
<1> HIDE DEF split, new
<1>4. /\ news \subseteq Ids /\ news \cap Stored(leaves) = {}
      /\ \A i, j \in split : NewId(split, i) = NewId(split, j) => i = j
  BY <1>1, <1>2, NewIds, Zenon
<1>5. ASSUME NEW n \in news
      PROVE  /\ n \in Ids /\ n \notin ids
             /\ origin[n] \in split /\ NewId(split, origin[n]) = n
             /\ new[n] = Remainder(leaves[origin[n]], d)
             /\ skip[n] = Unit * (d - leaves[origin[n]].from)
  <2>1. n \in Ids /\ n \notin ids
    BY <1>1, <1>4
  <2>2. \E i \in split : NewId(split, i) = n
    OBVIOUS
  <2> HIDE DEF news
  <2>3. /\ origin[n] = CHOOSE i \in split : NewId(split, i) = n
        /\ skip[n] = Unit * (d - leaves[origin[n]].from)
    BY <2>1
  <2> HIDE DEF origin, skip
  <2>4. origin[n] \in split /\ NewId(split, origin[n]) = n
    BY <2>2, <2>3
  <2> QED BY <1>1, <2>1, <2>3, <2>4
<1>6. \A n \in Ids \ news : origin[n] = n /\ skip[n] = 0
  <2> HIDE DEF news
  <2> QED OBVIOUS
<1> HIDE DEF news, origin, skip
\* A row that counts is a piece of one that counted.
<1>7. ASSUME NEW type \in PaidTypes, NEW n \in AskedOf(new, marks, type)
      PROVE  /\ origin[n] \in AskedOf(leaves, marks, type) /\ skip[n] \in Nat
             /\ new[n].days \in Nat /\ skip[n] + new[n].days <= leaves[origin[n]].days
             /\ n \in ids => Span(leaves[n]) # 1
  <2>1. /\ n \in Ids /\ n \in Stored(new) /\ ~Marked(new, marks, n)
        /\ new[n].status \in Counted /\ new[n].type = type /\ new[n].asked
    BY Zenon DEF AskedOf, CountedIds, Stored
  <2>2. new[n].days \in Nat
    BY <1>1, <2>1, RowsAre
  <2>3. CASE n \in ids
    <3>1. Covers(leaves[n], d) /\ Divisible(leaves[n]) /\ leaves[n] \in Row
      BY <1>1, <1>2, <2>3
    <3>2. new[n] = Shrunk(leaves[n], leaves[n], d)
      BY <1>1, <2>3
    <3>3. Span(leaves[n]) # 1
      <4>1. "Cancelled" \notin Counted
        BY DEF Counted
      <4>2. Span(leaves[n]) = 1 => new[n].status = "Cancelled"
        BY <3>1, <3>2, PiecesAreWhole
      <4> QED BY <2>1, <4>1, <4>2
    <3>4. /\ new[n].status = leaves[n].status /\ new[n].type = leaves[n].type
          /\ new[n].asked = leaves[n].asked
          /\ leaves[n].from <= new[n].from /\ new[n].to <= leaves[n].to
          /\ new[n].days <= leaves[n].days
      <4> DEFINE old == leaves[n]
                 left == new[n]
      <4>1. /\ old \in Row /\ Covers(old, d) /\ Divisible(old) /\ Span(old) # 1
            /\ left = Shrunk(old, old, d)
        BY <3>1, <3>2, <3>3
      <4> HIDE DEF old, left
      <4>2. /\ left.status = old.status /\ left.type = old.type /\ left.asked = old.asked
            /\ old.from <= left.from /\ left.to <= old.to /\ left.days <= old.days
        BY <4>1, LeftIsWhole, ZenonT(60)
      <4> QED BY <4>2 DEF old, left
    <3>5. origin[n] = n /\ skip[n] = 0
      BY <1>5, <1>6, <2>1, <2>3
    <3>6. ~Marked(leaves, marks, n)
      <4>1. leaves[n] # NoLeave /\ new[n] # NoLeave
        BY <1>1, <2>1, <2>3 DEF Stored
      <4>2. /\ leaves[n].from \in Int /\ leaves[n].to \in Int /\ new[n].from \in Int /\ new[n].to \in Int
        BY <1>1, <1>2, <2>1, <2>3, RowsAre
      <4>3. DatesOf(new, n) \subseteq DatesOf(leaves, n)
        BY <3>4, <4>1, <4>2 DEF DatesOf
      <4> QED BY <2>1, <4>3 DEF Marked
    <3>7. n \in AskedOf(leaves, marks, type)
      BY <1>1, <2>1, <2>3, <3>4, <3>6, Zenon DEF AskedOf, CountedIds
    <3> QED BY <2>2, <3>3, <3>4, <3>5, <3>7
  <2>4. CASE n \in news
    <3> DEFINE o == origin[n]
    <3>1. /\ n \notin ids /\ o \in split /\ new[n] = Remainder(leaves[o], d)
          /\ skip[n] = Unit * (d - leaves[o].from)
      BY <1>5, <2>4
    <3> HIDE DEF o
    <3>2. /\ Covers(leaves[o], d) /\ Divisible(leaves[o]) /\ leaves[o] \in Row /\ Splits(leaves[o], d)
          /\ o \in Stored(leaves) /\ o \in Ids
      BY <1>1, <1>2, <1>3, <3>1
    <3>3. /\ new[n].status = leaves[o].status /\ new[n].type = leaves[o].type
          /\ new[n].asked = leaves[o].asked
          /\ leaves[o].from <= new[n].from /\ new[n].to = leaves[o].to
          /\ Unit * (d - leaves[o].from) \in Nat
          /\ Unit * (d - leaves[o].from) + new[n].days <= leaves[o].days
      <4> DEFINE left == leaves[o]
                 right == new[n]
      <4>1. /\ left \in Row /\ Covers(left, d) /\ Divisible(left) /\ Splits(left, d)
            /\ right = Remainder(left, d)
        BY <3>1, <3>2
      <4> HIDE DEF left, right
      <4>2. /\ right.status = left.status /\ right.type = left.type /\ right.asked = left.asked
            /\ left.from <= right.from /\ right.to = left.to
            /\ Unit * (d - left.from) \in Nat
            /\ Unit * (d - left.from) + right.days <= left.days
        BY <4>1, RightIsWhole, ZenonT(60)
      <4> QED BY <4>2 DEF left, right
    <3>6. ~Marked(leaves, marks, o)
      <4>1. leaves[o] # NoLeave /\ new[n] # NoLeave
        BY <2>1, <3>2 DEF Stored
      <4>2. /\ leaves[o].from \in Int /\ leaves[o].to \in Int /\ new[n].from \in Int /\ new[n].to \in Int
        BY <1>1, <1>2, <2>1, <3>2, RowsAre
      <4>3. DatesOf(new, n) \subseteq DatesOf(leaves, o)
        BY <3>3, <4>1, <4>2 DEF DatesOf
      <4> QED BY <2>1, <4>3 DEF Marked
    <3>7. o \in AskedOf(leaves, marks, type)
      BY <2>1, <3>2, <3>3, <3>6, Zenon DEF AskedOf, CountedIds
    <3> QED BY <2>2, <3>1, <3>3, <3>7 DEF o
  <2>5. CASE n \notin ids \cup news
    <3>1. new[n] = leaves[n] /\ origin[n] = n /\ skip[n] = 0
      BY <1>1, <1>6, <2>1, <2>5
    <3>2. n \in Stored(leaves) /\ ~Marked(leaves, marks, n)
      BY <1>1, <2>1, <2>5, <3>1 DEF Marked, DatesOf
    <3>3. n \in AskedOf(leaves, marks, type)
      BY <2>1, <3>1, <3>2, Zenon DEF AskedOf, CountedIds
    <3> QED BY <2>2, <2>5, <3>1, <3>3
  <2> QED BY <2>3, <2>4, <2>5
<1>8. ASSUME NEW type \in PaidTypes,
             NEW x \in AskedOf(new, marks, type), NEW y \in AskedOf(new, marks, type),
             x # y, origin[x] = origin[y]
      PROVE  skip[x] + new[x].days <= skip[y] \/ skip[y] + new[y].days <= skip[x]
  <2>1. x \in Ids /\ y \in Ids
    BY DEF AskedOf, CountedIds, Stored
  <2>2. ASSUME NEW a \in Ids, a \notin news, NEW b \in news, origin[a] = origin[b],
               a \in ids => Span(leaves[a]) # 1
        PROVE  skip[a] + new[a].days <= skip[b]
    <3>1. origin[a] = a /\ skip[a] = 0
      BY <1>6, <2>2
    <3>2. a \in split /\ skip[b] = Unit * (d - leaves[a].from)
      BY <1>5, <2>2, <3>1
    <3>3. /\ Covers(leaves[a], d) /\ Divisible(leaves[a]) /\ leaves[a] \in Row /\ Splits(leaves[a], d)
          /\ new[a] = Shrunk(leaves[a], leaves[a], d)
      BY <1>1, <1>2, <1>3, <3>2
    <3>4. new[a].days = Unit * (d - leaves[a].from) /\ Unit * (d - leaves[a].from) \in Nat
      BY <3>3, PiecesAreWhole, Zenon
    <3> QED BY <3>1, <3>2, <3>4
  <2>3. CASE x \in news /\ y \in news
    <3>1. x = y
      BY <1>5, <1>8, <2>3
    <3> QED BY <3>1, <1>8
  <2>4. CASE x \notin news /\ y \notin news
    <3>1. x = y
      BY <1>6, <1>8, <2>1, <2>4
    <3> QED BY <3>1, <1>8
  <2>5. CASE x \notin news /\ y \in news
    BY <1>7, <1>8, <2>1, <2>2, <2>5
  <2>6. CASE x \in news /\ y \notin news
    BY <1>7, <1>8, <2>1, <2>2, <2>6
  <2> QED BY <2>3, <2>4, <2>5, <2>6
<1>9. ASSUME NEW type \in PaidTypes
      PROVE  Total(new, AskedOf(new, marks, type)) <= Credits[type]
  <2> DEFINE S == AskedOf(new, marks, type)
             T == AskedOf(leaves, marks, type)
             f == [n \in S |-> new[n].days]
             g == [n \in T |-> leaves[n].days]
             o == [n \in S |-> origin[n]]
             off == [n \in S |-> skip[n]]
  <2>1. S \in SUBSET Stored(new) /\ T \in SUBSET Stored(leaves) /\ IsFiniteSet(T)
    BY <1>1, <1>2, AskedAreStored
  <2>2. \A n \in S : /\ origin[n] \in T /\ skip[n] \in Nat
                     /\ new[n].days \in Nat /\ skip[n] + new[n].days <= leaves[origin[n]].days
    BY <1>7
  <2>3. \A x, y \in S : x # y /\ origin[x] = origin[y] =>
          skip[x] + new[x].days <= skip[y] \/ skip[y] + new[y].days <= skip[x]
    BY <1>8
  <2>4. \A n \in T : leaves[n].days \in Nat
    BY <1>2, <2>1, RowsAre
  <2>5. Total(leaves, T) <= Credits[type] /\ Credits[type] \in Nat
    BY TypesAssumption DEF WithinCredits
  <2> HIDE DEF S, T
  <2>6. o \in [S -> T] /\ off \in [S -> Nat]
    BY <2>2
  <2>7. /\ \A n \in S : f[n] \in Nat /\ off[n] + f[n] <= g[o[n]]
        /\ \A n \in T : g[n] \in Nat
    BY <2>2, <2>4
  <2>8. \A x, y \in S : x # y /\ o[x] = o[y] => off[x] + f[x] <= off[y] \/ off[y] + f[y] <= off[x]
    BY <2>3
  <2>9. /\ Total(new, S) = Tally(f, S) /\ Total(new, S) \in Nat
        /\ Total(leaves, T) = Tally(g, T) /\ Total(leaves, T) \in Nat
    BY <1>1, <1>2, <2>1, TotalIsTally
  <2> HIDE DEF f, g, o, off
  <2>10. Tally(f, S) <= Tally(g, T)
    BY <2>1, <2>6, <2>7, <2>8, PartsWithin
  <2>11. Total(new, S) <= Credits[type]
    BY <2>5, <2>9, <2>10
  <2> QED BY <2>11 DEF S
<1>10. ASSUME NEW n \in Stored(new), Span(new[n]) > 1, ~Marked(new, marks, n)
       PROVE  new[n].days = Unit * Span(new[n])
  <2>1. n \in Ids
    BY DEF Stored
  <2>2. CASE n \in ids
    <3>1. /\ Covers(leaves[n], d) /\ Divisible(leaves[n]) /\ leaves[n] \in Row
          /\ new[n] = Shrunk(leaves[n], leaves[n], d)
      BY <1>1, <1>2, <2>2
    <3>2. Span(leaves[n]) # 1
      <4>1. SUFFICES ASSUME Span(leaves[n]) = 1 PROVE FALSE
        OBVIOUS
      <4>2. new[n].from = leaves[n].from /\ new[n].to = leaves[n].to
        BY <3>1, <4>1, PiecesAreWhole
      <4>3. Span(new[n]) = 1
        BY <4>1, <4>2 DEF Span
      <4> QED BY <4>3, <1>10
    <3> QED BY <3>1, <3>2, PiecesAreWhole
  <2>3. CASE n \in news
    <3>1. /\ origin[n] \in ids /\ new[n] = Remainder(leaves[origin[n]], d)
      BY <1>1, <1>5, <2>3
    <3>2. /\ Covers(leaves[origin[n]], d) /\ Divisible(leaves[origin[n]]) /\ leaves[origin[n]] \in Row
      BY <1>1, <1>2, <3>1
    <3> QED BY <3>1, <3>2, PiecesAreWhole
  <2>4. CASE n \notin ids \cup news
    <3>1. new[n] = leaves[n] /\ n \in Stored(leaves) /\ ~Marked(leaves, marks, n)
      BY <1>1, <1>10, <2>1, <2>4 DEF Marked, DatesOf
    <3> QED BY <3>1, <1>10 DEF WholeDays
  <2> QED BY <2>2, <2>3, <2>4
<1> QED BY <1>9, <1>10 DEF WithinCredits, WholeDays, new

-----------------------------------------------------------------------------
(* The inductive invariant. *)
LeaveInv == Shape /\ WithinCredits(leaves, contested) /\ WholeDays(leaves, contested)

LEMMA LeaveInit == Init => LeaveInv
<1> SUFFICES ASSUME Init PROVE LeaveInv
  OBVIOUS
<1>1. Typed
  BY DEF Init, Typed, Tables
<1>2. Stored(leaves) = {}
  BY DEF Init, Stored
<1>3. ReadsStay
  <2> SUFFICES ASSUME NEW c \in Clerks PROVE Stored(Seen(c)) \subseteq Stored(leaves)
    BY DEF ReadsStay
  <2>1. clerk[c] = Idle /\ Idle \notin ReadType
    BY DEF Init, Idle, ReadType
  <2>2. Seen(c) = leaves
    BY <1>1, <2>1, SeenIs DEF SeesItsReads
  <2> QED BY <2>2
<1>4. Shape
  BY <1>1, <1>3 DEF Shape, FreshIds, Init
<1>5. ASSUME NEW type \in PaidTypes
      PROVE  Total(leaves, AskedOf(leaves, contested, type)) <= Credits[type]
  <2>1. AskedOf(leaves, contested, type) = {}
    BY <1>2 DEF AskedOf, CountedIds
  <2>2. Total(leaves, {}) = 0
    <3>1. leaves \in Tables /\ {} \in SUBSET Stored(leaves)
      BY <1>1 DEF Typed
    <3>2. Total(leaves, {}) = Tally([i \in {} |-> leaves[i].days], {})
      BY <3>1, TotalIsTally
    <3> QED BY <3>2, TallyOfNone
  <2>3. Credits[type] \in Nat
    BY TypesAssumption
  <2> QED BY <2>1, <2>2, <2>3
<1> QED BY <1>2, <1>4, <1>5 DEF LeaveInv, WithinCredits, WholeDays

(* A commit keeps the properties if it does so with fresh reads. *)
LEMMA CommitKeeps ==
  ASSUME LeaveInv, NEW c \in Clerks, NEW rows \in Tables, Commit(c, rows),
         Seen(c) = leaves => WithinCredits(rows, contested) /\ WholeDays(rows, contested)
  PROVE  WithinCredits(rows, contested') /\ WholeDays(rows, contested')
<1>1. CASE Seen(c) = leaves
  <2>1. contested' = contested
    BY <1>1 DEF Commit
  <2> QED BY <1>1, <2>1
<1>2. CASE Seen(c) # leaves
  BY <1>2, StaleCommitKeeps DEF LeaveInv
<1> QED BY <1>1, <1>2

LEMMA LeavesAreTables ==
  ASSUME Shape', NEW c \in Clerks, NEW rows, Commit(c, rows)
  PROVE  leaves' = rows /\ rows \in Tables
BY DEF Shape, Typed, Commit

LEMMA KeepsInv ==
  ASSUME Shape', NEW rows, leaves' = rows,
         WithinCredits(rows, contested') /\ WholeDays(rows, contested')
  PROVE  LeaveInv'
<1>1. WithinCredits(leaves, contested)' /\ WholeDays(leaves, contested)'
  OBVIOUS
<1> QED BY <1>1 DEF LeaveInv

LEMMA SubmitStep ==
  ASSUME LeaveInv, NEW c \in Clerks, NEW ask \in Asks, Submit(c, ask)
  PROVE  LeaveInv'
<1> DEFINE row == Leave(ask.type, ask.from, ask.to, Unit * Span(ask), "Pending", TRUE)
           rows == [leaves EXCEPT ![nextId] = row]
<1>1. Shape' /\ Shape
  BY SubmitShape DEF LeaveInv
<1>2. /\ Commit(c, rows) /\ nextId \in Ids
      /\ ask.type \in PaidTypes => Unit * Span(ask) <= Credits[ask.type] - UsedOf(Seen(c), ask.type)
  BY DEF Submit
<1>3. nextId \notin Stored(leaves) /\ leaves \in Tables
  BY <1>1, <1>2 DEF Shape, FreshIds, Stored, Typed
<1>4. Seen(c) = leaves => WithinCredits(rows, contested) /\ WholeDays(rows, contested)
  BY <1>2, <1>3, SubmitKeeps DEF LeaveInv
<1> HIDE DEF rows
<1> QED BY <1>1, <1>2, <1>4, LeavesAreTables, CommitKeeps, KeepsInv

LEMMA StatusStep ==
  ASSUME LeaveInv, NEW c \in Clerks, NEW i \in Ids, NEW s \in Statuses,
         Seen(c)[i].status = "Pending", Commit(c, [leaves EXCEPT ![i].status = s])
  PROVE  LeaveInv'
<1> DEFINE rows == [leaves EXCEPT ![i].status = s]
<1>1. Shape /\ i \in Stored(leaves) /\ leaves \in Tables
  BY PendingIsStored DEF LeaveInv, Shape, Typed
<1>2. Shape'
  BY <1>1, StatusShape
<1>3. Commit(c, rows)
  OBVIOUS
<1>4. ASSUME Seen(c) = leaves PROVE WithinCredits(rows, contested) /\ WholeDays(rows, contested)
  <2>1. leaves[i].status \in Counted
    BY <1>4 DEF Counted
  <2> QED BY <1>1, <2>1, StatusKeeps DEF LeaveInv
<1> HIDE DEF rows
<1> QED BY <1>2, <1>3, <1>4, LeavesAreTables, CommitKeeps, KeepsInv

LEMMA CutStep ==
  ASSUME LeaveInv, NEW c \in Clerks, NEW d \in Dates, NEW ids \in SUBSET Covering(Seen(c), d),
         CanGiveUp(Seen(c), ids, d), Commit(c, Without(Seen(c), ids, d))
  PROVE  LeaveInv'
<1> DEFINE rows == Without(Seen(c), ids, d)
<1>1. Shape /\ Shape'
  BY CutShape DEF LeaveInv
<1>2. ASSUME Seen(c) = leaves PROVE WithinCredits(rows, contested) /\ WholeDays(rows, contested)
  BY <1>1, <1>2, CutKeeps DEF LeaveInv
<1>3. Commit(c, rows)
  OBVIOUS
<1> HIDE DEF rows
<1> QED BY <1>1, <1>2, <1>3, LeavesAreTables, CommitKeeps, KeepsInv

LEMMA OwnRowStep ==
  ASSUME LeaveInv, NEW c \in Clerks, NEW d \in Dates, NEW type \in Types, NEW days \in Nat,
         CanGiveUp(Seen(c), Covered(c, d), d), OwnId(c, d) \in Ids,
         Commit(c, [Without(Seen(c), Covered(c, d), d)
                      EXCEPT ![OwnId(c, d)] = Leave(type, d, d, days, "Approved", FALSE)])
  PROVE  LeaveInv'
<1> DEFINE cut == Without(Seen(c), Covered(c, d), d)
           row == Leave(type, d, d, days, "Approved", FALSE)
           rows == [cut EXCEPT ![OwnId(c, d)] = row]
<1>1. Shape /\ Shape'
  BY OwnRowShape DEF LeaveInv
<1>2. cut \in Tables
  BY <1>1, OwnIdIs, Zenon
<1>3. ASSUME Seen(c) = leaves PROVE WithinCredits(rows, contested) /\ WholeDays(rows, contested)
  <2>1. Covered(c, d) \in SUBSET Covering(leaves, d) /\ CanGiveUp(leaves, Covered(c, d), d)
    BY <1>3, CoveredIs
  <2>2. WithinCredits(cut, contested) /\ WholeDays(cut, contested)
    BY <1>1, <1>3, <2>1, CutKeeps DEF LeaveInv
  <2> HIDE DEF cut
  <2> QED BY <1>2, <2>2, DayRowKeeps
<1>4. Commit(c, rows)
  OBVIOUS
<1> HIDE DEF rows
<1> QED BY <1>1, <1>3, <1>4, LeavesAreTables, CommitKeeps, KeepsInv

LEMMA SaveSILStep ==
  ASSUME LeaveInv, NEW d \in Dates, SaveSIL(d)
  PROVE  LeaveInv'
<1>1. /\ Shape' /\ contested' = contested
      /\ \E i \in Ids : leaves' = [leaves EXCEPT ![i] = Leave("SIL", d, d, Unit, "Approved", FALSE)]
  BY SaveSILShape DEF LeaveInv
<1>2. PICK i \in Ids : leaves' = [leaves EXCEPT ![i] = Leave("SIL", d, d, Unit, "Approved", FALSE)]
  BY <1>1
<1>3. leaves \in Tables /\ "SIL" \in Types /\ Unit \in Nat
  BY TypesAssumption DEF LeaveInv, Shape, Typed, Unit
<1> DEFINE rows == [leaves EXCEPT ![i] = Leave("SIL", d, d, Unit, "Approved", FALSE)]
<1>4. WithinCredits(rows, contested) /\ WholeDays(rows, contested)
  BY <1>3, DayRowKeeps DEF LeaveInv
<1>5. leaves' = rows
  BY <1>2
<1> HIDE DEF rows
<1> QED BY <1>1, <1>4, <1>5, KeepsInv

LEMMA ReadStep ==
  ASSUME LeaveInv, NEW c \in Clerks, Read(c) \/ Refuse(c)
  PROVE  LeaveInv'
<1>1. leaves' = leaves /\ nextId' = nextId /\ contested' = contested
  BY DEF Read, Refuse
<1>2. (clerk'[c] \in ReadType /\ clerk'[c].leaves = leaves) \/ clerk'[c] = Idle
  <2>1. [busy |-> TRUE, leaves |-> leaves] \in ReadType
    BY DEF LeaveInv, Shape, Typed, ReadType
  <2>2. CASE Read(c)
    BY <2>1, <2>2 DEF Read, LeaveInv, Shape, Typed
  <2>3. CASE Refuse(c)
    BY <2>3 DEF Refuse, LeaveInv, Shape, Typed
  <2> QED BY <2>2, <2>3
<1>3. \A e \in Clerks : e # c => clerk'[e] = clerk[e]
  BY DEF Read, Refuse, LeaveInv, Shape, Typed
<1>4. Typed'
  <2>1. clerk' \in [Clerks -> ReadType \cup {Idle}]
    <3>1. DOMAIN clerk' = Clerks /\ clerk' = [e \in Clerks |-> clerk'[e]]
      BY DEF Read, Refuse, LeaveInv, Shape, Typed
    <3>2. \A e \in Clerks : clerk'[e] \in ReadType \cup {Idle}
      BY <1>2, <1>3 DEF LeaveInv, Shape, Typed
    <3> QED BY <3>1, <3>2
  <2> QED BY <1>1, <2>1 DEF LeaveInv, Shape, Typed
<1>5. ReadsStay'
  <2> SUFFICES ASSUME NEW e \in Clerks PROVE Stored(Seen(e)') \subseteq Stored(leaves')
    BY DEF ReadsStay, Stored
  <2>1. \/ Seen(e)' = leaves' \/ (clerk'[e] \in ReadType /\ Seen(e)' = clerk'[e].leaves)
    <3>1. Typed' => SeesItsReads'
      BY SeenIs, PTL
    <3> QED BY <3>1, <1>4 DEF SeesItsReads
  <2>2. CASE clerk'[e] \in ReadType /\ Seen(e)' = clerk'[e].leaves
    <3>1. Idle \notin ReadType
      BY DEF Idle, ReadType
    <3>2. CASE e = c
      BY <1>1, <1>2, <2>2, <3>1, <3>2
    <3>3. CASE e # c
      <4>1. clerk[e] \in ReadType /\ clerk[e] # Idle /\ clerk'[e] = clerk[e]
        BY <2>2, <3>1, <3>3, <1>3
      <4>2. Seen(e) = clerk[e].leaves
        BY <4>1, SeenIs DEF LeaveInv, Shape, SeesItsReads
      <4>3. Stored(Seen(e)) \subseteq Stored(leaves)
        BY DEF LeaveInv, Shape, ReadsStay
      <4> QED BY <4>1, <4>2, <4>3, <2>2, <1>1
    <3> QED BY <3>2, <3>3
  <2> QED BY <2>1, <2>2
<1>6. Shape'
  BY <1>1, <1>4, <1>5 DEF Shape, FreshIds, LeaveInv
<1>7. WithinCredits(leaves, contested') /\ WholeDays(leaves, contested')
  BY <1>1 DEF LeaveInv
<1> QED BY <1>1, <1>6, <1>7, KeepsInv

LEMMA LeaveNext == LeaveInv /\ [Next]_vars => LeaveInv'
<1> SUFFICES ASSUME LeaveInv, [Next]_vars PROVE LeaveInv'
  OBVIOUS
<1>1. ASSUME NEW c \in Clerks, Read(c) \/ Refuse(c) PROVE LeaveInv'
  BY <1>1, ReadStep
<1>2. ASSUME NEW c \in Clerks, NEW ask \in Asks, Submit(c, ask) PROVE LeaveInv'
  BY <1>2, SubmitStep
<1>3. ASSUME NEW c \in Clerks, NEW i \in Ids, Withdraw(c, i) PROVE LeaveInv'
  <2>1. "Withdrawn" \in Statuses
    BY DEF Statuses
  <2> QED BY <1>3, <2>1, StatusStep DEF Withdraw
<1>4. ASSUME NEW c \in Clerks, NEW i \in Ids, NEW s \in {"Approved", "Rejected"}, Decide(c, i, s)
      PROVE  LeaveInv'
  <2>1. s \in Statuses
    BY DEF Statuses
  <2> QED BY <1>4, <2>1, StatusStep DEF Decide
<1>5. ASSUME NEW c \in Clerks, NEW d \in Dates, ResetDay(c, d) PROVE LeaveInv'
  <2>1. Covering(Seen(c), d) \in SUBSET Covering(Seen(c), d)
    OBVIOUS
  <2> QED BY <1>5, <2>1, CutStep DEF ResetDay
<1>6. ASSUME NEW c \in Clerks, NEW d \in Dates, NEW type, type \in Types \/ type = "None",
             NEW days \in Nat, SaveDayLeave(c, d, type, days)
      PROVE  LeaveInv'
  <2>1. Covered(c, d) \in SUBSET Covering(Seen(c), d)
    BY CoveredIs
  <2>2. /\ CanGiveUp(Seen(c), Covered(c, d), d)
        /\ \/ Commit(c, Without(Seen(c), Covered(c, d), d))
           \/ /\ type # "None" /\ OwnId(c, d) \in Ids
              /\ Commit(c, [Without(Seen(c), Covered(c, d), d)
                              EXCEPT ![OwnId(c, d)] = Leave(type, d, d, days, "Approved", FALSE)])
    BY <1>6, SaveDayLeaveIs
  <2>3. CASE Commit(c, Without(Seen(c), Covered(c, d), d))
    BY <2>1, <2>2, <2>3, CutStep
  <2>4. CASE /\ type # "None" /\ OwnId(c, d) \in Ids
             /\ Commit(c, [Without(Seen(c), Covered(c, d), d)
                             EXCEPT ![OwnId(c, d)] = Leave(type, d, d, days, "Approved", FALSE)])
    <3>1. type \in Types
      BY <1>6, <2>4
    <3> QED BY <2>2, <2>4, <3>1, OwnRowStep
  <2> QED BY <2>2, <2>3, <2>4
<1>7. ASSUME NEW c \in Clerks, NEW d \in Dates, DayEdit(c, d) PROVE LeaveInv'
  <2>1. \A days \in Fractions : days \in Nat
    BY FractionsAssumption DEF Unit
  <2>2. Unit \in Nat
    BY DEF Unit
  <2> QED BY <1>5, <1>6, <1>7, <2>1, <2>2, Zenon DEF DayEdit
<1>8. ASSUME NEW d \in Dates, SaveSIL(d) PROVE LeaveInv'
  BY <1>8, SaveSILStep
<1>9. ASSUME UNCHANGED vars PROVE LeaveInv'
  <2>1. leaves' = leaves /\ nextId' = nextId /\ clerk' = clerk /\ contested' = contested
    BY <1>9 DEF vars
  <2>2. Shape'
    BY <2>1 DEF LeaveInv, Shape, Typed, FreshIds, ReadsStay, Seen
  <2>3. WithinCredits(leaves, contested') /\ WholeDays(leaves, contested')
    BY <2>1 DEF LeaveInv
  <2> QED BY <2>1, <2>2, <2>3, KeepsInv
<1> QED BY <1>1, <1>2, <1>3, <1>4, <1>7, <1>8, <1>9, Zenon DEF Next

LEMMA LeaveIsSound == Spec => []LeaveInv
BY LeaveInit, LeaveNext, PTL DEF Spec

(***************************************************************************)
(* Unless it was written by a handler whose reads were stale, what the     *)
(* employee asked for and still counts stays within the credits of its     *)
(* type: submit_leave_request sees all of it, and no decision, withdrawal, *)
(* day reset or day edit makes more of it.                                 *)
(***************************************************************************)
THEOREM CreditsHold == Spec => []AskedWithinCredits
<1>1. LeaveInv => AskedWithinCredits
  BY OfTheLeaves DEF LeaveInv
<1> QED BY <1>1, LeaveIsSound, PTL

(***************************************************************************)
(* With the same proviso leave of several days is counted in whole days,   *)
(* however often _split_or_shrink_leave cut days out of it, so that it is  *)
(* never refused as fractional.                                            *)
(***************************************************************************)
THEOREM LeaveIsOfWholeDays == Spec => []DaysMatchSpan
<1>1. LeaveInv => DaysMatchSpan
  BY OfTheLeaves DEF LeaveInv
<1> QED BY <1>1, LeaveIsSound, PTL

-----------------------------------------------------------------------------
(* Parts of leave, rounded down. *)

LEMMA SmallerFactor ==
  ASSUME NEW s \in Nat, s > 0, NEW m \in Int, NEW n \in Int, s * m < s * n
  PROVE  m < n
<1> SUFFICES ASSUME n <= m PROVE FALSE
  OBVIOUS
<1>1. PICK k \in Nat : m = n + k
  <2>1. m - n \in Nat /\ m = n + (m - n)
    OBVIOUS
  <2> QED BY <2>1
<1>2. s * m = s * n + s * k
  BY <1>1
<1>3. s * k \in Nat /\ s * n \in Int /\ s * m \in Int
  OBVIOUS
<1> QED BY <1>2, <1>3

LEMMA QuotientIs ==
  ASSUME NEW a \in Nat, NEW s \in Nat, s > 0
  PROVE  /\ a \div s \in Nat /\ s * (a \div s) \in Nat
         /\ s * (a \div s) <= a /\ a < s * (a \div s) + s
<1>1. a \div s \in Int
  OBVIOUS
<1>2. a = s * (a \div s) + (a % s) /\ a % s \in Nat /\ a % s < s
  OBVIOUS
<1> DEFINE q == a \div s
           r == a % s
<1>3. a = s * q + r /\ r \in Nat /\ r < s /\ q \in Int
  BY <1>1, <1>2
<1> HIDE DEF q, r
<1>4. s * q \in Int
  BY <1>3
<1>5. s * q <= a /\ a < s * q + s
  BY <1>3, <1>4
<1>6. s * (q + 1) = s * q + s /\ s * 0 = 0
  BY <1>3
<1>7. 0 < q + 1
  BY <1>3, <1>4, <1>5, <1>6, SmallerFactor
<1>8. q \in Nat
  BY <1>3, <1>7
<1>9. s * q \in Nat
  BY <1>8
<1> QED BY <1>5, <1>8, <1>9 DEF q

SharesAddUp(n, s, x, y) ==
  /\ (n * x) \div s \in Nat /\ (n * y) \div s \in Nat /\ (n * (x + y)) \div s \in Nat
  /\ (n * x) \div s + (n * y) \div s <= (n * (x + y)) \div s
  /\ (n * (x + y)) \div s <= (n * x) \div s + (n * y) \div s + 1
  /\ n % s = 0 => (n * (x + y)) \div s = (n * x) \div s + (n * y) \div s

LEMMA QuotientsAddUp ==
  ASSUME NEW n \in Nat, NEW s \in Nat, s > 0, NEW x \in Nat, NEW y \in Nat
  PROVE  SharesAddUp(n, s, x, y)
<1> DEFINE u == n * x
           v == n * y
           a == u \div s
           b == v \div s
           c == (u + v) \div s
<1>1. u \in Nat /\ v \in Nat /\ u + v \in Nat /\ n * (x + y) = u + v
  OBVIOUS
<1>7. ASSUME n % s = 0 PROVE u = s * a /\ v = s * b
  <2> DEFINE k == n \div s
  <2>1. k \in Nat /\ n = s * k
    <3>1. n \div s \in Nat
      BY QuotientIs
    <3>2. n = s * (n \div s) + (n % s)
      OBVIOUS
    <3> QED BY <1>7, <3>1, <3>2
  <2> HIDE DEF k
  <2>2. ASSUME NEW z \in Nat PROVE n * z = s * ((n * z) \div s)
    <3>1. k * z \in Nat /\ n * z \in Nat /\ n * z = s * (k * z)
      BY <2>1
    <3> DEFINE w == n * z
               l == k * z
               q == w \div s
    <3>2. w = s * l /\ l \in Nat /\ w \in Nat
      BY <3>1
    <3> HIDE DEF w, l
    <3>3. q \in Nat /\ s * q \in Nat /\ s * q <= w /\ w < s * q + s
      BY <3>2, QuotientIs
    <3> HIDE DEF q
    <3>4. s * (q + 1) = s * q + s /\ s * (l + 1) = s * l + s
      BY <3>2, <3>3
    <3>5. l < q + 1
      BY <3>2, <3>3, <3>4, SmallerFactor
    <3>6. q < l + 1
      <4>1. s * q < s * (l + 1)
        BY <3>2, <3>3, <3>4
      <4> QED BY <4>1, <3>2, <3>3, SmallerFactor
    <3>7. q = l
      BY <3>2, <3>3, <3>5, <3>6
    <3> QED BY <3>2, <3>7 DEF w, q
  <2> QED BY <2>2
<1> HIDE DEF u, v
<1>2. /\ a \in Nat /\ s * a \in Nat /\ s * a <= u /\ u < s * a + s
      /\ b \in Nat /\ s * b \in Nat /\ s * b <= v /\ v < s * b + s
      /\ c \in Nat /\ s * c \in Nat /\ s * c <= u + v /\ u + v < s * c + s
  BY <1>1, QuotientIs
<1> HIDE DEF a, b, c
<1>3. /\ s * (a + b) = s * a + s * b /\ s * (c + 1) = s * c + s
      /\ s * (a + b + 2) = s * a + s * b + s + s /\ s * (a + b + 1) = s * a + s * b + s
  BY <1>2
<1>4. a + b < c + 1
  <2>1. s * (a + b) < s * (c + 1)
    BY <1>1, <1>2, <1>3
  <2> QED BY <2>1, <1>2, SmallerFactor
<1>5. c < a + b + 2
  <2>1. s * c < s * (a + b + 2)
    BY <1>1, <1>2, <1>3
  <2> QED BY <2>1, <1>2, SmallerFactor
<1>6. ASSUME n % s = 0 PROVE c = a + b
  <2>1. s * c < s * (a + b + 1)
    BY <1>1, <1>2, <1>3, <1>6, <1>7
  <2>2. c < a + b + 1
    BY <2>1, <1>2, SmallerFactor
  <2> QED BY <1>2, <1>4, <2>2
<1> QED BY <1>1, <1>2, <1>4, <1>5, <1>6 DEF u, v, a, b, c, SharesAddUp
(* The dates of two cutoffs that meet are those of one cutoff over both. *)
LEMMA DatesAddUp ==
  ASSUME NEW rows \in Tables, NEW i \in Payable(rows), NEW d \in Dates
  PROVE  LET A == OwnDates(rows, i, 1, d)
             B == OwnDates(rows, i, d + 1, LastDate)
             C == OwnDates(rows, i, 1, LastDate) IN
         /\ C = A \cup B /\ A \cap B = {}
         /\ IsFiniteSet(A) /\ IsFiniteSet(B) /\ IsFiniteSet(C)
         /\ C \subseteq rows[i].from..rows[i].to
<1> DEFINE free(e) == \A j \in Payable(rows) : Before(rows, j, i) => ~Covers(rows[j], e)
           A == OwnDates(rows, i, 1, d)
           B == OwnDates(rows, i, d + 1, LastDate)
           C == OwnDates(rows, i, 1, LastDate)
           D == DatesOf(rows, i)
<1>1. d \in Int /\ LastDate \in Int /\ 1 <= d /\ d <= LastDate
  BY DatesAssumption DEF Dates
<1>2. /\ A = {e \in D \cap (1..d) : free(e)} /\ B = {e \in D \cap (d + 1..LastDate) : free(e)}
      /\ C = {e \in D \cap (1..LastDate) : free(e)}
  BY DEF OwnDates
<1> HIDE DEF free, A, B, C
<1>3. i \in Stored(rows) /\ rows[i].from \in Int /\ rows[i].to \in Int /\ rows[i] # NoLeave
  <2>1. i \in Stored(rows)
    BY DEF Payable
  <2> QED BY <2>1, RowsAre DEF Stored
<1>4. D = rows[i].from..rows[i].to
  BY <1>3 DEF DatesOf
<1> HIDE DEF D
<1>5. \A e \in 1..LastDate : e \in 1..d \/ e \in d + 1..LastDate
  BY <1>1
<1>6. (1..d) \cap (d + 1..LastDate) = {} /\ 1..d \subseteq 1..LastDate /\ d + 1..LastDate \subseteq 1..LastDate
  BY <1>1
<1>7. C = A \cup B /\ A \cap B = {}
  BY <1>2, <1>5, <1>6, Zenon
<1>8. C \subseteq 1..LastDate /\ A \subseteq C /\ B \subseteq C /\ C \subseteq D
  BY <1>2, <1>7
<1>9. IsFiniteSet(1..LastDate)
  BY <1>1, FS_Interval
<1>10. IsFiniteSet(C) /\ IsFiniteSet(A) /\ IsFiniteSet(B)
  BY <1>8, <1>9, FS_Subset
<1> QED BY <1>4, <1>7, <1>8, <1>10 DEF A, B, C

(* What one leave is paid in two cutoffs and in one over both. *)
PartOf(row, dates) == IF dates = {} THEN 0 ELSE PaidPart(row, dates)

LEMMA PartsAddUp ==
  ASSUME NEW row \in Row, NEW A, NEW B, IsFiniteSet(A), IsFiniteSet(B), A \cap B = {},
         A \cup B \subseteq row.from..row.to
  PROVE  /\ PartOf(row, A) \in Nat /\ PartOf(row, B) \in Nat /\ PartOf(row, A \cup B) \in Nat
         /\ PartOf(row, A) + PartOf(row, B) <= PartOf(row, A \cup B)
         /\ PartOf(row, A \cup B) <= PartOf(row, A) + PartOf(row, B) + 1
         /\ ~ (Span(row) > 1 /\ row.days % Span(row) # 0) =>
              PartOf(row, A \cup B) = PartOf(row, A) + PartOf(row, B)
<1>1. row.from \in Int /\ row.to \in Int /\ row.days \in Nat /\ Span(row) \in Int
  BY DEF Row, Span
<1>2. CASE A \cup B = {}
  BY <1>2 DEF PartOf
<1>3. CASE A \cup B # {} /\ Span(row) = 1
  <2> DEFINE p == IF row.days < Unit THEN row.days ELSE Unit
  <2>1. \A X : PartOf(row, X) = IF X = {} THEN 0 ELSE p
    BY <1>3 DEF PartOf, PaidPart
  <2>2. p \in Nat
    BY <1>1 DEF Unit
  <2>3. A = {} \/ B = {}
    <3>1. \A e \in A \cup B : e = row.from
      BY <1>1, <1>3 DEF Span
    <3> QED BY <3>1
  <2> HIDE DEF p
  <2> QED BY <1>3, <2>1, <2>2, <2>3
<1>4. CASE A \cup B # {} /\ Span(row) # 1
  <2> DEFINE n == row.days
             s == Span(row)
             x == Cardinality(A)
             y == Cardinality(B)
  <2>1. s \in Nat /\ s > 0
    <3>1. PICK e \in A \cup B : TRUE
      BY <1>4
    <3>2. e \in row.from..row.to
      OBVIOUS
    <3> QED BY <1>1, <3>2 DEF Span
  <2>2. x \in Nat /\ y \in Nat /\ Cardinality(A \cup B) = x + y
    <3>1. Cardinality(A \cup B) = x + y - Cardinality(A \cap B)
      BY FS_Union
    <3>2. Cardinality(A \cap B) = 0
      BY FS_EmptySet
    <3>3. x \in Nat /\ y \in Nat
      BY FS_CardinalityType
    <3> QED BY <3>1, <3>2, <3>3
  <2>3. ASSUME NEW X, IsFiniteSet(X) PROVE PartOf(row, X) = (n * Cardinality(X)) \div s
    <3>1. CASE X = {}
      <4>1. Cardinality(X) = 0
        BY <3>1, FS_EmptySet
      <4>2. n * 0 = 0 /\ 0 \div s = 0
        <5>1. n * 0 = 0
          BY <1>1
        <5> DEFINE q == 0 \div s
        <5>2. q \in Nat /\ s * q <= 0
          <6>1. 0 \in Nat
            OBVIOUS
          <6> QED BY <6>1, <2>1, QuotientIs
        <5>3. s * q \in Nat /\ (q # 0 => s * q > 0)
          <6> HIDE DEF q
          <6>1. s * 0 = 0
            BY <2>1
          <6>2. s * q \in Nat
            BY <2>1, <5>2
          <6>3. ASSUME q # 0 PROVE s * q > 0
            <7>1. PICK k \in Nat : q = k + 1
              <8>1. q - 1 \in Nat /\ q = (q - 1) + 1
                BY <5>2, <6>3
              <8> QED BY <8>1
            <7>2. s * q = s * k + s /\ s * k \in Nat
              BY <2>1, <7>1
            <7> QED BY <2>1, <7>2
          <6> QED BY <6>2, <6>3
        <5> HIDE DEF q, s
        <5>4. q = 0
          BY <5>2, <5>3
        <5> QED BY <5>1, <5>4 DEF q
      <4> QED BY <3>1, <4>1, <4>2 DEF PartOf
    <3>2. CASE X # {}
      BY <1>4, <3>2 DEF PartOf, PaidPart
    <3> QED BY <3>1, <3>2
  <2>4. IsFiniteSet(A \cup B)
    BY FS_Union
  <2>5. /\ PartOf(row, A) = (n * x) \div s /\ PartOf(row, B) = (n * y) \div s
        /\ PartOf(row, A \cup B) = (n * (x + y)) \div s
    BY <2>2, <2>3, <2>4
  <2>6. n \in Nat
    BY <1>1
  <2>7. ~ (Span(row) > 1 /\ row.days % Span(row) # 0) => n % s = 0
    BY <1>4, <2>1
  <2> HIDE DEF n, s, x, y
  <2>8. SharesAddUp(n, s, x, y)
    BY <2>1, <2>2, <2>6, QuotientsAddUp
  <2> QED BY <2>5, <2>7, <2>8 DEF SharesAddUp
<1> QED BY <1>2, <1>3, <1>4

(* What a cutoff pays, counted. *)
LEMMA PaidIsTally ==
  ASSUME NEW rows \in Tables, NEW first, NEW last,
         \A i \in Payable(rows) : PartOf(rows[i], OwnDates(rows, i, first, last)) \in Nat
  PROVE  LET part == [i \in Payable(rows) |-> PartOf(rows[i], OwnDates(rows, i, first, last))] IN
           PaidDays(rows, first, last) = Tally(part, Payable(rows))
<1> DEFINE P == Payable(rows)
           own(i) == OwnDates(rows, i, first, last)
           paid == {i \in P : own(i) # {}}
           f == [i \in paid |-> PaidPart(rows[i], own(i))]
           part == [i \in P |-> PartOf(rows[i], own(i))]
<1>1. IsFiniteSet(P) /\ paid \subseteq P
  <2>1. P \in SUBSET Ids
    BY DEF Payable, Stored
  <2> QED BY <2>1, IdsAreFinite
<1>2. PaidDays(rows, first, last) = MapThenSumSet(LAMBDA i : f[i], paid)
  BY ZenonT(90) DEF PaidDays, SumOver, MapThenSumSet, MapThenFoldSet
<1>3. \A i \in paid : f[i] \in Nat /\ f[i] = part[i]
  BY DEF PartOf
<1>4. \A i \in P \ paid : part[i] = 0
  BY DEF PartOf
<1>5. IsFiniteSet(paid)
  BY <1>1, FS_Subset
<1> HIDE DEF paid, f, part, P
<1>6. MapThenSumSet(LAMBDA i : f[i], paid) = Tally(f, paid)
  BY <1>3, <1>5, SumIsTally
<1>7. Tally(f, paid) = Tally(part, P)
  BY <1>1, <1>3, <1>4, TallyWithoutZeros
<1> QED BY <1>2, <1>6, <1>7 DEF part, P

LEMMA CutoffsOfTables ==
  ASSUME leaves \in Tables
  PROVE  CutoffsAddUp
<1> SUFFICES ASSUME NEW d \in Dates
             PROVE  LET parts == PaidDays(leaves, 1, d) + PaidDays(leaves, d + 1, LastDate)
                        whole == PaidDays(leaves, 1, LastDate) IN
                    parts <= whole /\ whole <= parts + Cardinality(Uneven)
  BY DEF CutoffsAddUp
<1> DEFINE P == Payable(leaves)
           A(i) == OwnDates(leaves, i, 1, d)
           B(i) == OwnDates(leaves, i, d + 1, LastDate)
           C(i) == OwnDates(leaves, i, 1, LastDate)
           a == [i \in P |-> PartOf(leaves[i], A(i))]
           b == [i \in P |-> PartOf(leaves[i], B(i))]
           c == [i \in P |-> PartOf(leaves[i], C(i))]
           e == [i \in P |-> IF i \in Uneven THEN 1 ELSE 0]
           one == [i \in Uneven |-> 1]
           ab == [i \in P |-> a[i] + b[i]]
           abe == [i \in P |-> ab[i] + e[i]]
<1>1. IsFiniteSet(P) /\ Uneven \subseteq P /\ IsFiniteSet(Uneven)
  <2>1. P \in SUBSET Ids /\ Uneven \subseteq P
    BY DEF Payable, Stored, Uneven
  <2> QED BY <2>1, IdsAreFinite
<1>2. ASSUME NEW i \in P
      PROVE  /\ a[i] \in Nat /\ b[i] \in Nat /\ c[i] \in Nat
             /\ a[i] + b[i] <= c[i] /\ c[i] <= a[i] + b[i] + 1
             /\ i \notin Uneven => c[i] = a[i] + b[i]
  <2>1. leaves[i] \in Row
    <3>1. i \in Stored(leaves)
      BY DEF Payable
    <3> QED BY <3>1, RowsAre
  <2>2. /\ C(i) = A(i) \cup B(i) /\ A(i) \cap B(i) = {}
        /\ IsFiniteSet(A(i)) /\ IsFiniteSet(B(i))
        /\ C(i) \subseteq leaves[i].from..leaves[i].to
    BY DatesAddUp, Zenon
  <2>3. i \notin Uneven => ~ (Span(leaves[i]) > 1 /\ leaves[i].days % Span(leaves[i]) # 0)
    BY DEF Uneven
  <2>4. a[i] = PartOf(leaves[i], A(i)) /\ b[i] = PartOf(leaves[i], B(i)) /\ c[i] = PartOf(leaves[i], C(i))
    OBVIOUS
  <2> HIDE DEF A, B, C, a, b, c
  <2>5. A(i) \cup B(i) \subseteq leaves[i].from..leaves[i].to
    BY <2>2
  <2>6. /\ PartOf(leaves[i], A(i)) \in Nat /\ PartOf(leaves[i], B(i)) \in Nat
        /\ PartOf(leaves[i], A(i) \cup B(i)) \in Nat
        /\ PartOf(leaves[i], A(i)) + PartOf(leaves[i], B(i)) <= PartOf(leaves[i], A(i) \cup B(i))
        /\ PartOf(leaves[i], A(i) \cup B(i)) <= PartOf(leaves[i], A(i)) + PartOf(leaves[i], B(i)) + 1
        /\ ~ (Span(leaves[i]) > 1 /\ leaves[i].days % Span(leaves[i]) # 0) =>
             PartOf(leaves[i], A(i) \cup B(i)) = PartOf(leaves[i], A(i)) + PartOf(leaves[i], B(i))
    BY <2>1, <2>2, <2>5, PartsAddUp
  <2> QED BY <2>2, <2>3, <2>4, <2>6
<1>3. /\ PaidDays(leaves, 1, d) = Tally(a, P)
      /\ PaidDays(leaves, d + 1, LastDate) = Tally(b, P)
      /\ PaidDays(leaves, 1, LastDate) = Tally(c, P)
  <2>1. /\ \A i \in P : PartOf(leaves[i], A(i)) \in Nat
        /\ \A i \in P : PartOf(leaves[i], B(i)) \in Nat
        /\ \A i \in P : PartOf(leaves[i], C(i)) \in Nat
    BY <1>2
  <2>2. PaidDays(leaves, 1, d) = Tally(a, P)
    BY <2>1, PaidIsTally
  <2>3. PaidDays(leaves, d + 1, LastDate) = Tally(b, P)
    BY <2>1, PaidIsTally
  <2>4. PaidDays(leaves, 1, LastDate) = Tally(c, P)
    BY <2>1, PaidIsTally
  <2> QED BY <2>2, <2>3, <2>4
<1> HIDE DEF A, B, C, a, b, c, P
<1>4. \A i \in P : e[i] \in Nat /\ ab[i] \in Nat /\ ab[i] = a[i] + b[i] /\ abe[i] = ab[i] + e[i]
  BY <1>2
<1>5. /\ \A i \in P : ab[i] <= c[i] /\ c[i] <= abe[i] /\ abe[i] \in Nat /\ c[i] \in Nat
  BY <1>2, <1>4
<1>6. Tally(e, P) = Cardinality(Uneven)
  <2>1. (\A i \in Uneven : one[i] = e[i]) /\ \A i \in P \ Uneven : e[i] = 0
    BY <1>1
  <2>2. \A i \in Uneven : one[i] = 1
    OBVIOUS
  <2> HIDE DEF e, one
  <2>3. Tally(one, Uneven) = Tally(e, P)
    BY <1>1, <2>1, TallyWithoutZeros
  <2>4. Tally(one, Uneven) = Cardinality(Uneven)
    <3> DEFINE units == Units(one, Uneven)
               f == [i \in Uneven |-> <<i, 1>>]
    <3>1. units = {<<i, 1>> : i \in Uneven}
      <4>1. 1..1 = {1}
        OBVIOUS
      <4> QED BY <2>2, <4>1 DEF Units
    <3> HIDE DEF units
    <3>2. f \in Bijection(Uneven, units)
      <4>1. f \in [Uneven -> units] /\ \A t \in units : \E i \in Uneven : f[i] = t
        BY <3>1
      <4>2. \A i, j \in Uneven : f[i] = f[j] => i = j
        OBVIOUS
      <4> HIDE DEF f
      <4> QED BY <4>1, <4>2, Zenon DEF Bijection, Injection, IsInjective, Surjection
    <3> HIDE DEF f
    <3>3. Cardinality(units) = Cardinality(Uneven)
      BY <1>1, <3>2, FS_Bijection DEF ExistsBijection
    <3> QED BY <3>3 DEF Tally, units
  <2> QED BY <2>3, <2>4
<1> HIDE DEF e, ab, abe
<1>7. Tally(ab, P) = Tally(a, P) + Tally(b, P)
  BY <1>1, <1>2, <1>4, TallyOfSum
<1>8. Tally(abe, P) = Tally(ab, P) + Tally(e, P)
  BY <1>1, <1>4, TallyOfSum
<1>9. Tally(ab, P) <= Tally(c, P)
  BY <1>1, <1>4, <1>5, TallyGrows
<1>10. Tally(c, P) <= Tally(abe, P)
  BY <1>1, <1>5, TallyGrows
<1> QED BY <1>3, <1>6, <1>7, <1>8, <1>9, <1>10

(***************************************************************************)
(* Wherever two cutoffs meet, paid_leave_days_for_cutoff and               *)
(* _correct_paid_leave_detail pay together what they would pay for both at *)
(* once, up to one half day of rounding for each leave whose days do not   *)
(* go evenly into its dates.                                               *)
(***************************************************************************)
THEOREM CutoffsPayOnce == Spec => []CutoffsAddUp
<1>1. LeaveInv => CutoffsAddUp
  BY CutoffsOfTables DEF LeaveInv, Shape, Typed
<1> QED BY <1>1, LeaveIsSound, PTL

-----------------------------------------------------------------------------
(* Who is first, second, ... when upto[i] are those up to i: every place is taken. *)
LEMMA PlacesAreTaken ==
  ASSUME NEW S, IsFiniteSet(S), NEW upto \in [S -> SUBSET S], \A i \in S : i \in upto[i],
         \A i, j \in S : i # j => \/ upto[i] \subseteq upto[j] /\ j \notin upto[i]
                                  \/ upto[j] \subseteq upto[i] /\ i \notin upto[j]
  PROVE  \A n \in 1..Cardinality(S) : \E i \in S : Cardinality(upto[i]) = n
<1> DEFINE size == Cardinality(S)
           place == [i \in S |-> Cardinality(upto[i])]
<1>1. size \in Nat /\ IsFiniteSet(1..size) /\ Cardinality(1..size) = size
  BY FS_CardinalityType, FS_Interval
<1>2. ASSUME NEW i \in S
      PROVE  /\ IsFiniteSet(upto[i]) /\ Cardinality(upto[i]) \in Nat
             /\ Cardinality(upto[i]) <= size /\ Cardinality(upto[i]) # 0
  <2>1. IsFiniteSet(upto[i]) /\ Cardinality(upto[i]) <= size
    BY FS_Subset
  <2>2. upto[i] # {}
    OBVIOUS
  <2> QED BY <2>1, <2>2, FS_CardinalityType, FS_EmptySet
<1>3. place \in [S -> 1..size]
  BY <1>1, <1>2
<1>4. ASSUME NEW i \in S, NEW j \in S, upto[i] \subseteq upto[j], j \notin upto[i]
      PROVE  Cardinality(upto[i]) # Cardinality(upto[j])
  <2>1. IsFiniteSet(upto[j]) /\ upto[i] \in SUBSET upto[j] /\ upto[i] # upto[j]
    BY <1>2, <1>4
  <2> QED BY <2>1, FS_Subset
<1>5. \A i, j \in S : place[i] = place[j] => i = j
  <2> SUFFICES ASSUME NEW i \in S, NEW j \in S, i # j PROVE Cardinality(upto[i]) # Cardinality(upto[j])
    OBVIOUS
  <2>1. CASE upto[i] \subseteq upto[j] /\ j \notin upto[i]
    BY <1>4, <2>1
  <2>2. CASE upto[j] \subseteq upto[i] /\ i \notin upto[j]
    BY <1>4, <2>2
  <2> QED BY <2>1, <2>2
<1>6. place \in Injection(S, 1..size)
  <2> HIDE DEF place, size
  <2> QED BY <1>3, <1>5 DEF Injection, IsInjective
<1>7. place \in Surjection(S, 1..size)
  <2> HIDE DEF place
  <2>1. Cardinality(S) = Cardinality(1..size)
    BY <1>1
  <2> HIDE DEF size
  <2> QED BY <1>1, <1>6, <2>1, FS_Injection
<1>8. \A n \in 1..size : \E i \in S : place[i] = n
  <2> HIDE DEF place, size
  <2> QED BY <1>7 DEF Surjection
<1> QED BY <1>8

(* One of a set of numbers is counted among those up to it. *)
LEMMA PlaceOfNumber ==
  ASSUME NEW R, IsFiniteSet(R), R \subseteq Nat
  PROVE  \A n \in 1..Cardinality(R) : \E k \in R : Cardinality({j \in R : j <= k}) = n
<1> DEFINE upto == [k \in R |-> {j \in R : j <= k}]
<1>1. upto \in [R -> SUBSET R] /\ \A k \in R : k \in upto[k]
  OBVIOUS
<1>2. ASSUME NEW i \in R, NEW k \in R, i < k
      PROVE  upto[i] \subseteq upto[k] /\ k \notin upto[i]
  <2>1. i \in Nat /\ k \in Nat
    OBVIOUS
  <2>2. ASSUME NEW j \in R, j <= i PROVE j <= k
    <3>1. j \in Nat
      OBVIOUS
    <3> QED BY <1>2, <2>1, <2>2, <3>1
  <2>3. ~(k <= i)
    BY <1>2, <2>1
  <2>4. upto[i] = {j \in R : j <= i} /\ upto[k] = {j \in R : j <= k}
    OBVIOUS
  <2> HIDE DEF upto
  <2> QED BY <2>2, <2>3, <2>4, Zenon
<1>3. \A i, k \in R : i # k => i < k \/ k < i
  OBVIOUS
<1> HIDE DEF upto
<1>4. \A i, k \in R : i # k => \/ upto[i] \subseteq upto[k] /\ k \notin upto[i]
                               \/ upto[k] \subseteq upto[i] /\ i \notin upto[k]
  BY <1>2, <1>3, Zenon
<1>5. \A n \in 1..Cardinality(R) : \E k \in R : Cardinality(upto[k]) = n
  BY <1>1, <1>4, PlacesAreTaken
<1> QED BY <1>5 DEF upto

-----------------------------------------------------------------------------
(***************************************************************************)
(* Folds over numbers in ascending order, the last one on top, as          *)
(* MapThenFoldSet with Max takes them.  The fold is a step function over a *)
(* set of values that the steps do not leave; a proof about a fold of an   *)
(* operator says which function that is.                                   *)
(***************************************************************************)
LEMMA MaxIsLast ==
  ASSUME NEW R, IsFiniteSet(R), R \subseteq Nat, R # {}
  PROVE  Max(R) \in R /\ \A a \in R : a <= Max(R)
<1>1. PICK z \in R : \A a \in R : a <= z
  BY LastOne
<1>2. \A y \in R : z >= y
  BY <1>1
<1>3. Max(R) \in R /\ \A y \in R : Max(R) >= y
  BY <1>2 DEF Max
<1> QED BY <1>3

IsStepFold(it, base, step, S) ==
  \A s \in SUBSET S : it[s] = IF s = {} THEN base ELSE step[it[s \ {Max(s)}], Max(s)]

(* There is such a fold. *)
LEMMA StepsFold ==
  ASSUME NEW S, IsFiniteSet(S), S \subseteq Nat, NEW A, NEW base \in A, NEW step \in [A \X S -> A]
  PROVE  \E it \in [SUBSET S -> A] : IsStepFold(it, base, step, S)
<1> DEFINE bad == {T \in SUBSET S : ~ \E it \in [SUBSET T -> A] : IsStepFold(it, base, step, T)}
<1>1. SUFFICES ASSUME bad # {} PROVE FALSE
  OBVIOUS
<1>2. bad \subseteq FiniteSubsetsOf(S)
  BY FS_Subset DEF FiniteSubsetsOf
<1>3. PICK T \in bad : \A U \in bad : ~ (<<U, T>> \in StrictSubsetOrdering(S))
  <2> HIDE DEF bad
  <2> QED BY <1>1, <1>2, FS_StrictSubsetOrderingWellFounded, WFMin, Zenon
<1>4. T \in SUBSET S /\ IsFiniteSet(T) /\ T \subseteq Nat
  BY FS_Subset
<1>5. T # {}
  <2> SUFFICES ASSUME T = {} PROVE FALSE
    OBVIOUS
  <2> DEFINE it == [s \in SUBSET T |-> base]
  <2>1. it \in [SUBSET T -> A] /\ \A s \in SUBSET T : s = {} /\ it[s] = base
    OBVIOUS
  <2> HIDE DEF it
  <2> QED BY <2>1 DEF IsStepFold
<1> DEFINE y == Max(T)
           R == T \ {y}
<1>6. y \in T /\ \A a \in T : a <= y
  BY <1>4, <1>5, MaxIsLast
<1> HIDE DEF y
<1>7. R \in SUBSET S /\ R \notin bad
  <2>1. <<R, T>> \in StrictSubsetOrdering(S)
    BY <1>4, <1>6 DEF StrictSubsetOrdering
  <2> QED BY <1>3, <1>4, <2>1
<1>8. PICK old \in [SUBSET R -> A] : IsStepFold(old, base, step, R)
  BY <1>7
<1> DEFINE it == [s \in SUBSET T |-> IF y \in s THEN step[old[s \ {y}], y] ELSE old[s]]
<1>9. it \in [SUBSET T -> A]
  <2> SUFFICES ASSUME NEW s \in SUBSET T
               PROVE  (IF y \in s THEN step[old[s \ {y}], y] ELSE old[s]) \in A
    OBVIOUS
  <2>1. CASE y \in s
    <3>1. s \ {y} \in SUBSET R /\ y \in S
      BY <1>4, <1>6
    <3>2. old[s \ {y}] \in A
      BY <3>1
    <3> QED BY <2>1, <3>1, <3>2
  <2>2. CASE y \notin s
    <3>1. s \in SUBSET R
      BY <2>2
    <3> QED BY <2>2, <3>1
  <2> QED BY <2>1, <2>2
<1>10. IsStepFold(it, base, step, T)
  <2> SUFFICES ASSUME NEW s \in SUBSET T
               PROVE  it[s] = IF s = {} THEN base ELSE step[it[s \ {Max(s)}], Max(s)]
    BY DEF IsStepFold
  <2>1. CASE y \in s
    <3>1. Max(s) = y
      <4>1. IsFiniteSet(s) /\ s \subseteq Nat /\ s # {}
        BY <1>4, <2>1, FS_Subset
      <4>2. Max(s) \in s /\ \A a \in s : a <= Max(s)
        BY <4>1, MaxIsLast
      <4>3. Max(s) \in Nat /\ y \in Nat /\ y <= Max(s) /\ Max(s) <= y
        BY <1>6, <2>1, <4>1, <4>2
      <4> QED BY <4>3
    <3>2. it[s] = step[old[s \ {y}], y] /\ it[s \ {y}] = old[s \ {y}]
      BY <2>1
    <3> QED BY <2>1, <3>1, <3>2
  <2>2. CASE y \notin s
    <3>1. s \in SUBSET R /\ it[s] = old[s]
      BY <2>2
    <3>2. s # {} => it[s \ {Max(s)}] = old[s \ {Max(s)}]
      BY <3>1
    <3>3. old[s] = IF s = {} THEN base ELSE step[old[s \ {Max(s)}], Max(s)]
      BY <1>8, <3>1 DEF IsStepFold
    <3> HIDE DEF it
    <3> QED BY <3>1, <3>2, <3>3
  <2> QED BY <2>1, <2>2
<1> HIDE DEF it
<1> QED BY <1>3, <1>9, <1>10

(* What holds of the empty fold and is kept by each step holds of the fold. *)
LEMMA FoldStays ==
  ASSUME NEW S, IsFiniteSet(S), NEW A, NEW it, it[{}] \in A,
         \A s \in SUBSET S : s # {} /\ it[s \ {Max(s)}] \in A => it[s] \in A,
         S \subseteq Nat
  PROVE  it[S] \in A
<1> DEFINE bad == {T \in SUBSET S : it[T] \notin A}
<1>1. SUFFICES ASSUME bad # {} PROVE FALSE
  OBVIOUS
<1>2. bad \subseteq FiniteSubsetsOf(S)
  BY FS_Subset DEF FiniteSubsetsOf
<1>3. PICK T \in bad : \A U \in bad : ~ (<<U, T>> \in StrictSubsetOrdering(S))
  <2> HIDE DEF bad
  <2> QED BY <1>1, <1>2, FS_StrictSubsetOrderingWellFounded, WFMin, Zenon
<1>4. T \in SUBSET S /\ IsFiniteSet(T) /\ T \subseteq Nat /\ T # {}
  BY FS_Subset
<1>5. Max(T) \in T
  BY <1>4, MaxIsLast
<1> DEFINE R == T \ {Max(T)}
<1>6. R \in SUBSET S /\ <<R, T>> \in StrictSubsetOrdering(S)
  BY <1>4, <1>5 DEF StrictSubsetOrdering
<1>7. it[R] \in A
  BY <1>3, <1>6
<1> QED BY <1>4, <1>7

-----------------------------------------------------------------------------
(* Sums of integers: what is positive less what is negative. *)
Positive(f, S) == [x \in S |-> IF f[x] > 0 THEN f[x] ELSE 0]
Negative(f, S) == [x \in S |-> IF f[x] < 0 THEN -f[x] ELSE 0]
SumOf(f, S) == Tally(Positive(f, S), S) - Tally(Negative(f, S), S)

LEMMA PartsOfInteger ==
  ASSUME NEW S, NEW f, \A x \in S : f[x] \in Int
  PROVE  \A x \in S : /\ Positive(f, S)[x] \in Nat /\ Negative(f, S)[x] \in Nat
                      /\ f[x] = Positive(f, S)[x] - Negative(f, S)[x]
BY DEF Positive, Negative

LEMMA SumIsInteger ==
  ASSUME NEW S, IsFiniteSet(S), NEW f, \A x \in S : f[x] \in Int
  PROVE  SumOf(f, S) \in Int
<1>1. Tally(Positive(f, S), S) \in Nat /\ Tally(Negative(f, S), S) \in Nat
  BY PartsOfInteger, UnitsAreFinite
<1> QED BY <1>1 DEF SumOf

LEMMA SumOfNone == ASSUME NEW f PROVE SumOf(f, {}) = 0
<1>1. Tally(Positive(f, {}), {}) = 0 /\ Tally(Negative(f, {}), {}) = 0
  BY TallyOfNone
<1> QED BY <1>1 DEF SumOf

(* A sum depends on the values only. *)
LEMMA SumOfSame ==
  ASSUME NEW S, NEW f, NEW g, \A x \in S : f[x] = g[x]
  PROVE  SumOf(f, S) = SumOf(g, S)
<1>1. Positive(f, S) = Positive(g, S) /\ Negative(f, S) = Negative(g, S)
  BY DEF Positive, Negative
<1> QED BY <1>1 DEF SumOf

LEMMA SumOfOneMore ==
  ASSUME NEW S, IsFiniteSet(S), NEW y, y \notin S, NEW f, \A x \in S \cup {y} : f[x] \in Int
  PROVE  SumOf(f, S \cup {y}) = SumOf(f, S) + f[y]
<1> DEFINE T == S \cup {y}
           p == Positive(f, T)
           n == Negative(f, T)
<1>1. \A x \in T : p[x] \in Nat /\ n[x] \in Nat /\ f[x] = p[x] - n[x]
  BY PartsOfInteger
<1>2. /\ \A x \in S : Positive(f, S)[x] = p[x] /\ Negative(f, S)[x] = n[x]
  BY DEF Positive, Negative
<1>3. Tally(Positive(f, S), S) = Tally(p, S) /\ Tally(Negative(f, S), S) = Tally(n, S)
  BY <1>2, TallyOfSame
<1> HIDE DEF p, n
<1>4. Tally(p, T) = Tally(p, S) + p[y] /\ Tally(n, T) = Tally(n, S) + n[y]
  BY <1>1, TallyOfOneMore
<1>5. Tally(p, S) \in Nat /\ Tally(n, S) \in Nat /\ p[y] \in Nat /\ n[y] \in Nat /\ f[y] = p[y] - n[y]
  BY <1>1, UnitsAreFinite
<1>6. SumOf(f, T) = Tally(p, T) - Tally(n, T) /\ SumOf(f, S) = Tally(p, S) - Tally(n, S)
  BY <1>3 DEF SumOf, p, n
<1> HIDE DEF T
<1>7. SumOf(f, T) = SumOf(f, S) + f[y]
  BY <1>4, <1>5, <1>6
<1> QED BY <1>7 DEF T

(* What two sums say of each element, their sums say together. *)
LEMMA SumOfSums ==
  ASSUME NEW S, IsFiniteSet(S), NEW f, NEW g, NEW h,
         \A x \in S : f[x] \in Int /\ g[x] \in Int /\ h[x] = f[x] + g[x]
  PROVE  SumOf(h, S) = SumOf(f, S) + SumOf(g, S)
<1> DEFINE bad == {s \in SUBSET S : SumOf(h, s) # SumOf(f, s) + SumOf(g, s)}
<1>1. SUFFICES ASSUME bad # {} PROVE FALSE
  OBVIOUS
<1>2. bad \subseteq FiniteSubsetsOf(S)
  BY FS_Subset DEF FiniteSubsetsOf
<1>3. PICK s \in bad : \A r \in bad : ~ (<<r, s>> \in StrictSubsetOrdering(S))
  <2> HIDE DEF bad
  <2> QED BY <1>1, <1>2, FS_StrictSubsetOrderingWellFounded, WFMin, Zenon
<1>4. s \in SUBSET S /\ IsFiniteSet(s) /\ SumOf(h, s) # SumOf(f, s) + SumOf(g, s)
  BY FS_Subset
<1>5. s # {}
  <2>1. SumOf(f, {}) = 0 /\ SumOf(g, {}) = 0 /\ SumOf(h, {}) = 0
    BY SumOfNone
  <2>2. SumOf(h, {}) = SumOf(f, {}) + SumOf(g, {})
    BY <2>1
  <2> QED BY <1>4, <2>2
<1> PICK y \in s : TRUE
  BY <1>5
<1> DEFINE r == s \ {y}
<1>6. r \in SUBSET S /\ y \notin r /\ s = r \cup {y} /\ <<r, s>> \in StrictSubsetOrdering(S)
  BY <1>4 DEF StrictSubsetOrdering
<1>7. SumOf(h, r) = SumOf(f, r) + SumOf(g, r)
  BY <1>3, <1>6
<1> HIDE DEF r, bad
<1>8. IsFiniteSet(r) /\ y \in S
  BY <1>4, <1>6, FS_Subset
<1>9. \A x \in r \cup {y} : x \in S /\ f[x] \in Int /\ g[x] \in Int /\ h[x] \in Int
  BY <1>6, <1>8
<1>10. /\ SumOf(f, s) = SumOf(f, r) + f[y] /\ SumOf(g, s) = SumOf(g, r) + g[y]
       /\ SumOf(h, s) = SumOf(h, r) + h[y]
  BY <1>6, <1>8, <1>9, SumOfOneMore
<1>11. SumOf(f, r) \in Int /\ SumOf(g, r) \in Int /\ SumOf(h, r) \in Int
  BY <1>8, <1>9, SumIsInteger
<1>12. f[y] \in Int /\ g[y] \in Int /\ h[y] = f[y] + g[y]
  BY <1>8
<1>13. SumOf(h, s) = SumOf(f, s) + SumOf(g, s)
  BY <1>7, <1>10, <1>11, <1>12
<1> QED BY <1>4, <1>13

(* The recursion of Summed, for what the function f says of the elements of S. *)
LEMMA SummedIs ==
  ASSUME NEW f, IsFiniteSet(DOMAIN f), \A x \in DOMAIN f : f[x] \in Int
  PROVE  Summed(f) = SumOf(f, DOMAIN f)
<1> DEFINE S == DOMAIN f
           it == CHOOSE it : IsFold(it, f, S)
<1>1. IsFold([s \in SUBSET S |-> SumOf(f, s)], f, S)
  <2>1. ASSUME NEW s \in SUBSET S, s # {}
        PROVE  SumOf(f, s) = f[CHOOSE x \in s : TRUE] + SumOf(f, s \ {CHOOSE x \in s : TRUE})
    <3> DEFINE y == CHOOSE x \in s : TRUE
               rest == s \ {y}
    <3>1. y \in s
      BY <2>1
    <3> HIDE DEF y
    <3>2. IsFiniteSet(rest) /\ y \notin rest /\ s = rest \cup {y} /\ rest \in SUBSET S
      BY <3>1, FS_Subset
    <3>3. \A x \in rest \cup {y} : f[x] \in Int
      BY <3>1
    <3> HIDE DEF rest
    <3>4. SumOf(f, s) = SumOf(f, rest) + f[y] /\ SumOf(f, rest) \in Int /\ f[y] \in Int
      BY <3>2, <3>3, SumOfOneMore, SumIsInteger
    <3>5. SumOf(f, s) = f[y] + SumOf(f, rest)
      BY <3>4
    <3> QED BY <3>5 DEF y, rest
  <2>2. SumOf(f, {}) = 0
    BY SumOfNone
  <2> QED BY <2>1, <2>2 DEF IsFold
<1>2. IsFold(it, f, S)
  BY <1>1
<1>3. Summed(f) = it[S]
  BY DEF Summed, FoldFunction, FoldFunctionOnSet, MapThenFoldSet, IsFold
<1> HIDE DEF it
<1>4. \A s \in SUBSET S : it[s] = IF s = {} THEN 0
                          ELSE f[CHOOSE x \in s : TRUE] + it[s \ {CHOOSE x \in s : TRUE}]
  BY <1>2 DEF IsFold
<1> DEFINE bad == {s \in SUBSET S : it[s] # SumOf(f, s)}
<1>5. SUFFICES ASSUME bad # {} PROVE FALSE
  BY <1>3
<1>6. bad \subseteq FiniteSubsetsOf(S)
  BY FS_Subset DEF FiniteSubsetsOf
<1>7. PICK s \in bad : \A r \in bad : ~ (<<r, s>> \in StrictSubsetOrdering(S))
  <2> HIDE DEF bad
  <2> QED BY <1>5, <1>6, FS_StrictSubsetOrderingWellFounded, WFMin, Zenon
<1>8. s # {} /\ s \in SUBSET S
  BY <1>4, SumOfNone
<1> DEFINE y == CHOOSE x \in s : TRUE
           rest == s \ {y}
<1>9. y \in s
  BY <1>8
<1>10. it[s] = f[y] + it[rest]
  BY <1>4, <1>8
<1> HIDE DEF y
<1>11. rest \in SUBSET S /\ y \notin rest /\ s = rest \cup {y} /\ <<rest, s>> \in StrictSubsetOrdering(S)
  BY <1>9 DEF StrictSubsetOrdering
<1>12. it[rest] = SumOf(f, rest)
  BY <1>7, <1>11
<1> HIDE DEF rest, bad
<1>13. IsFiniteSet(rest) /\ \A x \in rest \cup {y} : f[x] \in Int
  <2>1. IsFiniteSet(rest)
    BY <1>11, FS_Subset
  <2>2. \A x \in s : f[x] \in Int
    BY <1>8
  <2> QED BY <1>11, <2>1, <2>2
<1>14. SumOf(f, s) = SumOf(f, rest) + f[y] /\ SumOf(f, rest) \in Int /\ f[y] \in Int
  BY <1>11, <1>13, SumOfOneMore, SumIsInteger
<1>15. it[s] = SumOf(f, s)
  BY <1>10, <1>12, <1>14
<1> QED BY <1>7, <1>15 DEF bad

(* The functions that the model sums. *)
LEMMA SummedIsInteger ==
  ASSUME NEW S, IsFiniteSet(S), NEW f \in [S -> Int]
  PROVE  Summed(f) \in Int /\ Summed(f) = SumOf(f, S)
<1>1. DOMAIN f = S /\ \A x \in S : f[x] \in Int
  OBVIOUS
<1> QED BY <1>1, SummedIs, SumIsInteger

LEMMA SummedOfSums ==
  ASSUME NEW S, IsFiniteSet(S), NEW f \in [S -> Int], NEW g \in [S -> Int], NEW h \in [S -> Int],
         \A x \in S : h[x] = f[x] + g[x]
  PROVE  Summed(h) = Summed(f) + Summed(g)
<1>1. \A x \in S : f[x] \in Int /\ g[x] \in Int /\ h[x] = f[x] + g[x]
  OBVIOUS
<1>2. SumOf(h, S) = SumOf(f, S) + SumOf(g, S)
  BY <1>1, SumOfSums
<1> QED BY <1>2, SummedIsInteger

(* One value is changed by n. *)
LEMMA SummedPlus ==
  ASSUME NEW S, IsFiniteSet(S), NEW f \in [S -> Int], NEW y \in S, NEW n \in Int,
         NEW g \in [S -> Int], g[y] = f[y] + n, \A x \in S \ {y} : g[x] = f[x]
  PROVE  Summed(g) = Summed(f) + n
<1> DEFINE T == S \ {y}
<1>1. \A x \in T : g[x] = f[x]
  OBVIOUS
<1>2. IsFiniteSet(T) /\ y \notin T /\ S = T \cup {y}
  BY FS_Subset
<1> HIDE DEF T
<1>3. \A x \in T \cup {y} : f[x] \in Int /\ g[x] \in Int
  BY <1>1, <1>2
<1>4. SumOf(f, S) = SumOf(f, T) + f[y] /\ SumOf(g, S) = SumOf(g, T) + g[y]
  BY <1>2, <1>3, SumOfOneMore
<1>5. SumOf(g, T) = SumOf(f, T)
  BY <1>1, SumOfSame
<1>6. SumOf(f, T) \in Int /\ f[y] \in Int
  BY <1>2, <1>3, SumIsInteger
<1>7. SumOf(g, S) = SumOf(f, S) + n
  BY <1>1, <1>4, <1>5, <1>6
<1>8. Summed(g) = Summed(f) + n
  BY <1>1, <1>7, SummedIsInteger
<1> QED BY <1>8

-----------------------------------------------------------------------------
(* Folds over the places of a sequence, the last one on top, as FoldLeft takes them. *)
LEMMA LastIn ==
  ASSUME NEW D, IsFiniteSet(D), D \subseteq Nat, NEW t \in SUBSET D, t # {}
  PROVE  Max(t) \in t /\ Max(t) \in D
<1>1. IsFiniteSet(t) /\ t \subseteq Nat
  BY FS_Subset
<1> QED BY <1>1, MaxIsLast

FoldsUp(f, base, step, D, A) ==
  /\ f \in [SUBSET D -> A] /\ f[{}] = base
  /\ \A t \in SUBSET D : t # {} =>
       Max(t) \in D /\ f[t \ {Max(t)}] \in A /\ f[t] = step[f[t \ {Max(t)}], Max(t)]

LEMMA FoldExists ==
  ASSUME NEW D, IsFiniteSet(D), D \subseteq Nat, NEW A, NEW base \in A, NEW step \in [A \X D -> A]
  PROVE  \E f : FoldsUp(f, base, step, D, A)
<1>1. PICK f \in [SUBSET D -> A] : IsStepFold(f, base, step, D)
  BY StepsFold
<1>2. \A t \in SUBSET D : f[t] = IF t = {} THEN base ELSE step[f[t \ {Max(t)}], Max(t)]
  BY <1>1 DEF IsStepFold
<1>3. ASSUME NEW t \in SUBSET D, t # {} PROVE Max(t) \in D /\ f[t \ {Max(t)}] \in A
  BY <1>1, <1>3, LastIn
<1> QED BY <1>1, <1>2, <1>3 DEF FoldsUp

-----------------------------------------------------------------------------
(* A result whose months add up. *)
Results == [regularHours : Int, otHours : Int, ndHours : Int, regular : Int, ot : Int, nd : Int,
            holiday : Int, dated : [Months -> Int], datedOt : [Months -> Int],
            datedNd : [Months -> Int], datedHoliday : [Months -> Int]]
AddsUp(r) ==
  /\ Summed(r.dated) = r.regular + r.ot + r.nd + r.holiday
  /\ Summed(r.datedOt) = r.ot /\ Summed(r.datedNd) = r.nd /\ Summed(r.datedHoliday) = r.holiday
Good == {r \in Results : AddsUp(r)}

LEMMA TheMonths ==
  /\ IsFiniteSet(Days) /\ Days \subseteq Nat /\ IsFiniteSet(Months)
  /\ \A d \in Days : MonthOf[d] \in Months
<1>1. IsFiniteSet(Days) /\ Days \subseteq Nat
  BY CutoffAssumption, Zenon
<1>2. \A d \in Days : MonthOf[d] \in Months
  BY DEF Days, Months, Range
<1>3. IsFiniteSet(Months)
  <2> DEFINE g == [d \in Days |-> MonthOf[d]]
  <2>1. g \in Surjection(Days, Months)
    BY DEF Surjection, Days, Months, Range
  <2> HIDE DEF g
  <2> QED BY <1>1, <2>1, FS_Surjection
<1> QED BY <1>1, <1>2, <1>3

LEMMA GrossIs ==
  ASSUME NEW r \in Results
  PROVE  Gross(r) = r.regular + r.ot + r.nd + r.holiday
<1> DEFINE f == [part \in {"regular", "ot", "nd", "holiday"} |-> r[part]]
<1>1. /\ r.regular \in Int /\ r.ot \in Int /\ r.nd \in Int /\ r.holiday \in Int
  BY DEF Results
<1>2. /\ f \in [{"regular", "ot", "nd", "holiday"} -> Int]
      /\ f["regular"] = r.regular /\ f["ot"] = r.ot /\ f["nd"] = r.nd /\ f["holiday"] = r.holiday
  BY <1>1
<1>3. Gross(r) = Summed(f)
  BY DEF Gross
<1> HIDE DEF f
<1>4. /\ IsFiniteSet({}) /\ IsFiniteSet({"regular"}) /\ IsFiniteSet({"regular"} \cup {"ot"})
      /\ IsFiniteSet({"regular", "ot"} \cup {"nd"}) /\ IsFiniteSet({"regular", "ot", "nd"} \cup {"holiday"})
  <2>1. /\ IsFiniteSet({}) /\ IsFiniteSet({"regular"})
    BY FS_EmptySet, FS_Singleton
  <2>2. IsFiniteSet({"regular"} \cup {"ot"})
    BY <2>1, FS_AddElement
  <2>3. {"regular"} \cup {"ot"} = {"regular", "ot"} /\ {"regular", "ot"} \cup {"nd"} = {"regular", "ot", "nd"}
    OBVIOUS
  <2>4. IsFiniteSet({"regular", "ot"} \cup {"nd"})
    BY <2>2, <2>3, FS_AddElement
  <2> QED BY <2>1, <2>2, <2>3, <2>4, FS_AddElement
<1>5. SumOf(f, {} \cup {"regular"}) = r.regular
  BY <1>1, <1>2, <1>4, SumOfNone, SumOfOneMore
<1>6. SumOf(f, {"regular"} \cup {"ot"}) = r.regular + r.ot
  <2>1. {} \cup {"regular"} = {"regular"}
    OBVIOUS
  <2> QED BY <1>1, <1>2, <1>4, <1>5, <2>1, SumOfOneMore
<1>7. SumOf(f, {"regular", "ot"} \cup {"nd"}) = r.regular + r.ot + r.nd
  <2>1. {"regular"} \cup {"ot"} = {"regular", "ot"}
    OBVIOUS
  <2> QED BY <1>1, <1>2, <1>4, <1>6, <2>1, SumOfOneMore
<1>8. SumOf(f, {"regular", "ot", "nd"} \cup {"holiday"}) = r.regular + r.ot + r.nd + r.holiday
  <2>1. {"regular", "ot"} \cup {"nd"} = {"regular", "ot", "nd"}
    OBVIOUS
  <2> QED BY <1>1, <1>2, <1>4, <1>7, <2>1, SumOfOneMore
<1>9. {"regular", "ot", "nd"} \cup {"holiday"} = {"regular", "ot", "nd", "holiday"}
  OBVIOUS
<1> QED BY <1>2, <1>3, <1>4, <1>8, <1>9, SummedIsInteger

(* What is earned, and what is taken back, is of a month. *)
LEMMA EarnedAddsUp ==
  ASSUME NEW r \in Good, NEW d \in Days,
         NEW regular \in Int, NEW ot \in Int, NEW nd \in Int, NEW holiday \in Int
  PROVE  Earned(r, d, regular, ot, nd, holiday) \in Good
<1> DEFINE m == MonthOf[d]
           n == regular + ot + nd + holiday
           new == Earned(r, d, regular, ot, nd, holiday)
<1>1. r \in Results /\ AddsUp(r) /\ m \in Months /\ IsFiniteSet(Months) /\ n \in Int
  BY TheMonths DEF Good
<1>2. /\ r.dated \in [Months -> Int] /\ r.datedOt \in [Months -> Int]
      /\ r.datedNd \in [Months -> Int] /\ r.datedHoliday \in [Months -> Int]
      /\ r.regular \in Int /\ r.ot \in Int /\ r.nd \in Int /\ r.holiday \in Int
      /\ r.regularHours \in Int /\ r.otHours \in Int /\ r.ndHours \in Int
  BY <1>1 DEF Results
<1>3. new = [r EXCEPT !.regular = @ + regular, !.ot = @ + ot, !.nd = @ + nd, !.holiday = @ + holiday,
                      !.dated = Plus(@, d, n), !.datedOt = Plus(@, d, ot),
                      !.datedNd = Plus(@, d, nd), !.datedHoliday = Plus(@, d, holiday)]
  BY DEF Earned
<1>4. ASSUME NEW f \in [Months -> Int], NEW k \in Int
      PROVE  Plus(f, d, k) \in [Months -> Int] /\ Summed(Plus(f, d, k)) = Summed(f) + k
  <2> HIDE DEF m
  <2>1. /\ Plus(f, d, k) \in [Months -> Int] /\ Plus(f, d, k)[m] = f[m] + k
        /\ \A x \in Months \ {m} : Plus(f, d, k)[x] = f[x]
    BY <1>1 DEF Plus, m
  <2>2. IsFiniteSet(Months) /\ m \in Months
    BY <1>1
  <2> QED BY <2>1, <2>2, SummedPlus
<1> HIDE DEF m, n, new
<1>5. /\ Plus(r.dated, d, n) \in [Months -> Int] /\ Plus(r.datedOt, d, ot) \in [Months -> Int]
      /\ Plus(r.datedNd, d, nd) \in [Months -> Int] /\ Plus(r.datedHoliday, d, holiday) \in [Months -> Int]
      /\ Summed(Plus(r.dated, d, n)) = Summed(r.dated) + n
      /\ Summed(Plus(r.datedOt, d, ot)) = Summed(r.datedOt) + ot
      /\ Summed(Plus(r.datedNd, d, nd)) = Summed(r.datedNd) + nd
      /\ Summed(Plus(r.datedHoliday, d, holiday)) = Summed(r.datedHoliday) + holiday
  BY <1>1, <1>2, <1>4
<1>6. r.regular + regular \in Int /\ r.ot + ot \in Int /\ r.nd + nd \in Int /\ r.holiday + holiday \in Int
  BY <1>2
<1>7. /\ new \in Results
      /\ new.regular = r.regular + regular /\ new.ot = r.ot + ot /\ new.nd = r.nd + nd
      /\ new.holiday = r.holiday + holiday /\ new.dated = Plus(r.dated, d, n)
      /\ new.datedOt = Plus(r.datedOt, d, ot) /\ new.datedNd = Plus(r.datedNd, d, nd)
      /\ new.datedHoliday = Plus(r.datedHoliday, d, holiday)
  <2> DEFINE a1 == r.regular + regular
             a2 == r.ot + ot
             a3 == r.nd + nd
             a4 == r.holiday + holiday
             f1 == Plus(r.dated, d, n)
             f2 == Plus(r.datedOt, d, ot)
             f3 == Plus(r.datedNd, d, nd)
             f4 == Plus(r.datedHoliday, d, holiday)
  <2>1. new = [r EXCEPT !.regular = a1, !.ot = a2, !.nd = a3, !.holiday = a4, !.dated = f1,
                        !.datedOt = f2, !.datedNd = f3, !.datedHoliday = f4]
    BY <1>1, <1>3 DEF Results
  <2>2. /\ a1 \in Int /\ a2 \in Int /\ a3 \in Int /\ a4 \in Int
        /\ f1 \in [Months -> Int] /\ f2 \in [Months -> Int] /\ f3 \in [Months -> Int] /\ f4 \in [Months -> Int]
    BY <1>5, <1>6
  <2> HIDE DEF a1, a2, a3, a4, f1, f2, f3, f4
  <2>3. /\ new \in Results
        /\ new.regular = a1 /\ new.ot = a2 /\ new.nd = a3 /\ new.holiday = a4
        /\ new.dated = f1 /\ new.datedOt = f2 /\ new.datedNd = f3 /\ new.datedHoliday = f4
    BY <1>1, <2>1, <2>2 DEF Results
  <2> QED BY <2>3 DEF a1, a2, a3, a4, f1, f2, f3, f4
<1>8. Summed(new.dated) = new.regular + new.ot + new.nd + new.holiday
  <2>1. Summed(r.dated) = r.regular + r.ot + r.nd + r.holiday
    BY <1>1 DEF AddsUp
  <2>2. n = regular + ot + nd + holiday
    BY DEF n
  <2> QED BY <1>2, <1>5, <1>7, <2>1, <2>2
<1>9. AddsUp(new)
  BY <1>1, <1>5, <1>7, <1>8 DEF AddsUp
<1> QED BY <1>7, <1>9 DEF Good, new

-----------------------------------------------------------------------------
(* Hours, rates and logs. *)
Percents == {100, 130, 150, 200, 260}

LEMMA PercentIs ==
  ASSUME NEW type, NEW rest \in BOOLEAN
  PROVE  /\ DayMultiplier(type, rest) \in Percents
         /\ DayMultiplier(type, rest) \in Int /\ OvertimeMultiplier(DayMultiplier(type, rest)) \in Int
<1>1. DayMultiplier(type, rest) \in Percents
  BY DEF DayMultiplier, Percents
<1>2. \A n \in Percents : n \in Int /\ OvertimeMultiplier(n) \in Int
  BY DEF Percents, OvertimeMultiplier
<1> QED BY <1>1, <1>2

LEMMA PayIsInteger == \A n, percent \in Int : Pay(n, percent) \in Int
BY DEF Pay

LEMMA TypedList ==
  ASSUME NEW S, NEW n \in Nat, NEW f \in [1..n -> S]
  PROVE  f \in Seq(S) /\ Len(f) = n /\ DOMAIN f = 1..n
OBVIOUS

LEMMA PickedIs ==
  ASSUME NEW S, NEW s \in Seq(S), NEW places \in SUBSET (DOMAIN s)
  PROVE  Picked(s, places) \in Seq(S)
<1> DEFINE Place(k) == Cardinality({j \in places : j <= k})
           size == Cardinality(places)
<1>1. places \in SUBSET (1..Len(s)) /\ Len(s) \in Nat
  OBVIOUS
<1>2. Picked(s, places) = [n \in 1..size |-> s[CHOOSE k \in places : Place(k) = n]]
  BY DEF Picked
<1>3. IsFiniteSet(places) /\ size \in Nat /\ places \subseteq Nat
  <2>1. IsFiniteSet(1..Len(s)) /\ 1..Len(s) \subseteq Nat
    BY <1>1, FS_Interval
  <2>2. IsFiniteSet(places) /\ places \subseteq Nat
    BY <1>1, <2>1, FS_Subset
  <2> QED BY <2>2, FS_CardinalityType
<1>4. ASSUME NEW n \in 1..size PROVE \E k \in places : Place(k) = n
  <2>1. PICK k \in places : Cardinality({j \in places : j <= k}) = n
    BY <1>3, PlaceOfNumber
  <2>2. Place(k) = n
    BY <2>1
  <2> QED BY <2>2
<1> HIDE DEF Place, size
<1>5. ASSUME NEW n \in 1..size PROVE s[CHOOSE k \in places : Place(k) = n] \in S
  <2> DEFINE c == CHOOSE k \in places : Place(k) = n
  <2>1. c \in places
    BY <1>4, Zenon
  <2> HIDE DEF c
  <2>2. c \in 1..Len(s)
    BY <1>1, <2>1
  <2>3. s[c] \in S
    BY <2>2
  <2> QED BY <2>3 DEF c
<1> QED BY <1>2, <1>3, <1>5, TypedList

LEMMA SetToSeqIs ==
  ASSUME NEW S, IsFiniteSet(S)
  PROVE  SetToSeq(S) \in Seq(S)
<1> DEFINE size == Cardinality(S)
<1>1. size \in Nat /\ ExistsBijection(1..size, S)
  BY FS_CardinalityType
<1>2. \E f \in [1..size -> S] : IsInjective(f)
  <2>1. PICK f : f \in Bijection(1..size, S)
    BY <1>1 DEF ExistsBijection
  <2>2. f \in [1..size -> S] /\ IsInjective(f)
    BY <2>1 DEF Bijection, Injection
  <2> QED BY <2>2
<1>3. SetToSeq(S) \in [1..size -> S]
  BY <1>2, Zenon DEF SetToSeq
<1> HIDE DEF size
<1> QED BY <1>1, <1>3, TypedList

LEMMA InputIs ==
  ASSUME NEW x \in Inputs
  PROVE  x.logs \in Seq(LogType) /\ x.shifts \in Seq(ShiftType)
BY InputsAssumption, Zenon

LEMMA LogsInAre ==
  ASSUME NEW x \in Inputs, NEW cutoff
  PROVE  LogsIn(x, cutoff) \in Seq(LogType)
<1> DEFINE places == {k \in DOMAIN x.logs : x.logs[k].date \in cutoff}
<1>1. places \in SUBSET (DOMAIN x.logs) /\ LogsIn(x, cutoff) = Picked(x.logs, places)
  BY DEF LogsIn
<1> HIDE DEF places
<1> QED BY <1>1, InputIs, PickedIs

LEMMA PresentOnAre ==
  ASSUME NEW x \in Inputs, NEW cutoff, NEW d, NEW scheduled
  PROVE  PresentOn(x, cutoff, d, scheduled) \in Seq(LogType)
<1> DEFINE logs == LogsIn(x, cutoff)
           places == {k \in DOMAIN logs : /\ ~logs[k].absent /\ logs[k].date = d
                                          /\ (ScheduleOf(x, cutoff, logs[k]) # 0) = scheduled}
<1>1. places \in SUBSET (DOMAIN logs) /\ PresentOn(x, cutoff, d, scheduled) = Picked(logs, places)
  BY DEF PresentOn
<1>2. logs \in Seq(LogType)
  BY LogsInAre
<1> HIDE DEF places, logs
<1> QED BY <1>1, <1>2, PickedIs

LEMMA LogIs ==
  ASSUME NEW l \in LogType
  PROVE  /\ l.date \in Days /\ l.date \in Nat /\ l.in \in Nat /\ l.out \in Nat /\ l.approved \in Nat
         /\ l.absent \in BOOLEAN
<1>1. \A h \in Hours : h \in Nat
  BY DEF Hours
<1>2. l.date \in Days /\ l.in \in Hours /\ l.out \in Hours /\ l.approved \in Nat /\ l.absent \in BOOLEAN
  BY DEF LogType
<1> QED BY <1>1, <1>2, TheMonths

LEMMA WorkedIsFinite ==
  ASSUME NEW l \in LogType
  PROVE  IsFiniteSet(Worked(l)) /\ Worked(l) \subseteq Int
<1> DEFINE a == l.date * Day + l.in
           b == l.date * Day + l.out + (IF l.out <= l.in THEN Day ELSE 0) - 1
<1>1. a \in Int /\ b \in Int
  BY LogIs DEF Day
<1>2. Worked(l) = a..b
  BY DEF Worked, HoursFrom
<1> HIDE DEF a, b
<1> QED BY <1>1, <1>2, FS_Interval

LEMMA HoursOfLog ==
  ASSUME NEW l \in LogType, NEW hours \in SUBSET Worked(l)
  PROVE  IsFiniteSet(hours) /\ Cardinality(hours) \in Nat /\ hours \subseteq Int
<1>1. IsFiniteSet(hours) /\ hours \subseteq Int
  BY WorkedIsFinite, FS_Subset
<1> QED BY <1>1, FS_CardinalityType

LEMMA AtMostIs == \A a, b \in Int : AtMost(a, b) \in Int /\ AtLeast(a, b) \in Int
BY DEF AtMost, AtLeast

LEMMA StandardIs == Standard \in Int
BY CutoffAssumption

-----------------------------------------------------------------------------
(* Pass 1. *)

LEMMA NothingAddsUp == Nothing \in Good
<1>1. NoHours \in [Months -> Int] /\ \A m \in Months : NoHours[m] = NoHours[m] + NoHours[m]
  BY DEF NoHours
<1>2. IsFiniteSet(Months)
  BY TheMonths
<1>3. Summed(NoHours) = Summed(NoHours) + Summed(NoHours) /\ Summed(NoHours) \in Int
  BY <1>1, <1>2, SummedOfSums, SummedIsInteger
<1>4. Summed(NoHours) = 0
  <2>1. \A n \in Int : n = n + n => n = 0
    OBVIOUS
  <2> QED BY <1>3, <2>1, Zenon
<1>5. Nothing \in Results
  BY <1>1 DEF Nothing, Results
<1> QED BY <1>4, <1>5 DEF Nothing, Good, AddsUp

(* Hours are shown beside what they earn. *)
LEMMA CountedAddsUp ==
  ASSUME NEW r \in Good, NEW a \in Int, NEW b \in Int, NEW c \in Int
  PROVE  [r EXCEPT !.regularHours = a, !.otHours = b, !.ndHours = c] \in Good
<1> DEFINE new == [r EXCEPT !.regularHours = a, !.otHours = b, !.ndHours = c]
<1>1. r \in Results /\ AddsUp(r)
  BY DEF Good
<1>2. /\ new \in Results
      /\ new.regular = r.regular /\ new.ot = r.ot /\ new.nd = r.nd /\ new.holiday = r.holiday
      /\ new.dated = r.dated /\ new.datedOt = r.datedOt /\ new.datedNd = r.datedNd
      /\ new.datedHoliday = r.datedHoliday
  BY <1>1 DEF Results
<1> HIDE DEF new
<1>3. AddsUp(new)
  BY <1>1, <1>2 DEF AddsUp
<1> QED BY <1>2, <1>3 DEF Good, new

BaseStates == [used : [Days -> Int], paid : SUBSET Days, earned : Good]

LEMMA BaseLogKeeps ==
  ASSUME NEW x \in Inputs, NEW cutoff, NEW acc \in BaseStates, NEW l \in LogType
  PROVE  BaseLog(x, cutoff, acc, l) \in BaseStates
<1> DEFINE i == ScheduleOf(x, cutoff, l)
           d == l.date
           inside == Cardinality(Inside(x, i, l))
           outside == Cardinality(Outside(x, i, l))
           regular == AtMost(Standard - acc.used[d], inside)
           ot == inside - regular + AtMost(l.approved, outside)
           percent == DayMultiplier(x.holidays[d], FALSE)
           premium == Pay(regular, percent - 100)
           holiday == CASE x.holidays[d] # "Regular" -> premium
                        [] d \in acc.paid -> 0
                        [] OTHER -> AtLeast(Pay(Standard, 100), premium)
           night == Cardinality(Night(Worked(l)))
           nd == AtMost(night, regular + ot)
           earned == Earned(acc.earned, d, Pay(regular, 100), Pay(ot, OvertimeMultiplier(percent)), nd * percent, holiday)
           shown == [earned EXCEPT !.regularHours = @ + regular, !.otHours = @ + ot, !.ndHours = @ + nd]
<1>1. /\ d \in Days /\ l.approved \in Int /\ Standard \in Int
      /\ acc.used \in [Days -> Int] /\ acc.used[d] \in Int /\ acc.paid \in SUBSET Days /\ acc.earned \in Good
  BY LogIs, StandardIs DEF BaseStates
<1>2. inside \in Int /\ outside \in Int /\ night \in Int
  <2>1. /\ Inside(x, i, l) \in SUBSET Worked(l) /\ Outside(x, i, l) \in SUBSET Worked(l)
        /\ Night(Worked(l)) \in SUBSET Worked(l)
    BY DEF Inside, Outside, Night
  <2> QED BY <2>1, HoursOfLog
<1>3. percent \in Int /\ OvertimeMultiplier(percent) \in Int
  <2>1. FALSE \in BOOLEAN
    OBVIOUS
  <2> QED BY <2>1, PercentIs, Zenon
<1>4. BaseLog(x, cutoff, acc, l) =
        IF l.absent THEN BaseAbsent(x, acc, l)
        ELSE [used |-> [acc.used EXCEPT ![d] = @ + regular],
              paid |-> IF x.holidays[d] = "Regular" THEN acc.paid \cup {d} ELSE acc.paid, earned |-> shown]
  BY DEF BaseLog
<1> HIDE DEF i, d, inside, outside, percent, night
<1>5. regular \in Int
  <2>1. Standard - acc.used[d] \in Int
    BY <1>1
  <2> QED BY <1>2, <2>1, AtMostIs, Zenon
<1> HIDE DEF regular
<1>6. ot \in Int
  <2>1. AtMost(l.approved, outside) \in Int
    BY <1>1, <1>2, AtMostIs
  <2> QED BY <1>2, <1>5, <2>1
<1> HIDE DEF ot
<1>7. premium \in Int /\ Pay(Standard, 100) \in Int /\ Pay(regular, 100) \in Int
      /\ Pay(ot, OvertimeMultiplier(percent)) \in Int
  <2>1. percent - 100 \in Int /\ 100 \in Int
    BY <1>3
  <2> QED BY <1>1, <1>3, <1>5, <1>6, <2>1, PayIsInteger, Zenon
<1> HIDE DEF premium
<1>8. holiday \in Int
  BY <1>7, AtMostIs
<1>9. nd \in Int
  BY <1>2, <1>5, <1>6, AtMostIs
<1>10. nd * percent \in Int
  BY <1>3, <1>9
<1> HIDE DEF holiday, nd
<1>11. earned \in Good
  BY <1>1, <1>7, <1>8, <1>10, EarnedAddsUp
<1> HIDE DEF earned
<1>12. shown \in Good
  <2>1. /\ earned \in Results /\ earned.regularHours + regular \in Int
        /\ earned.otHours + ot \in Int /\ earned.ndHours + nd \in Int
    BY <1>5, <1>6, <1>9, <1>11 DEF Good, Results
  <2>2. shown = [earned EXCEPT !.regularHours = earned.regularHours + regular,
                               !.otHours = earned.otHours + ot, !.ndHours = earned.ndHours + nd]
    BY <2>1 DEF Results
  <2> QED BY <1>11, <2>1, <2>2, CountedAddsUp
<1> HIDE DEF shown
<1>13. CASE l.absent
  <2>1. Earned(acc.earned, l.date, 0, 0, 0, Pay(Standard, 100)) \in Good
    <3>1. l.date \in Days /\ 0 \in Int
      BY <1>1 DEF d
    <3> QED BY <1>1, <1>7, <3>1, EarnedAddsUp, Zenon
  <2>2. BaseAbsent(x, acc, l) \in BaseStates
    BY <1>1, <2>1 DEF BaseAbsent, BaseStates, d
  <2> QED BY <1>4, <1>13, <2>2
<1>14. CASE ~l.absent
  <2>1. [acc.used EXCEPT ![d] = @ + regular] \in [Days -> Int]
    BY <1>1, <1>5
  <2> QED BY <1>1, <1>4, <1>12, <1>14, <2>1 DEF BaseStates
<1> QED BY <1>13, <1>14

(* A fold over a sequence stays where its steps stay. *)
BaseFold(x, cutoff, base, s) == FoldLeft(LAMBDA a, l : BaseLog(x, cutoff, a, l), base, s)

LEMMA BaseFoldAddsUp ==
  ASSUME NEW x \in Inputs, NEW cutoff, NEW base \in BaseStates, NEW s \in Seq(LogType)
  PROVE  BaseFold(x, cutoff, base, s) \in BaseStates
<1> DEFINE D == 1..Len(s)
           step == [p \in BaseStates \X D |-> BaseLog(x, cutoff, p[1], s[p[2]])]
           IsIt(it) == it = [t \in SUBSET D |->
                               IF t = {} THEN base ELSE BaseLog(x, cutoff, it[t \ {Max(t)}], s[Max(t)])]
           it == CHOOSE it : IsIt(it)
<1>1. D = DOMAIN s /\ IsFiniteSet(D) /\ D \subseteq Nat /\ \A k \in D : s[k] \in LogType
  BY FS_Interval
<1>2. step \in [BaseStates \X D -> BaseStates]
  BY <1>1, BaseLogKeeps
<1>3. \A a \in BaseStates, k \in D : step[a, k] = BaseLog(x, cutoff, a, s[k])
  OBVIOUS
<1> HIDE DEF D, step
<1>4. \E f : IsIt(f)
  <2>1. PICK f : FoldsUp(f, base, step, D, BaseStates)
    BY <1>1, <1>2, FoldExists
  <2>2. \A t \in SUBSET D : f[t] = IF t = {} THEN base ELSE BaseLog(x, cutoff, f[t \ {Max(t)}], s[Max(t)])
    BY <1>3, <2>1 DEF FoldsUp
  <2>3. IsIt(f)
    BY <2>1, <2>2 DEF FoldsUp
  <2> QED BY <2>3
<1>5. IsIt(it)
  BY <1>4, Zenon
<1>6. BaseFold(x, cutoff, base, s) = it[D]
  BY <1>1, ZenonT(90) DEF BaseFold, FoldLeft, MapThenFoldSet
<1> HIDE DEF it
<1>7. \A t \in SUBSET D : it[t] = IF t = {} THEN base ELSE BaseLog(x, cutoff, it[t \ {Max(t)}], s[Max(t)])
  BY <1>5
<1>8. ASSUME NEW t \in SUBSET D, t # {}, it[t \ {Max(t)}] \in BaseStates PROVE it[t] \in BaseStates
  <2>1. s[Max(t)] \in LogType
    BY <1>1, <1>8, LastIn
  <2>2. it[t] = BaseLog(x, cutoff, it[t \ {Max(t)}], s[Max(t)])
    BY <1>7, <1>8
  <2> QED BY <1>8, <2>1, <2>2, BaseLogKeeps
<1>9. it[{}] \in BaseStates
  BY <1>7
<1>10. it[D] \in BaseStates
  BY <1>1, <1>8, <1>9, FoldStays
<1> QED BY <1>6, <1>10, Zenon
(* What is paid for a holiday on each of some days. *)
LEMMA UnworkedKeeps ==
  ASSUME NEW r \in Good, NEW d \in Days
  PROVE  Earned(r, d, 0, 0, 0, Pay(Standard, 100)) \in Good
<1>1. Pay(Standard, 100) \in Int /\ 0 \in Int
  <2>1. 100 \in Int
    OBVIOUS
  <2> QED BY <2>1, PayIsInteger, StandardIs
<1> QED BY <1>1, EarnedAddsUp

UnworkedFold(base, s) == FoldLeft(LAMBDA r, d : Earned(r, d, 0, 0, 0, Pay(Standard, 100)), base, s)

LEMMA UnworkedFoldAddsUp ==
  ASSUME NEW base \in Good, NEW s \in Seq(Days)
  PROVE  UnworkedFold(base, s) \in Good
<1> DEFINE D == 1..Len(s)
           step == [p \in Good \X D |-> Earned(p[1], s[p[2]], 0, 0, 0, Pay(Standard, 100))]
           IsIt(it) == it = [t \in SUBSET D |-> IF t = {} THEN base ELSE Earned(it[t \ {Max(t)}], s[Max(t)], 0, 0, 0, Pay(Standard, 100))]
           it == CHOOSE it : IsIt(it)
<1>1. D = DOMAIN s /\ IsFiniteSet(D) /\ D \subseteq Nat /\ \A k \in D : s[k] \in Days
  BY FS_Interval
<1>2. step \in [Good \X D -> Good]
  BY <1>1, UnworkedKeeps
<1>3. \A a \in Good, k \in D : step[a, k] = Earned(a, s[k], 0, 0, 0, Pay(Standard, 100))
  OBVIOUS
<1> HIDE DEF D, step
<1>4. \E f : IsIt(f)
  <2>1. PICK f : FoldsUp(f, base, step, D, Good)
    BY <1>1, <1>2, FoldExists
  <2>2. \A t \in SUBSET D : f[t] = IF t = {} THEN base ELSE Earned(f[t \ {Max(t)}], s[Max(t)], 0, 0, 0, Pay(Standard, 100))
    BY <1>3, <2>1 DEF FoldsUp
  <2>3. IsIt(f)
    BY <2>1, <2>2 DEF FoldsUp
  <2> QED BY <2>3
<1>5. IsIt(it)
  BY <1>4, Zenon
<1>6. UnworkedFold(base, s) = it[D]
  BY <1>1, ZenonT(90) DEF UnworkedFold, FoldLeft, MapThenFoldSet
<1> HIDE DEF it
<1>7. \A t \in SUBSET D : it[t] = IF t = {} THEN base ELSE Earned(it[t \ {Max(t)}], s[Max(t)], 0, 0, 0, Pay(Standard, 100))
  BY <1>5
<1>8. ASSUME NEW t \in SUBSET D, t # {}, it[t \ {Max(t)}] \in Good PROVE it[t] \in Good
  <2>1. s[Max(t)] \in Days
    BY <1>1, <1>8, LastIn
  <2>2. it[t] = Earned(it[t \ {Max(t)}], s[Max(t)], 0, 0, 0, Pay(Standard, 100))
    BY <1>7, <1>8
  <2> QED BY <1>8, <2>1, <2>2, UnworkedKeeps
<1>9. it[{}] \in Good
  BY <1>7
<1>10. it[D] \in Good
  BY <1>1, <1>8, <1>9, FoldStays
<1> QED BY <1>6, <1>10, Zenon

LEMMA BaseAddsUp ==
  ASSUME NEW x \in Inputs, NEW cutoff \in SUBSET Days
  PROVE  Base(x, cutoff) \in Good
<1> DEFINE start == [used |-> [d \in Days |-> 0], paid |-> {}, earned |-> Nothing]
           acc == BaseFold(x, cutoff, start, LogsIn(x, cutoff))
           days == Unworked(x, cutoff, acc.paid)
<1>1. Base(x, cutoff) = UnworkedFold(acc.earned, SetToSeq(days))
  BY Zenon DEF Base, BaseFold, UnworkedFold
<1>2. start \in BaseStates
  BY NothingAddsUp DEF BaseStates
<1>3. acc \in BaseStates
  <2>1. LogsIn(x, cutoff) \in Seq(LogType)
    BY LogsInAre
  <2> HIDE DEF start
  <2> QED BY <1>2, <2>1, BaseFoldAddsUp, Zenon
<1> HIDE DEF acc, start
<1>4. acc.earned \in Good
  BY <1>3 DEF BaseStates
<1>5. SetToSeq(days) \in Seq(Days)
  <2>1. days \subseteq cutoff
    BY DEF Unworked
  <2> HIDE DEF days
  <2>2. IsFiniteSet(days) /\ days \subseteq Days
    BY <2>1, TheMonths, FS_Subset
  <2>3. SetToSeq(days) \in Seq(days)
    BY <2>2, SetToSeqIs
  <2> QED BY <2>2, <2>3
<1> HIDE DEF days
<1> QED BY <1>1, <1>4, <1>5, UnworkedFoldAddsUp, Zenon

-----------------------------------------------------------------------------
(* Pass 2. *)
PoolStates == [used : Int, earned : Good]

LEMMA CorrectedKeeps ==
  ASSUME NEW acc \in PoolStates, NEW d \in Days, NEW old \in Int, NEW regular \in Int, NEW ot \in Int,
         NEW type
  PROVE  Corrected(acc, d, old, regular, ot, DayMultiplier(type, FALSE)) \in PoolStates
<1> DEFINE percent == DayMultiplier(type, FALSE)
           earned == Earned(acc.earned, d, Pay(regular, 100), Pay(ot, OvertimeMultiplier(percent)), 0,
                            Pay(regular, percent - 100))
           shown == [earned EXCEPT !.regularHours = @ + regular, !.otHours = @ + ot]
<1>1. percent \in Int /\ OvertimeMultiplier(percent) \in Int
  <2>1. FALSE \in BOOLEAN
    OBVIOUS
  <2> QED BY <2>1, PercentIs, Zenon
<1>2. Corrected(acc, d, old, regular, ot, percent) = [used |-> acc.used + old, earned |-> shown]
  BY DEF Corrected
<1> HIDE DEF percent
<1>3. Pay(regular, 100) \in Int /\ Pay(ot, OvertimeMultiplier(percent)) \in Int /\ Pay(regular, percent - 100) \in Int
  <2>1. percent - 100 \in Int /\ 100 \in Int
    BY <1>1
  <2> QED BY <1>1, <2>1, PayIsInteger, Zenon
<1>4. earned \in Good
  <2>1. acc.earned \in Good /\ 0 \in Int
    BY DEF PoolStates
  <2> QED BY <1>3, <2>1, EarnedAddsUp
<1> HIDE DEF earned
<1>5. shown \in Good
  <2>1. /\ earned \in Results /\ earned.regularHours + regular \in Int
        /\ earned.otHours + ot \in Int /\ earned.ndHours \in Int
    BY <1>4 DEF Good, Results
  <2>2. shown = [earned EXCEPT !.regularHours = earned.regularHours + regular,
                               !.otHours = earned.otHours + ot, !.ndHours = earned.ndHours]
    BY <2>1 DEF Results
  <2> QED BY <1>4, <2>1, <2>2, CountedAddsUp
<1> HIDE DEF shown
<1>6. Corrected(acc, d, old, regular, ot, percent) \in PoolStates
  BY <1>2, <1>5 DEF PoolStates
<1> QED BY <1>6 DEF percent

LEMMA SplitLogKeeps ==
  ASSUME NEW x \in Inputs, NEW cutoff, NEW acc \in PoolStates, NEW l \in LogType
  PROVE  SplitLog(x, cutoff, acc, l) \in PoolStates
<1> DEFINE inside == Cardinality(Inside(x, ScheduleOf(x, cutoff, l), l))
           old == AtMost(AtLeast(0, Standard - acc.used), inside)
           new == AtMost(Standard, inside)
<1>1. inside \in Int
  <2>1. Inside(x, ScheduleOf(x, cutoff, l), l) \in SUBSET Worked(l)
    BY DEF Inside
  <2> QED BY <2>1, HoursOfLog
<1>2. SplitLog(x, cutoff, acc, l) =
        Corrected(acc, l.date, old, new - old, old - new, DayMultiplier(x.holidays[l.date], FALSE))
  BY DEF SplitLog
<1> HIDE DEF inside
<1>3. old \in Int /\ new \in Int
  <2>1. Standard \in Int /\ Standard - acc.used \in Int /\ 0 \in Int
    BY StandardIs DEF PoolStates
  <2>2. AtLeast(0, Standard - acc.used) \in Int
    BY <2>1, AtMostIs, Zenon
  <2> QED BY <1>1, <2>1, <2>2, AtMostIs, Zenon
<1> HIDE DEF old, new
<1>4. new - old \in Int /\ old - new \in Int /\ l.date \in Days
  BY <1>3, LogIs
<1> QED BY <1>2, <1>3, <1>4, CorrectedKeeps, Zenon

LEMMA UnscheduledLogKeeps ==
  ASSUME NEW x \in Inputs, NEW acc \in PoolStates, NEW l \in LogType
  PROVE  UnscheduledLog(x, acc, l) \in PoolStates
<1> DEFINE worked == Cardinality(Worked(l))
           old == AtMost(AtLeast(0, Standard - acc.used), worked)
           excess == worked - old
           ot == AtMost(l.approved, excess) - excess
<1>1. worked \in Int
  BY HoursOfLog
<1>2. UnscheduledLog(x, acc, l) = Corrected(acc, l.date, old, 0, ot, DayMultiplier(x.holidays[l.date], FALSE))
  BY DEF UnscheduledLog
<1> HIDE DEF worked
<1>3. old \in Int
  <2>1. Standard - acc.used \in Int /\ 0 \in Int
    BY StandardIs DEF PoolStates
  <2>2. AtLeast(0, Standard - acc.used) \in Int
    BY <2>1, AtMostIs, Zenon
  <2> QED BY <1>1, <2>2, AtMostIs, Zenon
<1> HIDE DEF old
<1>4. excess \in Int /\ l.approved \in Int /\ l.date \in Days /\ 0 \in Int
  BY <1>1, <1>3, LogIs
<1> HIDE DEF excess
<1>5. ot \in Int
  <2>1. AtMost(l.approved, excess) \in Int
    BY <1>4, AtMostIs, Zenon
  <2> QED BY <1>4, <2>1
<1> HIDE DEF ot
<1> QED BY <1>2, <1>3, <1>4, <1>5, CorrectedKeeps, Zenon

SplitFold(x, cutoff, base, s) == FoldLeft(LAMBDA a, l : SplitLog(x, cutoff, a, l), base, s)

LEMMA SplitFoldAddsUp ==
  ASSUME NEW x \in Inputs, NEW cutoff, NEW base \in PoolStates, NEW s \in Seq(LogType)
  PROVE  SplitFold(x, cutoff, base, s) \in PoolStates
<1> DEFINE D == 1..Len(s)
           step == [p \in PoolStates \X D |-> SplitLog(x, cutoff, p[1], s[p[2]])]
           IsIt(it) == it = [t \in SUBSET D |-> IF t = {} THEN base ELSE SplitLog(x, cutoff, it[t \ {Max(t)}], s[Max(t)])]
           it == CHOOSE it : IsIt(it)
<1>1. D = DOMAIN s /\ IsFiniteSet(D) /\ D \subseteq Nat /\ \A k \in D : s[k] \in LogType
  BY FS_Interval
<1>2. step \in [PoolStates \X D -> PoolStates]
  BY <1>1, SplitLogKeeps
<1>3. \A a \in PoolStates, k \in D : step[a, k] = SplitLog(x, cutoff, a, s[k])
  OBVIOUS
<1> HIDE DEF D, step
<1>4. \E f : IsIt(f)
  <2>1. PICK f : FoldsUp(f, base, step, D, PoolStates)
    BY <1>1, <1>2, FoldExists
  <2>2. \A t \in SUBSET D : f[t] = IF t = {} THEN base ELSE SplitLog(x, cutoff, f[t \ {Max(t)}], s[Max(t)])
    BY <1>3, <2>1 DEF FoldsUp
  <2>3. IsIt(f)
    BY <2>1, <2>2 DEF FoldsUp
  <2> QED BY <2>3
<1>5. IsIt(it)
  BY <1>4, Zenon
<1>6. SplitFold(x, cutoff, base, s) = it[D]
  BY <1>1, ZenonT(90) DEF SplitFold, FoldLeft, MapThenFoldSet
<1> HIDE DEF it
<1>7. \A t \in SUBSET D : it[t] = IF t = {} THEN base ELSE SplitLog(x, cutoff, it[t \ {Max(t)}], s[Max(t)])
  BY <1>5
<1>8. ASSUME NEW t \in SUBSET D, t # {}, it[t \ {Max(t)}] \in PoolStates PROVE it[t] \in PoolStates
  <2>1. s[Max(t)] \in LogType
    BY <1>1, <1>8, LastIn
  <2>2. it[t] = SplitLog(x, cutoff, it[t \ {Max(t)}], s[Max(t)])
    BY <1>7, <1>8
  <2> QED BY <1>8, <2>1, <2>2, SplitLogKeeps
<1>9. it[{}] \in PoolStates
  BY <1>7
<1>10. it[D] \in PoolStates
  BY <1>1, <1>8, <1>9, FoldStays
<1> QED BY <1>6, <1>10, Zenon

UnscheduledFold(x, base, s) == FoldLeft(LAMBDA a, l : UnscheduledLog(x, a, l), base, s)

LEMMA UnscheduledFoldAddsUp ==
  ASSUME NEW x \in Inputs, NEW base \in PoolStates, NEW s \in Seq(LogType)
  PROVE  UnscheduledFold(x, base, s) \in PoolStates
<1> DEFINE D == 1..Len(s)
           step == [p \in PoolStates \X D |-> UnscheduledLog(x, p[1], s[p[2]])]
           IsIt(it) == it = [t \in SUBSET D |-> IF t = {} THEN base ELSE UnscheduledLog(x, it[t \ {Max(t)}], s[Max(t)])]
           it == CHOOSE it : IsIt(it)
<1>1. D = DOMAIN s /\ IsFiniteSet(D) /\ D \subseteq Nat /\ \A k \in D : s[k] \in LogType
  BY FS_Interval
<1>2. step \in [PoolStates \X D -> PoolStates]
  BY <1>1, UnscheduledLogKeeps
<1>3. \A a \in PoolStates, k \in D : step[a, k] = UnscheduledLog(x, a, s[k])
  OBVIOUS
<1> HIDE DEF D, step
<1>4. \E f : IsIt(f)
  <2>1. PICK f : FoldsUp(f, base, step, D, PoolStates)
    BY <1>1, <1>2, FoldExists
  <2>2. \A t \in SUBSET D : f[t] = IF t = {} THEN base ELSE UnscheduledLog(x, f[t \ {Max(t)}], s[Max(t)])
    BY <1>3, <2>1 DEF FoldsUp
  <2>3. IsIt(f)
    BY <2>1, <2>2 DEF FoldsUp
  <2> QED BY <2>3
<1>5. IsIt(it)
  BY <1>4, Zenon
<1>6. UnscheduledFold(x, base, s) = it[D]
  BY <1>1, ZenonT(90) DEF UnscheduledFold, FoldLeft, MapThenFoldSet
<1> HIDE DEF it
<1>7. \A t \in SUBSET D : it[t] = IF t = {} THEN base ELSE UnscheduledLog(x, it[t \ {Max(t)}], s[Max(t)])
  BY <1>5
<1>8. ASSUME NEW t \in SUBSET D, t # {}, it[t \ {Max(t)}] \in PoolStates PROVE it[t] \in PoolStates
  <2>1. s[Max(t)] \in LogType
    BY <1>1, <1>8, LastIn
  <2>2. it[t] = UnscheduledLog(x, it[t \ {Max(t)}], s[Max(t)])
    BY <1>7, <1>8
  <2> QED BY <1>8, <2>1, <2>2, UnscheduledLogKeeps
<1>9. it[{}] \in PoolStates
  BY <1>7
<1>10. it[D] \in PoolStates
  BY <1>1, <1>8, <1>9, FoldStays
<1> QED BY <1>6, <1>10, Zenon

LEMMA SplitDayAddsUp ==
  ASSUME NEW x \in Inputs, NEW cutoff, NEW r \in Good, NEW d
  PROVE  SplitDay(x, cutoff, r, d) \in Good
<1> DEFINE base == [used |-> 0, earned |-> r]
           acc == SplitFold(x, cutoff, base, MatchedOn(x, cutoff, d))
<1>1. base \in PoolStates
  BY DEF PoolStates
<1>2. SplitDay(x, cutoff, r, d) = acc.earned
  BY Zenon DEF SplitDay, SplitFold
<1>3. MatchedOn(x, cutoff, d) \in Seq(LogType)
  BY PresentOnAre DEF MatchedOn
<1> HIDE DEF base
<1>4. acc \in PoolStates
  BY <1>1, <1>3, SplitFoldAddsUp, Zenon
<1> HIDE DEF acc
<1> QED BY <1>2, <1>4 DEF PoolStates

LEMMA UnscheduledDayAddsUp ==
  ASSUME NEW x \in Inputs, NEW cutoff, NEW r \in Good, NEW d
  PROVE  UnscheduledDay(x, cutoff, r, d) \in Good
<1> DEFINE base == [used |-> 0, earned |-> r]
           acc == UnscheduledFold(x, base, UnscheduledOn(x, cutoff, d))
<1>1. base \in PoolStates
  BY DEF PoolStates
<1>2. UnscheduledDay(x, cutoff, r, d) = acc.earned
  BY Zenon DEF UnscheduledDay, UnscheduledFold
<1>3. UnscheduledOn(x, cutoff, d) \in Seq(LogType)
  <2>1. PresentOn(x, cutoff, d, FALSE) \in Seq(LogType)
    BY PresentOnAre, Zenon
  <2>2. <<>> \in Seq(LogType)
    OBVIOUS
  <2> QED BY <2>1, <2>2, Zenon DEF UnscheduledOn
<1> HIDE DEF base
<1>4. acc \in PoolStates
  BY <1>1, <1>3, UnscheduledFoldAddsUp, Zenon
<1> HIDE DEF acc
<1> QED BY <1>2, <1>4 DEF PoolStates

SplitDaysFold(x, cutoff, base, s) == FoldLeft(LAMBDA q, d : SplitDay(x, cutoff, q, d), base, s)

LEMMA SplitDaysAddUp ==
  ASSUME NEW x \in Inputs, NEW cutoff, NEW base \in Good, NEW s \in Seq(Days)
  PROVE  SplitDaysFold(x, cutoff, base, s) \in Good
<1> DEFINE D == 1..Len(s)
           step == [p \in Good \X D |-> SplitDay(x, cutoff, p[1], s[p[2]])]
           IsIt(it) == it = [t \in SUBSET D |-> IF t = {} THEN base ELSE SplitDay(x, cutoff, it[t \ {Max(t)}], s[Max(t)])]
           it == CHOOSE it : IsIt(it)
<1>1. D = DOMAIN s /\ IsFiniteSet(D) /\ D \subseteq Nat /\ \A k \in D : s[k] \in Days
  BY FS_Interval
<1>2. step \in [Good \X D -> Good]
  BY <1>1, SplitDayAddsUp
<1>3. \A a \in Good, k \in D : step[a, k] = SplitDay(x, cutoff, a, s[k])
  OBVIOUS
<1> HIDE DEF D, step
<1>4. \E f : IsIt(f)
  <2>1. PICK f : FoldsUp(f, base, step, D, Good)
    BY <1>1, <1>2, FoldExists
  <2>2. \A t \in SUBSET D : f[t] = IF t = {} THEN base ELSE SplitDay(x, cutoff, f[t \ {Max(t)}], s[Max(t)])
    BY <1>3, <2>1 DEF FoldsUp
  <2>3. IsIt(f)
    BY <2>1, <2>2 DEF FoldsUp
  <2> QED BY <2>3
<1>5. IsIt(it)
  BY <1>4, Zenon
<1>6. SplitDaysFold(x, cutoff, base, s) = it[D]
  BY <1>1, ZenonT(90) DEF SplitDaysFold, FoldLeft, MapThenFoldSet
<1> HIDE DEF it
<1>7. \A t \in SUBSET D : it[t] = IF t = {} THEN base ELSE SplitDay(x, cutoff, it[t \ {Max(t)}], s[Max(t)])
  BY <1>5
<1>8. ASSUME NEW t \in SUBSET D, t # {}, it[t \ {Max(t)}] \in Good PROVE it[t] \in Good
  <2>1. s[Max(t)] \in Days
    BY <1>1, <1>8, LastIn
  <2>2. it[t] = SplitDay(x, cutoff, it[t \ {Max(t)}], s[Max(t)])
    BY <1>7, <1>8
  <2> QED BY <1>8, <2>1, <2>2, SplitDayAddsUp
<1>9. it[{}] \in Good
  BY <1>7
<1>10. it[D] \in Good
  BY <1>1, <1>8, <1>9, FoldStays
<1> QED BY <1>6, <1>10, Zenon

UnscheduledDaysFold(x, cutoff, base, s) == FoldLeft(LAMBDA q, d : UnscheduledDay(x, cutoff, q, d), base, s)

LEMMA UnscheduledDaysAddUp ==
  ASSUME NEW x \in Inputs, NEW cutoff, NEW base \in Good, NEW s \in Seq(Days)
  PROVE  UnscheduledDaysFold(x, cutoff, base, s) \in Good
<1> DEFINE D == 1..Len(s)
           step == [p \in Good \X D |-> UnscheduledDay(x, cutoff, p[1], s[p[2]])]
           IsIt(it) == it = [t \in SUBSET D |-> IF t = {} THEN base ELSE UnscheduledDay(x, cutoff, it[t \ {Max(t)}], s[Max(t)])]
           it == CHOOSE it : IsIt(it)
<1>1. D = DOMAIN s /\ IsFiniteSet(D) /\ D \subseteq Nat /\ \A k \in D : s[k] \in Days
  BY FS_Interval
<1>2. step \in [Good \X D -> Good]
  BY <1>1, UnscheduledDayAddsUp
<1>3. \A a \in Good, k \in D : step[a, k] = UnscheduledDay(x, cutoff, a, s[k])
  OBVIOUS
<1> HIDE DEF D, step
<1>4. \E f : IsIt(f)
  <2>1. PICK f : FoldsUp(f, base, step, D, Good)
    BY <1>1, <1>2, FoldExists
  <2>2. \A t \in SUBSET D : f[t] = IF t = {} THEN base ELSE UnscheduledDay(x, cutoff, f[t \ {Max(t)}], s[Max(t)])
    BY <1>3, <2>1 DEF FoldsUp
  <2>3. IsIt(f)
    BY <2>1, <2>2 DEF FoldsUp
  <2> QED BY <2>3
<1>5. IsIt(it)
  BY <1>4, Zenon
<1>6. UnscheduledDaysFold(x, cutoff, base, s) = it[D]
  BY <1>1, ZenonT(90) DEF UnscheduledDaysFold, FoldLeft, MapThenFoldSet
<1> HIDE DEF it
<1>7. \A t \in SUBSET D : it[t] = IF t = {} THEN base ELSE UnscheduledDay(x, cutoff, it[t \ {Max(t)}], s[Max(t)])
  BY <1>5
<1>8. ASSUME NEW t \in SUBSET D, t # {}, it[t \ {Max(t)}] \in Good PROVE it[t] \in Good
  <2>1. s[Max(t)] \in Days
    BY <1>1, <1>8, LastIn
  <2>2. it[t] = UnscheduledDay(x, cutoff, it[t \ {Max(t)}], s[Max(t)])
    BY <1>7, <1>8
  <2> QED BY <1>8, <2>1, <2>2, UnscheduledDayAddsUp
<1>9. it[{}] \in Good
  BY <1>7
<1>10. it[D] \in Good
  BY <1>1, <1>8, <1>9, FoldStays
<1> QED BY <1>6, <1>10, Zenon

LEMMA DaysInOrder ==
  ASSUME NEW days \in SUBSET Days
  PROVE  SetToSeq(days) \in Seq(Days)
<1>1. IsFiniteSet(days)
  BY TheMonths, FS_Subset
<1>2. SetToSeq(days) \in Seq(days)
  BY <1>1, SetToSeqIs
<1> QED BY <1>2

LEMMA PerShiftAddsUp ==
  ASSUME NEW x \in Inputs, NEW cutoff \in SUBSET Days, NEW r \in Good
  PROVE  PerShift(x, cutoff, r) \in Good
<1> DEFINE split == SplitDaysFold(x, cutoff, r, SetToSeq(SplitDays(x, cutoff)))
<1>1. PerShift(x, cutoff, r) = UnscheduledDaysFold(x, cutoff, split, SetToSeq(cutoff))
  BY Zenon DEF PerShift, SplitDaysFold, UnscheduledDaysFold
<1>2. SetToSeq(cutoff) \in Seq(Days) /\ SetToSeq(SplitDays(x, cutoff)) \in Seq(Days)
  <2>1. SplitDays(x, cutoff) \in SUBSET Days
    BY DEF SplitDays
  <2> QED BY <2>1, DaysInOrder
<1>3. split \in Good
  BY <1>2, SplitDaysAddUp, Zenon
<1> HIDE DEF split
<1> QED BY <1>1, <1>2, <1>3, UnscheduledDaysAddUp, Zenon

-----------------------------------------------------------------------------
(* The segments of a cutoff are finitely many. *)
FiniteHours == {hours \in SUBSET Int : IsFiniteSet(hours)}

LEMMA RegularLogKeeps ==
  ASSUME NEW x \in Inputs, NEW cutoff, NEW done \in Seq(FiniteHours), NEW l \in LogType
  PROVE  /\ RegularLog(x, cutoff, done, l) \in Seq(FiniteHours)
         /\ Len(RegularLog(x, cutoff, done, l)) = Len(done) + 1
<1> DEFINE logs == LogsIn(x, cutoff)
           used == FoldLeft(+, 0, [j \in DOMAIN done |->
                     IF Key(x, cutoff, logs[j]) = Key(x, cutoff, l) THEN Cardinality(done[j]) ELSE 0])
           hours == First(Inside(x, ScheduleOf(x, cutoff, l), l), AtLeast(0, Standard - used))
           more == IF l.absent THEN {} ELSE hours
<1>1. RegularLog(x, cutoff, done, l) = Append(done, more)
  BY Zenon DEF RegularLog
<1> HIDE DEF used
<1>2. hours \in SUBSET Worked(l) /\ {} \in SUBSET Worked(l)
  BY DEF First, Inside
<1>3. more \in SUBSET Worked(l)
  BY <1>2
<1> HIDE DEF more
<1>4. more \in FiniteHours
  BY <1>3, HoursOfLog DEF FiniteHours
<1> QED BY <1>1, <1>4

LEMMA AllButTheLast ==
  ASSUME NEW D, IsFiniteSet(D), D \subseteq Nat, NEW t \in SUBSET D, t # {}
  PROVE  Cardinality(t) = Cardinality(t \ {Max(t)}) + 1
<1>1. Max(t) \in t /\ IsFiniteSet(t)
  BY LastIn, FS_Subset
<1> DEFINE y == Max(t)
<1> HIDE DEF y
<1>2. y \in t
  BY <1>1 DEF y
<1>3. Cardinality(t \ {y}) = Cardinality(t) - 1 /\ Cardinality(t) \in Nat
  BY <1>1, <1>2, FS_RemoveElement, FS_CardinalityType
<1>4. Cardinality(t) = Cardinality(t \ {y}) + 1
  BY <1>3
<1> QED BY <1>4 DEF y

(* Every log has its regular hours, at its place. *)
LEMMA RegularIs ==
  ASSUME NEW x \in Inputs, NEW cutoff
  PROVE  /\ Regular(x, cutoff) \in Seq(FiniteHours)
         /\ DOMAIN Regular(x, cutoff) = DOMAIN LogsIn(x, cutoff)
<1> DEFINE s == LogsIn(x, cutoff)
           D == 1..Len(s)
           step == [p \in Seq(FiniteHours) \X D |-> RegularLog(x, cutoff, p[1], s[p[2]])]
           IsIt(it) == it = [t \in SUBSET D |->
                               IF t = {} THEN <<>> ELSE RegularLog(x, cutoff, it[t \ {Max(t)}], s[Max(t)])]
           it == CHOOSE it : IsIt(it)
           Yes == {TRUE}
           fits == [t \in SUBSET D |-> it[t] \in Seq(FiniteHours) /\ Len(it[t]) = Cardinality(t)]
<1>1. s \in Seq(LogType)
  BY LogsInAre
<1>2. Regular(x, cutoff) = FoldLeft(LAMBDA done, l : RegularLog(x, cutoff, done, l), <<>>, s)
  BY Zenon DEF Regular
<1> HIDE DEF s
<1>3. D = DOMAIN s /\ IsFiniteSet(D) /\ D \subseteq Nat /\ \A k \in D : s[k] \in LogType
  BY <1>1, FS_Interval
<1>4. Cardinality(D) = Len(s) /\ Len(s) \in Nat
  BY <1>1, FS_Interval
<1>5. step \in [Seq(FiniteHours) \X D -> Seq(FiniteHours)]
  BY <1>3, RegularLogKeeps
<1>6. \A a \in Seq(FiniteHours), k \in D : step[a, k] = RegularLog(x, cutoff, a, s[k])
  OBVIOUS
<1>7. <<>> \in Seq(FiniteHours) /\ Len(<<>>) = 0
  OBVIOUS
<1> HIDE DEF D, step
<1>8. \E f : IsIt(f)
  <2>1. PICK f : FoldsUp(f, <<>>, step, D, Seq(FiniteHours))
    BY <1>3, <1>5, <1>7, FoldExists
  <2>2. \A t \in SUBSET D : f[t] = IF t = {} THEN <<>> ELSE RegularLog(x, cutoff, f[t \ {Max(t)}], s[Max(t)])
    BY <1>6, <2>1 DEF FoldsUp
  <2>3. IsIt(f)
    BY <2>1, <2>2 DEF FoldsUp
  <2> QED BY <2>3
<1>9. IsIt(it)
  BY <1>8, Zenon
<1>10. Regular(x, cutoff) = it[D]
  BY <1>2, <1>3, ZenonT(90) DEF FoldLeft, MapThenFoldSet
<1> HIDE DEF it
<1>11. \A t \in SUBSET D : it[t] = IF t = {} THEN <<>> ELSE RegularLog(x, cutoff, it[t \ {Max(t)}], s[Max(t)])
  BY <1>9
<1>12. ASSUME NEW t \in SUBSET D, t # {}, fits[t \ {Max(t)}] \in Yes PROVE fits[t] \in Yes
  <2> DEFINE r == t \ {Max(t)}
  <2>1. r \in SUBSET D
    OBVIOUS
  <2>2. it[r] \in Seq(FiniteHours) /\ Len(it[r]) = Cardinality(r)
    BY <1>12, <2>1
  <2>3. s[Max(t)] \in LogType
    BY <1>3, <1>12, LastIn
  <2>4. it[t] = RegularLog(x, cutoff, it[r], s[Max(t)])
    BY <1>11, <1>12
  <2>5. Cardinality(t) = Cardinality(r) + 1
    BY <1>3, <1>12, AllButTheLast
  <2> HIDE DEF r
  <2>6. it[t] \in Seq(FiniteHours) /\ Len(it[t]) = Len(it[r]) + 1
    BY <2>2, <2>3, <2>4, RegularLogKeeps
  <2>7. Len(it[t]) = Cardinality(t)
    BY <2>2, <2>5, <2>6
  <2> QED BY <2>6, <2>7
<1>13. fits[{}] \in Yes
  BY <1>7, <1>11, FS_EmptySet
<1> HIDE DEF fits, Yes
<1>14. fits[D] \in Yes
  BY <1>3, <1>12, <1>13, FoldStays
<1>15. it[D] \in Seq(FiniteHours) /\ Len(it[D]) = Cardinality(D)
  BY <1>14 DEF fits, Yes
<1>16. DOMAIN it[D] = 1..Cardinality(D)
  BY <1>15
<1> QED BY <1>3, <1>4, <1>10, <1>15, <1>16 DEF s, D

LEMMA PartIsFinite ==
  ASSUME NEW log, NEW at, NEW shift, NEW overtime, NEW hours, IsFiniteSet(hours)
  PROVE  IsFiniteSet([log : {log}, at : {at}, shift : {shift}, hour : hours, overtime : {overtime}])
<1> DEFINE T == [log : {log}, at : {at}, shift : {shift}, hour : hours, overtime : {overtime}]
           f == [h \in hours |-> [log |-> log, at |-> at, shift |-> shift, hour |-> h, overtime |-> overtime]]
<1>1. f \in Surjection(hours, T)
  <2>1. f \in [hours -> T]
    OBVIOUS
  <2>2. ASSUME NEW s \in T PROVE \E h \in hours : f[h] = s
    <3>1. s.hour \in hours /\ f[s.hour] = s
      OBVIOUS
    <3> QED BY <3>1
  <2> QED BY <2>1, <2>2 DEF Surjection
<1> HIDE DEF f, T
<1>2. IsFiniteSet(T)
  BY <1>1, FS_Surjection
<1> QED BY <1>2 DEF T

LEMMA SegmentsAreFinite ==
  ASSUME NEW x \in Inputs, NEW cutoff
  PROVE  IsFiniteSet(Segments(x, cutoff))
<1> DEFINE logs == LogsIn(x, cutoff)
           regular == Regular(x, cutoff)
           Of(k, hours, overtime) ==
             [log : {logs[k]}, at : {k}, shift : {ScheduleOf(x, cutoff, logs[k])}, hour : hours, overtime : {overtime}]
           OfLog(k) == Of(k, regular[k], FALSE) \cup Of(k, Overtime(x, cutoff, logs[k], regular[k]), TRUE)
           D == DOMAIN logs
           all == {OfLog(k) : k \in D}
<1>1. Segments(x, cutoff) = UNION all
  BY Zenon DEF Segments
<1>2. logs \in Seq(LogType) /\ regular \in Seq(FiniteHours) /\ DOMAIN regular = D
  BY LogsInAre, RegularIs
<1>3. ASSUME NEW k \in D PROVE IsFiniteSet(OfLog(k))
  <2> DEFINE hours == regular[k]
             overtime == Overtime(x, cutoff, logs[k], hours)
  <2>1. logs[k] \in LogType /\ hours \in FiniteHours
    BY <1>2
  <2>2. IsFiniteSet(hours)
    BY <2>1 DEF FiniteHours
  <2>3. overtime \in SUBSET Worked(logs[k])
    BY DEF Overtime, ApprovedOutside, First, Inside, Outside
  <2> HIDE DEF overtime
  <2>4. IsFiniteSet(overtime)
    BY <2>1, <2>3, HoursOfLog
  <2> HIDE DEF hours, logs
  <2>5. IsFiniteSet(Of(k, hours, FALSE)) /\ IsFiniteSet(Of(k, overtime, TRUE))
    BY <2>2, <2>4, PartIsFinite
  <2> HIDE DEF Of
  <2>6. IsFiniteSet(Of(k, hours, FALSE) \cup Of(k, overtime, TRUE))
    BY <2>5, FS_Union
  <2> QED BY <2>6 DEF hours, overtime
<1>4. IsFiniteSet(all)
  <2> DEFINE g == [k \in D |-> OfLog(k)]
  <2>1. IsFiniteSet(D)
    <3>1. D = 1..Len(logs) /\ Len(logs) \in Nat
      BY <1>2
    <3> QED BY <3>1, FS_Interval
  <2> HIDE DEF OfLog, D
  <2>2. g \in Surjection(D, all)
    BY DEF Surjection
  <2> HIDE DEF g, all
  <2> QED BY <2>1, <2>2, FS_Surjection
<1>5. \A T \in all : IsFiniteSet(T)
  <2> HIDE DEF OfLog, D
  <2> QED BY <1>3
<1> HIDE DEF all
<1> QED BY <1>1, <1>4, <1>5, FS_UNION

LEMMA RatesAre ==
  ASSUME NEW x, NEW s
  PROVE  MultiplierAt(x, s) \in Percents /\ MultiplierAt(x, s) \in Int /\ Rated(x, s) \in Int
<1> DEFINE early == \A w \in Window(x, s.shift, s.log) : s.hour < w
           own == IF s.shift = 0 THEN s.log.date
                  ELSE IF early THEN DateOf(s.hour) ELSE x.shifts[s.shift].date
           rest == own \in x.rest
           type == x.holidays[DateOf(s.hour)]
<1>1. MultiplierAt(x, s) = DayMultiplier(type, rest)
  BY Zenon DEF MultiplierAt
<1>2. rest \in BOOLEAN
  <2> HIDE DEF own
  <2> QED OBVIOUS
<1> HIDE DEF rest, type
<1>3. /\ MultiplierAt(x, s) \in Percents /\ MultiplierAt(x, s) \in Int
      /\ OvertimeMultiplier(MultiplierAt(x, s)) \in Int
  BY <1>1, <1>2, PercentIs, Zenon
<1> QED BY <1>3, Zenon DEF Rated

LEMMA PremiumIs ==
  ASSUME NEW x, NEW s
  PROVE  Premium(x, s) \in Int /\ Pay(1, Rated(x, s)) \in Int
<1>1. 1 \in Int /\ 0 \in Int /\ MultiplierAt(x, s) \in Int /\ Rated(x, s) \in Int
  BY RatesAre
<1>2. MultiplierAt(x, s) - 100 \in Int
  BY <1>1
<1>3. Pay(1, MultiplierAt(x, s) - 100) \in Int /\ Pay(1, Rated(x, s)) \in Int
  BY <1>1, <1>2, PayIsInteger, Zenon
<1> QED BY <1>1, <1>3, Zenon DEF Premium

LEMMA GuaranteeIs ==
  ASSUME NEW x, NEW segments, IsFiniteSet(segments), NEW d
  PROVE  GuaranteeOn(x, segments, d) \in Int
<1> DEFINE worked == {s \in segments : DateOf(s.hour) = d /\ ~s.overtime}
           rates == {200} \cup {MultiplierAt(x, s) : s \in worked}
           percent == Max(rates)
<1>1. GuaranteeOn(x, segments, d) =
        IF Refused(x, d) THEN Pay(Cardinality(worked), percent - 100)
        ELSE Pay(Standard, 100) + Pay(Cardinality(worked), percent - 200)
  BY Zenon DEF GuaranteeOn
<1>2. Cardinality(worked) \in Int
  <2>1. IsFiniteSet(worked)
    BY FS_Subset
  <2> HIDE DEF worked
  <2>2. Cardinality(worked) \in Nat
    BY <2>1, FS_CardinalityType
  <2> QED BY <2>2
<1> HIDE DEF worked
<1>3. percent \in Int
  <2>1. rates \subseteq Percents /\ rates # {}
    BY RatesAre DEF Percents
  <2> HIDE DEF rates
  <2>2. IsFiniteSet(rates) /\ rates \subseteq Nat
    <3>1. rates \subseteq 100..260
      BY <2>1 DEF Percents
    <3>2. 100 \in Int /\ 260 \in Int
      OBVIOUS
    <3>3. IsFiniteSet(100..260)
      BY <3>2, FS_Interval, Zenon
    <3>4. 100..260 \subseteq Nat
      OBVIOUS
    <3> QED BY <3>1, <3>3, <3>4, FS_Subset
  <2>3. Max(rates) \in rates
    BY <2>1, <2>2, MaxIsLast
  <2>4. \A n \in Nat : n \in Int
    OBVIOUS
  <2> QED BY <2>2, <2>3, <2>4, Zenon
<1> HIDE DEF percent
<1>4. percent - 100 \in Int /\ percent - 200 \in Int /\ Standard \in Int /\ 100 \in Int
  BY <1>3, StandardIs
<1>5. /\ Pay(Cardinality(worked), percent - 100) \in Int /\ Pay(Standard, 100) \in Int
      /\ Pay(Cardinality(worked), percent - 200) \in Int
  BY <1>2, <1>4, PayIsInteger, Zenon
<1> DEFINE premium == Pay(Cardinality(worked), percent - 100)
           guaranteed == Pay(Standard, 100)
           above == Pay(Cardinality(worked), percent - 200)
<1>6. GuaranteeOn(x, segments, d) = IF Refused(x, d) THEN premium ELSE guaranteed + above
  BY <1>1
<1>7. premium \in Int /\ guaranteed \in Int /\ above \in Int
  BY <1>5
<1> HIDE DEF rates, premium, guaranteed, above
<1>8. guaranteed + above \in Int
  BY <1>7
<1> QED BY <1>6, <1>7, <1>8, Zenon

-----------------------------------------------------------------------------
(* Passes 3 and 4 put sums over segments in the place of what was computed. *)
LEMMA ReplacedAddsUp ==
  ASSUME NEW dated \in [Months -> Int], NEW old \in [Months -> Int], NEW new \in [Months -> Int]
  PROVE  /\ Replaced(dated, old, new) \in [Months -> Int]
         /\ Summed(Replaced(dated, old, new)) = Summed(dated) + Summed(new) - Summed(old)
         /\ Summed(dated) \in Int /\ Summed(new) \in Int /\ Summed(old) \in Int
<1> DEFINE both == [m \in Months |-> dated[m] + new[m]]
           left == Replaced(dated, old, new)
<1>1. IsFiniteSet(Months)
  BY TheMonths
<1>2. /\ both \in [Months -> Int] /\ left \in [Months -> Int]
      /\ \A m \in Months : both[m] = dated[m] + new[m] /\ both[m] = left[m] + old[m]
  BY DEF Replaced
<1> HIDE DEF both, left
<1>3. Summed(both) = Summed(dated) + Summed(new) /\ Summed(both) = Summed(left) + Summed(old)
  BY <1>1, <1>2, SummedOfSums
<1>4. Summed(dated) \in Int /\ Summed(new) \in Int /\ Summed(old) \in Int /\ Summed(left) \in Int
  BY <1>1, <1>2, SummedIsInteger
<1>5. Summed(left) = Summed(dated) + Summed(new) - Summed(old)
  <2> DEFINE a == Summed(both)
             b == Summed(dated)
             c == Summed(new)
             d == Summed(left)
             e == Summed(old)
  <2>1. a = b + c /\ a = d + e /\ b \in Int /\ c \in Int /\ d \in Int /\ e \in Int
    BY <1>3, <1>4
  <2> HIDE DEF a, b, c, d, e
  <2>2. d = b + c - e
    BY <2>1
  <2> QED BY <2>2 DEF b, c, d, e
<1> QED BY <1>2, <1>4, <1>5 DEF left

LEMMA NightDiffAddsUp ==
  ASSUME NEW x \in Inputs, NEW cutoff, NEW r \in Good
  PROVE  NightDiff(x, cutoff, r) \in Good
<1> DEFINE night == NightSegments(x, cutoff)
           Of(m) == [s \in {t \in night : OriginMonth(x, t) = m} |-> Rated(x, s)]
           months == [m \in Months |-> Summed(Of(m))]
           count == Cardinality(night)
           pay == Summed(months)
           dated == Replaced(r.dated, r.datedNd, months)
           new == [r EXCEPT !.ndHours = count, !.nd = pay, !.datedNd = months, !.dated = dated]
<1>1. r \in Results /\ AddsUp(r)
  BY DEF Good
<1>2. IsFiniteSet(night)
  <2>1. night \in SUBSET Segments(x, cutoff)
    BY DEF NightSegments
  <2> QED BY <2>1, SegmentsAreFinite, FS_Subset
<1>3. NightDiff(x, cutoff, r) = r \/ NightDiff(x, cutoff, r) = new
  <2>1. new = [r EXCEPT !.ndHours = Cardinality(night), !.nd = Summed(months), !.datedNd = months,
                        !.dated = Replaced(@, r.datedNd, months)]
    BY <1>1 DEF Results
  <2> QED BY <2>1, Zenon DEF NightDiff
<1>4. count \in Int
  <2> HIDE DEF night
  <2>1. count \in Nat
    BY <1>2, FS_CardinalityType
  <2> QED BY <2>1
<1>5. months \in [Months -> Int]
  <2> SUFFICES ASSUME NEW m \in Months PROVE Summed(Of(m)) \in Int
    OBVIOUS
  <2> DEFINE S == {t \in night : OriginMonth(x, t) = m}
             f == [s \in S |-> Rated(x, s)]
  <2>1. IsFiniteSet(S)
    <3>1. S \in SUBSET night
      OBVIOUS
    <3> HIDE DEF night, S
    <3> QED BY <1>2, <3>1, FS_Subset
  <2>2. f \in [S -> Int]
    BY RatesAre
  <2>3. Of(m) = f
    OBVIOUS
  <2> HIDE DEF S, f, Of
  <2> QED BY <2>1, <2>2, <2>3, SummedIsInteger
<1> HIDE DEF night, months, count
<1>6. /\ r.dated \in [Months -> Int] /\ r.datedNd \in [Months -> Int]
      /\ r.regular \in Int /\ r.ot \in Int /\ r.nd \in Int /\ r.holiday \in Int
  BY <1>1 DEF Results
<1>7. dated \in [Months -> Int] /\ Summed(dated) = Summed(r.dated) + pay - Summed(r.datedNd) /\ pay \in Int
  BY <1>5, <1>6, ReplacedAddsUp, Zenon
<1>8. Summed(dated) = r.regular + r.ot + pay + r.holiday
  <2>1. Summed(r.dated) = r.regular + r.ot + r.nd + r.holiday /\ Summed(r.datedNd) = r.nd
    BY <1>1 DEF AddsUp
  <2> QED BY <1>6, <1>7, <2>1
<1>9. Summed(months) = pay
  OBVIOUS
<1> HIDE DEF dated, pay
<1>10. /\ new \in Results
       /\ new.regular = r.regular /\ new.ot = r.ot /\ new.nd = pay /\ new.holiday = r.holiday
       /\ new.dated = dated /\ new.datedOt = r.datedOt /\ new.datedNd = months
       /\ new.datedHoliday = r.datedHoliday
  BY <1>1, <1>4, <1>5, <1>7 DEF Results
<1> HIDE DEF new
<1>11. AddsUp(new)
  BY <1>1, <1>8, <1>9, <1>10 DEF AddsUp
<1>12. new \in Good
  BY <1>10, <1>11 DEF Good
<1> QED BY <1>3, <1>12, Zenon

LEMMA HolidaysAddUp ==
  ASSUME NEW x \in Inputs, NEW cutoff \in SUBSET Days, NEW r \in Good
  PROVE  Holidays(x, cutoff, r) \in Good
<1> DEFINE segments == Segments(x, cutoff)
           OfMonth(m) == {s \in segments : OriginMonth(x, s) = m}
           regular == {d \in cutoff : x.holidays[d] = "Regular"}
           OtOf(m) == [s \in {t \in OfMonth(m) : t.overtime} |-> Pay(1, Rated(x, s))]
           PremiumsOf(m) == [s \in OfMonth(m) |-> Premium(x, s)]
           GuaranteesOf(m) == [d \in {e \in regular : MonthOf[e] = m} |-> GuaranteeOn(x, segments, d)]
           ot == [m \in Months |-> Summed(OtOf(m))]
           holiday == [m \in Months |-> Summed(PremiumsOf(m)) + Summed(GuaranteesOf(m))]
           otPay == Summed(ot)
           holidayPay == Summed(holiday)
           between == Replaced(r.dated, r.datedHoliday, holiday)
           dated == Replaced(between, r.datedOt, ot)
           new == [r EXCEPT !.ot = otPay, !.holiday = holidayPay, !.datedOt = ot, !.datedHoliday = holiday,
                            !.dated = dated]
<1>1. r \in Results /\ AddsUp(r)
  BY DEF Good
<1>2. Holidays(x, cutoff, r) = new
  <2>1. new = [r EXCEPT !.ot = Summed(ot), !.holiday = Summed(holiday), !.datedOt = ot, !.datedHoliday = holiday,
                        !.dated = Replaced(Replaced(@, r.datedHoliday, holiday), r.datedOt, ot)]
    <3> HIDE DEF ot, holiday
    <3> QED BY <1>1 DEF Results
  <2> QED BY <2>1, Zenon DEF Holidays
<1>3. IsFiniteSet(segments) /\ IsFiniteSet(regular)
  <2>1. IsFiniteSet(cutoff) /\ regular \in SUBSET cutoff
    BY TheMonths, FS_Subset
  <2> HIDE DEF regular
  <2> QED BY <2>1, SegmentsAreFinite, FS_Subset
<1> HIDE DEF segments, regular
<1>4. ot \in [Months -> Int]
  <2> SUFFICES ASSUME NEW m \in Months PROVE Summed(OtOf(m)) \in Int
    OBVIOUS
  <2> DEFINE S == {t \in OfMonth(m) : t.overtime}
             f == [s \in S |-> Pay(1, Rated(x, s))]
  <2>1. IsFiniteSet(S)
    <3>1. S \in SUBSET segments
      OBVIOUS
    <3> HIDE DEF S
    <3> QED BY <1>3, <3>1, FS_Subset
  <2>2. f \in [S -> Int]
    BY PremiumIs
  <2>3. OtOf(m) = f
    OBVIOUS
  <2> HIDE DEF S, f, OtOf
  <2> QED BY <2>1, <2>2, <2>3, SummedIsInteger
<1>5. holiday \in [Months -> Int]
  <2> SUFFICES ASSUME NEW m \in Months PROVE Summed(PremiumsOf(m)) + Summed(GuaranteesOf(m)) \in Int
    OBVIOUS
  <2> DEFINE S == OfMonth(m)
             f == [s \in S |-> Premium(x, s)]
             T == {e \in regular : MonthOf[e] = m}
             g == [d \in T |-> GuaranteeOn(x, segments, d)]
  <2>1. IsFiniteSet(S) /\ IsFiniteSet(T)
    <3>1. S \in SUBSET segments /\ T \in SUBSET regular
      OBVIOUS
    <3> HIDE DEF S, T
    <3> QED BY <1>3, <3>1, FS_Subset
  <2>2. f \in [S -> Int]
    BY PremiumIs
  <2>3. g \in [T -> Int]
    BY <1>3, GuaranteeIs
  <2>4. PremiumsOf(m) = f /\ GuaranteesOf(m) = g
    OBVIOUS
  <2> HIDE DEF S, T, f, g, PremiumsOf, GuaranteesOf
  <2>5. Summed(f) \in Int /\ Summed(g) \in Int
    BY <2>1, <2>2, <2>3, SummedIsInteger
  <2> QED BY <2>4, <2>5
<1> HIDE DEF ot, holiday
<1>6. /\ r.dated \in [Months -> Int] /\ r.datedOt \in [Months -> Int] /\ r.datedHoliday \in [Months -> Int]
      /\ r.regular \in Int /\ r.ot \in Int /\ r.nd \in Int /\ r.holiday \in Int
  BY <1>1 DEF Results
<1>7. /\ between \in [Months -> Int] /\ holidayPay \in Int
      /\ Summed(between) = Summed(r.dated) + holidayPay - Summed(r.datedHoliday)
  BY <1>5, <1>6, ReplacedAddsUp, Zenon
<1> HIDE DEF between
<1>8. /\ dated \in [Months -> Int] /\ otPay \in Int
      /\ Summed(dated) = Summed(between) + otPay - Summed(r.datedOt)
  BY <1>4, <1>6, <1>7, ReplacedAddsUp, Zenon
<1>9. Summed(dated) = r.regular + otPay + r.nd + holidayPay
  <2>1. /\ Summed(r.dated) = r.regular + r.ot + r.nd + r.holiday
        /\ Summed(r.datedOt) = r.ot /\ Summed(r.datedHoliday) = r.holiday
    BY <1>1 DEF AddsUp
  <2> HIDE DEF dated, otPay, holidayPay
  <2> QED BY <1>6, <1>7, <1>8, <2>1
<1>10. Summed(ot) = otPay /\ Summed(holiday) = holidayPay
  OBVIOUS
<1> HIDE DEF dated, otPay, holidayPay
<1>11. /\ new \in Results
       /\ new.regular = r.regular /\ new.ot = otPay /\ new.nd = r.nd /\ new.holiday = holidayPay
       /\ new.dated = dated /\ new.datedOt = ot /\ new.datedNd = r.datedNd /\ new.datedHoliday = holiday
  BY <1>1, <1>4, <1>5, <1>7, <1>8 DEF Results
<1> HIDE DEF new
<1>12. AddsUp(new)
  BY <1>1, <1>9, <1>10, <1>11 DEF AddsUp
<1> QED BY <1>2, <1>11, <1>12 DEF Good

-----------------------------------------------------------------------------
(* Every pass keeps them. *)
PayInv == input \in Inputs /\ result \in Good

LEMMA GoodMonthsAddUp ==
  ASSUME result \in Good
  PROVE  MonthsAddUp
<1>1. result \in Results /\ AddsUp(result)
  BY DEF Good
<1>2. Gross(result) = result.regular + result.ot + result.nd + result.holiday
  BY <1>1, GrossIs
<1> QED BY <1>1, <1>2 DEF AddsUp, MonthsAddUp

(***************************************************************************)
(* Whatever the shifts, logs, holidays and rest days of an employee, after *)
(* every pass the earnings per calendar month add up to the gross pay, and *)
(* those of overtime, nights and holidays to their parts of it: but for    *)
(* centavos, the difference for which _recompute_statutory_and_net refuses *)
(* a cutoff over two months does not arise.                                *)
(***************************************************************************)
THEOREM MonthsOfAnyPayAddUp == PaySpec => []MonthsAddUp
<1>1. PayInit => PayInv
  BY NothingAddsUp DEF PayInit, PayInv
<1>2. PayInv /\ [PayNext]_payVars => PayInv'
  <2> SUFFICES ASSUME PayInv, [PayNext]_payVars PROVE PayInv'
    OBVIOUS
  <2>1. Cutoff \in SUBSET Days
    BY CutoffAssumption, Zenon
  <2>2. input \in Inputs /\ result \in Good
    BY DEF PayInv
  <2>3. CASE ComputeBase
    <3>1. result' = Base(input, Cutoff) /\ input' = input
      BY <2>3, Zenon DEF ComputeBase, Pass
    <3>2. Base(input, Cutoff) \in Good
      BY <2>1, <2>2, BaseAddsUp
    <3> QED BY <2>2, <3>1, <3>2, Zenon DEF PayInv
  <2>4. CASE ApplyPerShift
    <3>1. result' = PerShift(input, Cutoff, result) /\ input' = input
      BY <2>4, Zenon DEF ApplyPerShift, Pass
    <3>2. PerShift(input, Cutoff, result) \in Good
      BY <2>1, <2>2, PerShiftAddsUp
    <3> QED BY <2>2, <3>1, <3>2, Zenon DEF PayInv
  <2>5. CASE ApplyNightDiff
    <3>1. result' = NightDiff(input, Cutoff, result) /\ input' = input
      BY <2>5, Zenon DEF ApplyNightDiff, Pass
    <3>2. NightDiff(input, Cutoff, result) \in Good
      BY <2>2, NightDiffAddsUp
    <3> QED BY <2>2, <3>1, <3>2, Zenon DEF PayInv
  <2>6. CASE ApplyHolidays
    <3>1. result' = Holidays(input, Cutoff, result) /\ input' = input
      BY <2>6, Zenon DEF ApplyHolidays, Pass
    <3>2. Holidays(input, Cutoff, result) \in Good
      BY <2>1, <2>2, HolidaysAddUp
    <3> QED BY <2>2, <3>1, <3>2, Zenon DEF PayInv
  <2>7. CASE UNCHANGED payVars
    BY <2>2, <2>7, Zenon DEF PayInv, payVars
  <2> QED BY <2>3, <2>4, <2>5, <2>6, <2>7, Zenon DEF PayNext
<1>3. PayInv => MonthsAddUp
  BY GoodMonthsAddUp DEF PayInv
<1> QED BY <1>1, <1>2, <1>3, PTL DEF PaySpec
===============================================================================
