-------------------------- MODULE AttendanceDayProofs --------------------------
(***************************************************************************)
(* Proofs about AttendanceDay, for any number of days, shifts, logs and    *)
(* requests in progress and for any uploads.                               *)
(*                                                                         *)
(* DayInv is inductive: the rows and what requests have read are typed,    *)
(* ids from nextLog on are free, and logs of cleared days are manual.  The *)
(* free ids make an import leave the earlier rows alone.  The restart      *)
(* folds DayReconciled over the days: Reconciling is what the fold never   *)
(* leaves, among it that every hour is worked as often as before.  Links   *)
(* and pairs touch no hour (Relinked); the parts of a split row are worked *)
(* one after the other, and each hour of the row falls into exactly one of *)
(* them (PartsOfRow, from OnePart).                                        *)
(***************************************************************************)
EXTENDS AttendanceDay, FiniteSetsExt, FiniteSetTheorems, WellFoundedInduction, TLAPS

(* A nonempty finite set of numbers has a last one. *)
LEMMA LastOne ==
  ASSUME NEW R, IsFiniteSet(R), R \subseteq Nat, R # {}
  PROVE  \E z \in R : \A a \in R : a <= z
<1> DEFINE After(a) == {b \in R : a < b}
           F == {After(a) : a \in R}
<1>1. F \subseteq FiniteSubsetsOf(R) /\ F # {}
  <2>1. \A a \in R : After(a) \in SUBSET R /\ IsFiniteSet(After(a))
    BY FS_Subset
  <2> QED BY <2>1 DEF FiniteSubsetsOf
<1>2. PICK T \in F : \A U \in F : ~ (<<U, T>> \in StrictSubsetOrdering(R))
  <2> HIDE DEF F
  <2> QED BY <1>1, FS_StrictSubsetOrderingWellFounded, WFMin, Zenon
<1>3. PICK z \in R : T = After(z)
  OBVIOUS
<1>4. ASSUME NEW a \in R, ~ (a <= z) PROVE FALSE
  <2>1. a \in Nat /\ z \in Nat /\ z < a
    BY <1>4
  <2>2. After(a) \subseteq After(z) /\ a \in After(z) /\ a \notin After(a)
    <3>1. \A b \in R : a < b => z < b
      BY <2>1
    <3>2. a \in After(z) /\ a \notin After(a)
      BY <2>1
    <3> QED BY <3>1, <3>2
  <2>3. <<After(a), After(z)>> \in StrictSubsetOrdering(R)
    BY <2>2 DEF StrictSubsetOrdering
  <2> QED BY <1>2, <1>3, <2>3
<1> QED BY <1>4

(* Who is first, second, ... when upto[i] are those up to i: every place is taken. *)
LEMMA PlacesAreTaken ==
  ASSUME NEW S, IsFiniteSet(S), NEW upto \in [S -> SUBSET S], \A i \in S : i \in upto[i],
         \A i, j \in S : i # j => \/ upto[i] \subseteq upto[j] /\ j \notin upto[i]
                                  \/ upto[j] \subseteq upto[i] /\ i \notin upto[j]
  PROVE  \A n \in 1..Cardinality(S) : \E i \in S : Cardinality(upto[i]) = n
<1> DEFINE size == Cardinality(S)
           place == [i \in S |-> Cardinality(upto[i])]
<1>1. size \in Nat /\ IsFiniteSet(1..size) /\ Cardinality(1..size) = size
  BY FS_CardinalityType, FS_Interval
<1>2. ASSUME NEW i \in S
      PROVE  /\ IsFiniteSet(upto[i]) /\ Cardinality(upto[i]) \in Nat
             /\ Cardinality(upto[i]) <= size /\ Cardinality(upto[i]) # 0
  <2>1. IsFiniteSet(upto[i]) /\ Cardinality(upto[i]) <= size
    BY FS_Subset
  <2>2. upto[i] # {}
    OBVIOUS
  <2> QED BY <2>1, <2>2, FS_CardinalityType, FS_EmptySet
<1>3. place \in [S -> 1..size]
  BY <1>1, <1>2
<1>4. ASSUME NEW i \in S, NEW j \in S, upto[i] \subseteq upto[j], j \notin upto[i]
      PROVE  Cardinality(upto[i]) # Cardinality(upto[j])
  <2>1. IsFiniteSet(upto[j]) /\ upto[i] \in SUBSET upto[j] /\ upto[i] # upto[j]
    BY <1>2, <1>4
  <2> QED BY <2>1, FS_Subset
<1>5. \A i, j \in S : place[i] = place[j] => i = j
  <2> SUFFICES ASSUME NEW i \in S, NEW j \in S, i # j PROVE Cardinality(upto[i]) # Cardinality(upto[j])
    OBVIOUS
  <2>1. CASE upto[i] \subseteq upto[j] /\ j \notin upto[i]
    BY <1>4, <2>1
  <2>2. CASE upto[j] \subseteq upto[i] /\ i \notin upto[j]
    BY <1>4, <2>2
  <2> QED BY <2>1, <2>2
<1>6. place \in Injection(S, 1..size)
  <2> HIDE DEF place, size
  <2> QED BY <1>3, <1>5 DEF Injection, IsInjective
<1>7. place \in Surjection(S, 1..size)
  <2> HIDE DEF place
  <2>1. Cardinality(S) = Cardinality(1..size)
    BY <1>1
  <2> HIDE DEF size
  <2> QED BY <1>1, <1>6, <2>1, FS_Injection
<1>8. \A n \in 1..size : \E i \in S : place[i] = n
  <2> HIDE DEF place, size
  <2> QED BY <1>7 DEF Surjection
<1> QED BY <1>8

(* One of a set of numbers is counted among those up to it. *)
LEMMA PlaceOfNumber ==
  ASSUME NEW R, IsFiniteSet(R), R \subseteq Nat
  PROVE  \A n \in 1..Cardinality(R) : \E k \in R : Cardinality({j \in R : j <= k}) = n
<1> DEFINE upto == [k \in R |-> {j \in R : j <= k}]
<1>1. upto \in [R -> SUBSET R] /\ \A k \in R : k \in upto[k]
  OBVIOUS
<1>2. ASSUME NEW i \in R, NEW k \in R, i < k
      PROVE  upto[i] \subseteq upto[k] /\ k \notin upto[i]
  <2>1. i \in Nat /\ k \in Nat
    OBVIOUS
  <2>2. ASSUME NEW j \in R, j <= i PROVE j <= k
    <3>1. j \in Nat
      OBVIOUS
    <3> QED BY <1>2, <2>1, <2>2, <3>1
  <2>3. ~(k <= i)
    BY <1>2, <2>1
  <2>4. upto[i] = {j \in R : j <= i} /\ upto[k] = {j \in R : j <= k}
    OBVIOUS
  <2> HIDE DEF upto
  <2> QED BY <2>2, <2>3, <2>4, Zenon
<1>3. \A i, k \in R : i # k => i < k \/ k < i
  OBVIOUS
<1> HIDE DEF upto
<1>4. \A i, k \in R : i # k => \/ upto[i] \subseteq upto[k] /\ k \notin upto[i]
                               \/ upto[k] \subseteq upto[i] /\ i \notin upto[k]
  BY <1>2, <1>3, Zenon
<1>5. \A n \in 1..Cardinality(R) : \E k \in R : Cardinality(upto[k]) = n
  BY <1>1, <1>4, PlacesAreTaken
<1> QED BY <1>5 DEF upto

(***************************************************************************)
(* Folds over numbers in ascending order, the last one on top, as          *)
(* MapThenFoldSet with Max takes them.  The fold is a step function over a *)
(* set of values that the steps do not leave; a proof about a fold of an   *)
(* operator says which function that is.                                   *)
(***************************************************************************)
LEMMA MaxIsLast ==
  ASSUME NEW R, IsFiniteSet(R), R \subseteq Nat, R # {}
  PROVE  Max(R) \in R /\ \A a \in R : a <= Max(R)
<1>1. PICK z \in R : \A a \in R : a <= z
  BY LastOne
<1>2. \A y \in R : z >= y
  BY <1>1
<1>3. Max(R) \in R /\ \A y \in R : Max(R) >= y
  BY <1>2 DEF Max
<1> QED BY <1>3

IsStepFold(it, base, step, S) ==
  \A s \in SUBSET S : it[s] = IF s = {} THEN base ELSE step[it[s \ {Max(s)}], Max(s)]

(* There is such a fold. *)
LEMMA StepsFold ==
  ASSUME NEW S, IsFiniteSet(S), S \subseteq Nat, NEW A, NEW base \in A, NEW step \in [A \X S -> A]
  PROVE  \E it \in [SUBSET S -> A] : IsStepFold(it, base, step, S)
<1> DEFINE bad == {T \in SUBSET S : ~ \E it \in [SUBSET T -> A] : IsStepFold(it, base, step, T)}
<1>1. SUFFICES ASSUME bad # {} PROVE FALSE
  OBVIOUS
<1>2. bad \subseteq FiniteSubsetsOf(S)
  BY FS_Subset DEF FiniteSubsetsOf
<1>3. PICK T \in bad : \A U \in bad : ~ (<<U, T>> \in StrictSubsetOrdering(S))
  <2> HIDE DEF bad
  <2> QED BY <1>1, <1>2, FS_StrictSubsetOrderingWellFounded, WFMin, Zenon
<1>4. T \in SUBSET S /\ IsFiniteSet(T) /\ T \subseteq Nat
  BY FS_Subset
<1>5. T # {}
  <2> SUFFICES ASSUME T = {} PROVE FALSE
    OBVIOUS
  <2> DEFINE it == [s \in SUBSET T |-> base]
  <2>1. it \in [SUBSET T -> A] /\ \A s \in SUBSET T : s = {} /\ it[s] = base
    OBVIOUS
  <2> HIDE DEF it
  <2> QED BY <2>1 DEF IsStepFold
<1> DEFINE y == Max(T)
           R == T \ {y}
<1>6. y \in T /\ \A a \in T : a <= y
  BY <1>4, <1>5, MaxIsLast
<1> HIDE DEF y
<1>7. R \in SUBSET S /\ R \notin bad
  <2>1. <<R, T>> \in StrictSubsetOrdering(S)
    BY <1>4, <1>6 DEF StrictSubsetOrdering
  <2> QED BY <1>3, <1>4, <2>1
<1>8. PICK old \in [SUBSET R -> A] : IsStepFold(old, base, step, R)
  BY <1>7
<1> DEFINE it == [s \in SUBSET T |-> IF y \in s THEN step[old[s \ {y}], y] ELSE old[s]]
<1>9. it \in [SUBSET T -> A]
  <2> SUFFICES ASSUME NEW s \in SUBSET T
               PROVE  (IF y \in s THEN step[old[s \ {y}], y] ELSE old[s]) \in A
    OBVIOUS
  <2>1. CASE y \in s
    <3>1. s \ {y} \in SUBSET R /\ y \in S
      BY <1>4, <1>6
    <3>2. old[s \ {y}] \in A
      BY <3>1
    <3> QED BY <2>1, <3>1, <3>2
  <2>2. CASE y \notin s
    <3>1. s \in SUBSET R
      BY <2>2
    <3> QED BY <2>2, <3>1
  <2> QED BY <2>1, <2>2
<1>10. IsStepFold(it, base, step, T)
  <2> SUFFICES ASSUME NEW s \in SUBSET T
               PROVE  it[s] = IF s = {} THEN base ELSE step[it[s \ {Max(s)}], Max(s)]
    BY DEF IsStepFold
  <2>1. CASE y \in s
    <3>1. Max(s) = y
      <4>1. IsFiniteSet(s) /\ s \subseteq Nat /\ s # {}
        BY <1>4, <2>1, FS_Subset
      <4>2. Max(s) \in s /\ \A a \in s : a <= Max(s)
        BY <4>1, MaxIsLast
      <4>3. Max(s) \in Nat /\ y \in Nat /\ y <= Max(s) /\ Max(s) <= y
        BY <1>6, <2>1, <4>1, <4>2
      <4> QED BY <4>3
    <3>2. it[s] = step[old[s \ {y}], y] /\ it[s \ {y}] = old[s \ {y}]
      BY <2>1
    <3> QED BY <2>1, <3>1, <3>2
  <2>2. CASE y \notin s
    <3>1. s \in SUBSET R /\ it[s] = old[s]
      BY <2>2
    <3>2. s # {} => it[s \ {Max(s)}] = old[s \ {Max(s)}]
      BY <3>1
    <3>3. old[s] = IF s = {} THEN base ELSE step[old[s \ {Max(s)}], Max(s)]
      BY <1>8, <3>1 DEF IsStepFold
    <3> HIDE DEF it
    <3> QED BY <3>1, <3>2, <3>3
  <2> QED BY <2>1, <2>2
<1> HIDE DEF it
<1> QED BY <1>3, <1>9, <1>10

(* What holds of the empty fold and is kept by each step holds of the fold. *)
LEMMA FoldStays ==
  ASSUME NEW S, IsFiniteSet(S), NEW A, NEW it, it[{}] \in A,
         \A s \in SUBSET S : s # {} /\ it[s \ {Max(s)}] \in A => it[s] \in A,
         S \subseteq Nat
  PROVE  it[S] \in A
<1> DEFINE bad == {T \in SUBSET S : it[T] \notin A}
<1>1. SUFFICES ASSUME bad # {} PROVE FALSE
  OBVIOUS
<1>2. bad \subseteq FiniteSubsetsOf(S)
  BY FS_Subset DEF FiniteSubsetsOf
<1>3. PICK T \in bad : \A U \in bad : ~ (<<U, T>> \in StrictSubsetOrdering(S))
  <2> HIDE DEF bad
  <2> QED BY <1>1, <1>2, FS_StrictSubsetOrderingWellFounded, WFMin, Zenon
<1>4. T \in SUBSET S /\ IsFiniteSet(T) /\ T \subseteq Nat /\ T # {}
  BY FS_Subset
<1>5. Max(T) \in T
  BY <1>4, MaxIsLast
<1> DEFINE R == T \ {Max(T)}
<1>6. R \in SUBSET S /\ <<R, T>> \in StrictSubsetOrdering(S)
  BY <1>4, <1>5 DEF StrictSubsetOrdering
<1>7. it[R] \in A
  BY <1>3, <1>6
<1> QED BY <1>4, <1>7
-----------------------------------------------------------------------------
\* What AttendanceDay assumes of its constants.
DayConstants ==
  /\ BoardDates \subseteq Nat \ {0} /\ Dates \subseteq BoardDates /\ IsFiniteSet(Dates)
  /\ Slots \subseteq [from : Hours, to : Hours] /\ Punches \subseteq [in : Hours, out : Hours]
  /\ Verdicts \subseteq {"Approved", "Needs Review"}
  /\ \A u \in Uploads : u # <<>> /\ u \in Seq(RowType)
  /\ MaxShifts \in Nat /\ MaxLogs \in Nat

LEMMA ConstantsAre == DayConstants
BY DatesAssumption, SlotsAssumption, VerdictsAssumption, UploadsAssumption, BoundsAssumption DEF DayConstants

LogTables == [LogIds -> LogType \cup {NoLog}]
Boards == [ShiftIds -> ShiftType \cup {NoShift}]
DayReads == [busy : {TRUE}, shifts : Boards, logs : LogTables, onLeave : SUBSET Dates]

\* Logs that the next step may start from: ids from next on are free, and on the
\* days that were cleared the logs are manual.
Sound(rows, next, days) ==
  /\ rows \in LogTables
  /\ \A l \in LogIds : next <= l => rows[l] = NoLog
  /\ \A l \in Logs(rows) : rows[l].date \in days => rows[l].source = "manual"

DayInv ==
  /\ shifts \in Boards /\ onLeave \subseteq Dates
  /\ nextLog \in Nat \ {0}
  /\ clerk \in [Clerks -> DayReads \cup {Idle}]
  /\ Sound(logs, nextLog, cleared)

LEMMA LogOrNone == NoLog \notin LogType /\ NoShift \notin ShiftType
<1>1. NoLog.status = "Absent" /\ "Absent" \notin LogStatuses
  BY DEF NoLog, LogStatuses
<1>2. \A r \in LogType : r.status \in LogStatuses
  BY DEF LogType
<1>3. NoShift.date = 0 /\ \A s \in ShiftType : s.date \in BoardDates
  BY DEF NoShift, ShiftType
<1> QED BY ConstantsAre, <1>1, <1>2, <1>3 DEF DayConstants

LEMMA LogsAre ==
  ASSUME NEW rows \in LogTables, NEW l \in Logs(rows)
  PROVE  /\ l \in LogIds /\ rows[l] \in LogType
         /\ rows[l].date \in Dates /\ rows[l].source \in Sources
BY DEF LogTables, Logs, LogType

LEMMA ShiftsAre ==
  ASSUME NEW board \in Boards, NEW d \in Dates, NEW i \in ShiftsOn(board, d)
  PROVE  /\ i \in ShiftIds /\ board[i] \in ShiftType /\ board[i].date = d
         /\ board[i].from \in Hours /\ board[i].to \in Hours
<1>1. d # 0
  BY ConstantsAre DEF DayConstants
<1> QED BY <1>1 DEF ShiftsOn, Boards, NoShift, ShiftType

LEMMA DayIdsAreFinite ==
  /\ IsFiniteSet(LogIds) /\ IsFiniteSet(ShiftIds)
  /\ LogIds \subseteq Nat \ {0} /\ ShiftIds \subseteq Nat \ {0}
<1>0. MaxLogs \in Nat /\ MaxShifts \in Nat
  BY ConstantsAre, Zenon DEF DayConstants
<1>1. /\ 1 \in Int /\ MaxLogs \in Int /\ MaxShifts \in Int
  BY <1>0
<1>2. IsFiniteSet(1..MaxLogs) /\ IsFiniteSet(1..MaxShifts)
  BY <1>1, FS_Interval
<1> QED BY <1>1, <1>2 DEF LogIds, ShiftIds

LEMMA NewestIs ==
  ASSUME NEW ids \in SUBSET LogIds
  PROVE  /\ ids = {} => Newest(ids) = 0
         /\ ids # {} => Newest(ids) \in ids
<1>1. ASSUME ids # {} PROVE \E l \in ids : \A m \in ids : m <= l
  <2>1. IsFiniteSet(ids) /\ ids \subseteq Nat
    BY DayIdsAreFinite, FS_Subset
  <2> QED BY <1>1, <2>1, LastOne
<1> QED BY <1>1, Zenon DEF Newest

LEMMA LogForIs ==
  ASSUME NEW rows \in LogTables, NEW board, NEW d, NEW i
  PROVE  LET l == LogFor(rows, board, d, i) IN l # 0 => l \in LogIds /\ rows[l] \in LogType
<1> DEFINE linked == {l \in On(rows, d) : rows[l].shift = i}
           ids == IF i = 0 THEN Loose(rows, d)
                  ELSE IF linked # {} THEN linked
                  ELSE IF Cardinality(ShiftsOn(board, d)) = 1 THEN Loose(rows, d) ELSE {}
<1>1. ids \subseteq Logs(rows)
  BY DEF On, Active, Loose
<1>2. LogFor(rows, board, d, i) = Newest(ids)
  BY DEF LogFor
<1> HIDE DEF ids
<1>3. ids \in SUBSET LogIds
  BY <1>1 DEF Logs
<1>4. Newest(ids) # 0 => Newest(ids) \in ids
  BY <1>3, NewestIs
<1> QED BY <1>1, <1>2, <1>4, LogsAre

LEMMA SeenIsTyped ==
  ASSUME DayInv, NEW c \in Clerks
  PROVE  /\ Seen(c).shifts \in Boards /\ Seen(c).logs \in LogTables
         /\ Seen(c).onLeave \in SUBSET Dates
<1>1. clerk[c] \in DayReads \cup {Idle}
  BY DEF DayInv
<1>2. CASE clerk[c] \in DayReads
  BY <1>2 DEF DayReads, Seen
<1>3. CASE clerk[c] = Idle
  <2>1. Idle.busy = FALSE
    BY DEF Idle
  <2>2. ~clerk[c].busy
    BY <1>3, <2>1, Zenon
  <2> QED BY <2>2 DEF Seen, DayInv, Sound
<1> QED BY <1>1, <1>2, <1>3

LEMMA DoneIsTyped ==
  ASSUME DayInv, NEW c \in Clerks, Finish(c)
  PROVE  clerk' \in [Clerks -> DayReads \cup {Idle}]
BY DEF DayInv, Finish

-----------------------------------------------------------------------------
(* What the statements on time_logs leave sound. *)

LEMMA UpdatedSound ==
  ASSUME Sound(logs, nextLog, cleared), NEW l \in LogIds, NEW row,
         logs[l] # NoLog => row \in LogType
  PROVE  Sound(Updated(l, row), nextLog, cleared)
<1> DEFINE end == [logs EXCEPT ![l] = row]
<1>1. CASE logs[l] = NoLog \/ Blocked(row.date, row.source)
  BY <1>1 DEF Updated
<1>2. CASE ~(logs[l] = NoLog \/ Blocked(row.date, row.source))
  <2>1. row \in LogType /\ (row.date \in cleared => row.source = "manual")
    BY <1>2 DEF Blocked
  <2>2. logs \in LogTables
    BY DEF Sound
  <2>3. end \in LogTables /\ end[l] = row /\ \A m \in LogIds \ {l} : end[m] = logs[m]
    BY <2>1, <2>2 DEF LogTables
  <2>4. Updated(l, row) = end
    BY <1>2 DEF Updated
  <2> HIDE DEF end
  <2>5. \A m \in LogIds : nextLog <= m => end[m] = NoLog
    BY <1>2, <2>3 DEF Sound
  <2>6. ASSUME NEW m \in Logs(end), end[m].date \in cleared PROVE end[m].source = "manual"
    <3>1. CASE m = l
      BY <2>1, <2>3, <2>6, <3>1
    <3>2. CASE m # l
      <4>1. end[m] = logs[m] /\ m \in Logs(logs)
        BY <2>3, <3>2 DEF Logs
      <4> QED BY <2>6, <4>1 DEF Sound
    <3> QED BY <3>1, <3>2
  <2> QED BY <2>3, <2>4, <2>5, <2>6 DEF Sound
<1> QED BY <1>1, <1>2

LEMMA WithoutSound ==
  ASSUME NEW rows, NEW next, NEW days, Sound(rows, next, days), NEW ids
  PROVE  Sound(Without(rows, ids), next, days)
<1> DEFINE end == Without(rows, ids)
<1>1. \A l \in LogIds : end[l] = IF l \in ids THEN NoLog ELSE rows[l]
  BY DEF Without
<1>2. end \in LogTables
  BY DEF Without, LogTables, Sound
<1> HIDE DEF end
<1>3. \A l \in Logs(end) : l \in Logs(rows) /\ end[l] = rows[l]
  BY <1>1 DEF Logs
<1> QED BY <1>1, <1>2, <1>3 DEF Sound, end

LEMMA InsertedSound ==
  ASSUME nextLog \in Nat \ {0}, NEW rows, Sound(rows, nextLog, cleared),
         NEW new \in Seq(LogType),
         \A k \in 1..Len(new) : new[k].date \in cleared => new[k].source = "manual"
  PROVE  Sound(Inserted(rows, new), nextLog + Len(new), cleared)
<1> DEFINE end == Inserted(rows, new)
           New(l) == l \in nextLog..(nextLog + Len(new) - 1)
<1>1. Len(new) \in Nat /\ \A k \in 1..Len(new) : new[k] \in LogType
  OBVIOUS
<1>2. \A l \in LogIds : New(l) => l - nextLog + 1 \in 1..Len(new)
  BY <1>1
<1>3. \A l \in LogIds : end[l] = IF New(l) THEN new[l - nextLog + 1] ELSE rows[l]
  BY DEF Inserted
<1>4. end \in LogTables
  <2>1. \A l \in LogIds : (IF New(l) THEN new[l - nextLog + 1] ELSE rows[l]) \in LogType \cup {NoLog}
    <3> HIDE DEF New
    <3> QED BY <1>1, <1>2 DEF Sound, LogTables
  <2> QED BY <2>1 DEF Inserted, LogTables
<1>5. ASSUME NEW l \in LogIds, nextLog + Len(new) <= l PROVE end[l] = NoLog
  <2>1. l \in Nat
    BY DayIdsAreFinite
  <2>2. ~New(l) /\ nextLog <= l
    BY <1>1, <1>5, <2>1
  <2> QED BY <1>3, <2>2 DEF Sound
<1> HIDE DEF end, New
<1>6. ASSUME NEW l \in Logs(end), end[l].date \in cleared PROVE end[l].source = "manual"
  <2>1. l \in LogIds
    BY DEF Logs
  <2>2. CASE New(l)
    BY <1>2, <1>3, <1>6, <2>1, <2>2
  <2>3. CASE ~New(l)
    <3>1. l \in Logs(rows) /\ end[l] = rows[l]
      BY <1>3, <2>1, <2>3 DEF Logs
    <3> QED BY <1>6, <3>1 DEF Sound
  <2> QED BY <2>2, <2>3
<1> QED BY <1>4, <1>5, <1>6 DEF Sound, end

-----------------------------------------------------------------------------
(* The steps of one day other than the imports and the restart. *)

LEMMA DayCommitKeeps ==
  ASSUME DayInv, shifts' \in Boards, onLeave' \subseteq Dates,
         clerk' \in [Clerks -> DayReads \cup {Idle}],
         NEW rows, NEW n \in Nat, Commit(rows, n),
         Sound(rows, nextLog + n, cleared), cleared' = cleared
  PROVE  DayInv'
BY DEF DayInv, Commit

LEMMA SameLogsKeep ==
  ASSUME DayInv, shifts' \in Boards, onLeave' \subseteq Dates,
         clerk' \in [Clerks -> DayReads \cup {Idle}],
         UNCHANGED <<logs, nextLog, cleared>>
  PROVE  DayInv'
BY DEF DayInv

LEMMA ReadKeeps ==
  ASSUME DayInv, NEW c \in Clerks, Read(c)
  PROVE  DayInv'
<1>1. /\ clerk' = [clerk EXCEPT ![c] = [busy |-> TRUE, shifts |-> shifts, logs |-> logs, onLeave |-> onLeave]]
      /\ UNCHANGED <<shifts, logs, nextLog, onLeave, cleared>>
  BY DEF Read, attendance
<1>2. [busy |-> TRUE, shifts |-> shifts, logs |-> logs, onLeave |-> onLeave] \in DayReads
  BY DEF DayInv, Sound, DayReads
<1>3. clerk' \in [Clerks -> DayReads \cup {Idle}]
  BY <1>1, <1>2 DEF DayInv
<1> QED BY <1>1, <1>3, SameLogsKeep DEF DayInv

LEMMA AbandonKeeps ==
  ASSUME DayInv, NEW c \in Clerks, Abandon(c)
  PROVE  DayInv'
<1>1. Finish(c) /\ UNCHANGED <<shifts, logs, nextLog, onLeave, cleared>>
  BY DEF Abandon, attendance
<1> QED BY <1>1, DoneIsTyped, SameLogsKeep DEF DayInv

LEMMA EditGridKeeps ==
  ASSUME DayInv, NEW i \in ShiftIds, NEW shift \in ShiftType \cup {NoShift}, EditGrid(i, shift)
  PROVE  DayInv'
<1>1. shifts' = [shifts EXCEPT ![i] = shift] /\ UNCHANGED <<logs, nextLog, onLeave, cleared, clerk>>
  BY DEF EditGrid, attendance
<1>2. shifts' \in Boards
  BY <1>1 DEF DayInv, Boards
<1> QED BY <1>1, <1>2, SameLogsKeep DEF DayInv

LEMMA ChangeLeaveKeeps ==
  ASSUME DayInv, NEW d \in Dates, ChangeLeave(d)
  PROVE  DayInv'
<1>1. onLeave' \subseteq Dates /\ UNCHANGED <<shifts, logs, nextLog, cleared, clerk>>
  BY DEF ChangeLeave, attendance, DayInv
<1> QED BY <1>1, SameLogsKeep DEF DayInv

LEMMA SaveActualKeeps ==
  ASSUME DayInv, NEW c \in Clerks, NEW d \in Dates, NEW i \in ShiftIds \cup {0},
         NEW punch \in Punches, NEW status \in Verdicts, SaveActual(c, d, i, punch, status)
  PROVE  DayInv'
<1> DEFINE read == Seen(c)
           l == LogFor(read.logs, read.shifts, d, i)
           row == Log(d, i, [in |-> punch.in, out |-> punch.out, absent |-> FALSE, status |-> status], "manual")
           over == [row EXCEPT !.source = read.logs[l].source]
<1>1. /\ IF l = 0 THEN Commit(Inserted(logs, <<row>>), 1) ELSE Commit(Updated(l, over), 0)
      /\ Finish(c) /\ UNCHANGED <<shifts, onLeave, cleared>>
  BY DEF SaveActual
<1>2. row \in LogType /\ row.source = "manual"
  BY ConstantsAre DEF Log, LogType, DayConstants, LogStatuses, Sources
<1>3. ASSUME l # 0 PROVE l \in LogIds /\ over \in LogType
  <2>1. read.logs \in LogTables
    BY SeenIsTyped
  <2> HIDE DEF read
  <2>2. l \in LogIds /\ read.logs[l] \in LogType
    BY <1>3, <2>1, LogForIs
  <2> HIDE DEF l, row
  <2>3. read.logs[l].source \in Sources
    BY <2>2 DEF LogType
  <2> QED BY <1>2, <2>2, <2>3 DEF LogType
<1>4. clerk' \in [Clerks -> DayReads \cup {Idle}] /\ Sound(logs, nextLog, cleared) /\ nextLog \in Nat \ {0}
  BY <1>1, DoneIsTyped DEF DayInv
<1> HIDE DEF l, row, over
<1>5. CASE l = 0
  <2>1. <<row>> \in Seq(LogType) /\ Len(<<row>>) = 1 /\ \A k \in 1..Len(<<row>>) : <<row>>[k].source = "manual"
    BY <1>2
  <2>2. Sound(Inserted(logs, <<row>>), nextLog + Len(<<row>>), cleared)
    BY <1>4, <2>1, InsertedSound
  <2> QED BY <1>1, <1>4, <1>5, <2>1, <2>2, DayCommitKeeps DEF DayInv
<1>6. CASE l # 0
  <2>1. Sound(Updated(l, over), nextLog, cleared)
    BY <1>3, <1>4, <1>6, UpdatedSound
  <2>2. nextLog + 0 = nextLog
    BY <1>4
  <2> QED BY <1>1, <1>4, <1>6, <2>1, <2>2, DayCommitKeeps DEF DayInv
<1> QED BY <1>5, <1>6

LEMMA SaveAbsenceKeeps ==
  ASSUME DayInv, NEW c \in Clerks, NEW d \in Dates, NEW kind, SaveAbsence(c, d, kind)
  PROVE  DayInv'
<1> DEFINE read == Seen(c)
           l == LogFor(read.logs, read.shifts, d, 0)
           status == IF kind = "AWOL" THEN "Needs Review" ELSE "Approved"
           new == Log(d, 0, [in |-> NoTime, out |-> NoTime, absent |-> TRUE, status |-> status], "manual")
           present == [logs[l] EXCEPT !.absent = FALSE]
           absent == [logs[l] EXCEPT !.absent = TRUE, !.status = status]
<1>1. /\ IF l # 0 THEN Commit(IF kind = "None" THEN Updated(l, present) ELSE Updated(l, absent), 0)
         ELSE IF kind = "None" THEN Commit(logs, 0)
         ELSE Commit(Inserted(logs, <<new>>), 1)
      /\ onLeave' = (IF kind = "Leave" THEN onLeave \cup {d} ELSE onLeave \ {d})
      /\ Finish(c) /\ UNCHANGED <<shifts, cleared>>
  BY DEF SaveAbsence
<1>2. status \in LogStatuses
  BY DEF LogStatuses
<1> HIDE DEF status
<1>3. new \in LogType /\ new.source = "manual"
  BY ConstantsAre, <1>2 DEF Log, LogType, DayConstants, Sources
<1>4. ASSUME l # 0
      PROVE  /\ l \in LogIds
             /\ logs[l] # NoLog => present \in LogType /\ absent \in LogType
  <2>1. read.logs \in LogTables
    BY SeenIsTyped
  <2> HIDE DEF read
  <2>2. l \in LogIds
    BY <1>4, <2>1, LogForIs
  <2> HIDE DEF l
  <2>3. logs[l] # NoLog => logs[l] \in LogType
    BY <2>2 DEF DayInv, Sound, LogTables
  <2> QED BY <1>2, <2>2, <2>3 DEF LogType
<1>5. /\ clerk' \in [Clerks -> DayReads \cup {Idle}] /\ Sound(logs, nextLog, cleared)
      /\ nextLog \in Nat \ {0} /\ nextLog + 0 = nextLog /\ onLeave' \subseteq Dates /\ shifts' \in Boards
  BY <1>1, DoneIsTyped DEF DayInv
<1> HIDE DEF l, new, present, absent
<1>6. CASE l # 0
  <2>1. Sound(Updated(l, present), nextLog, cleared) /\ Sound(Updated(l, absent), nextLog, cleared)
    BY <1>4, <1>5, <1>6, UpdatedSound
  <2> QED BY <1>1, <1>5, <1>6, <2>1, DayCommitKeeps
<1>7. CASE l = 0 /\ kind = "None"
  BY <1>1, <1>5, <1>7, DayCommitKeeps
<1>8. CASE l = 0 /\ kind # "None"
  <2>1. <<new>> \in Seq(LogType) /\ Len(<<new>>) = 1 /\ \A k \in 1..Len(<<new>>) : <<new>>[k].source = "manual"
    BY <1>3
  <2>2. Sound(Inserted(logs, <<new>>), nextLog + Len(<<new>>), cleared)
    BY <1>5, <2>1, InsertedSound
  <2> QED BY <1>1, <1>5, <1>8, <2>1, <2>2, DayCommitKeeps
<1> QED BY <1>6, <1>7, <1>8

LEMMA DecideKeeps ==
  ASSUME DayInv, NEW l \in LogIds, NEW status \in Verdicts, Decide(l, status)
  PROVE  DayInv'
<1> DEFINE row == [logs[l] EXCEPT !.status = status]
<1>1. logs[l] # NoLog /\ Commit(Updated(l, row), 0) /\ UNCHANGED <<shifts, onLeave, cleared, clerk>>
  BY DEF Decide
<1>2. logs[l] \in LogType /\ status \in LogStatuses
  BY ConstantsAre, <1>1 DEF DayInv, Sound, LogTables, DayConstants, LogStatuses
<1>3. row \in LogType
  BY <1>2 DEF LogType
<1> HIDE DEF row
<1>4. Sound(Updated(l, row), nextLog, cleared) /\ nextLog + 0 = nextLog
  BY <1>3, UpdatedSound DEF DayInv
<1> QED BY <1>1, <1>4, DayCommitKeeps DEF DayInv

LEMMA RestDayKeeps ==
  ASSUME DayInv, NEW c \in Clerks, NEW d \in Dates, RestDay(c, d)
  PROVE  DayInv'
<1>1. /\ \E ids : logs' = Without(logs, ids)
      /\ Finish(c) /\ UNCHANGED <<shifts, nextLog, onLeave, cleared>>
  BY DEF RestDay
<1>2. clerk' \in [Clerks -> DayReads \cup {Idle}]
  BY <1>1, DoneIsTyped
<1>3. Sound(logs', nextLog, cleared)
  BY <1>1, WithoutSound DEF DayInv
<1> QED BY <1>1, <1>2, <1>3 DEF DayInv

LEMMA ResetDayKeeps ==
  ASSUME DayInv, NEW d \in Dates, ResetDay(d)
  PROVE  DayInv'
<1> DEFINE ids == {l \in Logs(logs) : logs[l].date = d}
           end == Without(logs, ids)
<1>1. /\ shifts' = [i \in ShiftIds |-> IF shifts[i].date = d THEN NoShift ELSE shifts[i]]
      /\ logs' = end /\ onLeave' = onLeave \ {d} /\ cleared' = cleared \cup {d}
      /\ UNCHANGED <<nextLog, clerk>>
  BY DEF ResetDay
<1>2. shifts' \in Boards
  BY <1>1 DEF DayInv, Boards
<1>3. Sound(end, nextLog, cleared)
  BY WithoutSound DEF DayInv
<1>4. \A l \in Logs(end) : end[l].date # d
  <2> SUFFICES ASSUME NEW l \in Logs(end) PROVE end[l].date # d
    OBVIOUS
  <2>1. l \in LogIds /\ end[l] # NoLog
    BY DEF Logs
  <2>2. l \notin ids /\ end[l] = logs[l]
    BY <2>1 DEF Without
  <2>3. l \in Logs(logs)
    BY <2>1, <2>2 DEF Logs
  <2> QED BY <2>2, <2>3
<1> HIDE DEF end
<1>5. Sound(end, nextLog, cleared \cup {d})
  BY <1>3, <1>4 DEF Sound
<1> QED BY <1>1, <1>2, <1>5 DEF DayInv

-----------------------------------------------------------------------------
(* Imports: what an upload of one day becomes. *)

LEMMA TypedSequence ==
  ASSUME NEW S, NEW n \in Nat, NEW f \in [1..n -> S]
  PROVE  f \in Seq(S) /\ Len(f) = n /\ DOMAIN f = 1..n
OBVIOUS

LEMMA ElementIs ==
  ASSUME NEW S, NEW s \in Seq(S), NEW k \in 1..Len(s)
  PROVE  s[k] \in S
OBVIOUS

(* The shifts of a day in the order of their start. *)
LEMMA OrderIsOfIds ==
  ASSUME NEW board \in Boards, NEW d \in Dates, NEW ids \in SUBSET ShiftsOn(board, d)
  PROVE  LET order == InOrder(board, ids) IN
         /\ IsFiniteSet(ids) /\ Cardinality(ids) \in Nat
         /\ order \in [1..Cardinality(ids) -> ids]
         /\ order \in Seq(ids) /\ Len(order) = Cardinality(ids)
<1> DEFINE Earlier(j, i) == board[j].from < board[i].from \/ (board[j].from = board[i].from /\ j < i)
           Place(i) == 1 + Cardinality({j \in ids : Earlier(j, i)})
           upto == [i \in ids |-> {j \in ids : Earlier(j, i)} \cup {i}]
           size == Cardinality(ids)
           order == InOrder(board, ids)
<1>1. ids \in SUBSET ShiftIds /\ \A i \in ids : i \in Nat /\ board[i].from \in Nat
  <2>1. \A i \in ids : i \in ShiftIds /\ board[i].from \in Hours
    BY ShiftsAre
  <2>2. \A h \in Hours : h \in Nat
    BY DEF Hours
  <2>3. \A i \in ShiftIds : i \in Nat
    BY DayIdsAreFinite
  <2> QED BY <2>1, <2>2, <2>3, Zenon
<1>2. IsFiniteSet(ids) /\ size \in Nat
  BY <1>1, DayIdsAreFinite, FS_Subset, FS_CardinalityType
<1>3. ASSUME NEW i \in ids PROVE Cardinality(upto[i]) = Place(i)
  <2> DEFINE B == {j \in ids : Earlier(j, i)}
  <2>1. B \in SUBSET ids /\ i \notin B
    BY <1>1
  <2>2. Place(i) = 1 + Cardinality(B) /\ upto[i] = B \cup {i}
    OBVIOUS
  <2> HIDE DEF B
  <2>3. IsFiniteSet(B)
    BY <1>2, <2>1, FS_Subset
  <2>4. Cardinality(B \cup {i}) = Cardinality(B) + 1 /\ Cardinality(B) \in Nat
    BY <2>1, <2>3, FS_AddElement, FS_CardinalityType
  <2>5. Cardinality(B \cup {i}) = 1 + Cardinality(B)
    BY <2>4
  <2> HIDE DEF Place, upto
  <2> QED BY <2>2, <2>5
<1>4. upto \in [ids -> SUBSET ids] /\ \A i \in ids : i \in upto[i]
  OBVIOUS
<1>5. ASSUME NEW i \in ids, NEW j \in ids, Earlier(i, j)
      PROVE  upto[i] \subseteq upto[j] /\ j \notin upto[i]
  <2>0. i \in Nat /\ j \in Nat /\ board[i].from \in Nat /\ board[j].from \in Nat
    BY <1>1
  <2>1. ASSUME NEW k \in ids, Earlier(k, i) PROVE Earlier(k, j)
    <3>1. k \in Nat /\ board[k].from \in Nat
      BY <1>1
    <3> QED BY <1>5, <2>0, <2>1, <3>1
  <2>2. ~Earlier(j, i) /\ i # j
    BY <1>5, <2>0
  <2>3. \A k \in ids : upto[k] = {m \in ids : Earlier(m, k)} \cup {k}
    OBVIOUS
  <2> HIDE DEF Earlier, upto
  <2> QED BY <1>5, <2>1, <2>2, <2>3
<1>6. \A i, j \in ids : i # j => Earlier(i, j) \/ Earlier(j, i)
  <2> SUFFICES ASSUME NEW i \in ids, NEW j \in ids, i # j PROVE Earlier(i, j) \/ Earlier(j, i)
    OBVIOUS
  <2>1. i \in Nat /\ j \in Nat /\ board[i].from \in Nat /\ board[j].from \in Nat
    BY <1>1
  <2> QED BY <2>1
<1>7. \A n \in 1..size : \E i \in ids : Cardinality(upto[i]) = n
  <2> HIDE DEF upto, Earlier
  <2> QED BY <1>2, <1>4, <1>5, <1>6, PlacesAreTaken
<1>8. \A n \in 1..size : \E i \in ids : Place(i) = n
  <2> HIDE DEF upto, Place
  <2> QED BY <1>3, <1>7
<1>9. order = [k \in 1..size |-> CHOOSE i \in ids : Place(i) = k]
  <2>1. Cardinality(ids) = size
    OBVIOUS
  <2>2. order = [k \in 1..Cardinality(ids) |-> CHOOSE i \in ids : Place(i) = k]
    BY DEF InOrder
  <2> QED BY <2>1, <2>2
<1> HIDE DEF Place, size, order
<1>10. order \in [1..size -> ids]
  BY <1>8, <1>9
<1>11. order \in Seq(ids) /\ Len(order) = size
  BY <1>2, <1>10, TypedSequence
<1> QED BY <1>2, <1>10, <1>11 DEF size, order

(* The part of a row that falls to one shift is a row. *)
LEMMA SegmentIsRow ==
  ASSUME NEW board \in Boards, NEW d \in Dates,
         NEW order \in Seq(ShiftsOn(board, d)), NEW k \in 1..Len(order), NEW row, NEW S,
         \A i, o \in Hours \cup {NoTime} : [row EXCEPT !.in = i, !.out = o] \in S,
         row.in \in Hours \cup {NoTime}, row.out \in Hours \cup {NoTime}
  PROVE  Segment(board, order, row, k) \in S
<1>1. order[k] \in ShiftsOn(board, d)
  BY ElementIs
<1>2. board[order[k]].from \in Hours /\ board[order[k]].to \in Hours
  BY <1>1, ShiftsAre
<1> DEFINE i == IF k = 1 THEN row.in ELSE board[order[k]].from
           o == IF k = Len(order) THEN row.out ELSE board[order[k]].to
<1>3. i \in Hours \cup {NoTime} /\ o \in Hours \cup {NoTime}
  BY <1>2
<1>4. Segment(board, order, row, k) = [row EXCEPT !.in = i, !.out = o]
  BY DEF Segment
<1> HIDE DEF i, o
<1> QED BY <1>3, <1>4

(* The logs that an import writes for one day. *)
ImportRows(d) == {r \in LogType : r.date = d /\ r.source = "template_upload"}

LEMMA ImportedIs ==
  ASSUME NEW d \in Dates, NEW i \in ShiftIds \cup {0}, NEW row \in RowType
  PROVE  Imported(d, i, row) \in ImportRows(d)
<1>1. Imported(d, i, row) = [date |-> d, shift |-> i, in |-> row.in, out |-> row.out,
                                 absent |-> row.absent, status |-> row.status, source |-> "template_upload"]
  BY DEF Imported, Log
<1>2. Imported(d, i, row) \in LogType
  BY <1>1 DEF RowType, LogType, Sources
<1> QED BY <1>1, <1>2 DEF ImportRows

LEMMA MatchedIs ==
  ASSUME NEW board \in Boards, NEW d \in Dates, NEW upload \in Uploads
  PROVE  Matched(board, d, upload) \in Seq(ImportRows(d))
<1> DEFINE order == InOrder(board, ShiftsOn(board, d))
           n == Len(upload)
           New(i, row) == Imported(d, i, row)
           Rank(k) == Cardinality({j \in 1..n : upload[j].in <= upload[k].in})
           distinct == \A j, k \in 1..n : upload[j].in # NoTime /\ (upload[j].in = upload[k].in => j = k)
           whole == [k \in 1..n |-> New(0, upload[k])]
           ranked == [k \in 1..n |-> New(order[Rank(k)], upload[k])]
           parts == [k \in DOMAIN order |-> New(order[k], Segment(board, order, upload[1], k))]
           unclear == [k \in 1..n |-> New(0, [upload[k] EXCEPT !.status = "Needs Review"])]
<1>1. /\ n \in Nat /\ n # 0 /\ \A k \in 1..n : upload[k] \in RowType
  <2>1. upload # <<>> /\ upload \in Seq(RowType)
    BY ConstantsAre, Zenon DEF DayConstants
  <2> QED BY <2>1
<1>2. order \in Seq(ShiftsOn(board, d)) /\ Len(order) \in Nat /\ DOMAIN order = 1..Len(order)
      /\ \A k \in 1..Len(order) : order[k] \in ShiftsOn(board, d)
  <2>1. ShiftsOn(board, d) \in SUBSET ShiftsOn(board, d)
    OBVIOUS
  <2>2. order \in Seq(ShiftsOn(board, d))
    BY <2>1, OrderIsOfIds
  <2> HIDE DEF order
  <2> QED BY <2>2
<1>3. \A k \in 1..Len(order) : order[k] \in ShiftIds
  BY <1>2, ShiftsAre
<1>4. whole \in Seq(ImportRows(d))
  <2>1. \A k \in 1..n : New(0, upload[k]) \in ImportRows(d)
    BY <1>1, ImportedIs
  <2> HIDE DEF New, n
  <2> QED BY <1>1, <2>1, TypedSequence
<1>5. ASSUME n = Len(order), distinct PROVE ranked \in Seq(ImportRows(d))
  <2>1. ASSUME NEW k \in 1..n PROVE Rank(k) \in 1..n
    <3> DEFINE upto == {j \in 1..n : upload[j].in <= upload[k].in}
    <3>1. upload[k].in \in Nat
      <4>1. upload[k].in \in Hours \cup {NoTime}
        BY <1>1 DEF RowType
      <4>2. upload[k].in # NoTime
        BY <1>5
      <4>3. Hours \subseteq Nat
        BY DEF Hours, Day
      <4> QED BY <4>1, <4>2, <4>3
    <3>2. upto \in SUBSET (1..n) /\ k \in upto
      BY <3>1
    <3>3. Rank(k) = Cardinality(upto)
      OBVIOUS
    <3> HIDE DEF upto, n
    <3>4. IsFiniteSet(1..n) /\ Cardinality(1..n) = n
      BY <1>1, FS_Interval
    <3>5. IsFiniteSet(upto) /\ Cardinality(upto) \in Nat /\ Cardinality(upto) <= n
      BY <3>2, <3>4, FS_Subset, FS_CardinalityType
    <3>6. Cardinality(upto) # 0
      BY <3>2, <3>5, FS_EmptySet
    <3> HIDE DEF Rank
    <3> QED BY <1>1, <3>3, <3>5, <3>6
  <2>2. \A k \in 1..n : New(order[Rank(k)], upload[k]) \in ImportRows(d)
    <3> HIDE DEF Rank, n, order
    <3> QED BY <1>1, <1>3, <1>5, <2>1, ImportedIs
  <2> HIDE DEF New, n, Rank, order
  <2> QED BY <1>1, <2>2, TypedSequence
<1>6. parts \in Seq(ImportRows(d))
  <2>1. upload[1] \in RowType
    BY <1>1
  <2> DEFINE row == upload[1]
  <2>2. /\ \A i, o \in Hours \cup {NoTime} : [row EXCEPT !.in = i, !.out = o] \in RowType
        /\ row.in \in Hours \cup {NoTime} /\ row.out \in Hours \cup {NoTime}
    BY <2>1 DEF RowType
  <2> HIDE DEF row, order
  <2>3. \A k \in 1..Len(order) : Segment(board, order, row, k) \in RowType
    BY <1>2, <2>2, SegmentIsRow
  <2>4. \A k \in 1..Len(order) : New(order[k], Segment(board, order, row, k)) \in ImportRows(d)
    BY <1>3, <2>3, ImportedIs
  <2> HIDE DEF New
  <2> QED BY <1>2, <2>4, TypedSequence DEF row
<1>7. unclear \in Seq(ImportRows(d))
  <2>1. \A k \in 1..n : [upload[k] EXCEPT !.status = "Needs Review"] \in RowType
    BY <1>1 DEF RowType, LogStatuses
  <2>2. \A k \in 1..n : New(0, [upload[k] EXCEPT !.status = "Needs Review"]) \in ImportRows(d)
    BY <2>1, ImportedIs
  <2> HIDE DEF New, n
  <2> QED BY <1>1, <2>2, TypedSequence
<1>8. ASSUME n = 1, Len(order) = 1 PROVE <<New(order[1], upload[1])>> \in Seq(ImportRows(d))
  <2>1. New(order[1], upload[1]) \in ImportRows(d)
    BY <1>1, <1>3, <1>8, ImportedIs
  <2> HIDE DEF New
  <2> QED BY <2>1
<1>9. Matched(board, d, upload) =
        IF order = <<>> THEN whole
        ELSE IF n = 1 /\ Len(order) = 1 THEN <<New(order[1], upload[1])>>
        ELSE IF n = Len(order) /\ distinct THEN ranked
        ELSE IF n = 1 /\ Segmentable(board, order, upload[1]) THEN parts
        ELSE unclear
  BY DEF Matched
<1> HIDE DEF order, n, New, distinct, whole, ranked, parts, unclear
<1> QED BY <1>4, <1>5, <1>6, <1>7, <1>8, <1>9

LEMMA ImportableIs ==
  ASSUME NEW read, NEW S, NEW new \in Seq(S)
  PROVE  Importable(read, new) \in Seq(S)
<1> DEFINE Taken(i) == i # 0 /\ \E l \in Active(read.logs) : read.logs[l].shift = i /\ read.logs[l].source = "manual"
           Ok(k) == /\ \A j \in 1..(k - 1) : new[j].in # new[k].in \/ new[j].out # new[k].out
                    /\ ~Taken(new[k].shift)
           ok == {k \in DOMAIN new : Ok(k)}
           Place(k) == Cardinality({j \in ok : j <= k})
           size == Cardinality(ok)
<1>1. ok \in SUBSET (1..Len(new)) /\ Len(new) \in Nat
  OBVIOUS
<1>2. Importable(read, new) = [n \in 1..size |-> new[CHOOSE k \in ok : Place(k) = n]]
  <2>1. Cardinality(ok) = size
    OBVIOUS
  <2>2. Importable(read, new) = [n \in 1..Cardinality(ok) |-> new[CHOOSE k \in ok : Place(k) = n]]
    BY DEF Importable
  <2> QED BY <2>1, <2>2
<1> HIDE DEF ok
<1>3. IsFiniteSet(ok) /\ size \in Nat /\ ok \subseteq Nat
  <2>1. IsFiniteSet(1..Len(new)) /\ 1..Len(new) \subseteq Nat
    BY <1>1, FS_Interval
  <2>2. IsFiniteSet(ok) /\ ok \subseteq Nat
    BY <1>1, <2>1, FS_Subset
  <2> QED BY <2>2, FS_CardinalityType
<1>4. ASSUME NEW n \in 1..size PROVE \E k \in ok : Place(k) = n
  <2>1. PICK k \in ok : Cardinality({j \in ok : j <= k}) = n
    BY <1>3, PlaceOfNumber
  <2>2. Place(k) = n
    BY <2>1
  <2> QED BY <2>2
<1> HIDE DEF Place, size
<1>5. \A n \in 1..size : new[CHOOSE k \in ok : Place(k) = n] \in S
  <2> SUFFICES ASSUME NEW n \in 1..size PROVE new[CHOOSE k \in ok : Place(k) = n] \in S
    OBVIOUS
  <2>1. (CHOOSE k \in ok : Place(k) = n) \in ok
    BY <1>4, Zenon
  <2>2. \A k \in 1..Len(new) : new[k] \in S
    OBVIOUS
  <2> DEFINE c == CHOOSE k \in ok : Place(k) = n
  <2>3. c \in 1..Len(new)
    BY <1>1, <2>1
  <2> HIDE DEF c
  <2>4. new[c] \in S
    BY <2>2, <2>3
  <2> QED BY <2>4 DEF c
<1> QED BY <1>2, <1>3, <1>5, TypedSequence

(* An import keeps DayInv when what it writes is for a day that was not cleared. *)
LEMMA ImportKeeps ==
  ASSUME DayInv, NEW d \in Dates, NEW kept, NEW new \in Seq(ImportRows(d)),
         d \in cleared => new = <<>>, kept = logs \/ \E ids : kept = Without(logs, ids),
         Commit(Inserted(kept, new), Len(new)),
         clerk' \in [Clerks -> DayReads \cup {Idle}], UNCHANGED <<shifts, onLeave, cleared>>
  PROVE  DayInv'
<1>1. Sound(kept, nextLog, cleared) /\ nextLog \in Nat \ {0}
  BY WithoutSound DEF DayInv
<1>2. \A k \in 1..Len(new) : new[k] \in ImportRows(d)
  BY ElementIs
<1>3. new \in Seq(LogType)
  <2>1. ImportRows(d) \subseteq LogType
    BY DEF ImportRows
  <2>2. Len(new) \in Nat /\ new \in [1..Len(new) -> LogType]
    BY <1>2, <2>1
  <2> QED BY <2>2, TypedSequence
<1>4. \A k \in 1..Len(new) : new[k].date \in cleared => new[k].source = "manual"
  <2> SUFFICES ASSUME NEW k \in 1..Len(new), new[k].date \in cleared PROVE FALSE
    OBVIOUS
  <2>1. d \in cleared
    BY <1>2 DEF ImportRows
  <2>2. new = <<>>
    BY <2>1
  <2> QED BY <2>2
<1>5. Sound(Inserted(kept, new), nextLog + Len(new), cleared) /\ Len(new) \in Nat
  BY <1>1, <1>3, <1>4, InsertedSound
<1> QED BY <1>5, DayCommitKeeps DEF DayInv

(* What the import of an upload without shifts inserts. *)
LEMMA TemplateRowsAre ==
  ASSUME NEW d \in Dates, NEW upload \in Uploads,
         NEW rows, rows \in {<<>>, <<Last(upload)>>, upload}
  PROVE  LET new == [k \in DOMAIN rows |-> Imported(d, 0, rows[k])] IN
         new \in Seq(ImportRows(d)) /\ Len(new) = Len(rows) /\ (rows = <<>> => new = <<>>)
<1>1. upload \in Seq(RowType) /\ upload # <<>>
  BY ConstantsAre, Zenon DEF DayConstants
<1>2. Len(upload) \in Nat /\ Len(upload) # 0 /\ \A k \in 1..Len(upload) : upload[k] \in RowType
  BY <1>1
<1>3. Last(upload) \in RowType
  BY <1>2 DEF Last
<1>4. rows \in Seq(RowType)
  <2>1. <<Last(upload)>> \in Seq(RowType) /\ <<>> \in Seq(RowType)
    BY <1>3
  <2> QED BY <1>1, <2>1
<1>5. /\ DOMAIN rows = 1..Len(rows) /\ Len(rows) \in Nat
      /\ \A k \in 1..Len(rows) : rows[k] \in RowType
  BY <1>4
<1> DEFINE new == [k \in 1..Len(rows) |-> Imported(d, 0, rows[k])]
<1>6. new \in [1..Len(rows) -> ImportRows(d)]
  BY <1>5, ImportedIs
<1>7. rows = <<>> => Len(rows) = 0
  OBVIOUS
<1> HIDE DEF new
<1>8. new \in Seq(ImportRows(d)) /\ Len(new) = Len(rows)
  BY <1>5, <1>6, TypedSequence
<1>9. rows = <<>> => new = <<>>
  BY <1>7, <1>8
<1> QED BY <1>5, <1>8, <1>9 DEF new

LEMMA ImportTemplateKeeps ==
  ASSUME DayInv, NEW d \in Dates, NEW upload \in Uploads, NEW replace \in BOOLEAN,
         ImportTemplate(d, upload, replace)
  PROVE  DayInv'
<1> DEFINE kept == IF replace THEN Without(logs, Template(logs, d)) ELSE logs
           rows == IF Blocked(d, "template_upload") THEN <<>>
                   ELSE IF replace THEN <<Last(upload)>> ELSE upload
           new == [k \in DOMAIN rows |-> Imported(d, 0, rows[k])]
<1>1. Commit(Inserted(kept, new), Len(rows)) /\ UNCHANGED <<shifts, onLeave, cleared, clerk>>
  BY DEF ImportTemplate
<1>2. rows \in {<<>>, <<Last(upload)>>, upload}
  OBVIOUS
<1>3. d \in cleared => rows = <<>>
  BY DEF Blocked
<1>4. kept = logs \/ \E ids : kept = Without(logs, ids)
  OBVIOUS
<1> HIDE DEF kept, rows
<1>5. new \in Seq(ImportRows(d)) /\ Len(new) = Len(rows) /\ (rows = <<>> => new = <<>>)
  BY <1>2, TemplateRowsAre
<1> HIDE DEF new
<1> QED BY <1>1, <1>3, <1>4, <1>5, ImportKeeps DEF DayInv

LEMMA ImportSplitKeeps ==
  ASSUME DayInv, NEW c \in Clerks, NEW d \in Dates, NEW upload \in Uploads,
         NEW replace \in BOOLEAN, ImportSplit(c, d, upload, replace)
  PROVE  DayInv'
<1> DEFINE rows == Importable(Seen(c), Matched(Seen(c).shifts, d, upload))
           kept == IF replace /\ rows # <<>> THEN Without(logs, Template(logs, d)) ELSE logs
           new == IF Blocked(d, "template_upload") THEN <<>> ELSE rows
<1>1. /\ Commit(Inserted(kept, new), Len(new))
      /\ Finish(c) /\ UNCHANGED <<shifts, onLeave, cleared>>
  BY DEF ImportSplit
<1>2. rows \in Seq(ImportRows(d))
  <2>1. Seen(c).shifts \in Boards
    BY SeenIsTyped
  <2> QED BY <2>1, MatchedIs, ImportableIs
<1> HIDE DEF rows
<1>3. d \in cleared => new = <<>>
  BY DEF Blocked
<1>4. kept = logs \/ \E ids : kept = Without(logs, ids)
  OBVIOUS
<1>5. new \in Seq(ImportRows(d))
  BY <1>2
<1>6. clerk' \in [Clerks -> DayReads \cup {Idle}]
  BY <1>1, DoneIsTyped
<1> HIDE DEF kept, new
<1> QED BY <1>1, <1>3, <1>4, <1>5, <1>6, ImportKeeps

(* Ids below the next one are neither given to new rows nor freed of manual ones. *)
LEMMA ManualLogsStay ==
  ASSUME DayInv, NEW l \in Manual, NEW d, NEW new, NEW kept,
         kept \in {logs, Without(logs, Template(logs, d))},
         logs' = Inserted(kept, new)
  PROVE  logs'[l] = logs[l]
<1>1. l \in LogIds /\ logs[l] # NoLog /\ logs[l].source = "manual"
  BY DEF Manual, Logs
<1>2. l \in Nat /\ nextLog \in Nat /\ ~(nextLog <= l)
  BY <1>1, DayIdsAreFinite DEF DayInv, Sound
<1>3. l \notin nextLog..(nextLog + Len(new) - 1)
  BY <1>2
<1>4. logs'[l] = kept[l]
  BY <1>1, <1>3 DEF Inserted
<1>5. l \notin Template(logs, d)
  BY <1>1 DEF Template
<1>6. kept[l] = logs[l]
  BY <1>1, <1>5 DEF Without
<1> QED BY <1>4, <1>6

LEMMA ImportsLeaveManual ==
  ASSUME DayInv, Imports
  PROVE  \A l \in Manual : logs'[l] = logs[l]
<1> SUFFICES ASSUME NEW l \in Manual PROVE logs'[l] = logs[l]
  OBVIOUS
<1>1. PICK d \in Dates, upload \in Uploads, replace \in BOOLEAN :
        \/ ImportTemplate(d, upload, replace)
        \/ \E c \in Clerks : ImportSplit(c, d, upload, replace)
  BY DEF Imports
<1>2. \E kept \in {logs, Without(logs, Template(logs, d))} : \E new : logs' = Inserted(kept, new)
  <2>1. CASE ImportTemplate(d, upload, replace)
    <3> DEFINE kept == IF replace THEN Without(logs, Template(logs, d)) ELSE logs
    <3>1. kept \in {logs, Without(logs, Template(logs, d))}
      OBVIOUS
    <3>2. \E new : logs' = Inserted(kept, new)
      BY <2>1 DEF ImportTemplate, Commit
    <3> HIDE DEF kept
    <3> QED BY <3>1, <3>2
  <2>2. ASSUME NEW c \in Clerks, ImportSplit(c, d, upload, replace)
        PROVE  \E kept \in {logs, Without(logs, Template(logs, d))} : \E new : logs' = Inserted(kept, new)
    <3> DEFINE rows == Importable(Seen(c), Matched(Seen(c).shifts, d, upload))
               kept == IF replace /\ rows # <<>> THEN Without(logs, Template(logs, d)) ELSE logs
    <3>1. kept \in {logs, Without(logs, Template(logs, d))}
      OBVIOUS
    <3>2. \E new : logs' = Inserted(kept, new)
      BY <2>2 DEF ImportSplit, Commit
    <3> HIDE DEF kept
    <3> QED BY <3>1, <3>2
  <2> QED BY <1>1, <2>1, <2>2
<1> QED BY <1>2, ManualLogsStay

-----------------------------------------------------------------------------
(* The reconciliation of one day: every hour is worked as often as before. *)

(* The same logs with other shifts. *)
Relinked(rows, end) ==
  \A l \in LogIds :
    \/ end[l] = rows[l]
    \/ l \in Logs(rows) /\ \E i \in ShiftIds \cup {0} : end[l] = [rows[l] EXCEPT !.shift = i]

LEMMA RelinkedIs ==
  ASSUME NEW rows \in LogTables, NEW end, Relinked(rows, end), NEW l \in LogIds
  PROVE  /\ l \in Logs(end) <=> l \in Logs(rows)
         /\ end[l] \in LogType \cup {NoLog}
         /\ l \in Logs(rows) => /\ end[l].date = rows[l].date /\ end[l].status = rows[l].status
                                    /\ end[l].in = rows[l].in /\ end[l].out = rows[l].out
                                    /\ end[l].source = rows[l].source
<1>1. CASE end[l] = rows[l]
  BY <1>1 DEF Logs, LogTables
<1>2. ASSUME l \in Logs(rows), NEW i \in ShiftIds \cup {0}, end[l] = [rows[l] EXCEPT !.shift = i]
      PROVE  /\ l \in Logs(end) <=> l \in Logs(rows)
             /\ end[l] \in LogType \cup {NoLog}
             /\ end[l].date = rows[l].date /\ end[l].status = rows[l].status
             /\ end[l].in = rows[l].in /\ end[l].out = rows[l].out
             /\ end[l].source = rows[l].source
  <2>1. rows[l] \in LogType
    BY <1>2, LogsAre
  <2>2. /\ end[l] \in LogType
        /\ end[l].date = rows[l].date /\ end[l].status = rows[l].status
        /\ end[l].in = rows[l].in /\ end[l].out = rows[l].out
        /\ end[l].source = rows[l].source
    BY <1>2, <2>1 DEF LogType
  <2>3. l \in Logs(end)
    BY <2>2, LogOrNone DEF Logs
  <2> QED BY <1>2, <2>2, <2>3
<1> QED BY <1>1, <1>2 DEF Relinked

LEMMA RelinkedKeeps ==
  ASSUME NEW rows, NEW next, NEW days, Sound(rows, next, days),
         NEW end, Relinked(rows, end), NEW F, end = [l \in LogIds |-> F[l]]
  PROVE  /\ Sound(end, next, days)
         /\ \A d, h : Workers(end, d, h) = Workers(rows, d, h)
<1>1. rows \in LogTables
  BY DEF Sound
<1>2. end \in LogTables
  BY <1>1, RelinkedIs DEF LogTables
<1>3. /\ Logs(end) = Logs(rows)
      /\ \A l \in Logs(rows) : /\ end[l].date = rows[l].date /\ end[l].status = rows[l].status
                                   /\ end[l].in = rows[l].in /\ end[l].out = rows[l].out
                                   /\ end[l].source = rows[l].source
  BY <1>1, RelinkedIs DEF Logs
<1>4. Sound(end, next, days)
  <2>1. ASSUME NEW l \in LogIds, next <= l PROVE end[l] = NoLog
    <3>1. l \notin Logs(rows)
      BY <2>1 DEF Sound, Logs
    <3> QED BY <1>3, <3>1 DEF Logs
  <2>2. \A l \in Logs(end) : end[l].date \in days => end[l].source = "manual"
    BY <1>3 DEF Sound
  <2> QED BY <1>2, <2>1, <2>2 DEF Sound
<1>5. ASSUME NEW d, NEW h PROVE Workers(end, d, h) = Workers(rows, d, h)
  <2>1. On(end, d) = On(rows, d) /\ On(rows, d) \subseteq Logs(rows)
    BY <1>3 DEF On, Active
  <2>2. \A l \in On(rows, d) : Covers(end[l], h) <=> Covers(rows[l], h)
    BY <1>3, <2>1 DEF Covers
  <2>3. {l \in On(end, d) : Covers(end[l], h)} = {l \in On(rows, d) : Covers(rows[l], h)}
    BY <2>1, <2>2
  <2> QED BY <2>3 DEF Workers
<1> QED BY <1>4, <1>5

LEMMA DetachedIs ==
  ASSUME NEW rows \in LogTables
  PROVE  Relinked(rows, Detached(rows))
<1> SUFFICES ASSUME NEW l \in LogIds
             PROVE  \/ Detached(rows)[l] = rows[l]
                    \/ l \in Logs(rows) /\ Detached(rows)[l] = [rows[l] EXCEPT !.shift = 0]
  BY DEF Relinked
<1> QED BY DEF Detached, Active

LEMMA PairedIs ==
  ASSUME shifts \in Boards, NEW rows \in LogTables, NEW d \in Dates, Pairable(rows, d)
  PROVE  Relinked(rows, Paired(rows, d))
<1> DEFINE order == InOrder(shifts, Remaining(rows, d))
           loose == Unlinked(rows, d)
           Rank(l) == Cardinality({m \in loose : rows[m].in <= rows[l].in})
<1>1. /\ loose \subseteq Logs(rows)
      /\ \A l \in loose : rows[l].in # NoTime
  BY DEF Unlinked, Loose, On, Active
<1>2. \A l \in loose : rows[l].in \in Nat
  BY <1>1, LogsAre DEF LogType, Hours, Day
<1>3. Remaining(rows, d) \in SUBSET ShiftsOn(shifts, d)
  BY DEF Remaining
<1>4. Len(order) = Cardinality(loose)
  <2>1. Cardinality(loose) = Cardinality(Remaining(rows, d))
    BY DEF Pairable
  <2>2. Cardinality(loose) = Cardinality(Remaining(rows, d))
    BY <2>1
  <2> QED BY <1>3, <2>2, OrderIsOfIds
<1>5. order \in Seq(Remaining(rows, d))
  BY <1>3, OrderIsOfIds
<1>6. IsFiniteSet(loose) /\ Cardinality(loose) \in Nat
  <2>1. loose \subseteq LogIds
    BY <1>1 DEF Logs
  <2> QED BY <2>1, DayIdsAreFinite, FS_Subset, FS_CardinalityType
<1>7. ASSUME NEW l \in loose PROVE order[Rank(l)] \in ShiftIds
  <2> DEFINE upto == {m \in loose : rows[m].in <= rows[l].in}
  <2>1. upto \in SUBSET loose /\ l \in upto
    BY <1>2
  <2>2. Rank(l) = Cardinality(upto)
    OBVIOUS
  <2> HIDE DEF upto, loose, Rank
  <2>3. IsFiniteSet(upto) /\ Cardinality(upto) \in Nat /\ Cardinality(upto) <= Cardinality(loose)
    BY <1>6, <2>1, FS_Subset, FS_CardinalityType
  <2>4. Cardinality(upto) # 0
    BY <2>1, <2>3, FS_EmptySet
  <2> HIDE DEF order
  <2>5. Rank(l) \in 1..Len(order)
    BY <1>4, <1>6, <2>2, <2>3, <2>4
  <2>6. order[Rank(l)] \in Remaining(rows, d)
    BY <1>5, <2>5, ElementIs
  <2> QED BY <1>3, <2>6, ShiftsAre
<1>8. \A l \in LogIds : Paired(rows, d)[l] = IF l \in loose THEN [rows[l] EXCEPT !.shift = order[Rank(l)]] ELSE rows[l]
  BY DEF Paired
<1> HIDE DEF loose, Rank, order
<1> QED BY <1>1, <1>7, <1>8 DEF Relinked

-----------------------------------------------------------------------------
(* A row over several shifts: its parts are worked one after the other. *)

LEMMA AscendingIs ==
  ASSUME NEW n \in Nat, NEW s \in [1..(n + 1) -> Int], \A k \in 1..n : s[k] < s[k + 1]
  PROVE  \A i, j \in 1..(n + 1) : i < j => s[i] < s[j]
<1> SUFFICES ASSUME NEW j \in 1..(n + 1), NEW i \in 1..(n + 1), i < j, ~(s[i] < s[j]) PROVE FALSE
  OBVIOUS
<1> DEFINE bad == {k \in 1..(n + 1) : k < j /\ ~(s[k] < s[j])}
<1>1. IsFiniteSet(bad) /\ bad \subseteq Nat /\ bad # {}
  <2>1. bad \in SUBSET (1..(n + 1)) /\ bad # {}
    OBVIOUS
  <2> HIDE DEF bad
  <2>2. IsFiniteSet(1..(n + 1))
    BY FS_Interval
  <2>3. IsFiniteSet(bad)
    BY <2>1, <2>2, FS_Subset
  <2> QED BY <2>1, <2>3
<1>2. PICK z \in bad : \A k \in bad : k <= z
  <2> HIDE DEF bad
  <2> QED BY <1>1, LastOne
<1>3. z \in 1..n /\ z < j /\ ~(s[z] < s[j]) /\ z + 1 \in 1..(n + 1) /\ s[z] \in Int /\ s[j] \in Int /\ s[z + 1] \in Int
  OBVIOUS
<1>4. s[z] < s[z + 1]
  BY <1>3
<1>5. CASE z + 1 = j
  BY <1>3, <1>4, <1>5
<1>6. CASE z + 1 # j
  <2>1. z + 1 < j
    BY <1>3, <1>6
  <2>2. s[z + 1] < s[j]
    <3>1. z + 1 \notin bad
      <4>1. ~(z + 1 <= z)
        BY <1>3
      <4> HIDE DEF bad
      <4> QED BY <1>2, <4>1
    <3> QED BY <1>3, <2>1, <3>1
  <2> QED BY <1>3, <1>4, <2>2
<1> QED BY <1>5, <1>6

(* Exactly one of the parts of an interval holds a number of the interval. *)
LEMMA OnePart ==
  ASSUME NEW n \in Nat \ {0}, NEW s \in [1..(n + 1) -> Int], \A k \in 1..n : s[k] < s[k + 1], NEW h \in Int
  PROVE  LET In(k) == s[k] <= h /\ h < s[k + 1] IN
         /\ s[1] <= h /\ h < s[n + 1] => \E k \in 1..n : In(k) /\ \A j \in 1..n : In(j) => j = k
         /\ ~(s[1] <= h /\ h < s[n + 1]) => \A k \in 1..n : ~In(k)
<1> DEFINE In(k) == s[k] <= h /\ h < s[k + 1]
<1>1. \A i, j \in 1..(n + 1) : i < j => s[i] < s[j]
  BY AscendingIs
<1>2. \A i, j \in 1..(n + 1) : i <= j => s[i] <= s[j]
  <2> SUFFICES ASSUME NEW i \in 1..(n + 1), NEW j \in 1..(n + 1), i <= j PROVE s[i] <= s[j]
    OBVIOUS
  <2>1. s[i] \in Int /\ s[j] \in Int
    OBVIOUS
  <2>2. CASE i = j
    BY <2>1, <2>2
  <2>3. CASE i < j
    BY <1>1, <2>1, <2>3
  <2> QED BY <2>2, <2>3
<1>3. ASSUME NEW i \in 1..n, NEW j \in 1..n, In(i), In(j) PROVE ~(i < j)
  <2> SUFFICES ASSUME i < j PROVE FALSE
    OBVIOUS
  <2>1. i + 1 \in 1..(n + 1) /\ j \in 1..(n + 1) /\ i + 1 <= j
    OBVIOUS
  <2>2. s[i + 1] <= s[j] /\ s[i + 1] \in Int /\ s[j] \in Int
    BY <1>2, <2>1
  <2> QED BY <1>3, <2>2
<1>4. ASSUME s[1] <= h, h < s[n + 1] PROVE \E k \in 1..n : In(k)
  <2> DEFINE K == {k \in 1..n : s[k] <= h}
  <2>1. IsFiniteSet(K) /\ K \subseteq Nat /\ K # {}
    <3>1. K \in SUBSET (1..n) /\ 1 \in K
      BY <1>4
    <3> HIDE DEF K
    <3>2. IsFiniteSet(1..n)
      BY FS_Interval
    <3>3. IsFiniteSet(K)
      BY <3>1, <3>2, FS_Subset
    <3> QED BY <3>1, <3>3
  <2>2. PICK z \in K : \A k \in K : k <= z
    <3> HIDE DEF K
    <3> QED BY <2>1, LastOne
  <2>3. z \in 1..n /\ s[z] <= h /\ s[z + 1] \in Int
    OBVIOUS
  <2>4. h < s[z + 1]
    <3>1. CASE z = n
      BY <1>4, <3>1
    <3>2. CASE z # n
      <4>1. z + 1 \in 1..n /\ ~(z + 1 <= z)
        BY <2>3, <3>2
      <4>2. z + 1 \notin K
        <5> HIDE DEF K
        <5> QED BY <2>2, <4>1
      <4> QED BY <2>3, <4>1, <4>2
    <3> QED BY <3>1, <3>2
  <2> QED BY <2>3, <2>4
<1>5. ASSUME NEW k \in 1..n, In(k) PROVE s[1] <= h /\ h < s[n + 1]
  <2>1. k \in 1..(n + 1) /\ k + 1 \in 1..(n + 1) /\ 1 \in 1..(n + 1) /\ n + 1 \in 1..(n + 1) /\ 1 <= k /\ k + 1 <= n + 1
    OBVIOUS
  <2>2. s[1] <= s[k] /\ s[k + 1] <= s[n + 1]
    BY <1>2, <2>1
  <2>3. s[1] \in Int /\ s[k] \in Int /\ s[k + 1] \in Int /\ s[n + 1] \in Int
    BY <2>1
  <2> QED BY <1>5, <2>2, <2>3
<1>6. \A i, j \in 1..n : In(i) /\ In(j) => i = j
  <2> SUFFICES ASSUME NEW i \in 1..n, NEW j \in 1..n, In(i), In(j) PROVE i = j
    OBVIOUS
  <2>1. ~(i < j) /\ ~(j < i)
    BY <1>3
  <2> QED BY <2>1
<1> HIDE DEF In
<1>7. /\ s[1] <= h /\ h < s[n + 1] => \E k \in 1..n : In(k) /\ \A j \in 1..n : In(j) => j = k
      /\ ~(s[1] <= h /\ h < s[n + 1]) => \A k \in 1..n : ~In(k)
  BY <1>4, <1>5, <1>6, Zenon
<1> QED BY <1>7 DEF In

(* The parts of a row that Segmentable lets through share its hours out. *)
LEMMA PartsOfRow ==
  ASSUME shifts \in Boards, NEW d \in Dates, NEW order \in Seq(ShiftsOn(shifts, d)),
         NEW row \in LogType, Segmentable(shifts, order, row), NEW h \in Int
  PROVE  LET n == Len(order)
             In(k) == Covers(Segment(shifts, order, row, k), h)
         IN /\ n \in Nat /\ n > 1
            /\ Covers(row, h) => \E k \in 1..n : In(k) /\ \A j \in 1..n : In(j) => j = k
            /\ ~Covers(row, h) => \A k \in 1..n : ~In(k)
<1> DEFINE n == Len(order)
           From(k) == shifts[order[k]].from
           To(k) == shifts[order[k]].to
           end == EndHour(row.in, row.out)
           start == [k \in 1..(n + 1) |-> IF k = 1 THEN row.in ELSE IF k = n + 1 THEN end ELSE From(k)]
           Part(k) == Segment(shifts, order, row, k)
           In(k) == Covers(Part(k), h)
<1>1. n \in Nat /\ n > 1
  BY DEF Segmentable
<1>2. \A k \in 1..n : From(k) \in Hours /\ To(k) \in Hours
  <2> SUFFICES ASSUME NEW k \in 1..n PROVE From(k) \in Hours /\ To(k) \in Hours
    OBVIOUS
  <2>1. order[k] \in ShiftsOn(shifts, d)
    BY ElementIs
  <2> QED BY <2>1, ShiftsAre
<1>3. row.in \in Hours /\ row.out \in Hours
  BY DEF Segmentable, LogType
<1>4. /\ \A k \in 1..(n - 1) : /\ EndHour(From(k), To(k)) = From(k + 1)
                               /\ row.in < From(k + 1) /\ From(k + 1) < end
      /\ end > From(n)
  <2>1. /\ \A k \in 1..(n - 1) :
             /\ EndHour(From(k), To(k)) = From(k + 1)
             /\ row.in < EndHour(From(k), To(k)) /\ EndHour(From(k), To(k)) < end
        /\ end > From(n)
    BY DEF Segmentable
  <2> HIDE DEF From, To, end, n
  <2>2. \A k \in 1..(n - 1) : row.in < From(k + 1) /\ From(k + 1) < end
    BY <2>1, Zenon
  <2> QED BY <2>1, <2>2, Zenon
<1>5. end \in Int /\ end = (IF row.out <= row.in THEN row.out + 24 ELSE row.out)
  <2>1. row.in \in 0..23 /\ row.out \in 0..23
    BY <1>3 DEF Hours, Day
  <2>2. end = (IF row.out <= row.in THEN row.out + 24 ELSE row.out)
    BY DEF EndHour, Day
  <2> HIDE DEF end
  <2> QED BY <2>1, <2>2
<1> HIDE DEF From, To, n
<1>6. ASSUME NEW k \in 1..(n - 1) PROVE To(k) = From(k + 1) /\ From(k) < To(k)
  <2>1. From(k) \in 0..23 /\ To(k) \in 0..23 /\ From(k + 1) \in 0..23
    BY <1>1, <1>2 DEF Hours, Day
  <2>2. (IF To(k) <= From(k) THEN To(k) + 24 ELSE To(k)) = From(k + 1)
    BY <1>4 DEF EndHour, Day
  <2>3. \A a, b, c \in 0..23 : (IF b <= a THEN b + 24 ELSE b) = c => b = c /\ a < b
    OBVIOUS
  <2> QED BY <2>1, <2>2, <2>3, Zenon
<1>7. ASSUME NEW k \in 1..n PROVE From(k) \in 0..23 /\ To(k) \in 0..23 /\ row.in \in 0..23 /\ row.out \in 0..23
  BY <1>2, <1>3 DEF Hours, Day
<1> HIDE DEF end
<1>8. start \in [1..(n + 1) -> Int]
  <2>1. \A k \in 1..(n + 1) : (IF k = 1 THEN row.in ELSE IF k = n + 1 THEN end ELSE From(k)) \in Int
    <3>1. ASSUME NEW k \in 1..(n + 1), k # n + 1 PROVE From(k) \in Int
      <4>1. k \in 1..n
        BY <1>1, <3>1
      <4>2. From(k) \in 0..23
        BY <1>7, <4>1
      <4> QED BY <4>2
    <3>2. row.in \in Int
      <4>1. 1 \in 1..n
        BY <1>1
      <4>2. row.in \in 0..23
        BY <1>7, <4>1
      <4> QED BY <4>2
    <3> HIDE DEF n
    <3> QED BY <1>5, <3>1, <3>2, Zenon
  <2> QED BY <2>1
<1>9. /\ start[1] = row.in /\ start[n + 1] = end
      /\ \A k \in 2..n : start[k] = From(k)
  BY <1>1
<1> HIDE DEF start
<1>10. row.in < From(n) /\ From(n) < end /\ From(n) \in 0..23 /\ row.in \in 0..23 /\ row.out \in 0..23
  <2>1. n - 1 \in 1..(n - 1) /\ (n - 1) + 1 = n /\ n \in 1..n
    BY <1>1
  <2>2. row.in < From((n - 1) + 1) /\ From((n - 1) + 1) < end
    BY <1>4, <2>1
  <2> QED BY <1>7, <2>1, <2>2
<1>11. ASSUME NEW k \in 1..n PROVE start[k] < start[k + 1]
  <2>1. CASE k = n
    BY <1>1, <1>9, <1>10, <2>1
  <2>2. CASE k # n
    <3>1. k \in 1..(n - 1) /\ k + 1 \in 2..n
      BY <1>1, <2>2
    <3>2. start[k + 1] = From(k + 1)
      BY <1>9, <3>1
    <3>3. CASE k = 1
      BY <1>4, <1>9, <3>1, <3>2, <3>3
    <3>4. CASE k # 1
      <4>1. start[k] = From(k)
        BY <1>9, <3>4
      <4> QED BY <1>6, <3>1, <3>2, <4>1
    <3> QED BY <3>3, <3>4
  <2> QED BY <2>1, <2>2
<1>12. ASSUME NEW k \in 1..n
       PROVE  /\ Part(k).in = start[k] /\ Part(k).in # -1 /\ Part(k).out # -1
              /\ (IF Part(k).out <= Part(k).in THEN Part(k).out + 24 ELSE Part(k).out) = start[k + 1]
  <2>1. /\ Part(k).in = (IF k = 1 THEN row.in ELSE From(k))
        /\ Part(k).out = (IF k = n THEN row.out ELSE To(k))
    BY DEF Segment, LogType, From, To, n
  <2> HIDE DEF Part
  <2>2. Part(k).in = start[k] /\ Part(k).in \in 0..23 /\ Part(k).out \in 0..23
    BY <1>7, <1>9, <2>1
  <2>3. CASE k = n
    <3>1. Part(k).in = From(n) /\ Part(k).out = row.out
      BY <1>1, <2>1, <2>3
    <3>2. start[k + 1] = end
      BY <1>9, <2>3
    <3>3. \A i, f, o \in 0..23 :
            i < f /\ f < (IF o <= i THEN o + 24 ELSE o)
            => (IF o <= f THEN o + 24 ELSE o) = (IF o <= i THEN o + 24 ELSE o)
      OBVIOUS
    <3>4. (IF row.out <= From(n) THEN row.out + 24 ELSE row.out) = end
      BY <1>5, <1>10, <3>3, Zenon
    <3>5. Part(k).in # -1 /\ Part(k).out # -1
      <4>1. \A x \in 0..23 : x # -1
        OBVIOUS
      <4> QED BY <2>2, <4>1, Zenon
    <3> QED BY <2>2, <3>1, <3>2, <3>4, <3>5
  <2>4. CASE k # n
    <3>1. k \in 1..(n - 1) /\ k + 1 \in 2..n
      BY <1>1, <2>4
    <3>2. Part(k).out = From(k + 1) /\ start[k + 1] = From(k + 1)
      BY <1>6, <1>9, <2>1, <2>4, <3>1
    <3>3. Part(k).in < Part(k).out
      BY <1>11, <2>2, <3>2
    <3>4. Part(k).in # -1 /\ Part(k).out # -1
      <4>1. \A x \in 0..23 : x # -1
        OBVIOUS
      <4> QED BY <2>2, <4>1, Zenon
    <3>5. \A i, o \in 0..23 : i < o => (IF o <= i THEN o + 24 ELSE o) = o
      OBVIOUS
    <3> QED BY <2>2, <3>2, <3>3, <3>4, <3>5, Zenon
  <2> QED BY <2>3, <2>4
<1>13. \A k \in 1..n : In(k) <=> start[k] <= h /\ h < start[k + 1]
  <2> SUFFICES ASSUME NEW k \in 1..n PROVE In(k) <=> start[k] <= h /\ h < start[k + 1]
    OBVIOUS
  <2> HIDE DEF Part
  <2> QED BY <1>12 DEF Covers, EndHour, Day, NoTime
<1>14. Covers(row, h) <=> start[1] <= h /\ h < start[n + 1]
  <2>0. \A x \in 0..23 : x # -1
    OBVIOUS
  <2>1. row.in # -1 /\ row.out # -1
    BY <1>10, <2>0, Zenon
  <2>2. Covers(row, h) <=> row.in <= h /\ h < end
    BY <1>5, <2>1 DEF Covers, EndHour, Day, NoTime
  <2> QED BY <1>9, <2>2
<1> HIDE DEF In
<1>15. /\ start[1] <= h /\ h < start[n + 1] => \E k \in 1..n : In(k) /\ \A j \in 1..n : In(j) => j = k
       /\ ~(start[1] <= h /\ h < start[n + 1]) => \A k \in 1..n : ~In(k)
  <2> DEFINE Between(k) == start[k] <= h /\ h < start[k + 1]
  <2>1. /\ start[1] <= h /\ h < start[n + 1] => \E k \in 1..n : Between(k) /\ \A j \in 1..n : Between(j) => j = k
        /\ ~(start[1] <= h /\ h < start[n + 1]) => \A k \in 1..n : ~Between(k)
    <3>1. n \in Nat \ {0}
      BY <1>1
    <3> QED BY <1>8, <1>11, <3>1, OnePart, Zenon
  <2> HIDE DEF Between
  <2>2. \A k \in 1..n : In(k) <=> Between(k)
    BY <1>13 DEF Between
  <2> QED BY <2>1, <2>2, Zenon
<1> QED BY <1>1, <1>14, <1>15 DEF In, n

(* A row that is split leaves sound logs, and nobody's hours but in its own parts. *)
LEMMA SegmentedKeeps ==
  ASSUME shifts \in Boards, NEW next \in Nat \ {0}, NEW rows, Sound(rows, next, cleared),
         NEW d \in Dates, NEW l \in Unlinked(rows, d), NEW order \in Seq(ShiftsOn(shifts, d)),
         Segmentable(shifts, order, rows[l]), ~Blocked(d, rows[l].source)
  PROVE  LET end == Segmented(rows, next, d, l, order)
             n == Len(order)
         IN /\ n \in Nat /\ n > 1
            /\ Sound(end, next + n - 1, cleared)
            /\ next + n - 1 <= MaxLogs + 1 =>
                 \A e : \A h \in Int : Workers(end, e, h) = Workers(rows, e, h)
<1> DEFINE end == Segmented(rows, next, d, l, order)
           n == Len(order)
           row == rows[l]
           Part(k) == [Segment(shifts, order, row, k) EXCEPT !.shift = order[k]]
           New(m) == m \in next..(next + n - 2)
           In(k, h) == Covers(Part(k), h)
<1>1. /\ l \in LogIds /\ row \in LogType /\ row.date = d /\ row.status # "Rejected"
      /\ l \in Logs(rows)
  <2>1. l \in Logs(rows) /\ row.date = d /\ row.status # "Rejected"
    BY DEF Unlinked, Loose, On, Active
  <2> QED BY <2>1, LogsAre DEF Sound
<1>2. n \in Nat /\ n > 1
  BY DEF Segmentable
<1>3. l \in Nat /\ l < next /\ \A m \in LogIds : m \in Nat
  <2>1. l \in Nat /\ ~(next <= l) /\ \A m \in LogIds : m \in Nat
    BY <1>1, DayIdsAreFinite DEF Sound, Logs
  <2> QED BY <2>1
<1> HIDE DEF row
<1>4. ASSUME NEW k \in 1..n
      PROVE  /\ Part(k) \in LogType /\ Part(k).date = d /\ Part(k).source = row.source
             /\ Part(k).status = row.status
             /\ \A h : In(k, h) <=> Covers(Segment(shifts, order, row, k), h)
  <2> DEFINE Parts == {r \in LogType : r.date = d /\ r.source = row.source /\ r.status = row.status}
             part == Segment(shifts, order, row, k)
  <2>1. \A i, o \in Hours \cup {NoTime} : [row EXCEPT !.in = i, !.out = o] \in Parts
    BY <1>1 DEF LogType
  <2>2. row.in \in Hours \cup {NoTime} /\ row.out \in Hours \cup {NoTime}
    BY <1>1 DEF LogType
  <2> HIDE DEF Parts
  <2>3. part \in Parts
    BY <2>1, <2>2, SegmentIsRow
  <2>4. order[k] \in ShiftIds
    <3>1. order[k] \in ShiftsOn(shifts, d)
      BY ElementIs
    <3> QED BY <3>1, ShiftsAre
  <2> HIDE DEF part
  <2>5. part \in LogType /\ part.date = d /\ part.source = row.source /\ part.status = row.status
    BY <2>3 DEF Parts
  <2>6. Part(k) = [part EXCEPT !.shift = order[k]]
    BY DEF part
  <2> HIDE DEF Part
  <2>7. /\ Part(k) \in LogType /\ Part(k).date = part.date /\ Part(k).source = part.source
        /\ Part(k).status = part.status /\ Part(k).in = part.in /\ Part(k).out = part.out
    BY <2>4, <2>5, <2>6 DEF LogType
  <2>8. \A h : In(k, h) <=> Covers(part, h)
    BY <2>7 DEF Covers
  <2> QED BY <2>5, <2>7, <2>8 DEF part
<1>5. \A m \in LogIds :
        end[m] = IF m = l THEN Part(1) ELSE IF New(m) THEN Part(m - next + 2) ELSE rows[m]
  BY DEF Segmented, row
<1>6. \A m \in LogIds : New(m) => /\ m - next + 2 \in 2..n /\ m - next + 2 \in 1..n /\ next <= m
                                      /\ rows[m] = NoLog /\ m # l
  <2> SUFFICES ASSUME NEW m \in LogIds, New(m)
               PROVE  /\ m - next + 2 \in 2..n /\ m - next + 2 \in 1..n /\ next <= m
                      /\ rows[m] = NoLog /\ m # l
    OBVIOUS
  <2>1. next <= m /\ m - next + 2 \in 2..n /\ m - next + 2 \in 1..n
    BY <1>2, <1>3
  <2> QED BY <1>3, <2>1 DEF Sound
<1>7. end = [m \in LogIds |-> end[m]]
  BY DEF Segmented
<1> HIDE DEF end, Part
<1>8. end \in LogTables
  <2>1. \A m \in LogIds : end[m] \in LogType \cup {NoLog}
    <3> SUFFICES ASSUME NEW m \in LogIds PROVE end[m] \in LogType \cup {NoLog}
      OBVIOUS
    <3>1. rows[m] \in LogType \cup {NoLog}
      BY DEF Sound, LogTables
    <3>2. 1 \in 1..n
      BY <1>2
    <3> HIDE DEF New
    <3> QED BY <1>4, <1>5, <1>6, <3>1, <3>2
  <2> QED BY <1>7, <2>1 DEF LogTables
<1>9. Sound(end, next + n - 1, cleared)
  <2>1. ASSUME NEW m \in LogIds, next + n - 1 <= m PROVE end[m] = NoLog
    <3>1. m # l /\ ~New(m) /\ next <= m
      BY <1>2, <1>3, <2>1
    <3> QED BY <1>5, <3>1 DEF Sound
  <2>2. ASSUME NEW m \in Logs(end), end[m].date \in cleared PROVE end[m].source = "manual"
    <3>1. m \in LogIds /\ end[m] # NoLog
      BY DEF Logs
    <3>2. ASSUME NEW k \in 1..n, end[m] = Part(k) PROVE end[m].source = "manual"
      <4>1. d \in cleared /\ end[m].source = row.source
        BY <1>4, <2>2, <3>2
      <4> QED BY <4>1 DEF Blocked, row
    <3>3. CASE m # l /\ ~New(m)
      <4>1. end[m] = rows[m] /\ m \in Logs(rows)
        BY <1>5, <3>1, <3>3 DEF Logs
      <4> QED BY <2>2, <4>1 DEF Sound
    <3>4. 1 \in 1..n
      BY <1>2
    <3> HIDE DEF New
    <3> QED BY <1>5, <1>6, <3>1, <3>2, <3>3, <3>4
  <2> QED BY <1>8, <2>1, <2>2 DEF Sound
<1>10. ASSUME next + n - 1 <= MaxLogs + 1, NEW e, NEW h \in Int
       PROVE  Workers(end, e, h) = Workers(rows, e, h)
  <2> DEFINE was == {m \in On(rows, e) : Covers(rows[m], h)}
             is == {m \in On(end, e) : Covers(end[m], h)}
             rest == was \ {l}
             id == [k \in 1..n |-> IF k = 1 THEN l ELSE next + k - 2]
  <2>1. \A k \in 1..n : id[k] \in LogIds /\ end[id[k]] = Part(k) /\ (id[k] = l <=> k = 1) /\ (k # 1 => New(id[k]))
    <3> SUFFICES ASSUME NEW k \in 1..n
                 PROVE  id[k] \in LogIds /\ end[id[k]] = Part(k) /\ (id[k] = l <=> k = 1) /\ (k # 1 => New(id[k]))
      OBVIOUS
    <3>1. CASE k = 1
      BY <1>1, <1>5, <3>1
    <3>2. CASE k # 1
      <4> DEFINE m == next + k - 2
      <4>1. m \in 1..MaxLogs /\ m # l /\ New(m) /\ m - next + 2 = k
        <5>1. MaxLogs \in Nat
          BY ConstantsAre, Zenon DEF DayConstants
        <5> QED BY <1>2, <1>3, <1>10, <3>2, <5>1
      <4>2. id[k] = m
        BY <3>2
      <4>3. m \in LogIds
        BY <4>1 DEF LogIds
      <4> HIDE DEF m, New, id
      <4> QED BY <1>5, <3>2, <4>1, <4>2, <4>3
    <3> QED BY <3>1, <3>2
  <2>2. \A m \in LogIds : m = l \/ New(m) => \E k \in 1..n : m = id[k]
    <3> SUFFICES ASSUME NEW m \in LogIds, m = l \/ New(m) PROVE \E k \in 1..n : m = id[k]
      OBVIOUS
    <3>1. CASE m = l
      <4>1. 1 \in 1..n /\ m = id[1]
        BY <1>2, <3>1
      <4> QED BY <4>1
    <3>2. CASE New(m)
      <4> DEFINE k == m - next + 2
      <4>1. k \in 1..n /\ k # 1 /\ next + k - 2 = m
        BY <1>3, <1>6, <3>2
      <4>2. id[k] = m
        BY <4>1
      <4> QED BY <4>1, <4>2
    <3> QED BY <3>1, <3>2
  <2> HIDE DEF id, New
  <2>3. /\ \A m : m \in rest <=> m \in LogIds /\ m # l /\ ~New(m) /\ m \in was
        /\ \A m : m \in was => m \in LogIds
    BY <1>6 DEF On, Active, Logs
  <2>4. \A m \in LogIds : m # l /\ ~New(m) => (m \in is <=> m \in was)
    BY <1>5 DEF On, Active, Logs
  <2>5. \A m : m \in is => m \in LogIds
    BY DEF On, Active, Logs
  <2>6. \A k \in 1..n : id[k] \in is <=> e = d /\ In(k, h)
    <3> SUFFICES ASSUME NEW k \in 1..n PROVE id[k] \in is <=> e = d /\ In(k, h)
      OBVIOUS
    <3>1. Part(k) \in LogType /\ Part(k).date = d /\ Part(k).status # "Rejected"
      BY <1>1, <1>4
    <3>2. Part(k) # NoLog
      BY <3>1, LogOrNone
    <3>3. id[k] \in LogIds /\ end[id[k]] = Part(k)
      BY <2>1
    <3>4. id[k] \in On(end, e) <=> e = d
      BY <3>1, <3>2, <3>3 DEF On, Active, Logs
    <3> QED BY <3>3, <3>4
  <2>7. l \in was <=> e = d /\ Covers(row, h)
    BY <1>1 DEF On, Active, row
  <2>8. /\ Covers(row, h) => \E k \in 1..n : In(k, h) /\ \A j \in 1..n : In(j, h) => j = k
        /\ ~Covers(row, h) => \A k \in 1..n : ~In(k, h)
    <3> DEFINE Share(k) == Covers(Segment(shifts, order, row, k), h)
    <3>1. /\ Covers(row, h) => \E k \in 1..n : Share(k) /\ \A j \in 1..n : Share(j) => j = k
          /\ ~Covers(row, h) => \A k \in 1..n : ~Share(k)
      BY <1>1, PartsOfRow DEF row
    <3>2. \A k \in 1..n : In(k, h) <=> Share(k)
      BY <1>4
    <3> HIDE DEF Share, In
    <3> QED BY <3>1, <3>2, Zenon
  <2> HIDE DEF In
  <2>9. IsFiniteSet(rest) /\ Cardinality(rest) \in Nat
    <3>1. rest \subseteq LogIds
      BY <2>3
    <3> QED BY <3>1, DayIdsAreFinite, FS_Subset, FS_CardinalityType
  <2> HIDE DEF is, was, rest
  <2>10. CASE e = d /\ Covers(row, h)
    <3>1. PICK k \in 1..n : In(k, h) /\ \A j \in 1..n : In(j, h) => j = k
      BY <2>8, <2>10
    <3>2. id[k] \notin rest /\ l \notin rest
      BY <2>1, <2>3
    <3>3. is = rest \cup {id[k]}
      BY <2>1, <2>2, <2>3, <2>4, <2>5, <2>6, <2>10, <3>1
    <3>4. was = rest \cup {l}
      BY <2>7, <2>10 DEF rest
    <3>5. Cardinality(rest \cup {id[k]}) = Cardinality(rest) + 1 /\ Cardinality(rest \cup {l}) = Cardinality(rest) + 1
      BY <2>9, <3>2, FS_AddElement
    <3>6. Cardinality(is) = Cardinality(was)
      BY <3>3, <3>4, <3>5
    <3> QED BY <3>6 DEF Workers, is, was
  <2>11. CASE ~(e = d /\ Covers(row, h))
    <3>1. is = was
      <4>1. \A k \in 1..n : id[k] \notin is
        BY <2>6, <2>8, <2>11
      <4>2. l \notin was
        BY <2>7, <2>11
      <4>3. \A m : m \in is <=> m \in rest
        BY <2>2, <2>3, <2>4, <2>5, <4>1
      <4> QED BY <4>2, <4>3 DEF rest
    <3> QED BY <3>1 DEF Workers, is, was
  <2> QED BY <2>10, <2>11
<1> QED BY <1>2, <1>9, <1>10 DEF end, n

-----------------------------------------------------------------------------
(* The reconciliation of all days: what holds before the first and is kept by each. *)

Reconciling ==
  {acc \in [rows : LogTables, next : Nat \ {0}] :
     /\ nextLog <= acc.next /\ Sound(acc.rows, acc.next, cleared)
     /\ acc.next <= MaxLogs + 1 =>
          \A e : \A h \in Int : Workers(acc.rows, e, h) = Workers(logs, e, h)}

LEMMA ReconcilingStarts ==
  ASSUME DayInv
  PROVE  [rows |-> Detached(logs), next |-> nextLog] \in Reconciling
<1> DEFINE end == Detached(logs)
           acc == [rows |-> end, next |-> nextLog]
<1>1. logs \in LogTables /\ Sound(logs, nextLog, cleared) /\ nextLog \in Nat \ {0}
  BY DEF DayInv, Sound
<1>2. Relinked(logs, end)
  BY <1>1, DetachedIs
<1>3. end = [l \in LogIds |-> end[l]]
  BY DEF Detached
<1> HIDE DEF end
<1>4. Sound(end, nextLog, cleared) /\ \A e, h : Workers(end, e, h) = Workers(logs, e, h)
  BY <1>1, <1>2, <1>3, RelinkedKeeps
<1>5. acc.rows = end /\ acc.next = nextLog /\ acc \in [rows : LogTables, next : Nat \ {0}] /\ nextLog <= nextLog
  BY <1>1, <1>4 DEF Sound
<1> HIDE DEF acc
<1>6. acc \in Reconciling
  BY <1>4, <1>5 DEF Reconciling
<1> QED BY <1>6 DEF acc, end

LEMMA DayReconciledKeeps ==
  ASSUME DayInv, NEW acc \in Reconciling, NEW d \in Dates
  PROVE  DayReconciled(acc, d) \in Reconciling
<1> DEFINE rows == acc.rows
           next == acc.next
           loose == Unlinked(rows, d)
           order == InOrder(shifts, Remaining(rows, d))
           l == Newest(loose)
           splittable == /\ Cardinality(loose) = 1 /\ Segmentable(shifts, order, rows[l])
                         /\ ~Blocked(d, rows[l].source)
           split == [rows |-> Segmented(rows, next, d, l, order), next |-> next + Len(order) - 1]
           paired == [acc EXCEPT !.rows = Paired(rows, d)]
           end == DayReconciled(acc, d)
<1>1. /\ acc \in [rows : LogTables, next : Nat \ {0}]
      /\ rows \in LogTables /\ next \in Nat \ {0} /\ nextLog \in Nat /\ nextLog <= next
      /\ Sound(rows, next, cleared) /\ shifts \in Boards
      /\ next <= MaxLogs + 1 => \A e : \A h \in Int : Workers(rows, e, h) = Workers(logs, e, h)
      /\ MaxLogs \in Nat
  <2>1. MaxLogs \in Nat
    BY ConstantsAre, Zenon DEF DayConstants
  <2> QED BY <2>1 DEF Reconciling, DayInv
<1>2. \/ end = acc
      \/ loose # {} /\ splittable /\ end = split
      \/ Pairable(rows, d) /\ end = paired
  BY DEF DayReconciled
<1>3. CASE loose # {} /\ splittable /\ end = split
  <2>1. l \in loose
    <3>1. loose \in SUBSET LogIds
      BY DEF Unlinked, Loose, On, Active, Logs
    <3> QED BY <1>3, <3>1, NewestIs
  <2>2. order \in Seq(ShiftsOn(shifts, d))
    <3> DEFINE ids == Remaining(rows, d)
    <3>1. ids \in SUBSET ShiftsOn(shifts, d)
      BY DEF Remaining
    <3> HIDE DEF ids
    <3>2. order \in [1..Cardinality(ids) -> ids] /\ Cardinality(ids) \in Nat
      BY <1>1, <3>1, OrderIsOfIds DEF ids
    <3> HIDE DEF order
    <3>3. order \in [1..Cardinality(ids) -> ShiftsOn(shifts, d)]
      BY <3>1, <3>2
    <3> QED BY <3>2, <3>3, TypedSequence
  <2> DEFINE n == Len(order)
             rest == Segmented(rows, next, d, l, order)
  <2>3. /\ n \in Nat /\ n > 1 /\ Sound(rest, next + n - 1, cleared)
        /\ next + n - 1 <= MaxLogs + 1 =>
             \A e : \A h \in Int : Workers(rest, e, h) = Workers(rows, e, h)
    <3> HIDE DEF rows, next, l, order, loose
    <3>1. l \in Unlinked(rows, d) /\ Segmentable(shifts, order, rows[l]) /\ ~Blocked(d, rows[l].source)
      BY <1>3, <2>1 DEF loose
    <3> QED BY <1>1, <2>2, <3>1, SegmentedKeeps
  <2>4. split.rows = rest /\ split.next = next + n - 1
    OBVIOUS
  <2> HIDE DEF rest, n, order, rows, l, next
  <2>5. /\ next + n - 1 \in Nat \ {0} /\ nextLog <= next + n - 1
        /\ next + n - 1 <= MaxLogs + 1 => next <= MaxLogs + 1
    BY <1>1, <2>3
  <2>6. split \in [rows : LogTables, next : Nat \ {0}]
    <3>1. rest \in LogTables
      BY <2>3 DEF Sound
    <3> QED BY <2>5, <3>1 DEF rest, n
  <2> HIDE DEF split
  <2>7. split.next <= MaxLogs + 1 => \A e : \A h \in Int : Workers(split.rows, e, h) = Workers(logs, e, h)
    BY <1>1, <2>3, <2>4, <2>5
  <2>8. split \in Reconciling
    BY <2>3, <2>4, <2>5, <2>6, <2>7 DEF Reconciling
  <2> QED BY <1>3, <2>8
<1>4. CASE Pairable(rows, d) /\ end = paired
  <2> DEFINE rest == Paired(rows, d)
  <2>1. Relinked(rows, rest)
    <3> HIDE DEF rows
    <3> QED BY <1>1, <1>4, PairedIs
  <2>2. rest = [m \in LogIds |-> rest[m]]
    BY DEF Paired
  <2> HIDE DEF rest, rows, next
  <2>3. Sound(rest, next, cleared) /\ \A e, h : Workers(rest, e, h) = Workers(rows, e, h)
    BY <1>1, <2>1, <2>2, RelinkedKeeps
  <2>4. paired \in [rows : LogTables, next : Nat \ {0}] /\ paired.rows = rest /\ paired.next = next
    <3>1. rest \in LogTables
      BY <2>3 DEF Sound
    <3> QED BY <1>1, <3>1 DEF rest, next
  <2> HIDE DEF paired
  <2>5. paired \in Reconciling
    BY <1>1, <2>3, <2>4 DEF Reconciling
  <2> QED BY <1>4, <2>5
<1>5. CASE end = acc
  BY <1>5
<1> QED BY <1>2, <1>3, <1>4, <1>5

LEMMA ReconciledIs ==
  ASSUME DayInv
  PROVE  Reconciled(logs, nextLog) \in Reconciling
<1> DEFINE base == [rows |-> Detached(logs), next |-> nextLog]
           step == [p \in Reconciling \X Dates |-> DayReconciled(p[1], p[2])]
           IsIt(it) == it = [s \in SUBSET Dates |->
                               IF s = {} THEN base ELSE DayReconciled(it[s \ {Max(s)}], Max(s))]
           it == CHOOSE it : IsIt(it)
<1>1. base \in Reconciling
  BY ReconcilingStarts
<1>2. step \in [Reconciling \X Dates -> Reconciling]
  <2>1. \A p \in Reconciling \X Dates : DayReconciled(p[1], p[2]) \in Reconciling
    BY DayReconciledKeeps
  <2> QED BY <2>1
<1>3. IsFiniteSet(Dates) /\ Dates \subseteq Nat
  <2>1. Dates \subseteq BoardDates /\ BoardDates \subseteq Nat \ {0} /\ IsFiniteSet(Dates)
    BY ConstantsAre, Zenon DEF DayConstants
  <2> QED BY <2>1
<1>4. \A s : Max(s) = Max(s)
  BY DEF Max, Max
<1> HIDE DEF base
<1>5. \E f : IsIt(f)
  <2> HIDE DEF step
  <2>1. PICK f \in [SUBSET Dates -> Reconciling] : IsStepFold(f, base, step, Dates)
    BY <1>1, <1>2, <1>3, StepsFold
  <2>2. ASSUME NEW s \in SUBSET Dates
        PROVE  f[s] = IF s = {} THEN base ELSE DayReconciled(f[s \ {Max(s)}], Max(s))
    <3>1. CASE s = {}
      BY <2>1, <3>1 DEF IsStepFold
    <3>2. CASE s # {}
      <4>1. f[s] = step[f[s \ {Max(s)}], Max(s)]
        BY <2>1, <3>2 DEF IsStepFold
      <4>2. Max(s) \in Dates
        <5>1. IsFiniteSet(s) /\ s \subseteq Nat
          BY <1>3, FS_Subset
        <5> QED BY <3>2, <5>1, MaxIsLast
      <4>3. f[s \ {Max(s)}] \in Reconciling
        BY <2>1
      <4>4. \A a \in Reconciling, e \in Dates : step[a, e] = DayReconciled(a, e)
        BY DEF step
      <4>5. f[s] = DayReconciled(f[s \ {Max(s)}], Max(s))
        BY <4>1, <4>2, <4>3, <4>4
      <4> QED BY <1>4, <3>2, <4>5
    <3> QED BY <3>1, <3>2
  <2>3. IsIt(f)
    BY <2>1, <2>2
  <2> QED BY <2>3
<1>6. IsIt(it)
  BY <1>5, Zenon
<1>7. Reconciled(logs, nextLog) = it[Dates]
  BY ZenonT(90) DEF Reconciled, MapThenFoldSet, base
<1> HIDE DEF it
<1>8. it[{}] \in Reconciling
  BY <1>1, <1>6
<1>9. ASSUME NEW s \in SUBSET Dates, s # {}, it[s \ {Max(s)}] \in Reconciling PROVE it[s] \in Reconciling
  <2>1. Max(s) \in Dates
    <3>1. IsFiniteSet(s) /\ s \subseteq Nat
      BY <1>3, FS_Subset
    <3> QED BY <1>9, <3>1, MaxIsLast
  <2>2. it[s] = DayReconciled(it[s \ {Max(s)}], Max(s))
    BY <1>4, <1>6, <1>9
  <2> QED BY <1>9, <2>1, <2>2, DayReconciledKeeps
<1>10. it[Dates] \in Reconciling
  BY <1>3, <1>8, <1>9, FoldStays
<1> QED BY <1>7, <1>10

LEMMA RestartKeeps ==
  ASSUME DayInv, Restart
  PROVE  DayInv'
<1> DEFINE end == Reconciled(logs, nextLog)
<1>1. /\ Commit(end.rows, end.next - nextLog)
      /\ clerk' = [c \in Clerks |-> Idle] /\ UNCHANGED <<shifts, onLeave, cleared>>
  BY DEF Restart
<1>2. end \in Reconciling
  BY ReconciledIs
<1> HIDE DEF end
<1>3. /\ end.next \in Nat \ {0} /\ nextLog <= end.next /\ nextLog \in Nat
      /\ Sound(end.rows, end.next, cleared)
  BY <1>2 DEF Reconciling, DayInv
<1>4. end.next - nextLog \in Nat /\ nextLog + (end.next - nextLog) = end.next
  BY <1>3
<1>5. clerk' \in [Clerks -> DayReads \cup {Idle}]
  BY <1>1
<1> QED BY <1>1, <1>3, <1>4, <1>5, DayCommitKeeps DEF DayInv

LEMMA DayInit ==
  ASSUME Init
  PROVE  DayInv
<1>1. shifts = [i \in ShiftIds |-> NoShift] /\ logs = [l \in LogIds |-> NoLog]
      /\ nextLog = 1 /\ onLeave = {} /\ clerk = [c \in Clerks |-> Idle]
  BY DEF Init
<1>2. Sound(logs, nextLog, cleared)
  BY <1>1 DEF Sound, LogTables, Logs
<1> QED BY <1>1, <1>2 DEF DayInv, Boards

LEMMA DayNext ==
  ASSUME DayInv, [Next]_vars
  PROVE  DayInv'
<1>1. CASE Imports
  <2>1. PICK d \in Dates, upload \in Uploads, replace \in BOOLEAN :
          \/ ImportTemplate(d, upload, replace)
          \/ \E c \in Clerks : ImportSplit(c, d, upload, replace)
    BY <1>1 DEF Imports
  <2> QED BY <2>1, ImportTemplateKeeps, ImportSplitKeeps
<1>2. ASSUME NEW i \in ShiftIds,
             EditGrid(i, NoShift)
               \/ \E d \in BoardDates, s \in Slots : EditGrid(i, [date |-> d, from |-> s.from, to |-> s.to])
      PROVE  DayInv'
  <2>1. \A d \in BoardDates, s \in Slots : [date |-> d, from |-> s.from, to |-> s.to] \in ShiftType
    BY ConstantsAre DEF DayConstants, ShiftType
  <2> QED BY <1>2, <2>1, EditGridKeeps
<1>3. ASSUME NEW d \in Dates, ChangeLeave(d) \/ ResetDay(d) PROVE DayInv'
  BY <1>3, ChangeLeaveKeeps, ResetDayKeeps
<1>4. ASSUME NEW l \in LogIds, NEW status \in Verdicts, Decide(l, status) PROVE DayInv'
  BY <1>4, DecideKeeps
<1>5. ASSUME NEW c \in Clerks, Read(c) \/ Abandon(c) PROVE DayInv'
  BY <1>5, ReadKeeps, AbandonKeeps
<1>6. ASSUME NEW c \in Clerks, NEW d \in Dates, NEW i \in ShiftIds \cup {0}, NEW p \in Punches,
             NEW s \in Verdicts, SaveActual(c, d, i, p, s)
      PROVE  DayInv'
  BY <1>6, SaveActualKeeps
<1>7. ASSUME NEW c \in Clerks, NEW d \in Dates, NEW kind, SaveAbsence(c, d, kind) PROVE DayInv'
  BY <1>7, SaveAbsenceKeeps
<1>8. ASSUME NEW c \in Clerks, NEW d \in Dates, RestDay(c, d) PROVE DayInv'
  BY <1>8, RestDayKeeps
<1>9. CASE Restart
  BY <1>9, RestartKeeps
<1>10. CASE UNCHANGED vars
  <2>1. UNCHANGED <<shifts, logs, nextLog, onLeave, cleared, clerk>>
    BY <1>10 DEF vars, attendance
  <2> QED BY <2>1, SameLogsKeep DEF DayInv
<1> QED BY <1>1, <1>2, <1>3, <1>4, <1>5, <1>6, <1>7, <1>8, <1>9, <1>10, Zenon DEF Next

LEMMA DayIsSound ==
  Spec => []DayInv
BY DayInit, DayNext, PTL DEF Spec

(* ClearedDayStaysManual: a day that was cleared (reset_day and its triggers) holds *)
(* nothing but manual logs, whatever is imported, decided, saved from stale reads   *)
(* or reconciled afterwards.                                                        *)
THEOREM ClearedDaysStayManual ==
  Spec => []ClearedDayStaysManual
<1>1. DayInv => ClearedDayStaysManual
  BY DEF DayInv, Sound, ClearedDayStaysManual
<1> QED BY <1>1, DayIsSound, PTL

(* ImportsKeepManual: no import of a template, with or without shifts, replacing or *)
(* not, changes or removes a manual log.                                            *)
THEOREM ImportsLeaveManualLogs ==
  Spec => ImportsKeepManual
<1>1. DayInv /\ [Next]_vars => [(\A l \in Manual : logs'[l] = logs[l]) \/ ~Imports]_vars
  BY ImportsLeaveManual
<1> QED BY <1>1, DayIsSound, PTL DEF Spec, ImportsKeepManual

(* RestartKeepsWork: the reconciliation at the start of the service leaves every    *)
(* hour of every day worked as often as before, for any number of days, shifts and  *)
(* logs: it links, pairs and splits rows, and no split leaves a gap or an overlap.  *)
THEOREM RestartsKeepWork ==
  Spec => []RestartKeepsWork
<1>1. DayInv => RestartKeepsWork
  <2> SUFFICES ASSUME DayInv PROVE RestartKeepsWork
    OBVIOUS
  <2> DEFINE end == Reconciled(logs, nextLog)
  <2>1. end \in Reconciling
    BY ReconciledIs
  <2> HIDE DEF end
  <2>2. end.next <= MaxLogs + 1 =>
          \A e : \A h \in Int : Workers(end.rows, e, h) = Workers(logs, e, h)
    BY <2>1 DEF Reconciling
  <2>3. Fits(end) =>
          \A e \in Dates, h \in 0..(2 * Day) : Workers(end.rows, e, h) = Workers(logs, e, h)
    BY <2>2 DEF Fits
  <2> QED BY <2>3 DEF end, RestartKeepsWork
<1> QED BY <1>1, DayIsSound, PTL
================================================================================
