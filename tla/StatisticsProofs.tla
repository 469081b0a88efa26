-------------------------- MODULE StatisticsProofs --------------------------
(***************************************************************************)
(* The figures of the statistics for any users, problems, types and number *)
(* of submissions.  A sum over rows is a fold over a set, which is known   *)
(* only by its recursive equation; SumOfParts proves, by taking a smallest *)
(* set for which it fails, that it counts the union of what the rows count.*)
(***************************************************************************)
EXTENDS Statistics, Lemmas, FiniteSetTheorems, SequenceTheorems, TLAPS

-----------------------------------------------------------------------------
(* Sums and counts. *)

Pick(S) == CHOOSE x \in S : TRUE

\* The recursive equation of the sum of a field.
IsSum(g, rows, field) ==
    g = [S \in SUBSET rows |->
            IF S = {} THEN 0 ELSE Pick(S)[field] + g[S \ {Pick(S)}]]

\* The sum of a field is the solution of that equation, at all the rows.
LEMMA TotalIsSum ==
    ASSUME NEW rows, NEW field
    PROVE  Total(rows, field) = (CHOOSE g : IsSum(g, rows, field))[rows]
  BY Zenon DEF Total, MapThenSumSet, MapThenFoldSet, IsSum, Pick

\* Each row counts its part of a set, and the parts are disjoint.
Counts(rows, field, part) ==
    /\ \A r \in rows : IsFiniteSet(part[r]) /\ r[field] = Cardinality(part[r])
    /\ \A r, q \in rows : r # q => part[r] \cap part[q] = {}

PartsOf(S, part) == UNION {part[r] : r \in S}

\* One row more counts its part more.
LEMMA OneRowMore ==
    ASSUME NEW rows, IsFiniteSet(rows), NEW field, NEW part,
           Counts(rows, field, part), NEW S \in SUBSET rows, NEW r \in S
    PROVE  /\ IsFiniteSet(PartsOf(S, part))
           /\ Cardinality(PartsOf(S, part)) =
                 r[field] + Cardinality(PartsOf(S \ {r}, part))
<1> DEFINE rest == PartsOf(S \ {r}, part)
<1>1. \A T \in SUBSET rows : IsFiniteSet(PartsOf(T, part))
  <2> SUFFICES ASSUME NEW T \in SUBSET rows
               PROVE  IsFiniteSet(PartsOf(T, part))
    OBVIOUS
  <2> DEFINE parts == {part[q] : q \in T}
             f == [q \in T |-> part[q]]
  <2>1. IsFiniteSet(T)
    BY FS_Subset
  <2>2. f \in Surjection(T, parts)
    BY DEF Surjection
  <2>3. IsFiniteSet(parts)
    BY <2>1, <2>2, FS_Surjection
  <2>4. \A p \in parts : IsFiniteSet(p)
    BY DEF Counts
  <2> HIDE DEF parts
  <2>5. IsFiniteSet(UNION parts)
    BY <2>3, <2>4, FS_UNION
  <2> QED
    BY <2>5 DEF PartsOf, parts
<1>2. PartsOf(S, part) = part[r] \cup rest
  BY DEF PartsOf
<1>3. part[r] \cap rest = {}
  BY DEF PartsOf, Counts
<1>4. IsFiniteSet(part[r]) /\ r[field] = Cardinality(part[r])
  BY DEF Counts
<1>5. IsFiniteSet(rest) /\ IsFiniteSet(PartsOf(S, part))
  BY <1>1
<1> HIDE DEF rest
<1>6. Cardinality(part[r] \cup rest) =
         Cardinality(part[r]) + Cardinality(rest) - Cardinality(part[r] \cap rest)
  BY <1>4, <1>5, FS_Union
<1>7. Cardinality(part[r]) \in Nat /\ Cardinality(rest) \in Nat
  BY <1>4, <1>5, FS_CardinalityType
<1>8. Cardinality(part[r] \cap rest) = 0
  BY <1>3, FS_EmptySet
<1> QED
  BY <1>2, <1>4, <1>5, <1>6, <1>7, <1>8 DEF rest

\* The equation has a solution, and any solution counts the union of the parts.
LEMMA SumOfParts ==
    ASSUME NEW rows, IsFiniteSet(rows), NEW field, NEW part,
           Counts(rows, field, part)
    PROVE  Total(rows, field) = Cardinality(PartsOf(rows, part))
<1> DEFINE N(S) == Cardinality(PartsOf(S, part))
           count == [S \in SUBSET rows |-> N(S)]
<1>1. N({}) = 0
  BY FS_EmptySet DEF PartsOf
<1>2. \A S \in SUBSET rows : \A r \in S : N(S) = r[field] + N(S \ {r})
  <2>1. ASSUME NEW S \in SUBSET rows, NEW r \in S
        PROVE  N(S) = r[field] + N(S \ {r})
    BY OneRowMore
  <2> HIDE DEF N
  <2> QED
    BY <2>1
<1>3. \A S \in SUBSET rows : S # {} => Pick(S) \in S
  BY DEF Pick
<1> HIDE DEF N
<1>4. IsSum(count, rows, field)
  <2>1. ASSUME NEW S \in SUBSET rows
        PROVE  count[S] = IF S = {} THEN 0 ELSE Pick(S)[field] + count[S \ {Pick(S)}]
    BY <1>1, <1>2, <1>3
  <2> QED
    BY <2>1 DEF IsSum
<1> DEFINE sum == CHOOSE g : IsSum(g, rows, field)
<1>5. IsSum(sum, rows, field)
  BY <1>4
<1> HIDE DEF sum
<1>6. \A S \in SUBSET rows : sum[S] = N(S)
  <2> DEFINE Wrong == {S \in SUBSET rows : sum[S] # N(S)}
  <2> SUFFICES ASSUME Wrong # {}
               PROVE  FALSE
    OBVIOUS
  <2>1. IsWellFoundedOn(StrictSubsetOrdering(rows), FiniteSubsetsOf(rows))
    BY FS_StrictSubsetOrderingWellFounded
  <2>2. Wrong \subseteq FiniteSubsetsOf(rows)
    BY FS_Subset DEF FiniteSubsetsOf
  <2>3. PICK S \in Wrong :
           \A T \in Wrong : ~(<<T, S>> \in StrictSubsetOrdering(rows))
    <3> HIDE DEF Wrong
    <3> QED
      BY <2>1, <2>2, WFMin
  <2>4. S # {}
    BY <1>1, <1>5 DEF IsSum
  <2> DEFINE T == S \ {Pick(S)}
  <2>5. T \in SUBSET rows /\ T \subseteq S /\ T # S
    BY <1>3, <2>4
  <2>6. sum[T] = N(T)
    <3>1. <<T, S>> \in StrictSubsetOrdering(rows)
      BY <2>5 DEF StrictSubsetOrdering
    <3> QED
      BY <2>3, <2>5, <3>1
  <2>7. sum[S] = Pick(S)[field] + sum[T]
    BY <1>5, <2>4 DEF IsSum
  <2>8. N(S) = Pick(S)[field] + N(T)
    BY <1>2, <1>3, <2>4
  <2> QED
    BY <2>3, <2>6, <2>7, <2>8
<1>7. rows \in SUBSET rows
  OBVIOUS
<1> QED
  BY <1>6, <1>7, TotalIsSum DEF sum, N
-----------------------------------------------------------------------------
(* The submissions, whatever calls are made. *)

Submission == [id : 1..MaxSubmissions, users_id : UserIds, problem_id : Problems,
               status : BOOLEAN, minutes : Nat \union {-1}]

\* The n-th submission inserted has the number n, as long as it is there.
SubmissionsInv ==
    /\ submissions \subseteq Submission
    /\ \A s, t \in submissions : s.id = t.id => s = t
    /\ history \in Seq(Nat)
    /\ submissions_next = Len(history) + 1
    /\ \A i \in 1..Len(history) : history[i] = i
    /\ \A s \in submissions : s.id <= Len(history)
    /\ \A u \in users : u.id \in UserIds
    /\ users_next \in Nat /\ 1 <= users_next

\* A time is a number of minutes, or the -1 of another form.
LEMMA MinutesType ==
    ASSUME NEW time \in Seq(Nat)
    PROVE  getMinuteFromTime(time) \in Nat \union {-1}
<1>1. CASE Len(time) = 3
  <2>1. 1 \in 1..Len(time) /\ 2 \in 1..Len(time)
    BY <1>1
  <2>2. time[1] \in Nat /\ time[2] \in Nat
    BY <2>1, ElementOfSeq
  <2> QED
    BY <1>1, <2>2 DEF getMinuteFromTime
<1> QED
  BY <1>1 DEF getMinuteFromTime

\* An insertion takes the next number and notes it in history.
LEMMA InsertSubmittedKeeps ==
    ASSUME SubmissionsInv, NEW users_id, NEW id \in Problems,
           NEW status \in BOOLEAN, NEW time \in Times,
           InsertSubmitted(users_id, id, status, time)
    PROVE  SubmissionsInv'
<1> USE DEF InsertSubmitted, SubmissionsInv
<1> DEFINE row == [id |-> submissions_next, users_id |-> users_id,
                   problem_id |-> id, status |-> status,
                   minutes |-> getMinuteFromTime(time)]
           n == Len(history)
<1>1. /\ submissions' = submissions \union {row}
      /\ submissions_next' = submissions_next + 1
      /\ history' = Append(history, submissions_next)
      /\ users' = users /\ users_next' = users_next
  BY DEF catalogue
<1>2. n \in Nat /\ submissions_next = n + 1 /\ submissions_next \in Nat
  BY LenProperties
<1>3. row \in Submission
  <2>1. getMinuteFromTime(time) \in Nat \union {-1}
    BY MinutesType, TrackerAssumption DEF TrackerAssumption
  <2>2. users_id \in UserIds
    OBVIOUS
  <2>3. submissions_next \in 1..MaxSubmissions
    BY <1>2, TrackerAssumption DEF TrackerAssumption
  <2> QED
    BY <2>1, <2>2, <2>3 DEF Submission
<1>4. row.id = n + 1
  BY <1>2
<1>5. /\ history' \in Seq(Nat) /\ Len(history') = n + 1
      /\ \A i \in 1..n : history'[i] = history[i]
      /\ history'[n + 1] = n + 1
  BY <1>1, <1>2, AppendProperties
<1> HIDE DEF row, n
<1>6. \A i \in 1..n + 1 : history'[i] = i
  <2>1. \A i \in 1..n : history[i] = i
    BY DEF n
  <2>2. \A i \in 1..n + 1 : i \in 1..n \/ i = n + 1
    BY <1>2
  <2> QED
    BY <1>5, <2>1, <2>2
<1>7. \A s \in submissions : s.id <= n /\ s.id # row.id /\ s.id <= n + 1
  <2>1. \A s \in submissions : s.id <= n /\ s.id \in Int
    BY DEF Submission, n
  <2> QED
    BY <1>2, <1>4, <2>1
<1>8. submissions' \subseteq Submission
  BY <1>1, <1>3
<1>9. \A s, t \in submissions' : s.id = t.id => s = t
  BY <1>1, <1>7
<1>10. submissions_next' = Len(history') + 1
  BY <1>1, <1>2, <1>5
<1>11. \A s \in submissions' : s.id <= Len(history')
  BY <1>1, <1>2, <1>4, <1>5, <1>7
<1> QED
  BY <1>1, <1>5, <1>6, <1>8, <1>9, <1>10, <1>11

\* Every call keeps them: deletions take submissions away and leave the numbers.
LEMMA SubmissionsKept == SubmissionsInv /\ [Next]_tables => SubmissionsInv'
<1> SUFFICES ASSUME SubmissionsInv, [Next]_tables
             PROVE  SubmissionsInv'
  OBVIOUS
<1> USE TrackerAssumption DEF TrackerAssumption
<1>1. ASSUME \/ UNCHANGED tables
             \/ /\ submissions' \subseteq submissions
                /\ users' \subseteq users
                /\ UNCHANGED <<users_next, submissions_next, history>>
      PROVE  SubmissionsInv'
  BY <1>1 DEF SubmissionsInv, tables
<1>2. ASSUME NEW name \in Names, registerUser(name)
      PROVE  SubmissionsInv'
  BY <1>2 DEF SubmissionsInv, registerUser, catalogue, UserIds
<1>3. ASSUME NEW name \in Names, deleteUser(name)
      PROVE  SubmissionsInv'
  BY <1>1, <1>3 DEF deleteUser
<1>4. ASSUME NEW id \in Problems, ProblemCalls(id)
      PROVE  SubmissionsInv'
  BY <1>1, <1>4 DEF ProblemCalls, InsertProblem, DeleteProblem, InsertProblemType,
                    DeleteProblemType
<1>5. ASSUME NEW users_id \in UserIds, SubmissionCalls(users_id)
      PROVE  SubmissionsInv'
  <2>1. ASSUME NEW id \in 1..MaxSubmissions, DeleteSubmission(id, users_id)
        PROVE  SubmissionsInv'
    BY <1>1, <2>1 DEF DeleteSubmission
  <2> QED
    BY <1>5, <2>1, InsertSubmittedKeeps DEF SubmissionCalls
<1> QED
  BY <1>1, <1>2, <1>3, <1>4, <1>5 DEF Next, UserCalls

\* The keys of the submissions, always.
LEMMA AlwaysSubmissionsInv == Spec => []SubmissionsInv
<1>1. Init => SubmissionsInv
  BY EmptySeq DEF Init, TrackerInit, SubmissionsInv
<1> QED
  BY <1>1, SubmissionsKept, PTL DEF Spec

\* There are finitely many.
LEMMA SubmissionsFinite ==
    ASSUME SubmissionsInv
    PROVE  IsFiniteSet(submissions)
<1> DEFINE f == [s \in submissions |-> s.id]
<1>1. f \in Injection(submissions, 1..MaxSubmissions)
  BY DEF SubmissionsInv, Submission, Injection, IsInjective
<1>2. IsFiniteSet(1..MaxSubmissions)
  BY FS_Interval, TrackerAssumption DEF TrackerAssumption
<1> QED
  BY <1>1, <1>2, FS_Injection
-----------------------------------------------------------------------------
(* The theorems. *)

\* The rows of the two statistics.
UnitRow(user_id, unit) ==
    LET group == UnitGroup(user_id, unit)
    IN  [unit |-> unit,
         problems_solved |-> Cardinality({s.problem_id : s \in group}),
         total_submit |-> Cardinality(group),
         solved_20min |-> Solved(group, 20),
         solved_30min |-> Solved(group, 30),
         solved_over_30min |-> Over30(group)]

DetailRow(user_id, id) ==
    LET group == getSubmissions(user_id, id)
    IN  [exam_No |-> id,
         TotalExam |-> Cardinality(group),
         solved_20min |-> Solved(group, 20),
         solved_30min |-> Solved(group, 30),
         solved_over_30min |-> Over30(group),
         last |-> Latest(user_id, id)]

Exams(user_id, unit) == {s.problem_id : s \in UnitGroup(user_id, unit)}

\* sql_driver.cpp, the two queries: a row for each unit, or problem, with submissions.
LEMMA Rows ==
    ASSUME NEW user_id
    PROVE  /\ Select_UnitsData(user_id) =
                 {UnitRow(user_id, unit) :
                     unit \in {t \in Types : UnitGroup(user_id, t) # {}}}
           /\ \A unit : Select_Unitdetail(user_id, unit) =
                 {DetailRow(user_id, id) : id \in Exams(user_id, unit)}
<1>1. Select_UnitsData(user_id) =
         {UnitRow(user_id, unit) :
             unit \in {t \in Types : UnitGroup(user_id, t) # {}}}
  BY Zenon DEF Select_UnitsData, UnitRow
<1>2. ASSUME NEW unit
      PROVE  Select_Unitdetail(user_id, unit) =
                {DetailRow(user_id, id) : id \in Exams(user_id, unit)}
  BY Zenon DEF Select_Unitdetail, DetailRow, Exams
<1> QED
  BY <1>1, <1>2

Within(S, minutes) == {s \in S : s.status /\ s.minutes <= minutes}
Beyond30(S) == {s \in S : ~s.status \/ s.minutes > 30}

\* The two parts of a set of submissions.
LEMMA SolvedOrNot ==
    ASSUME SubmissionsInv, NEW S \in SUBSET submissions
    PROVE  /\ IsFiniteSet(S)
           /\ Solved(S, 30) + Over30(S) = Cardinality(S)
           /\ Solved(S, 20) <= Solved(S, 30)
<1>1. IsFiniteSet(S)
  BY SubmissionsFinite, FS_Subset
<1>2. \A s \in S : s.minutes \in Int /\ s.status \in BOOLEAN
  BY DEF SubmissionsInv, Submission
<1>3. S = Within(S, 30) \cup Beyond30(S) /\ Within(S, 30) \cap Beyond30(S) = {}
  BY <1>2 DEF Within, Beyond30
<1>4. /\ IsFiniteSet(Within(S, 30)) /\ IsFiniteSet(Beyond30(S))
      /\ Within(S, 20) \in SUBSET Within(S, 30)
  BY <1>1, <1>2, FS_Subset DEF Within, Beyond30
<1>5. Cardinality(S) = Cardinality(Within(S, 30)) + Cardinality(Beyond30(S))
  <2>1. Cardinality(Within(S, 30) \cup Beyond30(S)) =
           Cardinality(Within(S, 30)) + Cardinality(Beyond30(S))
              - Cardinality(Within(S, 30) \cap Beyond30(S))
    BY <1>4, FS_Union
  <2>2. /\ Cardinality(Within(S, 30)) \in Nat
        /\ Cardinality(Beyond30(S)) \in Nat
    BY <1>4, FS_CardinalityType
  <2>3. Cardinality(Within(S, 30) \cap Beyond30(S)) = 0
    BY <1>3, FS_EmptySet
  <2>4. Cardinality(S) = Cardinality(Within(S, 30) \cup Beyond30(S))
    BY <1>3
  <2> QED
    BY <2>1, <2>2, <2>3, <2>4
<1>6. Cardinality(Within(S, 20)) <= Cardinality(Within(S, 30))
  BY <1>4, FS_Subset
<1> QED
  BY <1>1, <1>5, <1>6 DEF Solved, Over30, Within, Beyond30

\* Select_UnitsData: whatever was submitted, deleted and mapped to units before,
\* the rate solved within 30 minutes and the rate over 30 minutes of each unit
\* add up.
THEOREM RatesAlwaysAddUp == Spec => []RatesAddUp
<1>1. SubmissionsInv => RatesAddUp
  <2> SUFFICES ASSUME SubmissionsInv, NEW u \in users,
                      NEW row \in Select_UnitsData(u.id)
               PROVE  /\ row.solved_30min + row.solved_over_30min = row.total_submit
                      /\ row.solved_20min <= row.solved_30min
    BY DEF RatesAddUp
  <2>1. PICK unit \in Types : row = UnitRow(u.id, unit)
    BY Rows
  <2>2. UnitGroup(u.id, unit) \in SUBSET submissions
    BY DEF UnitGroup
  <2> QED
    BY <2>1, <2>2, SolvedOrNot DEF UnitRow
<1> QED
  BY <1>1, AlwaysSubmissionsInv, PTL

\* A set of submissions has one with the greatest number.
LEMMA GreatestExists ==
    ASSUME SubmissionsInv, NEW S \in SUBSET submissions, S # {}
    PROVE  \E s \in S : \A t \in S : t.id <= s.id
<1> DEFINE Above == {MaxSubmissions - s.id : s \in S}
<1>1. \A s \in S : s.id \in 1..MaxSubmissions /\ MaxSubmissions \in Nat
  BY TrackerAssumption DEF SubmissionsInv, Submission, TrackerAssumption
<1>2. Above \subseteq Nat /\ Above # {}
  BY <1>1
<1> HIDE DEF Above
<1>4. PICK m \in Above : \A k \in Above : m <= k
  BY <1>2, LeastNat
<1>5. PICK s \in S : m = MaxSubmissions - s.id
  BY DEF Above
<1>6. \A t \in S : MaxSubmissions - s.id <= MaxSubmissions - t.id
  BY <1>4, <1>5 DEF Above
<1> QED
  BY <1>1, <1>6

\* Select_Unitdetail, the subquery with MAX(id): the last attempt it shows for a
\* problem is the latest of the user's own that are left, in whatever order
\* submissions, users and problems came and went.
THEOREM LastIsAlwaysLatest == Spec => []LastIsLatest
<1>1. SubmissionsInv => LastIsLatest
  <2> SUFFICES ASSUME SubmissionsInv, NEW u \in users, NEW unit \in Types,
                      NEW row \in Select_Unitdetail(u.id, unit)
               PROVE  /\ row.last \in getSubmissions(u.id, row.exam_No)
                      /\ \A s \in getSubmissions(u.id, row.exam_No) :
                            \A i, j \in DOMAIN history :
                               history[i] = s.id /\ history[j] = row.last.id => i <= j
    BY DEF LastIsLatest
  <2> DEFINE attempts == getSubmissions(u.id, row.exam_No)
  <2>1. PICK id \in Exams(u.id, unit) :
           row.exam_No = id /\ row.last = Latest(u.id, id)
    BY Rows DEF DetailRow
  <2>2. attempts \in SUBSET submissions /\ attempts # {}
    BY <2>1 DEF Exams, UnitGroup, getSubmissions
  <2>3. row.last \in attempts /\ \A t \in attempts : t.id <= row.last.id
    <3>1. \E s \in attempts : \A t \in attempts : t.id <= s.id
      <4> HIDE DEF attempts
      <4> QED
        BY <2>2, GreatestExists
    <3> QED
      BY <2>1, <3>1 DEF Latest
  <2>4. DOMAIN history = 1..Len(history)
    BY DEF SubmissionsInv
  <2> QED
    BY <2>3, <2>4 DEF SubmissionsInv
<1> QED
  BY <1>1, AlwaysSubmissionsInv, PTL

-----------------------------------------------------------------------------

\* The problems of a unit with the user's submissions to each.
LEMMA UnitIsItsProblems ==
    ASSUME SubmissionsInv, NEW user_id, NEW unit
    PROVE  LET rows == Select_Unitdetail(user_id, unit)
           IN  /\ IsFiniteSet(rows)
               /\ Cardinality(rows) = Cardinality(Exams(user_id, unit))
               /\ \A r \in rows : r = DetailRow(user_id, r.exam_No)
               /\ \A r, q \in rows : r.exam_No = q.exam_No => r = q
               /\ {r.exam_No : r \in rows} = Exams(user_id, unit)
<1> DEFINE group == UnitGroup(user_id, unit)
           exams == Exams(user_id, unit)
           rows == Select_Unitdetail(user_id, unit)
           problem == [s \in group |-> s.problem_id]
           detail == [id \in exams |-> DetailRow(user_id, id)]
<1>1. rows = {DetailRow(user_id, id) : id \in exams}
  BY Rows
<1>2. \A id : DetailRow(user_id, id).exam_No = id
  BY DEF DetailRow
<1>3. IsFiniteSet(exams)
  <2>1. IsFiniteSet(group)
    BY SubmissionsFinite, FS_Subset DEF UnitGroup
  <2>2. problem \in Surjection(group, exams)
    BY DEF Exams, Surjection
  <2> QED
    BY <2>1, <2>2, FS_Surjection
<1> HIDE DEF exams, rows
<1>4. detail \in Surjection(exams, rows) /\ detail \in Injection(exams, rows)
  BY <1>1, <1>2 DEF Surjection, Injection, IsInjective
<1>5. IsFiniteSet(rows) /\ Cardinality(rows) = Cardinality(exams)
  BY <1>3, <1>4, FS_Surjection
<1>6. \A r \in rows : r = DetailRow(user_id, r.exam_No)
  BY <1>1, <1>2
<1>7. {r.exam_No : r \in rows} = exams
  BY <1>1, <1>2
<1> QED
  BY <1>5, <1>6, <1>7 DEF rows, exams

\* A field that counts those of a user's submissions to a problem which satisfy
\* a condition counts, summed over the problems of a unit, those of the unit.
LEMMA FieldAddsUp ==
    ASSUME SubmissionsInv, NEW user_id, NEW unit, NEW field, NEW Chosen,
           Chosen \subseteq submissions,
           \A r \in Select_Unitdetail(user_id, unit) :
              r[field] = Cardinality(getSubmissions(user_id, r.exam_No) \cap Chosen)
    PROVE  Total(Select_Unitdetail(user_id, unit), field) =
              Cardinality(UnitGroup(user_id, unit) \cap Chosen)
<1> DEFINE rows == Select_Unitdetail(user_id, unit)
           part == [r \in rows |-> getSubmissions(user_id, r.exam_No) \cap Chosen]
<1>1. /\ IsFiniteSet(rows)
      /\ \A r, q \in rows : r.exam_No = q.exam_No => r = q
      /\ {r.exam_No : r \in rows} = Exams(user_id, unit)
  BY UnitIsItsProblems
<1> HIDE DEF rows
<1>2. Counts(rows, field, part)
  <2>1. \A r \in rows : IsFiniteSet(part[r]) /\ r[field] = Cardinality(part[r])
    BY SubmissionsFinite, FS_Subset DEF rows
  <2>2. \A r, q \in rows : r # q => part[r] \cap part[q] = {}
    BY <1>1 DEF getSubmissions
  <2> QED
    BY <2>1, <2>2 DEF Counts
<1>3. PartsOf(rows, part) = UnitGroup(user_id, unit) \cap Chosen
  <2>1. \A s \in UnitGroup(user_id, unit) : \E r \in rows : r.exam_No = s.problem_id
    BY <1>1 DEF Exams
  <2>2. ASSUME NEW r \in rows
        PROVE  getSubmissions(user_id, r.exam_No) \subseteq UnitGroup(user_id, unit)
    <3>1. PICK s \in UnitGroup(user_id, unit) : r.exam_No = s.problem_id
      BY <1>1 DEF Exams
    <3> QED
      BY <3>1 DEF UnitGroup, getSubmissions
  <2>3. \A s \in UnitGroup(user_id, unit) : s \in getSubmissions(user_id, s.problem_id)
    BY DEF UnitGroup, getSubmissions
  <2> QED
    BY <2>1, <2>2, <2>3 DEF PartsOf
<1> QED
  BY <1>1, <1>2, <1>3, SumOfParts DEF rows

\* Select_UnitsData against Select_Unitdetail, two queries with joins and groups
\* of their own: whatever is mapped, submitted and deleted, a user finds the same
\* units in both, and each figure of a unit is the sum over its problems.
THEOREM UnitsAlwaysAgree == Spec => []UnitsAgreeWithDetails
<1>1. ASSUME SubmissionsInv, NEW u \in users
      PROVE  {row.unit : row \in Select_UnitsData(u.id)} =
                {unit \in Types : Select_Unitdetail(u.id, unit) # {}}
  <2>1. \A unit : UnitRow(u.id, unit).unit = unit
    BY DEF UnitRow
  <2>2. {row.unit : row \in Select_UnitsData(u.id)} =
           {unit \in Types : UnitGroup(u.id, unit) # {}}
    BY <2>1, Rows
  <2>3. ASSUME NEW unit
        PROVE  Select_Unitdetail(u.id, unit) # {} <=> UnitGroup(u.id, unit) # {}
    <3>1. Exams(u.id, unit) # {} <=> UnitGroup(u.id, unit) # {}
      BY DEF Exams
    <3>2. Select_Unitdetail(u.id, unit) =
             {DetailRow(u.id, id) : id \in Exams(u.id, unit)}
      BY Rows
    <3>3. Select_Unitdetail(u.id, unit) # {} <=> Exams(u.id, unit) # {}
      BY <3>2
    <3> QED
      BY <3>1, <3>3
  <2> QED
    BY <2>2, <2>3
<1>2. ASSUME SubmissionsInv, NEW u \in users, NEW row \in Select_UnitsData(u.id)
      PROVE  LET exams == Select_Unitdetail(u.id, row.unit)
             IN  /\ row.problems_solved = Cardinality(exams)
                 /\ row.total_submit = Total(exams, "TotalExam")
                 /\ \A f \in {"solved_20min", "solved_30min", "solved_over_30min"} :
                       row[f] = Total(exams, f)
  <2>1. PICK unit \in Types : row = UnitRow(u.id, unit)
    BY <1>2, Rows
  <2> DEFINE rows == Select_Unitdetail(u.id, unit)
             group == UnitGroup(u.id, unit)
  <2>2. /\ row.unit = unit
        /\ row.problems_solved = Cardinality(Exams(u.id, unit))
        /\ row.total_submit = Cardinality(group)
        /\ row["solved_20min"] = Solved(group, 20)
        /\ row["solved_30min"] = Solved(group, 30)
        /\ row["solved_over_30min"] = Over30(group)
    BY <2>1 DEF UnitRow, Exams
  <2>3. /\ Cardinality(rows) = Cardinality(Exams(u.id, unit))
        /\ \A r \in rows : r = DetailRow(u.id, r.exam_No)
    BY <1>2, UnitIsItsProblems
  <2>4. group \subseteq submissions
        /\ \A id : getSubmissions(u.id, id) \subseteq submissions
    BY DEF UnitGroup, getSubmissions
  <2> HIDE DEF rows, group
  <2>5. row.total_submit = Total(rows, "TotalExam")
    <3>1. \A r \in rows : r["TotalExam"] =
             Cardinality(getSubmissions(u.id, r.exam_No) \cap submissions)
      <4>1. \A id : DetailRow(u.id, id)["TotalExam"] =
               Cardinality(getSubmissions(u.id, id))
        BY DEF DetailRow
      <4>2. \A id : getSubmissions(u.id, id) \cap submissions = getSubmissions(u.id, id)
        BY <2>4
      <4> QED
        BY <2>3, <4>1, <4>2
    <3>2. group \cap submissions = group
      BY <2>4
    <3> QED
      BY <1>2, <2>2, <3>1, <3>2, FieldAddsUp DEF rows, group
  <2>6. ASSUME NEW f, NEW Chosen, Chosen \subseteq submissions,
               \A id : DetailRow(u.id, id)[f] =
                  Cardinality(getSubmissions(u.id, id) \cap Chosen),
               row[f] = Cardinality(group \cap Chosen)
        PROVE  row[f] = Total(rows, f)
    <3>1. \A r \in rows :
             r[f] = Cardinality(getSubmissions(u.id, r.exam_No) \cap Chosen)
      BY <2>3, <2>6
    <3> QED
      BY <1>2, <2>6, <3>1, FieldAddsUp DEF rows, group
  <2>7. ASSUME NEW m \in {20, 30}
        PROVE  \A S \in SUBSET submissions :
                  Solved(S, m) = Cardinality(S \cap Within(submissions, m))
    <3>1. \A S \in SUBSET submissions :
             Within(S, m) = S \cap Within(submissions, m)
      BY DEF Within
    <3> QED
      BY <3>1 DEF Solved, Within
  <2>8. \A S \in SUBSET submissions :
           Over30(S) = Cardinality(S \cap Beyond30(submissions))
    <3>1. \A S \in SUBSET submissions : Beyond30(S) = S \cap Beyond30(submissions)
      BY DEF Beyond30
    <3> QED
      BY <3>1 DEF Over30, Beyond30
  <2>9. \A id : /\ DetailRow(u.id, id)["solved_20min"] = Solved(getSubmissions(u.id, id), 20)
                /\ DetailRow(u.id, id)["solved_30min"] = Solved(getSubmissions(u.id, id), 30)
                /\ DetailRow(u.id, id)["solved_over_30min"] = Over30(getSubmissions(u.id, id))
    BY DEF DetailRow
  <2>10. /\ Within(submissions, 20) \subseteq submissions
         /\ Within(submissions, 30) \subseteq submissions
         /\ Beyond30(submissions) \subseteq submissions
    BY DEF Within, Beyond30
  <2>11. row["solved_20min"] = Total(rows, "solved_20min")
    <3>1. \A id : DetailRow(u.id, id)["solved_20min"] =
             Cardinality(getSubmissions(u.id, id) \cap Within(submissions, 20))
      BY <2>4, <2>7, <2>9
    <3>2. row["solved_20min"] = Cardinality(group \cap Within(submissions, 20))
      BY <2>2, <2>4, <2>7
    <3> QED
      BY <2>6, <2>10, <3>1, <3>2
  <2>12. row["solved_30min"] = Total(rows, "solved_30min")
    <3>1. \A id : DetailRow(u.id, id)["solved_30min"] =
             Cardinality(getSubmissions(u.id, id) \cap Within(submissions, 30))
      BY <2>4, <2>7, <2>9
    <3>2. row["solved_30min"] = Cardinality(group \cap Within(submissions, 30))
      BY <2>2, <2>4, <2>7
    <3> QED
      BY <2>6, <2>10, <3>1, <3>2
  <2>13. row["solved_over_30min"] = Total(rows, "solved_over_30min")
    <3>1. \A id : DetailRow(u.id, id)["solved_over_30min"] =
             Cardinality(getSubmissions(u.id, id) \cap Beyond30(submissions))
      BY <2>4, <2>8, <2>9
    <3>2. row["solved_over_30min"] = Cardinality(group \cap Beyond30(submissions))
      BY <2>2, <2>4, <2>8
    <3> QED
      BY <2>6, <2>10, <3>1, <3>2
  <2> QED
    BY <2>2, <2>3, <2>5, <2>11, <2>12, <2>13 DEF rows
<1>3. SubmissionsInv => UnitsAgreeWithDetails
  BY <1>1, <1>2 DEF UnitsAgreeWithDetails
<1> QED
  BY <1>3, AlwaysSubmissionsInv, PTL
=============================================================================
