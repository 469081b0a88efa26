----------------------------- MODULE Statistics -----------------------------
(***************************************************************************)
(* The two statistics of sql_driver.cpp, Select_UnitsData and              *)
(* Select_Unitdetail, over whatever the other calls make of the tables.    *)
(*                                                                         *)
(* The queries are joins of problem_type_map, problems and submissions,    *)
(* grouped by unit and by problem: a group is a set of submissions, a      *)
(* COUNT or SUM its cardinality or that of a part.  Percentages, the names *)
(* and the order of rows are left out.                                     *)
(***************************************************************************)
EXTENDS Tracker, FiniteSetsExt

\* The submissions of a user joined with a unit.
UnitGroup(user_id, unit) ==
    {s \in submissions :
        /\ s.users_id = user_id
        /\ [problem_id |-> s.problem_id, problem_type |-> unit]
              \in problem_type_map}

Solved(S, minutes) ==
    Cardinality({s \in S : s.status /\ s.minutes <= minutes})

BadOver30(S) == Cardinality({s \in S : ~s.status \/ s.minutes >= 30})

Over30(S) == Cardinality({s \in S : ~s.status \/ s.minutes > 30})

Select_UnitsData(user_id) ==
    {LET group == UnitGroup(user_id, unit)
     IN  [unit |-> unit,
          problems_solved |-> Cardinality({s.problem_id : s \in group}),
          total_submit |-> Cardinality(group),
          solved_20min |-> Solved(group, 20),
          solved_30min |-> Solved(group, 30),
          solved_over_30min |-> Over30(group)] :
        unit \in {t \in Types : UnitGroup(user_id, t) # {}}}

BadLatest(user_id, problem_id) ==
    CHOOSE s \in submissions :
        /\ s.problem_id = problem_id
        /\ \A t \in submissions : t.problem_id = problem_id => t.id <= s.id

\* The row of the subquery with MAX(id).
Latest(user_id, problem_id) ==
    CHOOSE s \in getSubmissions(user_id, problem_id) :
        \A t \in getSubmissions(user_id, problem_id) : t.id <= s.id

BadUnitdetail(user_id, unit) ==
    LET exams == {s.problem_id : s \in UnitGroup(user_id, unit)}
        group(id) == {s \in submissions : s.problem_id = id}
    IN  {[exam_No |-> id,
          TotalExam |-> Cardinality(group(id)),
          solved_20min |-> Solved(group(id), 20),
          solved_30min |-> Solved(group(id), 30),
          solved_over_30min |-> Over30(group(id)),
          last |-> Latest(user_id, id)] : id \in exams}

Select_Unitdetail(user_id, unit) ==
    LET exams == {s.problem_id : s \in UnitGroup(user_id, unit)}
        group(id) == getSubmissions(user_id, id)
    IN  {[exam_No |-> id,
          TotalExam |-> Cardinality(group(id)),
          solved_20min |-> Solved(group(id), 20),
          solved_30min |-> Solved(group(id), 30),
          solved_over_30min |-> Over30(group(id)),
          last |-> Latest(user_id, id)] : id \in exams}

-----------------------------------------------------------------------------
(* The tables change by any call, with any arguments. *)

Init == TrackerInit

UserCalls(name) == registerUser(name) \/ deleteUser(name)

ProblemCalls(id) ==
    \/ \E title \in Titles : InsertProblem(id, title)
    \/ DeleteProblem(id)
    \/ \E type \in Types : InsertProblemType(id, type) \/ DeleteProblemType(id, type)

SubmissionCalls(users_id) ==
    \/ \E id \in Problems, status \in BOOLEAN, time \in Times :
          InsertSubmitted(users_id, id, status, time)
    \/ \E id \in 1..MaxSubmissions : DeleteSubmission(id, users_id)

Next ==
    \/ \E name \in Names : UserCalls(name)
    \/ \E id \in Problems : ProblemCalls(id)
    \/ \E users_id \in UserIds : SubmissionCalls(users_id)

Spec == Init /\ [][Next]_tables

-----------------------------------------------------------------------------
(* Properties. *)

Total(rows, field) == MapThenSumSet(LAMBDA row : row[field], rows)

\* A user who compares the two statistics finds the same figures: each unit is
\* the sum of its problems, however problems are mapped to units.
UnitsAgreeWithDetails ==
    \A u \in users :
        /\ {row.unit : row \in Select_UnitsData(u.id)} =
              {unit \in Types : Select_Unitdetail(u.id, unit) # {}}
        /\ \A row \in Select_UnitsData(u.id) :
              LET exams == Select_Unitdetail(u.id, row.unit)
              IN  /\ row.problems_solved = Cardinality(exams)
                  /\ row.total_submit = Total(exams, "TotalExam")
                  /\ \A f \in {"solved_20min", "solved_30min", "solved_over_30min"} :
                        row[f] = Total(exams, f)

\* Every submission is counted once as solved within 30 minutes or as over 30
\* minutes or not solved, so that the two rates add up to 100%.
RatesAddUp ==
    \A u \in users : \A row \in Select_UnitsData(u.id) :
        /\ row.solved_30min + row.solved_over_30min = row.total_submit
        /\ row.solved_20min <= row.solved_30min

\* The last attempt shown for a problem is the one the user made last, of those
\* not deleted since.
LastIsLatest ==
    \A u \in users, unit \in Types : \A row \in Select_Unitdetail(u.id, unit) :
        /\ row.last \in getSubmissions(u.id, row.exam_No)
        /\ \A s \in getSubmissions(u.id, row.exam_No) :
              \A i, j \in DOMAIN history :
                  history[i] = s.id /\ history[j] = row.last.id => i <= j
=============================================================================
