------------------------------ MODULE Tracker ------------------------------
(***************************************************************************)
(* The database of the tracker: the tables of SQL/init.sql and the calls   *)
(* of sql_driver.cpp.                                                      *)
(*                                                                         *)
(* Each call has a connection of its own and does its work in one          *)
(* transaction, on rows it has locked (FOR UPDATE, or by the insert or     *)
(* delete itself) or on one snapshot, so that a call is one step.  An      *)
(* action below is a call that commits; a call that finds no row, breaks a *)
(* key or meets an SQLException rolls back and changes nothing.  The order *)
(* of rows, their dates and the difficulty of problems are left out.       *)
(***************************************************************************)
EXTENDS Integers, Sequences, FiniteSets

CONSTANTS
    Names,          \* user names
    Problems,       \* problem numbers
    Titles,         \* problem titles
    Types,          \* problem types: the units
    Times,          \* times of a submission: the numbers sscanf reads from one
    MaxUsers,       \* bound: users registered
    MaxSubmissions  \* bound: submissions inserted

ASSUME TrackerAssumption ==
    /\ Times \subseteq Seq(Nat)
    /\ MaxUsers \in Nat
    /\ MaxSubmissions \in Nat

VARIABLES
    users, problems, problem_type_map, submissions,     \* the tables
    users_next, submissions_next,                       \* AUTO_INCREMENT
    history     \* not in the code: the submissions in the order of insertion

catalogue == <<problems, problem_type_map>>
tables == <<users, catalogue, submissions, users_next, submissions_next, history>>

TrackerInit ==
    /\ users = {}
    /\ problems = {}
    /\ problem_type_map = {}
    /\ submissions = {}
    /\ users_next = 1
    /\ submissions_next = 1
    /\ history = <<>>

-----------------------------------------------------------------------------
(* Users. *)

getUserId(name) ==
    IF \E u \in users : u.username = name
    THEN (CHOOSE u \in users : u.username = name).id
    ELSE -1

BadRegisterReusesId(name) ==
    /\ \A u \in users : u.username # name
    /\ \E id \in 1..MaxUsers :
          /\ \A u \in users : u.id # id
          /\ users' = users \union {[id |-> id, username |-> name]}
    /\ UNCHANGED <<catalogue, submissions, users_next, submissions_next, history>>

registerUser(name) ==
    /\ users_next <= MaxUsers
    /\ \A u \in users : u.username # name
    /\ users' = users \union {[id |-> users_next, username |-> name]}
    /\ users_next' = users_next + 1
    /\ UNCHANGED <<catalogue, submissions, submissions_next, history>>

\* ON DELETE CASCADE takes the submissions of the user along.
deleteUser(name) ==
    /\ \E u \in users : u.username = name
    /\ users' = {u \in users : u.username # name}
    /\ submissions' = {s \in submissions : s.users_id # getUserId(name)}
    /\ UNCHANGED <<catalogue, users_next, submissions_next, history>>

-----------------------------------------------------------------------------
(* Problems and their types. *)

InsertProblem(id, title) ==
    /\ \A p \in problems : p.id # id /\ p.title # title
    /\ problems' = problems \union {[id |-> id, title |-> title]}
    /\ UNCHANGED <<users, problem_type_map, submissions, users_next,
                   submissions_next, history>>

\* The types of the problem and the submissions to it go with it.
DeleteProblem(id) ==
    /\ \E p \in problems : p.id = id
    /\ problems' = {p \in problems : p.id # id}
    /\ problem_type_map' = {t \in problem_type_map : t.problem_id # id}
    /\ submissions' = {s \in submissions : s.problem_id # id}
    /\ UNCHANGED <<users, users_next, submissions_next, history>>

InsertProblemType(id, type) ==
    LET row == [problem_id |-> id, problem_type |-> type]
    IN  /\ \E p \in problems : p.id = id
        /\ row \notin problem_type_map
        /\ problem_type_map' = problem_type_map \union {row}
        /\ UNCHANGED <<users, problems, submissions, users_next,
                       submissions_next, history>>

DeleteProblemType(id, type) ==
    LET row == [problem_id |-> id, problem_type |-> type]
    IN  /\ row \in problem_type_map
        /\ problem_type_map' = problem_type_map \ {row}
        /\ UNCHANGED <<users, problems, submissions, users_next,
                       submissions_next, history>>

-----------------------------------------------------------------------------
(* Submissions. *)

\* MySQL takes other forms of a time than hh:mm:ss, for which this is -1.
getMinuteFromTime(time) == IF Len(time) = 3 THEN time[1] * 60 + time[2] ELSE -1

BadInsertNoForeignKey(users_id, problem_id, status, time) ==
    /\ submissions_next <= MaxSubmissions
    /\ \E p \in problems : p.id = problem_id
    /\ submissions' = submissions \union
          {[id |-> submissions_next, users_id |-> users_id,
            problem_id |-> problem_id, status |-> status,
            minutes |-> getMinuteFromTime(time)]}
    /\ submissions_next' = submissions_next + 1
    /\ history' = Append(history, submissions_next)
    /\ UNCHANGED <<users, catalogue, users_next>>

InsertSubmitted(users_id, problem_id, status, time) ==
    /\ submissions_next <= MaxSubmissions
    /\ \E u \in users : u.id = users_id
    /\ \E p \in problems : p.id = problem_id
    /\ submissions' = submissions \union
          {[id |-> submissions_next, users_id |-> users_id,
            problem_id |-> problem_id, status |-> status,
            minutes |-> getMinuteFromTime(time)]}
    /\ submissions_next' = submissions_next + 1
    /\ history' = Append(history, submissions_next)
    /\ UNCHANGED <<users, catalogue, users_next>>

BadDeleteAnySubmission(id, users_id) ==
    /\ \E s \in submissions : s.id = id
    /\ submissions' = {s \in submissions : s.id # id}
    /\ UNCHANGED <<users, catalogue, users_next, submissions_next, history>>

\* Only the user who made it deletes a submission.
DeleteSubmission(id, users_id) ==
    /\ \E s \in submissions : s.id = id /\ s.users_id = users_id
    /\ submissions' = {s \in submissions : s.id # id}
    /\ UNCHANGED <<users, catalogue, users_next, submissions_next, history>>

getSubmissions(users_id, problem_id) ==
    {s \in submissions : s.users_id = users_id /\ s.problem_id = problem_id}

-----------------------------------------------------------------------------
(* What the tables promise. *)

UserIds == 1..MaxUsers

TablesOK ==
    /\ users \subseteq [id : UserIds, username : Names]
    /\ problems \subseteq [id : Problems, title : Titles]
    /\ problem_type_map \subseteq [problem_id : Problems, problem_type : Types]
    /\ submissions \subseteq
          [id : 1..MaxSubmissions, users_id : UserIds, problem_id : Problems,
           status : BOOLEAN, minutes : Nat \union {-1}]
    /\ users_next \in 1..MaxUsers + 1
    /\ submissions_next \in 1..MaxSubmissions + 1
    /\ history \in Seq(1..MaxSubmissions)

\* The keys of the tables.
UniqueKeys ==
    /\ \A u, v \in users : u.id = v.id \/ u.username = v.username => u = v
    /\ \A p, q \in problems : p.id = q.id \/ p.title = q.title => p = q
    /\ \A s, t \in submissions : s.id = t.id => s = t

\* The numbers the tables will give next are new.
NumbersAreNew ==
    /\ \A u \in users : u.id < users_next
    /\ \A s \in submissions : s.id < submissions_next

\* Whatever is deleted meanwhile, a submission has its user and its problem, and
\* a type its problem.
NoOrphans ==
    /\ \A s \in submissions :
          /\ \E u \in users : u.id = s.users_id
          /\ \E p \in problems : p.id = s.problem_id
    /\ \A t \in problem_type_map : \E p \in problems : p.id = t.problem_id
=============================================================================
