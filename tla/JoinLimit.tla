------------------------------- MODULE JoinLimit -------------------------------
(***************************************************************************)
(* The limit on join attempts (enforce_join_rate_limit and join_course of  *)
(* services/course_join.py): every attempt counts against its account and  *)
(* its address, in rows of the database, and counts whatever becomes of    *)
(* it. What joining does to the course is in CourseRoster.                 *)
(***************************************************************************)
EXTENDS Integers, Sequences, FiniteSets

CONSTANTS
    Joiners,      \* accounts that join
    Addresses,
    Origins,      \* who joins from where
    Joins,        \* attempts that overlap
    JoinsLimit,   \* join_rate_limit_max_requests
    JoinWindow,   \* join_rate_limit_window_seconds
    MaxJoins,     \* bound on the attempts let through
    MaxCount,     \* bound on the attempts a window refuses
    MaxTime,      \* bound on the clock
    NoRow,
    NoJoin

VARIABLES
    rows,      \* JoinRateLimit, by subject
    joins,     \* transactions in progress
    time,
    accepted   \* history: the attempts that were let through and committed

joinVars == <<rows, joins, time, accepted>>

Subjects == Joiners \union Addresses

Row == [start : 1..MaxTime, count : Nat]

\* counted: the rows it has written, which it alone sees; its locks are on them.
Join == [subjects : Origins, now : 1..MaxTime,
         counted : UNION {[S -> Row] : S \in SUBSET Subjects}, deleted : SUBSET Subjects]

ASSUME JoinConstants ==
    /\ IsFiniteSet(Joins) /\ Joins # {} /\ NoJoin \notin Join
    /\ NoRow \notin Row
    /\ Origins \subseteq Joiners \X Addresses /\ Joiners \intersect Addresses = {}
    /\ {JoinsLimit, JoinWindow, MaxTime} \subseteq Nat \ {0}

JoinTypeOK ==
    /\ \A s \in Subjects : rows[s] # NoRow => rows[s].start \in 1..MaxTime /\ rows[s].count > 0
    /\ \A j \in Joins : joins[j] # NoJoin =>
          DOMAIN joins[j].counted \subseteq {joins[j].subjects[1], joins[j].subjects[2]}
    /\ time \in 1..MaxTime

JoinInit ==
    /\ rows = [s \in Subjects |-> NoRow]
    /\ joins = [j \in Joins |-> NoJoin]
    /\ time = 1
    /\ accepted = <<>>

-------------------------------------------------------------------------------

\* The clock is read here, before the wait for the first lock.
Arrive(j) ==
    /\ joins[j] = NoJoin
    /\ \E origin \in Origins :
          joins' = [joins EXCEPT ![j] = [subjects |-> origin, now |-> time,
                                         counted |-> <<>>, deleted |-> {}]]
    /\ UNCHANGED <<rows, time, accepted>>

\* The advisory lock of the subject, and the lock of its row: a row that another
\* attempt is deleting is waited for.
Lockable(j, s) ==
    \A k \in Joins \ {j} :
        joins[k] # NoJoin => s \notin DOMAIN joins[k].counted \union joins[k].deleted

Passed(j, row) == joins[j].now - row.start >= JoinWindow

\* One attempt more in the window of the subject, or the first of a new one.
Counted(j, s) ==
    IF rows[s] = NoRow \/ Passed(j, rows[s])
    THEN [start |-> joins[j].now, count |-> 1]
    ELSE [rows[s] EXCEPT !.count = @ + 1]

With(counted, s, row) == [t \in DOMAIN counted \union {s} |-> IF t = s THEN row ELSE counted[t]]

CountAccount(j) ==
    LET a == joins[j].subjects[1]
    IN /\ joins[j] # NoJoin /\ joins[j].counted = <<>>
       /\ Lockable(j, a)
       /\ joins' = [joins EXCEPT ![j].counted = With(<<>>, a, Counted(j, a))]
       /\ UNCHANGED <<rows, time, accepted>>

\* Windows of others that have passed are deleted, but not those somebody holds.
PassedWindows(j) ==
    {s \in Subjects \ {joins[j].subjects[1], joins[j].subjects[2]} :
        /\ rows[s] # NoRow
        /\ rows[s].start < joins[j].now - JoinWindow
        /\ Lockable(j, s)}

CountAddress(j) ==
    LET a == joins[j].subjects[2]
    IN /\ joins[j] # NoJoin /\ joins[j].subjects[1] \in DOMAIN joins[j].counted
       /\ a \notin DOMAIN joins[j].counted
       /\ Lockable(j, a)
       /\ joins' = [joins EXCEPT ![j].counted = With(@, a, Counted(j, a)),
                                 ![j].deleted = PassedWindows(j)]
       /\ UNCHANGED <<rows, time, accepted>>

Done(j) ==
    /\ joins[j] # NoJoin
    /\ Cardinality(DOMAIN joins[j].counted) = 2

Limited(j) == \E s \in DOMAIN joins[j].counted : joins[j].counted[s].count > JoinsLimit

Commit(j) ==
    /\ rows' = [s \in Subjects |->
                   IF s \in DOMAIN joins[j].counted THEN joins[j].counted[s]
                   ELSE IF s \in joins[j].deleted THEN NoRow
                   ELSE rows[s]]
    /\ joins' = [joins EXCEPT ![j] = NoJoin]

\* Too many: the count is committed with the refusal.
TurnAway(j) ==
    /\ Done(j)
    /\ Limited(j)
    /\ \A s \in DOMAIN joins[j].counted : joins[j].counted[s].count <= JoinsLimit + MaxCount
    /\ Commit(j)
    /\ UNCHANGED <<time, accepted>>

\* Mutant: an error rolls back what was counted.
ProceedUncounted(j) ==
    /\ Done(j)
    /\ ~ Limited(j)
    /\ Len(accepted) < MaxJoins
    /\ \/ Commit(j)
       \/ joins' = [joins EXCEPT ![j] = NoJoin] /\ UNCHANGED rows
    /\ accepted' = Append(accepted, [subjects |-> joins[j].subjects, now |-> joins[j].now])
    /\ UNCHANGED time

\* The attempt goes on to the code and the course: its errors commit, too.
Proceed(j) ==
    /\ Done(j)
    /\ ~ Limited(j)
    /\ Len(accepted) < MaxJoins
    /\ Commit(j)
    /\ accepted' = Append(accepted, [subjects |-> joins[j].subjects, now |-> joins[j].now])
    /\ UNCHANGED time

\* A lost connection rolls back.
Break(j) ==
    /\ joins[j] # NoJoin
    /\ joins' = [joins EXCEPT ![j] = NoJoin]
    /\ UNCHANGED <<rows, time, accepted>>

JoinTick ==
    /\ time < MaxTime
    /\ time' = time + 1
    /\ UNCHANGED <<rows, joins, accepted>>

JoinNext ==
    \/ JoinTick
    \/ \E j \in Joins :
          \/ Arrive(j) \/ CountAccount(j) \/ CountAddress(j)
          \/ TurnAway(j) \/ Proceed(j) \/ Break(j)

JoinSpec == JoinInit /\ [][JoinNext]_joinVars

-------------------------------------------------------------------------------

AcceptedFor(s, from) ==
    {k \in DOMAIN accepted : /\ s \in {accepted[k].subjects[1], accepted[k].subjects[2]}
                             /\ accepted[k].now \in from..from + JoinWindow - 1}

\* In no stretch of time as long as the window do more attempts of an account or
\* an address get through, those that end in an error included, than the limit
\* allows for one window more than there are attempts at a time, less one. Windows
\* may overlap: an attempt that waited makes a row again, with its older time, when
\* the row it waited for was deleted (course_join.py:312).
JoinsAreLimited ==
    \A s \in Subjects, t \in 1..MaxTime :
        Cardinality(AcceptedFor(s, t)) <= (Cardinality(Joins) + 1) * JoinsLimit - 1

===============================================================================
