---- MODULE StudySession ----
(***************************************************************************)
(* Study sessions of one learner, in one SQLite file that several          *)
(* invocations open.  Each operation reads the clock, then runs one        *)
(* deferred transaction: it reads the active session under SQLite's SHARED *)
(* lock, decides, writes under the RESERVED lock and commits when nobody   *)
(* else reads.  The UPDATE carries every column it read and names no       *)
(* status, so nothing but the locks keeps an update from being lost.       *)
(*                                                                         *)
(* A session is named by the invocation that started it, and keeps the     *)
(* idle timeout that invocation was configured with.                       *)
(***************************************************************************)
EXTENDS Naturals, FiniteSets

CONSTANTS
    Invocations,
    NoOne,
    Times,      \* what a clock may show: clocks are wall clocks and may be set
    IdleOf,     \* idle timeout each invocation is configured with
    Faults      \* may a statement fail, or a process die?

ASSUME TimeAssumption == Times \subseteq Nat
ASSUME IdleAssumption == IdleOf \in [Invocations -> Nat \ {0}]
ASSUME NameAssumption == NoOne \notin Invocations
ASSUME FaultAssumption == Faults \in BOOLEAN

VARIABLES
    \* Durable.
    rows,       \* study_session_lifecycle
    history,    \* session.completed events
    inScope,    \* are the goal and its curriculum instance active?
    \* SQLite's locks on the file, and the changes its writer will commit.
    shared, reserved,
    newRows, newHistory,
    \* Each invocation.
    pc, op,
    time,       \* the clock it read before its transaction
    found,      \* the active session it read, and its row
    seen,
    allowed     \* the scope it read

durable == <<rows, history, inScope>>
locks == <<shared, reserved>>
draft == <<newRows, newHistory>>
local == <<op, time, found, seen, allowed>>
vars == <<durable, locks, draft, pc, local>>

Operations == {"start", "current", "activity", "stop", "interrupt", "recover"}
Statuses == {"none", "active", "completed", "interrupted", "recovered"}
Row == [status : Statuses, started : Nat, ended : Nat, last : Nat, active : Nat, count : Nat]

\* No row: status "none".
NoRow == [status |-> "none", started |-> 0, ended |-> 0, last |-> 0, active |-> 0, count |-> 0]
NewSession(t) ==
    [status |-> "active", started |-> t, ended |-> 0, last |-> t, active |-> 0, count |-> 0]

Init ==
    /\ rows = [s \in Invocations |-> NoRow]
    /\ history = {}
    /\ inScope = TRUE
    /\ shared = {} /\ reserved = NoOne
    /\ newRows = rows /\ newHistory = {}
    /\ pc = [i \in Invocations |-> "idle"]
    /\ op = [i \in Invocations |-> "current"]
    /\ time = [i \in Invocations |-> 0]
    /\ found = [i \in Invocations |-> NoOne]
    /\ seen = [i \in Invocations |-> NoRow]
    /\ allowed = [i \in Invocations |-> FALSE]

-----------------------------------------------------------------------------
(* The policy study-session-v1. *)

Least(a, b) == IF a < b THEN a ELSE b

\* Mutant: activity is counted but does not move the last activity.
RecordActivityInPlace(s, row, t) ==
    [row EXCEPT !.active = @ + Least(t - row.last, IdleOf[s]), !.count = @ + 1]

Accumulate(s, row, t) == [row EXCEPT !.active = @ + Least(t - row.last, IdleOf[s])]

RecordActivity(s, row, t) == [Accumulate(s, row, t) EXCEPT !.last = t, !.count = @ + 1]

\* Mutant: a session that is closed late has been studied all the while.
FinishUncapped(s, row, status, t) ==
    [row EXCEPT !.active = @ + (t - row.last), !.status = status, !.ended = t]

Finish(s, row, status, t) == [Accumulate(s, row, t) EXCEPT !.status = status, !.ended = t]

\* Mutant: stale at the idle boundary.
StaleAtBoundary(s, row, t) == row.last + IdleOf[s] <= t

Stale(s, row, t) == row.last + IdleOf[s] < t

Recover(s, row) == Finish(s, row, "recovered", row.last + IdleOf[s])

\* The row an operation leaves of the active session.
Updated(o, s, row, t) ==
    CASE o = "activity" -> RecordActivity(s, row, t)
      [] o = "stop" -> Finish(s, row, "completed", t)
      [] o = "interrupt" -> Finish(s, row, "interrupted", t)
      [] o \in {"start", "recover"} -> Recover(s, row)

\* Does the operation go on to write?  Otherwise it answers: there is no
\* session, the observation precedes the last activity, a recent session is
\* already active or stays open, the goal is not active.
MayWrite(i) ==
    LET row == seen[i]
        observed == found[i] # NoOne /\ row.last <= time[i]
    IN  \/ op[i] \in {"activity", "stop", "interrupt"} /\ observed
        \/ op[i] = "recover" /\ observed /\ Stale(found[i], row, time[i])
        \/ /\ op[i] = "start" /\ allowed[i]
           /\ found[i] = NoOne \/ (observed /\ Stale(found[i], row, time[i]))

-----------------------------------------------------------------------------
(* An operation. *)

Goto(i, step) == pc' = [pc EXCEPT ![i] = step]
Active(r) == {s \in Invocations : r[s].status = "active"}

\* Ends the transaction: its locks are released.
Release(i) ==
    /\ shared' = shared \ {i}
    /\ reserved' = IF reserved = i THEN NoOne ELSE reserved

\* Reads the clock and then, in the transaction, the scope and the active
\* session under one SHARED lock.  How long it takes from the clock to the
\* lock does not matter here, because t may be any time.
Read(i, o, t) ==
    /\ pc[i] = "idle"
    /\ op' = [op EXCEPT ![i] = o]
    /\ time' = [time EXCEPT ![i] = t]
    /\ shared' = shared \union {i}
    /\ allowed' = [allowed EXCEPT ![i] = inScope]
    /\ \/ /\ Active(rows) = {}
          /\ found' = [found EXCEPT ![i] = NoOne]
          /\ UNCHANGED seen
       \/ \E s \in Active(rows) :
            /\ found' = [found EXCEPT ![i] = s]
            /\ seen' = [seen EXCEPT ![i] = rows[s]]
    /\ Goto(i, "decide")
    /\ UNCHANGED <<durable, reserved, draft>>

Answer(i) ==
    /\ pc[i] = "decide" /\ ~MayWrite(i)
    /\ Release(i)
    /\ Goto(i, "answered")
    /\ UNCHANGED <<durable, draft, local>>

\* A first write takes the RESERVED lock.
Reserve(i) == reserved \in {NoOne, i} /\ reserved' = i

\* Mutant: stop writes the session only.
UpdateOnly(i) ==
    /\ pc[i] = "decide" /\ MayWrite(i) /\ found[i] # NoOne
    /\ Reserve(i)
    /\ newRows' = [rows EXCEPT ![found[i]] = Updated(op[i], found[i], seen[i], time[i])]
    /\ newHistory' = history
    /\ Goto(i, IF op[i] = "start" THEN "create" ELSE "commit")
    /\ UNCHANGED <<durable, shared, local>>

\* The UPDATE of the session that was found.
Update(i) ==
    /\ pc[i] = "decide" /\ MayWrite(i) /\ found[i] # NoOne
    /\ Reserve(i)
    /\ newRows' = [rows EXCEPT ![found[i]] = Updated(op[i], found[i], seen[i], time[i])]
    /\ newHistory' = history
    /\ Goto(i, CASE op[i] = "start" -> "create" [] op[i] = "stop" -> "event" [] OTHER -> "commit")
    /\ UNCHANGED <<durable, shared, local>>

\* The INSERT of a new session: the transaction's first statement, or the one
\* that follows the recovery of a stale session.  One active session per
\* student is a unique index.
Create(i) ==
    /\ \/ /\ pc[i] = "decide" /\ MayWrite(i) /\ op[i] = "start" /\ found[i] = NoOne
          /\ newRows' = [rows EXCEPT ![i] = NewSession(time[i])]
          /\ newHistory' = history
          /\ Active(rows) = {}
       \/ /\ pc[i] = "create"
          /\ newRows' = [newRows EXCEPT ![i] = NewSession(time[i])]
          /\ UNCHANGED newHistory
          /\ Active(newRows) = {}
    /\ Reserve(i)
    /\ Goto(i, "commit")
    /\ UNCHANGED <<durable, shared, local>>

\* Mutant: the event is recorded outside the transaction.
RecordEventAtOnce(i) ==
    /\ pc[i] = "event"
    /\ history' = newHistory \union {[session |-> found[i], at |-> newRows[found[i]].ended]}
    /\ newHistory' = history'
    /\ Goto(i, "commit")
    /\ UNCHANGED <<rows, inScope, locks, newRows, local>>

RecordEvent(i) ==
    /\ pc[i] = "event"
    /\ newHistory' = newHistory \union
                        {[session |-> found[i], at |-> newRows[found[i]].ended]}
    /\ Goto(i, "commit")
    /\ UNCHANGED <<durable, locks, newRows, local>>

\* Mutant: a commit does not wait for readers.
CommitEarly(i) ==
    /\ pc[i] = "commit"
    /\ rows' = newRows /\ history' = newHistory
    /\ Release(i)
    /\ Goto(i, "done")
    /\ UNCHANGED <<inScope, draft, local>>

\* The commit waits until nobody else reads.
Commit(i) ==
    /\ pc[i] = "commit" /\ shared = {i}
    /\ rows' = newRows /\ history' = newHistory
    /\ Release(i)
    /\ Goto(i, "done")
    /\ UNCHANGED <<inScope, draft, local>>

Rollback(i) ==
    /\ Release(i)
    /\ Goto(i, "failed")
    /\ UNCHANGED <<durable, draft, local>>

\* Mutant: a reader that wants to write waits for the writer.
BusyWaits(i) == FALSE /\ Rollback(i)

\* A reader cannot become a writer while there is one.  SQLite fails it at
\* once, without the busy timeout, because the writer waits for it.
Busy(i) ==
    /\ pc[i] = "decide" /\ MayWrite(i)
    /\ reserved \notin {NoOne, i}
    /\ Rollback(i)

\* Any other statement fails, also a commit whose wait times out, or the
\* process dies and the next reader rolls its journal back.
Fail(i) ==
    /\ Faults
    /\ pc[i] \in {"decide", "create", "event", "commit"}
    /\ Rollback(i)

\* Mutant: the scope changes under a reader.
ChangeScopeUnlocked ==
    /\ inScope' = ~inScope
    /\ UNCHANGED <<rows, history, locks, draft, pc, local>>

\* Another operation pauses, finishes or resumes the goal: a transaction of
\* its own, which commits when nobody reads.
ChangeScope ==
    /\ shared = {}
    /\ inScope' = ~inScope
    /\ UNCHANGED <<rows, history, locks, draft, pc, local>>

Step(i) ==
    \/ Answer(i) \/ Update(i) \/ Create(i) \/ RecordEvent(i) \/ Commit(i) \/ Busy(i)

Next ==
    \/ \E i \in Invocations :
        \/ \E o \in Operations, t \in Times : Read(i, o, t)
        \/ Step(i) \/ Fail(i)
    \/ ChangeScope

Spec == Init /\ [][Next]_vars

-----------------------------------------------------------------------------
(* Properties. *)

Event == [session : Invocations, at : Nat]
Steps == {"idle", "decide", "create", "event", "commit", "answered", "done", "failed"}

DurableOK ==
    /\ rows \in [Invocations -> Row] /\ history \subseteq Event /\ inScope \in BOOLEAN
LockOK == shared \subseteq Invocations /\ reserved \in Invocations \union {NoOne}
DraftOK == newRows \in [Invocations -> Row] /\ newHistory \subseteq Event
LocalOK ==
    /\ pc \in [Invocations -> Steps] /\ op \in [Invocations -> Operations]
    /\ time \in [Invocations -> Nat]
    /\ found \in [Invocations -> Invocations \union {NoOne}]
    /\ seen \in [Invocations -> Row]
    /\ allowed \in [Invocations -> BOOLEAN]

\* Every variable keeps its type; no duration or time is negative.
TypeOK == DurableOK /\ LockOK /\ DraftOK /\ LocalOK

\* StudySession.Validate holds of every stored row, after any sequence of
\* operations with any clocks; a row that fails it could never be read, and
\* so never be closed, again.
Valid(row) ==
    /\ row.started <= row.last
    /\ row.status = "active" => row.active <= row.last - row.started
    /\ row.status \notin {"none", "active"} =>
        row.last <= row.ended /\ row.active <= row.ended - row.started
RowsValid == \A s \in Invocations : Valid(rows[s])

\* However long a process stays open, a session counts at most one of its own
\* idle windows per activity and one for its end.
StudyIsBounded ==
    \A s \in Invocations : rows[s].active <= IdleOf[s] * (rows[s].count + 1)

\* No activity is lost or counted twice: the count of a session is the number
\* of activities whose invocation was told of success.
ActivitiesAreCounted ==
    \A s \in Invocations :
        rows[s].count =
            Cardinality({i \in Invocations : pc[i] = "done" /\ op[i] = "activity" /\ found[i] = s})

\* The learner's history tells of exactly the completed sessions, with their
\* end.
HistoryMatches ==
    history = {[session |-> s, at |-> rows[s].ended] :
                s \in {x \in Invocations : rows[x].status = "completed"}}

\* A session is replaced only when its idle window is over, so the two do not
\* overlap and the boundary belongs to the old one.
ReplacedBeforeStart ==
    \A i \in Invocations :
        op[i] = "start" /\ pc[i] = "done" /\ found[i] # NoOne =>
            /\ rows[found[i]].status = "recovered"
            /\ rows[found[i]].ended < rows[i].started

\* A closed session never changes again, not even by an operation that read
\* it while it was active.
ClosedStays ==
    [][\A s \in Invocations :
        rows[s].status \notin {"none", "active"} => rows'[s] = rows[s]]_vars

\* A session begins only while its goal and curriculum instance are active,
\* although they were read some statements earlier.
BeginsInScope ==
    [][\A s \in Invocations : rows[s].status = "none" /\ rows'[s].status # "none" => inScope]_vars

\* Sessions behave as the log promises.
Log == INSTANCE SessionLog WITH
    Sessions <- Invocations,
    state <- [s \in Invocations |->
                IF rows[s].status = "none" THEN "unused"
                ELSE IF rows[s].status = "active" THEN "open" ELSE "closed"],
    studied <- [s \in Invocations |-> rows[s].active],
    told <- {e.session : e \in history}
ImplementsLog == Log!Spec

\* Operations never wait for each other in a circle: while one is under way,
\* some operation can take its next step.  Every step brings its operation
\* nearer to its end, so all of them end.
NoStandoff ==
    (\E i \in Invocations : pc[i] \notin {"idle", "answered", "done", "failed"})
    => \E i \in Invocations : ENABLED Step(i)
====
