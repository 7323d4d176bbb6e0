---- MODULE StudySessionProofs ----
(***************************************************************************)
(* The study-session lifecycle for any number of overlapping operations,   *)
(* any clocks, idle timeouts and faults.                                   *)
(***************************************************************************)
EXTENDS StudySession, FiniteSetTheorems, TLAPS

-----------------------------------------------------------------------------
(* The policy. *)

LEMMA FixedRows ==
    /\ NoRow \in Row /\ NoRow.status = "none" /\ Valid(NoRow) /\ NoRow.active = 0 /\ NoRow.count = 0
    /\ \A t \in Nat :
        /\ NewSession(t) \in Row /\ NewSession(t).status = "active" /\ Valid(NewSession(t))
        /\ NewSession(t).active = 0 /\ NewSession(t).count = 0 /\ NewSession(t).started = t
  BY DEF NoRow, NewSession, Row, Statuses, Valid

LEMMA AccumulateEffect ==
    ASSUME NEW s \in Invocations, NEW row \in Row, NEW t \in Nat, row.last <= t
    PROVE  \E d \in 0..IdleOf[s] :
             /\ d <= t - row.last
             /\ Accumulate(s, row, t) = [row EXCEPT !.active = row.active + d]
<1>1. row.last \in Nat /\ IdleOf[s] \in Nat /\ t - row.last \in Nat
  BY IdleAssumption DEF Row
<1>2. /\ Least(t - row.last, IdleOf[s]) \in 0..IdleOf[s]
      /\ Least(t - row.last, IdleOf[s]) <= t - row.last
  BY <1>1 DEF Least
<1> QED BY <1>2 DEF Accumulate

\* What an operation does to the active session.
Earned(s, row, u) == \E d \in 0..IdleOf[s] : u.active = row.active + d

LEMMA ActivityEffect ==
    ASSUME NEW s \in Invocations, NEW row \in Row, NEW t \in Nat, row.last <= t,
           row.status = "active", Valid(row)
    PROVE  LET u == RecordActivity(s, row, t) IN
           /\ u \in Row /\ Valid(u) /\ Earned(s, row, u)
           /\ u.status = "active" /\ u.count = row.count + 1 /\ u.started = row.started
<1>1. PICK d \in 0..IdleOf[s] :
        d <= t - row.last /\ Accumulate(s, row, t) = [row EXCEPT !.active = row.active + d]
  BY AccumulateEffect
<1>2. d \in Nat /\ row.active \in Nat /\ row.last \in Nat /\ row.started \in Nat /\ row.count \in Nat
  BY IdleAssumption DEF Row
<1>3. RecordActivity(s, row, t) =
        [row EXCEPT !.active = row.active + d, !.last = t, !.count = row.count + 1]
  BY <1>1 DEF RecordActivity, Row
<1> DEFINE u == RecordActivity(s, row, t)
<1>4. /\ u.active = row.active + d /\ u.last = t /\ u.count = row.count + 1
      /\ u.status = "active" /\ u.started = row.started
  BY <1>3 DEF Row
<1>5. u \in Row
  <2>1. row.active + d \in Nat /\ row.count + 1 \in Nat
    BY <1>2
  <2>2. \A x, n \in Nat : [row EXCEPT !.active = x, !.last = t, !.count = n] \in Row
    BY DEF Row
  <2> QED BY <1>3, <2>1, <2>2
<1>6. row.started <= row.last /\ row.active <= row.last - row.started
  BY DEF Valid
<1>7. row.started <= t /\ row.active + d <= t - row.started
  BY <1>1, <1>2, <1>6
<1>8. Valid(u)
  BY <1>4, <1>7 DEF Valid
<1> QED BY <1>4, <1>5, <1>8 DEF Earned

LEMMA FinishEffect ==
    ASSUME NEW s \in Invocations, NEW row \in Row, NEW t \in Nat, row.last <= t,
           row.status = "active", Valid(row),
           NEW status \in {"completed", "interrupted", "recovered"}
    PROVE  LET u == Finish(s, row, status, t) IN
           /\ u \in Row /\ Valid(u) /\ Earned(s, row, u)
           /\ u.status = status /\ u.count = row.count /\ u.started = row.started /\ u.ended = t
<1>1. PICK d \in 0..IdleOf[s] :
        d <= t - row.last /\ Accumulate(s, row, t) = [row EXCEPT !.active = row.active + d]
  BY AccumulateEffect
<1>2. d \in Nat /\ row.active \in Nat /\ row.last \in Nat /\ row.started \in Nat /\ row.count \in Nat
  BY IdleAssumption DEF Row
<1>3. Finish(s, row, status, t) =
        [row EXCEPT !.active = row.active + d, !.status = status, !.ended = t]
  BY <1>1 DEF Finish, Row
<1> DEFINE u == Finish(s, row, status, t)
<1>4. /\ u.active = row.active + d /\ u.last = row.last /\ u.count = row.count
      /\ u.status = status /\ u.started = row.started /\ u.ended = t
  BY <1>3 DEF Row
<1>5. u \in Row
  <2>1. row.active + d \in Nat /\ status \in Statuses
    BY <1>2 DEF Statuses
  <2>2. \A x \in Nat, y \in Statuses : [row EXCEPT !.active = x, !.status = y, !.ended = t] \in Row
    BY DEF Row
  <2>3. [row EXCEPT !.active = row.active + d, !.status = status, !.ended = t] \in Row
    BY <2>1, <2>2
  <2> QED BY <1>3, <2>3
<1>6. row.started <= row.last /\ row.active <= row.last - row.started
  BY DEF Valid
<1>7. row.started <= t /\ row.active + d <= t - row.started
  BY <1>1, <1>2, <1>6
<1>8. Valid(u)
  BY <1>4, <1>6, <1>7 DEF Valid
<1> QED BY <1>4, <1>5, <1>8 DEF Earned

\* Every operation that may write leaves a readable row.
LEMMA UpdatedEffect ==
    ASSUME NEW s \in Invocations, NEW row \in Row, NEW t \in Nat, row.last <= t,
           row.status = "active", Valid(row),
           NEW o \in {"activity", "stop", "interrupt", "start", "recover"}
    PROVE  LET u == Updated(o, s, row, t) IN
           /\ u \in Row /\ Valid(u) /\ Earned(s, row, u) /\ u.started = row.started
           /\ o = "activity" => u.status = "active" /\ u.count = row.count + 1
           /\ o # "activity" => u.status \in {"completed", "interrupted", "recovered"}
                                /\ u.count = row.count
           /\ o = "stop" <=> u.status = "completed"
           /\ o = "start" => u.status = "recovered" /\ u.ended = row.last + IdleOf[s]
<1>1. row.last + IdleOf[s] \in Nat /\ row.last <= row.last + IdleOf[s]
  BY IdleAssumption DEF Row
<1>2. CASE o = "activity"
  BY <1>2, ActivityEffect DEF Updated
<1>3. CASE o = "stop"
  BY <1>3, FinishEffect DEF Updated
<1>4. CASE o = "interrupt"
  BY <1>4, FinishEffect DEF Updated
<1>5. CASE o \in {"start", "recover"}
  BY <1>1, <1>5, FinishEffect DEF Updated, Recover
<1> QED BY <1>2, <1>3, <1>4, <1>5

-----------------------------------------------------------------------------
(* The inductive invariant. *)

InTransaction == {"decide", "create", "event", "commit"}
Writing == {"create", "event", "commit"}

LocksInv ==
    /\ \A i \in Invocations : i \in shared <=> pc[i] \in InTransaction
    /\ \A i \in Invocations : reserved = i <=> pc[i] \in Writing

\* One session is active, and a session belongs to an operation that is done.
RowsInv ==
    /\ \A r, s \in Invocations : rows[r].status = "active" /\ rows[s].status = "active" => r = s
    /\ \A s \in Invocations : rows[s].status # "none" => pc[s] = "done"

\* Under its SHARED lock an operation knows what it read.
Reads(i) ==
    /\ allowed[i] = inScope
    /\ found[i] = NoOne => \A s \in Invocations : rows[s].status # "active"
    /\ found[i] # NoOne =>
        found[i] \in Invocations /\ rows[found[i]].status = "active" /\ seen[i] = rows[found[i]]
ReadInv == \A i \in Invocations : i \in shared => Reads(i)

\* The row the operation leaves of the session it found.
After(i) == Updated(op[i], found[i], rows[found[i]], time[i])

\* Under its RESERVED lock it has written its part of the change.
Wrote(i) ==
    /\ MayWrite(i)
    /\ pc[i] = "create" =>
        /\ op[i] = "start" /\ found[i] # NoOne
        /\ newRows = [rows EXCEPT ![found[i]] = After(i)] /\ newHistory = history
    /\ pc[i] = "event" =>
        /\ op[i] = "stop"
        /\ newRows = [rows EXCEPT ![found[i]] = After(i)] /\ newHistory = history
    /\ pc[i] = "commit" =>
        \/ /\ op[i] \in {"activity", "interrupt", "recover"}
           /\ newRows = [rows EXCEPT ![found[i]] = After(i)] /\ newHistory = history
        \/ /\ op[i] = "stop"
           /\ newRows = [rows EXCEPT ![found[i]] = After(i)]
           /\ newHistory = history \union {[session |-> found[i], at |-> After(i).ended]}
        \/ /\ op[i] = "start" /\ found[i] = NoOne
           /\ newRows = [rows EXCEPT ![i] = NewSession(time[i])] /\ newHistory = history
        \/ /\ op[i] = "start" /\ found[i] # NoOne
           /\ newRows = [rows EXCEPT ![found[i]] = After(i), ![i] = NewSession(time[i])]
           /\ newHistory = history
WriteInv == \A i \in Invocations : pc[i] \in Writing => Wrote(i)

\* An active session has earned no window for its end yet.
BoundInv ==
    \A s \in Invocations :
        /\ rows[s].status = "none" => rows[s].active = 0
        /\ rows[s].status = "active" => rows[s].active <= IdleOf[s] * rows[s].count
        /\ rows[s].active <= IdleOf[s] * (rows[s].count + 1)

SessionInv ==
    /\ TypeOK /\ LocksInv /\ RowsInv /\ ReadInv /\ WriteInv
    /\ RowsValid /\ BoundInv /\ HistoryMatches /\ ReplacedBeforeStart

LEMMA SessionInit == Init => SessionInv
<1> SUFFICES ASSUME Init PROVE SessionInv
  OBVIOUS
<1>1. \A s \in Invocations : rows[s] = NoRow
  BY DEF Init
<1>2. TypeOK
  BY FixedRows DEF Init, TypeOK, DurableOK, LockOK, DraftOK, LocalOK, Steps, Operations
<1>3. LocksInv
  BY NameAssumption DEF Init, LocksInv, InTransaction, Writing
<1>4. RowsInv /\ RowsValid
  BY <1>1, FixedRows DEF RowsInv, RowsValid
<1>5. ReadInv /\ WriteInv /\ ReplacedBeforeStart
  BY DEF Init, ReadInv, WriteInv, Writing, ReplacedBeforeStart
<1>6. HistoryMatches
  BY <1>1, FixedRows DEF Init, HistoryMatches
<1>7. BoundInv
  <2> SUFFICES ASSUME NEW s \in Invocations
               PROVE  /\ rows[s].active = 0 /\ rows[s].status = "none"
                      /\ rows[s].active <= IdleOf[s] * (rows[s].count + 1)
    BY DEF BoundInv
  <2>1. IdleOf[s] \in Nat /\ rows[s].active = 0 /\ rows[s].count = 0 /\ rows[s].status = "none"
    BY <1>1, FixedRows, IdleAssumption
  <2> QED BY <2>1
<1> QED BY <1>2, <1>3, <1>4, <1>5, <1>6, <1>7 DEF SessionInv

-----------------------------------------------------------------------------
(* What an operation that may write leaves of the session it found. *)

LEMMA AfterEffect ==
    ASSUME SessionInv, NEW i \in Invocations, i \in shared, MayWrite(i), found[i] # NoOne
    PROVE  LET s == found[i]
               row == rows[s]
               u == After(i)
           IN  /\ s \in Invocations /\ row \in Row /\ row.status = "active" /\ seen[i] = row
               /\ op[i] \in {"activity", "stop", "interrupt", "start", "recover"}
               /\ s # i
               /\ u \in Row /\ Valid(u) /\ Earned(s, row, u) /\ u.started = row.started
               /\ op[i] = "activity" => u.status = "active" /\ u.count = row.count + 1
               /\ op[i] # "activity" => u.status \in {"completed", "interrupted", "recovered"}
                                        /\ u.count = row.count
               /\ op[i] = "stop" <=> u.status = "completed"
               /\ op[i] = "start" => u.status = "recovered" /\ u.ended < time[i]
<1>1. found[i] \in Invocations /\ rows[found[i]].status = "active" /\ seen[i] = rows[found[i]]
  BY DEF SessionInv, ReadInv, Reads
<1>2. rows[found[i]] \in Row /\ Valid(rows[found[i]]) /\ time[i] \in Nat
  BY <1>1 DEF SessionInv, TypeOK, DurableOK, LocalOK, RowsValid
<1>3. /\ op[i] \in {"activity", "stop", "interrupt", "start", "recover"}
      /\ rows[found[i]].last <= time[i]
      /\ op[i] = "start" => rows[found[i]].last + IdleOf[found[i]] < time[i]
  BY <1>1 DEF MayWrite, Stale
<1>4. pc[found[i]] = "done" /\ pc[i] \in InTransaction
  BY <1>1 DEF SessionInv, RowsInv, LocksInv
<1>5. found[i] # i
  BY <1>4 DEF InTransaction
<1> HIDE DEF SessionInv
<1>6. LET u == After(i) IN
        /\ u \in Row /\ Valid(u) /\ Earned(found[i], rows[found[i]], u)
        /\ u.started = rows[found[i]].started
        /\ op[i] = "activity" => u.status = "active" /\ u.count = rows[found[i]].count + 1
        /\ op[i] # "activity" => u.status \in {"completed", "interrupted", "recovered"}
                                 /\ u.count = rows[found[i]].count
        /\ op[i] = "stop" <=> u.status = "completed"
        /\ op[i] = "start" => u.status = "recovered"
                              /\ u.ended = rows[found[i]].last + IdleOf[found[i]]
  BY <1>1, <1>2, <1>3, UpdatedEffect DEF After
<1> QED BY <1>1, <1>2, <1>3, <1>5, <1>6

\* The change a commit makes durable, row by row.
LEMMA CommitEffect ==
    ASSUME SessionInv, NEW i \in Invocations, Commit(i)
    PROVE  /\ i \in shared /\ MayWrite(i) /\ pc[i] = "commit" /\ rows[i].status = "none"
           /\ rows' \in [Invocations -> Row]
           /\ \A s \in Invocations : s # i /\ s # found[i] => rows'[s] = rows[s]
           /\ found[i] # NoOne => rows'[found[i]] = After(i)
           /\ op[i] # "start" => rows'[i] = rows[i] /\ found[i] # NoOne
           /\ op[i] = "start" => rows'[i] = NewSession(time[i]) /\ inScope
           /\ op[i] # "stop" => history' = history
           /\ op[i] = "stop" =>
                history' = history \union {[session |-> found[i], at |-> After(i).ended]}
<1>1. pc[i] = "commit" /\ shared = {i} /\ rows' = newRows /\ history' = newHistory
  BY DEF Commit
<1>2. Wrote(i) /\ Reads(i) /\ rows[i].status = "none"
  BY <1>1 DEF SessionInv, WriteInv, ReadInv, RowsInv, Writing
<1>3. MayWrite(i)
  BY <1>2 DEF Wrote
<1>4. newRows \in [Invocations -> Row] /\ rows \in [Invocations -> Row]
  BY DEF SessionInv, TypeOK, DraftOK, DurableOK
<1>5. found[i] # NoOne => found[i] \in Invocations /\ found[i] # i
  BY <1>2 DEF Reads
<1>6. op[i] = "start" => inScope
  BY <1>2, <1>3 DEF MayWrite, Reads
<1> DEFINE f == found[i]
           u == After(i)
           n == NewSession(time[i])
<1>7. \/ /\ op[i] \in {"activity", "interrupt", "recover"}
         /\ newRows = [rows EXCEPT ![f] = u] /\ newHistory = history
      \/ /\ op[i] = "stop"
         /\ newRows = [rows EXCEPT ![f] = u]
         /\ newHistory = history \union {[session |-> f, at |-> u.ended]}
      \/ /\ op[i] = "start" /\ f = NoOne
         /\ newRows = [rows EXCEPT ![i] = n] /\ newHistory = history
      \/ /\ op[i] = "start" /\ f # NoOne
         /\ newRows = [rows EXCEPT ![f] = u, ![i] = n] /\ newHistory = history
  BY <1>1, <1>2 DEF Wrote
<1>8. op[i] # "start" => f # NoOne
  BY <1>3 DEF MayWrite
<1> HIDE DEF SessionInv, u, n
<1>9. /\ \A s \in Invocations : s # i /\ s # f => newRows[s] = rows[s]
      /\ f # NoOne => newRows[f] = u
      /\ op[i] # "start" => newRows[i] = rows[i]
      /\ op[i] = "start" => newRows[i] = n
  <2>1. CASE newRows = [rows EXCEPT ![f] = u] /\ op[i] # "start"
    BY <2>1, <1>4, <1>5, <1>8
  <2>2. CASE op[i] = "start" /\ f = NoOne /\ newRows = [rows EXCEPT ![i] = n]
    BY <2>2, <1>4
  <2>3. CASE op[i] = "start" /\ f # NoOne /\ newRows = [rows EXCEPT ![f] = u, ![i] = n]
    BY <2>3, <1>4, <1>5
  <2> QED BY <2>1, <2>2, <2>3, <1>7
<1>10. /\ op[i] # "stop" => newHistory = history
       /\ op[i] = "stop" => newHistory = history \union {[session |-> f, at |-> u.ended]}
  BY <1>7
<1> QED BY <1>1, <1>2, <1>3, <1>4, <1>6, <1>8, <1>9, <1>10 DEF u, n

-----------------------------------------------------------------------------
(* Steps that are not a commit leave the durable state. *)

LEMMA DurableStays ==
    ASSUME SessionInv, NEW i \in Invocations, NEW step, step # "done", pc[i] # "done",
           pc' = [pc EXCEPT ![i] = step], rows' = rows, history' = history,
           \A j \in Invocations : j # i => op'[j] = op[j] /\ found'[j] = found[j]
    PROVE  /\ RowsInv' /\ RowsValid' /\ BoundInv' /\ HistoryMatches' /\ ReplacedBeforeStart'
           /\ \A j \in Invocations : j # i => pc'[j] = pc[j]
           /\ pc'[i] = step
<1>1. pc'[i] = step /\ \A j \in Invocations : j # i => pc'[j] = pc[j]
  BY DEF SessionInv, TypeOK, LocalOK
<1>2. RowsInv'
  BY <1>1 DEF SessionInv, RowsInv
<1>3. RowsValid' /\ BoundInv' /\ HistoryMatches'
  BY DEF SessionInv, RowsValid, BoundInv, HistoryMatches
<1>4. ReplacedBeforeStart'
  BY <1>1 DEF SessionInv, ReplacedBeforeStart
<1> QED BY <1>1, <1>2, <1>3, <1>4

LEMMA ReadsStay ==
    ASSUME NEW j \in Invocations, Reads(j), rows' = rows, inScope' = inScope,
           found'[j] = found[j], seen'[j] = seen[j], allowed'[j] = allowed[j]
    PROVE  Reads(j)'
  BY DEF Reads

LEMMA WroteStays ==
    ASSUME NEW j \in Invocations, Wrote(j), rows' = rows, history' = history,
           newRows' = newRows, newHistory' = newHistory,
           pc'[j] = pc[j], op'[j] = op[j], time'[j] = time[j], found'[j] = found[j],
           seen'[j] = seen[j], allowed'[j] = allowed[j]
    PROVE  Wrote(j)'
<1>1. MayWrite(j)' /\ After(j)' = After(j)
  BY DEF Wrote, MayWrite, Stale, After
<1> QED BY <1>1 DEF Wrote

LEMMA ReadPreserves ==
    ASSUME SessionInv, NEW i \in Invocations, NEW o \in Operations, NEW t \in Times, Read(i, o, t)
    PROVE  SessionInv'
<1>1. /\ pc[i] = "idle" /\ pc' = [pc EXCEPT ![i] = "decide"]
      /\ rows' = rows /\ history' = history /\ inScope' = inScope
      /\ shared' = shared \union {i} /\ reserved' = reserved
      /\ newRows' = newRows /\ newHistory' = newHistory
      /\ op' = [op EXCEPT ![i] = o] /\ time' = [time EXCEPT ![i] = t]
      /\ allowed' = [allowed EXCEPT ![i] = inScope]
  BY DEF Read, Goto, durable, draft
<1>2. \/ /\ Active(rows) = {} /\ found' = [found EXCEPT ![i] = NoOne] /\ seen' = seen
      \/ \E s \in Active(rows) :
            found' = [found EXCEPT ![i] = s] /\ seen' = [seen EXCEPT ![i] = rows[s]]
  BY DEF Read
<1>3. TypeOK /\ LocksInv /\ ReadInv /\ WriteInv
  BY DEF SessionInv
<1>4. \A j \in Invocations : j # i =>
        /\ op'[j] = op[j] /\ time'[j] = time[j] /\ allowed'[j] = allowed[j]
        /\ found'[j] = found[j] /\ seen'[j] = seen[j]
  BY <1>1, <1>2, <1>3 DEF TypeOK, LocalOK
<1>5. /\ RowsInv' /\ RowsValid' /\ BoundInv' /\ HistoryMatches' /\ ReplacedBeforeStart'
      /\ pc'[i] = "decide" /\ \A j \in Invocations : j # i => pc'[j] = pc[j]
  BY <1>1, <1>4, DurableStays
<1> HIDE DEF SessionInv
<1>6. TypeOK'
  <2>1. DurableOK' /\ LockOK' /\ DraftOK'
    BY <1>1, <1>3 DEF TypeOK, DurableOK, LockOK, DraftOK
  <2>2. /\ pc' \in [Invocations -> Steps] /\ op' \in [Invocations -> Operations]
        /\ time' \in [Invocations -> Nat] /\ allowed' \in [Invocations -> BOOLEAN]
    BY <1>1, <1>3, TimeAssumption DEF TypeOK, LocalOK, DurableOK, Steps
  <2>3. found' \in [Invocations -> Invocations \union {NoOne}] /\ seen' \in [Invocations -> Row]
    BY <1>2, <1>3 DEF TypeOK, LocalOK, DurableOK, Active
  <2> QED BY <2>1, <2>2, <2>3 DEF TypeOK, LocalOK
<1>7. LocksInv'
  BY <1>1, <1>3, <1>5 DEF LocksInv, InTransaction, Writing
<1>8. ReadInv'
  <2> SUFFICES ASSUME NEW j \in Invocations, j \in shared' PROVE Reads(j)'
    BY DEF ReadInv
  <2>1. CASE j # i
    BY <2>1, <1>1, <1>3, <1>4, ReadsStay DEF ReadInv
  <2>2. CASE j = i
    <3>1. allowed'[i] = inScope'
      BY <1>1, <1>3 DEF TypeOK, LocalOK
    <3>2. CASE Active(rows) = {} /\ found' = [found EXCEPT ![i] = NoOne]
      BY <3>1, <3>2, <2>2, <1>1, <1>3 DEF TypeOK, LocalOK, Active, Reads
    <3>3. CASE \E s \in Active(rows) :
                  found' = [found EXCEPT ![i] = s] /\ seen' = [seen EXCEPT ![i] = rows[s]]
      BY <3>1, <3>3, <2>2, <1>1, <1>3, NameAssumption DEF TypeOK, LocalOK, Active, Reads
    <3> QED BY <3>2, <3>3, <1>2
  <2> QED BY <2>1, <2>2
<1>9. WriteInv'
  BY <1>1, <1>3, <1>4, <1>5, WroteStays DEF WriteInv, Writing
<1> QED BY <1>5, <1>6, <1>7, <1>8, <1>9 DEF SessionInv

\* A transaction that ends without a commit.
LEMMA EndPreserves ==
    ASSUME SessionInv, NEW i \in Invocations, pc[i] \in InTransaction,
           NEW step \in {"answered", "failed"}, Release(i), Goto(i, step),
           UNCHANGED <<durable, draft, local>>
    PROVE  SessionInv'
<1>1. /\ pc' = [pc EXCEPT ![i] = step] /\ step # "done" /\ pc[i] # "done"
      /\ rows' = rows /\ history' = history /\ inScope' = inScope
      /\ shared' = shared \ {i}
      /\ reserved' = IF reserved = i THEN NoOne ELSE reserved
      /\ newRows' = newRows /\ newHistory' = newHistory
      /\ op' = op /\ time' = time /\ allowed' = allowed /\ found' = found /\ seen' = seen
  BY DEF Release, Goto, durable, draft, local, InTransaction
<1>2. TypeOK /\ LocksInv /\ ReadInv /\ WriteInv
  BY DEF SessionInv
<1>3. /\ RowsInv' /\ RowsValid' /\ BoundInv' /\ HistoryMatches' /\ ReplacedBeforeStart'
      /\ pc'[i] = step /\ \A j \in Invocations : j # i => pc'[j] = pc[j]
  BY <1>1, DurableStays
<1> HIDE DEF SessionInv
<1>4. TypeOK'
  BY <1>1, <1>2 DEF TypeOK, DurableOK, LockOK, DraftOK, LocalOK, Steps
<1>5. LocksInv'
  BY <1>1, <1>2, <1>3, NameAssumption DEF LocksInv, InTransaction, Writing
<1>6. ReadInv'
  BY <1>1, <1>2, ReadsStay DEF ReadInv
<1>7. WriteInv'
  BY <1>1, <1>2, <1>3, WroteStays DEF WriteInv, Writing
<1> QED BY <1>3, <1>4, <1>5, <1>6, <1>7 DEF SessionInv

\* A write changes the draft only.
LEMMA WritePreserves ==
    ASSUME SessionInv, NEW i \in Invocations, pc[i] \in InTransaction,
           NEW step \in Writing, Goto(i, step),
           reserved' = i, pc[i] \in Writing \/ reserved \in {NoOne, i},
           UNCHANGED <<durable, shared, local>>,
           DraftOK', Wrote(i)'
    PROVE  SessionInv'
<1>1. /\ pc' = [pc EXCEPT ![i] = step] /\ step # "done" /\ pc[i] # "done"
      /\ rows' = rows /\ history' = history /\ inScope' = inScope
      /\ shared' = shared
      /\ op' = op /\ time' = time /\ allowed' = allowed /\ found' = found /\ seen' = seen
  BY DEF Goto, durable, local, InTransaction, Writing
<1>2. TypeOK /\ LocksInv /\ ReadInv /\ WriteInv
  BY DEF SessionInv
<1>3. /\ RowsInv' /\ RowsValid' /\ BoundInv' /\ HistoryMatches' /\ ReplacedBeforeStart'
      /\ pc'[i] = step /\ \A j \in Invocations : j # i => pc'[j] = pc[j]
  BY <1>1, DurableStays
<1> HIDE DEF SessionInv
<1>4. TypeOK'
  BY <1>1, <1>2 DEF TypeOK, DurableOK, LockOK, LocalOK, Steps, Writing
<1>5. \A j \in Invocations : j # i => pc[j] \notin Writing
  BY <1>2, NameAssumption DEF LocksInv
<1>6. LocksInv'
  BY <1>1, <1>2, <1>3, <1>5 DEF LocksInv, InTransaction, Writing
<1>7. ReadInv'
  BY <1>1, <1>2, ReadsStay DEF ReadInv
<1>8. WriteInv'
  BY <1>3, <1>5 DEF WriteInv
<1> QED BY <1>3, <1>4, <1>6, <1>7, <1>8 DEF SessionInv

LEMMA UpdatePreserves ==
    ASSUME SessionInv, NEW i \in Invocations, Update(i)
    PROVE  SessionInv'
<1>1. /\ pc[i] = "decide" /\ MayWrite(i) /\ found[i] # NoOne
      /\ reserved' = i /\ reserved \in {NoOne, i}
      /\ newRows' = [rows EXCEPT ![found[i]] = Updated(op[i], found[i], seen[i], time[i])]
      /\ newHistory' = history /\ UNCHANGED <<durable, shared, local>>
  BY DEF Update, Reserve
<1>2. TypeOK /\ LocksInv /\ ReadInv
  BY DEF SessionInv
<1>3. i \in shared /\ pc[i] \in InTransaction
  BY <1>1, <1>2 DEF LocksInv, InTransaction
<1>4. /\ found[i] \in Invocations /\ seen[i] = rows[found[i]] /\ After(i) \in Row
      /\ op[i] \in {"activity", "stop", "interrupt", "start", "recover"}
  BY <1>1, <1>3, AfterEffect
<1> HIDE DEF SessionInv
<1>5. newRows' = [rows EXCEPT ![found[i]] = After(i)]
  BY <1>1, <1>4 DEF After
<1>6. DraftOK'
  BY <1>1, <1>2, <1>4, <1>5 DEF TypeOK, DraftOK, DurableOK
<1> DEFINE step == CASE op[i] = "start" -> "create" [] op[i] = "stop" -> "event" [] OTHER -> "commit"
<1>7. /\ step \in Writing /\ Goto(i, step)
      /\ op[i] = "start" => step = "create"
      /\ op[i] = "stop" => step = "event"
      /\ op[i] \notin {"start", "stop"} => step = "commit"
  BY DEF Update, Writing
<1>8. pc'[i] = step
  BY <1>2, <1>7 DEF Goto, TypeOK, LocalOK
<1> HIDE DEF step
<1>9. MayWrite(i)' /\ After(i)' = After(i)
  BY <1>1 DEF MayWrite, Stale, After, durable, local
<1>10. Wrote(i)'
  BY <1>1, <1>4, <1>5, <1>7, <1>8, <1>9 DEF Wrote, durable, local
<1> QED BY <1>1, <1>3, <1>6, <1>7, <1>10, WritePreserves

LEMMA CreatePreserves ==
    ASSUME SessionInv, NEW i \in Invocations, Create(i)
    PROVE  SessionInv'
<1>1. /\ reserved' = i /\ reserved \in {NoOne, i} /\ Goto(i, "commit")
      /\ UNCHANGED <<durable, shared, local>>
  BY DEF Create, Reserve
<1>2. TypeOK /\ LocksInv /\ ReadInv /\ WriteInv
  BY DEF SessionInv
<1>3. pc'[i] = "commit"
  BY <1>1, <1>2 DEF Goto, TypeOK, LocalOK
<1>4. NewSession(time[i]) \in Row
  BY <1>2, FixedRows DEF TypeOK, LocalOK
<1>5. CASE /\ pc[i] = "decide" /\ MayWrite(i) /\ op[i] = "start" /\ found[i] = NoOne
           /\ newRows' = [rows EXCEPT ![i] = NewSession(time[i])] /\ newHistory' = history
  <2>1. DraftOK'
    BY <1>2, <1>4, <1>5 DEF TypeOK, DraftOK, DurableOK
  <2>2. MayWrite(i)'
    BY <1>1, <1>5 DEF MayWrite, Stale, durable, local
  <2>3. Wrote(i)'
    BY <1>1, <1>3, <1>5, <2>2 DEF Wrote, durable, local
  <2> QED BY <1>1, <1>5, <2>1, <2>3, WritePreserves DEF InTransaction, Writing
<1>6. CASE /\ pc[i] = "create"
           /\ newRows' = [newRows EXCEPT ![i] = NewSession(time[i])] /\ newHistory' = newHistory
  <2>1. /\ MayWrite(i) /\ op[i] = "start" /\ found[i] # NoOne
        /\ newRows = [rows EXCEPT ![found[i]] = After(i)] /\ newHistory = history
    BY <1>2, <1>6 DEF WriteInv, Writing, Wrote
  <2>2. DraftOK'
    BY <1>2, <1>4, <1>6 DEF TypeOK, DraftOK
  <2>3. MayWrite(i)' /\ After(i)' = After(i)
    BY <1>1, <2>1 DEF MayWrite, Stale, After, durable, local
  <2>4. newRows' = [rows EXCEPT ![found[i]] = After(i), ![i] = NewSession(time[i])]
    BY <1>6, <2>1
  <2>5. Wrote(i)'
    BY <1>1, <1>3, <1>6, <2>1, <2>3, <2>4 DEF Wrote, durable, local
  <2> QED BY <1>1, <1>6, <2>2, <2>5, WritePreserves DEF InTransaction, Writing
<1> QED BY <1>5, <1>6 DEF Create

LEMMA RecordEventPreserves ==
    ASSUME SessionInv, NEW i \in Invocations, RecordEvent(i)
    PROVE  SessionInv'
<1>1. /\ pc[i] = "event" /\ Goto(i, "commit")
      /\ newHistory' = newHistory \union {[session |-> found[i], at |-> newRows[found[i]].ended]}
      /\ UNCHANGED <<durable, locks, newRows, local>>
  BY DEF RecordEvent
<1>2. TypeOK /\ LocksInv /\ WriteInv
  BY DEF SessionInv
<1>3. pc'[i] = "commit" /\ reserved' = i
  BY <1>1, <1>2 DEF Goto, TypeOK, LocalOK, LocksInv, Writing, locks
<1>4. /\ MayWrite(i) /\ op[i] = "stop" /\ newHistory = history
      /\ newRows = [rows EXCEPT ![found[i]] = After(i)]
  BY <1>1, <1>2 DEF WriteInv, Writing, Wrote
<1>5. i \in shared /\ found[i] # NoOne
  BY <1>1, <1>2, <1>4 DEF LocksInv, InTransaction, MayWrite
<1>6. found[i] \in Invocations /\ After(i) \in Row
  BY <1>4, <1>5, AfterEffect
<1> HIDE DEF SessionInv
<1>7. newRows[found[i]] = After(i) /\ After(i).ended \in Nat
  BY <1>2, <1>4, <1>6 DEF TypeOK, DurableOK, Row
<1>8. DraftOK'
  BY <1>1, <1>2, <1>6, <1>7 DEF TypeOK, DraftOK, Event
<1>9. MayWrite(i)' /\ After(i)' = After(i)
  BY <1>1, <1>4 DEF MayWrite, Stale, After, durable, local
<1>10. Wrote(i)'
  BY <1>1, <1>3, <1>4, <1>7, <1>9 DEF Wrote, durable, local
<1> QED BY <1>1, <1>3, <1>8, <1>10, WritePreserves DEF InTransaction, Writing, locks

LEMMA ChangeScopePreserves ==
    ASSUME SessionInv, ChangeScope
    PROVE  SessionInv'
<1>1. /\ shared = {} /\ inScope' = ~inScope
      /\ UNCHANGED <<rows, history, locks, draft, pc, local>>
  BY DEF ChangeScope
<1>2. TypeOK'
  BY <1>1 DEF SessionInv, TypeOK, DurableOK, LockOK, DraftOK, LocalOK, locks, draft, local
<1>3. LocksInv' /\ RowsInv' /\ ReadInv'
  BY <1>1 DEF SessionInv, LocksInv, RowsInv, ReadInv, locks
<1>4. WriteInv'
  BY <1>1 DEF SessionInv, LocksInv, WriteInv, InTransaction, Writing
<1>5. RowsValid' /\ BoundInv' /\ HistoryMatches' /\ ReplacedBeforeStart'
  BY <1>1 DEF SessionInv, RowsValid, BoundInv, HistoryMatches, ReplacedBeforeStart, local
<1> QED BY <1>2, <1>3, <1>4, <1>5 DEF SessionInv

LEMMA StutterPreserves ==
    ASSUME SessionInv, UNCHANGED vars
    PROVE  SessionInv'
<1>1. /\ UNCHANGED <<rows, history, inScope, shared, reserved, newRows, newHistory>>
      /\ UNCHANGED <<pc, op, time, found, seen, allowed>>
  BY DEF vars, durable, locks, draft, local
<1>2. TypeOK' /\ LocksInv' /\ RowsInv' /\ ReadInv'
  BY <1>1, ReadsStay DEF SessionInv, TypeOK, DurableOK, LockOK, DraftOK, LocalOK, LocksInv, RowsInv, ReadInv
<1>3. WriteInv'
  BY <1>1, WroteStays DEF SessionInv, WriteInv
<1>4. RowsValid' /\ BoundInv' /\ HistoryMatches' /\ ReplacedBeforeStart'
  BY <1>1 DEF SessionInv, RowsValid, BoundInv, HistoryMatches, ReplacedBeforeStart
<1> QED BY <1>2, <1>3, <1>4 DEF SessionInv

-----------------------------------------------------------------------------
(* A commit. *)

\* CommitEffect together with what the written rows are.
LEMMA CommittedRows ==
    ASSUME SessionInv, NEW i \in Invocations, Commit(i)
    PROVE  LET f == found[i] IN
           /\ \A s \in Invocations : s # i /\ s # f => rows'[s] = rows[s]
           /\ f # NoOne =>
                /\ f \in Invocations /\ f # i /\ rows[f] \in Row /\ rows[f].status = "active"
                /\ Valid(rows'[f]) /\ Earned(f, rows[f], rows'[f])
                /\ op[i] = "activity" =>
                    rows'[f].status = "active" /\ rows'[f].count = rows[f].count + 1
                /\ op[i] # "activity" =>
                    /\ rows'[f].status \in {"completed", "interrupted", "recovered"}
                    /\ rows'[f].count = rows[f].count
                /\ op[i] = "stop" <=> rows'[f].status = "completed"
                /\ op[i] = "start" =>
                    rows'[f].status = "recovered" /\ rows'[f].ended < time[i]
           /\ f = NoOne => \A s \in Invocations : rows[s].status # "active"
           /\ rows[i].status = "none"
           /\ op[i] # "start" => rows'[i] = rows[i] /\ f # NoOne
           /\ op[i] = "start" =>
                /\ rows'[i].status = "active" /\ rows'[i].active = 0 /\ rows'[i].count = 0
                /\ rows'[i].started = time[i] /\ Valid(rows'[i]) /\ inScope
           /\ op[i] # "stop" => history' = history
           /\ op[i] = "stop" => history' = history \union {[session |-> f, at |-> rows'[f].ended]}
<1>1. i \in shared /\ MayWrite(i)
  BY CommitEffect
<1>2. time[i] \in Nat
  BY DEF SessionInv, TypeOK, LocalOK
<1>3. found[i] = NoOne => \A s \in Invocations : rows[s].status # "active"
  BY <1>1 DEF SessionInv, ReadInv, Reads
<1> HIDE DEF SessionInv
<1>4. found[i] # NoOne => rows'[found[i]] = After(i)
  BY CommitEffect
<1>5. op[i] = "start" =>
        /\ rows'[i].status = "active" /\ rows'[i].active = 0 /\ rows'[i].count = 0
        /\ rows'[i].started = time[i] /\ Valid(rows'[i]) /\ inScope
  BY <1>2, CommitEffect, FixedRows
<1>6. ASSUME found[i] # NoOne
      PROVE  LET f == found[i] IN
             /\ f \in Invocations /\ f # i /\ rows[f] \in Row /\ rows[f].status = "active"
             /\ Valid(rows'[f]) /\ Earned(f, rows[f], rows'[f])
             /\ op[i] = "activity" =>
                 rows'[f].status = "active" /\ rows'[f].count = rows[f].count + 1
             /\ op[i] # "activity" =>
                 /\ rows'[f].status \in {"completed", "interrupted", "recovered"}
                 /\ rows'[f].count = rows[f].count
             /\ op[i] = "stop" <=> rows'[f].status = "completed"
             /\ op[i] = "start" =>
                 rows'[f].status = "recovered" /\ rows'[f].ended < time[i]
  BY <1>1, <1>4, <1>6, AfterEffect
<1>7. op[i] = "stop" => history' = history \union {[session |-> found[i], at |-> rows'[found[i]].ended]}
  BY <1>4, CommitEffect
<1> QED BY <1>3, <1>5, <1>6, <1>7, CommitEffect

LEMMA CommitPreserves ==
    ASSUME SessionInv, NEW i \in Invocations, Commit(i)
    PROVE  SessionInv'
<1>1. /\ pc[i] = "commit" /\ shared = {i} /\ rows' = newRows /\ history' = newHistory
      /\ shared' = shared \ {i} /\ reserved' = IF reserved = i THEN NoOne ELSE reserved
      /\ pc' = [pc EXCEPT ![i] = "done"] /\ inScope' = inScope
      /\ newRows' = newRows /\ newHistory' = newHistory
      /\ op' = op /\ time' = time /\ allowed' = allowed /\ found' = found /\ seen' = seen
  BY DEF Commit, Release, Goto, draft, local
<1>2. TypeOK /\ LocksInv /\ RowsInv /\ RowsValid /\ BoundInv /\ HistoryMatches /\ ReplacedBeforeStart
  BY DEF SessionInv
<1>3. pc'[i] = "done" /\ \A j \in Invocations : j # i => pc'[j] = pc[j]
  BY <1>1, <1>2 DEF TypeOK, LocalOK
<1> DEFINE f == found[i]
<1> HIDE DEF SessionInv
<1>4. TypeOK'
  BY <1>1, <1>2 DEF TypeOK, DurableOK, LockOK, DraftOK, LocalOK, Steps
<1>5. LocksInv'
  BY <1>1, <1>2, <1>3, NameAssumption DEF LocksInv, InTransaction, Writing
<1>6. ReadInv'
  BY <1>1 DEF ReadInv
<1>7. WriteInv'
  BY <1>1, <1>2, <1>3 DEF WriteInv, LocksInv, InTransaction, Writing
<1>8. \A s \in Invocations : rows'[s].status = "active" =>
        IF op[i] = "start" THEN s = i ELSE s = f
  <2> SUFFICES ASSUME NEW s \in Invocations, rows'[s].status = "active"
               PROVE  IF op[i] = "start" THEN s = i ELSE s = f
    OBVIOUS
  <2>1. /\ s # i /\ s # f => rows[s].status = "active"
        /\ f # NoOne => f \in Invocations /\ rows[f].status = "active"
        /\ f = NoOne => rows[s].status # "active"
    BY CommittedRows
  <2>2. s = i \/ s = f
    BY <2>1, <1>2, NameAssumption DEF RowsInv
  <2>3. op[i] = "start" => s # f
    BY CommittedRows, NameAssumption
  <2>4. op[i] # "start" => s # i
    BY CommittedRows
  <2> QED BY <2>2, <2>3, <2>4
<1>9. RowsInv'
  <2>1. \A s \in Invocations : rows'[s].status # "none" => pc'[s] = "done"
    <3> SUFFICES ASSUME NEW s \in Invocations, rows'[s].status # "none" PROVE pc'[s] = "done"
      OBVIOUS
    <3>1. s # i /\ s # f => rows'[s] = rows[s]
      BY CommittedRows
    <3>2. s = f => rows[s].status = "active"
      BY CommittedRows, NameAssumption
    <3> QED BY <3>1, <3>2, <1>2, <1>3 DEF RowsInv
  <2> QED BY <1>8, <2>1 DEF RowsInv
<1>10. RowsValid'
  <2> SUFFICES ASSUME NEW s \in Invocations PROVE Valid(rows'[s])
    BY DEF RowsValid
  <2>1. CASE s # i /\ s # f
    BY <2>1, <1>2, CommittedRows DEF RowsValid
  <2>2. CASE s = i
    BY <2>2, <1>2, CommittedRows DEF RowsValid
  <2>3. CASE s = f
    BY <2>3, <1>2, CommittedRows, NameAssumption
  <2> QED BY <2>1, <2>2, <2>3
<1>11. BoundInv'
  <2> SUFFICES ASSUME NEW s \in Invocations
               PROVE  /\ rows'[s].status = "none" => rows'[s].active = 0
                      /\ rows'[s].status = "active" => rows'[s].active <= IdleOf[s] * rows'[s].count
                      /\ rows'[s].active <= IdleOf[s] * (rows'[s].count + 1)
    BY DEF BoundInv
  <2>1. CASE rows'[s] = rows[s]
    BY <2>1, <1>2 DEF BoundInv
  <2>2. CASE s = i /\ op[i] = "start"
    <3>1. IdleOf[s] \in Nat /\ rows'[s].status = "active" /\ rows'[s].active = 0 /\ rows'[s].count = 0
      BY <2>2, IdleAssumption, CommittedRows
    <3> QED BY <3>1
  <2>3. CASE s = f /\ f # NoOne
    <3>1. /\ rows[s] \in Row /\ rows[s].status = "active" /\ Earned(s, rows[s], rows'[s])
          /\ op[i] = "activity" => rows'[s].count = rows[s].count + 1
          /\ op[i] # "activity" => rows'[s].status # "active" /\ rows'[s].count = rows[s].count
          /\ rows'[s].status # "none"
      BY <2>3, CommittedRows
    <3>2. PICK d \in 0..IdleOf[s] : rows'[s].active = rows[s].active + d
      BY <3>1 DEF Earned
    <3>3. rows[s].active <= IdleOf[s] * rows[s].count
      BY <3>1, <1>2 DEF BoundInv
    <3>4. IdleOf[s] \in Nat /\ rows[s].active \in Nat /\ rows[s].count \in Nat
      BY <3>1, IdleAssumption DEF Row
    <3>5. \A x, n \in Nat : x * (n + 1) = x * n + x /\ x * n \in Nat /\ x * (n + 1) \in Nat
      OBVIOUS
    <3>6. rows'[s].active <= IdleOf[s] * (rows[s].count + 1)
      BY <3>2, <3>3, <3>4, <3>5
    <3>7. CASE op[i] = "activity"
      <4>1. rows'[s].count \in Nat /\ rows'[s].active \in Nat
        BY <3>1, <3>2, <3>4, <3>7
      <4>2. IdleOf[s] * (rows'[s].count + 1) = IdleOf[s] * rows'[s].count + IdleOf[s]
        BY <4>1, <3>4, <3>5
      <4>3. IdleOf[s] * rows'[s].count \in Nat /\ rows'[s].active <= IdleOf[s] * rows'[s].count
        BY <4>1, <3>1, <3>4, <3>5, <3>6, <3>7
      <4> QED BY <4>1, <4>2, <4>3, <3>1, <3>4
    <3>8. CASE op[i] # "activity"
      BY <3>1, <3>6, <3>8
    <3> QED BY <3>7, <3>8
  <2> QED BY <2>1, <2>2, <2>3, CommittedRows, NameAssumption
<1>12. HistoryMatches'
  <2> DEFINE C == {x \in Invocations : rows[x].status = "completed"}
             D == {x \in Invocations : rows'[x].status = "completed"}
  <2>1. history = {[session |-> s, at |-> rows[s].ended] : s \in C}
    BY <1>2 DEF HistoryMatches
  <2>2. CASE op[i] # "stop"
    <3>1. f # NoOne => rows[f].status # "completed" /\ rows'[f].status # "completed"
      BY <2>2, CommittedRows
    <3>2. rows[i].status # "completed" /\ rows'[i].status # "completed"
      BY CommittedRows
    <3>3. \A s \in Invocations : s # i /\ s # f => rows'[s] = rows[s]
      BY CommittedRows
    <3>4. D = C /\ \A s \in C : rows'[s] = rows[s]
      BY <3>1, <3>2, <3>3, NameAssumption
    <3>5. history' = history
      BY <2>2, CommittedRows
    <3>6. history' = {[session |-> s, at |-> rows'[s].ended] : s \in D}
      BY <3>4, <3>5, <2>1
    <3> QED BY <3>6 DEF HistoryMatches
  <2>3. CASE op[i] = "stop"
    <3>1. f \in Invocations /\ f \notin C /\ D = C \union {f} /\ \A s \in C : rows'[s] = rows[s]
      BY <2>3, CommittedRows
    <3>2. history' = history \union {[session |-> f, at |-> rows'[f].ended]}
      BY <2>3, CommittedRows
    <3> HIDE DEF C, D, f
    <3>3. history' = {[session |-> s, at |-> rows'[s].ended] : s \in D}
      BY <3>1, <3>2, <2>1
    <3> QED BY <3>3 DEF HistoryMatches, D
  <2> QED BY <2>2, <2>3
<1>13. ReplacedBeforeStart'
  <2> SUFFICES ASSUME NEW j \in Invocations, op[j] = "start", pc'[j] = "done", found[j] # NoOne
               PROVE  rows'[found[j]].status = "recovered" /\ rows'[found[j]].ended < rows'[j].started
    BY <1>1 DEF ReplacedBeforeStart
  <2>1. CASE j = i
    BY <2>1, CommittedRows
  <2>2. CASE j # i
    <3>1. /\ pc[j] = "done" /\ rows[found[j]].status = "recovered"
          /\ rows[found[j]].ended < rows[j].started
      BY <2>2, <1>2, <1>3 DEF ReplacedBeforeStart
    <3>2. found[j] \in Invocations
      BY <1>2 DEF TypeOK, LocalOK
    <3>3. rows'[found[j]] = rows[found[j]]
      BY <3>1, <3>2, CommittedRows
    <3>4. rows'[j].started = rows[j].started
      <4>1. j # f => rows'[j] = rows[j]
        BY <2>2, CommittedRows
      <4>2. j = f => rows'[j].started = rows[j].started
        BY CommitEffect, AfterEffect, NameAssumption
      <4> QED BY <4>1, <4>2
    <3> QED BY <3>1, <3>3, <3>4
  <2> QED BY <2>1, <2>2
<1> QED BY <1>4, <1>5, <1>6, <1>7, <1>9, <1>10, <1>11, <1>12, <1>13 DEF SessionInv

-----------------------------------------------------------------------------
(* The theorems. *)

LEMMA SessionStep == SessionInv /\ [Next]_vars => SessionInv'
<1> SUFFICES ASSUME SessionInv, [Next]_vars PROVE SessionInv'
  OBVIOUS
<1>1. \A i \in Invocations : pc[i] \in InTransaction => i \in shared
  BY DEF SessionInv, LocksInv
<1> HIDE DEF SessionInv
<1>2. CASE \E i \in Invocations, o \in Operations, t \in Times : Read(i, o, t)
  BY <1>2, ReadPreserves
<1>3. CASE \E i \in Invocations : Answer(i)
  <2>1. PICK i \in Invocations : Answer(i)
    BY <1>3
  <2>2. /\ pc[i] \in InTransaction /\ Release(i) /\ Goto(i, "answered")
        /\ UNCHANGED <<durable, draft, local>>
    BY <2>1 DEF Answer, InTransaction
  <2> QED BY <2>2, EndPreserves
<1>4. CASE \E i \in Invocations : Update(i)
  BY <1>4, UpdatePreserves
<1>5. CASE \E i \in Invocations : Create(i)
  BY <1>5, CreatePreserves
<1>6. CASE \E i \in Invocations : RecordEvent(i)
  BY <1>6, RecordEventPreserves
<1>7. CASE \E i \in Invocations : Commit(i)
  BY <1>7, CommitPreserves
<1>8. CASE \E i \in Invocations : Busy(i) \/ Fail(i)
  <2>1. PICK i \in Invocations : Busy(i) \/ Fail(i)
    BY <1>8
  <2>2. /\ pc[i] \in InTransaction /\ Release(i) /\ Goto(i, "failed")
        /\ UNCHANGED <<durable, draft, local>>
    BY <2>1 DEF Busy, Fail, Rollback, InTransaction
  <2> QED BY <2>2, EndPreserves
<1>9. CASE ChangeScope
  BY <1>9, ChangeScopePreserves
<1>10. CASE UNCHANGED vars
  BY <1>10, StutterPreserves
<1> QED BY <1>2, <1>3, <1>4, <1>5, <1>6, <1>7, <1>8, <1>9, <1>10 DEF Next, Step

THEOREM SessionInvariant == Spec => []SessionInv
<1> QED BY SessionInit, SessionStep, PTL DEF Spec

\* Every variable keeps its type; no duration or time is negative.
THEOREM TypeCorrect == Spec => []TypeOK
<1>1. SessionInv => TypeOK
  BY DEF SessionInv
<1> QED BY <1>1, SessionInvariant, PTL

\* Every stored row can be read again, whatever the clocks show.
THEOREM RowsStayReadable == Spec => []RowsValid
<1>1. SessionInv => RowsValid
  BY DEF SessionInv
<1> QED BY <1>1, SessionInvariant, PTL

\* A session counts at most one idle window per activity and one for its end.
THEOREM StudyStaysBounded == Spec => []StudyIsBounded
<1>1. SessionInv => StudyIsBounded
  BY DEF SessionInv, BoundInv, StudyIsBounded
<1> QED BY <1>1, SessionInvariant, PTL

\* The learner's history tells of exactly the completed sessions.
THEOREM HistoryIsExact == Spec => []HistoryMatches
<1>1. SessionInv => HistoryMatches
  BY DEF SessionInv
<1> QED BY <1>1, SessionInvariant, PTL

\* A replaced session ended before its successor began.
THEOREM ReplacementFollows == Spec => []ReplacedBeforeStart
<1>1. SessionInv => ReplacedBeforeStart
  BY DEF SessionInv
<1> QED BY <1>1, SessionInvariant, PTL

\* Only a commit changes the durable rows.
LEMMA OnlyCommitsWrite ==
    ASSUME [Next]_vars
    PROVE  (rows' = rows /\ history' = history) \/ \E i \in Invocations : Commit(i)
BY DEF Next, Step, Read, Answer, Update, Create, RecordEvent, Busy, Fail, Rollback, ChangeScope,
       vars, durable

\* A closed session never changes again.
THEOREM ClosedIsFinal == Spec => ClosedStays
<1>1. ASSUME SessionInv, [Next]_vars
      PROVE  \A s \in Invocations : rows[s].status \notin {"none", "active"} => rows'[s] = rows[s]
  <2>1. CASE rows' = rows
    BY <2>1
  <2>2. CASE \E i \in Invocations : Commit(i)
    <3>1. PICK i \in Invocations : Commit(i)
      BY <2>2
    <3>2. rows[i].status = "none" /\ (found[i] # NoOne => rows[found[i]].status = "active")
      BY <1>1, <3>1, CommittedRows
    <3>3. \A s \in Invocations : s # i /\ s # found[i] => rows'[s] = rows[s]
      BY <1>1, <3>1, CommittedRows
    <3> QED BY <3>2, <3>3, NameAssumption
  <2> QED BY <1>1, <2>1, <2>2, OnlyCommitsWrite
<1> QED BY <1>1, SessionInvariant, PTL DEF Spec, ClosedStays

\* A session begins only while its scope is active.
THEOREM ScopeHolds == Spec => BeginsInScope
<1>1. ASSUME SessionInv, [Next]_vars
      PROVE  \A s \in Invocations :
                rows[s].status = "none" /\ rows'[s].status # "none" => inScope
  <2>1. CASE rows' = rows
    BY <2>1
  <2>2. CASE \E i \in Invocations : Commit(i)
    <3>1. PICK i \in Invocations : Commit(i)
      BY <2>2
    <3>2. found[i] # NoOne => rows[found[i]].status = "active"
      BY <1>1, <3>1, CommittedRows
    <3>3. \A s \in Invocations : s # i /\ s # found[i] => rows'[s] = rows[s]
      BY <1>1, <3>1, CommittedRows
    <3>4. op[i] = "start" => inScope
      BY <1>1, <3>1, CommittedRows
    <3>5. op[i] # "start" => rows'[i] = rows[i]
      BY <1>1, <3>1, CommittedRows
    <3> QED BY <3>2, <3>3, <3>4, <3>5, NameAssumption
  <2> QED BY <1>1, <2>1, <2>2, OnlyCommitsWrite
<1> QED BY <1>1, SessionInvariant, PTL DEF Spec, BeginsInScope

-----------------------------------------------------------------------------
(* The lifecycle implements the log. *)

LogState(r) ==
    [s \in Invocations |->
        IF r[s].status = "none" THEN "unused" ELSE IF r[s].status = "active" THEN "open" ELSE "closed"]
Studied(r) == [s \in Invocations |-> r[s].active]
Told(h) == {e.session : e \in h}

LEMMA CommitIsALogStep ==
    ASSUME SessionInv, NEW i \in Invocations, Commit(i)
    PROVE  Log!Next
<1> DEFINE f == found[i]
<1>1. /\ rows[i].status = "none"
      /\ \A s \in Invocations : s # i /\ s # f => rows'[s] = rows[s]
      /\ op[i] # "start" => rows'[i] = rows[i] /\ f # NoOne
      /\ op[i] = "start" => rows'[i].status = "active" /\ rows'[i].active = 0
  BY CommittedRows
<1>2. f = NoOne => \A s \in Invocations : rows[s].status # "active"
  BY CommittedRows
<1>3. f # NoOne =>
        /\ f \in Invocations /\ f # i /\ rows[f].status = "active" /\ Earned(f, rows[f], rows'[f])
        /\ op[i] = "activity" => rows'[f].status = "active"
        /\ op[i] # "activity" => rows'[f].status \in {"completed", "interrupted", "recovered"}
  BY CommittedRows
<1>4. rows[i].active = 0
  BY <1>1 DEF SessionInv, BoundInv
<1> HIDE DEF SessionInv
<1>5. /\ op[i] # "stop" => Told(history') = Told(history)
      /\ op[i] = "stop" => Told(history') = Told(history) \union {f}
  <2>1. CASE op[i] # "stop"
    BY <2>1, CommittedRows
  <2>2. CASE op[i] = "stop"
    <3>1. history' = history \union {[session |-> f, at |-> rows'[f].ended]}
      BY <2>2, CommittedRows
    <3> HIDE DEF f
    <3>2. [session |-> f, at |-> rows'[f].ended].session = f
      OBVIOUS
    <3>3. Told(history') = Told(history) \union {f}
      BY <3>1, <3>2 DEF Told
    <3> QED BY <2>2, <3>3
  <2> QED BY <2>1, <2>2
<1>6. CASE op[i] = "start" /\ f = NoOne
  <2>1. LogState(rows') = [LogState(rows) EXCEPT ![i] = "open"]
    BY <1>1, <1>6, NameAssumption DEF LogState
  <2>2. Studied(rows') = Studied(rows)
    BY <1>1, <1>4, <1>6, NameAssumption DEF Studied
  <2>3. LogState(rows)[i] = "unused" /\ \A r \in Invocations : LogState(rows)[r] # "open"
    BY <1>1, <1>2, <1>6 DEF LogState
  <2>4. Log!Open(i)
    BY <1>5, <1>6, <2>1, <2>2, <2>3 DEF Log!Open, LogState, Studied, Told
  <2> QED BY <2>4 DEF Log!Next
<1>7. CASE f # NoOne
  <2>1. PICK g \in Invocations : g = f
    BY <1>3, <1>7
  <2>2. /\ g # i /\ rows[i].status = "none" /\ rows[i].active = 0
        /\ \A s \in Invocations : s # i /\ s # g => rows'[s] = rows[s]
        /\ op[i] # "start" => rows'[i] = rows[i]
        /\ op[i] = "start" => rows'[i].status = "active" /\ rows'[i].active = 0
    BY <1>1, <1>3, <1>4, <1>7, <2>1
  <2>3. /\ rows[g].status = "active" /\ Earned(g, rows[g], rows'[g])
        /\ op[i] = "activity" => rows'[g].status = "active"
        /\ op[i] # "activity" => rows'[g].status \in {"completed", "interrupted", "recovered"}
    BY <1>3, <1>7, <2>1
  <2>4. /\ op[i] # "stop" => Told(history') = Told(history)
        /\ Told(history') \in {Told(history), Told(history) \union {g}}
    BY <1>5, <2>1
  <2> HIDE DEF f
  <2>5. PICK d \in 0..IdleOf[g] : rows'[g].active = rows[g].active + d
    BY <2>3 DEF Earned
  <2>6. Studied(rows') = [Studied(rows) EXCEPT ![g] = Studied(rows)[g] + d]
    BY <2>2, <2>5 DEF Studied
  <2>7. Log!Earn(g)
    BY <2>6 DEF Log!Earn, Studied
  <2>8. LogState(rows)[g] = "open" /\ LogState(rows)[i] = "unused"
    BY <2>2, <2>3 DEF LogState
  <2>9. CASE op[i] = "start"
    <3>1. LogState(rows') = [LogState(rows) EXCEPT ![g] = "closed", ![i] = "open"]
      BY <2>2, <2>3, <2>9 DEF LogState
    <3>2. Log!Replace(g, i)
      BY <2>4, <2>7, <2>8, <2>9, <3>1 DEF Log!Replace, LogState, Told
    <3> QED BY <3>2 DEF Log!Next
  <2>10. CASE op[i] = "activity"
    <3>1. LogState(rows') = LogState(rows)
      BY <2>2, <2>3, <2>10 DEF LogState
    <3>2. Log!Study(g)
      BY <2>4, <2>7, <2>8, <2>10, <3>1 DEF Log!Study, LogState, Told
    <3> QED BY <3>2 DEF Log!Next
  <2>11. CASE op[i] \notin {"start", "activity"}
    <3>1. LogState(rows') = [LogState(rows) EXCEPT ![g] = "closed"]
      BY <2>2, <2>3, <2>11 DEF LogState
    <3>2. Log!Close(g)
      BY <2>4, <2>7, <2>8, <3>1 DEF Log!Close, LogState, Told
    <3> QED BY <3>2 DEF Log!Next
  <2> QED BY <2>9, <2>10, <2>11
<1> QED BY <1>1, <1>6, <1>7

LEMMA StepIsALogStep == SessionInv /\ [Next]_vars => [Log!Next]_(Log!vars)
<1> SUFFICES ASSUME SessionInv, [Next]_vars PROVE Log!Next \/ UNCHANGED Log!vars
  OBVIOUS
<1> HIDE DEF SessionInv
<1>1. CASE rows' = rows /\ history' = history
  BY <1>1 DEF Log!vars
<1>2. CASE \E i \in Invocations : Commit(i)
  BY <1>2, CommitIsALogStep
<1> QED BY <1>1, <1>2, OnlyCommitsWrite

\* Sessions behave as the log promises: one open session, study earned in idle
\* windows, closed sessions final.
THEOREM ImplementsTheLog == Spec => ImplementsLog
<1>1. Init => Log!Init
  <2> SUFFICES ASSUME Init PROVE Log!Init
    OBVIOUS
  <2>1. \A s \in Invocations : rows[s] = NoRow
    BY DEF Init
  <2>2. LogState(rows) = [s \in Invocations |-> "unused"]
    BY <2>1, FixedRows DEF LogState
  <2>3. Studied(rows) = [s \in Invocations |-> 0]
    BY <2>1, FixedRows DEF Studied
  <2> QED BY <2>2, <2>3 DEF Log!Init, Init, LogState, Studied
<1> QED BY <1>1, StepIsALogStep, SessionInvariant, PTL DEF Spec, ImplementsLog, Log!Spec

-----------------------------------------------------------------------------
(* No activity is lost or counted twice. *)

Counted(s) == {i \in Invocations : pc[i] = "done" /\ op[i] = "activity" /\ found[i] = s}

\* The counted activities are finitely many, also of endless invocations.
CountInv ==
    \A s \in Invocations :
        /\ rows[s].status = "none" => rows[s].count = 0
        /\ IsFiniteSet(Counted(s)) /\ rows[s].count = Cardinality(Counted(s))

LEMMA CountInit == Init => CountInv
<1> SUFFICES ASSUME Init, NEW s \in Invocations
             PROVE  /\ rows[s].count = 0
                    /\ IsFiniteSet(Counted(s)) /\ Cardinality(Counted(s)) = 0
  BY DEF CountInv
<1>1. rows[s].count = 0
  BY FixedRows DEF Init
<1>2. Counted(s) = {}
  BY DEF Init, Counted
<1> QED BY <1>1, <1>2, FS_EmptySet

\* Nothing but a commit makes an operation done.
LEMMA OnlyCommitsCount ==
    ASSUME SessionInv, [Next]_vars
    PROVE  \/ \E i \in Invocations : Commit(i)
           \/ rows' = rows /\ \A s \in Invocations : Counted(s)' = Counted(s)
<1> DEFINE Others(i) ==
             /\ rows' = rows /\ pc[i] # "done" /\ pc'[i] # "done"
             /\ \A j \in Invocations \ {i} : pc'[j] = pc[j] /\ op'[j] = op[j] /\ found'[j] = found[j]
<1>1. LocalOK
  BY DEF SessionInv, TypeOK
<1> HIDE DEF SessionInv
<1>2. ASSUME NEW i \in Invocations, Others(i)
      PROVE  rows' = rows /\ \A s \in Invocations : Counted(s)' = Counted(s)
  BY <1>2 DEF Counted
<1>3. ASSUME NEW i \in Invocations, NEW o \in Operations, NEW t \in Times, Read(i, o, t)
      PROVE  Others(i)
  BY <1>1, <1>3 DEF Read, Goto, durable, LocalOK
<1>4. ASSUME NEW i \in Invocations, Answer(i) \/ Busy(i) \/ Fail(i)
      PROVE  Others(i)
  BY <1>1, <1>4 DEF Answer, Busy, Fail, Rollback, Goto, durable, local, LocalOK
<1>5. ASSUME NEW i \in Invocations, Update(i) \/ Create(i) \/ RecordEvent(i)
      PROVE  Others(i)
  <2>1. \E step \in {"create", "event", "commit"} : pc' = [pc EXCEPT ![i] = step]
    BY <1>5 DEF Update, Create, RecordEvent, Goto
  <2>2. pc[i] # "done" /\ rows' = rows /\ op' = op /\ found' = found
    BY <1>5 DEF Update, Create, RecordEvent, durable, local
  <2> QED BY <1>1, <2>1, <2>2 DEF LocalOK
<1>6. CASE ChangeScope
  BY <1>6 DEF ChangeScope, Counted, local
<1>7. CASE UNCHANGED vars
  BY <1>7 DEF Counted, vars, durable, local
<1> QED BY <1>2, <1>3, <1>4, <1>5, <1>6, <1>7 DEF Next, Step

LEMMA CommitCounts ==
    ASSUME SessionInv, CountInv, NEW i \in Invocations, Commit(i)
    PROVE  CountInv'
<1>1. /\ pc[i] = "commit" /\ pc' = [pc EXCEPT ![i] = "done"] /\ op' = op /\ found' = found
  BY DEF Commit, Goto, local
<1>2. pc'[i] = "done" /\ \A j \in Invocations : j # i => pc'[j] = pc[j]
  BY <1>1 DEF SessionInv, TypeOK, LocalOK
<1> HIDE DEF SessionInv
<1> SUFFICES ASSUME NEW s \in Invocations
             PROVE  /\ rows'[s].status = "none" => rows'[s].count = 0
                    /\ IsFiniteSet(Counted(s)') /\ rows'[s].count = Cardinality(Counted(s)')
  BY DEF CountInv
<1>3. /\ rows[s].status = "none" => rows[s].count = 0
      /\ IsFiniteSet(Counted(s)) /\ rows[s].count = Cardinality(Counted(s))
  BY DEF CountInv
<1>4. CASE op[i] = "activity" /\ found[i] = s
  <2>1. Counted(s)' = Counted(s) \union {i} /\ i \notin Counted(s)
    BY <1>1, <1>2, <1>4 DEF Counted
  <2>2. rows'[s].count = rows[s].count + 1 /\ rows'[s].status = "active"
    BY <1>4, CommittedRows, NameAssumption
  <2>3. IsFiniteSet(Counted(s)') /\ Cardinality(Counted(s)') = Cardinality(Counted(s)) + 1
    BY <1>3, <2>1, FS_AddElement
  <2> QED BY <1>3, <2>2, <2>3
<1>5. CASE ~(op[i] = "activity" /\ found[i] = s)
  <2>1. Counted(s)' = Counted(s)
    BY <1>1, <1>2, <1>5 DEF Counted
  <2>2. s # i /\ s # found[i] => rows'[s] = rows[s]
    BY CommittedRows
  <2>3. s = found[i] => rows'[s].count = rows[s].count /\ rows'[s].status # "none"
    BY <1>5, CommittedRows, NameAssumption
  <2>4. s = i => rows'[s].count = rows[s].count /\ (rows'[s].status = "none" => rows'[s] = rows[s])
    <3> SUFFICES ASSUME s = i
                 PROVE  rows'[i].count = rows[i].count /\ (rows'[i].status = "none" => rows'[i] = rows[i])
      OBVIOUS
    <3>1. rows[i].status = "none"
      BY CommittedRows
    <3>2. op[i] = "start" => rows'[i].count = 0 /\ rows'[i].status = "active"
      BY CommittedRows
    <3>3. op[i] # "start" => rows'[i] = rows[i]
      BY CommittedRows
    <3> QED BY <1>3, <3>1, <3>2, <3>3
  <2> QED BY <1>3, <2>1, <2>2, <2>3, <2>4
<1> QED BY <1>4, <1>5

\* The count of a session is the number of activities that succeeded on it.
THEOREM ActivitiesStayCounted == Spec => []ActivitiesAreCounted
<1>1. SessionInv /\ CountInv /\ [Next]_vars => CountInv'
  <2> SUFFICES ASSUME SessionInv, CountInv, [Next]_vars PROVE CountInv'
    OBVIOUS
  <2>1. CASE \E i \in Invocations : Commit(i)
    BY <2>1, CommitCounts
  <2>2. CASE rows' = rows /\ \A s \in Invocations : Counted(s)' = Counted(s)
    BY <2>2 DEF CountInv
  <2> QED BY <2>1, <2>2, OnlyCommitsCount
<1>2. CountInv => ActivitiesAreCounted
  BY DEF CountInv, Counted, ActivitiesAreCounted
<1> QED BY <1>1, <1>2, CountInit, SessionInvariant, PTL DEF Spec

-----------------------------------------------------------------------------
(* Waiting.  A step of an operation has no condition on what it assigns, so *)
(* it can be taken exactly when its guards hold: those of Answer, Update,   *)
(* Create, RecordEvent, Commit and Busy, in this order.                     *)

CanStep(i) ==
    \/ pc[i] = "decide" /\ ~MayWrite(i)
    \/ pc[i] = "decide" /\ MayWrite(i) /\ found[i] # NoOne /\ reserved \in {NoOne, i}
    \/ /\ pc[i] = "decide" /\ MayWrite(i) /\ op[i] = "start" /\ found[i] = NoOne
       /\ Active(rows) = {} /\ reserved \in {NoOne, i}
    \/ pc[i] = "create" /\ Active(newRows) = {} /\ reserved \in {NoOne, i}
    \/ pc[i] = "event"
    \/ pc[i] = "commit" /\ shared = {i}
    \/ pc[i] = "decide" /\ MayWrite(i) /\ reserved \notin {NoOne, i}
UnderWay(i) == pc[i] \notin {"idle", "answered", "done", "failed"}
SomeoneCanStep == (\E i \in Invocations : UnderWay(i)) => \E i \in Invocations : CanStep(i)

LEMMA StepNeedsItsGuard == \A i \in Invocations : Step(i) => CanStep(i)
  BY DEF Step, CanStep, Answer, Update, Create, RecordEvent, Commit, Busy, Reserve

LEMMA DecidersCanStep ==
    ASSUME SessionInv, NEW i \in Invocations, pc[i] = "decide"
    PROVE  CanStep(i)
<1>1. i \in shared
  BY DEF SessionInv, LocksInv, InTransaction
<1>2. found[i] = NoOne => Active(rows) = {}
  BY <1>1 DEF SessionInv, ReadInv, Reads, Active
<1>3. MayWrite(i) /\ found[i] = NoOne => op[i] = "start"
  BY DEF MayWrite
<1>4. QED
  BY <1>2, <1>3 DEF CanStep

\* The row of the session that is replaced is closed before the new one is
\* inserted, so the unique index lets it in.
LEMMA CreatorsCanStep ==
    ASSUME SessionInv, NEW i \in Invocations, pc[i] = "create"
    PROVE  CanStep(i)
<1>1. reserved = i /\ i \in shared /\ Wrote(i)
  BY DEF SessionInv, LocksInv, WriteInv, InTransaction, Writing
<1>2. /\ op[i] = "start" /\ found[i] # NoOne /\ MayWrite(i)
      /\ newRows = [rows EXCEPT ![found[i]] = After(i)]
  BY <1>1 DEF Wrote
<1>3. /\ found[i] \in Invocations /\ rows[found[i]].status = "active"
      /\ seen[i] = rows[found[i]]
  BY <1>1, <1>2 DEF SessionInv, ReadInv, Reads
<1>4. rows \in [Invocations -> Row] /\ time[i] \in Nat /\ seen[i] \in Row
  BY DEF SessionInv, TypeOK, DurableOK, LocalOK
<1>5. seen[i].last <= time[i]
  BY <1>2 DEF MayWrite
<1>6. After(i).status = "recovered"
  <2>1. rows[found[i]] \in Row /\ Valid(rows[found[i]])
    BY <1>3, <1>4 DEF SessionInv, RowsValid
  <2>2. rows[found[i]].last <= time[i]
    BY <1>3, <1>5
  <2>3. QED
    BY <1>2, <1>3, <1>4, <2>1, <2>2, UpdatedEffect DEF After
<1>7. \A s \in Invocations : newRows[s].status # "active"
  BY <1>2, <1>3, <1>4, <1>6 DEF SessionInv, RowsInv
<1>8. QED
  BY <1>1, <1>7 DEF CanStep, Active

\* Operations never wait for each other in a circle: while one is under way,
\* the guards of some operation's next step hold.  Whoever a commit waits for
\* reads, and a reader either answers, or writes, or is turned away because of
\* that writer (SQLITE_BUSY without the busy timeout).
THEOREM NobodyWaitsInACircle == Spec => []SomeoneCanStep
<1>1. SessionInv => SomeoneCanStep
  <2> SUFFICES ASSUME SessionInv, NEW i \in Invocations, UnderWay(i)
               PROVE  \E j \in Invocations : CanStep(j)
    BY DEF SomeoneCanStep
  <2>1. pc[i] \in {"decide", "create", "event", "commit"}
    BY DEF SessionInv, TypeOK, LocalOK, Steps, UnderWay
  <2>2. CASE pc[i] = "commit" /\ shared # {i}
    <3>1. i \in shared /\ reserved = i
      BY <2>2 DEF SessionInv, LocksInv, InTransaction, Writing
    <3>2. PICK j \in Invocations : j \in shared /\ j # i
      BY <2>2, <3>1 DEF SessionInv, TypeOK, LockOK
    <3>3. pc[j] = "decide"
      BY <3>1, <3>2 DEF SessionInv, LocksInv, InTransaction, Writing
    <3>4. QED
      BY <3>3, DecidersCanStep
  <2>3. CASE pc[i] = "commit" /\ shared = {i}
    BY <2>3 DEF CanStep
  <2>4. CASE pc[i] = "event"
    BY <2>4 DEF CanStep
  <2>5. QED
    BY <2>1, <2>2, <2>3, <2>4, DecidersCanStep, CreatorsCanStep
<1>2. QED
  BY <1>1, SessionInvariant, PTL

\* Statements an operation may still execute.
Left(step) ==
    CASE step = "idle" -> 4
      [] step = "decide" -> 3
      [] step \in {"create", "event"} -> 2
      [] step = "commit" -> 1
      [] step \in {"answered", "done", "failed"} -> 0

StepsAreCounted ==
    [][\A i \in Invocations :
        /\ pc'[i] # pc[i] => Left(pc'[i]) < Left(pc[i])
        /\ Step(i) \/ Fail(i) => pc'[i] # pc[i] /\ \A j \in Invocations \ {i} : pc'[j] = pc[j]]_vars

LEMMA EachStatementCounts ==
    ASSUME SessionInv, NEW i \in Invocations, NEW o, NEW t, Step(i) \/ Fail(i) \/ Read(i, o, t)
    PROVE  Left(pc'[i]) < Left(pc[i]) /\ \A j \in Invocations \ {i} : pc'[j] = pc[j]
<1>1. pc \in [Invocations -> Steps]
  BY DEF SessionInv, TypeOK, LocalOK
<1>2. CASE Update(i)
  <2>1. pc[i] = "decide" /\ pc'[i] \in {"create", "event", "commit"}
    BY <1>1, <1>2 DEF Update, Goto
  <2>2. \A j \in Invocations \ {i} : pc'[j] = pc[j]
    BY <1>1, <1>2 DEF Update, Goto
  <2>3. QED
    BY <2>1, <2>2 DEF Left
<1>3. CASE Read(i, o, t) \/ Answer(i) \/ Create(i) \/ RecordEvent(i) \/ Commit(i) \/ Busy(i) \/ Fail(i)
  BY <1>1, <1>3 DEF Read, Answer, Create, RecordEvent, Commit, Busy, Fail, Rollback, Goto, Left
<1>4. QED
  BY <1>2, <1>3 DEF Step

\* An operation takes at most four statements, and nothing that another does
\* adds to them or takes its turn away: with NobodyWaitsInACircle, every
\* operation ends as long as somebody goes on.
THEOREM OperationsRunOut == Spec => StepsAreCounted
<1>1. SessionInv /\ [Next]_vars =>
        [\A i \in Invocations :
            /\ pc'[i] # pc[i] => Left(pc'[i]) < Left(pc[i])
            /\ Step(i) \/ Fail(i) => pc'[i] # pc[i] /\ \A j \in Invocations \ {i} : pc'[j] = pc[j]]_vars
  <2> SUFFICES ASSUME SessionInv, [Next]_vars, NEW i \in Invocations
               PROVE  /\ pc'[i] # pc[i] => Left(pc'[i]) < Left(pc[i])
                      /\ Step(i) \/ Fail(i) =>
                            pc'[i] # pc[i] /\ \A j \in Invocations \ {i} : pc'[j] = pc[j]
    OBVIOUS
  <2> USE EachStatementCounts
  <2>1. Left(pc[i]) \in Nat
    BY DEF SessionInv, TypeOK, LocalOK, Steps, Left
  <2>2. ASSUME Step(i) \/ Fail(i)
        PROVE  Left(pc'[i]) < Left(pc[i]) /\ pc'[i] # pc[i]
               /\ \A j \in Invocations \ {i} : pc'[j] = pc[j]
    BY <2>1, <2>2
  <2>3. ASSUME NEW o, NEW t, Read(i, o, t) PROVE Left(pc'[i]) < Left(pc[i])
    BY <2>3
  <2>4. ASSUME NEW j \in Invocations, j # i,
               Step(j) \/ Fail(j) \/ \E o \in Operations, t \in Times : Read(j, o, t)
        PROVE  pc'[i] = pc[i]
    BY <2>4
  <2>5. ASSUME ChangeScope \/ UNCHANGED vars PROVE pc'[i] = pc[i]
    BY <2>5 DEF ChangeScope, vars
  <2>6. QED
    BY <2>2, <2>3, <2>4, <2>5 DEF Next
<1>2. QED
  BY <1>1, SessionInvariant, PTL DEF Spec, StepsAreCounted
====
