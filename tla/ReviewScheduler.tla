---- MODULE ReviewScheduler ----
(***************************************************************************)
(* The learner's concepts between study, retention and review              *)
(* (learning/application/progression.go, retention.go, diagnostic.go,      *)
(* review_scheduler.go, maintenance_recalculation.go).                     *)
(*                                                                         *)
(* Every operation reads the clock, then waits for its transaction while   *)
(* other commands commit: t is the clock it read, up to Lag ago, and may   *)
(* be older than what it finds.  A refused operation writes nothing, and   *)
(* is no step.                                                             *)
(***************************************************************************)
EXTENDS ReviewPolicy

CONSTANTS Concepts,    \* concepts every curriculum of the learner teaches
          First,       \* the curriculum instance there is first; ids are random
          Answers,     \* what an observation may say: its kind and whether it is right
          Ages,        \* how old an observation may be when it is recorded
          Lag,         \* the longest wait of a command for its transaction
          Delay,       \* by how much a skipped review is put off
          MaxTime, MaxEvidence, MaxItems \* bound the clock and each concept's record

\* Only a recorded outcome of a review makes evidence of recall.
ASSUME AnswersAssumption == Answers \subseteq [kind : Kinds \ {"review_recall"}, ok : BOOLEAN]
ASSUME FirstAssumption == First \in Instances
ASSUME ConceptsAssumption == IsFiniteSet(Concepts)
ASSUME AgesAssumption == Ages \subseteq Int
ASSUME DelayAssumption == Delay \in Nat \ {0} /\ Lag \in Nat
ASSUME BoundAssumption == MaxTime \in Nat /\ MaxEvidence \in Nat /\ MaxItems \in Nat

VARIABLES
    now,      \* the wall clock
    instance, \* status and creation time of the curriculum instances
    record    \* of each concept: evidence, states by instance, schedule, items

vars == <<now, instance, record>>

Actives == {i \in Instances : instance[i].status = "active"}
Created == {i \in Instances : instance[i].status # "none"}

Init ==
    /\ now = 0
    /\ instance = [i \in Instances |-> [status |-> IF i = First THEN "active" ELSE "none", created |-> 0]]
    /\ record = [c \in Concepts |->
         [evidence |-> {}, states |-> [i \in Instances |-> None], schedule |-> None, items |-> {}]]

Clocks == {t \in 0..now : now - t <= Lag}

\* The concept's record becomes one of the outcomes; there is none if refused.
Commit(c, outcomes) ==
    /\ \E r \in outcomes : record' = [record EXCEPT ![c] = r]
    /\ UNCHANGED <<now, instance>>

-----------------------------------------------------------------------------
\* Study.

\* Evidence of one instant is in the order of its recording.
Observed(r, t, kind, ok, item) ==
    LET e == [id |-> Cardinality(r.evidence) + 1, at |-> t, kind |-> kind, ok |-> ok, item |-> item]
    IN  [r EXCEPT !.evidence = @ \union {e}]

StateOf(r, i) == IF r.states[i] = None THEN NewState(instance[i].created) ELSE r.states[i]

\* A state that progression leaves as it is stays absent if it was.
Studied(r, i, t) ==
    {IF r.evidence = {} THEN r ELSE [r EXCEPT !.states[i] = s] :
        s \in Progressed(StateOf(r, i), r.evidence, instance[i].created, t)}

RecordEvidence(t, i, c, kind, ok, age) ==
    /\ t - age >= 0
    /\ Commit(c, Studied(Observed(record[c], t - age, kind, ok, None), i, t))

RecalculateProgression(t, i, c) == Commit(c, Studied(record[c], i, t))

\* A diagnostic answer is evidence; nothing is derived from it yet.
Diagnose(t, c, kind, ok) ==
    /\ Created # {}
    /\ Commit(c, {Observed(record[c], t, kind, ok, None)})

-----------------------------------------------------------------------------
\* Retention.

\* The concept's seen states in the active instances, projected.
Due(r, t) ==
    IF After(r.evidence, t) THEN {}
    ELSE {[r EXCEPT !.states = f] : f \in Together([i \in Instances |->
             IF i \in Actives /\ Seen(r.states[i]) THEN Projected(r.states[i], r.evidence, t) ELSE {r.states[i]}])}

RecalculateRetention(t, c) == Commit(c, Due(record[c], t))

-----------------------------------------------------------------------------
\* Reviews.

\* Of equally recent states the one of the first instance; read before Due.
Introduced(r) == r.states[Lowest(Current(r, Actives))].first

Listed(r, t) ==
    IF Current(r, Actives) = {} THEN {r}
    ELSE UNION {Scheduled(d, Introduced(r), t) : d \in Due(r, t)}

List(t) ==
    /\ UNCHANGED <<now, instance>>
    /\ record' \in Together([c \in Concepts |-> Listed(record[c], t)])

Rescheduled(r, due, t) == IF r.schedule = None THEN {} ELSE Saved(r, r.schedule.introduced, due, t)

\* ReviewItem.Postpone.
Postponed(item, until, t) ==
    IF item.status = "pending" /\ until > item.due /\ until > t /\ t >= item.created
    THEN {[item EXCEPT !.due = until, !.postponed = t]} ELSE {}

Postpone(t, c, item, until) ==
    Commit(c, UNION {Rescheduled(Replace(record[c], item, i), until, t) : i \in Postponed(item, until, t)})

Closed(item, status, ok, t) ==
    IF item.status = "pending" /\ t >= item.created
    THEN {[item EXCEPT !.status = status, !.closed = t, !.ok = ok]} ELSE {}

\* The new item is named after all the student's items, not this concept's.
Successors(item, t) ==
    LET due == Highest({item.due, t}) + Delay
        count == Cardinality(UNION {{c} \X record[c].items : c \in Concepts})
    IN  Postponed(NewItem(<<due, count>>, item.due, t), due, t)

\* As bugs would have it: the schedule keeps the old date; a skip counts as a
\* failed recall.
SkippedUnscheduled(r, item, t) ==
    UNION {Creations(Replace(r, item, i), n) : i \in Closed(item, "skipped", FALSE, t), n \in Successors(item, t)}
SkippedAsFailure(r, item, t) ==
    UNION {UNION {Creations(Observed(s, t, "review_recall", FALSE, item.id), n) :
            s \in Rescheduled(Replace(r, item, i), n.due, t)} :
        i \in Closed(item, "skipped", FALSE, t), n \in Successors(item, t)}

\* The schedule moves, and the next item is created.
Succeeded(r, next, t) == UNION {Creations(s, next) : s \in Rescheduled(r, next.due, t)}

Skipped(r, item, t) ==
    UNION {UNION {Succeeded(Replace(r, item, i), n, t) : n \in Successors(item, t)} :
        i \in Closed(item, "skipped", FALSE, t)}

Skip(t, c, item) == Commit(c, Skipped(record[c], item, t))

\* Completion, its evidence, and the next schedule and item.
Reviewed(r, item, ok, t) ==
    UNION {LET s == Observed(Replace(r, item, i), t, "review_recall", ok, item.id)
           IN  IF Current(s, Actives) = {} THEN {} ELSE Listed(s, t) : i \in Closed(item, "completed", ok, t)}

\* Repeating a recorded outcome answers without writing: no step.
RecordOutcome(t, c, item, ok) ==
    Commit(c, IF item.status = "completed" THEN {} ELSE Reviewed(record[c], item, ok, t))

-----------------------------------------------------------------------------
\* Maintenance: every state from the evidence, then schedules and items.

Rebuilt(r, i, t) ==
    LET old == StateOf(r, i)
    IN  IF i \notin Created \/ (r.states[i] = None /\ r.evidence = {}) THEN {r.states[i]}
        ELSE {IF [s EXCEPT !.updated = old.updated] = old THEN old ELSE s :
                 s \in UNION {Projected(q, r.evidence, t) : q \in Progressed(old, r.evidence, instance[i].created, t)}}

\* Of equally recent states any may be read: the order is a map's.
Recalculated(r, t) ==
    IF After(r.evidence, t) THEN {}
    ELSE UNION {LET s == [r EXCEPT !.states = f]
                IN  IF Current(s, Actives) = {} THEN {s}
                    ELSE UNION {Scheduled(s, s.states[i].first, t) : i \in Current(s, Actives)} :
                  f \in Together([i \in Instances |-> Rebuilt(r, i, t)])}

Recalculate(t) ==
    /\ UNCHANGED <<now, instance>>
    /\ record' \in Together([c \in Concepts |-> Recalculated(record[c], t)])

-----------------------------------------------------------------------------
\* Curriculum instances.

Create(t, i) ==
    /\ UNCHANGED <<now, record>>
    /\ instance' = [instance EXCEPT ![i] = [status |-> "active", created |-> t]]

\* A newer version of the curriculum: the states of the concepts it keeps go
\* over to it, the others start again.
Migrated(s, t) == IF s = None THEN None ELSE [s EXCEPT !.updated = t]

Migrate(t, i, j, kept) ==
    /\ instance[i].created <= t
    /\ \A c \in kept : Seen(record[c].states[i]) => record[c].states[i].last <= t
    /\ instance' = [instance EXCEPT ![i].status = "archived", ![j] = [status |-> "active", created |-> t]]
    /\ UNCHANGED now
    /\ record' = [c \in Concepts |-> [record[c] EXCEPT !.states[j] =
         IF c \in kept THEN Migrated(record[c].states[i], t) ELSE NewState(t)]]

Tick == now < MaxTime /\ now' = now + 1 /\ UNCHANGED <<instance, record>>

Study(t, c) ==
    \/ /\ Cardinality(record[c].evidence) < MaxEvidence
       /\ \E e \in Answers :
            \/ \E i \in Actives, age \in Ages : RecordEvidence(t, i, c, e.kind, e.ok, age)
            \/ Diagnose(t, c, e.kind, e.ok)
    \/ \E i \in Actives : RecalculateProgression(t, i, c)
    \/ RecalculateRetention(t, c)

Review(t, c) ==
    \E item \in record[c].items :
        \/ \E until \in item.due + 1..MaxTime + 1 : Postpone(t, c, item, until)
        \/ Cardinality(record[c].items) < MaxItems /\ Skip(t, c, item)
        \/ Cardinality(record[c].evidence) < MaxEvidence /\ \E ok \in BOOLEAN : RecordOutcome(t, c, item, ok)

Next ==
    \/ Tick
    \/ \E t \in Clocks :
         \/ List(t) \/ Recalculate(t)
         \/ \E c \in Concepts : Study(t, c) \/ Review(t, c)
         \/ \E j \in Instances \ Created :
              \/ Create(t, j)
              \/ \E i \in Actives, kept \in SUBSET Concepts : Migrate(t, i, j, kept)

Spec == Init /\ [][Next]_vars

-----------------------------------------------------------------------------
\* Properties.

Names == Time \X Nat
Observations ==
    [id : Nat, at : Time, kind : Kinds, ok : BOOLEAN, item : Maybe(Names)]
Items ==
    [id : Names, due : Time, status : {"pending", "completed", "skipped"}, created : Time,
     postponed : Maybe(Time), closed : Maybe(Time), ok : BOOLEAN]
Records ==
    [evidence : SUBSET Observations, states : [Instances -> Maybe(States)],
     schedule : Maybe(Schedules), items : SUBSET Items]

\* Every row keeps its type; a seen concept has been seen at some time.
TypeOK ==
    /\ now \in Time
    /\ instance \in [Instances -> [status : {"none", "active", "archived"}, created : Time]]
    /\ record \in [Concepts -> Records]
    /\ \A c \in Concepts, i \in Instances : Seen(record[c].states[i]) => record[c].states[i].first \in Time

\* A concept has at most one pending review, and its schedule, which other
\* parts of the program read, is due when that review is (review_schedule and
\* review_items are written one after the other by every operation).
OneDueDate ==
    \A c \in Concepts :
        /\ Cardinality(Pending(record[c])) <= 1
        /\ (record[c].schedule = None) = (Pending(record[c]) = {})
        /\ \A i \in Pending(record[c]) : i.due = record[c].schedule.due

\* What the learner put off stays put off: while it is pending, no listing or
\* recalculation makes a postponed review due earlier (AlignReviewItemV1).
PostponementHolds ==
    [][\A c \in Concepts : \A i \in Pending(record[c]), j \in Pending(record'[c]) :
        i.id = j.id /\ i.postponed # None => j.due >= i.due]_vars

\* Evidence of recall is what the learner's completed reviews say, once each:
\* a skipped review leaves none, a repeated outcome adds none (RecordOutcome).
RecallsMatchOutcomes ==
    \A c \in Concepts :
        LET recalls == {e \in record[c].evidence : e.kind = "review_recall"}
            completed == {i \in record[c].items : i.status = "completed"}
        IN  /\ {<<e.item, e.at, e.ok>> : e \in recalls} = {<<i.id, i.closed, i.ok>> : i \in completed}
            /\ Cardinality(recalls) = Cardinality(completed)

\* No curriculum is younger than the observations.
Seasoned(c) == \A e \in record[c].evidence, i \in Actives : instance[i].created <= e.at

\* Listing again at the same time succeeds and makes no further change to the
\* reviews, although the first listing may have made another curriculum the
\* one whose state is read (List; the doc calls it idempotent).
ListingSettles ==
    \A c \in Concepts : Seasoned(c) => \A r \in Listed(record[c], now) :
        /\ Listed(r, now) # {}
        /\ \A again \in Listed(r, now) : again.items = r.items

\* Nothing that a command with an old clock leaves behind makes the list of
\* reviews fail later.
ListingSucceeds ==
    \A c \in Concepts : Seasoned(c) => Listed(record[c], now) # {}

\* Recalculating again at the same time changes nothing.
RecalculationSettles ==
    \A c \in Concepts : \A r \in Recalculated(record[c], now) : Recalculated(r, now) = {r}

\* Evidence materializes the missing state of a concept in an active
\* curriculum, however old it is: recalculation succeeds and creates it.
EvidenceMaterializes ==
    \A c \in Concepts, i \in Actives :
        record[c].evidence # {} /\ record[c].states[i] = None
        => \E r \in Recalculated(record[c], now) : r.states[i] # None
====
