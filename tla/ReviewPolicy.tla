---- MODULE ReviewPolicy ----
(***************************************************************************)
(* What the learner's evidence about one concept says: mastery             *)
(* (mastery_v1.go), retention (review.go), the exposure of the concept in  *)
(* a curriculum instance (progression.go) and the next review of it        *)
(* (review_scheduler_v1.go).  Pure functions of one record per concept.    *)
(*                                                                         *)
(* An operation that may return an error is the set of its outcomes: the   *)
(* empty set is the error.  Scores are 1.0 or 0.0; introduced, learning    *)
(* and practicing are one exposure, "learning".  One unit of time is Day   *)
(* days, and intervals are rounded up to it.                               *)
(***************************************************************************)
EXTENDS Integers, FiniteSets

CONSTANTS Instances, \* curriculum instances of the learner; their ids order them
          Threshold, \* the mastery threshold, in percent
          Day,       \* days in one unit of time
          None       \* an absent time, state or schedule

Time == Nat
Kinds == {"objective", "self_report", "review_recall"}

ASSUME InstancesAssumption == Instances \subseteq Nat
ASSUME ThresholdAssumption == Threshold \in 0..100 /\ Day \in Nat \ {0}

Maybe(S) == S \union {None}
Schedules == [introduced : Time, due : Time]
States ==
    [exposure : {"not_seen", "learning", "mastered", "review_due"}, score : Nat, first : Maybe(Time),
     last : Maybe(Time), mastered : Maybe(Time), due : Maybe(Time), updated : Time]

ASSUME NoneAssumption == None \notin Time /\ None \notin Schedules /\ None \notin States

Highest(S) == CHOOSE x \in S : \A y \in S : y <= x
Lowest(S) == CHOOSE x \in S : \A y \in S : x <= y
Clamp(low, x, high) == Highest({low, Lowest({x, high})})
\* All or nothing: one outcome of each, none if one is refused.
Together(outcomes) ==
    {f \in [DOMAIN outcomes -> UNION {outcomes[x] : x \in DOMAIN outcomes}] :
        \A x \in DOMAIN outcomes : f[x] \in outcomes[x]}

Before(a, b) == a # None /\ a < b

-----------------------------------------------------------------------------
\* Mastery and retention.

\* Evidence is ordered by time, and by id at equal times.
Latest(E) == CHOOSE e \in E : \A f \in E : f.at < e.at \/ (f.at = e.at /\ f.id <= e.id)
After(E, t) == \E e \in E : e.at > t

Weight(E) ==
    9 * Cardinality({e \in E : e.kind # "self_report"}) + 2 * Cardinality({e \in E : e.kind = "self_report"})
Score(E) == (100 * Weight({e \in E : e.ok})) \div Weight(E)

Recalls(E) == {e \in E : e.kind # "self_report"}
Reviews(E, ok) == Cardinality({e \in E : e.kind = "review_recall" /\ e.ok = ok})

\* (1 + 6 * mastery) * review factor * recent result factor, in quarters.
Stability(E) ==
    LET latest == Latest(Recalls(E))
        reviewFactor == Clamp(2, 4 + 2 * Reviews(E, TRUE) - Reviews(E, FALSE), 16)
        recentFactor == IF ~latest.ok THEN 1 ELSE IF latest.kind = "review_recall" THEN 5 ELSE 4
        days == (100 + 6 * Score(E)) * reviewFactor * recentFactor
    IN  Clamp(1, (days + 1600 * Day - 1) \div (1600 * Day), (90 + Day - 1) \div Day)

NextDue(E) == Latest(Recalls(E)).at + Stability(E)

-----------------------------------------------------------------------------
\* The exposure of the concept in one curriculum instance.

NewState(created) ==
    [exposure |-> "not_seen", score |-> 0, first |-> None, last |-> None,
     mastered |-> None, due |-> None, updated |-> created]

Exposure(s, met) ==
    IF s.exposure = "review_due" THEN "review_due" ELSE IF met THEN "mastered" ELSE "learning"

Advanced(s, E, created, t) ==
    IF E = {} THEN {s}
    ELSE LET times == {e.at : e \in E}
             score == Score(E)
             first == Highest({created, Lowest(times)})
             last == Highest({created, Highest(times)})
             exposure == Exposure(s, score >= Threshold)
         IN  {[exposure |-> exposure, score |-> score, due |-> s.due, updated |-> t,
               first |-> IF Before(s.first, first) THEN s.first ELSE first,
               last |-> IF s.last # None /\ s.last > last THEN s.last ELSE last,
               mastered |-> IF exposure = "mastered" /\ s.mastered = None THEN last ELSE s.mastered]}

\* As a bug would have it: observations from the future are taken.
ProgressedEarly(s, E, created, t) == IF t < created \/ t < s.updated THEN {} ELSE Advanced(s, E, created, t)

Progressed(s, E, created, t) ==
    IF t < created \/ t < s.updated \/ After(E, t) THEN {} ELSE Advanced(s, E, created, t)

\* Retention projected on the state: a mastered concept becomes due or fresh.
Projected(s, E, t) ==
    IF Recalls(E) = {} \/ s.exposure \notin {"mastered", "review_due"} THEN {s}
    ELSE IF t < s.updated THEN {}
    ELSE LET due == NextDue(E)
             next == [s EXCEPT !.due = due, !.exposure = IF t >= due THEN "review_due" ELSE "mastered"]
         IN  {IF next = s THEN s ELSE [next EXCEPT !.updated = t]}

Seen(s) == s # None /\ s.exposure # "not_seen"

-----------------------------------------------------------------------------
\* The review schedule and the review items of the concept.

Pending(r) == {i \in r.items : i.status = "pending"}

NewItem(id, due, t) ==
    [id |-> id, due |-> due, status |-> "pending", created |-> t, postponed |-> None, closed |-> None, ok |-> FALSE]

\* The item's key and the partial unique index on pending items.
Creations(r, item) ==
    IF Pending(r) # {} \/ \E i \in r.items : i.id = item.id THEN {}
    ELSE {[r EXCEPT !.items = @ \union {item}]}

Replace(r, old, new) == [r EXCEPT !.items = (@ \ {old}) \union {new}]

\* A postponement wins over an earlier due date.
DueDate(r) == Highest({NextDue(r.evidence)} \union {i.due : i \in {j \in Pending(r) : j.postponed # None}})

Saved(r, introduced, due, t) ==
    IF due < introduced \/ t < introduced THEN {}
    ELSE {[r EXCEPT !.schedule = [introduced |-> introduced, due |-> due]]}

Align(item, due) == IF item.postponed = None \/ due > item.due THEN [item EXCEPT !.due = due] ELSE item

\* As a bug would have it: the pending review follows retention alone.
ScheduledByRetention(r, introduced, t) ==
    IF Recalls(r.evidence) = {} THEN {r}
    ELSE LET due == NextDue(r.evidence)
             item == NewItem(<<due, Cardinality(r.items)>>, due, t)
         IN  UNION {IF Pending(r) = {} THEN Creations(saved, item)
                    ELSE {Replace(saved, i, [i EXCEPT !.due = due]) : i \in Pending(r)} :
                        saved \in Saved(r, introduced, due, t)}

\* As a bug would have it: a pending review is not looked for.
ScheduledAnew(r, introduced, t) ==
    IF Recalls(r.evidence) = {} THEN {r}
    ELSE LET due == DueDate(r)
             item == NewItem(<<due, Cardinality(r.items)>>, due, t)
         IN  UNION {Creations(saved, item) : saved \in Saved(r, introduced, due, t)}

Scheduled(r, introduced, t) ==
    IF Recalls(r.evidence) = {} THEN {r}
    ELSE LET due == DueDate(r)
             item == NewItem(<<due, Cardinality(r.items)>>, due, t)
         IN  UNION {IF Pending(r) = {} THEN Creations(saved, item)
                    ELSE {Replace(saved, i, Align(i, due)) : i \in Pending(r)} : saved \in Saved(r, introduced, due, t)}

\* The states the scheduler reads: of the active instances, the latest updated.
Current(r, actives) ==
    LET seen == {i \in actives : Seen(r.states[i])}
    IN  {i \in seen : \A j \in seen : r.states[j].updated <= r.states[i].updated}
====
