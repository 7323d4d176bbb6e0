---- MODULE ReviewListingProofs ----
(***************************************************************************)
(* What a later listing or recalculation finds: times that commands with   *)
(* an old clock have left behind.  They are never ahead of the clock, and  *)
(* the introduction of a state is never much later than the observations.  *)
(***************************************************************************)
EXTENDS ReviewSchedulerProofs

\* Commands wait no longer than the shortest interval between two reviews, and
\* observations are of the time of recording, or later.
Prompt == Lag <= 1 /\ \A age \in Ages : age <= 0

\* A state of an instance created at the given time, at time n.
OnTime(s, created, E, n) ==
    /\ s.updated <= n
    /\ s.first # None =>
         /\ s.first <= n
         /\ s.first <= created \/ \A e \in E : s.first <= e.at + Lag

Dated(r, n) == \A e \in r.evidence : e.at <= n
Timely(r, created, n) == \A i \in Instances : r.states[i] # None => OnTime(r.states[i], created[i], r.evidence, n)

Creation == [i \in Instances |-> instance[i].created]
Opened == \A i \in Instances : instance[i].created <= now /\ (instance[i].status = "none" => instance[i].created = 0)

TimelyInv ==
    /\ Opened
    /\ \A c \in Concepts : Dated(record[c], now) /\ Timely(record[c], Creation, now)

-----------------------------------------------------------------------------
(* The policies. *)

LEMMA IntroductionOf ==
    ASSUME NEW E \in SUBSET Observations, IsFiniteSet(E), E # {}, NEW created \in Time
    PROVE  LET first == Highest({created, Lowest({e.at : e \in E})})
           IN  first \in Time /\ (first = created \/ ((\E e \in E : first = e.at) /\ \A e \in E : first <= e.at))
<1> DEFINE times == {e.at : e \in E}
<1>1. IsFiniteSet(times)
  <2> DEFINE at == [e \in E |-> e.at]
  <2>1. at \in Surjection(E, times)
    BY DEF Surjection
  <2> HIDE DEF at, times
  <2>2. QED
    BY <2>1, FS_Surjection
<1>2. times \in SUBSET Int /\ times # {} /\ times \subseteq Nat
  BY DEF Observations, Time
<1>3. \A e \in E : e.at \in times
  OBVIOUS
<1>4. \A x \in times : \E e \in E : x = e.at
  OBVIOUS
<1> HIDE DEF times
<1>5. Lowest(times) \in times /\ \A x \in times : Lowest(times) <= x
  BY <1>1, <1>2, LowestOf
<1> DEFINE low == Lowest(times)
<1>51. low \in times /\ \A x \in times : low <= x
  BY <1>5
<1> HIDE DEF low
<1>6. low \in Int /\ created \in Int
  BY <1>2, <1>51 DEF Time
<1> DEFINE first == Highest({created, low})
<1>7. first \in {created, low}
  BY <1>6, Pairs, Zenon
<1> HIDE DEF first
<1>8. low \in Time /\ (\E e \in E : low = e.at) /\ (\A e \in E : low <= e.at)
  BY <1>2, <1>3, <1>4, <1>51 DEF Time
<1>9. first = created \/ first = low
  BY <1>7
<1>10. first \in Time /\ (first = created \/ ((\E e \in E : first = e.at) /\ \A e \in E : first <= e.at))
  BY <1>8, <1>9, Zenon
<1>11. QED
  BY <1>10, Zenon DEF first, low, times

LEMMA ProgressedOnTime ==
    ASSUME NEW s, Fit(s), NEW E \in SUBSET Observations, IsFiniteSet(E), NEW created \in Time,
           NEW t \in Time, NEW n \in Time, t <= n, OnTime(s, created, E, n),
           NEW p \in Progressed(s, E, created, t)
    PROVE  OnTime(p, created, E, n)
<1>1. created <= t /\ (\A e \in E : e.at <= t) /\ p \in Advanced(s, E, created, t)
  BY DEF Progressed, After, Observations, Time
<1>2. CASE E = {}
  BY <1>1, <1>2 DEF Advanced
<1>3. CASE E # {}
  <2> DEFINE first == Highest({created, Lowest({e.at : e \in E})})
  <2>1. first \in Time /\ (first = created \/ ((\E e \in E : first = e.at) /\ \A e \in E : first <= e.at))
    BY <1>3, IntroductionOf, Zenon
  <2>2. p.updated = t /\ p.first = IF Before(s.first, first) THEN s.first ELSE first
    BY <1>1, <1>3 DEF Advanced
  <2> HIDE DEF first
  <2>3. first <= n /\ (first <= created \/ \A e \in E : first <= e.at + Lag)
    <3>1. CASE first = created
      BY <1>1, <3>1 DEF Time
    <3>2. CASE (\E e \in E : first = e.at) /\ (\A e \in E : first <= e.at)
      <4>1. first <= n
        BY <1>1, <2>1, <3>2 DEF Time
      <4>2. \A e \in E : e.at \in Nat /\ Lag \in Nat
        BY DelayAssumption DEF Observations, Time
      <4>3. \A e \in E : first <= e.at + Lag
        BY <2>1, <3>2, <4>2 DEF Time
      <4>4. QED
        BY <4>1, <4>3
    <3>3. QED
      BY <2>1, <3>1, <3>2
  <2>4. CASE Before(s.first, first)
    BY <2>2, <2>4 DEF OnTime, Before
  <2>5. CASE ~Before(s.first, first)
    BY <2>2, <2>3, <2>5 DEF OnTime
  <2>6. QED
    BY <2>4, <2>5
<1>4. QED
  BY <1>2, <1>3

LEMMA ProjectedOnTime ==
    ASSUME NEW s, Fit(s), NEW E, NEW created \in Time,
           NEW t \in Time, NEW n \in Time, t <= n, OnTime(s, created, E, n), NEW p \in Projected(s, E, t)
    PROVE  OnTime(p, created, E, n)
<1>1. CASE p = s
  BY <1>1
<1>2. CASE p # s
  <2> DEFINE exposure == IF t >= NextDue(E) THEN "review_due" ELSE "mastered"
             next == [s EXCEPT !.due = NextDue(E), !.exposure = exposure]
  <2>1. p = [next EXCEPT !.updated = t]
    BY <1>2 DEF Projected
  <2>2. p.updated = t /\ p.first = s.first
    BY <2>1 DEF Fit, States
  <2>3. QED
    BY <2>2 DEF OnTime
<1>3. QED
  BY <1>1, <1>2

-----------------------------------------------------------------------------
(* The operations on one record. *)

\* What the operations below start from.
Ready(r) == Setting /\ Opened /\ Based(r) /\ Timely(r, Creation, now)

LEMMA StateOfOnTime ==
    ASSUME NEW r, Ready(r), NEW i \in Instances
    PROVE  Fit(StateOf(r, i)) /\ OnTime(StateOf(r, i), instance[i].created, r.evidence, now)
<1>1. Fit(StateOf(r, i))
  BY StateOfFit DEF Ready, Based
<1>2. CASE r.states[i] = None
  <2>1. instance[i].created <= now
    BY DEF Ready, Opened
  <2>2. StateOf(r, i) = NewState(instance[i].created)
    BY <1>2 DEF StateOf
  <2>3. StateOf(r, i).updated = instance[i].created /\ StateOf(r, i).first = None
    BY <2>2 DEF NewState
  <2>4. QED
    BY <1>1, <2>1, <2>3 DEF OnTime
<1>3. CASE r.states[i] # None
  <2>1. StateOf(r, i) = r.states[i]
    BY <1>3, Zenon DEF StateOf
  <2>2. OnTime(r.states[i], Creation[i], r.evidence, now) /\ Creation[i] = instance[i].created
    BY <1>3 DEF Ready, Timely, Creation
  <2>3. QED
    BY <1>1, <2>1, <2>2
<1>4. QED
  BY <1>1, <1>2, <1>3

LEMMA StudiedTimely ==
    ASSUME NEW r, Ready(r), NEW i \in Instances, NEW t \in Time, t <= now, NEW s \in Studied(r, i, t)
    PROVE  Timely(s, Creation, now) /\ s.evidence = r.evidence /\ Dated(r, now)
<1>1. PICK x \in Progressed(StateOf(r, i), r.evidence, instance[i].created, t) :
        s = IF r.evidence = {} THEN r ELSE [r EXCEPT !.states[i] = x]
  BY DEF Studied
<1>2. instance[i].created \in Time /\ now \in Time /\ r.evidence \in SUBSET Observations /\ IsFiniteSet(r.evidence)
  BY DEF Ready, Setting, Based, Typed, Records
<1>3. OnTime(x, instance[i].created, r.evidence, now)
  BY <1>2, StateOfOnTime, ProgressedOnTime
<1>4. Dated(r, now)
  <2>1. \A e \in r.evidence : e.at <= t
    BY <1>1, <1>2 DEF Progressed, After, Observations, Time
  <2>2. QED
    BY <1>2, <2>1 DEF Dated, Observations, Time
<1>5. CASE r.evidence = {}
  BY <1>1, <1>4, <1>5 DEF Ready
<1>6. CASE r.evidence # {}
  <2>1. s.evidence = r.evidence /\ s.states = [r.states EXCEPT ![i] = x]
    BY <1>1, <1>6 DEF Ready, Based, Typed, Records
  <2>2. \A j \in Instances : s.states[j] = IF j = i THEN x ELSE r.states[j]
    BY <2>1 DEF Ready, Based, Typed, Records
  <2>3. Timely(s, Creation, now)
    BY <1>3, <2>1, <2>2 DEF Timely, Ready, Creation
  <2>4. QED
    BY <1>4, <2>1, <2>3
<1>7. QED
  BY <1>5, <1>6

LEMMA DueTimely ==
    ASSUME NEW r, Ready(r), NEW t \in Time, t <= now, NEW d \in Due(r, t)
    PROVE  Timely(d, Creation, now)
<1> DEFINE outcomes == [i \in Instances |->
             IF i \in Actives /\ Seen(r.states[i]) THEN Projected(r.states[i], r.evidence, t) ELSE {r.states[i]}]
<1>1. PICK f \in Together(outcomes) : d = [r EXCEPT !.states = f]
  BY DEF Due
<1>2. \A i \in Instances : f[i] \in outcomes[i]
  BY TogetherOf
<1>3. d.states = f /\ d.evidence = r.evidence
  BY <1>1 DEF Ready, Based, Typed, Records
<1>4. ASSUME NEW i \in Instances, f[i] # None PROVE OnTime(f[i], instance[i].created, r.evidence, now)
  <2>1. CASE i \in Actives /\ Seen(r.states[i])
    <3>1. f[i] \in Projected(r.states[i], r.evidence, t)
      BY <1>2, <2>1
    <3>2. r.states[i] # None
      BY <2>1 DEF Seen
    <3>3. Fit(r.states[i]) /\ OnTime(r.states[i], instance[i].created, r.evidence, now)
      BY <3>2 DEF Ready, Timely, Creation, Based, Typed
    <3>4. instance[i].created \in Time /\ now \in Time
      BY DEF Ready, Setting
    <3>5. QED
      BY <3>1, <3>3, <3>4, ProjectedOnTime
  <2>2. CASE ~(i \in Actives /\ Seen(r.states[i]))
    <3>1. f[i] = r.states[i]
      BY <1>2, <2>2
    <3>2. QED
      BY <1>4, <3>1 DEF Ready, Timely, Creation
  <2>3. QED
    BY <2>1, <2>2
<1> HIDE DEF outcomes
<1>5. QED
  BY <1>3, <1>4 DEF Timely, Creation

\* Only a postponement moves the due date away from what retention says.
LEMMA UnpostponedDueDate ==
    ASSUME NEW r, Based(r), Recalls(r.evidence) # {}, \A i \in Pending(r) : i.postponed = None
    PROVE  DueDate(r) = NextDue(r.evidence)
<1> DEFINE next == NextDue(r.evidence)
<1>1. next \in Int
  BY NextDueType DEF Based, Typed, Records, Time
<1>2. {next} \union {i.due : i \in {j \in Pending(r) : j.postponed # None}} = {next, next}
  OBVIOUS
<1>3. DueDate(r) = Highest({next, next})
  BY <1>2, Zenon DEF DueDate
<1> HIDE DEF next
<1>4. Highest({next, next}) \in {next, next}
  BY <1>1, Pairs, Zenon
<1>5. QED
  BY <1>3, <1>4 DEF next

\* Scheduling leaves states and evidence alone, and one review pending that is due
\* when the record says.
LEMMA ScheduledKeeps ==
    ASSUME NEW r, Based(r), NEW introduced \in Time, NEW t \in Time, NEW s \in Scheduled(r, introduced, t)
    PROVE  /\ s.states = r.states /\ s.evidence = r.evidence
           /\ Recalls(r.evidence) # {} =>
                \E x \in s.items : /\ Pending(s) = {x} /\ x.due = DueDate(r)
                                   /\ x.postponed = None => x.due = NextDue(r.evidence)
<1>1. CASE Recalls(r.evidence) = {}
  BY <1>1 DEF Scheduled
<1>2. CASE Recalls(r.evidence) # {}
  <2> DEFINE due == DueDate(r)
             item == NewItem(<<due, Cardinality(r.items)>>, due, t)
  <2>1. due \in Time /\ \A i \in Pending(r) : i.postponed # None => i.due <= due
    BY <1>2, DueDateOf
  <2>2. PICK v \in Saved(r, introduced, due, t) :
          IF Pending(r) = {} THEN s \in Creations(v, item) ELSE s \in {Replace(v, i, Align(i, due)) : i \in Pending(r)}
    BY <1>2 DEF Scheduled
  <2>3. Based(v) /\ v.items = r.items /\ v.evidence = r.evidence /\ v.states = r.states
    BY <2>1, SavedBased
  <2>4. Pending(v) = Pending(r)
    BY <2>3 DEF Pending
  <2>5. (\A i \in Pending(r) : i.postponed = None) => due = NextDue(r.evidence)
    BY <1>2, UnpostponedDueDate
  <2> HIDE DEF due
  <2>6. CASE Pending(r) = {}
    <3>1. Cardinality(r.items) \in Nat
      BY FS_CardinalityType DEF Based, Typed
    <3>2. item \in Items /\ item.status = "pending" /\ item.due = due
      BY <2>1, <3>1 DEF NewItem, Items, Names, Maybe
    <3> HIDE DEF item
    <3>3. s \in Creations(v, item)
      BY <2>2, <2>6
    <3>4. Pending(s) = {item} /\ s.states = r.states /\ s.evidence = r.evidence
      BY <2>3, <3>2, <3>3, CreationBased
    <3>5. item \in s.items
      BY <3>4 DEF Pending
    <3>6. QED
      BY <2>5, <2>6, <3>2, <3>4, <3>5 DEF due
  <2>7. CASE Pending(r) # {}
    <3>1. PICK i \in Pending(r) : s = Replace(v, i, Align(i, due))
      BY <2>2, <2>7
    <3> DEFINE new == Align(i, due)
    <3>2. i \in Items /\ i.status = "pending" /\ i.due \in Nat /\ due \in Nat
      BY <2>1 DEF Based, Typed, Records, Items, Pending, Time
    <3>3. new \in Items /\ new.id = i.id /\ new.status = "pending" /\ new.postponed = i.postponed
      BY <2>1, <3>2 DEF Align, Items
    <3>4. new.due = due
      <4>1. CASE i.postponed = None \/ due > i.due
        BY <4>1, <3>2 DEF Align, Items
      <4>2. CASE ~(i.postponed = None \/ due > i.due)
        BY <4>2, <3>2, <2>1 DEF Align
      <4>3. QED
        BY <4>1, <4>2
    <3> HIDE DEF new
    <3>5. /\ Pending(s) = {j \in {new} : j.status = "pending"}
          /\ s.items = (v.items \ {i}) \union {new} /\ s.evidence = v.evidence /\ s.states = v.states
      BY <2>3, <2>4, <3>1, <3>3, ReplaceTyped DEF new
    <3>6. Pending(s) = {new} /\ new \in s.items
      BY <3>3, <3>5
    <3>7. \A j \in Pending(r) : j = i
      BY DEF Based, OnePending
    <3>8. QED
      BY <2>3, <2>5, <3>3, <3>4, <3>5, <3>6, <3>7 DEF due
  <2>8. QED
    BY <2>6, <2>7
<1>3. QED
  BY <1>1, <1>2

LEMMA PostponedDueDate ==
    ASSUME NEW r, Based(r), Recalls(r.evidence) # {}, NEW x, Pending(r) = {x}, x.postponed # None,
           NextDue(r.evidence) <= x.due
    PROVE  DueDate(r) = x.due
<1> DEFINE next == NextDue(r.evidence)
           due == x.due
<1>1. next \in Int /\ due \in Int /\ next <= due
  BY NextDueType DEF Based, Typed, Records, Time, Pending, Items
<1>2. {next} \union {i.due : i \in {j \in Pending(r) : j.postponed # None}} = {next, due}
  OBVIOUS
<1>3. DueDate(r) = Highest({next, due})
  BY <1>2, Zenon DEF DueDate
<1> HIDE DEF next, due
<1>4. Highest({next, due}) \in {next, due} /\ due <= Highest({next, due})
  BY <1>1, Pairs, Zenon
<1>5. QED
  BY <1>1, <1>3, <1>4 DEF due

LEMMA TogetherSome ==
    ASSUME NEW outcomes, \A x \in DOMAIN outcomes : outcomes[x] # {}
    PROVE  Together(outcomes) # {}
<1> DEFINE f == [x \in DOMAIN outcomes |-> CHOOSE y \in outcomes[x] : TRUE]
<1>1. \A x \in DOMAIN outcomes : f[x] \in outcomes[x]
  OBVIOUS
<1>2. f \in [DOMAIN outcomes -> UNION {outcomes[x] : x \in DOMAIN outcomes}]
  BY <1>1
<1> HIDE DEF f
<1>3. f \in Together(outcomes)
  BY <1>1, <1>2 DEF Together
<1>4. QED
  BY <1>3

\* No state is ahead of the clock, so retention can be projected on all of them.
LEMMA DueSome ==
    ASSUME NEW r, Ready(r), ~After(r.evidence, now)
    PROVE  Due(r, now) # {}
<1> DEFINE outcomes == [i \in Instances |->
             IF i \in Actives /\ Seen(r.states[i]) THEN Projected(r.states[i], r.evidence, now) ELSE {r.states[i]}]
<1>1. ASSUME NEW i \in Instances PROVE outcomes[i] # {}
  <2>1. CASE i \in Actives /\ Seen(r.states[i])
    <3>1. r.states[i].updated <= now /\ r.states[i].updated \in Time /\ now \in Time
      BY <2>1 DEF Seen, Ready, Timely, OnTime, Setting, Based, Typed, Fit, States
    <3>2. ~(now < r.states[i].updated)
      BY <3>1 DEF Time
    <3>3. Projected(r.states[i], r.evidence, now) # {}
      BY <3>2 DEF Projected
    <3>4. QED
      BY <2>1, <3>3
  <2>2. CASE ~(i \in Actives /\ Seen(r.states[i]))
    BY <2>2
  <2>3. QED
    BY <2>1, <2>2
<1>2. DOMAIN outcomes = Instances
  OBVIOUS
<1>3. Due(r, now) = {[r EXCEPT !.states = f] : f \in Together(outcomes)}
  BY DEF Due
<1> HIDE DEF outcomes
<1>4. Together(outcomes) # {}
  BY <1>1, <1>2, TogetherSome
<1>5. QED
  BY <1>3, <1>4

\* Every observation is as old as the active curricula, or younger.
Settled(r) == \A e \in r.evidence, i \in Actives : instance[i].created <= e.at

\* A state is introduced before the review of its concept is due.
LEMMA StateBeforeDue ==
    ASSUME NEW r, Ready(r), Settled(r), Prompt, Recalls(r.evidence) # {}, NEW i \in Current(r, Actives)
    PROVE  LET first == r.states[i].first
           IN  first \in Time /\ first <= NextDue(r.evidence) /\ first <= now
<1> DEFINE first == r.states[i].first
<1>3. first \in Time /\ i \in Actives /\ i \in Instances /\ r.states[i] # None
  BY CurrentSeen DEF Ready, Based, Current, Actives, Seen
<1>4. first # None
  BY <1>3, NoneAssumption
<1>5. first <= now /\ (first <= instance[i].created \/ \A e \in r.evidence : first <= e.at + Lag)
  <2>1. OnTime(r.states[i], Creation[i], r.evidence, now) /\ Creation[i] = instance[i].created
    BY <1>3 DEF Ready, Timely, Creation
  <2>2. QED
    BY <1>4, <2>1 DEF OnTime
<1>6. PICK e \in r.evidence : e.at < NextDue(r.evidence)
  BY NextDueType DEF Ready, Based, Typed, Records
<1>7. NextDue(r.evidence) \in Time
  BY NextDueType DEF Ready, Based, Typed, Records
<1>8. e.at \in Time /\ instance[i].created \in Time /\ Lag \in Nat /\ Lag <= 1 /\ instance[i].created <= e.at
  BY <1>3, DelayAssumption DEF Ready, Based, Typed, Records, Observations, Setting, Settled, Prompt
<1> DEFINE next == NextDue(r.evidence)
<1> HIDE DEF first, next
<1>9. first <= next
  <2>1. first <= instance[i].created \/ first <= e.at + Lag
    BY <1>5
  <2>2. QED
    BY <1>3, <1>6, <1>7, <1>8, <2>1 DEF next, Time
<1>10. QED
  BY <1>3, <1>5, <1>9 DEF first, next

LEMMA IntroducedBeforeDue ==
    ASSUME NEW r, Ready(r), Settled(r), Prompt, Recalls(r.evidence) # {}, Current(r, Actives) # {}
    PROVE  Introduced(r) \in Time /\ Introduced(r) <= NextDue(r.evidence) /\ Introduced(r) <= now
<1> DEFINE i == Lowest(Current(r, Actives))
<1>1. i \in Current(r, Actives)
  <2>1. Current(r, Actives) \in SUBSET Nat
    BY InstancesAssumption DEF Current, Actives
  <2>2. QED
    BY <2>1, LeastOf
<1>2. Introduced(r) = r.states[i].first
  BY DEF Introduced
<1> HIDE DEF i
<1>3. QED
  BY <1>1, <1>2, StateBeforeDue

LEMMA IntroducedType ==
    ASSUME NEW r, Based(r), Current(r, Actives) # {}
    PROVE  Introduced(r) \in Time
<1>1. Current(r, Actives) \in SUBSET Nat
  BY InstancesAssumption DEF Current, Actives
<1>2. Lowest(Current(r, Actives)) \in Current(r, Actives)
  BY <1>1, LeastOf
<1>3. QED
  BY <1>2, CurrentSeen DEF Introduced, Based

\* The next review of the concept has the name of another one.
NameTaken(r) ==
    /\ Recalls(r.evidence) # {} /\ Pending(r) = {}
    /\ \E i \in r.items : i.id = <<DueDate(r), Cardinality(r.items)>>

LEMMA ScheduledSome ==
    ASSUME Setting, NEW d, Based(d), NEW introduced \in Time,
           Recalls(d.evidence) # {} => introduced <= NextDue(d.evidence) /\ introduced <= now, ~NameTaken(d)
    PROVE  Scheduled(d, introduced, now) # {}
<1>1. CASE Recalls(d.evidence) = {}
  BY <1>1 DEF Scheduled
<1>2. CASE Recalls(d.evidence) # {}
  <2> DEFINE due == DueDate(d)
             item == NewItem(<<due, Cardinality(d.items)>>, due, now)
             v == [d EXCEPT !.schedule = [introduced |-> introduced, due |-> due]]
  <2>1. due \in Time /\ NextDue(d.evidence) <= due /\ NextDue(d.evidence) \in Time /\ now \in Time
    BY <1>2, DueDateOf, NextDueType DEF Based, Typed, Records, Setting
  <2>2. item.id = <<due, Cardinality(d.items)>>
    BY DEF NewItem
  <2> HIDE DEF due
  <2>3. ~(due < introduced \/ now < introduced)
    BY <1>2, <2>1 DEF Time
  <2>4. Saved(d, introduced, due, now) = {v}
    BY <2>3 DEF Saved
  <2>5. v.items = d.items
    BY DEF Based, Typed, Records
  <2> HIDE DEF v
  <2>6. Scheduled(d, introduced, now) =
          IF Pending(d) = {} THEN Creations(v, item) ELSE {Replace(v, i, Align(i, due)) : i \in Pending(d)}
    BY <1>2, <2>4 DEF Scheduled, due
  <2> HIDE DEF item
  <2>7. CASE Pending(d) = {}
    <3>1. Pending(v) = {}
      BY <2>5, <2>7 DEF Pending
    <3>2. \A i \in v.items : i.id # item.id
      BY <1>2, <2>2, <2>5, <2>7 DEF NameTaken, due
    <3>3. Creations(v, item) # {}
      BY <3>1, <3>2 DEF Creations
    <3>4. QED
      BY <2>6, <2>7, <3>3
  <2>8. CASE Pending(d) # {}
    BY <2>6, <2>8
  <2>9. QED
    BY <2>7, <2>8
<1>3. QED
  BY <1>1, <1>2

\* The name depends on the reviews and the evidence alone.
LEMMA SameName ==
    ASSUME NEW r, NEW d, d.items = r.items, d.evidence = r.evidence
    PROVE  NameTaken(d) = NameTaken(r)
  BY DEF NameTaken, Pending, DueDate

LEMMA ListedSome ==
    ASSUME NEW r, Ready(r), Settled(r), Prompt, ~After(r.evidence, now), ~NameTaken(r)
    PROVE  Listed(r, now) # {}
<1>1. CASE Current(r, Actives) = {}
  BY <1>1 DEF Listed
<1>2. CASE Current(r, Actives) # {}
  <2> DEFINE introduced == Introduced(r)
  <2>1. Listed(r, now) = UNION {Scheduled(d, introduced, now) : d \in Due(r, now)}
    BY <1>2 DEF Listed
  <2>2. PICK d \in Due(r, now) : TRUE
    BY DueSome
  <2>3. Based(d) /\ d.items = r.items /\ d.evidence = r.evidence /\ Setting
    BY DueBased DEF Ready, Setting
  <2>4. introduced \in Time
        /\ (Recalls(d.evidence) # {} => introduced <= NextDue(d.evidence) /\ introduced <= now)
    BY <1>2, <2>3, IntroducedType, IntroducedBeforeDue DEF Ready
  <2>5. ~NameTaken(d)
    BY <2>3, SameName
  <2> HIDE DEF introduced
  <2>6. Scheduled(d, introduced, now) # {}
    BY <2>3, <2>4, <2>5, ScheduledSome
  <2>7. QED
    BY <2>1, <2>2, <2>6
<1>3. QED
  BY <1>1, <1>2

LEMMA ListedTimely ==
    ASSUME NEW r, Ready(r), NEW t \in Time, t <= now, NEW s \in Listed(r, t)
    PROVE  Timely(s, Creation, now) /\ s.evidence = r.evidence
<1>1. CASE Current(r, Actives) = {}
  BY <1>1 DEF Listed, Ready
<1>2. CASE Current(r, Actives) # {}
  <2>1. Introduced(r) \in Time
    BY <1>2, IntroducedType DEF Ready
  <2>2. PICK d \in Due(r, t) : s \in Scheduled(d, Introduced(r), t)
    BY <1>2 DEF Listed
  <2>3. Based(d) /\ d.evidence = r.evidence /\ Timely(d, Creation, now)
    BY DueBased, DueTimely DEF Ready
  <2>4. s.states = d.states /\ s.evidence = d.evidence
    BY <2>1, <2>2, <2>3, ScheduledKeeps
  <2>5. QED
    BY <2>3, <2>4 DEF Timely
<1>3. QED
  BY <1>1, <1>2

\* Scheduling leaves one review pending, due when scheduling it again would have it.
LEMMA ScheduledPending ==
    ASSUME NEW d, Based(d), Recalls(d.evidence) # {}, NEW introduced \in Time, NEW t \in Time,
           NEW s \in Scheduled(d, introduced, t)
    PROVE  \E x : Pending(s) = {x} /\ x.due = DueDate(s)
<1>1. Based(s)
  BY ScheduledInv DEF RecordInv
<1>2. s.evidence = d.evidence
  BY ScheduledKeeps
<1>3. PICK x \in s.items : /\ Pending(s) = {x} /\ x.due = DueDate(d)
                           /\ x.postponed = None => x.due = NextDue(d.evidence)
  BY ScheduledKeeps
<1>4. NextDue(s.evidence) <= x.due
  BY <1>2, <1>3, DueDateOf
<1>5. DueDate(s) = x.due
  <2>1. CASE x.postponed = None
    <3>1. \A i \in Pending(s) : i.postponed = None
      BY <1>3, <2>1
    <3>2. QED
      BY <1>1, <1>2, <1>3, <2>1, <3>1, UnpostponedDueDate
  <2>2. CASE x.postponed # None
    BY <1>1, <1>2, <1>3, <1>4, <2>2, PostponedDueDate
  <2>3. QED
    BY <2>1, <2>2
<1>6. QED
  BY <1>3, <1>5

\* Such a review stays as it is.
LEMMA ScheduledSame ==
    ASSUME NEW d, Based(d), NEW introduced \in Time, NEW t \in Time, NEW s \in Scheduled(d, introduced, t),
           Recalls(d.evidence) # {} => \E x : Pending(d) = {x} /\ x.due = DueDate(d)
    PROVE  s.items = d.items
<1>1. CASE Recalls(d.evidence) = {}
  BY <1>1 DEF Scheduled
<1>2. CASE Recalls(d.evidence) # {}
  <2> DEFINE due == DueDate(d)
  <2>1. PICK x : Pending(d) = {x} /\ x.due = due
    BY <1>2
  <2>2. x \in Items /\ x \in d.items /\ due \in Time
    BY <1>2, <2>1, DueDateOf DEF Based, Typed, Records, Pending
  <2>3. PICK v \in Saved(d, introduced, due, t) : s = Replace(v, x, Align(x, due))
    <3>1. Pending(d) # {}
      BY <2>1
    <3>2. PICK v \in Saved(d, introduced, due, t) : s \in {Replace(v, i, Align(i, due)) : i \in Pending(d)}
      BY <1>2, <3>1 DEF Scheduled
    <3>3. QED
      BY <2>1, <3>2
  <2> HIDE DEF due
  <2>4. Align(x, due) = x
    <3>1. [x EXCEPT !.due = due] = x
      BY <2>1, <2>2 DEF Items
    <3>2. QED
      BY <3>1 DEF Align
  <2>5. Based(v) /\ v.items = d.items
    BY <2>2, <2>3, SavedBased
  <2>6. s.items = (v.items \ {x}) \union {x}
    BY <2>3, <2>4, <2>5 DEF Replace, Based, Typed, Records
  <2>7. QED
    BY <2>2, <2>5, <2>6
<1>3. QED
  BY <1>1, <1>2

\* What a listing leaves pending is due when the next one would have it.
LEMMA ListedPending ==
    ASSUME NEW r, Ready(r), Current(r, Actives) # {}, Recalls(r.evidence) # {}, NEW t \in Time, NEW s \in Listed(r, t)
    PROVE  \E x : Pending(s) = {x} /\ x.due = DueDate(s)
<1>1. PICK d \in Due(r, t) : s \in Scheduled(d, Introduced(r), t)
  BY DEF Listed
<1>2. Based(d) /\ d.evidence = r.evidence /\ Introduced(r) \in Time
  BY DueBased, IntroducedType DEF Ready
<1>3. QED
  BY <1>1, <1>2, ScheduledPending

\* The next one leaves it as it is.
LEMMA ListedAgain ==
    ASSUME NEW r, Ready(r), NEW t \in Time, NEW s \in Listed(r, t),
           Recalls(r.evidence) # {} => \E x : Pending(r) = {x} /\ x.due = DueDate(r)
    PROVE  s.items = r.items
<1>1. CASE Current(r, Actives) = {}
  BY <1>1 DEF Listed
<1>2. CASE Current(r, Actives) # {}
  <2>1. PICK d \in Due(r, t) : s \in Scheduled(d, Introduced(r), t)
    BY <1>2 DEF Listed
  <2>2. Based(d) /\ d.items = r.items /\ d.evidence = r.evidence /\ Introduced(r) \in Time
    BY <1>2, DueBased, IntroducedType DEF Ready
  <2>3. Pending(d) = Pending(r) /\ DueDate(d) = DueDate(r)
    BY <2>2 DEF Pending, DueDate
  <2>4. QED
    BY <2>1, <2>2, <2>3, ScheduledSame
<1>3. QED
  BY <1>1, <1>2

LEMMA Settles ==
    ASSUME Prompt, ReviewInv, TimelyInv
    PROVE  ListingSettles
<1> SUFFICES ASSUME NEW c \in Concepts, Seasoned(c), NEW r \in Listed(record[c], now)
             PROVE  Listed(r, now) # {} /\ \A again \in Listed(r, now) : again.items = r.items
  BY DEF ListingSettles
<1> DEFINE q == record[c]
<1>1. Ready(q) /\ RecordInv(q) /\ Settled(q) /\ now \in Time /\ now <= now /\ Dated(q, now)
  BY DEF ReviewInv, TimelyInv, RecordInv, Ready, Setting, Seasoned, Settled, Time
<1> HIDE DEF q
<1>2. CASE Current(q, Actives) = {}
  <2>1. r = q /\ Listed(q, now) = {q}
    BY <1>2 DEF Listed, q
  <2>2. QED
    BY <2>1
<1>3. CASE Current(q, Actives) # {}
  <2>1. r \in Listed(q, now)
    BY DEF q
  <2>2. Timely(r, Creation, now) /\ r.evidence = q.evidence
    BY <1>1, <2>1, ListedTimely
  <2>3. Based(r)
    BY <1>1, <2>1, ListedInv DEF RecordInv
  <2>4. Ready(r) /\ Settled(r)
    BY <1>1, <2>2, <2>3 DEF Ready, Settled
  <2>5. ~After(r.evidence, now)
    BY <1>1, <2>2 DEF After, Dated, Ready, Based, Typed, Records, Observations, Time
  <2>6. Recalls(r.evidence) # {} => \E x : Pending(r) = {x} /\ x.due = DueDate(r)
    BY <1>1, <1>3, <2>1, <2>2, ListedPending
  <2>7. ~NameTaken(r)
    BY <2>6 DEF NameTaken
  <2>8. QED
    BY <1>1, <2>4, <2>5, <2>6, <2>7, ListedSome, ListedAgain
<1>4. QED
  BY <1>2, <1>3

-----------------------------------------------------------------------------
(* The specification. *)

LEMMA TimelyInit == Init => TimelyInv
<1> SUFFICES ASSUME Init PROVE TimelyInv
  OBVIOUS
<1>1. now = 0 /\ \A i \in Instances : instance[i].created = 0
  BY DEF Init
<1>2. \A c \in Concepts : record[c].evidence = {} /\ \A i \in Instances : record[c].states[i] = None
  BY DEF Init
<1>3. QED
  BY <1>1, <1>2 DEF TimelyInv, Opened, Dated, Timely

\* What a command leaves of the record r.
Sound(r) == Dated(r, now) /\ Timely(r, Creation, now)

LEMMA SoundRecord ==
    ASSUME ReviewInv, TimelyInv, NEW c \in Concepts
    PROVE  Ready(record[c]) /\ Sound(record[c]) /\ RecordInv(record[c])
  BY DEF ReviewInv, TimelyInv, RecordInv, Ready, Sound

LEMMA SoundCommit ==
    ASSUME ReviewInv, TimelyInv, NEW c \in Concepts, NEW outcomes, Commit(c, outcomes),
           \A s \in outcomes : Sound(s)
    PROVE  TimelyInv'
<1>1. PICK s \in outcomes : record' = [record EXCEPT ![c] = s]
  BY DEF Commit
<1>2. record' = [d \in Concepts |-> IF d = c THEN s ELSE record[d]] /\ now' = now /\ instance' = instance
  BY <1>1 DEF ReviewInv, Commit
<1>3. \A d \in Concepts : Sound(record'[d])
  BY <1>2, SoundRecord
<1>4. Opened' /\ Creation' = Creation
  BY <1>2 DEF TimelyInv, Opened, Creation
<1>5. QED
  BY <1>2, <1>3, <1>4 DEF TimelyInv, Sound

LEMMA ClockPast ==
    ASSUME ReviewInv, NEW t \in Clocks
    PROVE  t \in Time /\ t <= now /\ now <= t + Lag
  BY DelayAssumption DEF ReviewInv, Setting, Clocks, Time

\* An observation that is recorded late is not much older than any state.
LEMMA ObservedTimely ==
    ASSUME Setting, NEW r, Typed(r), Timely(r, Creation, now), NEW at \in Time, now <= at + Lag, NEW kind \in Kinds, NEW ok \in BOOLEAN,
           NEW item \in Maybe(Names)
    PROVE  LET s == Observed(r, at, kind, ok, item)
           IN  /\ Timely(s, Creation, now)
               /\ \E e \in s.evidence : s.evidence = r.evidence \union {e} /\ e.at = at
<1> DEFINE e == [id |-> Cardinality(r.evidence) + 1, at |-> at, kind |-> kind, ok |-> ok, item |-> item]
           s == Observed(r, at, kind, ok, item)
<1>1. s.evidence = r.evidence \union {e} /\ s.states = r.states
  BY ObservedTyped
<1>2. e.at = at
  OBVIOUS
<1> HIDE DEF e, s
<1>3. ASSUME NEW i \in Instances, r.states[i] # None
      PROVE  OnTime(r.states[i], Creation[i], s.evidence, now)
  <2> DEFINE q == r.states[i]
  <2>1. OnTime(q, Creation[i], r.evidence, now) /\ q \in States
    BY <1>3 DEF Timely, Typed, Fit
  <2>2. q.first # None => q.first \in Time
    BY <2>1 DEF States, Maybe
  <2> HIDE DEF q
  <2>3. q.first # None => q.first <= at + Lag
    BY <2>1, <2>2, DelayAssumption DEF OnTime, Setting, Time
  <2>4. QED
    BY <1>1, <1>2, <2>1, <2>3 DEF OnTime, q
<1>4. QED
  BY <1>1, <1>2, <1>3 DEF Timely, s

LEMMA RecalledSound ==
    ASSUME Setting, NEW r, Typed(r), Timely(r, Creation, now), Dated(r, now), NEW t \in Time, t <= now, now <= t + Lag,
           NEW kind \in Kinds, NEW ok \in BOOLEAN, NEW item \in Maybe(Names)
    PROVE  LET s == Observed(r, t, kind, ok, item)
           IN  Timely(s, Creation, now) /\ Dated(s, now)
<1> DEFINE s == Observed(r, t, kind, ok, item)
<1>1. Timely(s, Creation, now) /\ \E e \in s.evidence : s.evidence = r.evidence \union {e} /\ e.at = t
  BY ObservedTimely
<1> HIDE DEF s
<1>2. Dated(s, now)
  BY <1>1 DEF Dated
<1>3. QED
  BY <1>1, <1>2 DEF s

LEMMA SoundStudy ==
    ASSUME Prompt, ReviewInv, TimelyInv, NEW t \in Clocks, NEW c \in Concepts, Study(t, c)
    PROVE  TimelyInv'
<1> DEFINE r == record[c]
<1>1. t \in Time /\ t <= now /\ now <= t + Lag /\ now \in Time
  BY ClockPast DEF ReviewInv, Setting
<1>2. Ready(r) /\ Sound(r) /\ Based(r)
  BY SoundRecord DEF Ready
<1> HIDE DEF r
<1>3. ASSUME NEW e \in Answers, NEW i \in Actives, NEW age \in Ages, RecordEvidence(t, i, c, e.kind, e.ok, age)
      PROVE  TimelyInv'
  <2> DEFINE s == Observed(r, t - age, e.kind, e.ok, None)
  <2>1. t - age \in Time /\ now <= (t - age) + Lag
    BY <1>1, <1>3, AgesAssumption, DelayAssumption DEF RecordEvidence, Time, Prompt
  <2>2. e.kind \in Kinds \ {"review_recall"} /\ e.ok \in BOOLEAN /\ None \in Maybe(Names) /\ i \in Instances
    BY AnswersAssumption DEF Maybe, Actives
  <2>3. Based(s)
    BY <1>2, <2>1, <2>2, ObservedBased
  <2>4. Timely(s, Creation, now)
    BY <1>2, <2>1, <2>2, ObservedTimely DEF Ready, Based
  <2> HIDE DEF s
  <2>5. Ready(s)
    BY <1>2, <2>3, <2>4 DEF Ready
  <2>6. ASSUME NEW q \in Studied(s, i, t) PROVE Sound(q)
    BY <1>1, <2>2, <2>5, StudiedTimely DEF Sound, Dated
  <2>7. Commit(c, Studied(s, i, t))
    BY <1>3 DEF RecordEvidence, s, r
  <2>8. QED
    BY <2>6, <2>7, SoundCommit
<1>4. ASSUME NEW e \in Answers, Diagnose(t, c, e.kind, e.ok) PROVE TimelyInv'
  <2> DEFINE s == Observed(r, t, e.kind, e.ok, None)
  <2>1. e.kind \in Kinds /\ e.ok \in BOOLEAN /\ None \in Maybe(Names)
    BY AnswersAssumption DEF Maybe
  <2>2. Sound(s)
    BY <1>1, <1>2, <2>1, RecalledSound DEF Ready, Sound, Based
  <2>3. Commit(c, {s})
    BY <1>4 DEF Diagnose, r
  <2> HIDE DEF s
  <2>4. QED
    BY <2>2, <2>3, SoundCommit
<1>5. ASSUME NEW i \in Actives, RecalculateProgression(t, i, c) PROVE TimelyInv'
  <2>1. i \in Instances
    BY DEF Actives
  <2>2. \A q \in Studied(r, i, t) : Sound(q)
    BY <1>1, <1>2, <2>1, StudiedTimely DEF Sound, Dated
  <2>3. QED
    BY <1>5, <2>2, SoundCommit DEF RecalculateProgression, r
<1>6. ASSUME RecalculateRetention(t, c) PROVE TimelyInv'
  <2>1. \A q \in Due(r, t) : Sound(q)
    BY <1>1, <1>2, DueTimely, DueBased DEF Sound, Dated
  <2>2. QED
    BY <1>6, <2>1, SoundCommit DEF RecalculateRetention, r
<1>7. QED
  BY <1>3, <1>4, <1>5, <1>6 DEF Study

LEMMA SoundReview ==
    ASSUME ReviewInv, TimelyInv, NEW t \in Clocks, NEW c \in Concepts, Review(t, c)
    PROVE  TimelyInv'
<1> DEFINE r == record[c]
<1>1. t \in Time /\ t <= now /\ now <= t + Lag /\ now \in Time
  BY ClockPast DEF ReviewInv, Setting
<1>2. Ready(r) /\ Sound(r) /\ RecordInv(r) /\ Based(r) /\ \A i \in r.items : i \in Items
  BY SoundRecord DEF Ready, Based, Typed, Records
<1>3. PICK item \in r.items :
        \/ \E until \in item.due + 1..MaxTime + 1 : Postpone(t, c, item, until)
        \/ Skip(t, c, item)
        \/ \E ok \in BOOLEAN : RecordOutcome(t, c, item, ok)
  BY DEF Review
<1>4. ASSUME NEW a, Based(a), a.states = r.states, a.evidence = r.evidence, NEW due \in Time,
             NEW s \in Rescheduled(a, due, t)
      PROVE  Based(s) /\ Sound(s) /\ s.states = r.states /\ s.evidence = r.evidence
  <2>1. a.schedule # None /\ s \in Saved(a, a.schedule.introduced, due, t)
    BY <1>4 DEF Rescheduled
  <2>2. a.schedule.introduced \in Time
    BY <1>4, <2>1 DEF Based, Typed, Records, Maybe, Schedules
  <2>3. Based(s) /\ s.states = a.states /\ s.evidence = a.evidence
    BY <1>1, <1>4, <2>1, <2>2, SavedBased
  <2>4. QED
    BY <1>2, <1>4, <2>3 DEF Sound, Dated, Timely
<1>5. ASSUME NEW until \in item.due + 1..MaxTime + 1, Postpone(t, c, item, until) PROVE TimelyInv'
  <2>1. until \in Time
    BY <1>2, BoundAssumption DEF Items, Time
  <2>2. ASSUME NEW i \in Postponed(item, until, t), NEW s \in Rescheduled(Replace(r, item, i), until, t)
        PROVE  Sound(s)
    <3>1. i \in Items /\ i.id = item.id /\ i.status = "pending" /\ item \in Pending(r)
      BY <1>1, <1>2, <2>1, PostponedItem DEF Pending
    <3>2. /\ Based(Replace(r, item, i)) /\ Replace(r, item, i).states = r.states
          /\ Replace(r, item, i).evidence = r.evidence
      BY <1>2, <3>1, ReplaceTyped, ReplaceBased
    <3>3. QED
      BY <1>4, <2>1, <3>2
  <2>3. Commit(c, UNION {Rescheduled(Replace(r, item, i), until, t) : i \in Postponed(item, until, t)})
    BY <1>5 DEF Postpone
  <2> HIDE DEF r
  <2>4. QED
    BY <2>2, <2>3, SoundCommit
<1>6. ASSUME Skip(t, c, item) PROVE TimelyInv'
  <2>1. ASSUME NEW i \in Closed(item, "skipped", FALSE, t), NEW n \in Successors(item, t),
               NEW s \in Succeeded(Replace(r, item, i), n, t)
        PROVE  Sound(s)
    <3>1. i \in Items /\ i.id = item.id /\ i.status = "skipped" /\ item \in Pending(r)
      <4>1. i \in Items /\ i.id = item.id /\ i.status = "skipped" /\ item.status = "pending"
        BY <1>1, <1>2 DEF Closed, Items, Maybe
      <4>2. QED
        BY <4>1 DEF Pending
    <3>2. /\ Based(Replace(r, item, i)) /\ Replace(r, item, i).states = r.states
          /\ Replace(r, item, i).evidence = r.evidence
      BY <1>2, <3>1, ReplaceTyped, ReplaceBased
    <3>3. n \in Items /\ n.status = "pending" /\ n.due \in Time
      BY <1>1, <1>2, SuccessorItem DEF Items
    <3>4. PICK a \in Rescheduled(Replace(r, item, i), n.due, t) : s \in Creations(a, n)
      BY DEF Succeeded
    <3>5. Based(a) /\ Sound(a)
      BY <1>4, <3>2, <3>3
    <3>6. s.evidence = a.evidence /\ s.states = a.states
      BY <3>3, <3>4, <3>5, CreationBased
    <3>7. QED
      BY <3>5, <3>6 DEF Sound, Dated, Timely
  <2>2. ASSUME NEW s \in Skipped(r, item, t) PROVE Sound(s)
    <3> DEFINE skips == Closed(item, "skipped", FALSE, t)
               Outcome(i) == UNION {Succeeded(Replace(r, item, i), n, t) : n \in Successors(item, t)}
    <3>1. s \in UNION {Outcome(i) : i \in skips}
      BY <2>2 DEF Skipped
    <3>2. \E i \in skips : s \in Outcome(i)
      <4> HIDE DEF skips, Outcome
      <4>1. QED
        BY <3>1
    <3>3. PICK i \in skips : s \in Outcome(i)
      BY <3>2
    <3>4. PICK n \in Successors(item, t) : s \in Succeeded(Replace(r, item, i), n, t)
      BY <3>3
    <3>5. QED
      BY <2>1, <3>4
  <2>3. QED
    BY <1>6, <2>2, SoundCommit DEF Skip
<1>7. ASSUME NEW ok \in BOOLEAN, RecordOutcome(t, c, item, ok) PROVE TimelyInv'
  <2>1. ASSUME NEW s \in Reviewed(r, item, ok, t) PROVE Sound(s)
    <3>1. PICK i \in Closed(item, "completed", ok, t) :
            LET a == Observed(Replace(r, item, i), t, "review_recall", ok, item.id)
            IN  Current(a, Actives) # {} /\ s \in Listed(a, t)
      BY <2>1 DEF Reviewed
    <3> DEFINE b == Replace(r, item, i)
               a == Observed(b, t, "review_recall", ok, item.id)
    <3>2. i \in Items /\ i.id = item.id /\ item \in Pending(r) /\ item.id \in Maybe(Names)
      BY <1>1, <1>2, ClosedItem DEF Pending, Items, Maybe
    <3>3. Typed(b) /\ b.states = r.states /\ b.evidence = r.evidence
      BY <1>2, <3>2, ReplaceTyped
    <3>4. Based(a)
      BY <1>1, <1>2, OutcomeBased
    <3>5. s \in Listed(a, t)
      BY <3>1
    <3>6. "review_recall" \in Kinds
      BY DEF Kinds
    <3> HIDE DEF b
    <3>7. Timely(a, Creation, now) /\ Dated(a, now)
      <4>1. Setting /\ Timely(b, Creation, now) /\ Dated(b, now)
        BY <1>2, <3>3 DEF Sound, Ready, Timely, Dated
      <4>2. QED
        BY <1>1, <3>2, <3>3, <3>6, <4>1, RecalledSound
    <3> HIDE DEF a
    <3>8. Ready(a)
      BY <1>2, <3>4, <3>7 DEF Ready
    <3>9. Timely(s, Creation, now) /\ s.evidence = a.evidence
      BY <1>1, <3>5, <3>8, ListedTimely
    <3>10. QED
      BY <3>7, <3>9 DEF Sound, Dated
  <2> DEFINE outcomes == IF item.status = "completed" THEN {} ELSE Reviewed(r, item, ok, t)
  <2>2. \A s \in outcomes : Sound(s)
    BY <2>1
  <2>3. Commit(c, outcomes)
    BY <1>7 DEF RecordOutcome
  <2> HIDE DEF outcomes
  <2>4. QED
    BY <2>2, <2>3, SoundCommit
<1>8. QED
  BY <1>3, <1>5, <1>6, <1>7

LEMMA SoundList ==
    ASSUME ReviewInv, TimelyInv, NEW t \in Clocks, List(t)
    PROVE  TimelyInv'
<1> DEFINE outcomes == [c \in Concepts |-> Listed(record[c], t)]
<1>1. record' \in Together(outcomes) /\ t \in Time /\ t <= now /\ now' = now /\ instance' = instance
  BY ClockPast DEF List
<1>2. \A c \in Concepts : record'[c] \in Listed(record[c], t)
  BY <1>1, TogetherOf
<1>3. \A c \in Concepts : Sound(record'[c])
  BY <1>1, <1>2, SoundRecord, ListedTimely DEF Sound, Dated
<1>4. Opened' /\ Creation' = Creation
  BY <1>1 DEF TimelyInv, Opened, Creation
<1>5. QED
  BY <1>1, <1>3, <1>4 DEF TimelyInv, Sound

LEMMA RebuiltOnTime ==
    ASSUME NEW r, Ready(r), NEW i \in Instances, NEW t \in Time, t <= now, NEW s \in Rebuilt(r, i, t), s # None
    PROVE  OnTime(s, instance[i].created, r.evidence, now)
<1>1. CASE i \notin Created \/ (r.states[i] = None /\ r.evidence = {})
  <2>1. s = r.states[i]
    BY <1>1 DEF Rebuilt
  <2>2. QED
    BY <2>1 DEF Ready, Timely, Creation
<1>2. CASE ~(i \notin Created \/ (r.states[i] = None /\ r.evidence = {}))
  <2>1. Fit(StateOf(r, i)) /\ OnTime(StateOf(r, i), instance[i].created, r.evidence, now)
    BY StateOfOnTime
  <2>2. /\ r.evidence \in SUBSET Observations /\ IsFiniteSet(r.evidence) /\ instance[i].created \in Time
        /\ now \in Time
    BY DEF Ready, Based, Typed, Records, Setting
  <2>3. PICK q \in Progressed(StateOf(r, i), r.evidence, instance[i].created, t) :
          \E n \in Projected(q, r.evidence, t) : s \in {StateOf(r, i), n}
    BY <1>2 DEF Rebuilt
  <2>4. PICK n \in Projected(q, r.evidence, t) : s \in {StateOf(r, i), n}
    BY <2>3
  <2>5. Fit(q) /\ OnTime(q, instance[i].created, r.evidence, now)
    BY <2>1, <2>2, ProgressedFit, ProgressedOnTime
  <2>6. OnTime(n, instance[i].created, r.evidence, now)
    BY <2>2, <2>5, ProjectedOnTime
  <2>7. QED
    BY <2>1, <2>4, <2>6
<1>3. QED
  BY <1>1, <1>2

\* Recalculation takes the states anew, and then schedules.
LEMMA RecalculatedOf ==
    ASSUME Setting, NEW r, Based(r), NEW t \in Time, NEW s \in Recalculated(r, t)
    PROVE  \E a : /\ Based(a) /\ a.items = r.items /\ a.evidence = r.evidence
                  /\ \A i \in Instances : a.states[i] \in Rebuilt(r, i, t)
                  /\ \/ Current(a, Actives) = {} /\ s = a
                     \/ Current(a, Actives) # {} /\ \E introduced \in Time : s \in Scheduled(a, introduced, t)
<1> DEFINE outcomes == [i \in Instances |-> Rebuilt(r, i, t)]
<1> DEFINE From(f) ==
             IF Current([r EXCEPT !.states = f], Actives) = {} THEN {[r EXCEPT !.states = f]}
             ELSE UNION {Scheduled([r EXCEPT !.states = f], [r EXCEPT !.states = f].states[i].first, t) :
                           i \in Current([r EXCEPT !.states = f], Actives)}
<1>1. s \in UNION {From(f) : f \in Together(outcomes)}
  BY DEF Recalculated
<1>2. PICK f \in Together(outcomes) : s \in From(f)
  <2> HIDE DEF From
  <2>1. QED
    BY <1>1
<1>3. f = [i \in Instances |-> f[i]] /\ \A i \in Instances : f[i] \in Rebuilt(r, i, t)
  BY TogetherOf
<1>4. f \in [Instances -> Maybe(States)] /\ \A i \in Instances : f[i] # None => Fit(f[i])
  BY <1>3, RebuiltFit DEF Based
<1> DEFINE a == [r EXCEPT !.states = f]
<1>5. Based(a) /\ a.items = r.items /\ a.evidence = r.evidence
  BY <1>4, StatesOnly
<1>6. a.states = f
  BY DEF Based, Typed, Records
<1>7. \/ Current(a, Actives) = {} /\ s = a
      \/ \E i \in Current(a, Actives) : s \in Scheduled(a, a.states[i].first, t)
  BY <1>2
<1> HIDE DEF a
<1>8. \A i \in Current(a, Actives) : a.states[i].first \in Time
  BY <1>5, CurrentSeen DEF Based
<1>9. \/ Current(a, Actives) = {} /\ s = a
      \/ Current(a, Actives) # {} /\ \E introduced \in Time : s \in Scheduled(a, introduced, t)
  BY <1>7, <1>8
<1>10. QED
  BY <1>3, <1>5, <1>6, <1>9

LEMMA RecalculatedTimely ==
    ASSUME NEW r, Ready(r), NEW t \in Time, t <= now, NEW s \in Recalculated(r, t)
    PROVE  Timely(s, Creation, now) /\ s.evidence = r.evidence
<1>1. PICK a : /\ Based(a) /\ a.items = r.items /\ a.evidence = r.evidence
               /\ \A i \in Instances : a.states[i] \in Rebuilt(r, i, t)
               /\ s = a \/ \E introduced \in Time : s \in Scheduled(a, introduced, t)
  BY RecalculatedOf DEF Ready
<1>2. \A i \in Instances : a.states[i] # None => OnTime(a.states[i], instance[i].created, r.evidence, now)
  BY <1>1, RebuiltOnTime
<1>3. Timely(a, Creation, now)
  BY <1>1, <1>2 DEF Timely, Creation
<1>4. ASSUME NEW introduced \in Time, s \in Scheduled(a, introduced, t)
      PROVE  Timely(s, Creation, now) /\ s.evidence = r.evidence
  <2>1. s.states = a.states /\ s.evidence = a.evidence
    BY <1>1, <1>4, ScheduledKeeps
  <2>2. QED
    BY <1>1, <1>3, <2>1 DEF Timely
<1>5. QED
  BY <1>1, <1>3, <1>4

LEMMA SoundRecalculate ==
    ASSUME ReviewInv, TimelyInv, NEW t \in Clocks, Recalculate(t)
    PROVE  TimelyInv'
<1> DEFINE outcomes == [c \in Concepts |-> Recalculated(record[c], t)]
<1>1. record' \in Together(outcomes) /\ t \in Time /\ t <= now /\ now' = now /\ instance' = instance
  BY ClockPast DEF Recalculate
<1>2. \A c \in Concepts : record'[c] \in Recalculated(record[c], t)
  BY <1>1, TogetherOf
<1>3. \A c \in Concepts : Sound(record'[c])
  BY <1>1, <1>2, SoundRecord, RecalculatedTimely DEF Sound, Dated
<1>4. Opened' /\ Creation' = Creation
  BY <1>1 DEF TimelyInv, Opened, Creation
<1>5. QED
  BY <1>1, <1>3, <1>4 DEF TimelyInv, Sound

\* A state that moves to a newer version was introduced before it.
LEMMA MigratedOnTime ==
    ASSUME NEW s \in States, NEW E, NEW created \in Time, NEW t \in Time, NEW n \in Time, created <= t, t <= n,
           OnTime(s, created, E, n)
    PROVE  OnTime([s EXCEPT !.updated = t], t, E, n)
<1> DEFINE u == [s EXCEPT !.updated = t]
<1>1. u.updated = t /\ u.first = s.first
  BY DEF States
<1> HIDE DEF u
<1>2. s.first # None => s.first \in Time
  BY DEF States, Maybe
<1>3. s.first # None /\ s.first <= created => s.first <= t
  BY <1>2 DEF Time
<1>4. OnTime(u, t, E, n)
  BY <1>1, <1>3 DEF OnTime
<1>5. QED
  BY <1>4 DEF u

LEMMA SoundMigrate ==
    ASSUME ReviewInv, TimelyInv, NEW t \in Clocks, NEW j \in Instances \ Created, NEW i \in Actives,
           NEW kept \in SUBSET Concepts, Migrate(t, i, j, kept)
    PROVE  TimelyInv'
<1>1. t \in Time /\ t <= now /\ now \in Time /\ i \in Instances /\ i # j
  BY ClockPast DEF Actives, Created, ReviewInv, Setting
<1>2. /\ now' = now /\ instance[i].created <= t
      /\ instance' = [instance EXCEPT ![i].status = "archived", ![j] = [status |-> "active", created |-> t]]
  BY DEF Migrate
<1>3. \A k \in Instances : /\ instance'[k].created = IF k = j THEN t ELSE instance[k].created
                           /\ instance'[k].status = IF k = j THEN "active" ELSE IF k = i THEN "archived"
                                                    ELSE instance[k].status
  BY <1>1, <1>2 DEF ReviewInv, Setting
<1>4. Opened'
  <2>1. ASSUME NEW k \in Instances
        PROVE  instance'[k].created <= now' /\ (instance'[k].status = "none" => instance'[k].created = 0)
    <3>1. instance[k].created <= now /\ (instance[k].status = "none" => instance[k].created = 0)
      BY DEF TimelyInv, Opened
    <3>2. CASE k = j
      <4>1. instance'[k].created = t /\ instance'[k].status = "active"
        BY <1>3, <3>2, Zenon
      <4>2. QED
        BY <1>1, <1>2, <4>1
    <3>3. CASE k # j
      <4>1. instance'[k].created = instance[k].created
            /\ (instance'[k].status = "none" => instance[k].status = "none")
        BY <1>3, <3>3
      <4>2. QED
        BY <1>2, <3>1, <4>1
    <3>4. QED
      BY <3>2, <3>3
  <2>2. QED
    BY <2>1 DEF Opened
<1>5. ASSUME NEW c \in Concepts PROVE Dated(record'[c], now) /\ Timely(record'[c], Creation', now)
  <2> DEFINE r == record[c]
             n == IF c \in kept THEN Migrated(r.states[i], t) ELSE NewState(t)
  <2>1. Ready(r) /\ Sound(r) /\ r \in Records /\ Based(r)
    BY SoundRecord DEF Ready, Based, Typed
  <2>2. record'[c] = [r EXCEPT !.states[j] = n]
    BY DEF Migrate
  <2>3. record'[c].evidence = r.evidence /\ record'[c].states = [r.states EXCEPT ![j] = n]
    BY <2>1, <2>2 DEF Records
  <2>4. n # None => OnTime(n, t, r.evidence, now)
    <3>1. CASE c \in kept
      <4>1. CASE r.states[i] = None
        BY <3>1, <4>1 DEF Migrated
      <4>2. CASE r.states[i] # None
        <5>1. n = [r.states[i] EXCEPT !.updated = t]
          BY <3>1, <4>2 DEF Migrated
        <5>2. r.states[i] \in States /\ OnTime(r.states[i], instance[i].created, r.evidence, now)
          BY <1>1, <2>1, <4>2 DEF Ready, Timely, Creation, Based, Typed, Fit
        <5>3. instance[i].created \in Time
          BY <1>1 DEF ReviewInv, Setting
        <5> HIDE DEF n, r
        <5>4. QED
          BY <1>1, <1>2, <5>1, <5>2, <5>3, MigratedOnTime
      <4>3. QED
        BY <4>1, <4>2
    <3>2. CASE c \notin kept
      <4>1. n.updated = t /\ n.first = None
        BY <3>2 DEF NewState
      <4>2. QED
        BY <1>1, <4>1 DEF OnTime, Time
    <3>3. QED
      BY <3>1, <3>2
  <2> HIDE DEF n
  <2>5. \A k \in Instances : record'[c].states[k] = IF k = j THEN n ELSE r.states[k]
    BY <2>1, <2>3 DEF Records
  <2>6. \A k \in Instances : Creation'[k] = IF k = j THEN t ELSE Creation[k]
    BY <1>3 DEF Creation
  <2> HIDE DEF r
  <2>7. Timely(record'[c], Creation', now)
    BY <2>1, <2>3, <2>4, <2>5, <2>6 DEF Timely, Ready
  <2>8. QED
    BY <2>1, <2>3, <2>7 DEF Sound, Dated
<1>6. QED
  BY <1>2, <1>4, <1>5 DEF TimelyInv

LEMMA SoundCreate ==
    ASSUME ReviewInv, TimelyInv, NEW t \in Clocks, NEW j \in Instances \ Created, Create(t, j)
    PROVE  TimelyInv'
<1>1. t \in Time /\ t <= now /\ now \in Time /\ instance[j].created = 0
  BY ClockPast DEF Created, TimelyInv, Opened, ReviewInv, Setting
<1>2. now' = now /\ record' = record /\ instance' = [instance EXCEPT ![j] = [status |-> "active", created |-> t]]
  BY DEF Create
<1>3. \A k \in Instances : /\ instance'[k].created = IF k = j THEN t ELSE instance[k].created
                           /\ instance'[k].status = IF k = j THEN "active" ELSE instance[k].status
  BY <1>2 DEF ReviewInv, Setting
<1>4. Opened'
  BY <1>1, <1>2, <1>3 DEF TimelyInv, Opened
<1>5. \A k \in Instances : Creation[k] \in Time /\ Creation'[k] \in Time /\ Creation[k] <= Creation'[k]
  BY <1>1, <1>3 DEF Creation, ReviewInv, Setting, Time
<1>6. ASSUME NEW c \in Concepts, NEW k \in Instances, record[c].states[k] # None
      PROVE  OnTime(record[c].states[k], Creation'[k], record[c].evidence, now)
  <2> DEFINE s == record[c].states[k]
  <2>1. OnTime(s, Creation[k], record[c].evidence, now) /\ (s.first # None => s.first \in Time)
    BY <1>6, SoundRecord DEF Ready, Timely, Based, Typed, Fit, States, Maybe
  <2> HIDE DEF s
  <2>2. s.first # None /\ s.first <= Creation[k] => s.first <= Creation'[k]
    BY <1>5, <2>1 DEF Time
  <2>3. OnTime(s, Creation'[k], record[c].evidence, now)
    BY <2>1, <2>2 DEF OnTime
  <2>4. QED
    BY <2>3 DEF s
<1>7. QED
  BY <1>2, <1>4, <1>6 DEF TimelyInv, Timely

LEMMA SoundTick ==
    ASSUME ReviewInv, TimelyInv, Tick
    PROVE  TimelyInv'
<1>1. now \in Nat /\ now' = now + 1 /\ record' = record /\ instance' = instance
  BY DEF Tick, ReviewInv, Setting, Time
<1>2. Opened'
  BY <1>1 DEF TimelyInv, Opened, ReviewInv, Setting, Time
<1>3. Creation' = Creation
  BY <1>1 DEF Creation
<1>4. ASSUME NEW c \in Concepts PROVE Dated(record[c], now + 1) /\ Timely(record[c], Creation, now + 1)
  <2>1. Ready(record[c]) /\ Sound(record[c]) /\ record[c].evidence \in SUBSET Observations
    BY SoundRecord DEF Ready, Based, Typed, Records
  <2>2. Dated(record[c], now + 1)
    BY <1>1, <2>1 DEF Sound, Dated, Observations, Time
  <2>3. ASSUME NEW k \in Instances, record[c].states[k] # None
        PROVE  OnTime(record[c].states[k], Creation[k], record[c].evidence, now + 1)
    <3> DEFINE s == record[c].states[k]
    <3>1. /\ OnTime(s, Creation[k], record[c].evidence, now)
          /\ s.updated \in Time /\ (s.first # None => s.first \in Time)
      BY <2>1, <2>3 DEF Ready, Timely, Based, Typed, Fit, States, Maybe
    <3> HIDE DEF s
    <3>2. OnTime(s, Creation[k], record[c].evidence, now + 1)
      BY <1>1, <3>1 DEF OnTime, Time
    <3>3. QED
      BY <3>2 DEF s
  <2>4. QED
    BY <2>2, <2>3 DEF Timely
<1>5. QED
  BY <1>1, <1>2, <1>3, <1>4 DEF TimelyInv

LEMMA TimelyInvariant ==
    ASSUME Prompt
    PROVE  Spec => [](ReviewInv /\ TimelyInv)
<1>1. ReviewInv /\ TimelyInv /\ [Next]_vars => TimelyInv'
  <2> SUFFICES ASSUME ReviewInv, TimelyInv, [Next]_vars PROVE TimelyInv'
    OBVIOUS
  <2>1. CASE UNCHANGED vars
    BY <2>1 DEF vars, TimelyInv, Opened, Creation
  <2>2. QED
    BY <2>1, SoundTick, SoundCreate, SoundMigrate, SoundList, SoundRecalculate, SoundStudy, SoundReview DEF Next
<1>2. Spec => []ReviewInv
  BY ReviewInvariant
<1>3. Init => TimelyInv
  BY TimelyInit
<1>4. QED
  BY <1>1, <1>2, <1>3, PTL DEF Spec

\* Listing the reviews twice is listing them once: the second time it succeeds and
\* leaves every review as it is, in whatever order commands with old clocks came
\* before, for concepts no active curriculum of which is younger than the evidence.
THEOREM ListingIsIdempotent ==
    ASSUME Prompt
    PROVE  Spec => []ListingSettles
<1>1. ReviewInv /\ TimelyInv => ListingSettles
  BY Settles
<1>2. QED
  BY <1>1, TimelyInvariant, PTL

-----------------------------------------------------------------------------
(* The names of the reviews.                                               *)

\* A skipped review is followed by one that is named after the number of all the
\* student's reviews, so this holds of a student's only concept.
Numbered(r) == \A i \in r.items : i.id[2] < Cardinality(r.items)

NumberedInv == \A c \in Concepts : Numbered(record[c])

LEMMA NumberedReplace ==
    ASSUME NEW r, Based(r), Numbered(r), NEW old \in Pending(r), NEW new \in Items, new.id = old.id
    PROVE  LET s == Replace(r, old, new)
           IN  Typed(s) /\ Numbered(s) /\ Cardinality(s.items) = Cardinality(r.items)
<1> DEFINE s == Replace(r, old, new)
<1>1. Typed(s) /\ s.items = (r.items \ {old}) \union {new}
  BY ReplaceTyped
<1> HIDE DEF s
<1>2. old \in r.items /\ new \notin r.items \ {old}
  BY DEF Based, Named, Pending
<1>3. IsFiniteSet(r.items) /\ IsFiniteSet(r.items \ {old})
  BY FS_RemoveElement DEF Based, Typed
<1>4. Cardinality(r.items \ {old}) = Cardinality(r.items) - 1 /\ Cardinality(r.items) \in Nat
  BY <1>2, <1>3, FS_RemoveElement, FS_CardinalityType
<1>5. Cardinality((r.items \ {old}) \union {new}) = Cardinality(r.items \ {old}) + 1
  BY <1>2, <1>3, FS_AddElement
<1>6. Cardinality(s.items) = Cardinality(r.items)
  BY <1>1, <1>4, <1>5
<1>7. Numbered(s)
  BY <1>1, <1>2, <1>6 DEF Numbered
<1>8. QED
  BY <1>1, <1>6, <1>7 DEF s

LEMMA NumberedCreation ==
    ASSUME NEW r, Based(r), Numbered(r), NEW item \in Items, item.id[2] <= Cardinality(r.items),
           NEW s \in Creations(r, item)
    PROVE  Numbered(s)
<1>1. item \notin r.items /\ s.items = r.items \union {item}
  BY DEF Creations, Based, Typed, Records
<1>2. Cardinality(s.items) = Cardinality(r.items) + 1 /\ Cardinality(r.items) \in Nat
  BY <1>1, FS_AddElement, FS_CardinalityType DEF Based, Typed
<1>3. \A i \in r.items : i.id[2] \in Nat
  BY DEF Based, Typed, Records, Items, Names
<1>4. item.id[2] \in Nat
  BY DEF Items, Names
<1> DEFINE n == Cardinality(r.items)
<1> HIDE DEF n
<1>5. \A i \in s.items : i.id[2] < n + 1
  <2>1. \A i \in r.items : i.id[2] < n
    BY DEF Numbered, n
  <2>2. item.id[2] <= n /\ n \in Nat
    BY <1>2 DEF n
  <2>3. QED
    BY <1>1, <1>3, <1>4, <2>1, <2>2
<1>6. QED
  BY <1>2, <1>5 DEF Numbered, n

LEMMA ScheduledNumbered ==
    ASSUME NEW r, Based(r), Numbered(r), NEW introduced \in Time, NEW t \in Time, NEW s \in Scheduled(r, introduced, t)
    PROVE  Numbered(s)
<1>1. CASE Recalls(r.evidence) = {}
  BY <1>1 DEF Scheduled
<1>2. CASE Recalls(r.evidence) # {}
  <2> DEFINE due == DueDate(r)
             item == NewItem(<<due, Cardinality(r.items)>>, due, t)
  <2>1. due \in Time
    BY <1>2, DueDateOf
  <2>2. PICK v \in Saved(r, introduced, due, t) :
          IF Pending(r) = {} THEN s \in Creations(v, item) ELSE s \in {Replace(v, i, Align(i, due)) : i \in Pending(r)}
    BY <1>2 DEF Scheduled
  <2> HIDE DEF due
  <2>3. Based(v) /\ v.items = r.items
    BY <2>1, SavedBased
  <2>4. Numbered(v) /\ Pending(v) = Pending(r)
    BY <2>3 DEF Numbered, Pending
  <2>5. CASE Pending(r) = {}
    <3>1. Cardinality(r.items) \in Nat
      BY FS_CardinalityType DEF Based, Typed
    <3>2. item \in Items /\ item.id[2] = Cardinality(v.items)
      BY <2>1, <2>3, <3>1 DEF NewItem, Items, Names, Maybe
    <3> HIDE DEF item
    <3>3. s \in Creations(v, item)
      BY <2>2, <2>5
    <3>4. item.id[2] <= Cardinality(v.items)
      BY <2>3, <3>1, <3>2
    <3>5. QED
      BY <2>3, <2>4, <3>2, <3>3, <3>4, NumberedCreation
  <2>6. CASE Pending(r) # {}
    <3>1. PICK i \in Pending(r) : s = Replace(v, i, Align(i, due))
      BY <2>2, <2>6
    <3>2. i \in Items /\ i \in Pending(v)
      BY <2>3, <2>4 DEF Based, Typed, Records, Pending
    <3>3. Align(i, due) \in Items /\ Align(i, due).id = i.id
      BY <2>1, <3>2 DEF Align, Items
    <3>4. QED
      BY <2>3, <2>4, <3>1, <3>2, <3>3, NumberedReplace
  <2>7. QED
    BY <2>5, <2>6
<1>3. QED
  BY <1>1, <1>2

LEMMA ListedNumbered ==
    ASSUME NEW r, Based(r), Numbered(r), NEW t \in Time, NEW s \in Listed(r, t)
    PROVE  Numbered(s)
<1>1. CASE Current(r, Actives) = {}
  BY <1>1 DEF Listed
<1>2. CASE Current(r, Actives) # {}
  <2>1. Introduced(r) \in Time
    BY <1>2, IntroducedType
  <2>2. PICK d \in Due(r, t) : s \in Scheduled(d, Introduced(r), t)
    BY <1>2 DEF Listed
  <2>3. Based(d) /\ d.items = r.items
    BY DueBased
  <2>4. QED
    BY <2>1, <2>2, <2>3, ScheduledNumbered DEF Numbered
<1>3. QED
  BY <1>1, <1>2

LEMMA RecalculatedNumbered ==
    ASSUME Setting, NEW r, Based(r), Numbered(r), NEW t \in Time, NEW s \in Recalculated(r, t)
    PROVE  Numbered(s)
<1>1. PICK a : /\ Based(a) /\ a.items = r.items /\ a.evidence = r.evidence
               /\ \A i \in Instances : a.states[i] \in Rebuilt(r, i, t)
               /\ s = a \/ \E introduced \in Time : s \in Scheduled(a, introduced, t)
  BY RecalculatedOf
<1>2. Numbered(a)
  BY <1>1 DEF Numbered
<1>3. QED
  BY <1>1, <1>2, ScheduledNumbered

\* What a student with one concept has in reviews.
Single == \E c \in Concepts : Concepts = {c}

LEMMA CountOfOne ==
    ASSUME Single, ReviewInv, NEW c \in Concepts
    PROVE  Cardinality(UNION {{d} \X record[d].items : d \in Concepts}) = Cardinality(record[c].items)
<1>1. Concepts = {c}
  BY DEF Single
<1>2. UNION {{d} \X record[d].items : d \in Concepts} = {c} \X record[c].items
  BY <1>1
<1>3. IsFiniteSet(record[c].items) /\ IsFiniteSet({c}) /\ Cardinality({c}) = 1
  BY FS_Singleton DEF ReviewInv, RecordInv, Based, Typed
<1>4. Cardinality({c} \X record[c].items) = Cardinality({c}) * Cardinality(record[c].items)
  BY <1>3, FS_Product
<1>5. Cardinality(record[c].items) \in Nat
  BY <1>3, FS_CardinalityType
<1>6. QED
  BY <1>2, <1>3, <1>4, <1>5

LEMMA NumberedCommit ==
    ASSUME ReviewInv, NumberedInv, NEW c \in Concepts, NEW outcomes, Commit(c, outcomes),
           \A s \in outcomes : Numbered(s)
    PROVE  NumberedInv'
<1>1. PICK s \in outcomes : record' = [record EXCEPT ![c] = s]
  BY DEF Commit
<1>2. record' = [d \in Concepts |-> IF d = c THEN s ELSE record[d]]
  BY <1>1 DEF ReviewInv
<1>3. \A d \in Concepts : Numbered(record'[d])
  BY <1>2 DEF NumberedInv
<1>4. QED
  BY <1>3 DEF NumberedInv

LEMMA NumberedStudy ==
    ASSUME ReviewInv, NumberedInv, NEW t \in Clocks, NEW c \in Concepts, Study(t, c)
    PROVE  NumberedInv'
<1>1. t \in Time /\ Based(record[c]) /\ Setting /\ Numbered(record[c])
  BY ClockPast DEF ReviewInv, RecordInv, NumberedInv
<1>2. ASSUME NEW e \in Answers, NEW u \in Time
      PROVE  LET s == Observed(record[c], u, e.kind, e.ok, None) IN Based(s) /\ s.items = record[c].items
  <2>1. e.kind \in Kinds \ {"review_recall"} /\ e.ok \in BOOLEAN /\ None \in Maybe(Names)
    BY AnswersAssumption DEF Maybe
  <2>2. QED
    BY <1>1, <2>1, ObservedBased, ObservedTyped DEF Based
<1>3. ASSUME NEW s, Based(s), s.items = record[c].items, NEW i \in Actives, NEW q \in Studied(s, i, t)
      PROVE  Numbered(q)
  BY <1>1, <1>3, StudiedBased DEF Numbered, Actives
<1>4. ASSUME NEW e \in Answers, NEW i \in Actives, NEW age \in Ages, RecordEvidence(t, i, c, e.kind, e.ok, age)
      PROVE  NumberedInv'
  <2> DEFINE s == Observed(record[c], t - age, e.kind, e.ok, None)
  <2>1. t - age \in Time
    BY <1>1, <1>4, AgesAssumption DEF RecordEvidence, Time
  <2>2. Based(s) /\ s.items = record[c].items
    BY <1>2, <2>1
  <2>3. Commit(c, Studied(s, i, t))
    BY <1>4 DEF RecordEvidence
  <2> HIDE DEF s
  <2>4. QED
    BY <1>3, <2>2, <2>3, NumberedCommit
<1>5. ASSUME NEW e \in Answers, Diagnose(t, c, e.kind, e.ok) PROVE NumberedInv'
  <2> DEFINE s == Observed(record[c], t, e.kind, e.ok, None)
  <2>1. Numbered(s)
    BY <1>1, <1>2 DEF Numbered
  <2>2. Commit(c, {s})
    BY <1>5 DEF Diagnose
  <2> HIDE DEF s
  <2>3. QED
    BY <2>1, <2>2, NumberedCommit
<1>6. ASSUME NEW i \in Actives, RecalculateProgression(t, i, c) PROVE NumberedInv'
  <2>1. \A q \in Studied(record[c], i, t) : Numbered(q)
    BY <1>1, <1>3
  <2>2. QED
    BY <1>6, <2>1, NumberedCommit DEF RecalculateProgression
<1>7. ASSUME RecalculateRetention(t, c) PROVE NumberedInv'
  <2>1. \A q \in Due(record[c], t) : Numbered(q)
    BY <1>1, DueBased DEF Numbered
  <2>2. QED
    BY <1>7, <2>1, NumberedCommit DEF RecalculateRetention
<1>8. QED
  BY <1>4, <1>5, <1>6, <1>7 DEF Study

LEMMA NumberedReview ==
    ASSUME Single, ReviewInv, NumberedInv, NEW t \in Clocks, NEW c \in Concepts, Review(t, c)
    PROVE  NumberedInv'
<1> DEFINE r == record[c]
<1>1. t \in Time /\ RecordInv(r) /\ Based(r) /\ Numbered(r) /\ \A i \in r.items : i \in Items
  BY ClockPast DEF ReviewInv, RecordInv, NumberedInv, Based, Typed, Records
<1>2. PICK item \in r.items :
        \/ \E until \in item.due + 1..MaxTime + 1 : Postpone(t, c, item, until)
        \/ Skip(t, c, item)
        \/ \E ok \in BOOLEAN : RecordOutcome(t, c, item, ok)
  BY DEF Review
<1>3. ASSUME NEW i \in Items, i.id = item.id, item \in Pending(r)
      PROVE  LET a == Replace(r, item, i)
             IN  Typed(a) /\ Numbered(a) /\ Cardinality(a.items) = Cardinality(r.items)
  BY <1>1, <1>3, NumberedReplace
<1>4. ASSUME NEW until \in item.due + 1..MaxTime + 1, Postpone(t, c, item, until) PROVE NumberedInv'
  <2>1. until \in Time
    BY <1>1, BoundAssumption DEF Items, Time
  <2>2. ASSUME NEW i \in Postponed(item, until, t), NEW s \in Rescheduled(Replace(r, item, i), until, t)
        PROVE  Numbered(s)
    <3>1. i \in Items /\ i.id = item.id /\ i.status = "pending" /\ item \in Pending(r)
      BY <1>1, <2>1, PostponedItem DEF Pending
    <3>2. Based(Replace(r, item, i))
      BY <1>1, <3>1, ReplaceBased
    <3>3. s.items = Replace(r, item, i).items
      BY <1>1, <2>1, <3>2, RescheduledBased
    <3>4. QED
      BY <1>3, <3>1, <3>3 DEF Numbered
  <2>3. Commit(c, UNION {Rescheduled(Replace(r, item, i), until, t) : i \in Postponed(item, until, t)})
    BY <1>4 DEF Postpone
  <2> HIDE DEF r
  <2>4. QED
    BY <2>2, <2>3, NumberedCommit
<1>5. ASSUME Skip(t, c, item) PROVE NumberedInv'
  <2>1. ASSUME NEW i \in Closed(item, "skipped", FALSE, t), NEW n \in Successors(item, t),
               NEW s \in Succeeded(Replace(r, item, i), n, t)
        PROVE  Numbered(s)
    <3>1. i \in Items /\ i.id = item.id /\ i.status = "skipped" /\ item \in Pending(r)
      <4>1. i \in Items /\ i.id = item.id /\ i.status = "skipped" /\ item.status = "pending"
        BY <1>1 DEF Closed, Items, Maybe
      <4>2. QED
        BY <4>1 DEF Pending
    <3>2. Based(Replace(r, item, i))
      BY <1>1, <3>1, ReplaceBased
    <3>3. n \in Items /\ n.status = "pending" /\ n.due \in Time
      BY <1>1, SuccessorItem DEF Items
    <3>4. n.id[2] = Cardinality(r.items)
      <4> DEFINE due == Highest({item.due, t}) + Delay
                 count == Cardinality(UNION {{d} \X record[d].items : d \in Concepts})
      <4>1. n \in Postponed(NewItem(<<due, count>>, item.due, t), due, t)
        BY DEF Successors
      <4> HIDE DEF due, count
      <4>2. n.id = <<due, count>>
        BY <4>1 DEF Postponed, NewItem
      <4>3. count = Cardinality(r.items)
        BY CountOfOne DEF count
      <4>4. QED
        BY <4>2, <4>3
    <3>5. PICK a \in Rescheduled(Replace(r, item, i), n.due, t) : s \in Creations(a, n)
      BY DEF Succeeded
    <3>6. Based(a) /\ a.items = Replace(r, item, i).items
      BY <1>1, <3>2, <3>3, RescheduledBased
    <3>7. Numbered(a) /\ Cardinality(a.items) = Cardinality(r.items) /\ Cardinality(r.items) \in Nat
      BY <1>1, <1>3, <3>1, <3>6, FS_CardinalityType DEF Numbered, Based, Typed
    <3>8. n.id[2] <= Cardinality(a.items)
      BY <3>4, <3>7
    <3>9. QED
      BY <3>3, <3>5, <3>6, <3>7, <3>8, NumberedCreation
  <2>2. ASSUME NEW s \in Skipped(r, item, t) PROVE Numbered(s)
    <3> DEFINE skips == Closed(item, "skipped", FALSE, t)
               Outcome(i) == UNION {Succeeded(Replace(r, item, i), n, t) : n \in Successors(item, t)}
    <3>1. s \in UNION {Outcome(i) : i \in skips}
      BY <2>2 DEF Skipped
    <3>2. \E i \in skips : s \in Outcome(i)
      <4> HIDE DEF skips, Outcome
      <4>1. QED
        BY <3>1
    <3>3. PICK i \in skips : s \in Outcome(i)
      BY <3>2
    <3>4. PICK n \in Successors(item, t) : s \in Succeeded(Replace(r, item, i), n, t)
      BY <3>3
    <3>5. QED
      BY <2>1, <3>4
  <2>3. QED
    BY <1>5, <2>2, NumberedCommit DEF Skip
<1>6. ASSUME NEW ok \in BOOLEAN, RecordOutcome(t, c, item, ok) PROVE NumberedInv'
  <2>1. ASSUME NEW s \in Reviewed(r, item, ok, t) PROVE Numbered(s)
    <3>1. PICK i \in Closed(item, "completed", ok, t) :
            LET a == Observed(Replace(r, item, i), t, "review_recall", ok, item.id)
            IN  Current(a, Actives) # {} /\ s \in Listed(a, t)
      BY <2>1 DEF Reviewed
    <3> DEFINE b == Replace(r, item, i)
               a == Observed(b, t, "review_recall", ok, item.id)
    <3>2. i \in Items /\ i.id = item.id /\ item \in Pending(r) /\ item.id \in Maybe(Names)
      BY <1>1, ClosedItem DEF Pending, Items, Maybe
    <3>3. Typed(b) /\ Numbered(b)
      BY <1>3, <3>2
    <3>4. Based(a)
      BY <1>1, OutcomeBased
    <3>5. s \in Listed(a, t)
      BY <3>1
    <3>6. "review_recall" \in Kinds
      BY DEF Kinds
    <3> HIDE DEF b
    <3>7. a.items = b.items
      BY <1>1, <3>2, <3>3, <3>6, ObservedTyped
    <3> HIDE DEF a
    <3>8. Numbered(a)
      BY <3>3, <3>7 DEF Numbered
    <3>9. QED
      BY <1>1, <3>4, <3>5, <3>8, ListedNumbered
  <2> DEFINE outcomes == IF item.status = "completed" THEN {} ELSE Reviewed(r, item, ok, t)
  <2>2. \A s \in outcomes : Numbered(s)
    BY <2>1
  <2>3. Commit(c, outcomes)
    BY <1>6 DEF RecordOutcome
  <2> HIDE DEF outcomes
  <2>4. QED
    BY <2>2, <2>3, NumberedCommit
<1>7. QED
  BY <1>2, <1>4, <1>5, <1>6

LEMMA NumberedStep ==
    ASSUME Single, ReviewInv, NumberedInv, [Next]_vars
    PROVE  NumberedInv'
<1>1. \A c \in Concepts : Based(record[c]) /\ Numbered(record[c]) /\ Setting
  BY DEF ReviewInv, RecordInv, NumberedInv
<1>2. CASE UNCHANGED vars
  BY <1>2 DEF vars, NumberedInv
<1>3. ASSUME NEW t \in Clocks, List(t) PROVE NumberedInv'
  <2> DEFINE outcomes == [c \in Concepts |-> Listed(record[c], t)]
  <2>1. record' \in Together(outcomes) /\ t \in Time
    BY <1>3, ClockType DEF List
  <2>2. \A c \in Concepts : record'[c] \in Listed(record[c], t)
    BY <2>1, TogetherOf
  <2>3. QED
    BY <1>1, <2>1, <2>2, ListedNumbered DEF NumberedInv
<1>4. ASSUME NEW t \in Clocks, Recalculate(t) PROVE NumberedInv'
  <2> DEFINE outcomes == [c \in Concepts |-> Recalculated(record[c], t)]
  <2>1. record' \in Together(outcomes) /\ t \in Time
    BY <1>4, ClockType DEF Recalculate
  <2>2. \A c \in Concepts : record'[c] \in Recalculated(record[c], t)
    BY <2>1, TogetherOf
  <2>3. QED
    BY <1>1, <2>1, <2>2, RecalculatedNumbered DEF NumberedInv
<1>5. ASSUME NEW t \in Clocks, NEW j \in Instances, NEW i \in Actives, NEW kept \in SUBSET Concepts,
             Migrate(t, i, j, kept)
      PROVE  NumberedInv'
  <2>1. ASSUME NEW c \in Concepts PROVE record'[c].items = record[c].items
    BY <1>5 DEF Migrate, ReviewInv, RecordInv, Based, Typed, Records
  <2>2. QED
    BY <2>1 DEF NumberedInv, Numbered
<1>6. ASSUME UNCHANGED record PROVE NumberedInv'
  BY <1>6 DEF NumberedInv
<1>7. QED
  BY <1>2, <1>3, <1>4, <1>5, <1>6, NumberedStudy, NumberedReview DEF Next, Tick, Create

-----------------------------------------------------------------------------
(* What can refuse a listing or a recalculation.                           *)

\* A listing or a recalculation is refused for this reason only.
OnlyANameRefuses ==
    \A c \in Concepts : Seasoned(c) =>
        /\ Listed(record[c], now) = {} => NameTaken(record[c])
        /\ Recalculated(record[c], now) = {} => NameTaken(record[c])

\* Recalculation is not refused, and no state of an active curriculum is missing
\* after it that the evidence speaks of.
SeasonedMaterializes ==
    \A c \in Concepts : Seasoned(c) =>
        /\ Recalculated(record[c], now) # {}
        /\ \A r \in Recalculated(record[c], now), i \in Actives :
             record[c].evidence # {} => r.states[i] # None

\* No state is ahead of the clock, so each can be taken anew.
LEMMA RebuiltSome ==
    ASSUME NEW r, Ready(r), ~After(r.evidence, now), NEW i \in Instances
    PROVE  Rebuilt(r, i, now) # {}
<1>1. CASE i \notin Created \/ (r.states[i] = None /\ r.evidence = {})
  BY <1>1 DEF Rebuilt
<1>2. CASE ~(i \notin Created \/ (r.states[i] = None /\ r.evidence = {}))
  <2> DEFINE old == StateOf(r, i)
             created == instance[i].created
             E == r.evidence
  <2>1. Fit(old) /\ OnTime(old, created, E, now)
    BY StateOfOnTime
  <2>2. /\ E \in SUBSET Observations /\ IsFiniteSet(E) /\ created \in Time /\ now \in Time
        /\ created <= now /\ ~After(E, now)
    BY DEF Ready, Based, Typed, Records, Setting, Opened
  <2>3. Rebuilt(r, i, now) =
          {IF [s EXCEPT !.updated = old.updated] = old THEN old ELSE s :
             s \in UNION {Projected(q, E, now) : q \in Progressed(old, E, created, now)}}
    BY <1>2 DEF Rebuilt
  <2> HIDE DEF old, created, E
  <2>4. old.updated \in Time /\ old.updated <= now
    BY <2>1 DEF Fit, States, OnTime
  <2>5. ~(now < created \/ now < old.updated)
    BY <2>2, <2>4 DEF Time
  <2>6. Progressed(old, E, created, now) = Advanced(old, E, created, now)
    BY <2>2, <2>5 DEF Progressed
  <2>7. Advanced(old, E, created, now) # {}
    BY DEF Advanced
  <2>8. PICK q \in Progressed(old, E, created, now) : TRUE
    BY <2>6, <2>7
  <2>9. Fit(q) /\ OnTime(q, created, E, now)
    <3>1. now <= now
      BY <2>2 DEF Time
    <3>2. QED
      BY <2>1, <2>2, <3>1, ProgressedFit, ProgressedOnTime
  <2>10. q.updated \in Time /\ ~(now < q.updated)
    BY <2>2, <2>9 DEF Fit, States, OnTime, Time
  <2>11. Projected(q, E, now) # {}
    BY <2>10 DEF Projected
  <2>12. PICK s \in Projected(q, E, now) : TRUE
    BY <2>11
  <2>13. s \in UNION {Projected(p, E, now) : p \in Progressed(old, E, created, now)}
    BY <2>8, <2>12
  <2>14. QED
    BY <2>3, <2>13
<1>3. QED
  BY <1>1, <1>2

LEMMA RecalculatedSome ==
    ASSUME NEW r, Ready(r), Settled(r), Prompt, ~After(r.evidence, now), ~NameTaken(r)
    PROVE  Recalculated(r, now) # {}
<1> DEFINE outcomes == [i \in Instances |-> Rebuilt(r, i, now)]
           Next1(s) == IF Current(s, Actives) = {} THEN {s}
                       ELSE UNION {Scheduled(s, s.states[i].first, now) : i \in Current(s, Actives)}
<1>1. DOMAIN outcomes = Instances /\ \A i \in Instances : outcomes[i] # {}
  BY RebuiltSome
<1>2. Recalculated(r, now) = UNION {Next1([r EXCEPT !.states = f]) : f \in Together(outcomes)}
  BY DEF Recalculated
<1>3. ASSUME NEW f \in Together(outcomes)
      PROVE  f = [i \in Instances |-> f[i]] /\ \A i \in Instances : f[i] \in Rebuilt(r, i, now)
  BY <1>3, TogetherOf
<1> HIDE DEF outcomes
<1>4. PICK f \in Together(outcomes) : TRUE
  BY <1>1, TogetherSome
<1>5. f \in [Instances -> Maybe(States)] /\ (\A i \in Instances : f[i] # None => Fit(f[i])) /\ now \in Time
  BY <1>3, <1>4, RebuiltFit DEF Ready, Based, Setting
<1> DEFINE a == [r EXCEPT !.states = f]
<1>6. Based(a) /\ a.items = r.items /\ a.evidence = r.evidence
  BY <1>5, StatesOnly DEF Ready
<1>7. a.states = f
  BY DEF Ready, Based, Typed, Records
<1> HIDE DEF a
<1>8. Ready(a) /\ Settled(a) /\ ~NameTaken(a)
  <2>1. now <= now
    BY <1>5 DEF Time
  <2>2. Timely(a, Creation, now)
    BY <1>3, <1>4, <1>5, <1>6, <1>7, <2>1, RebuiltOnTime DEF Timely, Creation
  <2>3. ~NameTaken(a)
    BY <1>6, SameName
  <2>4. QED
    BY <1>6, <2>2, <2>3 DEF Ready, Settled
<1>9. Next1(a) # {}
  <2>1. CASE Current(a, Actives) = {}
    BY <2>1
  <2>2. CASE Current(a, Actives) # {}
    <3>1. PICK i \in Current(a, Actives) : TRUE
      BY <2>2
    <3> DEFINE introduced == a.states[i].first
    <3>2. introduced \in Time
          /\ (Recalls(a.evidence) # {} => introduced <= NextDue(a.evidence) /\ introduced <= now)
      BY <1>6, <1>8, <3>1, CurrentSeen, StateBeforeDue DEF Based
    <3> HIDE DEF introduced
    <3>3. Scheduled(a, introduced, now) # {}
      BY <1>6, <1>8, <3>2, ScheduledSome DEF Ready
    <3>4. Next1(a) = UNION {Scheduled(a, a.states[j].first, now) : j \in Current(a, Actives)}
      BY <2>2
    <3>5. QED
      BY <3>1, <3>3, <3>4 DEF introduced
  <2>3. QED
    BY <2>1, <2>2
<1>10. QED
  <2> HIDE DEF Next1
  <2>1. QED
    BY <1>2, <1>4, <1>9 DEF a

LEMMA RecalculatedPresent ==
    ASSUME NEW r, Ready(r), r.evidence # {}, NEW s \in Recalculated(r, now), NEW i \in Actives
    PROVE  s.states[i] # None
<1>1. now \in Time /\ i \in Instances /\ i \in Created
  BY DEF Ready, Setting, Actives, Created
<1>2. PICK a : /\ Based(a) /\ a.items = r.items /\ a.evidence = r.evidence
               /\ \A j \in Instances : a.states[j] \in Rebuilt(r, j, now)
               /\ s = a \/ \E introduced \in Time : s \in Scheduled(a, introduced, now)
  BY <1>1, RecalculatedOf DEF Ready
<1>3. s.states = a.states
  BY <1>1, <1>2, ScheduledKeeps
<1>4. a.states[i] # None
  <2>1. Fit(StateOf(r, i)) /\ now <= now
    BY <1>1, StateOfOnTime DEF Time
  <2>2. /\ r.evidence \in SUBSET Observations /\ IsFiniteSet(r.evidence) /\ instance[i].created \in Time
    BY <1>1 DEF Ready, Based, Typed, Records, Setting
  <2> DEFINE all == UNION {Projected(p, r.evidence, now) :
                             p \in Progressed(StateOf(r, i), r.evidence, instance[i].created, now)}
             old == StateOf(r, i)
  <2>31. Rebuilt(r, i, now) = {IF [p EXCEPT !.updated = old.updated] = old THEN old ELSE p : p \in all}
    BY <1>1 DEF Rebuilt
  <2>32. a.states[i] \in Rebuilt(r, i, now)
    BY <1>1, <1>2
  <2>33. \E p \in all : a.states[i] \in {old, p}
    <3> HIDE DEF all, old
    <3>1. QED
      BY <2>31, <2>32
  <2>3. PICK q \in Progressed(StateOf(r, i), r.evidence, instance[i].created, now) :
          \E n \in Projected(q, r.evidence, now) : a.states[i] \in {StateOf(r, i), n}
    BY <2>33
  <2>4. PICK n \in Projected(q, r.evidence, now) : a.states[i] \in {StateOf(r, i), n}
    BY <2>3
  <2>5. Fit(q)
    BY <1>1, <2>1, <2>2, ProgressedFit
  <2>6. Fit(n)
    BY <1>1, <2>2, <2>5, ProjectedFit
  <2>7. StateOf(r, i) \in States /\ n \in States
    BY <2>1, <2>6 DEF Fit
  <2>8. QED
    BY <2>4, <2>7, NoneAssumption
<1>5. QED
  BY <1>3, <1>4

LEMMA Refusals ==
    ASSUME Prompt, ReviewInv, TimelyInv, NEW c \in Concepts, Seasoned(c)
    PROVE  /\ Listed(record[c], now) = {} => NameTaken(record[c])
           /\ Recalculated(record[c], now) = {} => NameTaken(record[c])
<1> DEFINE r == record[c]
<1>1. Ready(r) /\ Settled(r) /\ Dated(r, now)
  BY SoundRecord DEF Sound, Seasoned, Settled
<1>2. ~After(r.evidence, now)
  BY <1>1 DEF After, Dated, Ready, Setting, Based, Typed, Records, Observations, Time
<1> HIDE DEF r
<1>3. QED
  BY <1>1, <1>2, ListedSome, RecalculatedSome DEF r

\* With one concept the name of the next review is always free.
LEMMA NameIsFree ==
    ASSUME ReviewInv, NumberedInv, NEW c \in Concepts
    PROVE  ~NameTaken(record[c])
<1> DEFINE r == record[c]
<1>1. Based(r) /\ Numbered(r)
  BY DEF ReviewInv, RecordInv, NumberedInv
<1> HIDE DEF r
<1>2. Cardinality(r.items) \in Nat
  BY <1>1, FS_CardinalityType DEF Based, Typed
<1>3. \A i \in r.items : i.id[2] < Cardinality(r.items) /\ i.id[2] \in Nat
  BY <1>1 DEF Numbered, Based, Typed, Records, Items, Names
<1>4. \A i \in r.items : i.id # <<DueDate(r), Cardinality(r.items)>>
  <2>1. SUFFICES ASSUME NEW i \in r.items, i.id = <<DueDate(r), Cardinality(r.items)>> PROVE FALSE
    OBVIOUS
  <2>2. i.id[2] = Cardinality(r.items)
    BY <2>1
  <2>3. QED
    BY <1>2, <1>3, <2>2
<1>5. QED
  BY <1>4 DEF NameTaken, r

LEMMA OneConceptInvariant ==
    ASSUME Prompt, Single
    PROVE  Spec => [](ReviewInv /\ TimelyInv /\ NumberedInv)
<1>1. Init => NumberedInv
  BY DEF Init, NumberedInv, Numbered
<1>2. ReviewInv /\ NumberedInv /\ [Next]_vars => NumberedInv'
  BY NumberedStep
<1>3. Spec => [](ReviewInv /\ TimelyInv)
  BY TimelyInvariant
<1>4. QED
  BY <1>1, <1>2, <1>3, PTL DEF Spec

\* However many concepts there are, the list of reviews and a recalculation are
\* refused for one reason at most: the next review is due at the very instant that
\* an earlier one of the concept is named after.
THEOREM OnlyATakenNameRefuses ==
    ASSUME Prompt
    PROVE  Spec => []OnlyANameRefuses
<1>1. ReviewInv /\ TimelyInv => OnlyANameRefuses
  BY Refusals DEF OnlyANameRefuses
<1>2. QED
  BY <1>1, TimelyInvariant, PTL

\* Evidence that no active curriculum is younger than always materializes: what
\* EvidenceMaterializes asks for, where the code does provide it.
THEOREM SeasonedEvidenceMaterializes ==
    ASSUME Prompt, Single
    PROVE  Spec => []SeasonedMaterializes
<1>1. ReviewInv /\ TimelyInv /\ NumberedInv => SeasonedMaterializes
  <2> SUFFICES ASSUME ReviewInv, TimelyInv, NumberedInv, NEW c \in Concepts, Seasoned(c)
               PROVE  /\ Recalculated(record[c], now) # {}
                      /\ \A r \in Recalculated(record[c], now), i \in Actives :
                           record[c].evidence # {} => r.states[i] # None
    BY DEF SeasonedMaterializes
  <2>1. Recalculated(record[c], now) # {}
    BY Refusals, NameIsFree
  <2>2. Ready(record[c])
    BY SoundRecord
  <2>3. QED
    BY <2>1, <2>2, RecalculatedPresent
<1>2. QED
  BY <1>1, OneConceptInvariant, PTL

\* The list of reviews is never refused: no command, whatever time it read, leaves
\* a time or a name behind that a later listing rejects, for a student with one
\* concept, no active curriculum of which is younger than the evidence.
THEOREM ListingIsNeverRefused ==
    ASSUME Prompt, Single
    PROVE  Spec => []ListingSucceeds
<1>1. ReviewInv /\ TimelyInv /\ NumberedInv => ListingSucceeds
  BY Refusals, NameIsFree DEF ListingSucceeds
<1>2. QED
  BY <1>1, OneConceptInvariant, PTL

-----------------------------------------------------------------------------
(* Recalculating twice. *)

\* A concept that came due for review and was then answered wrong, before its new
\* interval ends: retention makes it mastered, which the score does not.
Slipped(r, i) ==
    /\ Seen(r.states[i]) /\ r.states[i].exposure = "review_due"
    /\ Score(r.evidence) < Threshold
    /\ Recalls(r.evidence) # {} /\ now < NextDue(r.evidence)

SettlesUnlessSlipped ==
    \A c \in Concepts : \A r \in Recalculated(record[c], now) : \A again \in Recalculated(r, now) :
        again.states = r.states /\ again.items = r.items <=> \A i \in Created : ~Slipped(record[c], i)

\* A state that is taken anew, but for the time of its last change: progression's
\* part, and retention's if there has been a recall and the concept is mastered.
Anew(n, q, E, t) ==
    LET projected == Recalls(E) # {} /\ q.exposure \in {"mastered", "review_due"}
    IN  /\ n.score = q.score /\ n.first = q.first /\ n.last = q.last /\ n.mastered = q.mastered
        /\ n.due = IF projected THEN NextDue(E) ELSE q.due
        /\ n.exposure = IF ~projected THEN q.exposure ELSE IF t >= NextDue(E) THEN "review_due" ELSE "mastered"

LEMMA RebuiltOf ==
    ASSUME Setting, NEW r, Typed(r), NEW i \in Created, NEW t \in Time, r.evidence # {}, NEW n \in Rebuilt(r, i, t)
    PROVE  \E q \in Advanced(StateOf(r, i), r.evidence, instance[i].created, t) :
             Fit(StateOf(r, i)) /\ Fit(q) /\ Fit(n) /\ Anew(n, q, r.evidence, t)
<1> DEFINE old == StateOf(r, i)
           created == instance[i].created
           E == r.evidence
           all == UNION {Projected(q, E, t) : q \in Progressed(old, E, created, t)}
<1>1. Fit(old) /\ E \in SUBSET Observations /\ IsFiniteSet(E) /\ created \in Time /\ E # {}
  BY StateOfFit DEF Typed, Records, Setting, Created
<1>2. Rebuilt(r, i, t) = {IF [s EXCEPT !.updated = old.updated] = old THEN old ELSE s : s \in all}
  BY DEF Rebuilt
<1>3. PICK s \in all : n = IF [s EXCEPT !.updated = old.updated] = old THEN old ELSE s
  <2> HIDE DEF all, old
  <2>1. QED
    BY <1>2
<1>4. PICK q \in Progressed(old, E, created, t) : s \in Projected(q, E, t)
  BY <1>3
<1>5. q \in Advanced(old, E, created, t) /\ Fit(q) /\ Fit(s)
  <2>1. q \in Advanced(old, E, created, t)
    BY <1>4 DEF Progressed
  <2> HIDE DEF old, created, E
  <2>2. QED
    BY <1>1, <1>4, <2>1, ProgressedFit, ProjectedFit
<1> HIDE DEF old, created, E, all
<1>6. Anew(s, q, E, t)
  <2>1. CASE Recalls(E) = {} \/ q.exposure \notin {"mastered", "review_due"}
    BY <1>4, <2>1 DEF Projected, Anew
  <2>2. CASE ~(Recalls(E) = {} \/ q.exposure \notin {"mastered", "review_due"})
    <3> DEFINE due == NextDue(E)
               next == [q EXCEPT !.due = due, !.exposure = IF t >= due THEN "review_due" ELSE "mastered"]
    <3>1. s \in {next, [next EXCEPT !.updated = t]}
      BY <1>4, <2>2 DEF Projected
    <3>2. q \in States
      BY <1>5 DEF Fit
    <3>3. Recalls(E) # {} /\ q.exposure \in {"mastered", "review_due"}
      BY <2>2
    <3> HIDE DEF due
    <3>4. /\ s.score = q.score /\ s.first = q.first /\ s.last = q.last /\ s.mastered = q.mastered
          /\ s.due = due /\ s.exposure = IF t >= due THEN "review_due" ELSE "mastered"
      BY <3>1, <3>2 DEF States
    <3>5. QED
      BY <3>3, <3>4 DEF Anew, due
  <2>3. QED
    BY <2>1, <2>2
<1>7. /\ n.score = s.score /\ n.first = s.first /\ n.last = s.last /\ n.mastered = s.mastered
      /\ n.due = s.due /\ n.exposure = s.exposure /\ Fit(n)
  <2>1. s \in States /\ old \in States
    BY <1>1, <1>5 DEF Fit
  <2>2. CASE [s EXCEPT !.updated = old.updated] = old
    <3>1. n = [s EXCEPT !.updated = old.updated] /\ n = old
      BY <1>3, <2>2
    <3>2. QED
      BY <1>1, <2>1, <3>1 DEF States
  <2>3. CASE [s EXCEPT !.updated = old.updated] # old
    BY <1>3, <1>5, <2>3
  <2>4. QED
    BY <2>2, <2>3
<1>8. Anew(n, q, E, t)
  BY <1>6, <1>7 DEF Anew
<1>9. QED
  BY <1>1, <1>5, <1>7, <1>8 DEF old, created, E

\* A state that differs in the time of its last change only is left as it is.
LEMMA Unmoved ==
    ASSUME Setting, NEW r, Typed(r), NEW i \in Created, NEW t \in Time, r.evidence # {}, NEW n \in Rebuilt(r, i, t),
           LET old == StateOf(r, i)
           IN  /\ n.score = old.score /\ n.first = old.first /\ n.last = old.last /\ n.mastered = old.mastered
               /\ n.due = old.due /\ n.exposure = old.exposure
    PROVE  n = StateOf(r, i)
<1> DEFINE old == StateOf(r, i)
           all == UNION {Projected(q, r.evidence, t) : q \in Progressed(old, r.evidence, instance[i].created, t)}
<1>1. Rebuilt(r, i, t) = {IF [s EXCEPT !.updated = old.updated] = old THEN old ELSE s : s \in all}
  BY DEF Rebuilt
<1>2. PICK s \in all : n = IF [s EXCEPT !.updated = old.updated] = old THEN old ELSE s
  <2> HIDE DEF all, old
  <2>1. QED
    BY <1>1
<1>3. n \in States /\ old \in States
  BY RebuiltOf DEF Fit
<1>4. /\ n.score = old.score /\ n.first = old.first /\ n.last = old.last /\ n.mastered = old.mastered
      /\ n.due = old.due /\ n.exposure = old.exposure
  OBVIOUS
<1> HIDE DEF all, old
<1>5. [n EXCEPT !.updated = old.updated] = old
  BY <1>3, <1>4 DEF States
<1>6. n = old
  BY <1>2, <1>5
<1>7. QED
  BY <1>6 DEF old

\* Progression of what progression and retention left: all but the exposure is as
\* before, and the exposure too unless the score no longer shows mastery.
LEMMA AdvancedTwice ==
    ASSUME NEW old, Fit(old), NEW E \in SUBSET Observations, IsFiniteSet(E), E # {}, NEW created \in Time,
           NEW t \in Time, NEW q \in Advanced(old, E, created, t), Fit(q), NEW n, Fit(n), Anew(n, q, E, t),
           NEW p \in Advanced(n, E, created, t)
    PROVE  /\ p.score = n.score /\ p.first = n.first /\ p.last = n.last /\ p.mastered = n.mastered
           /\ p.due = n.due /\ p.exposure = Exposure(n, Score(E) >= Threshold)
           /\ q.exposure = Exposure(old, Score(E) >= Threshold)
<1> DEFINE first == Highest({created, Lowest({e.at : e \in E})})
           last == Highest({created, Highest({e.at : e \in E})})
           met == Score(E) >= Threshold
<1>1. first \in Time /\ last \in Time /\ last # None
  BY TimesOf, NoneAssumption
<1>2. q = [exposure |-> Exposure(old, met), score |-> Score(E), due |-> old.due, updated |-> t,
           first |-> IF Before(old.first, first) THEN old.first ELSE first,
           last |-> IF old.last # None /\ old.last > last THEN old.last ELSE last,
           mastered |-> IF Exposure(old, met) = "mastered" /\ old.mastered = None THEN last ELSE old.mastered]
  BY DEF Advanced
<1>3. p = [exposure |-> Exposure(n, met), score |-> Score(E), due |-> n.due, updated |-> t,
           first |-> IF Before(n.first, first) THEN n.first ELSE first,
           last |-> IF n.last # None /\ n.last > last THEN n.last ELSE last,
           mastered |-> IF Exposure(n, met) = "mastered" /\ n.mastered = None THEN last ELSE n.mastered]
  BY DEF Advanced
<1> HIDE DEF first, last, met
<1>4. old.first \in Maybe(Time) /\ old.last \in Maybe(Time)
  BY DEF Fit, States
<1>5. p.score = n.score /\ p.due = n.due /\ p.exposure = Exposure(n, met) /\ q.exposure = Exposure(old, met)
  BY <1>2, <1>3 DEF Anew
<1>6. p.first = n.first
  <2>1. n.first = IF Before(old.first, first) THEN old.first ELSE first
    BY <1>2 DEF Anew
  <2>2. p.first = IF Before(n.first, first) THEN n.first ELSE first
    BY <1>3
  <2>3. QED
    BY <2>1, <2>2
<1>7. p.last = n.last
  <2>1. n.last = IF old.last # None /\ old.last > last THEN old.last ELSE last
    BY <1>2 DEF Anew
  <2>2. p.last = IF n.last # None /\ n.last > last THEN n.last ELSE last
    BY <1>3
  <2>3. QED
    BY <2>1, <2>2
<1>8. p.mastered = n.mastered
  <2>1. p.mastered = IF Exposure(n, met) = "mastered" /\ n.mastered = None THEN last ELSE n.mastered
    BY <1>3
  <2>2. Exposure(n, met) = "mastered" => n.mastered # None
    <3>1. SUFFICES ASSUME Exposure(n, met) = "mastered", n.mastered = None PROVE FALSE
      OBVIOUS
    <3>2. met /\ n.exposure \notin {"mastered", "review_due"}
      BY <3>1 DEF Exposure, Fit
    <3>3. n.exposure = q.exposure /\ q.exposure = Exposure(old, met)
      BY <1>5, <3>2 DEF Anew
    <3>4. QED
      BY <3>2, <3>3 DEF Exposure
  <2>3. QED
    BY <2>1, <2>2
<1>9. QED
  BY <1>5, <1>6, <1>7, <1>8 DEF met

\* Taking a state anew twice is taking it anew once, unless it has slipped.
LEMMA RebuiltTwice ==
    ASSUME Setting, NEW r, Typed(r), NEW i \in Instances, NEW n \in Rebuilt(r, i, now),
           NEW a, Typed(a), a.evidence = r.evidence, a.states[i] = n, NEW m \in Rebuilt(a, i, now)
    PROVE  m = n <=> ~(i \in Created /\ Slipped(r, i))
<1>1. CASE i \notin Created
  BY <1>1 DEF Rebuilt
<1>2. CASE i \in Created /\ r.evidence = {}
  <2>1. ~Slipped(r, i)
    BY <1>2 DEF Slipped, Recalls
  <2>2. ASSUME NEW b, b.evidence = {}, NEW s \in Rebuilt(b, i, now) PROVE s = b.states[i]
    <3>1. CASE b.states[i] = None
      BY <1>2, <2>2, <3>1 DEF Rebuilt
    <3>2. CASE b.states[i] # None
      <4>1. \A q \in Progressed(b.states[i], {}, instance[i].created, now) : q = b.states[i]
        BY DEF Progressed, Advanced
      <4>2. \A q : Projected(q, {}, now) = {q}
        BY DEF Projected, Recalls
      <4>3. StateOf(b, i) = b.states[i]
        BY <3>2 DEF StateOf
      <4> DEFINE old == b.states[i]
                 all == UNION {Projected(q, {}, now) : q \in Progressed(old, {}, instance[i].created, now)}
      <4>4. \A q \in all : q = old
        BY <4>1, <4>2
      <4>5. Rebuilt(b, i, now) = {IF [q EXCEPT !.updated = old.updated] = old THEN old ELSE q : q \in all}
        <5> DEFINE state == StateOf(b, i)
                   each == UNION {Projected(q, b.evidence, now) :
                                    q \in Progressed(state, b.evidence, instance[i].created, now)}
        <5>1. Rebuilt(b, i, now) = {IF [q EXCEPT !.updated = state.updated] = state THEN state ELSE q : q \in each}
          BY <1>2, <3>2 DEF Rebuilt
        <5>2. state = old /\ each = all
          BY <2>2, <4>3
        <5> HIDE DEF state, each, all, old
        <5>3. QED
          BY <5>1, <5>2
      <4> HIDE DEF all, old
      <4>6. PICK q \in all : s = IF [q EXCEPT !.updated = old.updated] = old THEN old ELSE q
        BY <2>2, <4>5
      <4>7. QED
        BY <4>4, <4>6 DEF old
    <3>3. QED
      BY <3>1, <3>2
  <2>3. QED
    BY <1>2, <2>1, <2>2
<1>3. CASE i \in Created /\ r.evidence # {}
  <2> DEFINE E == r.evidence
             created == instance[i].created
             old == StateOf(r, i)
             met == Score(E) >= Threshold
  <2>1. now \in Time /\ created \in Time /\ E \in SUBSET Observations /\ IsFiniteSet(E)
    BY DEF Setting, Typed, Records
  <2>2. PICK q \in Advanced(old, E, created, now) : Fit(old) /\ Fit(q) /\ Fit(n) /\ Anew(n, q, E, now)
    BY <1>3, <2>1, RebuiltOf
  <2>3. n # None
    BY <2>2, NoneAssumption DEF Fit
  <2>4. StateOf(a, i) = n
    BY <2>3 DEF StateOf
  <2>5. PICK p \in Advanced(n, E, created, now) : Fit(p) /\ Fit(m) /\ Anew(m, p, E, now)
    BY <1>3, <2>1, <2>4, RebuiltOf
  <2>6. m.score = n.score /\ m.first = n.first /\ m.last = n.last /\ m.mastered = n.mastered
          /\ m.due = n.due /\ m.exposure = n.exposure
        => m = n
    BY <1>3, <2>1, <2>4, Unmoved
  <2>7. Slipped(r, i) <=> old.exposure = "review_due" /\ ~met /\ Recalls(E) # {} /\ now < NextDue(E)
    <3>1. r.states[i] = None => old.exposure = "not_seen"
      BY DEF StateOf, NewState
    <3>2. r.states[i] # None => old = r.states[i]
      BY DEF StateOf
    <3>3. Score(E) \in Nat /\ Threshold \in Nat
      BY <1>3, <2>1, ScoreType, ThresholdAssumption
    <3>4. Score(E) < Threshold <=> ~met
      BY <3>3
    <3> HIDE DEF met
    <3>5. QED
      BY <3>1, <3>2, <3>4 DEF Slipped, Seen
  <2> HIDE DEF E, created, old, met
  <2>8. /\ p.score = n.score /\ p.first = n.first /\ p.last = n.last /\ p.mastered = n.mastered
        /\ p.due = n.due /\ p.exposure = Exposure(n, met) /\ q.exposure = Exposure(old, met)
    BY <1>3, <2>1, <2>2, <2>5, AdvancedTwice DEF E, met
  <2>9. Recalls(E) # {} => NextDue(E) \in Time
    BY <2>1, NextDueType
  <2>10. m.due = n.due /\ m.exposure = n.exposure
         <=> ~(old.exposure = "review_due" /\ ~met /\ Recalls(E) # {} /\ now < NextDue(E))
    <3>1. CASE Recalls(E) = {} \/ q.exposure \notin {"mastered", "review_due"}
      BY <2>2, <2>5, <2>8, <3>1 DEF Anew, Exposure
    <3>2. CASE Recalls(E) # {} /\ q.exposure \in {"mastered", "review_due"}
      <4>1. n.due = NextDue(E) /\ n.exposure = IF now >= NextDue(E) THEN "review_due" ELSE "mastered"
        BY <2>2, <3>2 DEF Anew
      <4>2. now < NextDue(E) <=> ~(now >= NextDue(E))
        BY <2>1, <2>9, <3>2 DEF Time
      <4>3. CASE now >= NextDue(E)
        BY <2>5, <2>8, <3>2, <4>1, <4>2, <4>3 DEF Anew, Exposure
      <4>4. CASE ~(now >= NextDue(E))
        BY <2>5, <2>8, <3>2, <4>1, <4>2, <4>4 DEF Anew, Exposure
      <4>5. QED
        BY <4>3, <4>4
    <3>3. QED
      BY <3>1, <3>2
  <2>11. m.score = n.score /\ m.first = n.first /\ m.last = n.last /\ m.mastered = n.mastered
    BY <2>5, <2>8 DEF Anew
  <2>12. QED
    BY <1>3, <2>6, <2>7, <2>10, <2>11
<1>4. QED
  BY <1>1, <1>2, <1>3

\* So is recalculating.
LEMMA RecalculatedTwice ==
    ASSUME Setting, NEW r, Based(r), NEW s \in Recalculated(r, now), NEW again \in Recalculated(s, now)
    PROVE  again.states = s.states /\ again.items = s.items <=> \A i \in Created : ~Slipped(r, i)
<1>1. now \in Time
  BY DEF Setting
<1>2. PICK a : /\ Based(a) /\ a.items = r.items /\ a.evidence = r.evidence
               /\ \A i \in Instances : a.states[i] \in Rebuilt(r, i, now)
               /\ \/ Current(a, Actives) = {} /\ s = a
                  \/ Current(a, Actives) # {} /\ \E introduced \in Time : s \in Scheduled(a, introduced, now)
  BY <1>1, RecalculatedOf
<1>3. s.states = a.states /\ s.evidence = r.evidence /\ Based(s)
  <2>1. CASE s = a
    BY <1>2, <2>1
  <2>2. CASE s # a
    <3>1. PICK introduced \in Time : s \in Scheduled(a, introduced, now)
      BY <1>2, <2>2
    <3>2. Recalls(a.evidence) # {}
      BY <2>2, <3>1 DEF Scheduled
    <3>3. QED
      BY <1>1, <1>2, <3>1, <3>2, ScheduledKeeps, ScheduledInv DEF RecordInv
  <2>3. QED
    BY <2>1, <2>2
<1>4. PICK b : /\ Based(b) /\ b.items = s.items /\ b.evidence = s.evidence
               /\ \A i \in Instances : b.states[i] \in Rebuilt(s, i, now)
               /\ \/ Current(b, Actives) = {} /\ again = b
                  \/ Current(b, Actives) # {} /\ \E introduced \in Time : again \in Scheduled(b, introduced, now)
  BY <1>1, <1>3, RecalculatedOf
<1>5. again.states = b.states
  BY <1>1, <1>4, ScheduledKeeps
<1>6. \A i \in Instances : b.states[i] = s.states[i] <=> ~(i \in Created /\ Slipped(r, i))
  BY <1>2, <1>3, <1>4, RebuiltTwice DEF Based
<1>7. b.states = s.states <=> \A i \in Created : ~Slipped(r, i)
  <2>1. b.states \in [Instances -> Maybe(States)] /\ s.states \in [Instances -> Maybe(States)]
    BY <1>3, <1>4 DEF Based, Typed, Records
  <2>2. Created \subseteq Instances
    BY DEF Created
  <2>3. b.states = s.states <=> \A i \in Instances : b.states[i] = s.states[i]
    BY <2>1
  <2>4. QED
    BY <1>6, <2>2, <2>3
<1>8. ASSUME b.states = s.states PROVE again.items = s.items
  <2>1. CASE Current(b, Actives) = {}
    BY <1>4, <2>1
  <2>2. CASE Current(b, Actives) # {}
    <3>1. Current(a, Actives) # {}
      BY <1>3, <1>8, <2>2 DEF Current
    <3>2. Recalls(a.evidence) # {} => \E x : Pending(s) = {x} /\ x.due = DueDate(s)
      BY <1>1, <1>2, <3>1, ScheduledPending
    <3>3. Pending(b) = Pending(s) /\ DueDate(b) = DueDate(s) /\ b.evidence = a.evidence
      BY <1>2, <1>3, <1>4 DEF Pending, DueDate
    <3>4. again.items = b.items
      BY <1>1, <1>4, <2>2, <3>2, <3>3, ScheduledSame
    <3>5. QED
      BY <1>4, <3>4
  <2>3. QED
    BY <2>1, <2>2
<1>9. QED
  BY <1>5, <1>7, <1>8

\* Recalculating again at the same time, what RecalculationSettles asks for, leaves
\* every state and every review as it is exactly if no concept has slipped, whatever
\* commands with old clocks came before.
THEOREM RecalculationSettlesUnlessSlipped == Spec => []SettlesUnlessSlipped
<1>1. ReviewInv => SettlesUnlessSlipped
  BY RecalculatedTwice DEF SettlesUnlessSlipped, ReviewInv, RecordInv
<1>2. QED
  BY <1>1, ReviewInvariant, PTL
====
