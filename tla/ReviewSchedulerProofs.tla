---- MODULE ReviewSchedulerProofs ----
(***************************************************************************)
(* What holds of the learner's reviews for any concepts, curricula,        *)
(* observations, clocks and number of commands.                            *)
(***************************************************************************)
EXTENDS ReviewScheduler, FiniteSetTheorems, TLAPS

(* Extremes of finite sets. *)

LEMMA FiniteMaximum ==
    ASSUME NEW E, IsFiniteSet(E), E # {}, NEW w \in [E -> Int]
    PROVE  \E x \in E : \A y \in E : w[y] <= w[x]
<1> DEFINE Lacking == {T \in FiniteSubsetsOf(E) : T # {} /\ ~\E x \in T : \A y \in T : w[y] <= w[x]}
<1>1. SUFFICES ASSUME Lacking # {} PROVE FALSE
  BY Zenon DEF FiniteSubsetsOf
<1>2. PICK T \in Lacking : \A U \in Lacking : <<U, T>> \notin StrictSubsetOrdering(E)
  <2>1. Lacking \subseteq FiniteSubsetsOf(E)
    OBVIOUS
  <2> HIDE DEF Lacking
  <2>2. QED
    BY <1>1, <2>1, FS_StrictSubsetOrderingWellFounded, WFMin, Zenon
<1>3. PICK z \in T : TRUE
  OBVIOUS
<1>4. T \ {z} \in FiniteSubsetsOf(E)
  BY FS_RemoveElement, Zenon DEF FiniteSubsetsOf
<1>5. <<T \ {z}, T>> \in StrictSubsetOrdering(E)
  BY SMT DEF FiniteSubsetsOf, StrictSubsetOrdering
<1>6. T \ {z} \notin Lacking
  BY <1>2, <1>5, Zenon
<1>7. T \ {z} = {} \/ \E x \in T \ {z} : \A y \in T \ {z} : w[y] <= w[x]
  BY <1>4, <1>6
<1>8. \E x \in T : \A y \in T : w[y] <= w[x]
  <2>1. T \subseteq E
    BY DEF FiniteSubsetsOf
  <2>2. CASE T \ {z} = {}
    BY <2>1, <2>2, <1>3, SMT
  <2>3. CASE T \ {z} # {}
    <3>1. PICK x \in T \ {z} : \A y \in T \ {z} : w[y] <= w[x]
      BY <1>7, <2>3
    <3>2. w[z] \in Int /\ w[x] \in Int /\ \A y \in T : w[y] \in Int
      BY <2>1
    <3>3. CASE w[z] <= w[x]
      BY <3>1, <3>3
    <3>4. CASE ~(w[z] <= w[x])
      BY <3>1, <3>2, <3>4, SMT
    <3>5. QED
      BY <3>3, <3>4
  <2>4. QED
    BY <2>2, <2>3
<1>9. QED
  BY <1>2, <1>8

LEMMA HighestOf ==
    ASSUME NEW S \in SUBSET Int, IsFiniteSet(S), S # {}
    PROVE  Highest(S) \in S /\ \A y \in S : y <= Highest(S)
<1>1. [x \in S |-> x] \in [S -> Int]
  OBVIOUS
<1>2. \E x \in S : \A y \in S : [z \in S |-> z][y] <= [z \in S |-> z][x]
  <2> DEFINE w == [x \in S |-> x]
  <2>1. w \in [S -> Int]
    OBVIOUS
  <2> HIDE DEF w
  <2>2. \E x \in S : \A y \in S : w[y] <= w[x]
    BY <2>1, FiniteMaximum
  <2>3. QED
    BY <2>2 DEF w
<1>3. \E x \in S : \A y \in S : y <= x
  BY <1>2
<1>4. QED
  BY <1>3 DEF Highest

LEMMA LowestOf ==
    ASSUME NEW S \in SUBSET Int, IsFiniteSet(S), S # {}
    PROVE  Lowest(S) \in S /\ \A y \in S : Lowest(S) <= y
<1> DEFINE w == [x \in S |-> -x]
<1>1. w \in [S -> Int]
  BY SMT
<1>2. \E x \in S : \A y \in S : w[y] <= w[x]
  <2> HIDE DEF w
  <2>1. QED
    BY <1>1, FiniteMaximum
<1>3. \A x, y \in S : w[y] <= w[x] => x <= y
  BY SMT
<1>4. \E x \in S : \A y \in S : x <= y
  BY <1>2, <1>3
<1>5. QED
  BY <1>4 DEF Lowest

LEMMA Pairs ==
    ASSUME NEW a \in Int, NEW b \in Int
    PROVE  /\ Highest({a, b}) \in {a, b} /\ a <= Highest({a, b}) /\ b <= Highest({a, b})
           /\ Lowest({a, b}) \in {a, b} /\ Lowest({a, b}) <= a /\ Lowest({a, b}) <= b
<1>1. IsFiniteSet({a} \union {b})
  <2>1. IsFiniteSet({a}) /\ IsFiniteSet({b})
    BY FS_Singleton
  <2>2. QED
    BY <2>1, FS_Union, Zenon
<1>2. {a, b} = {a} \union {b}
  OBVIOUS
<1>3. IsFiniteSet({a, b}) /\ {a, b} \in SUBSET Int /\ {a, b} # {}
  BY <1>1, <1>2
<1>4. QED
  BY <1>3, HighestOf, LowestOf

\* The observation that counts as the last is one of them, and none is later.
LEMMA LatestOf ==
    ASSUME NEW E \in SUBSET Observations, IsFiniteSet(E), E # {}
    PROVE  Latest(E) \in E
<1> DEFINE at == [e \in E |-> e.at]
           Last(m) == {e \in E : e.at = m.at}
           id(m) == [e \in Last(m) |-> e.id]
<1>1. at \in [E -> Int]
  BY DEF Observations, Time
<1>2. PICK m \in E : \A f \in E : at[f] <= at[m]
  <2> HIDE DEF at
  <2>1. QED
    BY <1>1, FiniteMaximum
<1>3. IsFiniteSet(Last(m)) /\ Last(m) # {} /\ id(m) \in [Last(m) -> Int]
  <2>1. Last(m) \subseteq E /\ m \in Last(m)
    OBVIOUS
  <2>2. id(m) \in [Last(m) -> Int]
    BY DEF Observations
  <2>3. QED
    BY <2>1, <2>2, FS_Subset
<1>4. PICK n \in Last(m) : \A f \in Last(m) : id(m)[f] <= id(m)[n]
  <2> DEFINE L == Last(m)  i == id(m)
  <2>1. IsFiniteSet(L) /\ L # {} /\ i \in [L -> Int]
    BY <1>3
  <2> HIDE DEF L, i
  <2>2. \E x \in L : \A f \in L : i[f] <= i[x]
    BY <2>1, FiniteMaximum
  <2>3. QED
    BY <2>2 DEF L, i
<1>5. \A f \in E : f.at < n.at \/ (f.at = n.at /\ f.id <= n.id)
  <2> SUFFICES ASSUME NEW f \in E PROVE f.at < n.at \/ (f.at = n.at /\ f.id <= n.id)
    OBVIOUS
  <2>1. f.at <= m.at /\ n.at = m.at /\ f.at \in Int /\ m.at \in Int
    BY <1>2 DEF Observations, Time
  <2>2. CASE f.at = m.at
    BY <2>1, <2>2, <1>4
  <2>3. CASE f.at # m.at
    BY <2>1, <2>3, SMT
  <2>4. QED
    BY <2>2, <2>3
<1>6. n \in E
  OBVIOUS
<1>7. QED
  BY <1>5, <1>6, Zenon DEF Latest

-----------------------------------------------------------------------------
(* Types of the policies. *)

LEMMA ClampType ==
    ASSUME NEW low \in Nat, NEW x \in Int, NEW high \in Nat
    PROVE  Clamp(low, x, high) \in Nat /\ low <= Clamp(low, x, high)
<1>1. low \in Int /\ high \in Int
  OBVIOUS
<1>2. Lowest({x, high}) \in {x, high}
  BY <1>1, Pairs, Zenon
<1>3. Lowest({x, high}) \in Int
  BY <1>1, <1>2
<1> DEFINE m == Lowest({x, high})
<1> HIDE DEF m
<1>4. Highest({low, m}) \in {low, m} /\ low <= Highest({low, m})
  BY <1>1, <1>3, Pairs, Zenon DEF m
<1>5. Highest({low, m}) \in Nat
  BY <1>3, <1>4 DEF m
<1>6. QED
  BY <1>4, <1>5, Zenon DEF Clamp, m

LEMMA ClampBetween ==
    ASSUME NEW x \in Nat, NEW high \in Nat
    PROVE  Clamp(1, x, high) \in Nat /\ 1 <= Clamp(1, x, high)
<1>1. 1 \in Nat /\ x \in Int
  OBVIOUS
<1>2. QED
  BY <1>1, ClampType, Zenon

LEMMA WeightType ==
    ASSUME NEW E, IsFiniteSet(E)
    PROVE  Weight(E) \in Nat /\ (E # {} => Weight(E) > 0)
<1> DEFINE A == {e \in E : e.kind # "self_report"}
           B == {e \in E : e.kind = "self_report"}
<1>1. IsFiniteSet(A) /\ IsFiniteSet(B)
  BY FS_Subset
<1>2. Cardinality(A) \in Nat /\ Cardinality(B) \in Nat
  BY <1>1, FS_CardinalityType
<1>3. E # {} => Cardinality(A) # 0 \/ Cardinality(B) # 0
  BY <1>1, FS_EmptySet
<1>4. Weight(E) = 9 * Cardinality(A) + 2 * Cardinality(B)
  BY DEF Weight
<1> HIDE DEF A, B
<1> DEFINE a == Cardinality(A)
           b == Cardinality(B)
<1>5. a \in Nat /\ b \in Nat /\ (E # {} => a # 0 \/ b # 0) /\ Weight(E) = 9 * a + 2 * b
  BY <1>2, <1>3, <1>4, Zenon
<1> HIDE DEF a, b
<1>6. QED
  BY <1>5

LEMMA DivisionType ==
    ASSUME NEW a \in Nat, NEW b \in Nat, b > 0
    PROVE  a \div b \in Nat
  OBVIOUS

LEMMA ProductType ==
    ASSUME NEW a \in Nat, NEW b \in Nat
    PROVE  a * b \in Nat
  OBVIOUS

LEMMA ScoreType ==
    ASSUME NEW E, IsFiniteSet(E), E # {}
    PROVE  Score(E) \in Nat
<1>1. Weight(E) \in Nat /\ Weight(E) > 0
  BY WeightType
<1>2. IsFiniteSet({e \in E : e.ok})
  BY FS_Subset
<1>3. Weight({e \in E : e.ok}) \in Nat
  BY <1>2, WeightType
<1>4. 100 * Weight({e \in E : e.ok}) \in Nat
  BY <1>3
<1>5. QED
  BY <1>1, <1>4, DivisionType DEF Score

LEMMA StabilityType ==
    ASSUME NEW E \in SUBSET Observations, IsFiniteSet(E), Recalls(E) # {}
    PROVE  Stability(E) \in Nat /\ 1 <= Stability(E)
<1> DEFINE latest == Latest(Recalls(E))
           reviewFactor == Clamp(2, 4 + 2 * Reviews(E, TRUE) - Reviews(E, FALSE), 16)
           recentFactor == IF ~latest.ok THEN 1 ELSE IF latest.kind = "review_recall" THEN 5 ELSE 4
           days == (100 + 6 * Score(E)) * reviewFactor * recentFactor
<1>1. Reviews(E, TRUE) \in Nat /\ Reviews(E, FALSE) \in Nat
  BY FS_Subset, FS_CardinalityType DEF Reviews
<1>2. reviewFactor \in Nat
  <2>1. 4 + 2 * Reviews(E, TRUE) - Reviews(E, FALSE) \in Int /\ 2 \in Nat /\ 16 \in Nat
    <3>1. \A x, y \in Nat : 4 + 2 * x - y \in Int /\ 2 \in Nat /\ 16 \in Nat
      OBVIOUS
    <3>2. QED
      BY <1>1, <3>1, Zenon
  <2>2. QED
    BY <2>1, ClampType, Zenon
<1>3. E # {}
  BY DEF Recalls
<1>4. 100 + 6 * Score(E) \in Nat
  BY <1>3, ScoreType
<1>5. recentFactor \in Nat
  OBVIOUS
<1>6. days \in Nat
  <2> HIDE DEF reviewFactor, recentFactor
  <2>1. (100 + 6 * Score(E)) * reviewFactor \in Nat
    BY <1>2, <1>4, ProductType
  <2>2. QED
    BY <2>1, <1>5, ProductType
<1> HIDE DEF days
<1>7. Day \in Nat /\ Day > 0
  BY ThresholdAssumption
<1>8. (days + 1600 * Day - 1) \div (1600 * Day) \in Nat
  <2>1. days + 1600 * Day - 1 \in Nat /\ 1600 * Day \in Nat /\ 1600 * Day > 0
    BY <1>6, <1>7
  <2>2. QED
    BY <2>1, DivisionType
<1>9. (90 + Day - 1) \div Day \in Nat
  <2>1. 90 + Day - 1 \in Nat
    BY <1>7
  <2>2. QED
    BY <2>1, <1>7, DivisionType
<1>10. LET s == Clamp(1, (days + 1600 * Day - 1) \div (1600 * Day), (90 + Day - 1) \div Day)
       IN  s \in Nat /\ 1 <= s
  BY <1>8, <1>9, ClampBetween
<1>11. QED
  BY <1>10, Zenon DEF Stability, days

LEMMA NextDueType ==
    ASSUME NEW E \in SUBSET Observations, IsFiniteSet(E), Recalls(E) # {}
    PROVE  NextDue(E) \in Time /\ \E e \in E : e.at < NextDue(E)
<1>1. Recalls(E) \in SUBSET Observations /\ IsFiniteSet(Recalls(E))
  BY FS_Subset DEF Recalls
<1>2. Latest(Recalls(E)) \in Observations
  BY <1>1, LatestOf
<1>3. Latest(Recalls(E)).at \in Nat
  BY <1>2 DEF Observations, Time
<1>4. NextDue(E) \in Nat /\ Latest(Recalls(E)).at < NextDue(E)
  BY <1>3, StabilityType DEF NextDue
<1>5. Latest(Recalls(E)) \in E
  BY <1>1, LatestOf DEF Recalls
<1>6. QED
  BY <1>4, <1>5 DEF Time

\* A state of the concept in a curriculum: one that is or was mastered says since when.
Fit(s) ==
    /\ s \in States
    /\ Seen(s) => s.first \in Time
    /\ s.exposure \in {"mastered", "review_due"} => s.mastered # None

LEMMA NewStateFit ==
    ASSUME NEW t \in Time
    PROVE  Fit(NewState(t))
  BY DEF Fit, NewState, States, Seen, Maybe

LEMMA TimesOf ==
    ASSUME NEW E \in SUBSET Observations, IsFiniteSet(E), E # {}, NEW created \in Time
    PROVE  /\ Highest({created, Lowest({e.at : e \in E})}) \in Time
           /\ Highest({created, Highest({e.at : e \in E})}) \in Time
<1> DEFINE times == {e.at : e \in E}
<1>1. IsFiniteSet(times)
  <2> DEFINE at == [e \in E |-> e.at]
  <2>1. at \in Surjection(E, times)
    BY DEF Surjection
  <2> HIDE DEF at, times
  <2>2. QED
    BY <2>1, FS_Surjection
<1>2. times \in SUBSET Int /\ times # {} /\ times \subseteq Nat
  BY DEF Observations, Time
<1> HIDE DEF times
<1>3. Lowest(times) \in Nat /\ Highest(times) \in Nat
  BY <1>1, <1>2, LowestOf, HighestOf
<1>4. \A a, b \in Nat : Highest({a, b}) \in Nat
  <2> SUFFICES ASSUME NEW a \in Nat, NEW b \in Nat PROVE Highest({a, b}) \in Nat
    OBVIOUS
  <2>1. a \in Int /\ b \in Int
    OBVIOUS
  <2>2. Highest({a, b}) \in {a, b}
    BY <2>1, Pairs, Zenon
  <2>3. QED
    BY <2>2
<1>5. Highest({created, Lowest(times)}) \in Nat /\ Highest({created, Highest(times)}) \in Nat
  BY <1>3, <1>4, Zenon DEF Time
<1>6. QED
  BY <1>5 DEF times, Time

LEMMA AdvancedFit ==
    ASSUME NEW s, Fit(s), NEW E \in SUBSET Observations, IsFiniteSet(E), NEW created \in Time, NEW t \in Time,
           NEW n \in Advanced(s, E, created, t)
    PROVE  Fit(n)
<1>1. CASE E = {}
  BY <1>1 DEF Advanced
<1>2. CASE E # {}
  <2> DEFINE first == Highest({created, Lowest({e.at : e \in E})})
             last == Highest({created, Highest({e.at : e \in E})})
             exposure == Exposure(s, Score(E) >= Threshold)
  <2>1. first \in Time /\ last \in Time
    BY <1>2, TimesOf
  <2>2. Score(E) \in Nat
    BY <1>2, ScoreType
  <2>3. exposure \in {"not_seen", "learning", "mastered", "review_due"}
    BY DEF Exposure
  <2>4. n = [exposure |-> exposure, score |-> Score(E), due |-> s.due, updated |-> t,
             first |-> IF Before(s.first, first) THEN s.first ELSE first,
             last |-> IF s.last # None /\ s.last > last THEN s.last ELSE last,
             mastered |-> IF exposure = "mastered" /\ s.mastered = None THEN last ELSE s.mastered]
    BY <1>2 DEF Advanced
  <2> HIDE DEF first, last, exposure
  <2>5. n.first \in Time
    BY <2>1, <2>4 DEF Before, Fit, States, Maybe
  <2>6. n \in States
    BY <2>1, <2>2, <2>3, <2>4 DEF Before, Fit, States, Maybe
  <2>7. n.exposure \in {"mastered", "review_due"} => n.mastered # None
    <3>1. n.exposure = exposure /\ (exposure = "review_due" => s.exposure = "review_due")
          /\ n.mastered = IF exposure = "mastered" /\ s.mastered = None THEN last ELSE s.mastered
      BY <2>4 DEF Exposure, exposure
    <3>2. last # None
      BY <2>1, NoneAssumption
    <3>3. QED
      BY <3>1, <3>2 DEF Fit
  <2>8. QED
    BY <2>5, <2>6, <2>7 DEF Fit
<1>3. QED
  BY <1>1, <1>2

LEMMA ProgressedFit ==
    ASSUME NEW s, Fit(s), NEW E \in SUBSET Observations, IsFiniteSet(E), NEW created \in Time, NEW t \in Time,
           NEW n \in Progressed(s, E, created, t)
    PROVE  Fit(n)
<1>1. n \in Advanced(s, E, created, t)
  BY DEF Progressed
<1>2. QED
  BY <1>1, AdvancedFit

LEMMA ProjectedFit ==
    ASSUME NEW s, Fit(s), NEW E \in SUBSET Observations, IsFiniteSet(E), NEW t \in Time,
           NEW n \in Projected(s, E, t)
    PROVE  Fit(n)
<1>1. CASE Recalls(E) = {} \/ s.exposure \notin {"mastered", "review_due"}
  BY <1>1 DEF Projected
<1>2. CASE ~(Recalls(E) = {} \/ s.exposure \notin {"mastered", "review_due"})
  <2> DEFINE next == [s EXCEPT !.due = NextDue(E), !.exposure = IF t >= NextDue(E) THEN "review_due" ELSE "mastered"]
  <2>1. NextDue(E) \in Time
    BY <1>2, NextDueType
  <2>2. s \in States /\ s.first \in Time
    <3>1. s # None
      BY NoneAssumption DEF Fit
    <3>2. QED
      BY <1>2, <3>1 DEF Fit, Seen
  <2>3. next \in States /\ next.first \in Time /\ [next EXCEPT !.updated = t] \in States
        /\ [next EXCEPT !.updated = t].first \in Time
    BY <2>1, <2>2 DEF States, Maybe
  <2>4. n \in {s, [next EXCEPT !.updated = t]}
    BY <1>2 DEF Projected
  <2>5. s.mastered # None /\ next.mastered = s.mastered /\ [next EXCEPT !.updated = t].mastered = s.mastered
    BY <1>2, <2>2 DEF Fit, States
  <2>6. QED
    BY <2>2, <2>3, <2>4, <2>5 DEF Fit
<1>3. QED
  BY <1>1, <1>2

-----------------------------------------------------------------------------
(* The record of one concept. *)

Completed(r) == {i \in r.items : i.status = "completed"}
Recalled(r) == {e \in r.evidence : e.kind = "review_recall"}

Typed(r) ==
    /\ r \in Records
    /\ IsFiniteSet(r.evidence) /\ IsFiniteSet(r.items)
    /\ \A i \in Instances : r.states[i] # None => Fit(r.states[i])
Named(r) == \A i, j \in r.items : i.id = j.id => i = j
OnePending(r) == \A i, j \in Pending(r) : i = j
OutcomesRecorded(r) ==
    /\ \A e \in Recalled(r) : \E i \in Completed(r) : i.id = e.item /\ i.closed = e.at /\ i.ok = e.ok
    /\ \A i \in Completed(r) : \E e \in Recalled(r) : i.id = e.item /\ i.closed = e.at /\ i.ok = e.ok
    /\ \A e, f \in Recalled(r) : e.item = f.item => e = f
Based(r) == Typed(r) /\ Named(r) /\ OnePending(r) /\ OutcomesRecorded(r)

DatedTogether(r) ==
    /\ (r.schedule = None) = (Pending(r) = {})
    /\ \A i \in Pending(r) : i.due = r.schedule.due

\* What holds of it between two commands.
RecordInv(r) == Based(r) /\ DatedTogether(r)

\* What no command does: bring a postponed review forward, or reopen one.
Kept(r, s) ==
    \A i \in Pending(r), j \in Pending(s) : i.id = j.id /\ i.postponed # None => j.due >= i.due
NotReopened(r, s) == \A i \in r.items, j \in Pending(s) : i.id = j.id => i \in Pending(r)

\* What every command leaves: the observations, the closed reviews as they
\* are, and each review's name.
Remembers(r, s) ==
    /\ r.evidence \subseteq s.evidence
    /\ \A i \in r.items : i.status # "pending" => i \in s.items
    /\ \A i \in r.items : \E j \in s.items : j.id = i.id

LEMMA RemembersSame ==
    ASSUME NEW r, NEW s, s.items = r.items, r.evidence \subseteq s.evidence
    PROVE  Remembers(r, s)
  BY DEF Remembers

LEMMA RemembersOn ==
    ASSUME NEW r, NEW s, NEW u, Remembers(r, s), Remembers(s, u)
    PROVE  Remembers(r, u)
  BY DEF Remembers

LEMMA RemembersReplaced ==
    ASSUME NEW r, NEW s, NEW old \in Pending(r), NEW new, new.id = old.id,
           s.items = (r.items \ {old}) \union {new}, r.evidence \subseteq s.evidence
    PROVE  Remembers(r, s)
  BY DEF Remembers, Pending

LEMMA SameItems ==
    ASSUME NEW r, Based(r), NEW s, s.items = r.items
    PROVE  Kept(r, s) /\ NotReopened(r, s)
<1>1. Pending(s) = Pending(r)
  BY DEF Pending
<1>2. \A i \in Pending(r) : i.due \in Time
  BY DEF Based, Typed, Records, Items, Pending
<1>3. \A i \in r.items, j \in Pending(r) : i.id = j.id => i = j
  BY DEF Based, Named, Pending
<1>4. Kept(r, s)
  <2>1. SUFFICES ASSUME NEW i \in Pending(r), NEW j \in Pending(s), i.id = j.id PROVE j.due >= i.due
    BY DEF Kept
  <2>2. i = j /\ i.due \in Nat
    BY <2>1, <1>1, <1>2, <1>3 DEF Time, Pending
  <2>3. QED
    BY <2>2
<1>5. NotReopened(r, s)
  BY <1>1, <1>3 DEF NotReopened
<1>6. QED
  BY <1>4, <1>5

\* A change of the states alone disturbs neither.
LEMMA StatesOnly ==
    ASSUME NEW r, Based(r), NEW f \in [Instances -> Maybe(States)],
           \A i \in Instances : f[i] # None => Fit(f[i])
    PROVE  LET s == [r EXCEPT !.states = f]
           IN  /\ Based(s) /\ (DatedTogether(r) => DatedTogether(s)) /\ Kept(r, s) /\ NotReopened(r, s)
               /\ s.evidence = r.evidence /\ s.items = r.items /\ s.schedule = r.schedule
<1> DEFINE s == [r EXCEPT !.states = f]
<1>1. s \in Records /\ s.evidence = r.evidence /\ s.items = r.items /\ s.schedule = r.schedule /\ s.states = f
  BY DEF Based, Typed, Records
<1> HIDE DEF s
<1>2. Pending(s) = Pending(r) /\ Completed(s) = Completed(r) /\ Recalled(s) = Recalled(r)
  BY <1>1 DEF Pending, Completed, Recalled
<1>3. Typed(s)
  BY <1>1 DEF Based, Typed
<1>4. Named(s) /\ OnePending(s) /\ OutcomesRecorded(s)
  BY <1>1, <1>2 DEF Based, Named, OnePending, OutcomesRecorded
<1>5. DatedTogether(r) => DatedTogether(s)
  BY <1>1, <1>2 DEF DatedTogether
<1>6. Kept(r, s) /\ NotReopened(r, s)
  BY <1>1, SameItems
<1>7. QED
  BY <1>1, <1>3, <1>4, <1>5, <1>6 DEF Based, s

\* An observation that is not a recall leaves the reviews alone.
LEMMA ObservedTyped ==
    ASSUME NEW r, Typed(r), NEW t \in Time, NEW kind \in Kinds, NEW ok \in BOOLEAN, NEW item \in Maybe(Names)
    PROVE  LET s == Observed(r, t, kind, ok, item)
               e == [id |-> Cardinality(r.evidence) + 1, at |-> t, kind |-> kind, ok |-> ok, item |-> item]
           IN  /\ Typed(s) /\ s.evidence = r.evidence \union {e}
               /\ s.items = r.items /\ s.schedule = r.schedule /\ s.states = r.states
<1> DEFINE e == [id |-> Cardinality(r.evidence) + 1, at |-> t, kind |-> kind, ok |-> ok, item |-> item]
           s == Observed(r, t, kind, ok, item)
<1>1. Cardinality(r.evidence) \in Nat
  BY FS_CardinalityType DEF Typed
<1>2. e \in Observations
  BY <1>1 DEF Observations
<1>3. s = [r EXCEPT !.evidence = @ \union {e}]
  BY DEF Observed
<1> HIDE DEF e, s
<1>4. s \in Records /\ s.evidence = r.evidence \union {e} /\ s.items = r.items /\ s.schedule = r.schedule
      /\ s.states = r.states
  BY <1>2, <1>3 DEF Typed, Records
<1>5. IsFiniteSet(r.evidence \union {e})
  BY FS_AddElement DEF Typed
<1>6. Typed(s)
  BY <1>4, <1>5 DEF Typed
<1>7. QED
  BY <1>4, <1>6 DEF e, s

LEMMA ObservedBased ==
    ASSUME NEW r, Based(r), NEW t \in Time, NEW kind \in Kinds \ {"review_recall"}, NEW ok \in BOOLEAN,
           NEW item \in Maybe(Names)
    PROVE  LET s == Observed(r, t, kind, ok, item)
           IN  Based(s) /\ (DatedTogether(r) => DatedTogether(s)) /\ Kept(r, s) /\ NotReopened(r, s)
<1> DEFINE e == [id |-> Cardinality(r.evidence) + 1, at |-> t, kind |-> kind, ok |-> ok, item |-> item]
           s == Observed(r, t, kind, ok, item)
<1>1. /\ Typed(s) /\ s.evidence = r.evidence \union {e}
      /\ s.items = r.items /\ s.schedule = r.schedule /\ s.states = r.states
  BY ObservedTyped DEF Based
<1>2. e.kind # "review_recall"
  OBVIOUS
<1> HIDE DEF e, s
<1>3. Pending(s) = Pending(r) /\ Completed(s) = Completed(r) /\ Recalled(s) = Recalled(r)
  BY <1>1, <1>2 DEF Pending, Completed, Recalled
<1>4. Named(s) /\ OnePending(s) /\ OutcomesRecorded(s)
  BY <1>1, <1>3 DEF Based, Named, OnePending, OutcomesRecorded
<1>5. DatedTogether(r) => DatedTogether(s)
  BY <1>1, <1>3 DEF DatedTogether
<1>6. Kept(r, s) /\ NotReopened(r, s)
  BY <1>1, SameItems
<1>7. QED
  BY <1>1, <1>4, <1>5, <1>6 DEF Based, s

LEMMA SavedBased ==
    ASSUME NEW r, Based(r), NEW introduced \in Time, NEW due \in Time, NEW t \in Time,
           NEW s \in Saved(r, introduced, due, t)
    PROVE  /\ Based(s) /\ s.items = r.items /\ s.evidence = r.evidence /\ s.states = r.states
           /\ s.schedule # None /\ s.schedule.due = due /\ s.schedule.introduced = introduced
<1>1. s = [r EXCEPT !.schedule = [introduced |-> introduced, due |-> due]]
  BY DEF Saved
<1>2. [introduced |-> introduced, due |-> due] \in Schedules
  BY DEF Schedules
<1>3. s \in Records /\ s.items = r.items /\ s.evidence = r.evidence /\ s.states = r.states
      /\ s.schedule = [introduced |-> introduced, due |-> due]
  BY <1>1, <1>2 DEF Based, Typed, Records, Maybe
<1>4. Pending(s) = Pending(r) /\ Completed(s) = Completed(r) /\ Recalled(s) = Recalled(r)
  BY <1>3 DEF Pending, Completed, Recalled
<1>5. Based(s)
  BY <1>3, <1>4 DEF Based, Typed, Named, OnePending, OutcomesRecorded
<1>6. s.schedule # None
  BY <1>2, <1>3, NoneAssumption
<1>7. QED
  BY <1>3, <1>5, <1>6

LEMMA CreationBased ==
    ASSUME NEW r, Based(r), NEW item \in Items, item.status = "pending", NEW s \in Creations(r, item)
    PROVE  /\ Based(s) /\ Pending(s) = {item} /\ Kept(r, s) /\ NotReopened(r, s)
           /\ s.evidence = r.evidence /\ s.states = r.states /\ s.schedule = r.schedule
           /\ Remembers(r, s)
<1>1. /\ Pending(r) = {} /\ \A i \in r.items : i.id # item.id
      /\ s = [r EXCEPT !.items = @ \union {item}]
  BY DEF Creations
<1>2. /\ s \in Records /\ s.items = r.items \union {item}
      /\ s.evidence = r.evidence /\ s.states = r.states /\ s.schedule = r.schedule
  BY <1>1 DEF Based, Typed, Records
<1>3. IsFiniteSet(r.items \union {item})
  BY FS_AddElement DEF Based, Typed
<1>4. Typed(s)
  BY <1>2, <1>3 DEF Based, Typed
<1>5. Pending(s) = {item} /\ Completed(s) = Completed(r) /\ Recalled(s) = Recalled(r)
  BY <1>1, <1>2 DEF Pending, Completed, Recalled
<1>6. Named(s)
  BY <1>1, <1>2 DEF Based, Named
<1>61. OnePending(s) /\ OutcomesRecorded(s)
  BY <1>5 DEF Based, OnePending, OutcomesRecorded
<1>7. Kept(r, s) /\ NotReopened(r, s)
  BY <1>1, <1>5 DEF Kept, NotReopened
<1>8. Remembers(r, s)
  BY <1>2 DEF Remembers
<1>9. QED
  BY <1>2, <1>4, <1>5, <1>6, <1>61, <1>7, <1>8 DEF Based

\* A pending item changes.
LEMMA ReplaceTyped ==
    ASSUME NEW r, Based(r), NEW old \in Pending(r), NEW new \in Items, new.id = old.id
    PROVE  LET s == Replace(r, old, new)
           IN  /\ Typed(s) /\ Named(s) /\ OnePending(s) /\ Recalled(s) = Recalled(r)
               /\ s.items = (r.items \ {old}) \union {new}
               /\ s.evidence = r.evidence /\ s.states = r.states /\ s.schedule = r.schedule
               /\ Pending(s) = {i \in {new} : i.status = "pending"}
               /\ Completed(s) = Completed(r) \union {i \in {new} : i.status = "completed"}
<1> DEFINE s == Replace(r, old, new)
<1>1. /\ s \in Records /\ s.items = (r.items \ {old}) \union {new}
      /\ s.evidence = r.evidence /\ s.states = r.states /\ s.schedule = r.schedule
  BY DEF Based, Typed, Records, Replace
<1> HIDE DEF s
<1>2. IsFiniteSet((r.items \ {old}) \union {new})
  <2>1. IsFiniteSet(r.items \ {old})
    BY FS_Subset DEF Based, Typed
  <2>2. QED
    BY <2>1, FS_AddElement
<1>3. Typed(s)
  BY <1>1, <1>2 DEF Based, Typed
<1>4. old \in r.items /\ old.status = "pending" /\ \A i \in r.items \ {old} : i.status # "pending" /\ i.id # old.id
  BY DEF Based, Named, OnePending, Pending
<1>5. Named(s)
  BY <1>1, <1>4 DEF Based, Named
<1>6. Pending(s) = {i \in {new} : i.status = "pending"}
  BY <1>1, <1>4 DEF Pending
<1>7. Completed(s) = Completed(r) \union {i \in {new} : i.status = "completed"}
  BY <1>1, <1>4 DEF Completed
<1>8. OnePending(s) /\ Recalled(s) = Recalled(r)
  BY <1>1, <1>6 DEF OnePending, Recalled
<1>9. QED
  BY <1>1, <1>3, <1>5, <1>6, <1>7, <1>8 DEF s

\* It stays pending, or it is skipped: no outcome is added.
LEMMA ReplaceBased ==
    ASSUME NEW r, Based(r), NEW old \in Pending(r), NEW new \in Items, new.id = old.id, new.status # "completed"
    PROVE  Based(Replace(r, old, new))
<1> DEFINE s == Replace(r, old, new)
<1>1. /\ Typed(s) /\ Named(s) /\ OnePending(s) /\ Recalled(s) = Recalled(r)
      /\ Completed(s) = Completed(r) \union {i \in {new} : i.status = "completed"}
  BY ReplaceTyped
<1> HIDE DEF s
<1>2. Completed(s) = Completed(r)
  BY <1>1
<1>3. OutcomesRecorded(s)
  BY <1>1, <1>2 DEF Based, OutcomesRecorded
<1>4. QED
  BY <1>1, <1>3 DEF Based, s

-----------------------------------------------------------------------------
(* Scheduling. *)

LEMMA DueDateOf ==
    ASSUME NEW r, Based(r), Recalls(r.evidence) # {}
    PROVE  /\ DueDate(r) \in Time /\ NextDue(r.evidence) <= DueDate(r)
           /\ \A i \in Pending(r) : i.postponed # None => i.due <= DueDate(r)
<1> DEFINE next == NextDue(r.evidence)
           postponed == {j \in Pending(r) : j.postponed # None}
           D == {next} \union {i.due : i \in postponed}
<1>1. next \in Nat
  BY NextDueType DEF Based, Typed, Records, Time
<1>2. \A i \in postponed : i.due \in Nat
  BY DEF Based, Typed, Records, Items, Pending, Time
<1>3. DueDate(r) = Highest(D)
  BY DEF DueDate
<1>4. CASE postponed = {}
  <2>1. D = {next, next}
    BY <1>4
  <2> HIDE DEF D, next
  <2>2. next \in Int
    BY <1>1
  <2>3. Highest({next, next}) \in {next, next} /\ next <= Highest({next, next})
    BY <2>2, Pairs, Zenon
  <2>4. QED
    BY <2>1, <2>3, <1>1, <1>3, <1>4 DEF Time, next
<1>5. CASE postponed # {}
  <2>1. PICK i \in postponed : TRUE
    BY <1>5
  <2>2. \A j \in postponed : j = i
    BY <2>1 DEF Based, OnePending
  <2>3. D = {next, i.due}
    BY <2>1, <2>2
  <2> HIDE DEF D, next
  <2>4. next \in Int /\ i.due \in Int /\ i.due \in Nat
    BY <1>1, <1>2, <2>1
  <2>5. /\ Highest({next, i.due}) \in {next, i.due}
        /\ i.due <= Highest({next, i.due}) /\ next <= Highest({next, i.due})
    BY <2>4, Pairs, Zenon
  <2>6. QED
    BY <2>2, <2>3, <2>4, <2>5, <1>1, <1>3 DEF Time, next
<1>6. QED
  BY <1>4, <1>5

LEMMA ScheduledInv ==
    ASSUME NEW r, Based(r), Recalls(r.evidence) = {} => DatedTogether(r),
           NEW introduced \in Time, NEW t \in Time, NEW s \in Scheduled(r, introduced, t)
    PROVE  RecordInv(s) /\ Kept(r, s) /\ NotReopened(r, s) /\ Remembers(r, s)
<1>1. CASE Recalls(r.evidence) = {}
  <2>1. s = r
    BY <1>1 DEF Scheduled
  <2>2. QED
    BY <1>1, <2>1, SameItems, RemembersSame DEF RecordInv
<1>2. CASE Recalls(r.evidence) # {}
  <2> DEFINE due == DueDate(r)
             item == NewItem(<<due, Cardinality(r.items)>>, due, t)
  <2>1. due \in Time /\ \A i \in Pending(r) : i.postponed # None => i.due <= due
    BY <1>2, DueDateOf
  <2>2. PICK v \in Saved(r, introduced, due, t) :
          IF Pending(r) = {} THEN s \in Creations(v, item) ELSE s \in {Replace(v, i, Align(i, due)) : i \in Pending(r)}
    BY <1>2 DEF Scheduled
  <2> HIDE DEF due
  <2>3. /\ Based(v) /\ v.items = r.items /\ v.evidence = r.evidence /\ v.states = r.states
        /\ v.schedule # None /\ v.schedule.due = due
    BY <2>1, SavedBased
  <2>4. Pending(v) = Pending(r)
    BY <2>3 DEF Pending
  <2>5. CASE Pending(r) = {}
    <3>1. Cardinality(r.items) \in Nat
      BY FS_CardinalityType DEF Based, Typed
    <3>2. item \in Items /\ item.status = "pending" /\ item.due = due
      BY <2>1, <3>1 DEF NewItem, Items, Names, Maybe
    <3> HIDE DEF item
    <3>3. s \in Creations(v, item)
      BY <2>2, <2>5
    <3>4. /\ Based(s) /\ Pending(s) = {item} /\ NotReopened(v, s) /\ s.schedule = v.schedule
          /\ Remembers(v, s)
      BY <2>3, <3>2, <3>3, CreationBased
    <3>5. DatedTogether(s)
      BY <2>3, <3>2, <3>4 DEF DatedTogether
    <3>6. Kept(r, s) /\ NotReopened(r, s)
      BY <2>3, <2>4, <2>5, <3>4 DEF Kept, NotReopened
    <3>7. Remembers(r, s)
      BY <2>3, <3>4, RemembersSame, RemembersOn
    <3>8. QED
      BY <3>4, <3>5, <3>6, <3>7 DEF RecordInv
  <2>6. CASE Pending(r) # {}
    <3>1. PICK i \in Pending(r) : s = Replace(v, i, Align(i, due))
      BY <2>2, <2>6
    <3> DEFINE new == Align(i, due)
    <3>2. i \in Items /\ i.status = "pending" /\ i.due \in Nat /\ due \in Nat
      BY <2>1 DEF Based, Typed, Records, Items, Pending, Time
    <3>3. new \in Items /\ new.id = i.id /\ new.status = "pending"
      BY <2>1, <3>2 DEF Align, Items
    <3>4. new.due = due
      <4>1. CASE i.postponed = None \/ due > i.due
        BY <4>1, <3>2 DEF Align, Items
      <4>2. CASE ~(i.postponed = None \/ due > i.due)
        BY <4>2, <3>2, <2>1 DEF Align
      <4>3. QED
        BY <4>1, <4>2
    <3> HIDE DEF new
    <3>5. Based(s)
      BY <2>3, <2>4, <3>1, <3>3, ReplaceBased DEF new
    <3>6. /\ Pending(s) = {j \in {new} : j.status = "pending"} /\ s.schedule = v.schedule
          /\ s.items = (v.items \ {i}) \union {new} /\ s.evidence = v.evidence
      BY <2>3, <2>4, <3>1, <3>3, ReplaceTyped DEF new
    <3>7. Pending(s) = {new}
      BY <3>3, <3>6
    <3>8. DatedTogether(s)
      BY <2>3, <3>4, <3>6, <3>7 DEF DatedTogether
    <3>9. Kept(r, s)
      BY <2>1, <3>2, <3>4, <3>7 DEF Kept, Based, OnePending
    <3>10. NotReopened(r, s)
      BY <3>3, <3>7 DEF NotReopened, Based, Named, Pending
    <3>11. Remembers(r, s)
      BY <2>3, <3>3, <3>6, RemembersReplaced
    <3>12. QED
      BY <3>5, <3>8, <3>9, <3>10, <3>11 DEF RecordInv
  <2>7. QED
    BY <2>5, <2>6
<1>3. QED
  BY <1>1, <1>2

-----------------------------------------------------------------------------
(* The operations on one record. *)

LEMMA LeastOf ==
    ASSUME NEW S \in SUBSET Nat, S # {}
    PROVE  Lowest(S) \in S
<1>1. PICK n \in S : TRUE
  OBVIOUS
<1> DEFINE T == {x \in S : x <= n}
<1>2. T \in SUBSET Nat /\ T \in SUBSET Int /\ T # {} /\ \A x \in T : x <= n
  <2>1. n \in Nat /\ n <= n
    BY <1>1
  <2>2. n \in T
    BY <1>1, <2>1
  <2>3. T \subseteq S /\ \A x \in T : x <= n
    BY Zenon
  <2> HIDE DEF T
  <2>4. T \subseteq Nat /\ T \subseteq Int
    BY <2>3
  <2>5. QED
    BY <2>2, <2>3, <2>4
<1>3. IsFiniteSet(T)
  <2> HIDE DEF T
  <2>1. QED
    BY <1>1, <1>2, FS_BoundedSetOfNaturals
<1> DEFINE m == Lowest(T)
<1>4. m \in T /\ \A y \in T : m <= y
  BY <1>2, <1>3, LowestOf
<1> HIDE DEF m
<1>5. m \in S /\ \A y \in S : m <= y
  <2> SUFFICES ASSUME NEW y \in S PROVE m <= y
    BY <1>4
  <2>1. m \in Nat /\ n \in Nat /\ y \in Nat /\ m <= n
    BY <1>1, <1>4
  <2>2. CASE y <= n
    BY <1>4, <2>2
  <2>3. CASE ~(y <= n)
    BY <2>1, <2>3
  <2>4. QED
    BY <2>2, <2>3
<1>6. \E x \in S : \A y \in S : x <= y
  BY <1>5
<1>7. QED
  BY <1>6 DEF Lowest

LEMMA TogetherOf ==
    ASSUME NEW outcomes, NEW f \in Together(outcomes)
    PROVE  /\ f = [x \in DOMAIN outcomes |-> f[x]]
           /\ \A x \in DOMAIN outcomes : f[x] \in outcomes[x]
  BY DEF Together

\* The clock and the curricula.
Setting ==
    /\ now \in Time
    /\ instance \in [Instances -> [status : {"none", "active", "archived"}, created : Time]]

LEMMA StateOfFit ==
    ASSUME Setting, NEW r, Typed(r), NEW i \in Instances
    PROVE  Fit(StateOf(r, i))
<1>1. instance[i].created \in Time
  BY DEF Setting
<1>2. QED
  BY <1>1, NewStateFit DEF StateOf, Typed

LEMMA StudiedBased ==
    ASSUME Setting, NEW r, Based(r), NEW i \in Instances, NEW t \in Time, NEW s \in Studied(r, i, t)
    PROVE  /\ Based(s) /\ (DatedTogether(r) => DatedTogether(s))
           /\ s.items = r.items /\ s.evidence = r.evidence
<1>1. PICK x \in Progressed(StateOf(r, i), r.evidence, instance[i].created, t) :
        s = IF r.evidence = {} THEN r ELSE [r EXCEPT !.states[i] = x]
  BY DEF Studied
<1>2. Fit(x)
  BY StateOfFit, ProgressedFit DEF Based, Typed, Records, Setting
<1>3. CASE r.evidence = {}
  BY <1>1, <1>3
<1>4. CASE r.evidence # {}
  <2> DEFINE f == [r.states EXCEPT ![i] = x]
  <2>1. f \in [Instances -> Maybe(States)] /\ \A j \in Instances : f[j] # None => Fit(f[j])
    BY <1>2 DEF Fit, Based, Typed, Records, Maybe
  <2>2. s = [r EXCEPT !.states = f]
    BY <1>1, <1>4 DEF Based, Typed, Records
  <2> HIDE DEF f
  <2>3. QED
    BY <2>1, <2>2, StatesOnly
<1>5. QED
  BY <1>3, <1>4

LEMMA DueBased ==
    ASSUME NEW r, Based(r), NEW t \in Time, NEW s \in Due(r, t)
    PROVE  /\ Based(s) /\ (DatedTogether(r) => DatedTogether(s))
           /\ s.items = r.items /\ s.evidence = r.evidence
<1> DEFINE outcomes == [i \in Instances |->
             IF i \in Actives /\ Seen(r.states[i]) THEN Projected(r.states[i], r.evidence, t) ELSE {r.states[i]}]
<1>1. PICK f \in Together(outcomes) : s = [r EXCEPT !.states = f]
  BY DEF Due
<1>2. f = [i \in Instances |-> f[i]] /\ \A i \in Instances : f[i] \in outcomes[i]
  BY TogetherOf
<1>3. \A i \in Instances : f[i] \in Maybe(States) /\ (f[i] # None => Fit(f[i]))
  <2> TAKE i \in Instances
  <2>1. r.states[i] \in Maybe(States) /\ (r.states[i] # None => Fit(r.states[i]))
    BY DEF Based, Typed, Records
  <2>2. CASE i \in Actives /\ Seen(r.states[i])
    <3>1. f[i] \in Projected(r.states[i], r.evidence, t)
      BY <1>2, <2>2
    <3>2. Fit(f[i])
      BY <2>1, <2>2, <3>1, ProjectedFit DEF Seen, Based, Typed, Records
    <3>3. QED
      BY <3>2 DEF Fit, Maybe
  <2>3. CASE ~(i \in Actives /\ Seen(r.states[i]))
    BY <1>2, <2>1, <2>3
  <2>4. QED
    BY <2>2, <2>3
<1> HIDE DEF outcomes
<1>4. f \in [Instances -> Maybe(States)]
  BY <1>2, <1>3
<1>5. QED
  BY <1>1, <1>3, <1>4, StatesOnly

\* What is introduced was seen.
LEMMA CurrentSeen ==
    ASSUME NEW r, Typed(r), NEW i \in Current(r, Actives)
    PROVE  i \in Instances /\ r.states[i].first \in Time
<1>1. i \in Instances /\ Seen(r.states[i])
  BY DEF Current, Actives
<1>2. QED
  BY <1>1 DEF Seen, Fit, Typed

LEMMA ListedInv ==
    ASSUME NEW r, Based(r), Recalls(r.evidence) = {} => DatedTogether(r),
           Current(r, Actives) # {} \/ DatedTogether(r), NEW t \in Time, NEW s \in Listed(r, t)
    PROVE  RecordInv(s) /\ Kept(r, s) /\ NotReopened(r, s) /\ Remembers(r, s)
<1>1. CASE Current(r, Actives) = {}
  <2>1. s = r
    BY <1>1 DEF Listed
  <2>2. QED
    BY <1>1, <2>1, SameItems, RemembersSame DEF RecordInv
<1>2. CASE Current(r, Actives) # {}
  <2>1. Current(r, Actives) \in SUBSET Nat
    BY InstancesAssumption DEF Current, Actives
  <2>2. Introduced(r) \in Time
    <3>1. Lowest(Current(r, Actives)) \in Current(r, Actives)
      BY <1>2, <2>1, LeastOf
    <3>2. QED
      BY <3>1, CurrentSeen DEF Introduced, Based
  <2>3. PICK d \in Due(r, t) : s \in Scheduled(d, Introduced(r), t)
    BY <1>2 DEF Listed
  <2>4. /\ Based(d) /\ (DatedTogether(r) => DatedTogether(d))
        /\ d.items = r.items /\ d.evidence = r.evidence
    BY DueBased
  <2>5. RecordInv(s) /\ Kept(d, s) /\ NotReopened(d, s) /\ Remembers(d, s)
    BY <2>2, <2>3, <2>4, ScheduledInv
  <2>6. Pending(d) = Pending(r)
    BY <2>4 DEF Pending
  <2>7. Remembers(r, s)
    BY <2>4, <2>5, RemembersSame, RemembersOn
  <2>8. QED
    BY <2>4, <2>5, <2>6, <2>7 DEF Kept, NotReopened
<1>3. QED
  BY <1>1, <1>2

LEMMA PostponedItem ==
    ASSUME NEW item \in Items, NEW until \in Time, NEW t \in Time, NEW i \in Postponed(item, until, t)
    PROVE  /\ i \in Items /\ i.id = item.id /\ i.status = "pending" /\ i.due = until
           /\ item.status = "pending" /\ until > item.due
  BY DEF Postponed, Items, Maybe

LEMMA ClosedItem ==
    ASSUME NEW item \in Items, NEW status \in {"completed", "skipped"}, NEW ok \in BOOLEAN, NEW t \in Time,
           NEW i \in Closed(item, status, ok, t)
    PROVE  /\ i \in Items /\ i.id = item.id /\ i.status = status /\ i.closed = t /\ i.ok = ok
           /\ item.status = "pending"
  BY DEF Closed, Items, Maybe

LEMMA RescheduledBased ==
    ASSUME NEW r, Based(r), NEW due \in Time, NEW t \in Time, NEW s \in Rescheduled(r, due, t)
    PROVE  /\ Based(s) /\ s.items = r.items /\ s.evidence = r.evidence
           /\ s.schedule # None /\ s.schedule.due = due
<1>1. r.schedule # None /\ s \in Saved(r, r.schedule.introduced, due, t)
  BY DEF Rescheduled
<1>2. r.schedule.introduced \in Time
  BY <1>1 DEF Based, Typed, Records, Maybe, Schedules
<1>3. QED
  BY <1>1, <1>2, SavedBased

LEMMA PostponeInv ==
    ASSUME NEW r, RecordInv(r), NEW item \in r.items, NEW until \in Time, NEW t \in Time,
           NEW i \in Postponed(item, until, t), NEW s \in Rescheduled(Replace(r, item, i), until, t)
    PROVE  RecordInv(s) /\ Kept(r, s) /\ Remembers(r, s)
<1>1. item \in Items
  BY DEF RecordInv, Based, Typed, Records
<1>2. /\ i \in Items /\ i.id = item.id /\ i.status = "pending" /\ i.due = until
      /\ item \in Pending(r) /\ until > item.due
  BY <1>1, PostponedItem DEF Pending
<1>3. Based(Replace(r, item, i)) /\ Pending(Replace(r, item, i)) = {i}
  <2>1. Pending(Replace(r, item, i)) = {j \in {i} : j.status = "pending"}
    BY <1>2, ReplaceTyped DEF RecordInv
  <2>2. QED
    BY <1>2, <2>1, ReplaceBased DEF RecordInv
<1>4. /\ Based(s) /\ s.items = Replace(r, item, i).items /\ s.evidence = Replace(r, item, i).evidence
      /\ s.schedule # None /\ s.schedule.due = until
  BY <1>3, RescheduledBased
<1>5. Pending(s) = {i}
  BY <1>3, <1>4 DEF Pending
<1>6. DatedTogether(s)
  BY <1>2, <1>4, <1>5 DEF DatedTogether
<1>7. Kept(r, s)
  <2>1. \A j \in Pending(r) : j = item
    BY <1>2 DEF RecordInv, Based, OnePending
  <2>2. item.due \in Nat /\ until \in Nat
    BY <1>1 DEF Items, Time
  <2>3. QED
    BY <1>2, <1>5, <2>1, <2>2 DEF Kept
<1>8. Remembers(r, s)
  <2>1. /\ Replace(r, item, i).items = (r.items \ {item}) \union {i}
        /\ Replace(r, item, i).evidence = r.evidence
    BY <1>2, ReplaceTyped DEF RecordInv
  <2>2. QED
    BY <1>2, <1>4, <2>1, RemembersReplaced
<1>9. QED
  BY <1>4, <1>6, <1>7, <1>8 DEF RecordInv

LEMMA SkippedInv ==
    ASSUME NEW r, RecordInv(r), NEW item \in r.items, NEW t \in Time,
           NEW i \in Closed(item, "skipped", FALSE, t), NEW n \in Items, n.status = "pending",
           NEW a \in Rescheduled(Replace(r, item, i), n.due, t), NEW s \in Creations(a, n)
    PROVE  RecordInv(s) /\ Kept(r, s) /\ Remembers(r, s)
<1>1. item \in Items /\ n.due \in Time
  BY DEF RecordInv, Based, Typed, Records, Items
<1>2. i \in Items /\ i.id = item.id /\ i.status = "skipped" /\ item \in Pending(r)
  <2>1. i \in Items /\ i.id = item.id /\ i.status = "skipped" /\ item.status = "pending"
    BY <1>1 DEF Closed, Items, Maybe
  <2>2. QED
    BY <2>1 DEF Pending
<1>3. Based(Replace(r, item, i)) /\ i \in Replace(r, item, i).items /\ Remembers(r, Replace(r, item, i))
  <2>1. /\ Replace(r, item, i).items = (r.items \ {item}) \union {i}
        /\ Replace(r, item, i).evidence = r.evidence
    BY <1>2, ReplaceTyped DEF RecordInv
  <2>2. Remembers(r, Replace(r, item, i))
    BY <1>2, <2>1, RemembersReplaced
  <2>3. QED
    BY <1>2, <2>1, <2>2, ReplaceBased DEF RecordInv
<1>31. a.items = Replace(r, item, i).items /\ a.evidence = Replace(r, item, i).evidence
  BY <1>1, <1>3, RescheduledBased
<1>4. Based(a) /\ i \in a.items /\ a.schedule # None /\ a.schedule.due = n.due
  BY <1>1, <1>3, RescheduledBased
<1>5. Based(s) /\ Pending(s) = {n} /\ NotReopened(a, s) /\ s.schedule = a.schedule /\ Remembers(a, s)
  BY <1>4, CreationBased
<1>6. DatedTogether(s)
  BY <1>4, <1>5 DEF DatedTogether
<1>7. n.id # item.id
  BY <1>2, <1>4, <1>5 DEF NotReopened, Pending
<1>8. Kept(r, s)
  BY <1>2, <1>5, <1>7 DEF Kept, RecordInv, Based, OnePending
<1>9. Remembers(r, s)
  <2>1. Remembers(Replace(r, item, i), a)
    BY <1>31, RemembersSame
  <2>2. QED
    BY <1>3, <1>5, <2>1, RemembersOn
<1>10. QED
  BY <1>5, <1>6, <1>8, <1>9 DEF RecordInv

\* The outcome and its evidence are added together.
LEMMA OutcomeBased ==
    ASSUME NEW r, RecordInv(r), NEW item \in r.items, NEW ok \in BOOLEAN, NEW t \in Time,
           NEW i \in Closed(item, "completed", ok, t)
    PROVE  LET s == Observed(Replace(r, item, i), t, "review_recall", ok, item.id)
           IN  Based(s) /\ Recalls(s.evidence) # {} /\ i \in s.items /\ Remembers(r, s)
<1> DEFINE a == Replace(r, item, i)
           e == [id |-> Cardinality(a.evidence) + 1, at |-> t, kind |-> "review_recall", ok |-> ok, item |-> item.id]
           s == Observed(a, t, "review_recall", ok, item.id)
<1>1. item \in Items /\ item.id \in Maybe(Names)
  BY DEF RecordInv, Based, Typed, Records, Items, Maybe
<1>2. /\ i \in Items /\ i.id = item.id /\ i.status = "completed" /\ i.closed = t /\ i.ok = ok
      /\ item \in Pending(r)
  BY <1>1, ClosedItem DEF Pending
<1>3. /\ Typed(a) /\ Named(a) /\ OnePending(a) /\ Recalled(a) = Recalled(r)
      /\ a.items = (r.items \ {item}) \union {i} /\ a.evidence = r.evidence
      /\ Completed(a) = Completed(r) \union {j \in {i} : j.status = "completed"}
  BY <1>2, ReplaceTyped DEF RecordInv
<1> HIDE DEF a
<1>4. "review_recall" \in Kinds
  BY DEF Kinds
<1>5. Typed(s) /\ s.evidence = a.evidence \union {e} /\ s.items = a.items
  BY <1>1, <1>3, <1>4, ObservedTyped
<1>6. e.kind = "review_recall" /\ e.item = item.id /\ e.at = t /\ e.ok = ok
  OBVIOUS
<1> HIDE DEF e, s
<1>7. Completed(s) = Completed(r) \union {i} /\ Recalled(s) = Recalled(r) \union {e} /\ Pending(s) = Pending(a)
  <2>1. Completed(s) = Completed(a) /\ Pending(s) = Pending(a)
    BY <1>5 DEF Completed, Pending
  <2>2. Recalled(s) = Recalled(a) \union {e}
    BY <1>5, <1>6 DEF Recalled
  <2>3. QED
    BY <1>2, <1>3, <2>1, <2>2
<1>8. \A f \in Recalled(r) : f.item # item.id
  <2> SUFFICES ASSUME NEW f \in Recalled(r), f.item = item.id PROVE FALSE
    OBVIOUS
  <2>1. PICK j \in Completed(r) : j.id = item.id
    BY DEF RecordInv, Based, OutcomesRecorded
  <2>2. j = item
    BY <2>1 DEF RecordInv, Based, Named, Completed
  <2>3. QED
    BY <1>2, <2>2 DEF Completed, Pending
<1>9. OutcomesRecorded(s)
  <2>1. \A f \in Recalled(s) : \E j \in Completed(s) : j.id = f.item /\ j.closed = f.at /\ j.ok = f.ok
    BY <1>2, <1>6, <1>7 DEF RecordInv, Based, OutcomesRecorded
  <2>2. \A j \in Completed(s) : \E f \in Recalled(s) : j.id = f.item /\ j.closed = f.at /\ j.ok = f.ok
    BY <1>2, <1>6, <1>7 DEF RecordInv, Based, OutcomesRecorded
  <2>3. \A f, h \in Recalled(s) : f.item = h.item => f = h
    BY <1>6, <1>7, <1>8 DEF RecordInv, Based, OutcomesRecorded
  <2>4. QED
    BY <2>1, <2>2, <2>3 DEF OutcomesRecorded
<1>10. Named(s) /\ OnePending(s)
  BY <1>3, <1>5, <1>7 DEF Named, OnePending
<1>11. Recalls(s.evidence) # {}
  BY <1>5, <1>6 DEF Recalls
<1>12. i \in s.items
  BY <1>3, <1>5
<1>13. Remembers(r, s)
  BY <1>2, <1>3, <1>5, RemembersReplaced
<1>14. QED
  BY <1>5, <1>9, <1>10, <1>11, <1>12, <1>13 DEF Based, a, s

LEMMA ReviewedInv ==
    ASSUME NEW r, RecordInv(r), NEW item \in r.items, NEW ok \in BOOLEAN, NEW t \in Time,
           NEW s \in Reviewed(r, item, ok, t)
    PROVE  RecordInv(s) /\ Kept(r, s) /\ Remembers(r, s)
<1>1. PICK i \in Closed(item, "completed", ok, t) :
        LET a == Observed(Replace(r, item, i), t, "review_recall", ok, item.id)
        IN  Current(a, Actives) # {} /\ s \in Listed(a, t)
  BY DEF Reviewed
<1> DEFINE a == Observed(Replace(r, item, i), t, "review_recall", ok, item.id)
<1>2. Based(a) /\ Recalls(a.evidence) # {} /\ i \in a.items /\ Remembers(r, a)
  BY OutcomeBased
<1>3. item \in Items /\ i.id = item.id /\ i.status = "completed" /\ item \in Pending(r)
  <2>1. item \in Items
    BY DEF RecordInv, Based, Typed, Records
  <2>2. QED
    BY <2>1, ClosedItem DEF Pending
<1>4. Current(a, Actives) # {} /\ s \in Listed(a, t)
  BY <1>1
<1> HIDE DEF a
<1>5. RecordInv(s) /\ NotReopened(a, s) /\ Remembers(a, s)
  BY <1>2, <1>4, ListedInv
<1>6. \A j \in Pending(s) : j.id # item.id
  BY <1>2, <1>3, <1>5 DEF NotReopened, Pending
<1>7. Kept(r, s)
  BY <1>3, <1>6 DEF Kept, RecordInv, Based, OnePending
<1>8. Remembers(r, s)
  BY <1>2, <1>5, RemembersOn
<1>9. QED
  BY <1>5, <1>7, <1>8

LEMMA RebuiltFit ==
    ASSUME Setting, NEW r, Typed(r), NEW i \in Instances, NEW t \in Time, NEW s \in Rebuilt(r, i, t)
    PROVE  s \in Maybe(States) /\ (s # None => Fit(s))
<1>1. CASE i \notin Created \/ (r.states[i] = None /\ r.evidence = {})
  BY <1>1 DEF Rebuilt, Typed, Records
<1>2. CASE ~(i \notin Created \/ (r.states[i] = None /\ r.evidence = {}))
  <2>1. Fit(StateOf(r, i))
    BY StateOfFit
  <2>2. r.evidence \in SUBSET Observations /\ IsFiniteSet(r.evidence) /\ instance[i].created \in Time
    BY DEF Typed, Records, Setting
  <2>3. PICK q \in Progressed(StateOf(r, i), r.evidence, instance[i].created, t) :
          \E n \in Projected(q, r.evidence, t) : s \in {StateOf(r, i), n}
    BY <1>2 DEF Rebuilt
  <2>4. PICK n \in Projected(q, r.evidence, t) : s \in {StateOf(r, i), n}
    BY <2>3
  <2>5. Fit(q)
    BY <2>1, <2>2, ProgressedFit
  <2>6. Fit(n)
    BY <2>2, <2>5, ProjectedFit
  <2>7. QED
    BY <2>1, <2>4, <2>6 DEF Fit, Maybe
<1>3. QED
  BY <1>1, <1>2

LEMMA RecalculatedInv ==
    ASSUME Setting, NEW r, RecordInv(r), NEW t \in Time, NEW s \in Recalculated(r, t)
    PROVE  RecordInv(s) /\ Kept(r, s) /\ Remembers(r, s)
<1> DEFINE outcomes == [i \in Instances |-> Rebuilt(r, i, t)]
<1> DEFINE From(f) ==
             IF Current([r EXCEPT !.states = f], Actives) = {} THEN {[r EXCEPT !.states = f]}
             ELSE UNION {Scheduled([r EXCEPT !.states = f], [r EXCEPT !.states = f].states[i].first, t) :
                           i \in Current([r EXCEPT !.states = f], Actives)}
<1>0. s \in UNION {From(f) : f \in Together(outcomes)}
  BY DEF Recalculated
<1>1. PICK f \in Together(outcomes) : s \in From(f)
  <2> HIDE DEF From
  <2>1. QED
    BY <1>0
<1>2. f = [i \in Instances |-> f[i]] /\ \A i \in Instances : f[i] \in Rebuilt(r, i, t)
  BY TogetherOf
<1>3. f \in [Instances -> Maybe(States)] /\ \A i \in Instances : f[i] # None => Fit(f[i])
  BY <1>2, RebuiltFit DEF RecordInv, Based
<1> DEFINE a == [r EXCEPT !.states = f]
<1>4. Based(a) /\ DatedTogether(a) /\ Kept(r, a) /\ a.items = r.items /\ Remembers(r, a)
  <2>1. Based(a) /\ DatedTogether(a) /\ Kept(r, a) /\ a.items = r.items /\ a.evidence = r.evidence
    BY <1>3, StatesOnly DEF RecordInv
  <2> HIDE DEF a
  <2>2. QED
    BY <2>1, RemembersSame
<1>5. s = a \/ \E i \in Current(a, Actives) : s \in Scheduled(a, a.states[i].first, t)
  BY <1>1
<1> HIDE DEF a
<1>6. CASE s = a
  BY <1>4, <1>6 DEF RecordInv
<1>7. CASE \E i \in Current(a, Actives) : s \in Scheduled(a, a.states[i].first, t)
  <2>1. PICK i \in Current(a, Actives) : s \in Scheduled(a, a.states[i].first, t)
    BY <1>7
  <2>2. a.states[i].first \in Time
    BY <1>4, CurrentSeen DEF Based
  <2>3. RecordInv(s) /\ Kept(a, s) /\ Remembers(a, s)
    BY <1>4, <2>1, <2>2, ScheduledInv
  <2>4. Pending(a) = Pending(r)
    BY <1>4 DEF Pending
  <2>5. Remembers(r, s)
    BY <1>4, <2>3, RemembersOn
  <2>6. QED
    BY <2>3, <2>4, <2>5 DEF Kept
<1>8. QED
  BY <1>5, <1>6, <1>7

-----------------------------------------------------------------------------
(* The specification. *)

\* One command takes the record r to s.
Follows(r, s) == RecordInv(s) /\ Kept(r, s) /\ Remembers(r, s)

ReviewInv ==
    /\ Setting
    /\ record = [c \in Concepts |-> record[c]]
    /\ \A c \in Concepts : RecordInv(record[c])

LEMMA FollowsItself ==
    ASSUME NEW r, RecordInv(r)
    PROVE  Follows(r, r)
  BY SameItems, RemembersSame DEF Follows, RecordInv

LEMMA ReviewInit == Init => ReviewInv
<1> SUFFICES ASSUME Init PROVE ReviewInv
  OBVIOUS
<1>1. Setting
  BY DEF Init, Setting, Time
<1>2. record = [c \in Concepts |-> record[c]]
  BY DEF Init
<1>3. ASSUME NEW c \in Concepts PROVE RecordInv(record[c])
  <2>1. record[c] = [evidence |-> {}, states |-> [i \in Instances |-> None], schedule |-> None, items |-> {}]
    BY DEF Init
  <2>2. record[c] \in Records
    BY <2>1 DEF Records, Maybe
  <2>3. Typed(record[c])
    BY <2>1, <2>2, FS_EmptySet DEF Typed
  <2>4. Pending(record[c]) = {} /\ Completed(record[c]) = {} /\ Recalled(record[c]) = {}
    BY <2>1 DEF Pending, Completed, Recalled
  <2>5. Named(record[c]) /\ OnePending(record[c]) /\ OutcomesRecorded(record[c]) /\ DatedTogether(record[c])
    BY <2>1, <2>4 DEF Named, OnePending, OutcomesRecorded, DatedTogether
  <2>6. QED
    BY <2>3, <2>5 DEF RecordInv, Based
<1>4. QED
  BY <1>1, <1>2, <1>3 DEF ReviewInv

\* What a step does to the setting, and to each record.
Advances ==
    /\ Setting'
    /\ record' = [c \in Concepts |-> record'[c]]
    /\ \A c \in Concepts : Follows(record[c], record'[c])

LEMMA Committed ==
    ASSUME ReviewInv, NEW c \in Concepts, NEW outcomes, Commit(c, outcomes),
           \A s \in outcomes : Follows(record[c], s)
    PROVE  Advances
<1>1. PICK s \in outcomes : record' = [record EXCEPT ![c] = s]
  BY DEF Commit
<1>2. record' = [d \in Concepts |-> IF d = c THEN s ELSE record[d]]
  BY <1>1 DEF ReviewInv
<1>3. \A d \in Concepts : Follows(record[d], record'[d])
  BY <1>2, FollowsItself DEF ReviewInv
<1>4. Setting'
  BY DEF Commit, ReviewInv, Setting
<1>5. QED
  BY <1>2, <1>3, <1>4 DEF Advances

LEMMA Unrecorded ==
    ASSUME ReviewInv, UNCHANGED record, Setting'
    PROVE  Advances
  BY FollowsItself DEF ReviewInv, Advances

LEMMA ClockType ==
    ASSUME ReviewInv, NEW t \in Clocks
    PROVE  t \in Time
  BY DEF ReviewInv, Setting, Clocks, Time

LEMMA EvidenceStep ==
    ASSUME ReviewInv, NEW t \in Clocks, NEW c \in Concepts, NEW e \in Answers,
           \/ \E i \in Actives, age \in Ages : RecordEvidence(t, i, c, e.kind, e.ok, age)
           \/ Diagnose(t, c, e.kind, e.ok)
    PROVE  Advances
<1>1. t \in Time /\ e.kind \in Kinds \ {"review_recall"} /\ e.ok \in BOOLEAN /\ None \in Maybe(Names)
  BY ClockType, AnswersAssumption DEF Maybe
<1>2. RecordInv(record[c])
  BY DEF ReviewInv
<1>3. \A u \in Time : LET s == Observed(record[c], u, e.kind, e.ok, None)
                       IN  /\ Based(s) /\ DatedTogether(s)
                           /\ s.items = record[c].items /\ record[c].evidence \subseteq s.evidence
  <2> TAKE u \in Time
  <2> DEFINE s == Observed(record[c], u, e.kind, e.ok, None)
  <2>1. Based(s) /\ DatedTogether(s)
    BY <1>1, <1>2, ObservedBased DEF RecordInv
  <2>2. s.items = record[c].items /\ record[c].evidence \subseteq s.evidence
    BY <1>1, <1>2, ObservedTyped DEF RecordInv, Based
  <2>3. QED
    BY <2>1, <2>2
<1>4. ASSUME NEW i \in Actives, NEW age \in Ages, RecordEvidence(t, i, c, e.kind, e.ok, age)
      PROVE  Advances
  <2> DEFINE s == Observed(record[c], t - age, e.kind, e.ok, None)
  <2>1. t - age \in Time
    BY <1>1, <1>4, AgesAssumption DEF RecordEvidence, Time
  <2>2. /\ Based(s) /\ DatedTogether(s)
        /\ s.items = record[c].items /\ record[c].evidence \subseteq s.evidence
    BY <1>3, <2>1
  <2>3. i \in Instances
    BY DEF Actives
  <2> HIDE DEF s
  <2>4. ASSUME NEW q \in Studied(s, i, t) PROVE Follows(record[c], q)
    <3>1. /\ Based(q) /\ DatedTogether(q)
          /\ q.items = record[c].items /\ record[c].evidence \subseteq q.evidence
      BY <1>1, <2>2, <2>3, StudiedBased DEF ReviewInv
    <3>2. QED
      BY <1>2, <3>1, SameItems, RemembersSame DEF Follows, RecordInv
  <2>5. Commit(c, Studied(s, i, t))
    BY <1>4 DEF RecordEvidence, s
  <2>6. QED
    BY <2>4, <2>5, Committed
<1>5. ASSUME Diagnose(t, c, e.kind, e.ok) PROVE Advances
  <2> DEFINE s == Observed(record[c], t, e.kind, e.ok, None)
  <2>1. Follows(record[c], s)
    BY <1>1, <1>2, <1>3, SameItems, RemembersSame DEF Follows, RecordInv
  <2>2. Commit(c, {s})
    BY <1>5 DEF Diagnose
  <2> HIDE DEF s
  <2>3. QED
    BY <2>1, <2>2, Committed
<1>6. QED
  BY <1>4, <1>5

LEMMA StudyStep ==
    ASSUME ReviewInv, NEW t \in Clocks, NEW c \in Concepts, Study(t, c)
    PROVE  Advances
<1>1. t \in Time
  BY ClockType
<1>2. RecordInv(record[c])
  BY DEF ReviewInv
<1>3. ASSUME NEW i \in Actives, RecalculateProgression(t, i, c) PROVE Advances
  <2>1. ASSUME NEW q \in Studied(record[c], i, t) PROVE Follows(record[c], q)
    <3>1. Based(q) /\ DatedTogether(q) /\ q.items = record[c].items /\ q.evidence = record[c].evidence
      BY <1>1, <1>2, StudiedBased DEF ReviewInv, RecordInv, Actives
    <3>2. QED
      BY <1>2, <3>1, SameItems, RemembersSame DEF Follows, RecordInv
  <2>2. QED
    BY <1>3, <2>1, Committed DEF RecalculateProgression
<1>4. ASSUME RecalculateRetention(t, c) PROVE Advances
  <2>1. ASSUME NEW q \in Due(record[c], t) PROVE Follows(record[c], q)
    <3>1. Based(q) /\ DatedTogether(q) /\ q.items = record[c].items /\ q.evidence = record[c].evidence
      BY <1>1, <1>2, DueBased DEF RecordInv
    <3>2. QED
      BY <1>2, <3>1, SameItems, RemembersSame DEF Follows, RecordInv
  <2>2. QED
    BY <1>4, <2>1, Committed DEF RecalculateRetention
<1>5. QED
  BY <1>3, <1>4, EvidenceStep DEF Study

LEMMA CountType ==
    ASSUME ReviewInv
    PROVE  Cardinality(UNION {{c} \X record[c].items : c \in Concepts}) \in Nat
<1> DEFINE All == {{c} \X record[c].items : c \in Concepts}
           rows == [c \in Concepts |-> {c} \X record[c].items]
<1>1. rows \in Surjection(Concepts, All)
  BY DEF Surjection
<1>2. \A x \in All : IsFiniteSet(x)
  <2>1. ASSUME NEW c \in Concepts PROVE IsFiniteSet({c} \X record[c].items)
    <3>1. IsFiniteSet({c}) /\ IsFiniteSet(record[c].items)
      BY FS_Singleton DEF ReviewInv, RecordInv, Based, Typed
    <3>2. QED
      BY <3>1, FS_Product
  <2>2. QED
    BY <2>1
<1> HIDE DEF All, rows
<1>3. IsFiniteSet(All)
  BY <1>1, ConceptsAssumption, FS_Surjection
<1>4. IsFiniteSet(UNION All)
  BY <1>2, <1>3, FS_UNION
<1>5. Cardinality(UNION All) \in Nat
  BY <1>4, FS_CardinalityType
<1>6. QED
  BY <1>5 DEF All

LEMMA SuccessorItem ==
    ASSUME ReviewInv, NEW item \in Items, NEW t \in Time, NEW n \in Successors(item, t)
    PROVE  n \in Items /\ n.status = "pending"
<1> DEFINE due == Highest({item.due, t}) + Delay
           count == Cardinality(UNION {{c} \X record[c].items : c \in Concepts})
<1>1. due \in Time
  <2>1. item.due \in Int /\ t \in Int /\ item.due \in Nat /\ t \in Nat
    BY DEF Items, Time
  <2>2. Highest({item.due, t}) \in {item.due, t}
    BY <2>1, Pairs, Zenon
  <2>3. QED
    BY <2>1, <2>2, DelayAssumption DEF Time
<1>2. count \in Nat
  BY CountType
<1>3. n \in Postponed(NewItem(<<due, count>>, item.due, t), due, t)
  BY DEF Successors
<1> HIDE DEF due, count
<1>4. NewItem(<<due, count>>, item.due, t) \in Items
  BY <1>1, <1>2 DEF NewItem, Items, Names, Maybe
<1>5. QED
  BY <1>1, <1>3, <1>4, PostponedItem

LEMMA ReviewStep ==
    ASSUME ReviewInv, NEW t \in Clocks, NEW c \in Concepts, Review(t, c)
    PROVE  Advances
<1> DEFINE r == record[c]
<1>1. t \in Time /\ RecordInv(r) /\ \A i \in r.items : i \in Items
  BY ClockType DEF ReviewInv, RecordInv, Based, Typed, Records
<1>2. PICK item \in r.items :
        \/ \E until \in item.due + 1..MaxTime + 1 : Postpone(t, c, item, until)
        \/ Skip(t, c, item)
        \/ \E ok \in BOOLEAN : RecordOutcome(t, c, item, ok)
  BY DEF Review
<1>3. ASSUME NEW until \in item.due + 1..MaxTime + 1, Postpone(t, c, item, until) PROVE Advances
  <2>1. until \in Time
    BY <1>1, BoundAssumption DEF Items, Time
  <2>2. ASSUME NEW i \in Postponed(item, until, t), NEW s \in Rescheduled(Replace(r, item, i), until, t)
        PROVE  Follows(r, s)
    BY <1>1, <2>1, PostponeInv DEF Follows
  <2>3. Commit(c, UNION {Rescheduled(Replace(r, item, i), until, t) : i \in Postponed(item, until, t)})
    BY <1>3 DEF Postpone
  <2>4. QED
    BY <2>2, <2>3, Committed
<1>4. ASSUME Skip(t, c, item) PROVE Advances
  <2>1. ASSUME NEW i \in Closed(item, "skipped", FALSE, t), NEW n \in Successors(item, t),
               NEW a \in Rescheduled(Replace(r, item, i), n.due, t), NEW s \in Creations(a, n)
        PROVE  Follows(r, s)
    <3>1. n \in Items /\ n.status = "pending"
      BY <1>1, SuccessorItem
    <3>2. QED
      BY <1>1, <3>1, SkippedInv DEF Follows
  <2>2. ASSUME NEW s \in Skipped(r, item, t) PROVE Follows(r, s)
    <3> DEFINE skips == Closed(item, "skipped", FALSE, t)
               Outcome(i) == UNION {Succeeded(Replace(r, item, i), n, t) : n \in Successors(item, t)}
    <3>1. s \in UNION {Outcome(i) : i \in skips}
      BY <2>2 DEF Skipped
    <3>2. \E i \in skips : s \in Outcome(i)
      <4> HIDE DEF skips, Outcome
      <4>1. QED
        BY <3>1
    <3>3. PICK i \in skips : s \in Outcome(i)
      BY <3>2
    <3>4. PICK n \in Successors(item, t) : s \in Succeeded(Replace(r, item, i), n, t)
      BY <3>3
    <3>5. QED
      BY <2>1, <3>4 DEF Succeeded
  <2>3. QED
    BY <1>4, <2>2, Committed DEF Skip
<1>5. ASSUME NEW ok \in BOOLEAN, RecordOutcome(t, c, item, ok) PROVE Advances
  <2>1. ASSUME NEW s \in Reviewed(r, item, ok, t) PROVE Follows(r, s)
    BY <1>1, <2>1, ReviewedInv DEF Follows
  <2> DEFINE outcomes == IF item.status = "completed" THEN {} ELSE Reviewed(r, item, ok, t)
  <2>2. \A s \in outcomes : Follows(r, s)
    BY <2>1
  <2>3. Commit(c, outcomes)
    BY <1>5 DEF RecordOutcome
  <2> HIDE DEF outcomes
  <2>4. QED
    BY <2>2, <2>3, Committed
<1>6. QED
  BY <1>2, <1>3, <1>4, <1>5

LEMMA ListStep ==
    ASSUME ReviewInv, NEW t \in Clocks, List(t)
    PROVE  Advances
<1> DEFINE outcomes == [c \in Concepts |-> Listed(record[c], t)]
<1>1. record' \in Together(outcomes) /\ t \in Time
  BY ClockType DEF List
<1>2. record' = [c \in Concepts |-> record'[c]] /\ \A c \in Concepts : record'[c] \in Listed(record[c], t)
  BY <1>1, TogetherOf
<1>3. ASSUME NEW c \in Concepts PROVE Follows(record[c], record'[c])
  <2>1. RecordInv(record[c])
    BY DEF ReviewInv
  <2>2. QED
    BY <1>1, <1>2, <2>1, ListedInv DEF RecordInv, Follows
<1>4. Setting'
  BY DEF List, ReviewInv, Setting
<1>5. QED
  BY <1>2, <1>3, <1>4 DEF Advances

LEMMA RecalculateStep ==
    ASSUME ReviewInv, NEW t \in Clocks, Recalculate(t)
    PROVE  Advances
<1> DEFINE outcomes == [c \in Concepts |-> Recalculated(record[c], t)]
<1>1. record' \in Together(outcomes) /\ t \in Time
  BY ClockType DEF Recalculate
<1>2. record' = [c \in Concepts |-> record'[c]] /\ \A c \in Concepts : record'[c] \in Recalculated(record[c], t)
  BY <1>1, TogetherOf
<1>3. \A c \in Concepts : Follows(record[c], record'[c])
  BY <1>1, <1>2, RecalculatedInv DEF ReviewInv, Follows
<1>4. Setting'
  BY DEF Recalculate, ReviewInv, Setting
<1>5. QED
  BY <1>2, <1>3, <1>4 DEF Advances

LEMMA MigrateStep ==
    ASSUME ReviewInv, NEW t \in Clocks, NEW j \in Instances, NEW i \in Actives, NEW kept \in SUBSET Concepts,
           Migrate(t, i, j, kept)
    PROVE  Advances
<1>1. t \in Time /\ i \in Instances
  BY ClockType DEF Actives
<1>2. Setting'
  <2>1. now' = now /\ instance' = [instance EXCEPT ![i].status = "archived", ![j] = [status |-> "active", created |-> t]]
    BY DEF Migrate
  <2>2. QED
    BY <1>1, <2>1 DEF ReviewInv, Setting
<1>3. ASSUME NEW c \in Concepts PROVE Follows(record[c], record'[c])
  <2> DEFINE r == record[c]
             n == IF c \in kept THEN Migrated(r.states[i], t) ELSE NewState(t)
             f == [r.states EXCEPT ![j] = n]
  <2>1. RecordInv(r) /\ r \in Records
    BY DEF ReviewInv, RecordInv, Based, Typed
  <2>2. n \in Maybe(States) /\ (n # None => Fit(n))
    <3>1. CASE c \in kept
      <4>1. r.states[i] \in Maybe(States) /\ (r.states[i] # None => Fit(r.states[i]))
        BY <1>1, <2>1 DEF RecordInv, Based, Typed, Records
      <4>2. CASE r.states[i] = None
        BY <3>1, <4>2 DEF Migrated, Maybe
      <4>3. CASE r.states[i] # None
        <5> DEFINE s == r.states[i]
                   u == [s EXCEPT !.updated = t]
        <5>1. s \in States /\ Fit(s) /\ s # None /\ n = u
          BY <3>1, <4>1, <4>3 DEF Migrated, Fit
        <5> HIDE DEF s, n
        <5>2. u \in States /\ u.first = s.first /\ u.exposure = s.exposure /\ u.mastered = s.mastered
          BY <1>1, <5>1 DEF States
        <5>3. Fit(u)
          BY <5>1, <5>2 DEF Fit, Seen
        <5>4. QED
          BY <5>1, <5>2, <5>3 DEF Maybe
      <4>4. QED
        BY <4>2, <4>3
    <3>2. CASE c \notin kept
      BY <1>1, <3>2, NewStateFit DEF Fit, Maybe
    <3>3. QED
      BY <3>1, <3>2
  <2>3. record'[c] = [r EXCEPT !.states = f]
    BY <2>1 DEF Migrate, Records
  <2> HIDE DEF n
  <2>4. f \in [Instances -> Maybe(States)] /\ \A k \in Instances : f[k] # None => Fit(f[k])
    BY <2>1, <2>2 DEF RecordInv, Based, Typed, Records
  <2> HIDE DEF f, r
  <2>5. RecordInv(record'[c]) /\ Kept(r, record'[c])
    BY <2>1, <2>3, <2>4, StatesOnly DEF RecordInv
  <2>6. record'[c].items = r.items /\ record'[c].evidence = r.evidence
    BY <2>1, <2>3 DEF Records
  <2>7. QED
    BY <2>5, <2>6, RemembersSame DEF Follows, r
<1>4. record' = [c \in Concepts |-> record'[c]]
  BY DEF Migrate
<1>5. QED
  BY <1>2, <1>3, <1>4 DEF Advances

LEMMA Steps == ReviewInv /\ [Next]_vars => Advances
<1> SUFFICES ASSUME ReviewInv, [Next]_vars PROVE Advances
  OBVIOUS
<1>1. CASE UNCHANGED vars
  BY <1>1, Unrecorded DEF vars, ReviewInv, Setting
<1>2. CASE Tick
  BY <1>2, Unrecorded DEF Tick, ReviewInv, Setting, Time
<1>3. ASSUME NEW t \in Clocks, NEW j \in Instances, Create(t, j) PROVE Advances
  BY <1>3, ClockType, Unrecorded DEF Create, ReviewInv, Setting
<1>4. QED
  BY <1>1, <1>2, <1>3, ListStep, RecalculateStep, StudyStep, ReviewStep, MigrateStep DEF Next

LEMMA ReviewInvariant == Spec => []ReviewInv
<1>1. ReviewInv /\ [Next]_vars => ReviewInv'
  <2>1. Advances => ReviewInv'
    BY DEF Advances, Follows, ReviewInv
  <2>2. QED
    BY <2>1, Steps
<1>2. QED
  BY <1>1, ReviewInit, PTL DEF Spec

\* Every row keeps its type, and a state that shows its concept as seen has the
\* time it was introduced.
THEOREM TypeCorrect == Spec => []TypeOK
<1>1. ReviewInv => TypeOK
  <2> SUFFICES ASSUME ReviewInv PROVE TypeOK
    OBVIOUS
  <2>1. \A c \in Concepts : record[c] \in Records
    BY DEF ReviewInv, RecordInv, Based, Typed
  <2>2. record \in [Concepts -> Records]
    BY <2>1 DEF ReviewInv
  <2>3. ASSUME NEW c \in Concepts, NEW i \in Instances, Seen(record[c].states[i])
        PROVE  record[c].states[i].first \in Time
    BY <2>3 DEF ReviewInv, RecordInv, Based, Typed, Fit, Seen
  <2>4. QED
    BY <2>2, <2>3 DEF ReviewInv, Setting, TypeOK
<1>2. QED
  BY <1>1, ReviewInvariant, PTL

\* A concept's pending review and its schedule agree on one due date, in whatever
\* order reviews are listed, postponed, skipped, completed and recalculated.
THEOREM ReviewsAreScheduled == Spec => []OneDueDate
<1>1. ReviewInv => OneDueDate
  <2> SUFFICES ASSUME ReviewInv, NEW c \in Concepts
               PROVE  /\ Cardinality(Pending(record[c])) <= 1
                      /\ (record[c].schedule = None) = (Pending(record[c]) = {})
                      /\ \A i \in Pending(record[c]) : i.due = record[c].schedule.due
    BY DEF OneDueDate
  <2>1. RecordInv(record[c])
    BY DEF ReviewInv
  <2> DEFINE P == Pending(record[c])
  <2>2. Cardinality(P) <= 1
    <3>1. CASE P = {}
      BY <3>1, FS_EmptySet
    <3>2. CASE P # {}
      <4>1. PICK i \in P : TRUE
        BY <3>2
      <4>2. P = {i}
        BY <2>1, <4>1 DEF RecordInv, Based, OnePending
      <4>3. QED
        BY <4>2, FS_Singleton
    <3>3. QED
      BY <3>1, <3>2
  <2>3. QED
    BY <2>1, <2>2 DEF RecordInv, DatedTogether
<1>2. QED
  BY <1>1, ReviewInvariant, PTL

\* No command brings a review forward that the learner has postponed.
THEOREM PostponementsHold == Spec => PostponementHolds
<1> DEFINE Holds == \A c \in Concepts : \A i \in Pending(record[c]), j \in Pending(record'[c]) :
                     i.id = j.id /\ i.postponed # None => j.due >= i.due
<1>1. ReviewInv /\ [Next]_vars => [Holds]_vars
  BY Steps DEF Advances, Follows, Kept
<1>2. QED
  BY <1>1, ReviewInvariant, PTL DEF Spec, PostponementHolds

\* What a learner has answered, and what was observed of them, stands.
AnswersStand == [][\A c \in Concepts : Remembers(record[c], record'[c])]_vars

\* No command, however old its clock, changes a closed review, drops an
\* observation or loses the name of a review: an outcome reported again finds
\* the one recorded, and progress is always derived from all there was.
THEOREM AnswersAreKept == Spec => AnswersStand
<1>1. ReviewInv /\ [Next]_vars => [\A c \in Concepts : Remembers(record[c], record'[c])]_vars
  BY Steps DEF Advances, Follows
<1>2. QED
  BY <1>1, ReviewInvariant, PTL DEF Spec, AnswersStand

\* The evidence of recall is exactly the outcomes of the completed reviews, each
\* counted once.
THEOREM RecallsAreOutcomes == Spec => []RecallsMatchOutcomes
<1>1. ReviewInv => RecallsMatchOutcomes
  <2> SUFFICES ASSUME ReviewInv, NEW c \in Concepts
               PROVE  LET recalls == {e \in record[c].evidence : e.kind = "review_recall"}
                          completed == {i \in record[c].items : i.status = "completed"}
                      IN  /\ {<<e.item, e.at, e.ok>> : e \in recalls} = {<<i.id, i.closed, i.ok>> : i \in completed}
                          /\ Cardinality(recalls) = Cardinality(completed)
    BY DEF RecallsMatchOutcomes
  <2> DEFINE recalls == Recalled(record[c])
             completed == Completed(record[c])
             itemOf == [e \in recalls |-> CHOOSE i \in completed : i.id = e.item]
  <2>1. Based(record[c])
    BY DEF ReviewInv, RecordInv
  <2>2. /\ \A e \in recalls : \E i \in completed : i.id = e.item /\ i.closed = e.at /\ i.ok = e.ok
        /\ \A i \in completed : \E e \in recalls : i.id = e.item /\ i.closed = e.at /\ i.ok = e.ok
        /\ \A e, f \in recalls : e.item = f.item => e = f
        /\ \A i, j \in completed : i.id = j.id => i = j
    BY <2>1 DEF Based, OutcomesRecorded, Named, Completed
  <2>3. IsFiniteSet(recalls) /\ IsFiniteSet(completed)
    BY <2>1, FS_Subset DEF Based, Typed, Recalled, Completed
  <2> HIDE DEF recalls, completed
  <2>4. {<<e.item, e.at, e.ok>> : e \in recalls} = {<<i.id, i.closed, i.ok>> : i \in completed}
    BY <2>2
  <2>5. \A e \in recalls : itemOf[e] \in completed /\ itemOf[e].id = e.item
    BY <2>2
  <2>6. itemOf \in Bijection(recalls, completed)
    <3>1. itemOf \in [recalls -> completed]
      BY <2>5
    <3>2. \A e, f \in recalls : itemOf[e] = itemOf[f] => e = f
      <4> HIDE DEF itemOf
      <4>1. QED
        BY <2>2, <2>5
    <3>3. \A i \in completed : \E e \in recalls : itemOf[e] = i
      <4> HIDE DEF itemOf
      <4>1. QED
        BY <2>2, <2>5
    <3> HIDE DEF itemOf
    <3>4. QED
      BY <3>1, <3>2, <3>3 DEF Bijection, Injection, Surjection, IsInjective
  <2>7. Cardinality(recalls) = Cardinality(completed)
    <3> HIDE DEF itemOf
    <3>1. QED
      BY <2>3, <2>6, FS_Bijection DEF ExistsBijection
  <2>8. QED
    BY <2>4, <2>7 DEF recalls, completed, Recalled, Completed
<1>2. QED
  BY <1>1, ReviewInvariant, PTL
====
