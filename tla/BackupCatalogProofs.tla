---- MODULE BackupCatalogProofs ----
(***************************************************************************)
(* What holds of the retention of backups for any number of invocations,   *)
(* any retention, any clock and all faults.                                *)
(***************************************************************************)
EXTENDS BackupCatalog, FiniteSetTheorems, TLAPS

TypeInv ==
    /\ dir \in [Creators -> Directories]
    /\ created \in [Creators -> Nat]
    /\ now \in Nat
    /\ pc \in [Creators -> Steps]
    /\ names \in [Creators -> SUBSET Creators]
    /\ loaded \in [Creators -> SUBSET Creators]

\* What the lists of an invocation say of the directory.
ListsInv ==
    \A i \in Creators :
        /\ loaded[i] \subseteq names[i]
        /\ names[i] \subseteq Published
        /\ pc[i] \in {"idle", "publish", "scan"} => loaded[i] = {}
        /\ pc[i] \in {"idle", "publish"} => dir[i] = "none"

\* What an invocation that prunes has done.
PruneInv ==
    \A i \in Creators :
        /\ pc[i] = "remove" => \A b \in Oldest(loaded[i]) : dir[b] # "whole"
        /\ pc[i] \in {"prune", "remove", "done"} =>
            \A b \in names[i] \ loaded[i] : dir[b] = "gone"
        /\ pc[i] = "done" => Cardinality(loaded[i]) <= Retention

\* Whoever damages a backup has seen Retention newer ones.
KeptInv ==
    \A b \in Published : dir[b] # "whole" => Cardinality(Newer(b)) >= Retention

CatalogInv == TypeInv /\ ListsInv /\ PruneInv /\ KeptInv

-----------------------------------------------------------------------------
(* One step. *)

LEMMA TypeInit == Init => TypeInv
  BY TimeAssumption DEF Init, TypeInv, Directories, Steps

LEMMA TypeStep == TypeInv /\ ListsInv /\ [Next]_vars => TypeInv'
<1> SUFFICES ASSUME TypeInv, ListsInv, [Next]_vars PROVE TypeInv'
  OBVIOUS
<1> USE DEF TypeInv, Directories, Steps, Running, Goto
<1>1. ASSUME NEW i \in Creators, Begin(i) PROVE TypeInv'
  BY <1>1 DEF Begin
<1>2. ASSUME NEW i \in Creators, Publish(i) PROVE TypeInv'
  BY <1>2 DEF Publish
<1>3. ASSUME NEW i \in Creators, Scan(i) PROVE TypeInv'
  BY <1>3 DEF Scan, Present
<1>4. ASSUME NEW i \in Creators, Load(i) PROVE TypeInv'
  <2>1. PICK b \in Oldest(names[i] \ loaded[i]) :
            IF dir[b] \in {"whole", "dataless"}
            THEN loaded' = [loaded EXCEPT ![i] = @ \union {b}] /\ pc' = pc
            ELSE pc' = [pc EXCEPT ![i] = "failed"] /\ loaded' = loaded
    BY <1>4 DEF Load
  <2>2. b \in Creators
    BY DEF Oldest
  <2> QED BY <1>4, <2>1, <2>2 DEF Load
<1>5. ASSUME NEW i \in Creators, Loaded(i) PROVE TypeInv'
  BY <1>5 DEF Loaded
<1>6. ASSUME NEW i \in Creators, Remove(i) PROVE TypeInv'
  <2>1. PICK b \in Oldest(loaded[i]) : \E d \in Shrunk(dir[b]) : dir' = [dir EXCEPT ![b] = d]
    BY <1>6 DEF Remove
  <2>2. PICK d \in Shrunk(dir[b]) : dir' = [dir EXCEPT ![b] = d]
    BY <2>1
  <2>3. b \in Creators /\ dir[b] # "none"
    BY DEF ListsInv, Published, Oldest
  <2>4. d \in Directories
    BY <2>2, <2>3 DEF Shrunk
  <2> QED BY <1>6, <2>2, <2>3, <2>4 DEF Remove
<1>7. ASSUME NEW i \in Creators, Removed(i) PROVE TypeInv'
  BY <1>7 DEF Removed, Oldest
<1>8. ASSUME NEW i \in Creators, Report(i) PROVE TypeInv'
  BY <1>8 DEF Report
<1>9. ASSUME NEW i \in Creators, Stop(i) PROVE TypeInv'
  BY <1>9, FaultAssumption DEF Stop
<1>10. ASSUME Tick PROVE TypeInv'
  BY <1>10, TimeAssumption DEF Tick
<1>11. ASSUME UNCHANGED vars PROVE TypeInv'
  BY <1>11 DEF vars
<1> QED BY <1>1, <1>2, <1>3, <1>4, <1>5, <1>6, <1>7, <1>8, <1>9, <1>10, <1>11 DEF Next, Step

\* A published backup keeps its time, and its directory only shrinks.
LEMMA Shrinks ==
  ASSUME TypeInv, ListsInv, [Next]_vars
  PROVE  \A b \in Published :
            /\ created'[b] = created[b]
            /\ dir'[b] # "none"
            /\ dir[b] # "whole" => dir'[b] # "whole"
            /\ dir[b] = "gone" => dir'[b] = "gone"
<1> DEFINE Kept(b) ==
        /\ created'[b] = created[b]
        /\ dir'[b] # "none"
        /\ dir[b] # "whole" => dir'[b] # "whole"
        /\ dir[b] = "gone" => dir'[b] = "gone"
<1> SUFFICES ASSUME NEW b \in Published PROVE Kept(b)
  OBVIOUS
<1>0. b \in Creators /\ dir[b] # "none"
  BY DEF Published
<1>1. ASSUME NEW i \in Creators, Begin(i) PROVE Kept(b)
  <2>1. b # i
    BY <1>0, <1>1 DEF Begin, ListsInv
  <2> QED BY <1>0, <1>1, <2>1 DEF Begin, TypeInv
<1>2. ASSUME NEW i \in Creators, Publish(i) PROVE Kept(b)
  <2>1. b # i
    BY <1>0, <1>2 DEF Publish, ListsInv
  <2> QED BY <1>0, <1>2, <2>1 DEF Publish, TypeInv
<1>3. ASSUME NEW i \in Creators, Remove(i) PROVE Kept(b)
  <2>1. PICK a \in Oldest(loaded[i]) : \E d \in Shrunk(dir[a]) : dir' = [dir EXCEPT ![a] = d]
    BY <1>3 DEF Remove
  <2>2. PICK d \in Shrunk(dir[a]) : dir' = [dir EXCEPT ![a] = d]
    BY <2>1
  <2>3. dir[b] \in Directories
    BY <1>0 DEF TypeInv
  <2>4. dir'[b] # dir[b] => a = b /\ dir'[b] = d
    BY <1>0, <2>2 DEF TypeInv
  <2>5. a = b => d \in {"dataless", "manifestless", "gone"} /\ (dir[b] = "gone" => d = "gone")
    BY <1>0, <2>2, <2>3 DEF Shrunk, Directories
  <2> QED BY <1>0, <1>3, <2>4, <2>5 DEF Remove
<1>4. ASSUME NEW i \in Creators, Removed(i) PROVE Kept(b)
  BY <1>0, <1>4 DEF Removed, TypeInv
<1>5. ASSUME Tick \/ UNCHANGED vars \/ \E i \in Creators :
                Scan(i) \/ Load(i) \/ Loaded(i) \/ Report(i) \/ Stop(i)
      PROVE Kept(b)
  BY <1>0, <1>5 DEF Tick, vars, Scan, Load, Loaded, Report, Stop
<1> QED BY <1>1, <1>2, <1>3, <1>4, <1>5 DEF Next, Step

\* So what is published stays so, with as many newer ones.
LEMMA NewerStays ==
  ASSUME TypeInv, ListsInv, [Next]_vars
  PROVE  /\ Published \subseteq Published'
         /\ \A b \in Published : Newer(b) \subseteq Newer(b)'
         /\ \A S \in SUBSET Published : Oldest(S) = Oldest(S)'
<1>1. \A b \in Published : created'[b] = created[b] /\ dir'[b] # "none"
  BY Shrinks
<1>2. Published \subseteq Published'
  BY <1>1 DEF Published
<1>3. \A a, b \in Published : Older(a, b) <=> Older(a, b)'
  BY <1>1 DEF Older
<1>4. \A b \in Published : Newer(b) \subseteq Newer(b)'
  BY <1>2, <1>3 DEF Newer
<1>5. ASSUME NEW S \in SUBSET Published PROVE Oldest(S) = Oldest(S)'
  BY <1>3 DEF Oldest
<1> QED BY <1>2, <1>4, <1>5

LEMMA ListsStep ==
  ASSUME TypeInv, ListsInv, [Next]_vars
  PROVE  ListsInv'
<1> DEFINE Lists(j) ==
        /\ loaded[j] \subseteq names[j]
        /\ names[j] \subseteq Published
        /\ pc[j] \in {"idle", "publish", "scan"} => loaded[j] = {}
        /\ pc[j] \in {"idle", "publish"} => dir[j] = "none"
<1> SUFFICES ASSUME NEW j \in Creators PROVE Lists(j)'
  BY DEF ListsInv
<1>0. Lists(j) /\ Published \subseteq Published'
  BY NewerStays DEF ListsInv
<1> USE DEF TypeInv, Goto
<1>1. ASSUME NEW i \in Creators, Begin(i) PROVE Lists(j)'
  BY <1>0, <1>1 DEF Begin, ListsInv
<1>2. ASSUME NEW i \in Creators, Publish(i) PROVE Lists(j)'
  BY <1>0, <1>2 DEF Publish, ListsInv
<1>3. ASSUME NEW i \in Creators, Scan(i) PROVE Lists(j)'
  <2>1. Present \subseteq Published
    BY DEF Present, Published
  <2> QED BY <1>0, <1>3, <2>1 DEF Scan
<1>4. ASSUME NEW i \in Creators, Load(i) PROVE Lists(j)'
  <2>1. PICK b \in Oldest(names[i] \ loaded[i]) :
            IF dir[b] \in {"whole", "dataless"}
            THEN loaded' = [loaded EXCEPT ![i] = @ \union {b}] /\ pc' = pc
            ELSE pc' = [pc EXCEPT ![i] = "failed"] /\ loaded' = loaded
    BY <1>4 DEF Load
  <2>2. b \in names[i]
    BY DEF Oldest
  <2> QED BY <1>0, <1>4, <2>1, <2>2 DEF Load
<1>5. ASSUME NEW i \in Creators, Loaded(i) PROVE Lists(j)'
  BY <1>0, <1>5 DEF Loaded
<1>6. ASSUME NEW i \in Creators, Remove(i) PROVE Lists(j)'
  <2>1. pc'[j] \notin {"idle", "publish"} \/ (pc'[j] = pc[j] /\ j # i)
    BY <1>6 DEF Remove
  <2>2. dir[j] = "none" => dir'[j] = "none"
    <3>1. PICK a \in Oldest(loaded[i]) : \E d \in Shrunk(dir[a]) : dir' = [dir EXCEPT ![a] = d]
      BY <1>6 DEF Remove
    <3>2. dir[a] # "none"
      BY DEF Oldest, ListsInv, Published
    <3> QED BY <3>1, <3>2
  <2> QED BY <1>0, <1>6, <2>1, <2>2 DEF Remove
<1>7. ASSUME NEW i \in Creators, Removed(i) PROVE Lists(j)'
  <2>1. PICK a \in Oldest(loaded[i]) :
            /\ dir' = [dir EXCEPT ![a] = "gone"]
            /\ loaded' = [loaded EXCEPT ![i] = @ \ {a}]
    BY <1>7 DEF Removed
  <2>2. dir[a] # "none"
    BY DEF Oldest, ListsInv, Published
  <2> QED BY <1>0, <1>7, <2>1, <2>2 DEF Removed
<1>8. ASSUME NEW i \in Creators, Report(i) \/ Stop(i) PROVE Lists(j)'
  BY <1>0, <1>8, FaultAssumption DEF Report, Stop
<1>9. ASSUME Tick \/ UNCHANGED vars PROVE Lists(j)'
  BY <1>0, <1>9 DEF Tick, vars
<1> QED BY <1>1, <1>2, <1>3, <1>4, <1>5, <1>6, <1>7, <1>8, <1>9 DEF Next, Step

LEMMA PruneStep ==
  ASSUME TypeInv, ListsInv, PruneInv, [Next]_vars
  PROVE  PruneInv'
<1> DEFINE Removing(j) == pc[j] = "remove" => \A b \in Oldest(loaded[j]) : dir[b] # "whole"
           Pruned(j) == pc[j] \in {"prune", "remove", "done"} =>
                            \A b \in names[j] \ loaded[j] : dir[b] = "gone"
           Ended(j) == pc[j] = "done" => Cardinality(loaded[j]) <= Retention
<1> SUFFICES ASSUME NEW j \in Creators PROVE (Removing(j) /\ Pruned(j) /\ Ended(j))'
  BY DEF PruneInv
<1>0. Removing(j) /\ Pruned(j) /\ Ended(j)
  BY DEF PruneInv
<1>1. \A b \in Published :
        /\ dir[b] # "whole" => dir'[b] # "whole"
        /\ dir[b] = "gone" => dir'[b] = "gone"
  BY Shrinks
<1>2. loaded[j] \subseteq Published /\ names[j] \subseteq Published
  BY DEF ListsInv
<1>3. Oldest(loaded[j]) = Oldest(loaded[j])' \/ loaded'[j] # loaded[j]
  <2>1. ASSUME loaded'[j] = loaded[j] PROVE Oldest(loaded[j]) = Oldest(loaded[j])'
    <3>1. \A S \in SUBSET Published : Oldest(S) = Oldest(S)'
      BY NewerStays
    <3> DEFINE S == loaded[j]
    <3>2. Oldest(S) = {a \in S : \A b \in S \ {a} : Older(a, b)}
      BY DEF Oldest
    <3>3. \A a, b \in Published : Older(a, b) <=> Older(a, b)'
      <4>1. \A b \in Published : created'[b] = created[b]
        BY Shrinks
      <4> QED BY <4>1 DEF Older
    <3> QED BY <1>2, <2>1, <3>3 DEF Oldest
  <2> QED BY <2>1
<1>4. ASSUME UNCHANGED <<pc[j], names[j], loaded[j]>> PROVE (Removing(j) /\ Pruned(j) /\ Ended(j))'
  <2>1. Removing(j)'
    <3>1. Oldest(loaded[j]) \subseteq Published
      BY <1>2 DEF Oldest
    <3> QED BY <1>0, <1>1, <1>3, <1>4, <3>1
  <2>2. Pruned(j)'
    BY <1>0, <1>1, <1>2, <1>4
  <2> QED BY <1>0, <1>4, <2>1, <2>2
<1> USE DEF TypeInv, Goto
<1>5. ASSUME NEW i \in Creators, Begin(i) \/ Publish(i) \/ Scan(i) PROVE (Removing(j) /\ Pruned(j) /\ Ended(j))'
  <2>1. CASE i = j
    BY <1>5, <2>1 DEF Begin, Publish, Scan
  <2>2. CASE i # j
    BY <1>4, <1>5, <2>2 DEF Begin, Publish, Scan
  <2> QED BY <2>1, <2>2
<1>6. ASSUME NEW i \in Creators, Load(i) PROVE (Removing(j) /\ Pruned(j) /\ Ended(j))'
  <2>1. CASE i = j
    <3>1. pc'[j] \in {"load", "failed"}
      BY <1>6, <2>1 DEF Load
    <3> QED BY <3>1
  <2>2. CASE i # j
    <3>1. UNCHANGED <<pc[j], names[j], loaded[j]>>
      BY <1>6, <2>2 DEF Load
    <3> QED BY <1>4, <3>1
  <2> QED BY <2>1, <2>2
<1>7. ASSUME NEW i \in Creators, Loaded(i) PROVE (Removing(j) /\ Pruned(j) /\ Ended(j))'
  <2>1. CASE i = j
    BY <1>7, <2>1 DEF Loaded
  <2>2. CASE i # j
    BY <1>4, <1>7, <2>2 DEF Loaded
  <2> QED BY <2>1, <2>2
<1>8. ASSUME NEW i \in Creators, Remove(i) PROVE (Removing(j) /\ Pruned(j) /\ Ended(j))'
  <2>1. CASE i = j
    <3>1. PICK a \in Oldest(loaded[j]) : \E d \in Shrunk(dir[a]) : dir' = [dir EXCEPT ![a] = d]
      BY <1>8, <2>1 DEF Remove
    <3>2. PICK d \in Shrunk(dir[a]) : dir' = [dir EXCEPT ![a] = d]
      BY <3>1
    <3>3. a \in Published /\ a \in Creators
      BY <1>2 DEF Oldest, Published
    <3>4. dir'[a] # "whole"
      <4>1. dir[a] \in Directories \ {"none"}
        BY <3>3 DEF Published
      <4> QED BY <3>2, <3>3, <4>1 DEF Shrunk, Directories
    <3>5. loaded' = loaded /\ names' = names /\ pc[j] = "prune" /\ pc'[j] = "remove"
      BY <1>8, <2>1 DEF Remove
    <3>6. \A b \in Oldest(loaded[j]) : b = a
      <4>1. ASSUME NEW b \in Oldest(loaded[j]), b # a PROVE FALSE
        <5>1. Older(a, b) /\ Older(b, a)
          BY <4>1 DEF Oldest
        <5>2. a \in Nat /\ b \in Nat /\ created[a] \in Nat /\ created[b] \in Nat
          BY <1>2, CreatorAssumption DEF Oldest, Published
        <5> QED BY <5>1, <5>2 DEF Older
      <4> QED BY <4>1
    <3>7. Removing(j)'
      BY <1>3, <3>4, <3>5, <3>6
    <3>8. Pruned(j)'
      BY <1>0, <1>1, <1>2, <3>5
    <3> QED BY <3>5, <3>7, <3>8
  <2>2. CASE i # j
    <3>1. UNCHANGED <<pc[j], names[j], loaded[j]>>
      BY <1>8, <2>2 DEF Remove
    <3> QED BY <1>4, <3>1
  <2> QED BY <2>1, <2>2
<1>9. ASSUME NEW i \in Creators, Removed(i) PROVE (Removing(j) /\ Pruned(j) /\ Ended(j))'
  <2>1. CASE i = j
    <3>1. PICK a \in Oldest(loaded[j]) :
            /\ dir' = [dir EXCEPT ![a] = "gone"]
            /\ loaded' = [loaded EXCEPT ![j] = @ \ {a}]
      BY <1>9, <2>1 DEF Removed
    <3>2. pc[j] = "remove" /\ pc'[j] = "prune" /\ names' = names
      BY <1>9, <2>1 DEF Removed
    <3>3. \A b \in names[j] \ (loaded[j] \ {a}) : dir'[b] = "gone"
      BY <1>0, <1>2, <3>1, <3>2 DEF Published
    <3> QED BY <3>1, <3>2, <3>3
  <2>2. CASE i # j
    <3>1. UNCHANGED <<pc[j], names[j], loaded[j]>>
      BY <1>9, <2>2 DEF Removed
    <3> QED BY <1>4, <3>1
  <2> QED BY <2>1, <2>2
<1>10. ASSUME NEW i \in Creators, Report(i) PROVE (Removing(j) /\ Pruned(j) /\ Ended(j))'
  <2>1. CASE i = j
    <3>1. pc[j] = "prune" /\ pc'[j] = "done" /\ UNCHANGED <<names, loaded, dir>> /\ Cardinality(loaded[j]) <= Retention
      BY <1>10, <2>1 DEF Report
    <3> QED BY <1>0, <3>1
  <2>2. CASE i # j
    <3>1. UNCHANGED <<pc[j], names[j], loaded[j]>>
      BY <1>10, <2>2 DEF Report
    <3> QED BY <1>4, <3>1
  <2> QED BY <2>1, <2>2
<1>11. ASSUME NEW i \in Creators, Stop(i) PROVE (Removing(j) /\ Pruned(j) /\ Ended(j))'
  <2>1. CASE i = j
    <3>1. pc'[j] \in {"failed", "dead"}
      BY <1>11, <2>1, FaultAssumption DEF Stop
    <3> QED BY <3>1
  <2>2. CASE i # j
    <3>1. UNCHANGED <<pc[j], names[j], loaded[j]>>
      BY <1>11, <2>2 DEF Stop
    <3> QED BY <1>4, <3>1
  <2> QED BY <2>1, <2>2
<1>12. ASSUME Tick \/ UNCHANGED vars PROVE (Removing(j) /\ Pruned(j) /\ Ended(j))'
  BY <1>4, <1>12 DEF Tick, vars
<1> QED BY <1>5, <1>6, <1>7, <1>8, <1>9, <1>10, <1>11, <1>12 DEF Next, Step

\* A backup is damaged only by an invocation that has listed Retention newer
\* ones.
LEMMA DamageIsLate ==
  ASSUME TypeInv, ListsInv, PruneInv, [Next]_vars,
         NEW b \in Published, dir[b] = "whole", dir'[b] # "whole"
  PROVE  Cardinality(Newer(b)) >= Retention
<1>0. b \in Creators
  BY DEF Published
<1>1. ASSUME NEW i \in Creators, Remove(i) PROVE Cardinality(Newer(b)) >= Retention
  <2>1. b \in Oldest(loaded[i])
    BY <1>0, <1>1 DEF Remove, TypeInv
  <2>2. IsFiniteSet(loaded[i])
    BY CreatorAssumption, FS_Subset DEF TypeInv
  <2>3. Cardinality(loaded[i]) \in Nat /\ Cardinality(loaded[i] \ {b}) = Cardinality(loaded[i]) - 1
    BY <2>1, <2>2, FS_CardinalityType, FS_RemoveElement DEF Oldest
  <2>4. loaded[i] \ {b} \subseteq Newer(b)
    BY <2>1 DEF Oldest, Newer, ListsInv
  <2>5. IsFiniteSet(Newer(b))
    BY CreatorAssumption, FS_Subset DEF Newer, Published
  <2>6. Cardinality(loaded[i] \ {b}) <= Cardinality(Newer(b)) /\ Cardinality(Newer(b)) \in Nat
    BY <2>4, <2>5, FS_Subset, FS_CardinalityType
  <2> QED BY <1>1, <2>3, <2>6, RetentionAssumption DEF Remove
<1>2. ASSUME NEW i \in Creators, Removed(i) PROVE FALSE
  <2>1. b \in Oldest(loaded[i])
    BY <1>0, <1>2 DEF Removed, TypeInv
  <2> QED BY <1>2, <2>1 DEF Removed, PruneInv
<1>3. ASSUME NEW i \in Creators, Publish(i) PROVE FALSE
  BY <1>0, <1>3 DEF Publish, TypeInv
<1>4. ASSUME Tick \/ UNCHANGED vars \/ \E i \in Creators :
                Begin(i) \/ Scan(i) \/ Load(i) \/ Loaded(i) \/ Report(i) \/ Stop(i)
      PROVE FALSE
  BY <1>4 DEF Tick, vars, Begin, Scan, Load, Loaded, Report, Stop
<1> QED BY <1>1, <1>2, <1>3, <1>4 DEF Next, Step

LEMMA KeptStep ==
  ASSUME TypeInv, ListsInv, PruneInv, KeptInv, [Next]_vars
  PROVE  KeptInv'
<1> SUFFICES ASSUME NEW b \in Published', dir'[b] # "whole"
             PROVE  Cardinality(Newer(b)') >= Retention
  BY DEF KeptInv
<1>1. b \in Published
  <2>1. ASSUME dir[b] = "none" PROVE FALSE
    <3>0. b \in Creators /\ dir'[b] # "none"
      BY DEF Published
    <3>1. ASSUME NEW i \in Creators, Remove(i) PROVE FALSE
      <4>1. PICK a \in Oldest(loaded[i]) : \E d \in Shrunk(dir[a]) : dir' = [dir EXCEPT ![a] = d]
        BY <3>1 DEF Remove
      <4>2. dir[a] # "none"
        BY DEF Oldest, ListsInv, Published
      <4> QED BY <2>1, <3>0, <4>1, <4>2
    <3>2. ASSUME NEW i \in Creators, Removed(i) PROVE FALSE
      <4>1. PICK a \in Oldest(loaded[i]) : dir' = [dir EXCEPT ![a] = "gone"]
        BY <3>2 DEF Removed
      <4>2. dir[a] # "none"
        BY DEF Oldest, ListsInv, Published
      <4> QED BY <2>1, <3>0, <4>1, <4>2
    <3>3. ASSUME NEW i \in Creators, Publish(i) PROVE FALSE
      BY <2>1, <3>0, <3>3 DEF Publish, TypeInv
    <3>4. ASSUME Tick \/ UNCHANGED vars \/ \E i \in Creators :
                    Begin(i) \/ Scan(i) \/ Load(i) \/ Loaded(i) \/ Report(i) \/ Stop(i)
          PROVE FALSE
      BY <2>1, <3>0, <3>4 DEF Tick, vars, Begin, Scan, Load, Loaded, Report, Stop
    <3> QED BY <3>1, <3>2, <3>3, <3>4 DEF Next, Step
  <2> QED BY <2>1 DEF Published
<1>2. Cardinality(Newer(b)) >= Retention
  BY <1>1, DamageIsLate DEF KeptInv
<1>3. Newer(b) \subseteq Newer(b)'
  BY <1>1, NewerStays
<1>4. IsFiniteSet(Newer(b)')
  BY CreatorAssumption, FS_Subset DEF Newer, Published
<1>5. Cardinality(Newer(b)) <= Cardinality(Newer(b)') /\ Cardinality(Newer(b)') \in Nat
  BY <1>3, <1>4, FS_Subset, FS_CardinalityType
<1>6. Cardinality(Newer(b)) \in Nat
  BY <1>3, <1>4, FS_Subset, FS_CardinalityType
<1> QED BY <1>2, <1>5, <1>6, RetentionAssumption

-----------------------------------------------------------------------------
(* The invariant and what it implies. *)

LEMMA CatalogInvariant == Spec => []CatalogInv
<1>1. Init => CatalogInv
  <2>1. ASSUME Init PROVE ListsInv /\ PruneInv /\ KeptInv
    BY <2>1 DEF Init, ListsInv, PruneInv, KeptInv, Published
  <2> QED BY <2>1, TypeInit DEF CatalogInv
<1>2. CatalogInv /\ [Next]_vars => CatalogInv'
  BY TypeStep, ListsStep, PruneStep, KeptStep DEF CatalogInv
<1> QED BY <1>1, <1>2, PTL DEF Spec

\* Every variable keeps its type, and lists name published backups only.
THEOREM TypeCorrect == Spec => []TypeOK
<1>1. CatalogInv => TypeOK
  BY DEF CatalogInv, TypeInv, ListsInv, TypeOK
<1> QED BY <1>1, CatalogInvariant, PTL

\* The Retention newest backups are whole, however many invocations prune at
\* once, wherever they die, and whatever the clock shows.
THEOREM NewestStay == Spec => []NewestKept
<1>1. CatalogInv => NewestKept
  <2> SUFFICES ASSUME CatalogInv, NEW b \in Published, Cardinality(Newer(b)) < Retention
               PROVE  dir[b] = "whole"
    BY DEF NewestKept
  <2>1. IsFiniteSet(Newer(b))
    BY CreatorAssumption, FS_Subset DEF Newer, Published
  <2>2. Cardinality(Newer(b)) \in Nat
    BY <2>1, FS_CardinalityType
  <2> QED BY <2>2, RetentionAssumption DEF CatalogInv, KeptInv
<1> QED BY <1>1, CatalogInvariant, PTL

\* An invocation that listed every backup and reports success has honoured
\* the retention.
THEOREM SuccessHonoursRetention == Spec => []RetentionHonoured
<1>1. CatalogInv => RetentionHonoured
  <2> SUFFICES ASSUME CatalogInv, NEW i \in Creators, pc[i] = "done", Published \subseteq names[i]
               PROVE  Cardinality(Present) <= Retention
    BY DEF RetentionHonoured
  <2>1. Present \subseteq loaded[i]
    <3>1. \A b \in names[i] \ loaded[i] : dir[b] = "gone"
      BY DEF CatalogInv, PruneInv
    <3> QED BY <3>1 DEF Present, Published
  <2>2. IsFiniteSet(loaded[i])
    BY CreatorAssumption, FS_Subset DEF CatalogInv, TypeInv
  <2>3. Cardinality(Present) <= Cardinality(loaded[i]) /\ Cardinality(loaded[i]) \in Nat
    BY <2>1, <2>2, FS_Subset, FS_CardinalityType
  <2>4. Cardinality(Present) \in Nat
    BY <2>1, <2>2, FS_Subset, FS_CardinalityType
  <2> QED BY <2>3, <2>4, RetentionAssumption DEF CatalogInv, PruneInv
<1> QED BY <1>1, CatalogInvariant, PTL

-----------------------------------------------------------------------------
(* A directory without a manifest. *)

\* What a process that died removing a backup can leave: a directory that has
\* lost its manifest and that no invocation under way read before.
Stranded(b) ==
    /\ dir[b] = "manifestless"
    /\ \A i \in Creators : pc[i] \in Running => b \notin loaded[i]

\* The invocations that have removed nothing, and with b in the way never will.
Barred(i, b) ==
    \/ pc[i] \in {"idle", "publish", "scan", "failed", "dead"}
    \/ pc[i] = "load" /\ b \in names[i]

\* A stranded directory stays, and whoever had not got past reading manifests
\* never does.
StrandedForGood ==
    [][\A b \in Creators : Stranded(b) =>
            /\ Stranded(b)'
            /\ \A i \in Creators : Barred(i, b) => Barred(i, b)']_vars

LEMMA StrandedStep ==
  ASSUME TypeInv, ListsInv, [Next]_vars, NEW b \in Creators, Stranded(b)
  PROVE  /\ Stranded(b)'
         /\ \A j \in Creators : Barred(j, b) => Barred(j, b)'
<1> DEFINE Out(j) == pc[j] \in Running => b \notin loaded[j]
<1>0. dir[b] = "manifestless" /\ \A j \in Creators : Out(j)
  BY DEF Stranded
<1> HIDE DEF Stranded
<1> SUFFICES ASSUME NEW j \in Creators
             PROVE  dir'[b] = "manifestless" /\ Out(j)' /\ (Barred(j, b) => Barred(j, b)')
  BY DEF Stranded
<1> DEFINE Same == /\ dir'[b] = "manifestless"
                   /\ pc'[j] = pc[j] /\ names'[j] = names[j] /\ loaded'[j] = loaded[j]
           Goal == dir'[b] = "manifestless" /\ Out(j)' /\ (Barred(j, b) => Barred(j, b)')
<1>1. ASSUME Same PROVE Goal
  BY <1>0, <1>1 DEF Barred
<1>2. b \in Present
  BY <1>0 DEF Present
<1> USE DEF TypeInv, Goto, Running
<1>3. ASSUME NEW i \in Creators, Begin(i) PROVE Goal
  <2>1. CASE i = j
    BY <1>0, <1>3, <2>1 DEF Begin, Barred, ListsInv
  <2>2. CASE i # j
    BY <1>0, <1>1, <1>3, <2>2 DEF Begin
  <2> QED BY <2>1, <2>2
<1>4. ASSUME NEW i \in Creators, Publish(i) PROVE Goal
  <2>1. i # b
    BY <1>0, <1>4 DEF Publish, ListsInv
  <2>2. CASE i = j
    BY <1>0, <1>4, <2>1, <2>2 DEF Publish, Barred
  <2>3. CASE i # j
    BY <1>0, <1>1, <1>4, <2>1, <2>3 DEF Publish
  <2> QED BY <2>2, <2>3
<1>5. ASSUME NEW i \in Creators, Scan(i) PROVE Goal
  <2>1. CASE i = j
    BY <1>0, <1>2, <1>5, <2>1 DEF Scan, Barred
  <2>2. CASE i # j
    BY <1>0, <1>1, <1>5, <2>2 DEF Scan
  <2> QED BY <2>1, <2>2
<1>6. ASSUME NEW i \in Creators, Load(i) PROVE Goal
  <2>1. PICK a \in Oldest(names[i] \ loaded[i]) :
            IF dir[a] \in {"whole", "dataless"}
            THEN loaded' = [loaded EXCEPT ![i] = @ \union {a}] /\ pc' = pc
            ELSE pc' = [pc EXCEPT ![i] = "failed"] /\ loaded' = loaded
    BY <1>6 DEF Load
  <2>2. pc[i] = "load" /\ dir' = dir /\ names' = names
    BY <1>6 DEF Load
  <2>3. CASE i # j
    BY <1>0, <1>1, <2>1, <2>2, <2>3
  <2>4. CASE i = j /\ dir[a] \in {"whole", "dataless"}
    BY <1>0, <2>1, <2>2, <2>4 DEF Barred
  <2>5. CASE i = j /\ dir[a] \notin {"whole", "dataless"}
    BY <1>0, <2>1, <2>2, <2>5 DEF Barred
  <2> QED BY <2>3, <2>4, <2>5
\* To have read every manifest it listed, it must have read this one.
<1>7. ASSUME NEW i \in Creators, Loaded(i) PROVE Goal
  <2>1. CASE i = j
    BY <1>0, <1>7, <2>1 DEF Loaded, Barred
  <2>2. CASE i # j
    BY <1>0, <1>1, <1>7, <2>2 DEF Loaded
  <2> QED BY <2>1, <2>2
<1>8. ASSUME NEW i \in Creators, Remove(i) PROVE Goal
  <2>1. PICK a \in Oldest(loaded[i]) : \E d \in Shrunk(dir[a]) : dir' = [dir EXCEPT ![a] = d]
    BY <1>8 DEF Remove
  <2>2. a # b
    BY <1>0, <1>8 DEF Remove, Oldest
  <2>3. dir'[b] = "manifestless" /\ names' = names /\ loaded' = loaded
    BY <1>0, <1>8, <2>1, <2>2 DEF Remove
  <2>4. CASE i = j
    BY <1>0, <1>8, <2>3, <2>4 DEF Remove, Barred
  <2>5. CASE i # j
    BY <1>0, <1>1, <1>8, <2>3, <2>5 DEF Remove
  <2> QED BY <2>4, <2>5
<1>9. ASSUME NEW i \in Creators, Removed(i) PROVE Goal
  <2>1. PICK a \in Oldest(loaded[i]) :
            /\ dir' = [dir EXCEPT ![a] = "gone"]
            /\ loaded' = [loaded EXCEPT ![i] = @ \ {a}]
    BY <1>9 DEF Removed
  <2>2. a # b
    BY <1>0, <1>9 DEF Removed, Oldest
  <2>3. CASE i = j
    BY <1>0, <1>9, <2>1, <2>2, <2>3 DEF Removed, Barred
  <2>4. CASE i # j
    BY <1>0, <1>1, <1>9, <2>1, <2>2, <2>4 DEF Removed
  <2> QED BY <2>3, <2>4
<1>10. ASSUME NEW i \in Creators, Report(i) PROVE Goal
  <2>1. CASE i = j
    BY <1>0, <1>10, <2>1 DEF Report, Barred
  <2>2. CASE i # j
    BY <1>0, <1>1, <1>10, <2>2 DEF Report
  <2> QED BY <2>1, <2>2
<1>11. ASSUME NEW i \in Creators, Stop(i) PROVE Goal
  <2>1. CASE i = j
    BY <1>0, <1>11, <2>1, FaultAssumption DEF Stop, Barred
  <2>2. CASE i # j
    BY <1>0, <1>1, <1>11, <2>2 DEF Stop
  <2> QED BY <2>1, <2>2
<1>12. ASSUME Tick \/ UNCHANGED vars PROVE Goal
  BY <1>0, <1>1, <1>12 DEF Tick, vars
<1> QED BY <1>3, <1>4, <1>5, <1>6, <1>7, <1>8, <1>9, <1>10, <1>11, <1>12 DEF Next, Step

\* One process that dies in removing an expired backup can end the retention
\* of its workspace for good: nobody who has still to read that directory's
\* manifest ever removes a backup or reports one created, and the directory
\* is never taken away.
THEOREM StrandedBackupBars == Spec => StrandedForGood
<1>1. CatalogInv /\ [Next]_vars =>
        [\A b \in Creators : Stranded(b) =>
            /\ Stranded(b)'
            /\ \A i \in Creators : Barred(i, b) => Barred(i, b)']_vars
  BY StrandedStep DEF CatalogInv
<1> QED BY <1>1, CatalogInvariant, PTL DEF Spec, StrandedForGood
====
