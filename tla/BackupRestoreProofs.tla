---- MODULE BackupRestoreProofs ----
(***************************************************************************)
(* What holds of restores for any number of them, any backups, and renames *)
(* and removals that fail and processes that die at any step.              *)
(***************************************************************************)
EXTENDS BackupRestore, TLAPS

Trees == [Components -> Slots]
Moves == [original : SUBSET Components, staged : SUBSET Components]

TypeInv ==
    /\ live \in Trees
    /\ artifacts \in Indexes
    /\ pc \in [Restores -> Steps]
    /\ which \in [Restores -> Backups]
    /\ staged \in [Restores -> Trees]
    /\ original \in [Restores -> Trees]
    /\ at \in [Restores -> 0..4]
    /\ moves \in [Restores -> Moves]
    /\ stuck \in [Restores -> BOOLEAN]
    /\ before \in [Restores -> Trees]
    /\ target \in [Restores -> Trees]

\* What each restore knows of itself.
OwnInv ==
    \A i \in Restores :
        /\ pc[i] \in Swapping \union {"putback"} => at[i] # 0
        /\ pc[i] \in {"idle", "stage", "reconcile", "begin"} =>
            moves[i].original = {} /\ moves[i].staged = {} /\ original[i] = Nothing /\ ~stuck[i]
        /\ pc[i] = "reconcile" => staged[i][Database] # Absent
        /\ \A c \in moves[i].staged : staged[i][c] = Absent

-----------------------------------------------------------------------------
(* Types. *)

LEMMA NothingType == Nothing \in Trees
  BY DEF Nothing, Trees, Slots

LEMMA TreeUpdate ==
  ASSUME NEW t \in Trees, NEW c \in Components, NEW v \in Slots
  PROVE  [t EXCEPT ![c] = v] \in Trees
  BY DEF Trees

LEMMA TreesUpdate ==
  ASSUME NEW f \in [Restores -> Trees], NEW i \in Restores, NEW c \in Components, NEW v \in Slots
  PROVE  [f EXCEPT ![i][c] = v] \in [Restores -> Trees]
<1>1. f[i] \in Trees
  OBVIOUS
<1>2. [f[i] EXCEPT ![c] = v] \in Trees
  BY <1>1, TreeUpdate
<1> QED BY <1>2

LEMMA MovesUpdate ==
  ASSUME NEW m \in [Restores -> Moves], NEW i \in Restores, NEW c \in Components
  PROVE  /\ [m EXCEPT ![i].original = @ \union {c}] \in [Restores -> Moves]
         /\ [m EXCEPT ![i].staged = @ \union {c}] \in [Restores -> Moves]
<1>1. m[i] \in Moves
  OBVIOUS
<1>2. [m[i] EXCEPT !.original = @ \union {c}] \in Moves
  BY <1>1 DEF Moves
<1>3. [m[i] EXCEPT !.staged = @ \union {c}] \in Moves
  BY <1>1 DEF Moves
<1> QED BY <1>2, <1>3

LEMMA ForgetType ==
  ASSUME TypeInv, NEW i \in Restores, Forget(i)
  PROVE  /\ staged' \in [Restores -> Trees]
         /\ at' \in [Restores -> 0..4]
         /\ moves' \in [Restores -> Moves]
         /\ stuck' \in [Restores -> BOOLEAN]
         /\ before' \in [Restores -> Trees]
         /\ target' \in [Restores -> Trees]
<1>1. [original |-> {}, staged |-> {}] \in Moves
  BY DEF Moves
<1> QED BY <1>1, NothingType DEF Forget, TypeInv

LEMMA TypeInit == Init => TypeInv
<1> SUFFICES ASSUME Init PROVE TypeInv
  OBVIOUS
<1>1. [original |-> {}, staged |-> {}] \in Moves
  BY DEF Moves
<1>2. live \in Trees
  BY InitialAssumption DEF Init, Trees, Slots
<1>3. artifacts \in Indexes
  BY InitialAssumption DEF Init, Contents, Components, Database
<1> QED BY <1>1, <1>2, <1>3, NothingType DEF Init, TypeInv, Steps

LEMMA SavedType == \A b \in Backups : Saved[b] \in Trees
  BY SavedAssumption DEF Trees

LEMMA TypeStep ==
  ASSUME TypeInv, OwnInv, [Next]_vars
  PROVE  TypeInv'
<1> USE DEF Goto, Steps, Running, Swapping, RollingBack
<1>1. ASSUME NEW i \in Restores, Load(i) PROVE TypeInv'
  BY <1>1 DEF Load, local, TypeInv
<1>2. ASSUME NEW i \in Restores, Stage(i) PROVE TypeInv'
  <2>1. Saved[which[i]] \in Trees
    BY SavedType DEF TypeInv
  <2> QED BY <1>2, <2>1 DEF Stage, TypeInv
<1>3. ASSUME NEW i \in Restores, Reconcile(i) PROVE TypeInv'
  <2>1. CASE live[Database] = Absent
    BY <1>3, <2>1 DEF Reconcile, TypeInv
  <2>2. CASE live[Database] # Absent
    <3>1. staged' = [staged EXCEPT ![i][Database] = Reconciled(staged[i][Database], live[Database])]
      BY <1>3, <2>2 DEF Reconcile
    <3>2. staged[i] \in Trees /\ Database \in Components
      BY DEF TypeInv, Components, Database
    <3>3. staged[i][Database] \in Contents /\ live[Database] \in Contents
      BY <1>3, <2>2, <3>2 DEF Reconcile, OwnInv, TypeInv, Trees, Slots
    <3>4. Reconciled(staged[i][Database], live[Database]) \in Slots
      BY <3>3 DEF Reconciled, Slots, Contents
    <3>5. staged' \in [Restores -> Trees]
      BY <3>1, <3>2, <3>4, TreesUpdate DEF TypeInv
    <3> QED BY <1>3, <2>2, <3>5 DEF Reconcile, TypeInv
  <2> QED BY <2>1, <2>2
<1>4. ASSUME NEW i \in Restores, Refuse(i) PROVE TypeInv'
  BY <1>4, NothingType DEF Refuse, TypeInv
<1>5. ASSUME NEW i \in Restores, Begin(i) PROVE TypeInv'
  BY <1>5 DEF Begin, TypeInv
<1>6. ASSUME NEW i \in Restores, Preserve(i) PROVE TypeInv'
  <2>1. at[i] \in Components
    BY <1>6 DEF Preserve, OwnInv, TypeInv, Components
  <2>2. CASE live[at[i]] = Absent
    BY <1>6, <2>2 DEF Preserve, TypeInv
  <2>3. CASE live[at[i]] # Absent
    <3>1. live[at[i]] \in Slots /\ Absent \in Slots
      BY <2>1 DEF TypeInv, Trees, Slots
    <3>2. original' = [original EXCEPT ![i][at[i]] = live[at[i]]]
          /\ live' = [live EXCEPT ![at[i]] = Absent]
          /\ moves' = [moves EXCEPT ![i].original = @ \union {at[i]}]
      BY <1>6, <2>3 DEF Preserve
    <3>3. original' \in [Restores -> Trees] /\ live' \in Trees /\ moves' \in [Restores -> Moves]
      BY <2>1, <3>1, <3>2, TreeUpdate, TreesUpdate, MovesUpdate DEF TypeInv
    <3> QED BY <1>6, <3>3 DEF Preserve, TypeInv
  <2> QED BY <2>2, <2>3
<1>7. ASSUME NEW i \in Restores, PreserveFails(i) PROVE TypeInv'
  <2>1. at[i] - 1 \in 0..4
    BY <1>7 DEF PreserveFails, OwnInv, TypeInv
  <2> QED BY <1>7, <2>1 DEF PreserveFails, TypeInv
<1>8. ASSUME NEW i \in Restores, Commit(i) PROVE TypeInv'
  <2>1. at[i] \in Components
    BY <1>8 DEF Commit, OwnInv, TypeInv, Components
  <2>2. live' \in Trees /\ staged' \in [Restores -> Trees] /\ moves' \in [Restores -> Moves]
    <3>1. CASE staged[i][at[i]] = Absent
      BY <1>8, <3>1 DEF Commit, TypeInv
    <3>2. CASE staged[i][at[i]] # Absent
      <4>1. staged[i][at[i]] \in Slots /\ Absent \in Slots
        BY <2>1 DEF TypeInv, Trees, Slots
      <4>2. live' = [live EXCEPT ![at[i]] = staged[i][at[i]]]
            /\ staged' = [staged EXCEPT ![i][at[i]] = Absent]
            /\ moves' = [moves EXCEPT ![i].staged = @ \union {at[i]}]
        BY <1>8, <3>2 DEF Commit
      <4> QED BY <2>1, <4>1, <4>2, TreeUpdate, TreesUpdate, MovesUpdate DEF TypeInv
    <3> QED BY <3>1, <3>2
  <2>3. at' \in [Restores -> 0..4] /\ pc' \in [Restores -> Steps]
    BY <1>8, <2>1 DEF Commit, TypeInv, Components, StateDirectory
  <2> QED BY <1>8, <2>2, <2>3 DEF Commit, TypeInv
<1>9. ASSUME NEW i \in Restores, CommitFails(i) PROVE TypeInv'
  BY <1>9 DEF CommitFails, local, TypeInv
<1>10. ASSUME NEW i \in Restores, Remove(i) PROVE TypeInv'
  <2>1. at[i] \in Components /\ Absent \in Slots
    BY <1>10 DEF Remove, TypeInv, Components, Slots
  <2>2. live' \in Trees
    BY <1>10, <2>1, TreeUpdate DEF Remove, TypeInv
  <2> QED BY <1>10, <2>2 DEF Remove, local, TypeInv
<1>11. ASSUME NEW i \in Restores, RemoveFails(i) PROVE TypeInv'
  <2>1. at[i] \in Components
    BY <1>11 DEF RemoveFails, TypeInv, Moves
  <2>2. at[i] - 1 \in 0..4
    BY <2>1 DEF Components
  <2> QED BY <1>11, <2>2 DEF RemoveFails, TypeInv
<1>12. ASSUME NEW i \in Restores, PutBack(i) PROVE TypeInv'
  <2>1. at[i] \in Components /\ at[i] - 1 \in 0..4
    BY <1>12 DEF PutBack, OwnInv, TypeInv, Components
  <2>2. live' \in Trees /\ original' \in [Restores -> Trees]
    <3>1. CASE at[i] \in moves[i].original
      <4>1. original[i][at[i]] \in Slots /\ Absent \in Slots
        BY <2>1 DEF TypeInv, Trees, Slots
      <4>2. live' = [live EXCEPT ![at[i]] = original[i][at[i]]]
            /\ original' = [original EXCEPT ![i][at[i]] = Absent]
        BY <1>12, <3>1 DEF PutBack
      <4> QED BY <2>1, <4>1, <4>2, TreeUpdate, TreesUpdate DEF TypeInv
    <3>2. CASE at[i] \notin moves[i].original
      BY <1>12, <3>2 DEF PutBack, TypeInv
    <3> QED BY <3>1, <3>2
  <2> QED BY <1>12, <2>1, <2>2 DEF PutBack, TypeInv
<1>13. ASSUME NEW i \in Restores, PutBackFails(i) PROVE TypeInv'
  <2>1. at[i] - 1 \in 0..4
    BY <1>13 DEF PutBackFails, OwnInv, TypeInv
  <2> QED BY <1>13, <2>1 DEF PutBackFails, TypeInv
<1>14. ASSUME NEW i \in Restores, RolledBack(i) PROVE TypeInv'
  BY <1>14, ForgetType DEF RolledBack, TypeInv
<1>15. ASSUME NEW i \in Restores, End(i) PROVE TypeInv'
  <2>1. original' \in [Restores -> Trees]
    BY <1>15, NothingType DEF End, TypeInv
  <2> QED BY <1>15, <2>1, ForgetType DEF End, TypeInv
<1>16. ASSUME NEW i \in Restores, Die(i) PROVE TypeInv'
  BY <1>16, ForgetType DEF Die, TypeInv
<1>17. ASSUME NEW c \in Written, NEW d \in Data, Work(c, d) PROVE TypeInv'
  <2>1. PICK x \in Indexes : live' = [live EXCEPT ![c] = [data |-> d, index |-> x]]
    BY <1>17 DEF Work
  <2>2. [data |-> d, index |-> x] \in Slots /\ c \in Components
    BY WrittenAssumption DEF Slots, Contents
  <2>3. live' \in Trees
    BY <2>1, <2>2, TreeUpdate DEF TypeInv
  <2> QED BY <1>17, <2>3 DEF Work, local, TypeInv
<1>18. ASSUME NEW x \in Indexes, Regenerate(x) PROVE TypeInv'
  <2>1. live' = [live EXCEPT ![Database] = [live[Database] EXCEPT !.index = x]] /\ Database \in Components
    BY <1>18 DEF Regenerate, TypeInv, Trees, Database, Components
  <2>2. [live[Database] EXCEPT !.index = x] \in Slots
    <3>1. live[Database] \in Slots
      BY <2>1 DEF TypeInv, Trees
    <3>2. live[Database] \in Contents
      BY <1>18, <3>1 DEF Regenerate, Slots
    <3> QED BY <3>2 DEF Slots, Contents
  <2>3. live' \in Trees
    BY <2>1, <2>2, TreeUpdate DEF TypeInv
  <2> QED BY <1>18, <2>3 DEF Regenerate, local, TypeInv
<1>19. ASSUME UNCHANGED vars PROVE TypeInv'
  BY <1>19 DEF vars, local, TypeInv
<1> QED
  BY <1>1, <1>2, <1>3, <1>4, <1>5, <1>6, <1>7, <1>8, <1>9, <1>10, <1>11, <1>12, <1>13,
     <1>14, <1>15, <1>16, <1>17, <1>18, <1>19 DEF Next, Step

LEMMA OwnInit == Init => OwnInv
<1> SUFFICES ASSUME Init, NEW i \in Restores
             PROVE  /\ pc[i] = "idle" /\ original[i] = Nothing /\ ~stuck[i]
                    /\ moves[i].original = {} /\ moves[i].staged = {}
  BY DEF OwnInv, Swapping
<1>1. pc[i] = "idle" /\ original[i] = Nothing /\ ~stuck[i]
  BY DEF Init
<1>2. moves[i] = [original |-> {}, staged |-> {}]
  BY DEF Init
<1> QED BY <1>1, <1>2

\* What an invocation knows of itself no other step changes.
LEMMA OwnStep ==
  ASSUME TypeInv, OwnInv, [Next]_vars
  PROVE  OwnInv'
<1> DEFINE Own(j) ==
        /\ pc[j] \in Swapping \union {"putback"} => at[j] # 0
        /\ pc[j] \in {"idle", "stage", "reconcile", "begin"} =>
            moves[j].original = {} /\ moves[j].staged = {} /\ original[j] = Nothing /\ ~stuck[j]
        /\ pc[j] = "reconcile" => staged[j][Database] # Absent
        /\ \A c \in moves[j].staged : staged[j][c] = Absent
<1> SUFFICES ASSUME NEW j \in Restores PROVE Own(j)'
  BY DEF OwnInv
<1>0. Own(j)
  BY DEF OwnInv
<1>a. ASSUME UNCHANGED <<pc[j], at[j], moves[j], original[j], stuck[j], staged[j]>> PROVE Own(j)'
  BY <1>0, <1>a
<1>b. ASSUME NEW i \in Restores, Step(i), i # j PROVE Own(j)'
  <2>1. UNCHANGED <<pc[j], at[j], moves[j], original[j], stuck[j], staged[j]>>
    BY <1>b DEF Step, Load, Stage, Reconcile, Refuse, Begin, Preserve, PreserveFails, Commit,
         CommitFails, Remove, RemoveFails, PutBack, PutBackFails, RolledBack, End, Die, Forget, Goto, local, TypeInv
  <2> QED BY <1>a, <2>1
<1>c. ASSUME Forget(j), pc'[j] \notin {"idle", "stage", "reconcile", "begin"} \union Swapping \union {"putback"}
      PROVE Own(j)'
  <2>1. moves'[j].staged = {}
    BY <1>c DEF Forget, TypeInv
  <2> QED BY <1>c, <2>1
<1> USE DEF Goto, Swapping, RollingBack
<1>1. CASE Load(j)
  BY <1>0, <1>1 DEF Load, local, TypeInv
<1>2. CASE Stage(j)
  BY <1>0, <1>2 DEF Stage, TypeInv
<1>3. CASE Reconcile(j)
  <2>1. CASE live[Database] = Absent
    BY <1>0, <1>3, <2>1 DEF Reconcile, TypeInv
  <2>2. CASE live[Database] # Absent
    BY <1>0, <1>3, <2>2 DEF Reconcile, TypeInv
  <2> QED BY <2>1, <2>2
<1>4. CASE Refuse(j)
  BY <1>0, <1>4 DEF Refuse, TypeInv
<1>5. CASE Begin(j)
  BY <1>0, <1>5 DEF Begin, TypeInv
<1>6. CASE Preserve(j)
  <2>1. pc'[j] = "commit" /\ at'[j] = at[j] /\ at[j] # 0 /\ staged' = staged
    BY <1>0, <1>6 DEF Preserve, TypeInv
  <2>2. moves'[j].staged = moves[j].staged
    BY <1>6 DEF Preserve, TypeInv, Moves
  <2> QED BY <1>0, <2>1, <2>2
<1>7. CASE PreserveFails(j)
  BY <1>0, <1>7 DEF PreserveFails, TypeInv
<1>8. CASE Commit(j)
  <2>1. pc'[j] \in {"discard", "preserve"} /\ at'[j] # 0
    BY <1>0, <1>8 DEF Commit, TypeInv, StateDirectory
  <2>2. at[j] \in Components /\ staged[j] \in Trees /\ moves[j] \in Moves
    BY <1>0, <1>8 DEF Commit, TypeInv, Components
  <2>3. \A c \in moves'[j].staged : staged'[j][c] = Absent
    <3>1. CASE staged[j][at[j]] = Absent
      BY <1>0, <1>8, <3>1 DEF Commit
    <3>2. CASE staged[j][at[j]] # Absent
      <4>1. moves'[j].staged = moves[j].staged \union {at[j]}
        BY <1>8, <2>2, <3>2 DEF Commit, TypeInv, Moves
      <4>2. staged'[j] = [staged[j] EXCEPT ![at[j]] = Absent]
        BY <1>8, <2>2, <3>2 DEF Commit, TypeInv
      <4>3. moves[j].staged \subseteq Components
        BY <2>2 DEF Moves
      <4> QED BY <1>0, <2>2, <4>1, <4>2, <4>3 DEF Trees
    <3> QED BY <3>1, <3>2
  <2> QED BY <2>1, <2>3
<1>9. CASE CommitFails(j)
  BY <1>0, <1>9 DEF CommitFails, local, TypeInv
<1>10. CASE Remove(j)
  BY <1>0, <1>10 DEF Remove, local, TypeInv
<1>11. CASE RemoveFails(j)
  BY <1>0, <1>11 DEF RemoveFails, TypeInv
<1>12. CASE PutBack(j)
  BY <1>0, <1>12 DEF PutBack, TypeInv
<1>13. CASE PutBackFails(j)
  BY <1>0, <1>13 DEF PutBackFails, TypeInv
<1>14. CASE RolledBack(j)
  <2>1. CASE stuck[j]
    BY <1>14, <1>c, <2>1 DEF RolledBack, TypeInv
  <2>2. CASE ~stuck[j]
    BY <1>0, <1>14, <2>2 DEF RolledBack, TypeInv
  <2> QED BY <2>1, <2>2
<1>15. CASE End(j)
  BY <1>15, <1>c DEF End, TypeInv
<1>16. CASE Die(j)
  BY <1>16, <1>c DEF Die, TypeInv
<1>17. ASSUME NEW c \in Written, NEW d \in Data, Work(c, d) PROVE Own(j)'
  BY <1>17, <1>a DEF Work, local
<1>18. ASSUME NEW x \in Indexes, Regenerate(x) PROVE Own(j)'
  BY <1>18, <1>a DEF Regenerate, local
<1>19. ASSUME UNCHANGED vars PROVE Own(j)'
  BY <1>19, <1>a DEF vars, local
<1> QED
  <2>1. CASE \E i \in Restores : Step(i)
    BY <2>1, <1>b, <1>1, <1>2, <1>3, <1>4, <1>5, <1>6, <1>7, <1>8, <1>9, <1>10, <1>11, <1>12, <1>13,
       <1>14, <1>15, <1>16 DEF Step
  <2> QED BY <2>1, <1>17, <1>18, <1>19 DEF Next

-----------------------------------------------------------------------------
(* The swap of a restore that nothing else overlaps with.                  *)

AloneInv == \A i, j \in Restores : pc[i] \in Running /\ pc[j] \in Running => i = j

\* Where a component is at each point of the swap.
Recorded(i, c) == original[i][c] = before[i][c] /\ (c \in moves[i].original <=> before[i][c] # Absent)

Untouched(i, c) ==
    /\ live[c] = before[i][c] /\ staged[i][c] = target[i][c] /\ original[i][c] = Absent
    /\ c \notin moves[i].original /\ c \notin moves[i].staged

Moved(i, c) ==
    /\ Recorded(i, c) /\ live[c] = Absent /\ staged[i][c] = target[i][c]
    /\ c \notin moves[i].staged

Placed(i, c) ==
    /\ Recorded(i, c) /\ live[c] = target[i][c]
    /\ c \in moves[i].staged <=> target[i][c] # Absent

Emptied(i, c) == Recorded(i, c) /\ live[c] = Absent

Undone(i, c) ==
    \/ live[c] = before[i][c] /\ original[i][c] = Absent
    \/ stuck[i] /\ original[i][c] = before[i][c] /\ live[c] \in {Absent, target[i][c]}

Phase(i) ==
    /\ pc[i] = "preserve" =>
        \A c \in Components : IF c < at[i] THEN Placed(i, c) ELSE Untouched(i, c)
    /\ pc[i] = "commit" =>
        \A c \in Components :
            IF c < at[i] THEN Placed(i, c) ELSE IF c = at[i] THEN Moved(i, c) ELSE Untouched(i, c)
    /\ pc[i] = "discard" => \A c \in Components : Placed(i, c)
    /\ pc[i] = "remove" =>
        \A c \in Components : IF c <= at[i] THEN Placed(i, c) \/ Moved(i, c) ELSE Undone(i, c)
    /\ pc[i] = "putback" =>
        \A c \in Components :
            IF c < at[i] THEN Placed(i, c) \/ Moved(i, c)
            ELSE IF c = at[i] THEN Emptied(i, c) ELSE Undone(i, c)
    /\ pc[i] = "clean" => ~stuck[i] /\ \A c \in Components : Undone(i, c)

SwapInv == \A i \in Restores : Phase(i)

LEMMA AloneInit == Init => AloneInv
  BY DEF Init, AloneInv, Running, Swapping, RollingBack

\* Each step belongs to an invocation that runs, or that none runs beside.
LEMMA Turn ==
  ASSUME NEW i \in Restores, Step(i), TypeInv
  PROVE  /\ pc[i] \in Running \/ (pc[i] = "idle" /\ (Overlap \/ Quiet))
         /\ \A j \in Restores \ {i} : pc'[j] = pc[j]
<1> USE DEF Step, Load, Stage, Reconcile, Refuse, Begin, Preserve, PreserveFails, Commit,
      CommitFails, Remove, RemoveFails, PutBack, PutBackFails, RolledBack, End, Die, Goto
<1>1. pc[i] \in Running \/ (pc[i] = "idle" /\ (Overlap \/ Quiet))
  BY DEF Running, Swapping, RollingBack
<1>2. \A j \in Restores \ {i} : pc'[j] = pc[j]
  BY DEF TypeInv
<1> QED BY <1>1, <1>2

LEMMA AloneStep ==
  ASSUME ~Overlap, TypeInv, AloneInv, [Next]_vars
  PROVE  AloneInv'
<1>1. ASSUME NEW i \in Restores, Step(i) PROVE AloneInv'
  BY <1>1, Turn DEF AloneInv, Quiet
<1>2. ASSUME UNCHANGED pc PROVE AloneInv'
  BY <1>2 DEF AloneInv
<1> QED BY <1>1, <1>2 DEF Next, Work, Regenerate, vars

\* A component that a step leaves alone.
LEMMA Frame ==
  ASSUME NEW i, NEW d,
         live'[d] = live[d], staged'[i][d] = staged[i][d], original'[i][d] = original[i][d],
         before'[i] = before[i], target'[i] = target[i], stuck[i] => stuck'[i],
         d \in moves'[i].original <=> d \in moves[i].original,
         d \in moves'[i].staged <=> d \in moves[i].staged
  PROVE  /\ Untouched(i, d) => Untouched(i, d)'
         /\ Moved(i, d) => Moved(i, d)'
         /\ Placed(i, d) => Placed(i, d)'
         /\ Emptied(i, d) => Emptied(i, d)'
         /\ Undone(i, d) => Undone(i, d)'
  BY DEF Untouched, Moved, Placed, Emptied, Undone, Recorded

LEMMA UntouchedIsUndone == \A i, c : Untouched(i, c) => Undone(i, c)
  BY DEF Untouched, Undone

\* The swap's own steps keep the phase.
LEMMA SwapForward ==
  ASSUME TypeInv, OwnInv, NEW i \in Restores, Phase(i),
         Begin(i) \/ Preserve(i) \/ PreserveFails(i) \/ Commit(i) \/ CommitFails(i)
  PROVE  Phase(i)'
<1> USE DEF Goto
<1>1. CASE Begin(i)
  <2>1. pc'[i] = "preserve" /\ at'[i] = 1
    BY <1>1 DEF Begin, TypeInv
  <2>2. ASSUME NEW c \in Components PROVE Untouched(i, c)'
    BY <1>1, <2>2 DEF Begin, Untouched, OwnInv, Nothing, TypeInv
  <2>3. \A c \in Components : ~(c < 1)
    BY DEF Components
  <2> QED BY <2>1, <2>2, <2>3 DEF Phase
<1>2. CASE Preserve(i)
  <2> PICK k \in 0..4 : k = at[i]
    BY DEF TypeInv
  <2>0. k \in Components /\ pc[i] = "preserve" /\ pc'[i] = "commit" /\ at' = at
    BY <1>2 DEF Preserve, OwnInv, Swapping, TypeInv, Components
  <2>1. Untouched(i, k) /\ \A c \in Components : IF c < k THEN Placed(i, c) ELSE Untouched(i, c)
    BY <2>0 DEF Phase, Components
  <2>2. Moved(i, k)'
    <3>1. CASE live[k] = Absent
      BY <1>2, <2>1, <3>1 DEF Preserve, Untouched, Moved, Recorded
    <3>2. CASE live[k] # Absent
      <4>1. live'[k] = Absent /\ original'[i][k] = live[k] /\ UNCHANGED <<staged, before, target>>
        BY <1>2, <2>0, <3>2 DEF Preserve, TypeInv, Trees
      <4>2. moves'[i].original = moves[i].original \union {k} /\ moves'[i].staged = moves[i].staged
        BY <1>2, <3>2 DEF Preserve, TypeInv, Moves
      <4> QED BY <2>1, <3>2, <4>1, <4>2 DEF Untouched, Moved, Recorded
    <3> QED BY <3>1, <3>2
  <2>3. ASSUME NEW c \in Components, c # k
        PROVE  (Placed(i, c) => Placed(i, c)') /\ (Untouched(i, c) => Untouched(i, c)')
    <3>1. live'[c] = live[c] /\ original'[i][c] = original[i][c] /\ UNCHANGED <<staged, before, target, stuck>>
      BY <1>2, <2>0, <2>3 DEF Preserve, TypeInv, Trees
    <3>2. (c \in moves'[i].original <=> c \in moves[i].original) /\ moves'[i].staged = moves[i].staged
      BY <1>2, <2>3 DEF Preserve, TypeInv, Moves
    <3> QED BY <3>1, <3>2, Frame
  <2> QED BY <2>0, <2>1, <2>2, <2>3 DEF Phase, Components
<1>3. CASE PreserveFails(i)
  <2>1. pc[i] = "preserve" /\ pc'[i] = "remove" /\ at'[i] = at[i] - 1 /\ at[i] \in 0..4
    BY <1>3 DEF PreserveFails, TypeInv
  <2>2. ASSUME NEW c \in Components
        PROVE  (Placed(i, c) => Placed(i, c)') /\ (Untouched(i, c) => Undone(i, c)')
    BY <1>3, Frame, UntouchedIsUndone DEF PreserveFails
  <2>3. \A c \in Components : c <= at[i] - 1 <=> c < at[i]
    BY <2>1 DEF Components
  <2> QED BY <2>1, <2>2, <2>3 DEF Phase
<1>4. CASE Commit(i)
  <2> PICK k \in 0..4 : k = at[i]
    BY DEF TypeInv
  <2>0. k \in Components /\ pc[i] = "commit"
    BY <1>4 DEF Commit, OwnInv, Swapping, TypeInv, Components
  <2>1. /\ Moved(i, k)
        /\ \A c \in Components : (c < k => Placed(i, c)) /\ (c > k => Untouched(i, c))
    BY <2>0 DEF Phase, Components
  <2>2. Placed(i, k)'
    <3>1. CASE staged[i][k] = Absent
      BY <1>4, <2>1, <3>1 DEF Commit, Moved, Placed, Recorded
    <3>2. CASE staged[i][k] # Absent
      <4>1. live'[k] = staged[i][k] /\ UNCHANGED <<original, before, target>>
        BY <1>4, <2>0, <3>2 DEF Commit, TypeInv, Trees
      <4>2. moves'[i].staged = moves[i].staged \union {k} /\ moves'[i].original = moves[i].original
        BY <1>4, <3>2 DEF Commit, TypeInv, Moves
      <4> QED BY <2>1, <3>2, <4>1, <4>2 DEF Moved, Placed, Recorded
    <3> QED BY <3>1, <3>2
  <2>3. ASSUME NEW c \in Components, c # k
        PROVE  (Placed(i, c) => Placed(i, c)') /\ (Untouched(i, c) => Untouched(i, c)')
    <3>1. live'[c] = live[c] /\ staged'[i][c] = staged[i][c] /\ UNCHANGED <<original, before, target, stuck>>
      BY <1>4, <2>0, <2>3 DEF Commit, TypeInv, Trees
    <3>2. (c \in moves'[i].staged <=> c \in moves[i].staged) /\ moves'[i].original = moves[i].original
      BY <1>4, <2>3 DEF Commit, TypeInv, Moves
    <3> QED BY <3>1, <3>2, Frame
  <2>4. CASE k = StateDirectory
    <3>1. pc'[i] = "discard"
      BY <1>4, <2>4 DEF Commit, TypeInv
    <3>2. \A c \in Components : c < k \/ c = k
      BY <2>4 DEF Components, StateDirectory
    <3> QED BY <2>1, <2>2, <2>3, <3>1, <3>2 DEF Phase, Components
  <2>5. CASE k # StateDirectory
    <3>1. pc'[i] = "preserve" /\ at'[i] = k + 1
      BY <1>4, <2>5 DEF Commit, TypeInv
    <3>2. ASSUME NEW c \in Components PROVE IF c < k + 1 THEN Placed(i, c)' ELSE Untouched(i, c)'
      <4>1. CASE c = k
        BY <2>0, <2>2, <4>1
      <4>2. CASE c < k
        BY <2>0, <2>1, <2>3, <4>2 DEF Components
      <4>3. CASE c > k
        BY <2>0, <2>1, <2>3, <4>3 DEF Components
      <4> QED BY <2>0, <4>1, <4>2, <4>3 DEF Components
    <3> QED BY <3>1, <3>2 DEF Phase
  <2> QED BY <2>4, <2>5
<1>5. CASE CommitFails(i)
  <2>1. pc[i] = "commit" /\ pc'[i] = "remove" /\ at' = at /\ at[i] \in 0..4
    BY <1>5 DEF CommitFails, local, TypeInv
  <2>2. ASSUME NEW c \in Components
        PROVE  (Placed(i, c) => Placed(i, c)') /\ (Moved(i, c) => Moved(i, c)')
               /\ (Untouched(i, c) => Undone(i, c)')
    BY <1>5, Frame, UntouchedIsUndone DEF CommitFails, local
  <2>3. \A c \in Components : c <= at[i] <=> c < at[i] \/ c = at[i]
    BY <2>1 DEF Components
  <2> QED BY <2>1, <2>2, <2>3 DEF Phase
<1> QED BY <1>1, <1>2, <1>3, <1>4, <1>5

\* And so do the rollback's.
LEMMA SwapBackward ==
  ASSUME TypeInv, OwnInv, NEW i \in Restores, Phase(i),
         Remove(i) \/ RemoveFails(i) \/ PutBack(i) \/ PutBackFails(i) \/ RolledBack(i)
  PROVE  Phase(i)'
<1> USE DEF Goto
<1>1. CASE Remove(i)
  <2> PICK k \in 0..4 : k = at[i]
    BY DEF TypeInv
  <2>0. k \in Components /\ pc[i] = "remove" /\ pc'[i] = "putback" /\ at' = at
    BY <1>1 DEF Remove, local, TypeInv, Components
  <2>1. /\ Placed(i, k) \/ Moved(i, k)
        /\ \A c \in Components : IF c <= k THEN Placed(i, c) \/ Moved(i, c) ELSE Undone(i, c)
    BY <2>0 DEF Phase, Components
  <2>2. Emptied(i, k)'
    <3>1. live'[k] = Absent
      <4>1. CASE k \in moves[i].staged
        BY <1>1, <2>0, <4>1 DEF Remove, TypeInv, Trees
      <4>2. CASE k \notin moves[i].staged
        BY <1>1, <2>1, <4>2 DEF Remove, Placed, Moved
      <4> QED BY <4>1, <4>2
    <3>2. Recorded(i, k)
      BY <2>1 DEF Placed, Moved
    <3> QED BY <1>1, <3>1, <3>2 DEF Remove, Emptied, Recorded, local
  <2>3. ASSUME NEW c \in Components, c # k
        PROVE  (Placed(i, c) => Placed(i, c)') /\ (Moved(i, c) => Moved(i, c)')
               /\ (Undone(i, c) => Undone(i, c)')
    <3>1. live'[c] = live[c] /\ UNCHANGED local
      BY <1>1, <2>3 DEF Remove, TypeInv, Trees
    <3> QED BY <3>1, Frame DEF local
  <2> QED BY <2>0, <2>1, <2>2, <2>3 DEF Phase, Components
<1>2. CASE RemoveFails(i)
  <2> PICK k \in 0..4 : k = at[i]
    BY DEF TypeInv
  <2>0. k \in Components /\ pc[i] = "remove" /\ pc'[i] = "remove" /\ at'[i] = k - 1 /\ stuck'[i]
    BY <1>2 DEF RemoveFails, TypeInv, Moves
  <2>1. /\ Placed(i, k) \/ Moved(i, k)
        /\ \A c \in Components : IF c <= k THEN Placed(i, c) \/ Moved(i, c) ELSE Undone(i, c)
    BY <2>0 DEF Phase, Components
  <2>2. Undone(i, k)'
    BY <1>2, <2>0, <2>1 DEF RemoveFails, Placed, Moved, Undone, Recorded
  <2>3. ASSUME NEW c \in Components
        PROVE  (Placed(i, c) => Placed(i, c)') /\ (Moved(i, c) => Moved(i, c)')
               /\ (Undone(i, c) => Undone(i, c)')
    BY <1>2, <2>0, Frame DEF RemoveFails
  <2>4. ASSUME NEW c \in Components
        PROVE  IF c <= k - 1 THEN Placed(i, c)' \/ Moved(i, c)' ELSE Undone(i, c)'
    <3>1. CASE c = k
      BY <2>0, <2>2, <3>1
    <3>2. CASE c < k
      BY <2>0, <2>1, <2>3, <3>2 DEF Components
    <3>3. CASE c > k
      BY <2>0, <2>1, <2>3, <3>3 DEF Components
    <3> QED BY <2>0, <3>1, <3>2, <3>3 DEF Components
  <2> QED BY <2>0, <2>4 DEF Phase
<1>3. CASE PutBack(i) \/ PutBackFails(i)
  <2> PICK k \in 0..4 : k = at[i]
    BY DEF TypeInv
  <2>0. k \in Components /\ pc[i] = "putback" /\ pc'[i] = "remove" /\ at'[i] = k - 1
    BY <1>3 DEF PutBack, PutBackFails, OwnInv, TypeInv, Components
  <2>1. /\ Emptied(i, k)
        /\ \A c \in Components : (c < k => Placed(i, c) \/ Moved(i, c)) /\ (c > k => Undone(i, c))
    BY <2>0 DEF Phase, Components
  <2>2. Undone(i, k)'
    <3>1. CASE PutBack(i)
      <4>1. CASE k \in moves[i].original
        <5>1. live'[k] = original[i][k] /\ original'[i][k] = Absent /\ before' = before
          BY <2>0, <3>1, <4>1 DEF PutBack, TypeInv, Trees
        <5> QED BY <2>1, <5>1 DEF Emptied, Undone, Recorded
      <4>2. CASE k \notin moves[i].original
        <5>1. UNCHANGED <<live, original, before, target>>
          BY <3>1, <4>2 DEF PutBack
        <5> QED BY <2>1, <4>2, <5>1 DEF Emptied, Undone, Recorded
      <4> QED BY <4>1, <4>2
    <3>2. CASE PutBackFails(i)
      <4>1. stuck'[i] /\ UNCHANGED <<live, original, before>>
        BY <3>2 DEF PutBackFails, TypeInv
      <4> QED BY <2>1, <4>1 DEF Emptied, Undone, Recorded
    <3> QED BY <1>3, <3>1, <3>2
  <2>3. ASSUME NEW c \in Components, c # k
        PROVE  (Placed(i, c) => Placed(i, c)') /\ (Moved(i, c) => Moved(i, c)')
               /\ (Undone(i, c) => Undone(i, c)')
    <3>1. live'[c] = live[c] /\ original'[i][c] = original[i][c] /\ UNCHANGED <<staged, moves, before, target>>
      BY <1>3, <2>0, <2>3 DEF PutBack, PutBackFails, TypeInv, Trees
    <3>2. stuck[i] => stuck'[i]
      BY <1>3 DEF PutBack, PutBackFails, TypeInv
    <3> QED BY <3>1, <3>2, Frame
  <2>4. ASSUME NEW c \in Components
        PROVE  IF c <= k - 1 THEN Placed(i, c)' \/ Moved(i, c)' ELSE Undone(i, c)'
    <3>1. CASE c = k
      BY <2>0, <2>2, <3>1
    <3>2. CASE c < k
      BY <2>0, <2>1, <2>3, <3>2 DEF Components
    <3>3. CASE c > k
      BY <2>0, <2>1, <2>3, <3>3 DEF Components
    <3> QED BY <2>0, <3>1, <3>2, <3>3 DEF Components
  <2> QED BY <2>0, <2>4 DEF Phase
<1>4. CASE RolledBack(i)
  <2>1. CASE stuck[i]
    <3>1. pc'[i] = "kept"
      BY <1>4, <2>1 DEF RolledBack, TypeInv
    <3> QED BY <3>1 DEF Phase
  <2>2. CASE ~stuck[i]
    <3>1. pc[i] = "remove" /\ pc'[i] = "clean" /\ at[i] = 0 /\ UNCHANGED <<live, local>>
      BY <1>4, <2>2 DEF RolledBack, TypeInv, local
    <3>2. \A c \in Components : Undone(i, c)
      BY <3>1 DEF Phase, Components
    <3>3. \A c \in Components : Undone(i, c)'
      BY <3>1, <3>2, Frame DEF local
    <3> QED BY <2>2, <3>1, <3>3 DEF Phase, local
  <2> QED BY <2>1, <2>2
<1> QED BY <1>1, <1>2, <1>3, <1>4

LEMMA SwapStep ==
  ASSUME ~Overlap, ~Commands, TypeInv, OwnInv, AloneInv, SwapInv, [Next]_vars
  PROVE  SwapInv'
<1> SUFFICES ASSUME NEW j \in Restores, pc'[j] \in Committing PROVE Phase(j)'
  BY DEF SwapInv, Phase, Committing, Swapping, RollingBack
<1>1. Committing \subseteq Running
  BY DEF Committing, Running
<1>2. CASE Step(j)
  <2>1. ~(Load(j) \/ Stage(j) \/ Reconcile(j) \/ Refuse(j) \/ End(j) \/ Die(j))
    BY DEF Load, Stage, Reconcile, Refuse, End, Die, Goto, TypeInv, Committing, Swapping, RollingBack
  <2>2. Phase(j)
    BY DEF SwapInv
  <2> QED BY <1>2, <2>1, <2>2, SwapForward, SwapBackward DEF Step
<1>3. ASSUME NEW i \in Restores, Step(i), i # j PROVE FALSE
  BY <1>1, <1>3, Turn DEF AloneInv, Quiet
<1>4. CASE UNCHANGED vars
  BY <1>4 DEF vars, local, SwapInv, Phase, Placed, Moved, Untouched, Emptied, Undone, Recorded
<1>5. ASSUME Quiet, UNCHANGED pc PROVE FALSE
  BY <1>1, <1>5 DEF Quiet
<1> QED BY <1>2, <1>3, <1>4, <1>5 DEF Next, Work, Regenerate

SequentialInv == TypeInv /\ OwnInv /\ AloneInv /\ SwapInv

LEMMA SequentialInvariant ==
  ASSUME ~Overlap, ~Commands
  PROVE  Spec => []SequentialInv
<1>1. Init => SequentialInv
  <2>1. Init => SwapInv
    BY DEF Init, SwapInv, Phase
  <2> QED BY <2>1, TypeInit, OwnInit, AloneInit DEF SequentialInv
<1>2. SequentialInv /\ [Next]_vars => SequentialInv'
  BY TypeStep, OwnStep, AloneStep, SwapStep DEF SequentialInv
<1> QED BY <1>1, <1>2, PTL DEF Spec

-----------------------------------------------------------------------------
(* The theorems. *)

LEMMA TypeInvariant == Spec => [](TypeInv /\ OwnInv)
<1>1. Init => TypeInv /\ OwnInv
  BY TypeInit, OwnInit
<1>2. TypeInv /\ OwnInv /\ [Next]_vars => (TypeInv /\ OwnInv)'
  BY TypeStep, OwnStep
<1> QED BY <1>1, <1>2, PTL DEF Spec

\* Every variable keeps its type and a component is moved, never copied, also
\* when restores overlap and other commands write.
THEOREM TypeCorrect == Spec => []TypeOK
<1>1. TypeInv /\ OwnInv => TypeOK
  BY DEF TypeInv, OwnInv, TypeOK, Trees, Moves
<1> QED BY <1>1, TypeInvariant, PTL

\* A tree is what it holds of each component.
LEMMA TreesAreEqual ==
  ASSUME NEW s \in Trees, NEW t \in Trees, \A c \in Components : s[c] = t[c]
  PROVE  s = t
  BY DEF Trees

LEMMA Ending ==
  ASSUME SequentialInv, [Next]_vars, NEW i \in Restores
  PROVE  /\ Ends(i, "done") => live' = target[i]
         /\ Ends(i, "failed") => live' = before[i]
         /\ Ends(i, "kept") => \A c \in Components :
                before[i][c] \in {live'[c], original'[i][c], Absent}
<1> USE DEF SequentialInv
<1>1. CASE Step(i)
  <2>0. Phase(i) /\ live \in Trees /\ target[i] \in Trees /\ before[i] \in Trees
    BY DEF SwapInv, TypeInv
  <2>1. ASSUME Ends(i, "done") PROVE live' = target[i]
    <3>1. pc[i] = "discard" /\ live' = live
      BY <1>1, <2>1 DEF Ends, Step, Load, Stage, Reconcile, Refuse, Begin, Preserve, PreserveFails,
           Commit, CommitFails, Remove, RemoveFails, PutBack, PutBackFails, RolledBack, End, Die, Goto, TypeInv
    <3>2. \A c \in Components : live[c] = target[i][c]
      BY <2>0, <3>1 DEF Phase, Placed
    <3> QED BY <2>0, <3>1, <3>2, TreesAreEqual
  <2>2. ASSUME Ends(i, "failed") PROVE live' = before[i]
    <3>1. pc[i] = "clean" /\ live' = live
      BY <1>1, <2>2 DEF Ends, Step, Load, Stage, Reconcile, Refuse, Begin, Preserve, PreserveFails,
           Commit, CommitFails, Remove, RemoveFails, PutBack, PutBackFails, RolledBack, End, Die, Goto, TypeInv
    <3>2. \A c \in Components : live[c] = before[i][c]
      BY <2>0, <3>1 DEF Phase, Undone
    <3> QED BY <2>0, <3>1, <3>2, TreesAreEqual
  <2>3. ASSUME Ends(i, "kept") PROVE \A c \in Components : before[i][c] \in {live'[c], original'[i][c], Absent}
    <3>1. pc[i] = "remove" /\ at[i] = 0 /\ live' = live /\ original' = original
      BY <1>1, <2>3 DEF Ends, Step, Load, Stage, Reconcile, Refuse, Begin, Preserve, PreserveFails,
           Commit, CommitFails, Remove, RemoveFails, PutBack, PutBackFails, RolledBack, End, Die, Goto, TypeInv
    <3>2. \A c \in Components : Undone(i, c)
      BY <2>0, <3>1 DEF Phase, Components
    <3> QED BY <3>1, <3>2 DEF Undone
  <2> QED BY <2>1, <2>2, <2>3
<1>2. ASSUME NEW j \in Restores, Step(j), j # i PROVE pc'[i] = pc[i]
  BY <1>2, Turn
<1>3. ASSUME UNCHANGED pc PROVE pc'[i] = pc[i]
  BY <1>3
<1>4. Step(i) \/ pc'[i] = pc[i]
  BY <1>2, <1>3 DEF Next, Work, Regenerate, vars
<1> QED BY <1>1, <1>4 DEF Ends

\* A restore that nothing else overlaps with is all or nothing, or says that
\* it is neither and keeps what it took, whichever renames and removals fail.
THEOREM RestoreEndsWhole ==
  ASSUME ~Overlap, ~Commands
  PROVE  Spec => EndsWhole
<1>1. SequentialInv /\ [Next]_vars =>
        [\A i \in Restores :
            /\ Ends(i, "done") => live' = target[i]
            /\ Ends(i, "failed") => live' = before[i]
            /\ Ends(i, "kept") => \A c \in Components :
                before[i][c] \in {live'[c], original'[i][c], Absent}]_vars
  BY Ending
<1> QED BY <1>1, SequentialInvariant, PTL DEF Spec, EndsWhole

LEMMA Losing ==
  ASSUME SequentialInv, [Next]_vars, pc' # pc, NEW c \in Components,
         NEW v \in Held(c), v \notin Held(c)', v # Absent
  PROVE  \E i \in Restores :
            \/ Ends(i, "done") /\ live' = target[i]
            \/ pc[i] = "remove" /\ v = target[i][c]
<1> USE DEF SequentialInv
<1>0. PICK i \in Restores : Step(i)
  BY DEF Next, Work, Regenerate, vars
<1>1. Phase(i)
  BY DEF SwapInv
<1>2. v = live[c] \/ \E j \in Restores : v = original[j][c]
  BY DEF Held
<1>3. v # live'[c] /\ \A j \in Restores : v # original'[j][c]
  BY DEF Held
<1>4. ~(live' = live /\ original' = original)
  BY <1>2, <1>3
<1>5. CASE Preserve(i)
  <2>1. at[i] \in Components /\ live[at[i]] # Absent
    BY <1>4, <1>5 DEF Preserve, OwnInv, Swapping, TypeInv, Components
  <2>2. original' = [original EXCEPT ![i][at[i]] = live[at[i]]] /\ live' = [live EXCEPT ![at[i]] = Absent]
    BY <1>5, <2>1 DEF Preserve
  <2>3. original[i][at[i]] = Absent
    BY <1>1, <1>5, <2>1 DEF Preserve, Phase, Untouched, Components
  <2> QED BY <1>2, <1>3, <2>1, <2>2, <2>3 DEF TypeInv, Trees
<1>6. CASE Commit(i)
  <2>1. at[i] \in Components /\ live[at[i]] = Absent
    BY <1>1, <1>6 DEF Commit, OwnInv, Swapping, TypeInv, Components, Phase, Moved
  <2>2. live' = [live EXCEPT ![at[i]] = staged[i][at[i]]] /\ original' = original
    BY <1>4, <1>6 DEF Commit
  <2> QED BY <1>2, <1>3, <2>1, <2>2 DEF TypeInv, Trees
<1>7. CASE Remove(i)
  <2>1. at[i] \in moves[i].staged /\ live' = [live EXCEPT ![at[i]] = Absent] /\ original' = original
    BY <1>4, <1>7 DEF Remove, local
  <2>2. at[i] \in Components /\ pc[i] = "remove"
    BY <1>7 DEF Remove, TypeInv, Components
  <2>3. live[at[i]] = target[i][at[i]]
    BY <1>1, <2>1, <2>2 DEF Phase, Placed, Moved, Components
  <2>4. v = live[c]
    BY <1>2, <1>3, <2>1
  <2>5. c = at[i]
    BY <1>3, <2>1, <2>4 DEF TypeInv, Trees
  <2> QED BY <2>2, <2>3, <2>4, <2>5
<1>8. CASE PutBack(i)
  <2>1. at[i] \in Components /\ live[at[i]] = Absent
    BY <1>1, <1>8 DEF PutBack, OwnInv, TypeInv, Components, Phase, Emptied
  <2>2. live' = [live EXCEPT ![at[i]] = original[i][at[i]]] /\ original' = [original EXCEPT ![i][at[i]] = Absent]
    BY <1>4, <1>8 DEF PutBack
  <2> QED BY <1>2, <1>3, <2>1, <2>2 DEF TypeInv, Trees
<1>9. CASE End(i)
  <2>1. live' = live
    BY <1>9 DEF End
  <2>2. original' = [original EXCEPT ![i] = Nothing]
    BY <1>4, <1>9 DEF End
  <2>3. v = original[i][c]
    BY <1>2, <1>3, <2>1, <2>2 DEF TypeInv
  <2>4. CASE pc[i] = "discard"
    BY <1>9, <2>4, Ending DEF End, Ends, Goto, TypeInv
  <2>5. CASE pc[i] = "clean"
    BY <1>1, <2>3, <2>5 DEF Phase, Undone
  <2> QED BY <1>9, <2>4, <2>5 DEF End
<1>10. CASE Load(i) \/ Stage(i) \/ Reconcile(i) \/ Refuse(i) \/ Begin(i) \/ PreserveFails(i)
            \/ CommitFails(i) \/ RemoveFails(i) \/ PutBackFails(i) \/ RolledBack(i) \/ Die(i)
  BY <1>4, <1>10 DEF Load, Stage, Reconcile, Refuse, Begin, PreserveFails, CommitFails,
       RemoveFails, PutBackFails, RolledBack, Die, local
<1> QED BY <1>0, <1>5, <1>6, <1>7, <1>8, <1>9, <1>10 DEF Step

\* Whatever fails and wherever the process dies, the last copy of a component
\* disappears only when a restore completes or takes back what it restored.
THEOREM NoCopyIsLost ==
  ASSUME ~Overlap, ~Commands
  PROVE  Spec => NothingIsLost
<1>1. SequentialInv /\ [Next]_vars =>
        [pc' = pc \/ \A c \in Components : \A v \in Held(c) \ (Held(c)' \union {Absent}) :
            \E i \in Restores :
                \/ Ends(i, "done") /\ live' = target[i]
                \/ pc[i] = "remove" /\ v = target[i][c]]_vars
  BY Losing
<1> QED BY <1>1, SequentialInvariant, PTL DEF Spec, NothingIsLost

-----------------------------------------------------------------------------
(* The index of the visible artifacts.  What a restore may put in place    *)
(* knows the artifacts, and so does what a rollback may bring back.        *)

Exact(v) == v # Absent /\ v.index = artifacts
Spoiled == \E i \in Restores : ~Coherent(i)
FromBackup(i, v) == IF Saved[which[i]][Database] = Absent THEN v = Absent ELSE Exact(v)

KnowsArtifacts(i) ==
    /\ pc[i] = "reconcile" => Saved[which[i]][Database] # Absent
    /\ pc[i] = "begin" => FromBackup(i, staged[i][Database])
    /\ pc[i] \in Committing => Exact(before[i][Database]) /\ FromBackup(i, target[i][Database])

IndexInv == ~Spoiled =>
    /\ (\A i \in Restores : pc[i] \notin Committing) => Exact(live[Database])
    /\ \A i \in Restores : KnowsArtifacts(i)

LEMMA IndexInit == Init => IndexInv
<1> SUFFICES ASSUME Init PROVE IndexInv
  OBVIOUS
<1>1. live[Database] \in Contents /\ artifacts = live[Database].index
  BY InitialAssumption DEF Init, Database, Components
<1>2. Exact(live[Database])
  BY <1>1, AbsentAssumption DEF Exact
<1>3. \A i \in Restores : KnowsArtifacts(i)
  BY DEF Init, KnowsArtifacts, Committing, Swapping, RollingBack
<1> QED BY <1>2, <1>3 DEF IndexInv

\* A restore that was kept, died or took a backup without a database stays so.
LEMMA SpoiledStays ==
  ASSUME TypeInv, [Next]_vars, Spoiled
  PROVE  Spoiled'
<1>1. PICK i \in Restores : ~Coherent(i)
  BY DEF Spoiled
<1>2. pc[i] \in {"kept", "dead", "done"}
  BY <1>1 DEF Coherent
<1>3. pc'[i] = pc[i]
  <2>1. ASSUME NEW j \in Restores, Step(j) PROVE pc'[i] = pc[i]
    BY <1>2, <2>1, Turn DEF Running, Swapping, RollingBack
  <2> QED BY <2>1 DEF Next, Work, Regenerate, vars
<1>4. UNCHANGED which
  BY DEF Next, Step, Load, Stage, Reconcile, Refuse, Begin, Preserve, PreserveFails, Commit,
     CommitFails, Remove, RemoveFails, PutBack, PutBackFails, RolledBack, End, Die, Forget, Work,
     Regenerate, vars, local
<1> QED BY <1>1, <1>3, <1>4 DEF Spoiled, Coherent

LEMMA IndexStep ==
  ASSUME ~Overlap, ~Commands, SequentialInv, IndexInv, [Next]_vars
  PROVE  IndexInv'
<1> USE DEF SequentialInv
<1> SUFFICES ASSUME ~Spoiled' PROVE IndexInv'
  BY DEF IndexInv
<1>1. /\ ~Spoiled
      /\ (\A i \in Restores : pc[i] \notin Committing) => Exact(live[Database])
      /\ \A i \in Restores : KnowsArtifacts(i)
  BY SpoiledStays DEF IndexInv
<1>2. Committing \subseteq Running /\ {"begin", "reconcile"} \subseteq Running /\ Database \in Components
  BY DEF Committing, Running, Database, Components
<1>3. ASSUME NEW i \in Restores, Step(i) PROVE IndexInv'
  <2>0. /\ live \in Trees /\ target[i] \in Trees /\ staged \in [Restores -> Trees]
        /\ before \in [Restores -> Trees] /\ target \in [Restores -> Trees] /\ pc \in [Restores -> Steps]
        /\ which[i] \in Backups
    BY DEF TypeInv
  <2>1. \A j \in Restores \ {i} : pc[j] \notin Running /\ pc'[j] = pc[j]
    BY <1>3, Turn DEF AloneInv, Quiet
  <2>2. UNCHANGED <<artifacts, which>>
    BY <1>3 DEF Step, Load, Stage, Reconcile, Refuse, Begin, Preserve, PreserveFails, Commit,
       CommitFails, Remove, RemoveFails, PutBack, PutBackFails, RolledBack, End, Die, Forget, local
  <2>3. \A v : Exact(v)' <=> Exact(v)
    BY <2>2 DEF Exact
  <2>4. \A v : FromBackup(i, v)' <=> FromBackup(i, v)
    BY <2>2, <2>3 DEF FromBackup
  <2>5. SUFFICES /\ pc'[i] \notin Committing => Exact(live'[Database])
                 /\ pc'[i] = "reconcile" => Saved[which[i]][Database] # Absent
                 /\ pc'[i] = "begin" => FromBackup(i, staged'[i][Database])
                 /\ pc'[i] \in Committing =>
                      Exact(before'[i][Database]) /\ FromBackup(i, target'[i][Database])
    <3>1. ASSUME NEW j \in Restores, j # i PROVE KnowsArtifacts(j)'
      BY <1>2, <2>1, <3>1 DEF KnowsArtifacts
    <3>2. KnowsArtifacts(i)'
      BY <2>2, <2>3, <2>4, <2>5 DEF KnowsArtifacts
    <3>3. (\A j \in Restores : pc'[j] \notin Committing) => Exact(live[Database])'
      BY <2>3, <2>5
    <3> QED BY <3>1, <3>2, <3>3 DEF IndexInv
  <2>6. pc[i] \notin Committing => Exact(live[Database])
    BY <1>1, <1>2, <2>1
  <2>7. KnowsArtifacts(i) /\ Phase(i)
    BY <1>1 DEF SwapInv
  <2>8. Coherent(i)'
    BY DEF Spoiled
  <2>a. CASE Load(i) \/ Refuse(i)
    <3>1. pc[i] \notin Committing /\ pc'[i] \in {"refused", "stage"} /\ live' = live
      BY <2>0, <2>a DEF Load, Refuse, Goto, Committing, Swapping, RollingBack
    <3> QED BY <2>6, <3>1 DEF Committing, Swapping, RollingBack
  <2>b. CASE Stage(i)
    <3>1. pc[i] \notin Committing /\ live' = live /\ pc'[i] \notin Committing
      BY <2>0, <2>b DEF Stage, Goto, Committing, Swapping, RollingBack
    <3>2. /\ pc'[i] = "begin" => Saved[which[i]][Database] = Absent /\ staged'[i][Database] = Absent
          /\ pc'[i] = "reconcile" => Saved[which[i]][Database] # Absent
      BY <2>0, <2>b DEF Stage, Goto
    <3> QED BY <2>6, <3>1, <3>2 DEF FromBackup
  <2>c. CASE Reconcile(i)
    <3>1. pc[i] = "reconcile" /\ live' = live /\ pc'[i] \in {"refused", "begin"}
      BY <2>0, <2>c DEF Reconcile, Goto
    <3>2. pc[i] \notin Committing /\ pc'[i] \notin Committing
      BY <3>1 DEF Committing, Swapping, RollingBack
    <3>3. ASSUME pc'[i] = "begin" PROVE FromBackup(i, staged'[i][Database])
      <4>1. staged'[i][Database] = Reconciled(staged[i][Database], live[Database]) /\ live[Database] # Absent
        BY <1>2, <2>0, <2>c, <3>3 DEF Reconcile, Goto, Trees
      <4>2. staged[i][Database] \in Contents /\ live[Database] \in Contents
        BY <1>2, <2>0, <3>1, <4>1 DEF OwnInv, Trees, Slots
      <4>3. /\ Reconciled(staged[i][Database], live[Database]) \in Contents
            /\ Reconciled(staged[i][Database], live[Database]).index = live[Database].index
        BY <4>2 DEF Reconciled, Contents
      <4>4. Exact(staged'[i][Database])
        BY <2>6, <3>2, <4>1, <4>3, AbsentAssumption DEF Exact
      <4>5. Saved[which[i]][Database] # Absent
        BY <2>7, <3>1 DEF KnowsArtifacts
      <4> QED BY <4>4, <4>5 DEF FromBackup
    <3> QED BY <2>6, <3>1, <3>2, <3>3
  <2>d. CASE Begin(i)
    <3>1. /\ pc[i] = "begin" /\ pc'[i] = "preserve"
          /\ before'[i] = live /\ target'[i] = staged[i]
      BY <2>0, <2>d DEF Begin, Goto
    <3>2. pc[i] \notin Committing /\ pc'[i] \in Committing
      BY <3>1 DEF Committing, Swapping, RollingBack
    <3> QED BY <2>6, <2>7, <3>1, <3>2 DEF KnowsArtifacts
  <2>e. CASE \/ Preserve(i) \/ PreserveFails(i) \/ Commit(i) \/ CommitFails(i) \/ Remove(i)
             \/ RemoveFails(i) \/ PutBack(i) \/ PutBackFails(i)
    <3>1. pc[i] \in Committing /\ pc'[i] \in Committing /\ UNCHANGED <<before, target>>
      BY <2>0, <2>e DEF Preserve, PreserveFails, Commit, CommitFails, Remove, RemoveFails, PutBack,
         PutBackFails, Goto, local, Committing, Swapping, RollingBack
    <3>2. pc'[i] \notin {"begin", "reconcile"}
      BY <3>1 DEF Committing, Swapping, RollingBack
    <3> QED BY <2>7, <3>1, <3>2 DEF KnowsArtifacts
  <2>f. CASE RolledBack(i)
    <3>1. pc[i] = "remove" /\ pc'[i] \in {"kept", "clean"}
      BY <2>0, <2>f DEF RolledBack, Goto
    <3>2. pc'[i] # "kept"
      BY <2>8 DEF Coherent
    <3>3. UNCHANGED <<before, target>>
      BY <2>0, <2>f, <3>1, <3>2 DEF RolledBack, Goto
    <3>4. pc[i] \in Committing /\ pc'[i] \in Committing /\ pc'[i] \notin {"begin", "reconcile"}
      BY <3>1, <3>2 DEF Committing, Swapping, RollingBack
    <3> QED BY <2>7, <3>3, <3>4 DEF KnowsArtifacts
  <2>g. CASE End(i)
    <3>1. /\ live' = live
          /\ \/ pc[i] = "discard" /\ pc'[i] = "done"
             \/ pc[i] = "clean" /\ pc'[i] = "failed"
      BY <2>0, <2>g DEF End, Goto
    <3>2. pc'[i] \notin Committing \union {"begin", "reconcile"} /\ pc[i] \in Committing
      BY <3>1 DEF Committing, Swapping, RollingBack
    <3>3. CASE pc[i] = "discard"
      <4>1. live[Database] = target[i][Database]
        BY <1>2, <2>7, <3>3 DEF Phase, Placed
      <4>2. Saved[which[i]][Database] # Absent
        BY <2>2, <2>8, <3>1, <3>3 DEF Coherent
      <4> QED BY <2>7, <3>1, <3>2, <4>1, <4>2 DEF KnowsArtifacts, FromBackup
    <3>4. CASE pc[i] = "clean"
      <4>1. live[Database] = before[i][Database]
        BY <1>2, <2>7, <3>4 DEF Phase, Undone
      <4> QED BY <2>7, <3>1, <3>2, <4>1 DEF KnowsArtifacts
    <3> QED BY <3>1, <3>3, <3>4
  <2>h. CASE Die(i)
    <3>1. pc'[i] = "dead"
      BY <2>0, <2>h DEF Die, Goto
    <3> QED BY <2>8, <3>1 DEF Coherent
  <2> QED BY <1>3, <2>a, <2>b, <2>c, <2>d, <2>e, <2>f, <2>g, <2>h DEF Step
<1>4. CASE UNCHANGED vars
  <2>1. UNCHANGED <<live, artifacts, pc, which, staged, before, target>>
    BY <1>4 DEF vars, local
  <2> QED BY <1>1, <2>1 DEF IndexInv, KnowsArtifacts, FromBackup, Exact
<1>5. ASSUME Quiet, live'[Database] \in Contents, live'[Database].index = artifacts', UNCHANGED pc
      PROVE  IndexInv'
  <2>1. Exact(live[Database])'
    BY <1>5, AbsentAssumption DEF Exact
  <2>2. \A i \in Restores : pc'[i] \notin Committing \union {"begin", "reconcile"}
    BY <1>2, <1>5 DEF Quiet
  <2> QED BY <2>1, <2>2 DEF IndexInv, KnowsArtifacts
<1>6. ASSUME Quiet PROVE Exact(live[Database]) /\ live[Database] \in Contents /\ live \in Trees
  BY <1>1, <1>2, <1>6 DEF Quiet, Exact, TypeInv, Trees, Slots
<1>7. ASSUME NEW c \in Written, NEW d \in Data, Work(c, d) PROVE IndexInv'
  <2>1. Quiet /\ UNCHANGED <<artifacts, pc>>
    BY <1>7 DEF Work
  <2>2. live'[Database] \in Contents /\ live'[Database].index = artifacts
    BY <1>6, <1>7, <2>1 DEF Work, Exact, Trees, Contents
  <2> QED BY <1>5, <2>1, <2>2
<1>8. ASSUME NEW x \in Indexes, Regenerate(x) PROVE IndexInv'
  <2>1. Quiet /\ UNCHANGED pc /\ artifacts' = x
    BY <1>8 DEF Regenerate
  <2>2. live'[Database] = [live[Database] EXCEPT !.index = x]
    BY <1>2, <1>6, <1>8, <2>1 DEF Regenerate, Trees
  <2>3. live'[Database] \in Contents /\ live'[Database].index = x
    BY <1>6, <2>1, <2>2 DEF Contents
  <2> QED BY <1>5, <2>1, <2>3
<1> QED BY <1>3, <1>4, <1>7, <1>8 DEF Next

\* As long as restores complete or are undone, the database they leave knows
\* the visible artifacts exactly, whichever backup they come from.
THEOREM IndexStaysExact ==
  ASSUME ~Overlap, ~Commands
  PROVE  Spec => []IndexIsExact
<1>1. Init => IndexInv
  BY IndexInit
<1>2. SequentialInv /\ IndexInv /\ [Next]_vars => IndexInv'
  BY IndexStep
<1>3. SequentialInv /\ IndexInv => IndexIsExact
  <2> SUFFICES ASSUME IndexInv, Quiet, \A i \in Restores : Coherent(i)
               PROVE  live[Database] # Absent /\ live[Database].index = artifacts
    BY DEF IndexIsExact
  <2>1. \A i \in Restores : pc[i] \notin Committing
    BY DEF Quiet, Committing, Running
  <2> QED BY <2>1 DEF IndexInv, Spoiled, Exact
<1> QED BY <1>1, <1>2, <1>3, SequentialInvariant, PTL DEF Spec

-----------------------------------------------------------------------------
(* The refinement.  A restore is one step of AtomicRestore, taken when it  *)
(* ends: what it puts in place is the image of its backup in the workspace *)
(* it found, and where it breaks off every component is in its place or in *)
(* the recovery directory.                                                 *)

ImageIn(i, w) == [Saved[which[i]] EXCEPT ![Database] = Promise!Indexed(@, w[Database])]
ReadyIn(i, w) == Saved[which[i]][Database] # Absent => w[Database] # Absent

KnowsImage(i) ==
    /\ pc[i] = "reconcile" => staged[i] = Saved[which[i]] /\ Saved[which[i]][Database] # Absent
    /\ pc[i] = "begin" => staged[i] = ImageIn(i, live) /\ ReadyIn(i, live)
    /\ pc[i] \in Committing => target[i] = ImageIn(i, before[i]) /\ ReadyIn(i, before[i])

ImageInv == \A i \in Restores : KnowsImage(i)

\* A backup without a database is its own image.
LEMMA BareImage ==
  ASSUME TypeInv, NEW i \in Restores, NEW w, Saved[which[i]][Database] = Absent
  PROVE  ImageIn(i, w) = Saved[which[i]]
<1>1. Saved[which[i]] \in Trees
  BY SavedType DEF TypeInv
<1> QED BY <1>1 DEF ImageIn, Promise!Indexed, Trees

LEMMA ImageStep ==
  ASSUME ~Overlap, ~Commands, SequentialInv, ImageInv, [Next]_vars
  PROVE  ImageInv'
<1> USE DEF SequentialInv
<1> SUFFICES ASSUME NEW j \in Restores PROVE KnowsImage(j)'
  BY DEF ImageInv
<1>0. KnowsImage(j) /\ Committing \subseteq Running /\ {"begin", "reconcile"} \subseteq Running
  BY DEF ImageInv, Committing, Running
<1>1. which' = which
  BY DEF Next, Step, Load, Stage, Reconcile, Refuse, Begin, Preserve, PreserveFails, Commit,
     CommitFails, Remove, RemoveFails, PutBack, PutBackFails, RolledBack, End, Die, Forget, Work,
     Regenerate, vars, local
<1>3. ASSUME pc'[j] \notin Running PROVE KnowsImage(j)'
  BY <1>0, <1>3 DEF KnowsImage
<1>4. ASSUME NEW i \in Restores, Step(i), i # j PROVE KnowsImage(j)'
  <2>1. pc[j] \notin Running /\ pc'[j] = pc[j]
    BY <1>4, Turn DEF AloneInv, Quiet
  <2> QED BY <1>3, <2>1
<1>5. CASE Step(j)
  <2>0. /\ live \in Trees /\ pc \in [Restores -> Steps] /\ which[j] \in Backups
        /\ staged \in [Restores -> Trees] /\ before \in [Restores -> Trees]
        /\ target \in [Restores -> Trees]
    BY DEF TypeInv
  <2>a. CASE Load(j)
    <3>1. pc'[j] \in {"refused", "stage"}
      BY <2>0, <2>a DEF Load, Goto
    <3> QED BY <3>1 DEF KnowsImage, Committing, Swapping, RollingBack
  <2>b. CASE Stage(j)
    <3>1. staged'[j] = Saved[which[j]]
      BY <2>0, <2>b DEF Stage
    <3>2. CASE Saved[which[j]][Database] = Absent
      <4>1. pc'[j] = "begin"
        BY <2>0, <2>b, <3>2 DEF Stage, Goto
      <4>2. ImageIn(j, live') = Saved[which[j]] /\ ReadyIn(j, live')
        BY <3>2, BareImage DEF ReadyIn
      <4> QED BY <1>1, <3>1, <4>1, <4>2 DEF KnowsImage, ImageIn, ReadyIn, Committing, Swapping, RollingBack
    <3>3. CASE Saved[which[j]][Database] # Absent
      <4>1. pc'[j] = "reconcile"
        BY <2>0, <2>b, <3>3 DEF Stage, Goto
      <4> QED BY <1>1, <3>1, <3>3, <4>1 DEF KnowsImage, Committing, Swapping, RollingBack
    <3> QED BY <3>2, <3>3
  <2>c. CASE Reconcile(j)
    <3>1. CASE live[Database] = Absent
      <4>1. pc'[j] = "refused"
        BY <2>0, <2>c, <3>1 DEF Reconcile, Goto
      <4> QED BY <4>1 DEF KnowsImage, Committing, Swapping, RollingBack
    <3>2. CASE live[Database] # Absent
      <4>1. pc'[j] = "begin" /\ live' = live
        BY <2>0, <2>c, <3>2 DEF Reconcile, Goto
      <4>2. staged[j] = Saved[which[j]] /\ Saved[which[j]][Database] # Absent
        BY <1>0, <2>c DEF Reconcile, KnowsImage
      <4>3. staged'[j] = [staged[j] EXCEPT ![Database] = Reconciled(staged[j][Database], live[Database])]
        BY <2>0, <2>c, <3>2 DEF Reconcile
      <4>4. staged'[j] = ImageIn(j, live)
        BY <3>2, <4>2, <4>3 DEF ImageIn, Promise!Indexed, Reconciled
      <4> QED BY <1>1, <3>2, <4>1, <4>4 DEF KnowsImage, ImageIn, ReadyIn, Committing, Swapping, RollingBack
    <3> QED BY <3>1, <3>2
  <2>d. CASE Begin(j)
    <3>1. pc[j] = "begin" /\ pc'[j] = "preserve" /\ before'[j] = live /\ target'[j] = staged[j]
      BY <2>0, <2>d DEF Begin, Goto
    <3>2. target'[j] = ImageIn(j, before'[j]) /\ ReadyIn(j, before'[j])
      BY <1>0, <3>1 DEF KnowsImage
    <3> QED BY <1>1, <3>1, <3>2 DEF KnowsImage, ImageIn, ReadyIn
  <2>e. CASE \/ Preserve(j) \/ PreserveFails(j) \/ Commit(j) \/ CommitFails(j) \/ Remove(j)
             \/ RemoveFails(j) \/ PutBack(j) \/ PutBackFails(j) \/ (RolledBack(j) /\ ~stuck[j])
    <3>1. pc[j] \in Committing /\ pc'[j] \in Committing /\ UNCHANGED <<before, target>>
      BY <2>0, <2>e DEF Preserve, PreserveFails, Commit, CommitFails, Remove, RemoveFails, PutBack,
         PutBackFails, RolledBack, Goto, local, Committing, Swapping, RollingBack
    <3>2. target[j] = ImageIn(j, before[j]) /\ ReadyIn(j, before[j])
      BY <1>0, <3>1 DEF KnowsImage
    <3> QED BY <1>1, <3>1, <3>2 DEF KnowsImage, ImageIn, ReadyIn, Committing, Swapping, RollingBack
  <2>f. CASE Refuse(j) \/ End(j) \/ Die(j) \/ (RolledBack(j) /\ stuck[j])
    <3>1. pc'[j] \in {"refused", "done", "failed", "dead", "kept"}
      BY <2>0, <2>f DEF Refuse, End, Die, RolledBack, Goto
    <3> QED BY <1>3, <3>1 DEF Running, Swapping, RollingBack
  <2> QED BY <1>5, <2>a, <2>b, <2>c, <2>d, <2>e, <2>f DEF Step
<1>6. CASE UNCHANGED vars
  BY <1>0, <1>6 DEF vars, local, KnowsImage, ImageIn, ReadyIn
<1>7. ASSUME Quiet, UNCHANGED pc PROVE KnowsImage(j)'
  BY <1>3, <1>7 DEF Quiet
<1> QED BY <1>4, <1>5, <1>6, <1>7 DEF Next, Work, Regenerate

\* What a looker sees, before and after a step.
LEMMA Seen ==
  ASSUME NEW f, NEW i \in Restores, f[i] \in Committing,
         \A j \in Restores : f[j] \in Committing => j = i
  PROVE  (CHOOSE j \in Restores : f[j] \in Committing) = i
  OBVIOUS

LEMMA SeesBefore ==
  ASSUME NEW i \in Restores, \A j \in Restores \ {i} : pc[j] \notin Running
  PROVE  AtRest = IF pc[i] \in Committing THEN before[i] ELSE live
  BY Seen DEF AtRest, Committing, Running

LEMMA SeesAfter ==
  ASSUME NEW i \in Restores, \A j \in Restores \ {i} : pc'[j] \notin Running
  PROVE  AtRest' = IF pc'[i] \in Committing THEN before'[i] ELSE live'
  BY Seen DEF AtRest, Committing, Running

\* A step of one restore leaves the others' status and recovery alone.
LEMMA OwnStatus ==
  ASSUME TypeInv, NEW i \in Restores, Step(i)
  PROVE  /\ Status' = [Status EXCEPT ![i] = IF pc'[i] \in Running THEN "busy" ELSE pc'[i]]
         /\ Recovery' = [Recovery EXCEPT ![i] = IF pc'[i] \in Running THEN Nothing ELSE original'[i]]
<1>1. ASSUME NEW j \in Restores, j # i PROVE pc'[j] = pc[j] /\ original'[j] = original[j]
  BY <1>1 DEF Step, Load, Stage, Reconcile, Refuse, Begin, Preserve, PreserveFails, Commit,
     CommitFails, Remove, RemoveFails, PutBack, PutBackFails, RolledBack, End, Die, Forget, Goto, local, TypeInv
<1> QED BY <1>1 DEF Status, Recovery

\* Where a restore that is not over has left each component.
Standing(i, c) ==
    \/ live[c] = before[i][c] /\ original[i][c] = Absent
    \/ live[c] \in {Absent, target[i][c]} /\ original[i][c] = before[i][c]

LEMMA EachStands ==
  ASSUME TypeInv, NEW i \in Restores, Phase(i), pc[i] \in Committing, NEW c \in Components
  PROVE  Standing(i, c)
<1>1. Untouched(i, c) \/ Moved(i, c) \/ Placed(i, c) \/ Emptied(i, c) \/ Undone(i, c)
  BY DEF Phase, Committing, Swapping, RollingBack
<1> QED BY <1>1 DEF Untouched, Moved, Placed, Emptied, Undone, Recorded, Standing

\* A restore that ends in the middle breaks off.
LEMMA Breaks ==
  ASSUME SequentialInv, ImageInv, NEW i \in Restores, Step(i), pc[i] \in Running,
         pc'[i] \in {"kept", "dead"}, UNCHANGED <<live, artifacts, which, original>>
  PROVE  Promise!BreakOff(i)
<1> USE DEF SequentialInv
<1>1. \A j \in Restores \ {i} : pc[j] \notin Running /\ pc'[j] \notin Running
  BY Turn DEF AloneInv, Quiet
<1>2. pc'[i] \notin Running /\ pc'[i] \notin Committing
  BY DEF Running, Committing, Swapping, RollingBack
<1>3. AtRest = (IF pc[i] \in Committing THEN before[i] ELSE live) /\ AtRest' = live
  BY <1>1, <1>2, SeesBefore, SeesAfter
<1>4. Status[i] = "busy" /\ Status' = [Status EXCEPT ![i] = pc'[i]]
  BY <1>2, OwnStatus DEF Status
<1>5. Recovery' = [Recovery EXCEPT ![i] = original[i]]
  BY <1>2, OwnStatus
<1>6. live \in Trees /\ original[i] \in Trees /\ before[i] \in Trees /\ target[i] \in Trees
  BY DEF TypeInv
<1> DEFINE taken == {c \in Components : ~(live[c] = AtRest[c] /\ original[i][c] = Absent)}
           placed == {c \in taken : live[c] # Absent}
<1>7. CASE pc[i] \in Committing
  <2>1. AtRest = before[i] /\ target[i] = Promise!Image(i) /\ Promise!Ready(i)
    BY <1>3, <1>7 DEF ImageInv, KnowsImage, ImageIn, ReadyIn, Promise!Image, Promise!Ready
  <2>2. \A c \in Components : Standing(i, c)
    BY <1>7, EachStands DEF SwapInv
  <2>3. \A c \in Components : live[c] =
            IF c \in placed THEN Promise!Image(i)[c] ELSE IF c \in taken THEN Absent ELSE AtRest[c]
    BY <2>1, <2>2 DEF Standing
  <2>4. \A c \in Components : original[i][c] = IF c \in taken THEN AtRest[c] ELSE Absent
    BY <2>1, <2>2 DEF Standing
  <2> HIDE DEF taken, placed
  <2>5. live = [c \in Components |->
            IF c \in placed THEN Promise!Image(i)[c] ELSE IF c \in taken THEN Absent ELSE AtRest[c]]
    BY <1>6, <2>3 DEF Trees
  <2>6. original[i] = [c \in Components |-> IF c \in taken THEN AtRest[c] ELSE Absent]
    BY <1>6, <2>4 DEF Trees
  <2>7. taken \in SUBSET Components /\ placed \in SUBSET taken
    BY DEF taken, placed
  <2> QED BY <1>3, <1>4, <1>5, <2>1, <2>5, <2>6, <2>7 DEF Promise!BreakOff, Promise!Becomes
<1>8. CASE pc[i] \notin Committing
  <2>1. AtRest = live /\ original[i] = Nothing
    BY <1>3, <1>8 DEF OwnInv, Running, Committing, Swapping, RollingBack
  <2> DEFINE none == {}
  <2>2. original[i] = [c \in Components |-> IF c \in none THEN AtRest[c] ELSE Absent]
    BY <2>1 DEF Nothing
  <2>3. live = [c \in Components |->
            IF c \in none THEN Promise!Image(i)[c] ELSE IF c \in none THEN Absent ELSE AtRest[c]]
    BY <1>6, <2>1 DEF Trees
  <2>4. none \in SUBSET Components /\ none \in SUBSET none /\ (none # {} => Promise!Ready(i))
    OBVIOUS
  <2> HIDE DEF none
  <2> QED BY <1>3, <1>4, <1>5, <2>2, <2>3, <2>4 DEF Promise!BreakOff, Promise!Becomes
<1> QED BY <1>7, <1>8

LEMMA StepIsARestore ==
  ASSUME ~Overlap, ~Commands, SequentialInv, ImageInv, ImageInv', NEW i \in Restores, Step(i)
  PROVE  Promise!Next \/ UNCHANGED Promise!vars
<1> USE DEF SequentialInv
<1>1. \A j \in Restores \ {i} : pc[j] \notin Running /\ pc'[j] \notin Running
  <2>1. \A j \in Restores \ {i} : pc[j] \notin Running
    BY Turn DEF AloneInv, Quiet
  <2> QED BY <2>1, Turn
<1>2. /\ AtRest = IF pc[i] \in Committing THEN before[i] ELSE live
      /\ AtRest' = IF pc'[i] \in Committing THEN before'[i] ELSE live'
  BY <1>1, SeesBefore, SeesAfter
<1>3. /\ Status' = [Status EXCEPT ![i] = IF pc'[i] \in Running THEN "busy" ELSE pc'[i]]
      /\ Recovery' = [Recovery EXCEPT ![i] = IF pc'[i] \in Running THEN Nothing ELSE original'[i]]
  BY OwnStatus
<1>4. /\ Status[i] = IF pc[i] \in Running THEN "busy" ELSE pc[i]
      /\ Recovery[i] = IF pc[i] \in Running THEN Nothing ELSE original[i]
      /\ Status = [Status EXCEPT ![i] = Status[i]] /\ Recovery = [Recovery EXCEPT ![i] = Recovery[i]]
  BY DEF Status, Recovery
<1>5. UNCHANGED <<artifacts, which>>
  BY DEF Step, Load, Stage, Reconcile, Refuse, Begin, Preserve, PreserveFails, Commit,
     CommitFails, Remove, RemoveFails, PutBack, PutBackFails, RolledBack, End, Die, Forget, local
<1>6. /\ live \in Trees /\ pc \in [Restores -> Steps] /\ staged \in [Restores -> Trees]
      /\ before \in [Restores -> Trees] /\ target \in [Restores -> Trees]
      /\ original \in [Restores -> Trees]
  BY DEF TypeInv
<1>7. Phase(i) /\ KnowsImage(i)
  BY DEF SwapInv, ImageInv
<1>8. Committing \subseteq Running /\ Running \intersect {"idle", "refused", "done", "failed", "kept", "dead"} = {}
  BY DEF Committing, Running, Swapping, RollingBack
\* Inside a restore nothing is seen to move.
<1>9. ASSUME pc[i] \in Running, pc'[i] \in Running, AtRest' = AtRest PROVE UNCHANGED Promise!vars
  BY <1>3, <1>4, <1>5, <1>9 DEF Promise!vars
<1>a. CASE Load(i)
  <2>1. pc[i] = "idle" /\ Quiet /\ UNCHANGED <<live, original>>
    BY <1>a DEF Load, local
  <2>2. ~Promise!Busy /\ Status[i] = "idle"
    <3>1. "busy" \notin Steps
      BY DEF Steps, Running, Swapping, RollingBack
    <3> QED BY <1>6, <1>8, <2>1, <3>1 DEF Promise!Busy, Quiet, Status
  <2>3. original[i] = Nothing
    BY <2>1 DEF OwnInv
  <2>4. CASE live[Metadata] = Absent
    <3>1. pc'[i] = "refused"
      BY <1>6, <1>a, <2>4 DEF Load, Goto
    <3>2. AtRest = live /\ AtRest' = AtRest
      BY <1>2, <1>8, <2>1, <3>1
    <3>3. Status' = [Status EXCEPT ![i] = "refused"] /\ Recovery' = Recovery
      BY <1>3, <1>4, <1>8, <2>1, <2>3, <3>1
    <3>4. Promise!Refuse(i)
      BY <1>5, <2>2, <2>4, <3>2, <3>3 DEF Promise!Refuse, Promise!Becomes
    <3> QED BY <3>4 DEF Promise!Next
  <2>5. CASE live[Metadata] # Absent
    <3>1. pc'[i] = "stage"
      BY <1>6, <1>a, <2>5 DEF Load, Goto
    <3>2. pc'[i] \in Running /\ pc'[i] \notin Committing
      BY <3>1 DEF Running, Committing, Swapping, RollingBack
    <3>3. AtRest = live /\ AtRest' = AtRest
      BY <1>2, <1>8, <2>1, <3>2
    <3>4. Status' = [Status EXCEPT ![i] = "busy"] /\ Recovery' = Recovery
      BY <1>3, <1>4, <1>8, <2>1, <2>3, <3>2
    <3>5. Promise!Start(i)
      BY <1>5, <2>2, <2>5, <3>3, <3>4 DEF Promise!Start, Promise!Becomes
    <3> QED BY <3>5 DEF Promise!Next
  <2> QED BY <2>4, <2>5
<1>b. CASE Stage(i)
  <2>1. /\ pc[i] \in Running /\ pc[i] \notin Committing /\ pc'[i] \in Running /\ pc'[i] \notin Committing
        /\ live' = live
    BY <1>6, <1>b DEF Stage, Goto, Running, Committing, Swapping, RollingBack
  <2> QED BY <1>2, <1>9, <2>1
<1>c. CASE Begin(i)
  <2>1. /\ pc[i] \in Running /\ pc[i] \notin Committing /\ pc'[i] \in Running /\ pc'[i] \in Committing
        /\ before'[i] = live
    BY <1>6, <1>c DEF Begin, Goto, Running, Committing, Swapping, RollingBack
  <2> QED BY <1>2, <1>9, <2>1
<1>d. CASE \/ Preserve(i) \/ PreserveFails(i) \/ Commit(i) \/ CommitFails(i) \/ Remove(i)
           \/ RemoveFails(i) \/ PutBack(i) \/ PutBackFails(i) \/ (RolledBack(i) /\ ~stuck[i])
  <2>1. pc[i] \in Committing /\ pc'[i] \in Committing /\ before' = before
    BY <1>6, <1>d DEF Preserve, PreserveFails, Commit, CommitFails, Remove, RemoveFails, PutBack,
       PutBackFails, RolledBack, Goto, local, Committing, Swapping, RollingBack
  <2> QED BY <1>2, <1>8, <1>9, <2>1
<1>e. ASSUME pc[i] \in {"stage", "reconcile", "begin"}, pc'[i] = "refused", UNCHANGED <<live, original>>
      PROVE  Promise!Next
  <2>1. pc[i] \in Running /\ pc[i] \notin Committing /\ original[i] = Nothing
    BY <1>e DEF OwnInv, Running, Committing, Swapping, RollingBack
  <2>2. AtRest' = AtRest
    BY <1>2, <1>8, <1>e, <2>1
  <2>3. Status[i] = "busy" /\ Status' = [Status EXCEPT ![i] = "refused"] /\ Recovery' = Recovery
    BY <1>3, <1>4, <1>8, <1>e, <2>1
  <2>4. Promise!Refuse(i)
    BY <1>5, <2>2, <2>3 DEF Promise!Refuse, Promise!Becomes
  <2> QED BY <2>4 DEF Promise!Next
<1>f. CASE Reconcile(i)
  <2>1. CASE live[Database] = Absent
    <3>1. pc[i] = "reconcile" /\ pc'[i] = "refused" /\ UNCHANGED <<live, original>>
      BY <1>6, <1>f, <2>1 DEF Reconcile, Goto
    <3> QED BY <1>e, <3>1
  <2>2. CASE live[Database] # Absent
    <3>1. pc[i] = "reconcile" /\ pc'[i] = "begin" /\ live' = live
      BY <1>6, <1>f, <2>2 DEF Reconcile, Goto
    <3>2. pc[i] \in Running /\ pc[i] \notin Committing /\ pc'[i] \in Running /\ pc'[i] \notin Committing
      BY <3>1 DEF Running, Committing, Swapping, RollingBack
    <3> QED BY <1>2, <1>9, <3>1, <3>2
  <2> QED BY <2>1, <2>2
<1>g. CASE Refuse(i)
  <2>1. pc[i] \in {"stage", "reconcile", "begin"} /\ pc'[i] = "refused" /\ UNCHANGED <<live, original>>
    BY <1>6, <1>g DEF Refuse, Goto
  <2> QED BY <1>e, <2>1
<1>h. CASE RolledBack(i) /\ stuck[i]
  <2>1. /\ pc[i] \in Running /\ pc'[i] = "kept"
        /\ UNCHANGED <<live, artifacts, which, original>>
    BY <1>6, <1>h DEF RolledBack, Goto, Running, RollingBack
  <2> QED BY <2>1, Breaks DEF Promise!Next
<1>i. CASE Die(i)
  <2>1. pc[i] \in Running /\ pc'[i] = "dead" /\ UNCHANGED <<live, artifacts, which, original>>
    BY <1>6, <1>i DEF Die, Goto
  <2> QED BY <2>1, Breaks DEF Promise!Next
<1>j. CASE End(i)
  <2>1. /\ pc[i] \in Committing /\ live' = live /\ pc'[i] \in {"done", "failed"}
        /\ original'[i] \in {Nothing, original[i]}
        /\ pc[i] = "discard" => pc'[i] = "done"
        /\ pc[i] = "clean" => pc'[i] = "failed"
        /\ pc[i] \in {"discard", "clean"}
    BY <1>6, <1>j DEF End, Goto, Committing
  <2>2. AtRest = before[i] /\ AtRest' = live
    BY <1>2, <1>8, <2>1
  <2>3. /\ Status[i] = "busy" /\ Status' = [Status EXCEPT ![i] = pc'[i]]
        /\ Recovery' = [Recovery EXCEPT ![i] = original'[i]] /\ Recovery[i] = Nothing
    BY <1>3, <1>4, <1>8, <2>1
  <2>4. CASE pc[i] = "discard"
    <3>1. \A c \in Components : live[c] = target[i][c] /\ original[i][c] = before[i][c]
      BY <1>7, <2>4 DEF Phase, Placed, Recorded
    <3>2. live = target[i] /\ original[i] = before[i]
      BY <1>6, <3>1, TreesAreEqual
    <3>3. target[i] = Promise!Image(i) /\ Promise!Ready(i)
      BY <1>7, <2>1, <2>2 DEF KnowsImage, ImageIn, ReadyIn, Promise!Image, Promise!Ready
    <3>4. Recovery' \in {Recovery, [Recovery EXCEPT ![i] = AtRest]}
      BY <1>4, <2>1, <2>2, <2>3, <3>2
    <3>5. Promise!Complete(i)
      BY <1>5, <2>1, <2>2, <2>3, <2>4, <3>2, <3>3, <3>4 DEF Promise!Complete, Promise!Becomes
    <3> QED BY <3>5 DEF Promise!Next
  <2>5. CASE pc[i] = "clean"
    <3>1. \A c \in Components : live[c] = before[i][c] /\ original[i][c] = Absent
      BY <1>7, <2>5 DEF Phase, Undone
    <3>2. live = before[i]
      BY <1>6, <3>1, TreesAreEqual
    <3>3. original[i] = Nothing
      BY <1>6, <3>1 DEF Nothing, Trees
    <3>4. Recovery' = Recovery
      BY <1>4, <2>1, <2>3, <3>3
    <3>5. Promise!Undo(i)
      BY <1>5, <2>1, <2>2, <2>3, <2>5, <3>2, <3>4 DEF Promise!Undo, Promise!Becomes
    <3> QED BY <3>5 DEF Promise!Next
  <2> QED BY <2>1, <2>4, <2>5
<1> QED
  BY <1>a, <1>b, <1>c, <1>d, <1>f, <1>g, <1>h, <1>i, <1>j DEF Step

LEMMA StepKeepsThePromise ==
  ASSUME ~Overlap, ~Commands, SequentialInv, ImageInv, ImageInv', [Next]_vars
  PROVE  [Promise!Next]_(Promise!vars)
<1>1. ASSUME NEW i \in Restores, Step(i) PROVE Promise!Next \/ UNCHANGED Promise!vars
  BY <1>1, StepIsARestore
<1>2. CASE UNCHANGED vars
  BY <1>2 DEF vars, local, Promise!vars, AtRest, Status, Recovery
<1>3. ASSUME Quiet, UNCHANGED <<pc, original>>
      PROVE  AtRest = live /\ AtRest' = live' /\ ~Promise!Busy /\ UNCHANGED <<Status, Recovery>>
  <2>1. Committing \subseteq Running /\ "busy" \notin Steps
    BY DEF Committing, Running, Steps, Swapping, RollingBack
  <2>2. ~Promise!Busy
    BY <1>3, <2>1 DEF Promise!Busy, Status, Quiet, SequentialInv, TypeInv
  <2> QED BY <1>3, <2>1, <2>2 DEF AtRest, Status, Recovery, Quiet
<1>4. ASSUME NEW c \in Written, NEW d \in Data, Work(c, d) PROVE Promise!Next
  <2>1. Quiet /\ UNCHANGED <<pc, original>>
    BY <1>4 DEF Work, local
  <2>2. Promise!Work(c, d)
    BY <1>3, <1>4, <2>1 DEF Work, Promise!Work, local
  <2> QED BY <2>2 DEF Promise!Next
<1>5. ASSUME NEW x \in Indexes, Regenerate(x) PROVE Promise!Next
  <2>1. Quiet /\ UNCHANGED <<pc, original>>
    BY <1>5 DEF Regenerate, local
  <2>2. Promise!Regenerate(x)
    BY <1>3, <1>5, <2>1 DEF Regenerate, Promise!Regenerate, local
  <2> QED BY <2>2 DEF Promise!Next
<1> QED BY <1>1, <1>2, <1>4, <1>5 DEF Next

\* A restore that has the workspace to itself is one step to everybody else:
\* it replaces the workspace by the image of its backup, or leaves it as it
\* was, or breaks off with every component in its place or kept aside.
THEOREM RestoreIsAtomic ==
  ASSUME ~Overlap, ~Commands
  PROVE  Spec => ImplementsRestore
<1>1. Init => ImageInv /\ Promise!Init
  <2> SUFFICES ASSUME Init PROVE ImageInv /\ Promise!Init
    OBVIOUS
  <2>1. \A i \in Restores : pc[i] = "idle" /\ pc[i] \notin Running /\ pc[i] \notin Committing
    BY DEF Init, Running, Committing, Swapping, RollingBack
  <2>2. AtRest = live /\ Status = [i \in Restores |-> "idle"] /\ Recovery = [i \in Restores |-> Nothing]
    BY <2>1 DEF Init, AtRest, Status, Recovery
  <2>3. Promise!Nothing = Nothing
    BY DEF Promise!Nothing, Nothing
  <2> QED BY <2>1, <2>2, <2>3 DEF Init, ImageInv, KnowsImage, Promise!Init, Backups
<1>2. SequentialInv /\ ImageInv /\ [Next]_vars => ImageInv'
  BY ImageStep
<1>3. SequentialInv /\ ImageInv /\ ImageInv' /\ [Next]_vars => [Promise!Next]_(Promise!vars)
  BY StepKeepsThePromise
<1> QED BY <1>1, <1>2, <1>3, SequentialInvariant, PTL DEF Spec, ImplementsRestore, Promise!Spec

-----------------------------------------------------------------------------
(* The length of a restore. *)

\* Steps a restore may still take, at the component c.
Left(step, c) ==
    CASE step = "idle" -> 24
      [] step = "stage" -> 23
      [] step = "reconcile" -> 22
      [] step = "begin" -> 21
      [] step = "preserve" -> 22 - 2 * c
      [] step = "commit" -> 21 - 2 * c
      [] step = "remove" -> 2 * c + 2
      [] step = "putback" -> 2 * c + 1
      [] step \in {"discard", "clean"} -> 1
      [] step \in {"refused", "done", "failed", "kept", "dead"} -> 0

\* Every step of a restore leaves it fewer, and nothing else adds any.
RestoreStepsAreCounted ==
    [][\A i \in Restores :
        /\ pc'[i] # pc[i] \/ at'[i] # at[i] => Left(pc'[i], at'[i]) < Left(pc[i], at[i])
        /\ Step(i) => /\ pc'[i] # pc[i] \/ at'[i] # at[i]
                      /\ \A j \in Restores \ {i} : pc'[j] = pc[j] /\ at'[j] = at[j]]_vars

LEMMA LeftIs ==
  ASSUME NEW c \in 0..4
  PROVE  /\ Left("idle", c) = 24
         /\ Left("stage", c) = 23
         /\ Left("reconcile", c) = 22
         /\ Left("begin", c) = 21
         /\ Left("preserve", c) = 22 - 2 * c
         /\ Left("commit", c) = 21 - 2 * c
         /\ Left("remove", c) = 2 * c + 2
         /\ Left("putback", c) = 2 * c + 1
         /\ \A step \in {"discard", "clean"} : Left(step, c) = 1
         /\ \A step \in {"refused", "done", "failed", "kept", "dead"} : Left(step, c) = 0
<1>1. Left("idle", c) = 24
  BY DEF Left
<1>2. Left("stage", c) = 23
  BY DEF Left
<1>3. Left("reconcile", c) = 22
  BY DEF Left
<1>4. Left("begin", c) = 21
  BY DEF Left
<1>5. Left("preserve", c) = 22 - 2 * c
  BY DEF Left
<1>6. Left("commit", c) = 21 - 2 * c
  BY DEF Left
<1>7. Left("remove", c) = 2 * c + 2
  BY DEF Left
<1>8. Left("putback", c) = 2 * c + 1
  BY DEF Left
<1>9. Left("discard", c) = 1 /\ Left("clean", c) = 1
  BY DEF Left
<1>10. Left("refused", c) = 0 /\ Left("done", c) = 0 /\ Left("failed", c) = 0
  BY DEF Left
<1>11. Left("kept", c) = 0 /\ Left("dead", c) = 0
  BY DEF Left
<1> QED BY <1>1, <1>2, <1>3, <1>4, <1>5, <1>6, <1>7, <1>8, <1>9, <1>10, <1>11

LEMMA EachStepCounts ==
  ASSUME TypeInv, OwnInv, NEW i \in Restores, Step(i)
  PROVE  /\ Left(pc'[i], at'[i]) < Left(pc[i], at[i])
         /\ \A j \in Restores \ {i} : pc'[j] = pc[j] /\ at'[j] = at[j]
<1>0. pc \in [Restores -> Steps] /\ at \in [Restores -> 0..4] /\ at[i] \in 0..4
      /\ (pc[i] \in {"preserve", "commit", "putback"} => at[i] # 0)
  BY DEF TypeInv, OwnInv, Swapping
<1>00. at'[i] \in 0..4
  BY TypeStep DEF Next, TypeInv
<1> USE <1>0, <1>00 DEF Goto
<1>1. \A j \in Restores \ {i} : pc'[j] = pc[j] /\ at'[j] = at[j]
  BY DEF Step, Load, Stage, Reconcile, Refuse, Begin, Preserve, PreserveFails, Commit, CommitFails,
         Remove, RemoveFails, PutBack, PutBackFails, RolledBack, End, Die, Forget, local
<1>2. CASE Load(i) \/ Stage(i) \/ Reconcile(i) \/ Refuse(i)
  <2>1. \/ pc[i] = "idle" /\ pc'[i] \in {"refused", "stage"}
        \/ pc[i] = "stage" /\ pc'[i] \in {"refused", "reconcile", "begin"}
        \/ pc[i] = "reconcile" /\ pc'[i] \in {"refused", "begin"}
        \/ pc[i] = "begin" /\ pc'[i] = "refused"
    BY <1>2 DEF Load, Stage, Reconcile, Refuse
  <2> QED BY <1>1, <2>1, LeftIs
<1>3. CASE Begin(i)
  <2>1. pc[i] = "begin" /\ pc'[i] = "preserve" /\ at'[i] = 1
    BY <1>3 DEF Begin
  <2> QED BY <1>1, <2>1, LeftIs
<1>4. CASE Preserve(i) \/ PreserveFails(i)
  <2>1. Preserve(i) => pc[i] = "preserve" /\ pc'[i] = "commit" /\ at'[i] = at[i]
    BY DEF Preserve
  <2>2. PreserveFails(i) => pc[i] = "preserve" /\ pc'[i] = "remove" /\ at'[i] = at[i] - 1
    BY DEF PreserveFails
  <2> QED BY <1>1, <1>4, <2>1, <2>2, LeftIs
<1>5. CASE Commit(i) \/ CommitFails(i)
  <2>1. pc[i] = "commit"
        /\ \/ pc'[i] = "discard"
           \/ pc'[i] = "preserve" /\ at'[i] = at[i] + 1
           \/ pc'[i] = "remove" /\ at'[i] = at[i]
    BY <1>5 DEF Commit, CommitFails, local
  <2> QED BY <1>1, <2>1, LeftIs
<1>6. CASE Remove(i) \/ RemoveFails(i) \/ RolledBack(i)
  <2>1. pc[i] = "remove"
        /\ \/ pc'[i] = "putback" /\ at'[i] = at[i]
           \/ pc'[i] = "remove" /\ at'[i] = at[i] - 1
           \/ pc'[i] \in {"kept", "clean"}
    BY <1>6 DEF Remove, RemoveFails, RolledBack, local
  <2> QED BY <1>1, <2>1, LeftIs
<1>7. CASE PutBack(i) \/ PutBackFails(i)
  <2>1. pc[i] = "putback" /\ pc'[i] = "remove" /\ at'[i] = at[i] - 1
    BY <1>7 DEF PutBack, PutBackFails
  <2> QED BY <1>1, <2>1, LeftIs
<1>8. CASE End(i) \/ Die(i)
  <2>1. pc[i] \in Running /\ pc'[i] \in {"done", "failed", "dead"}
    BY <1>8 DEF End, Die, Running
  <2>3. Left(pc'[i], at'[i]) = 0
    BY <2>1, LeftIs
  <2>4. Left(pc[i], at[i]) \in Nat \ {0}
    BY <2>1, LeftIs DEF Running, Swapping, RollingBack
  <2> QED BY <1>1, <2>3, <2>4
<1> QED BY <1>1, <1>2, <1>3, <1>4, <1>5, <1>6, <1>7, <1>8 DEF Step

\* A restore takes at most 24 steps to its end, its rollback included, also
\* while other restores and commands change what it finds.
THEOREM RestoresRunOut == Spec => RestoreStepsAreCounted
<1>1. TypeInv /\ OwnInv /\ [Next]_vars =>
        [\A i \in Restores :
            /\ pc'[i] # pc[i] \/ at'[i] # at[i] => Left(pc'[i], at'[i]) < Left(pc[i], at[i])
            /\ Step(i) => /\ pc'[i] # pc[i] \/ at'[i] # at[i]
                          /\ \A j \in Restores \ {i} : pc'[j] = pc[j] /\ at'[j] = at[j]]_vars
  <2> SUFFICES ASSUME TypeInv, OwnInv, [Next]_vars, NEW i \in Restores
               PROVE  /\ pc'[i] # pc[i] \/ at'[i] # at[i] => Left(pc'[i], at'[i]) < Left(pc[i], at[i])
                      /\ Step(i) => /\ pc'[i] # pc[i] \/ at'[i] # at[i]
                                    /\ \A j \in Restores \ {i} : pc'[j] = pc[j] /\ at'[j] = at[j]
    OBVIOUS
  <2>1. Left(pc[i], at[i]) \in Nat
    <3>1. pc[i] \in Steps /\ at[i] \in 0..4
      BY DEF TypeInv
    <3> QED BY <3>1, LeftIs DEF Steps, Running, Swapping, RollingBack
  <2>2. ASSUME Step(i)
        PROVE  /\ Left(pc'[i], at'[i]) < Left(pc[i], at[i])
               /\ pc'[i] # pc[i] \/ at'[i] # at[i]
               /\ \A j \in Restores \ {i} : pc'[j] = pc[j] /\ at'[j] = at[j]
    <3>1. /\ Left(pc'[i], at'[i]) < Left(pc[i], at[i])
          /\ \A j \in Restores \ {i} : pc'[j] = pc[j] /\ at'[j] = at[j]
      BY <2>2, EachStepCounts
    <3> QED BY <2>1, <3>1
  <2>3. ASSUME NEW j \in Restores, j # i, Step(j) PROVE pc'[i] = pc[i] /\ at'[i] = at[i]
    BY <2>3, EachStepCounts
  <2>4. ASSUME \/ UNCHANGED vars
               \/ \E c \in Written, d \in Data : Work(c, d)
               \/ \E x \in Indexes : Regenerate(x)
        PROVE  pc'[i] = pc[i] /\ at'[i] = at[i]
    BY <2>4 DEF Work, Regenerate, vars, local
  <2> QED BY <2>2, <2>3, <2>4 DEF Next
<1> QED BY <1>1, TypeInvariant, PTL DEF Spec, RestoreStepsAreCounted
====
