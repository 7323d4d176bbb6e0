---- MODULE PackUpgradeProofs ----
(***************************************************************************)
(* What holds of upgrades and activations for any packs, any number of     *)
(* invocations, goals and failures.                                        *)
(***************************************************************************)
EXTENDS PackUpgrade, FiniteSetTheorems, TLAPS

StoreType == installed \subseteq Manifests
DatabaseType ==
    inst \in Enrolments /\ known \in Records /\ goal \in GoalStates /\ reported \in Reference
StepType ==
    /\ pc \in [Invocations -> UpgradeSteps \union ActivateSteps]
    /\ \A p \in Upgraders : pc[p] \in UpgradeSteps
    /\ \A p \in Activators : pc[p] \in ActivateSteps
TargetType == from \in [Invocations -> Reference] /\ to \in [Invocations -> Reference]
LocalType ==
    /\ learner \in [Activators -> SUBSET Goals]
    /\ saved \in [Upgraders -> SUBSET WorkspaceState]
    /\ clean \in BOOLEAN /\ near \in [Upgraders -> BOOLEAN]

\* What is being done has a version to go to, an upgrade one to leave that is
\* older.
Targets ==
    /\ \A p \in Invocations : pc[p] # "idle" => to[p] \in Versions
    /\ \A p \in Upgraders :
        pc[p] # "idle" => from[p] \in Versions /\ Older(from[p], to[p])

TypeInv ==
    /\ StoreType /\ active \in Reference /\ DatabaseType /\ StepType /\ TargetType
    /\ LocalType /\ Targets

-----------------------------------------------------------------------------
(* The order of versions. *)

LEMMA OlderIsAnOrder ==
    /\ \A v \in Number : ~Older(v, v)
    /\ \A u, v, w \in Number : Older(u, v) /\ Older(v, w) => Older(u, w)
<1>1. \A v \in Number : ~Older(v, v)
  BY SMT DEF Number, Older
<1>2. SUFFICES ASSUME NEW u \in Number, NEW v \in Number, NEW w \in Number,
                      Older(u, v), Older(v, w)
               PROVE  Older(u, w)
  BY <1>1
<1>3. QED
  BY <1>2, SMT DEF Number, Older, Core

LEMMA VersionsAreNumbers == Versions \subseteq Number
  BY ManifestAssumption DEF Versions, WellFormed

LEMMA OlderIrreflexive == \A v \in Versions : ~Older(v, v)
  BY OlderIsAnOrder, VersionsAreNumbers

LEMMA OlderTransitive ==
    \A u, v, w \in Versions : Older(u, v) /\ Older(v, w) => Older(u, w)
  BY OlderIsAnOrder, VersionsAreNumbers

-----------------------------------------------------------------------------
(* Types. *)

LEMMA TypeInit == Init => TypeInv
  BY DEF Init, TypeInv, StoreType, DatabaseType, StepType, TargetType, LocalType, Targets,
    Reference, Enrolments, Records, GoalStates, UpgradeSteps, ActivateSteps, Invocations

\* What the steps have in common.
LEMMA GotoType ==
    ASSUME StepType, NEW p \in Invocations, NEW step \in UpgradeSteps \union ActivateSteps,
           Goto(p, step), p \in Upgraders => step \in UpgradeSteps,
           p \in Activators => step \in ActivateSteps
    PROVE  StepType'
  BY InvocationAssumption DEF StepType, Goto, Invocations

LEMMA ForgetType ==
    ASSUME TypeInv, NEW p \in Invocations, Forget(p), Goto(p, "idle"), clean' \in BOOLEAN
    PROVE  TargetType' /\ LocalType' /\ Targets' /\ StepType'
<1>1. TargetType'
  BY DEF TypeInv, TargetType, Forget, Reference
<1>2. LocalType'
  BY DEF TypeInv, LocalType, Forget
<1>3. StepType'
  BY GotoType DEF TypeInv, UpgradeSteps, ActivateSteps
<1>4. \A q \in Invocations : pc'[q] # "idle" => q # p /\ pc'[q] = pc[q] /\ from'[q] = from[q] /\ to'[q] = to[q]
  BY DEF TypeInv, StepType, TargetType, Forget, Goto
<1>5. Targets'
  BY <1>4 DEF TypeInv, Targets, Invocations
<1>6. QED
  BY <1>1, <1>2, <1>3, <1>5

LEMMA MoveType ==
    ASSUME TypeInv, NEW p \in Invocations, NEW step \in UpgradeSteps \union ActivateSteps,
           Goto(p, step), pc[p] # "idle", UNCHANGED <<from, to>>
    PROVE  Targets' /\ TargetType'
<1>1. \A q \in Invocations : pc'[q] # "idle" => pc[q] # "idle"
  BY DEF TypeInv, StepType, Goto
<1>2. QED
  BY <1>1 DEF TypeInv, TargetType, Targets, Invocations

LEMMA TypeStudent == TypeInv /\ (Store \/ Student) => TypeInv'
<1> SUFFICES ASSUME TypeInv, Store \/ Student PROVE TypeInv'
  OBVIOUS
<1>1. UNCHANGED <<active, reported, pc, from, to, learner, saved, clean, near>>
  BY DEF Store, Student, Install, SetGoal, PauseGoal, ResumeGoal, Learn, database, locals
<1>2. installed' \subseteq Manifests
  BY DEF TypeInv, StoreType, Store, Student, Install, SetGoal, PauseGoal, ResumeGoal, Learn
<1>3. inst' \in Enrolments
  BY DEF TypeInv, DatabaseType, Store, Student, Install, SetGoal, PauseGoal, ResumeGoal,
    Learn, database
<1>4. goal' \in GoalStates
  BY DEF TypeInv, DatabaseType, Store, Student, Install, SetGoal, PauseGoal, ResumeGoal,
    Learn, database, GoalStates
<1>5. known' \in Records
  <2>1. ASSUME NEW g \in Goals, NEW v \in Versions, NEW c \in Concepts, Learn(g, v, c)
        PROVE  known' \in Records
    BY <2>1 DEF TypeInv, DatabaseType, Records, Learn
  <2>2. QED
    BY <2>1 DEF TypeInv, DatabaseType, Store, Student, Install, SetGoal, PauseGoal,
      ResumeGoal, database
<1>6. QED
  BY <1>1, <1>2, <1>3, <1>4, <1>5 DEF TypeInv, StoreType, DatabaseType, StepType, TargetType,
    LocalType, Targets

LEMMA TypeBeginUpgrade ==
    ASSUME TypeInv, NEW p \in Upgraders, NEW w \in Versions, BeginUpgrade(p, w) PROVE TypeInv'
<1>1. /\ p \in Invocations /\ active \in Versions /\ Older(active, w)
      /\ from' = [from EXCEPT ![p] = active] /\ to' = [to EXCEPT ![p] = w]
      /\ Goto(p, "planned")
  BY DEF BeginUpgrade, Invocations, TypeInv, Reference, TransitionAllowed
<1>2. TargetType' /\ StepType'
  BY <1>1, GotoType, InvocationAssumption
    DEF TypeInv, TargetType, Reference, UpgradeSteps, ActivateSteps
<1>3. Targets'
  <2>1. \A q \in Invocations \ {p} : pc'[q] = pc[q] /\ from'[q] = from[q] /\ to'[q] = to[q]
    BY <1>1 DEF Goto, TypeInv, StepType, TargetType
  <2>2. from'[p] = active /\ to'[p] = w
    BY <1>1 DEF TypeInv, TargetType
  <2>3. QED
    BY <1>1, <2>1, <2>2 DEF TypeInv, Targets, Invocations
<1>4. LocalType'
  BY DEF TypeInv, LocalType, BeginUpgrade, Begins
<1>5. QED
  BY <1>2, <1>3, <1>4 DEF TypeInv, BeginUpgrade, StoreType, DatabaseType, database

LEMMA TypeBackup ==
    ASSUME TypeInv, NEW p \in Upgraders, Backup(p) PROVE TypeInv'
<1>1. p \in Invocations /\ Targets' /\ TargetType' /\ StepType'
  BY MoveType, GotoType, InvocationAssumption
    DEF TypeInv, Backup, Invocations, locals, UpgradeSteps, ActivateSteps
<1>2. saved' \in [Upgraders -> SUBSET WorkspaceState]
  <2>1. Workspace \in WorkspaceState
    BY DEF TypeInv, DatabaseType, Workspace, WorkspaceState
  <2>2. QED
    BY <2>1 DEF TypeInv, LocalType, Backup
<1>9. QED
  BY <1>1, <1>2 DEF TypeInv, Backup, StoreType, DatabaseType, LocalType, database, locals

LEMMA TypeMigrate ==
    ASSUME TypeInv, NEW p \in Upgraders, Migrate(p) PROVE TypeInv'
<1>1. p \in Invocations /\ Targets' /\ TargetType' /\ StepType'
  BY MoveType, GotoType, InvocationAssumption
    DEF TypeInv, Migrate, Invocations, locals, UpgradeSteps, ActivateSteps
<1>2. inst' \in Enrolments
  BY DEF TypeInv, DatabaseType, Enrolments, Migrate
<1>3. known' \in Records
  <2>1. to[p] \in Versions /\ from[p] \in Versions
    BY <1>1 DEF TypeInv, Targets, Migrate
  <2>2. \A g \in Goals : Preserved(p, g) \in SUBSET Concepts
    BY <2>1 DEF TypeInv, DatabaseType, Records, Preserved
  <2>3. QED
    BY <2>2 DEF TypeInv, DatabaseType, Records, Migrate
<1>9. QED
  BY <1>1, <1>2, <1>3 DEF TypeInv, Migrate, StoreType, DatabaseType, LocalType, database, locals

LEMMA TypePointUpgrade ==
    ASSUME TypeInv, NEW p \in Upgraders, PointUpgrade(p) PROVE TypeInv'
<1>1. p \in Invocations /\ Targets' /\ TargetType' /\ StepType'
  BY MoveType, GotoType, InvocationAssumption
    DEF TypeInv, PointUpgrade, Invocations, locals, UpgradeSteps, ActivateSteps
<1>2. active' \in Reference
  BY <1>1 DEF TypeInv, Targets, Reference, PointUpgrade
<1>9. QED
  BY <1>1, <1>2 DEF TypeInv, PointUpgrade, StoreType, DatabaseType, LocalType, database, locals

LEMMA TypeCheckIntegrity ==
    ASSUME TypeInv, NEW p \in Upgraders, CheckIntegrity(p) PROVE TypeInv'
<1>1. p \in Invocations /\ Targets' /\ TargetType' /\ StepType'
  BY MoveType, GotoType, InvocationAssumption
    DEF TypeInv, CheckIntegrity, Invocations, locals, UpgradeSteps, ActivateSteps
<1>9. QED
  BY <1>1 DEF TypeInv, CheckIntegrity, StoreType, DatabaseType, LocalType, database, locals

LEMMA TypeFail ==
    ASSUME TypeInv, NEW p \in Upgraders, Fail(p) PROVE TypeInv'
<1>1. p \in Invocations /\ Targets' /\ TargetType' /\ StepType'
  BY MoveType, GotoType, InvocationAssumption
    DEF TypeInv, Fail, Invocations, locals, UpgradeSteps, ActivateSteps
<1>2. reported' \in Reference
  BY <1>1 DEF TypeInv, DatabaseType, TargetType, Fail
<1>9. QED
  BY <1>1, <1>2 DEF TypeInv, Fail, StoreType, DatabaseType, LocalType, database, locals

LEMMA TypeRestore ==
    ASSUME TypeInv, NEW p \in Upgraders, Restore(p) PROVE TypeInv'
<1>1. p \in Invocations /\ Targets' /\ TargetType' /\ StepType'
  BY MoveType, GotoType, InvocationAssumption
    DEF TypeInv, Restore, Invocations, locals, UpgradeSteps, ActivateSteps
<1>2. inst' \in Enrolments /\ known' \in Records /\ goal' \in GoalStates /\ reported' \in Reference
  BY DEF TypeInv, LocalType, WorkspaceState, Restore, RestoreDatabase
<1>3. active' \in Reference
  BY DEF TypeInv, LocalType, WorkspaceState, Restore
<1>9. QED
  BY <1>1, <1>2, <1>3 DEF TypeInv, Restore, StoreType, DatabaseType, LocalType, database, locals

LEMMA TypeRestoreFails ==
    ASSUME TypeInv, NEW p \in Upgraders, RestoreFails(p) PROVE TypeInv'
<1>1. p \in Invocations /\ Targets' /\ TargetType' /\ StepType'
  BY MoveType, GotoType, InvocationAssumption
    DEF TypeInv, RestoreFails, Invocations, locals, UpgradeSteps, ActivateSteps
<1>9. QED
  BY <1>1 DEF TypeInv, RestoreFails, StoreType, DatabaseType, LocalType, database, locals

LEMMA TypeComplete ==
    ASSUME TypeInv, NEW p \in Upgraders, Complete(p) PROVE TypeInv'
<1>1. p \in Invocations /\ Targets' /\ TargetType' /\ StepType' /\ LocalType'
  BY ForgetType DEF TypeInv, LocalType, Complete, Invocations
<1>2. reported' \in Reference
  BY <1>1 DEF TypeInv, TargetType, Complete
<1>9. QED
  BY <1>1, <1>2 DEF TypeInv, Complete, StoreType, DatabaseType, database

LEMMA TypeRestoreDies ==
    ASSUME TypeInv, NEW p \in Upgraders, RestoreDies(p) PROVE TypeInv'
<1>1. p \in Invocations /\ Targets' /\ TargetType' /\ StepType' /\ LocalType'
  BY ForgetType DEF TypeInv, LocalType, RestoreDies, Invocations
<1>2. inst' \in Enrolments /\ known' \in Records /\ goal' \in GoalStates /\ reported' \in Reference
  BY DEF TypeInv, LocalType, WorkspaceState, RestoreDies, RestoreDatabase
<1>9. QED
  BY <1>1, <1>2 DEF TypeInv, RestoreDies, StoreType, DatabaseType, database

LEMMA TypeRecordFailure ==
    ASSUME TypeInv, NEW p \in Upgraders, RecordFailure(p) PROVE TypeInv'
<1>1. p \in Invocations /\ Targets' /\ TargetType' /\ StepType' /\ LocalType'
  BY ForgetType DEF TypeInv, LocalType, RecordFailure, Invocations
<1>2. reported' \in Reference
  BY <1>1 DEF TypeInv, DatabaseType, TargetType, Reference, RecordFailure
<1>9. QED
  BY <1>1, <1>2 DEF TypeInv, RecordFailure, StoreType, DatabaseType, database

LEMMA TypeQuit ==
    ASSUME TypeInv, NEW p \in Invocations, Quit(p) PROVE TypeInv'
<1>1. p \in Invocations /\ Targets' /\ TargetType' /\ StepType' /\ LocalType'
  BY ForgetType DEF TypeInv, LocalType, Quit, Invocations
<1>9. QED
  BY <1>1 DEF TypeInv, Quit, StoreType, DatabaseType, database

LEMMA TypeBeginActivate ==
    ASSUME TypeInv, NEW p \in Activators, NEW v \in Versions, BeginActivate(p, v) PROVE TypeInv'
<1>1. /\ p \in Invocations /\ p \notin Upgraders
      /\ from' = from /\ to' = [to EXCEPT ![p] = v] /\ Goto(p, "selected")
  BY InvocationAssumption DEF BeginActivate, Invocations
<1>2. TargetType' /\ StepType'
  BY <1>1, GotoType DEF TypeInv, TargetType, Reference, UpgradeSteps, ActivateSteps
<1>3. Targets'
  <2>1. \A q \in Invocations \ {p} : pc'[q] = pc[q] /\ from'[q] = from[q] /\ to'[q] = to[q]
    BY <1>1 DEF Goto, TypeInv, StepType, TargetType
  <2>2. to'[p] = v
    BY <1>1 DEF TypeInv, TargetType
  <2>3. QED
    BY <1>1, <2>1, <2>2 DEF TypeInv, Targets, Invocations
<1>4. LocalType'
  BY DEF TypeInv, LocalType, BeginActivate, Begins
<1>5. QED
  BY <1>2, <1>3, <1>4 DEF TypeInv, BeginActivate, StoreType, DatabaseType, database

LEMMA TypePreflight ==
    ASSUME TypeInv, NEW p \in Activators, Preflight(p) PROVE TypeInv'
<1>1. p \in Invocations /\ Targets' /\ TargetType' /\ StepType'
  BY MoveType, GotoType, InvocationAssumption
    DEF TypeInv, Preflight, Invocations, locals, UpgradeSteps, ActivateSteps
<1>9. QED
  BY <1>1 DEF TypeInv, Preflight, StoreType, DatabaseType, LocalType, database, locals

LEMMA TypeFindInstance ==
    ASSUME TypeInv, NEW p \in Activators, FindInstance(p) PROVE TypeInv'
<1>1. p \in Invocations /\ Targets' /\ TargetType' /\ StepType'
  BY MoveType, GotoType, InvocationAssumption
    DEF TypeInv, FindInstance, Invocations, locals, UpgradeSteps, ActivateSteps
<1>9. QED
  BY <1>1 DEF TypeInv, FindInstance, StoreType, DatabaseType, LocalType, database, locals

LEMMA TypeCreateInstance ==
    ASSUME TypeInv, NEW p \in Activators, CreateInstance(p) PROVE TypeInv'
<1>1. p \in Invocations /\ Targets' /\ TargetType' /\ StepType'
  BY MoveType, GotoType, InvocationAssumption
    DEF TypeInv, CreateInstance, Invocations, locals, UpgradeSteps, ActivateSteps
<1>2. inst' \in Enrolments
  <2>1. PICK g \in Goals : inst' = [inst EXCEPT ![g][to[p]] = "open"]
    BY DEF TypeInv, LocalType, CreateInstance
  <2>2. to[p] \in Versions
    BY <1>1 DEF TypeInv, Targets, CreateInstance
  <2>3. QED
    BY <2>1, <2>2 DEF TypeInv, DatabaseType, Enrolments
<1>9. QED
  BY <1>1, <1>2 DEF TypeInv, CreateInstance, StoreType, DatabaseType, LocalType, database, locals

LEMMA TypeCheckReference ==
    ASSUME TypeInv, NEW p \in Activators, CheckReference(p) PROVE TypeInv'
<1>1. p \in Invocations /\ Targets' /\ TargetType' /\ StepType'
  BY MoveType, GotoType, InvocationAssumption
    DEF TypeInv, CheckReference, Invocations, locals, UpgradeSteps, ActivateSteps
<1>9. QED
  BY <1>1 DEF TypeInv, CheckReference, StoreType, DatabaseType, LocalType, database, locals

LEMMA TypeWriteReference ==
    ASSUME TypeInv, NEW p \in Activators, WriteReference(p) PROVE TypeInv'
<1>1. p \in Invocations /\ Targets' /\ TargetType' /\ StepType' /\ LocalType'
  BY ForgetType DEF TypeInv, LocalType, WriteReference, Invocations
<1>2. active' \in Reference
  BY <1>1 DEF TypeInv, TargetType, WriteReference
<1>9. QED
  BY <1>1, <1>2 DEF TypeInv, WriteReference, StoreType, DatabaseType, database

LEMMA TypeStep == TypeInv /\ [Next]_vars => TypeInv'
<1> SUFFICES ASSUME TypeInv, [Next]_vars PROVE TypeInv'
  OBVIOUS
<1>1. ASSUME NEW p \in Upgraders, Upgrade(p) PROVE TypeInv'
  BY <1>1, TypeBeginUpgrade, TypeBackup, TypeMigrate, TypePointUpgrade, TypeCheckIntegrity,
    TypeComplete, TypeFail, TypeRestore, TypeRestoreFails, TypeRestoreDies,
    TypeRecordFailure DEF Upgrade
<1>2. ASSUME NEW p \in Activators, Activate(p) PROVE TypeInv'
  BY <1>2, TypeBeginActivate, TypePreflight, TypeFindInstance, TypeCreateInstance,
    TypeCheckReference, TypeWriteReference DEF Activate
<1>3. CASE UNCHANGED vars
  BY <1>3 DEF vars, TypeInv, StoreType, DatabaseType, StepType, TargetType, LocalType, Targets
<1>4. QED
  BY <1>1, <1>2, <1>3, TypeStudent, TypeQuit DEF Next

LEMMA Types == Spec => []TypeInv
  BY TypeInit, TypeStep, PTL DEF Spec

\* Every variable keeps its type, whatever the packs, the goals and the number
\* of invocations (PackInstallerV1, PackActivationCoordinatorV1,
\* PackUpgradeExecutorV1).
THEOREM TypeCorrect == Spec => []TypeOK
<1>1. TypeInv => TypeOK
  BY DEF TypeInv, TypeOK, StoreType, DatabaseType, StepType, TargetType, LocalType
<1>2. QED
  BY <1>1, Types, PTL

-----------------------------------------------------------------------------
(* Commands that do not overlap. *)

\* The open instances of an enrolment i are of the given versions.
Opens(i, versions) == \A g \in Goals : \A v \in Versions : i[g][v] = "open" => v \in versions

ReportRight == reported # NoVersion => active # NoVersion /\ ~Older(active, reported)
RestRight == AtRest => Opens(inst, {active})

\* Where an upgrade that has the workspace to itself stands, and its backup.
UpgradeAlone(p) ==
    /\ pc[p] \in {"planned", "backed"} => active = from[p] /\ Opens(inst, {from[p]})
    /\ pc[p] = "migrated" => active = from[p] /\ Opens(inst, {to[p]})
    /\ pc[p] \in {"pointed", "checked"} => active = to[p] /\ Opens(inst, {to[p]})
    /\ pc[p] \in {"failed", "unrestored"} => active \in {from[p], to[p]}
    /\ pc[p] = "restored" => active = from[p] /\ Opens(inst, {from[p]})
    /\ pc[p] \in {"idle", "planned"} => saved[p] = {}
    /\ \A w \in saved[p] :
        /\ w.active = from[p] /\ Opens(w.inst, {from[p]})
        /\ w.reported # NoVersion => ~Older(from[p], w.reported)

ActivateAlone(p) ==
    /\ pc[p] # "idle" => active \in {NoVersion, to[p]}
    /\ pc[p] \in {"selected", "preflighted", "enrolling"} => Opens(inst, {active})
    /\ pc[p] \in {"enrolled", "ready"} => Opens(inst, {to[p]})

OneAtATime == \A p, q \in Invocations : pc[p] # "idle" /\ pc[q] # "idle" => p = q

Orderly ==
    /\ OneAtATime /\ ReportRight /\ RestRight
    /\ \A p \in Upgraders : UpgradeAlone(p)
    /\ \A p \in Activators : ActivateAlone(p)
CleanInv == clean => Orderly

LEMMA CleanInit == Init => CleanInv
  BY DEF Init, CleanInv, Orderly, OneAtATime, ReportRight, RestRight, UpgradeAlone,
    ActivateAlone, Opens, Invocations

\* A step of one invocation while the others are idle: what has to be shown.
LEMMA Others ==
    ASSUME TypeInv, Orderly, NEW p \in Invocations, NEW step, Goto(p, step),
           \A q \in Invocations \ {p} : pc[q] = "idle",
           \A q \in Upgraders \ {p} : saved'[q] = saved[q],
           p \in Upgraders => UpgradeAlone(p)', p \in Activators => ActivateAlone(p)',
           ReportRight', step = "idle" => Opens(inst, {active})'
    PROVE  Orderly'
<1>1. pc'[p] = step /\ \A q \in Invocations \ {p} : pc'[q] = "idle"
  BY DEF TypeInv, StepType, Goto
<1>2. OneAtATime'
  BY <1>1 DEF OneAtATime
<1>3. RestRight'
  BY <1>1 DEF RestRight, AtRest
<1>4. \A q \in Upgraders \ {p} : UpgradeAlone(q)'
  BY <1>1 DEF UpgradeAlone, Orderly, Invocations
<1>5. \A q \in Activators \ {p} : ActivateAlone(q)'
  BY <1>1 DEF ActivateAlone, Invocations
<1>6. QED
  BY <1>2, <1>3, <1>4, <1>5 DEF Orderly

LEMMA Quiet ==
    ASSUME Orderly, NEW p \in Invocations, pc[p] # "idle"
    PROVE  \A q \in Invocations \ {p} : pc[q] = "idle"
  BY DEF Orderly, OneAtATime

LEMMA SavedKept ==
    ASSUME TypeInv, NEW p \in Invocations, Forget(p)
    PROVE  /\ \A q \in Upgraders \ {p} : saved'[q] = saved[q]
           /\ p \in Upgraders => saved'[p] = {}
  BY DEF Forget

LEMMA CleanStudent == TypeInv /\ CleanInv /\ (Store \/ Student) => CleanInv'
<1> SUFFICES ASSUME TypeInv, CleanInv, Store \/ Student PROVE CleanInv'
  OBVIOUS
<1>1. UNCHANGED <<active, inst, reported, pc, from, to, saved, clean>>
  BY DEF Store, Student, Install, SetGoal, PauseGoal, ResumeGoal, Learn, database, locals
<1>2. QED
  BY <1>1 DEF CleanInv, Orderly, OneAtATime, ReportRight, RestRight, AtRest, UpgradeAlone,
    ActivateAlone, Opens

LEMMA CleanBeginUpgrade ==
    ASSUME TypeInv, TypeInv', CleanInv, NEW p \in Upgraders, NEW w \in Versions, BeginUpgrade(p, w) PROVE CleanInv'
<1> SUFFICES ASSUME clean' PROVE Orderly'
  BY DEF CleanInv
<1>1. /\ p \in Invocations /\ p \notin Activators /\ p \in Upgraders
      /\ Orderly /\ clean /\ Goto(p, "planned")
  BY InvocationAssumption DEF CleanInv, BeginUpgrade, Invocations, Begins
<1>2. \A q \in Invocations \ {p} : pc[q] = "idle"
  BY <1>1 DEF BeginUpgrade, Begins, Overlaps
<1>3. \A q \in Upgraders \ {p} : saved'[q] = saved[q]
  BY <1>1 DEF TypeInv, LocalType, BeginUpgrade, locals
<1>4. UpgradeAlone(p)'
  <2>1. saved'[p] = {} /\ Opens(inst, {active}) /\ active = from'[p] /\ pc'[p] = "planned"
    BY <1>1, <1>2 DEF BeginUpgrade, Begins, Orderly, RestRight, AtRest, UpgradeAlone, Goto,
      TypeInv, StepType, TargetType, Invocations
  <2>2. QED
    BY <2>1 DEF UpgradeAlone, BeginUpgrade, Opens, database
<1>5. ReportRight'
  BY <1>1 DEF Orderly, ReportRight, BeginUpgrade, database
<1>6. QED
  BY <1>1, <1>2, <1>3, <1>4, <1>5, Others

LEMMA CleanBackup ==
    ASSUME TypeInv, TypeInv', CleanInv, NEW p \in Upgraders, Backup(p) PROVE CleanInv'
<1> SUFFICES ASSUME clean' PROVE Orderly'
  BY DEF CleanInv
<1>1. /\ p \in Invocations /\ p \notin Activators /\ p \in Upgraders
      /\ Orderly /\ clean /\ Goto(p, "backed")
  BY InvocationAssumption DEF CleanInv, Backup, Invocations
<1>2. \A q \in Invocations \ {p} : pc[q] = "idle"
  BY <1>1, Quiet DEF Backup
<1>3. \A q \in Upgraders \ {p} : saved'[q] = saved[q]
  BY <1>1 DEF TypeInv, LocalType, Backup, locals
<1>4. UpgradeAlone(p)'
  <2>1. UpgradeAlone(p) /\ pc'[p] = "backed"
    BY <1>1 DEF Orderly, TypeInv, StepType, Goto
  <2>2. saved'[p] = {Workspace} /\ Workspace.active = active /\ Workspace.inst = inst
            /\ Workspace.reported = reported
    BY DEF TypeInv, LocalType, Backup, Workspace
  <2>9. QED
    BY <2>1, <2>2, <1>1 DEF UpgradeAlone, Backup, Opens, locals, database, ReportRight, Orderly
<1>5. ReportRight'
  BY <1>1 DEF Orderly, ReportRight, Backup, database
<1>6. QED
  BY <1>1, <1>2, <1>3, <1>4, <1>5, Others

LEMMA CleanMigrate ==
    ASSUME TypeInv, TypeInv', CleanInv, NEW p \in Upgraders, Migrate(p) PROVE CleanInv'
<1> SUFFICES ASSUME clean' PROVE Orderly'
  BY DEF CleanInv
<1>1. /\ p \in Invocations /\ p \notin Activators /\ p \in Upgraders
      /\ Orderly /\ clean /\ Goto(p, "migrated")
  BY InvocationAssumption DEF CleanInv, Migrate, Invocations
<1>2. \A q \in Invocations \ {p} : pc[q] = "idle"
  BY <1>1, Quiet DEF Migrate
<1>3. \A q \in Upgraders \ {p} : saved'[q] = saved[q]
  BY <1>1 DEF TypeInv, LocalType, Migrate, locals
<1>4. UpgradeAlone(p)'
  <2>1. UpgradeAlone(p) /\ pc'[p] = "migrated"
    BY <1>1 DEF Orderly, TypeInv, StepType, Goto
  <2>2. Opens(inst', {to[p]})
    <3>1. Opens(inst, {from[p]}) /\ from[p] \in Versions /\ to[p] \in Versions
            /\ from[p] # to[p]
      BY <1>1, <2>1, OlderIrreflexive DEF UpgradeAlone, Migrate, TypeInv, Targets
    <3>2. SUFFICES ASSUME NEW g \in Goals, NEW v \in Versions, inst'[g][v] = "open"
                   PROVE  v = to[p]
      BY DEF Opens
    <3>3. CASE g \in Sources(p)
      <4>1. inst'[g] = [inst[g] EXCEPT ![from[p]] = "archived", ![to[p]] = "open"]
        BY <3>3 DEF Migrate
      <4>2. QED
        BY <4>1, <3>1, <3>2 DEF Opens, TypeInv, DatabaseType, Enrolments
    <3>4. CASE g \notin Sources(p)
      <4>1. inst'[g] = inst[g]
        BY <3>4 DEF Migrate
      <4>2. QED
        BY <4>1, <3>1, <3>2, <3>4 DEF Opens, Sources, Open
    <3>5. QED
      BY <3>3, <3>4
  <2>9. QED
    BY <2>1, <2>2 DEF UpgradeAlone, Migrate, Opens, locals, database
<1>5. ReportRight'
  BY <1>1 DEF Orderly, ReportRight, Migrate, database
<1>6. QED
  BY <1>1, <1>2, <1>3, <1>4, <1>5, Others

LEMMA CleanPointUpgrade ==
    ASSUME TypeInv, TypeInv', CleanInv, NEW p \in Upgraders, PointUpgrade(p) PROVE CleanInv'
<1> SUFFICES ASSUME clean' PROVE Orderly'
  BY DEF CleanInv
<1>1. /\ p \in Invocations /\ p \notin Activators /\ p \in Upgraders
      /\ Orderly /\ clean /\ Goto(p, "pointed")
  BY InvocationAssumption DEF CleanInv, PointUpgrade, Invocations
<1>2. \A q \in Invocations \ {p} : pc[q] = "idle"
  BY <1>1, Quiet DEF PointUpgrade
<1>3. \A q \in Upgraders \ {p} : saved'[q] = saved[q]
  BY <1>1 DEF TypeInv, LocalType, PointUpgrade, locals
<1>4. UpgradeAlone(p)'
  <2>1. UpgradeAlone(p) /\ pc'[p] = "pointed"
    BY <1>1 DEF Orderly, TypeInv, StepType, Goto
  <2>9. QED
    BY <2>1 DEF UpgradeAlone, PointUpgrade, Opens, locals, database
<1>5. ReportRight'
  <2>1. from[p] \in Versions /\ to[p] \in Versions /\ Older(from[p], to[p])
    BY <1>1 DEF TypeInv, Targets, PointUpgrade
  <2>2. active = from[p] /\ active' = to[p] /\ reported' = reported
    BY <1>1 DEF Orderly, UpgradeAlone, PointUpgrade, database
  <2>3. reported \in Versions \/ reported = NoVersion
    BY DEF TypeInv, DatabaseType, Reference
  <2>4. QED
    BY <2>1, <2>2, <2>3, <1>1, OlderTransitive, NoVersionAssumption DEF Orderly, ReportRight
<1>6. QED
  BY <1>1, <1>2, <1>3, <1>4, <1>5, Others

LEMMA CleanCheckIntegrity ==
    ASSUME TypeInv, TypeInv', CleanInv, NEW p \in Upgraders, CheckIntegrity(p) PROVE CleanInv'
<1> SUFFICES ASSUME clean' PROVE Orderly'
  BY DEF CleanInv
<1>1. /\ p \in Invocations /\ p \notin Activators /\ p \in Upgraders
      /\ Orderly /\ clean /\ Goto(p, "checked")
  BY InvocationAssumption DEF CleanInv, CheckIntegrity, Invocations
<1>2. \A q \in Invocations \ {p} : pc[q] = "idle"
  BY <1>1, Quiet DEF CheckIntegrity
<1>3. \A q \in Upgraders \ {p} : saved'[q] = saved[q]
  BY <1>1 DEF TypeInv, LocalType, CheckIntegrity, locals
<1>4. UpgradeAlone(p)'
  <2>1. UpgradeAlone(p) /\ pc'[p] = "checked"
    BY <1>1 DEF Orderly, TypeInv, StepType, Goto
  <2>9. QED
    BY <2>1 DEF UpgradeAlone, CheckIntegrity, Opens, locals, database
<1>5. ReportRight'
  BY <1>1 DEF Orderly, ReportRight, CheckIntegrity, database
<1>6. QED
  BY <1>1, <1>2, <1>3, <1>4, <1>5, Others

LEMMA CleanFail ==
    ASSUME TypeInv, TypeInv', CleanInv, NEW p \in Upgraders, Fail(p) PROVE CleanInv'
<1> SUFFICES ASSUME clean' PROVE Orderly'
  BY DEF CleanInv
<1>1. /\ p \in Invocations /\ p \notin Activators /\ p \in Upgraders
      /\ Orderly /\ clean /\ Goto(p, "failed")
  BY InvocationAssumption DEF CleanInv, Fail, Invocations
<1>2. \A q \in Invocations \ {p} : pc[q] = "idle"
  BY <1>1, Quiet DEF Fail
<1>3. \A q \in Upgraders \ {p} : saved'[q] = saved[q]
  BY <1>1 DEF TypeInv, LocalType, Fail, locals
<1>4. UpgradeAlone(p)'
  <2>1. UpgradeAlone(p) /\ pc'[p] = "failed"
    BY <1>1 DEF Orderly, TypeInv, StepType, Goto
  <2>9. QED
    BY <2>1 DEF UpgradeAlone, Fail, Opens, locals, database
<1>5. ReportRight'
  <2>1. to[p] \in Versions
    BY <1>1 DEF TypeInv, Targets, Fail
  <2>2. reported' = reported \/ (pc[p] = "checked" /\ reported' = to[p])
    BY DEF Fail
  <2>3. active' = active /\ (pc[p] = "checked" => active = to[p])
    BY <1>1 DEF Fail, Orderly, UpgradeAlone
  <2>4. QED
    BY <2>1, <2>2, <2>3, <1>1, OlderIrreflexive, NoVersionAssumption DEF Orderly, ReportRight
<1>6. QED
  BY <1>1, <1>2, <1>3, <1>4, <1>5, Others

LEMMA CleanRestore ==
    ASSUME TypeInv, TypeInv', CleanInv, NEW p \in Upgraders, Restore(p) PROVE CleanInv'
<1> SUFFICES ASSUME clean' PROVE Orderly'
  BY DEF CleanInv
<1>1. /\ p \in Invocations /\ p \notin Activators /\ p \in Upgraders
      /\ Orderly /\ clean /\ Goto(p, "restored")
  BY InvocationAssumption DEF CleanInv, Restore, Invocations
<1>2. \A q \in Invocations \ {p} : pc[q] = "idle"
  BY <1>1, Quiet DEF Restore
<1>3. \A q \in Upgraders \ {p} : saved'[q] = saved[q]
  BY <1>1 DEF TypeInv, LocalType, Restore, locals
<1>4. UpgradeAlone(p)'
  <2>1. UpgradeAlone(p) /\ pc'[p] = "restored"
    BY <1>1 DEF Orderly, TypeInv, StepType, Goto
  <2>2. PICK w \in saved[p] : active' = w.active
    BY DEF Restore
  <2>3. PICK v \in saved[p] : inst' = v.inst
    BY DEF Restore, RestoreDatabase
  <2>9. QED
    BY <2>1, <2>2, <2>3 DEF UpgradeAlone, Restore, Opens, locals, database
<1>5. ReportRight'
  <2>1. PICK w \in saved[p] : active' = w.active
    BY DEF Restore
  <2>2. PICK v \in saved[p] : reported' = v.reported
    BY DEF Restore, RestoreDatabase
  <2>3. active' = from[p] /\ from[p] \in Versions
    BY <1>1, <2>1 DEF Orderly, UpgradeAlone, TypeInv, Targets, Restore
  <2>4. QED
    BY <1>1, <2>2, <2>3, NoVersionAssumption DEF Orderly, UpgradeAlone, ReportRight
<1>6. QED
  BY <1>1, <1>2, <1>3, <1>4, <1>5, Others

LEMMA CleanRestoreFails ==
    ASSUME TypeInv, TypeInv', CleanInv, NEW p \in Upgraders, RestoreFails(p) PROVE CleanInv'
<1> SUFFICES ASSUME clean' PROVE Orderly'
  BY DEF CleanInv
<1>1. /\ p \in Invocations /\ p \notin Activators /\ p \in Upgraders
      /\ Orderly /\ clean /\ Goto(p, "unrestored")
  BY InvocationAssumption DEF CleanInv, RestoreFails, Invocations
<1>2. \A q \in Invocations \ {p} : pc[q] = "idle"
  BY <1>1, Quiet DEF RestoreFails
<1>3. \A q \in Upgraders \ {p} : saved'[q] = saved[q]
  BY <1>1 DEF TypeInv, LocalType, RestoreFails, locals
<1>4. UpgradeAlone(p)'
  <2>1. UpgradeAlone(p) /\ pc'[p] = "unrestored"
    BY <1>1 DEF Orderly, TypeInv, StepType, Goto
  <2>9. QED
    BY <2>1 DEF UpgradeAlone, RestoreFails, Opens, locals, database
<1>5. ReportRight'
  BY <1>1 DEF Orderly, ReportRight, RestoreFails, database
<1>6. QED
  BY <1>1, <1>2, <1>3, <1>4, <1>5, Others

LEMMA CleanComplete ==
    ASSUME TypeInv, TypeInv', CleanInv, NEW p \in Upgraders, Complete(p) PROVE CleanInv'
<1> SUFFICES ASSUME clean' PROVE Orderly'
  BY DEF CleanInv
<1>1. /\ p \in Invocations /\ p \notin Activators /\ p \in Upgraders
      /\ Orderly /\ clean /\ Goto(p, "idle")
  BY InvocationAssumption DEF CleanInv, Complete, Invocations
<1>2. \A q \in Invocations \ {p} : pc[q] = "idle"
  BY <1>1, Quiet DEF Complete
<1>3. \A q \in Upgraders \ {p} : saved'[q] = saved[q]
  BY <1>1, SavedKept DEF TypeInv, LocalType, Complete, locals
<1>4. UpgradeAlone(p)'
  <2>1. pc'[p] = "idle" /\ saved'[p] = {}
    BY <1>1, SavedKept DEF Complete, TypeInv, StepType, Goto
  <2>2. QED
    BY <2>1 DEF UpgradeAlone
<1>5. ReportRight'
  <2>1. active = to[p] /\ to[p] \in Versions /\ active' = active /\ reported' = to[p]
    BY <1>1 DEF Orderly, UpgradeAlone, TypeInv, Targets, Complete
  <2>2. QED
    BY <2>1, OlderIrreflexive, NoVersionAssumption DEF ReportRight
<1>6. Opens(inst, {active})'
  BY <1>1 DEF Orderly, UpgradeAlone, Complete, Opens
<1>7. QED
  BY <1>1, <1>2, <1>3, <1>4, <1>5, <1>6, Others

LEMMA CleanRestoreDies ==
    ASSUME TypeInv, TypeInv', CleanInv, NEW p \in Upgraders, RestoreDies(p) PROVE CleanInv'
<1> SUFFICES ASSUME clean' PROVE Orderly'
  BY DEF CleanInv
<1>1. /\ p \in Invocations /\ p \notin Activators /\ p \in Upgraders
      /\ Orderly /\ clean /\ Goto(p, "idle")
  BY InvocationAssumption DEF CleanInv, RestoreDies, Invocations
<1>2. \A q \in Invocations \ {p} : pc[q] = "idle"
  BY <1>1, Quiet DEF RestoreDies
<1>3. \A q \in Upgraders \ {p} : saved'[q] = saved[q]
  BY <1>1, SavedKept DEF TypeInv, LocalType, RestoreDies, locals
<1>4. UpgradeAlone(p)'
  <2>1. pc'[p] = "idle" /\ saved'[p] = {}
    BY <1>1, SavedKept DEF RestoreDies, TypeInv, StepType, Goto
  <2>2. QED
    BY <2>1 DEF UpgradeAlone
<1>5. ReportRight'
  <2>1. PICK v \in saved[p] : reported' = v.reported
    BY DEF RestoreDies, RestoreDatabase
  <2>2. /\ from[p] \in Versions /\ to[p] \in Versions /\ Older(from[p], to[p])
        /\ active' = active /\ active \in {from[p], to[p]}
        /\ reported' # NoVersion => ~Older(from[p], reported')
    BY <1>1, <2>1 DEF Orderly, UpgradeAlone, TypeInv, Targets, RestoreDies
  <2>3. reported' \in Versions \/ reported' = NoVersion
    BY DEF TypeInv, DatabaseType, Reference
  <2>4. QED
    BY <2>2, <2>3, OlderTransitive, NoVersionAssumption DEF ReportRight
<1>6. Opens(inst, {active})'
  BY DEF RestoreDies, Torn, AllOpenIn, Open, Opens
<1>7. QED
  BY <1>1, <1>2, <1>3, <1>4, <1>5, <1>6, Others

LEMMA CleanRecordFailure ==
    ASSUME TypeInv, TypeInv', CleanInv, NEW p \in Upgraders, RecordFailure(p) PROVE CleanInv'
<1> SUFFICES ASSUME clean' PROVE Orderly'
  BY DEF CleanInv
<1>1. /\ p \in Invocations /\ p \notin Activators /\ p \in Upgraders
      /\ Orderly /\ clean /\ Goto(p, "idle")
  BY InvocationAssumption DEF CleanInv, RecordFailure, Invocations
<1>2. \A q \in Invocations \ {p} : pc[q] = "idle"
  BY <1>1, Quiet DEF RecordFailure
<1>3. \A q \in Upgraders \ {p} : saved'[q] = saved[q]
  BY <1>1, SavedKept DEF TypeInv, LocalType, RecordFailure, locals
<1>4. UpgradeAlone(p)'
  <2>1. pc'[p] = "idle" /\ saved'[p] = {}
    BY <1>1, SavedKept DEF RecordFailure, TypeInv, StepType, Goto
  <2>2. QED
    BY <2>1 DEF UpgradeAlone
<1>5. ReportRight'
  <2>0. active' = active
    BY DEF RecordFailure
  <2>1. \/ reported' = reported
        \/ reported' = NoVersion
        \/ pc[p] = "restored" /\ reported' = from[p]
    BY DEF RecordFailure
  <2>2. pc[p] = "restored" => active = from[p] /\ from[p] \in Versions
    BY <1>1 DEF Orderly, UpgradeAlone, TypeInv, Targets
  <2>3. QED
    BY <1>1, <2>0, <2>1, <2>2, OlderIrreflexive, NoVersionAssumption DEF Orderly, ReportRight
<1>6. Opens(inst, {active})'
  <2>1. pc[p] = "restored" \/ AllOpenIn({active})
    BY DEF RecordFailure, Torn
  <2>2. QED
    BY <1>1, <2>1 DEF Orderly, UpgradeAlone, RecordFailure, AllOpenIn, Open, Opens
<1>7. QED
  BY <1>1, <1>2, <1>3, <1>4, <1>5, <1>6, Others

LEMMA CleanBeginActivate ==
    ASSUME TypeInv, TypeInv', CleanInv, NEW p \in Activators, NEW v \in Versions, BeginActivate(p, v) PROVE CleanInv'
<1> SUFFICES ASSUME clean' PROVE Orderly'
  BY DEF CleanInv
<1>1. /\ p \in Invocations /\ p \in Activators /\ p \notin Upgraders
      /\ Orderly /\ clean /\ Goto(p, "selected")
  BY InvocationAssumption DEF CleanInv, BeginActivate, Invocations, Begins
<1>2. \A q \in Invocations \ {p} : pc[q] = "idle"
  BY <1>1 DEF BeginActivate, Begins, Overlaps
<1>3. \A q \in Upgraders \ {p} : saved'[q] = saved[q]
  BY <1>1 DEF TypeInv, LocalType, BeginActivate, locals
<1>4. ActivateAlone(p)'
  <2>1. Opens(inst, {active}) /\ to'[p] = v /\ pc'[p] = "selected"
    BY <1>1, <1>2 DEF BeginActivate, Begins, Orderly, RestRight, AtRest, Goto, TypeInv,
      StepType, TargetType
  <2>2. QED
    BY <2>1 DEF ActivateAlone, BeginActivate, Opens, database
<1>5. ReportRight'
  BY <1>1 DEF Orderly, ReportRight, BeginActivate, database
<1>6. QED
  BY <1>1, <1>2, <1>3, <1>4, <1>5, Others

LEMMA CleanPreflight ==
    ASSUME TypeInv, TypeInv', CleanInv, NEW p \in Activators, Preflight(p) PROVE CleanInv'
<1> SUFFICES ASSUME clean' PROVE Orderly'
  BY DEF CleanInv
<1>1. /\ p \in Invocations /\ p \in Activators /\ p \notin Upgraders
      /\ Orderly /\ clean /\ Goto(p, "preflighted")
  BY InvocationAssumption DEF CleanInv, Preflight, Invocations
<1>2. \A q \in Invocations \ {p} : pc[q] = "idle"
  BY <1>1, Quiet DEF Preflight
<1>3. \A q \in Upgraders \ {p} : saved'[q] = saved[q]
  BY <1>1 DEF TypeInv, LocalType, Preflight, locals
<1>4. ActivateAlone(p)'
  <2>1. ActivateAlone(p) /\ pc'[p] = "preflighted"
    BY <1>1 DEF Orderly, TypeInv, StepType, Goto
  <2>9. QED
    BY <2>1 DEF ActivateAlone, Preflight, Opens, locals, database
<1>5. ReportRight'
  BY <1>1 DEF Orderly, ReportRight, Preflight, database
<1>6. QED
  BY <1>1, <1>2, <1>3, <1>4, <1>5, Others

LEMMA CleanFindInstance ==
    ASSUME TypeInv, TypeInv', CleanInv, NEW p \in Activators, FindInstance(p) PROVE CleanInv'
<1> SUFFICES ASSUME clean' PROVE Orderly'
  BY DEF CleanInv
<1>0. PICK g \in Goals, step \in {"enrolled", "enrolling"} :
            Goto(p, step) /\ (step = "enrolled" => Open(g, to[p]))
  BY DEF FindInstance
<1>1. /\ p \in Invocations /\ p \in Activators /\ p \notin Upgraders
      /\ Orderly /\ clean /\ Goto(p, step)
  BY <1>0, InvocationAssumption DEF CleanInv, FindInstance, Invocations
<1>2. \A q \in Invocations \ {p} : pc[q] = "idle"
  BY <1>1, Quiet DEF FindInstance
<1>3. \A q \in Upgraders \ {p} : saved'[q] = saved[q]
  BY <1>1 DEF TypeInv, LocalType, FindInstance, locals
<1>4. ActivateAlone(p)'
  <2>1. ActivateAlone(p) /\ pc'[p] = step
    BY <1>1 DEF Orderly, TypeInv, StepType, Goto
  <2>2. \A v \in Versions : active = NoVersion => v # active
    BY NoVersionAssumption
  <2>3. QED
    BY <2>1, <2>2, <1>0 DEF ActivateAlone, FindInstance, Opens, database
<1>5. ReportRight'
  BY <1>1 DEF Orderly, ReportRight, FindInstance, database
<1>6. QED
  BY <1>1, <1>2, <1>3, <1>4, <1>5, Others

LEMMA CleanCreateInstance ==
    ASSUME TypeInv, TypeInv', CleanInv, NEW p \in Activators, CreateInstance(p) PROVE CleanInv'
<1> SUFFICES ASSUME clean' PROVE Orderly'
  BY DEF CleanInv
<1>1. /\ p \in Invocations /\ p \in Activators /\ p \notin Upgraders
      /\ Orderly /\ clean /\ Goto(p, "enrolled")
  BY InvocationAssumption DEF CleanInv, CreateInstance, Invocations
<1>2. \A q \in Invocations \ {p} : pc[q] = "idle"
  BY <1>1, Quiet DEF CreateInstance
<1>3. \A q \in Upgraders \ {p} : saved'[q] = saved[q]
  BY <1>1 DEF TypeInv, LocalType, CreateInstance, locals
<1>4. ActivateAlone(p)'
  <2>1. ActivateAlone(p) /\ pc'[p] = "enrolled" /\ to[p] \in Versions
    BY <1>1 DEF Orderly, TypeInv, StepType, Goto, Targets, CreateInstance
  <2>2. PICK g \in Goals : inst' = [inst EXCEPT ![g][to[p]] = "open"]
    BY DEF TypeInv, LocalType, CreateInstance
  <2>3. Opens(inst', {active, to[p]})
    BY <2>1, <2>2 DEF ActivateAlone, CreateInstance, Opens, TypeInv, DatabaseType, Enrolments
  <2>4. active \in {NoVersion, to[p]} /\ UNCHANGED <<active, to>>
    BY <2>1 DEF ActivateAlone, CreateInstance, locals
  <2>5. Opens(inst', {to[p]})
    BY <2>3, <2>4, NoVersionAssumption DEF Opens
  <2>6. QED
    BY <2>1, <2>4, <2>5 DEF ActivateAlone, Opens
<1>5. ReportRight'
  BY <1>1 DEF Orderly, ReportRight, CreateInstance, database
<1>6. QED
  BY <1>1, <1>2, <1>3, <1>4, <1>5, Others

LEMMA CleanCheckReference ==
    ASSUME TypeInv, TypeInv', CleanInv, NEW p \in Activators, CheckReference(p) PROVE CleanInv'
<1> SUFFICES ASSUME clean' PROVE Orderly'
  BY DEF CleanInv
<1>1. /\ p \in Invocations /\ p \in Activators /\ p \notin Upgraders
      /\ Orderly /\ clean /\ Goto(p, "ready")
  BY InvocationAssumption DEF CleanInv, CheckReference, Invocations
<1>2. \A q \in Invocations \ {p} : pc[q] = "idle"
  BY <1>1, Quiet DEF CheckReference
<1>3. \A q \in Upgraders \ {p} : saved'[q] = saved[q]
  BY <1>1 DEF TypeInv, LocalType, CheckReference, locals
<1>4. ActivateAlone(p)'
  <2>1. ActivateAlone(p) /\ pc'[p] = "ready"
    BY <1>1 DEF Orderly, TypeInv, StepType, Goto
  <2>9. QED
    BY <2>1 DEF ActivateAlone, CheckReference, Opens, locals, database
<1>5. ReportRight'
  BY <1>1 DEF Orderly, ReportRight, CheckReference, database
<1>6. QED
  BY <1>1, <1>2, <1>3, <1>4, <1>5, Others

LEMMA CleanWriteReference ==
    ASSUME TypeInv, TypeInv', CleanInv, NEW p \in Activators, WriteReference(p) PROVE CleanInv'
<1> SUFFICES ASSUME clean' PROVE Orderly'
  BY DEF CleanInv
<1>1. /\ p \in Invocations /\ p \in Activators /\ p \notin Upgraders
      /\ Orderly /\ clean /\ Goto(p, "idle")
  BY InvocationAssumption DEF CleanInv, WriteReference, Invocations
<1>2. \A q \in Invocations \ {p} : pc[q] = "idle"
  BY <1>1, Quiet DEF WriteReference
<1>3. \A q \in Upgraders \ {p} : saved'[q] = saved[q]
  BY <1>1, SavedKept DEF TypeInv, LocalType, WriteReference, locals
<1>4. ActivateAlone(p)'
  <2>1. ActivateAlone(p) /\ pc'[p] = "idle"
    BY <1>1 DEF Orderly, TypeInv, StepType, Goto
  <2>9. QED
    BY <2>1 DEF ActivateAlone, WriteReference, Opens, locals, database
<1>5. ReportRight'
  <2>1. active \in {NoVersion, to[p]} /\ active' = to[p] /\ to[p] \in Versions
          /\ reported' = reported
    BY <1>1 DEF Orderly, ActivateAlone, TypeInv, Targets, WriteReference, database
  <2>2. QED
    BY <1>1, <2>1, NoVersionAssumption DEF Orderly, ReportRight
<1>6. Opens(inst, {active})'
  BY <1>1 DEF Orderly, ActivateAlone, WriteReference, Opens, database
<1>7. QED
  BY <1>1, <1>2, <1>3, <1>4, <1>5, <1>6, Others

LEMMA CleanQuit ==
    ASSUME TypeInv, TypeInv', CleanInv, NEW p \in Invocations, Quit(p) PROVE CleanInv'
<1> SUFFICES ASSUME clean' PROVE Orderly'
  BY DEF CleanInv
<1>1. Orderly /\ Goto(p, "idle") /\ Forget(p) /\ pc[p] # "idle"
  BY DEF CleanInv, Quit
<1>2. UNCHANGED <<active, inst, reported>>
  BY DEF Quit, database
<1>3. \A q \in Upgraders \ {p} : saved'[q] = saved[q]
  BY <1>1, SavedKept
<1>4. p \in Upgraders => UpgradeAlone(p)'
  BY <1>1, SavedKept DEF UpgradeAlone, TypeInv, StepType, Goto
<1>5. p \in Activators => ActivateAlone(p)'
  BY <1>1 DEF ActivateAlone, TypeInv, StepType, Goto
<1>6. ReportRight'
  BY <1>1, <1>2 DEF Orderly, ReportRight
<1>7. Opens(inst, {active})
  <2>1. pc[p] \in {"planned", "backed"} => p \in Upgraders
    BY DEF TypeInv, StepType, ActivateSteps, Invocations
  <2>2. pc[p] \in {"planned", "backed"} \/ AllOpenIn({active})
    BY DEF Quit, Torn
  <2>3. QED
    BY <1>1, <2>1, <2>2 DEF Orderly, UpgradeAlone, AllOpenIn, Open, Opens
<1>8. QED
  BY <1>1, <1>2, <1>3, <1>4, <1>5, <1>6, <1>7, Quiet, Others DEF Opens

LEMMA CleanStep == TypeInv /\ CleanInv /\ [Next]_vars => CleanInv'
<1> SUFFICES ASSUME TypeInv, CleanInv, [Next]_vars PROVE CleanInv'
  OBVIOUS
<1>0. TypeInv'
  BY TypeStep
<1>1. ASSUME NEW p \in Upgraders, Upgrade(p) PROVE CleanInv'
  BY <1>0, <1>1, CleanBeginUpgrade, CleanBackup, CleanMigrate, CleanPointUpgrade,
    CleanCheckIntegrity, CleanComplete, CleanFail, CleanRestore, CleanRestoreFails,
    CleanRestoreDies, CleanRecordFailure DEF Upgrade
<1>2. ASSUME NEW p \in Activators, Activate(p) PROVE CleanInv'
  BY <1>0, <1>2, CleanBeginActivate, CleanPreflight, CleanFindInstance, CleanCreateInstance,
    CleanCheckReference, CleanWriteReference DEF Activate
<1>3. CASE UNCHANGED vars
  BY <1>3 DEF vars, CleanInv, Orderly, OneAtATime, ReportRight, RestRight, AtRest,
    UpgradeAlone, ActivateAlone, Opens
<1>4. QED
  BY <1>0, <1>1, <1>2, <1>3, CleanStudent, CleanQuit DEF Next

LEMMA CleanHolds == Spec => []CleanInv
  BY Types, CleanInit, CleanStep, PTL DEF Spec

\* The reference and the learner agree at rest, for any packs, goals and
\* failures, as long as no two pack commands overlapped and none ended torn
\* (PackUpgradeExecutorV1.Upgrade, recover; PackActivationCoordinatorV1).
THEOREM LearnerFollowsReference == Spec => []ReferenceFollows
<1>1. CleanInv => ReferenceFollows
  BY DEF CleanInv, Orderly, RestRight, ReferenceFollows, AllOpenIn, Open, Opens
<1>2. QED
  BY <1>1, CleanHolds, PTL

\* Under the same condition the audit trail claims no version newer than the
\* active one (PackUpgradeExecutorV1.recordAudit).
THEOREM TrailIsTrue == Spec => []ReportIsTrue
<1>1. CleanInv => ReportIsTrue
  BY DEF CleanInv, Orderly, ReportRight, ReportIsTrue
<1>2. QED
  BY <1>1, CleanHolds, PTL

-----------------------------------------------------------------------------
(* A repeated upgrade. *)

\* Where an upgrade that began with every open instance at one of its two
\* versions, and that nothing has interfered with, stands.
Repairing(p) ==
    /\ \A q \in Invocations \ {p} : pc[q] = "idle"
    /\ pc[p] \in {"planned", "backed"} => Opens(inst, {from[p], to[p]})
    /\ pc[p] = "migrated" => Opens(inst, {to[p]})
    /\ pc[p] \in {"pointed", "checked"} => active = to[p] /\ Opens(inst, {to[p]})
NearInv == \A p \in Upgraders : near[p] => Repairing(p)

LEMMA NearInit == Init => NearInv
  BY DEF Init, NearInv

\* A step of another invocation than the one that is repairing ends the repair.
LEMMA NearOthers ==
    ASSUME TypeInv, NearInv, NEW p \in Invocations, pc[p] # "idle",
           \A q \in Upgraders : near'[q] => near[q], near'[p] => Repairing(p)'
    PROVE  NearInv'
  BY DEF NearInv, Repairing

LEMMA NearStudent == TypeInv /\ NearInv /\ (Store \/ Student) => NearInv'
<1> SUFFICES ASSUME TypeInv, NearInv, Store \/ Student PROVE NearInv'
  OBVIOUS
<1>1. UNCHANGED <<active, inst, pc, from, to, near>>
  BY DEF Store, Student, Install, SetGoal, PauseGoal, ResumeGoal, Learn, database, locals
<1>2. QED
  BY <1>1 DEF NearInv, Repairing, Opens

LEMMA NearBeginUpgrade ==
    ASSUME TypeInv, NearInv, NEW p \in Upgraders, NEW w \in Versions, BeginUpgrade(p, w)
    PROVE  NearInv'
<1>1. near' = [q \in Upgraders |-> q = p /\ ~Overlaps(p) /\ AllOpenIn({active, w})]
  BY DEF BeginUpgrade
<1>2. SUFFICES ASSUME NEW q \in Upgraders, near'[q] PROVE Repairing(q)'
  BY DEF NearInv
<1>3. q = p /\ ~Overlaps(p) /\ AllOpenIn({active, w})
  BY <1>1, <1>2
<1>4. /\ pc' = [pc EXCEPT ![p] = "planned"] /\ from'[p] = active /\ to'[p] = w
      /\ inst' = inst /\ p \in Invocations
  BY DEF BeginUpgrade, Goto, TypeInv, TargetType, database, Invocations
<1>5. QED
  BY <1>3, <1>4 DEF Repairing, Overlaps, Opens, AllOpenIn, Open, TypeInv, StepType

LEMMA NearMigrate ==
    ASSUME TypeInv, NEW p \in Upgraders, Migrate(p), Repairing(p) PROVE Repairing(p)'
<1>1. /\ p \in Invocations /\ from[p] \in Versions /\ to[p] \in Versions /\ from[p] # to[p]
      /\ Opens(inst, {from[p], to[p]}) /\ pc' = [pc EXCEPT ![p] = "migrated"]
      /\ UNCHANGED <<from, to>>
  BY OlderIrreflexive DEF TypeInv, Targets, Migrate, Repairing, Invocations, Goto, locals
<1>2. Opens(inst', {to[p]})
  <2>1. SUFFICES ASSUME NEW g \in Goals, NEW v \in Versions, inst'[g][v] = "open"
                 PROVE  v = to[p]
    BY DEF Opens
  <2>2. CASE g \in Sources(p)
    <3>1. inst'[g] = [inst[g] EXCEPT ![from[p]] = "archived", ![to[p]] = "open"]
      BY <2>2 DEF Migrate
    <3>2. QED
      BY <3>1, <1>1, <2>1 DEF Opens, TypeInv, DatabaseType, Enrolments
  <2>3. CASE g \notin Sources(p)
    <3>1. inst'[g] = inst[g]
      BY <2>3 DEF Migrate
    <3>2. QED
      BY <3>1, <1>1, <2>1, <2>3 DEF Opens, Sources, Open
  <2>4. QED
    BY <2>2, <2>3
<1>3. QED
  BY <1>1, <1>2 DEF Repairing, Opens, TypeInv, StepType

\* A step of the upgrade that is repairing.
LEMMA NearSelf ==
    ASSUME TypeInv, NEW p \in Upgraders, Repairing(p), near'[p],
           \/ Backup(p) \/ Migrate(p) \/ PointUpgrade(p) \/ CheckIntegrity(p) \/ Fail(p)
           \/ Restore(p) \/ RestoreFails(p)
    PROVE  Repairing(p)'
<1>1. p \in Invocations
  BY DEF Invocations
<1>2. CASE Backup(p)
  BY <1>1, <1>2 DEF Backup, Repairing, TypeInv, StepType, Goto, Opens, database
<1>3. CASE Migrate(p)
  BY <1>3, NearMigrate
<1>4. CASE PointUpgrade(p)
  BY <1>1, <1>4 DEF PointUpgrade, Repairing, TypeInv, StepType, Goto, Opens, database, locals
<1>5. CASE CheckIntegrity(p)
  BY <1>1, <1>5 DEF CheckIntegrity, Repairing, TypeInv, StepType, Goto, Opens, database,
    locals
<1>6. CASE Fail(p)
  BY <1>1, <1>6 DEF Fail, Repairing, TypeInv, StepType, Goto
<1>7. CASE Restore(p)
  BY <1>1, <1>7 DEF Restore, Repairing, TypeInv, StepType, Goto
<1>8. CASE RestoreFails(p)
  BY <1>1, <1>8 DEF RestoreFails, Repairing, TypeInv, StepType, Goto
<1>9. QED
  BY <1>2, <1>3, <1>4, <1>5, <1>6, <1>7, <1>8

LEMMA NearForget ==
    ASSUME TypeInv, NearInv, NEW p \in Invocations, pc[p] # "idle", Forget(p)
    PROVE  NearInv'
<1>1. \A q \in Upgraders : near'[q] => near[q] /\ q # p
  BY DEF Forget
<1>2. QED
  BY <1>1, NearOthers DEF NearInv, Repairing

LEMMA NearUpgrade ==
    ASSUME TypeInv, NearInv, NEW p \in Upgraders, Upgrade(p) PROVE NearInv'
<1>1. p \in Invocations
  BY DEF Invocations
<1>2. CASE \E w \in Versions : BeginUpgrade(p, w)
  BY <1>2, NearBeginUpgrade
<1>3. CASE \/ Backup(p) \/ Migrate(p) \/ PointUpgrade(p) \/ CheckIntegrity(p) \/ Fail(p)
           \/ Restore(p) \/ RestoreFails(p)
  <2>1. pc[p] # "idle" /\ near' = near
    BY <1>3 DEF Backup, Migrate, PointUpgrade, CheckIntegrity, Fail, Restore, RestoreFails
  <2>2. near'[p] => Repairing(p)'
    BY <2>1, <1>3, NearSelf DEF NearInv
  <2>3. QED
    BY <1>1, <2>1, <2>2, NearOthers
<1>4. CASE Complete(p) \/ RestoreDies(p) \/ RecordFailure(p)
  <2>1. pc[p] # "idle" /\ Forget(p)
    BY <1>4 DEF Complete, RestoreDies, RecordFailure
  <2>2. QED
    BY <1>1, <2>1, NearForget
<1>5. QED
  BY <1>2, <1>3, <1>4 DEF Upgrade

LEMMA NearActivate ==
    ASSUME TypeInv, NearInv, NEW p \in Activators, Activate(p) PROVE NearInv'
<1>1. p \in Invocations /\ p \notin Upgraders
  BY InvocationAssumption DEF Invocations
<1>2. CASE \E v \in Versions : BeginActivate(p, v)
  BY <1>2 DEF BeginActivate, NearInv
<1>3. CASE \/ Preflight(p) \/ FindInstance(p) \/ CreateInstance(p) \/ CheckReference(p)
  <2>1. pc[p] # "idle" /\ near' = near
    BY <1>3 DEF Preflight, FindInstance, CreateInstance, CheckReference
  <2>2. \A q \in Upgraders : ~near[q]
    BY <2>1, <1>1 DEF NearInv, Repairing
  <2>3. QED
    BY <2>1, <2>2 DEF NearInv
<1>4. CASE WriteReference(p)
  BY <1>1, <1>4, NearForget DEF WriteReference
<1>5. QED
  BY <1>2, <1>3, <1>4 DEF Activate

LEMMA NearStep == TypeInv /\ NearInv /\ [Next]_vars => NearInv'
<1> SUFFICES ASSUME TypeInv, NearInv, [Next]_vars PROVE NearInv'
  OBVIOUS
<1>1. ASSUME NEW p \in Invocations, Quit(p) PROVE NearInv'
  BY <1>1, NearForget DEF Quit
<1>2. CASE UNCHANGED vars
  BY <1>2 DEF vars, NearInv, Repairing, Opens
<1>3. QED
  BY <1>1, <1>2, NearStudent, NearUpgrade, NearActivate DEF Next

\* Repeating an upgrade repairs what one that died has left, for any packs and
\* any number of goals (curriculumInstanceService.Migrate takes every source).
THEOREM RepeatRepairs == Spec => RepeatedUpgradeCompletes
<1>1. TypeInv /\ NearInv => \A p \in Upgraders : Complete(p) /\ near[p] => AllOpenIn({active})
  BY DEF NearInv, Repairing, Complete, AllOpenIn, Open, Opens
<1>2. QED
  BY <1>1, Types, NearInit, NearStep, PTL DEF Spec, RepeatedUpgradeCompletes

-----------------------------------------------------------------------------
(* Progress.  An upgrade and an activation may run side by side here, but   *)
(* not two upgrades or two activations.                                    *)

SingleUpgrade == \A p, q \in Upgraders : p = q
SingleActivation == \A p, q \in Activators : p = q

\* The progress of an instance at v that w has to know.
Carries(row, v, w) ==
    {c \in row[v] : \A u \in Through(v, w) : c \in Contents[u]} \subseteq row[w]
HasOpen(states) == \E v \in Versions : states[v] = "open"

\* The instances of one goal: one is open as soon as one is archived, it is
\* newer than those, and knows what they knew.
Lineage(states, row) ==
    /\ \A v, w \in Versions : states[v] = "open" /\ states[w] = "open" => v = w
    /\ \A v \in Versions : states[v] = "archived" => HasOpen(states)
    /\ \A v, w \in Versions : states[v] = "archived" /\ states[w] = "open" =>
         Older(v, w) /\ Carries(row, v, w)

\* A backup is a lineage too, and of goals that still have an open instance.
Backed(w) == \A g \in Goals :
    Lineage(w.inst[g], w.known[g]) /\ (HasOpen(w.inst[g]) => HasOpen(inst[g]))

CarryInv ==
    /\ \A g \in Goals : Lineage(inst[g], known[g])
    /\ \A p \in Upgraders :
        /\ \A w \in saved[p] : Backed(w)
        /\ \A v, w \in saved[p] : v = w
    /\ \A p \in Activators : pc[p] = "enrolling" => \A g \in learner[p] : ~HasOpen(inst[g])

LEMMA CarryInit == Init => CarryInv
  BY DEF Init, CarryInv, Lineage, HasOpen, Invocations

\* A step that changes no instance and no backup.
LEMMA CarryKept ==
    ASSUME CarryInv, UNCHANGED <<inst, known>>,
           \A p \in Upgraders : saved'[p] \subseteq saved[p],
           \A p \in Activators : pc'[p] = "enrolling" =>
            \A g \in learner'[p] : ~HasOpen(inst[g])
    PROVE  CarryInv'
<1>1. \A w : Backed(w)' <=> Backed(w)
  BY DEF Backed
<1>2. QED
  BY <1>1 DEF CarryInv

\* Recording progress on a concept of the open instance.
LEMMA LineageGrows ==
    ASSUME NEW states \in [Versions -> {"none", "open", "archived"}],
           NEW row \in [Versions -> SUBSET Concepts], NEW v \in Versions, NEW c \in Concepts,
           Lineage(states, row), states[v] = "open"
    PROVE  Lineage(states, [row EXCEPT ![v] = @ \union {c}])
<1> DEFINE more == [row EXCEPT ![v] = @ \union {c}]
<1>1. \A u \in Versions : row[u] \subseteq more[u] /\ (u # v => more[u] = row[u])
  OBVIOUS
<1>2. ASSUME NEW u \in Versions, NEW w \in Versions, states[u] = "archived", states[w] = "open"
      PROVE  Older(u, w) /\ Carries(more, u, w)
  BY <1>1, <1>2 DEF Lineage, Carries
<1> HIDE DEF more
<1>3. Lineage(states, more)
  BY <1>2 DEF Lineage
<1>4. QED
  BY <1>3 DEF more

\* A migration makes a new end of the lineage.
LEMMA LineageMoves ==
    ASSUME NEW states \in [Versions -> {"none", "open", "archived"}],
           NEW row \in [Versions -> SUBSET Concepts],
           NEW v \in Versions, NEW w \in Versions, Older(v, w),
           Lineage(states, row), states[v] = "open", states[w] = "none"
    PROVE  Lineage([states EXCEPT ![v] = "archived", ![w] = "open"],
                   [row EXCEPT ![w] = row[v] \intersect Contents[w]])
<1> DEFINE next == [states EXCEPT ![v] = "archived", ![w] = "open"]
           after == [row EXCEPT ![w] = row[v] \intersect Contents[w]]
<1>1. v # w
  BY OlderIrreflexive
<1>2. /\ next[v] = "archived" /\ next[w] = "open"
      /\ \A u \in Versions : u # v /\ u # w => next[u] = states[u]
  BY <1>1
<1>3. /\ after[w] = row[v] \intersect Contents[w]
      /\ \A u \in Versions : u # w => after[u] = row[u]
  OBVIOUS
<1> HIDE DEF next, after
<1>4. \A u \in Versions : next[u] = "open" => u = w
  BY <1>2 DEF Lineage
<1>5. ASSUME NEW u \in Versions, next[u] = "archived"
      PROVE  Older(u, w) /\ Carries(after, u, w)
  <2>1. u # w
    BY <1>2, <1>5
  <2>2. u = v \/ (Older(u, v) /\ Carries(row, u, v))
    BY <1>2, <1>5, <2>1 DEF Lineage
  <2>3. Older(u, w)
    BY <2>2, OlderTransitive
  <2>4. w \in Through(u, w)
    BY <2>3 DEF Through
  <2>5. Through(u, v) \subseteq Through(u, w)
    BY OlderTransitive DEF Through
  <2>6. CASE u = v
    BY <1>3, <2>1, <2>3, <2>4, <2>6 DEF Carries
  <2>7. CASE Older(u, v) /\ Carries(row, u, v)
    BY <1>3, <2>1, <2>3, <2>4, <2>5, <2>7 DEF Carries
  <2>8. QED
    BY <2>2, <2>6, <2>7
<1>6. Lineage(next, after)
  BY <1>2, <1>4, <1>5 DEF Lineage, HasOpen
<1>7. QED
  BY <1>6 DEF next, after

LEMMA CarryMigrate ==
    ASSUME TypeInv, CarryInv, NEW p \in Upgraders, Migrate(p) PROVE CarryInv'
<1>1. /\ from[p] \in Versions /\ to[p] \in Versions /\ Older(from[p], to[p])
      /\ pc' = [pc EXCEPT ![p] = "migrated"] /\ p \in Invocations
      /\ UNCHANGED <<saved, learner>>
  BY DEF TypeInv, Targets, Migrate, Goto, Invocations, locals
<1>2. ASSUME NEW g \in Goals
      PROVE  Lineage(inst'[g], known'[g]) /\ (HasOpen(inst'[g]) <=> HasOpen(inst[g]))
  <2>1. /\ inst[g] \in [Versions -> {"none", "open", "archived"}]
        /\ known[g] \in [Versions -> SUBSET Concepts] /\ Lineage(inst[g], known[g])
    BY DEF TypeInv, DatabaseType, Enrolments, Records, CarryInv
  <2>2. CASE g \in Sources(p)
    <3>1. /\ inst'[g] = [inst[g] EXCEPT ![from[p]] = "archived", ![to[p]] = "open"]
          /\ known'[g] = [known[g] EXCEPT ![to[p]] = known[g][from[p]] \intersect Contents[to[p]]]
      BY <2>2 DEF Migrate, Preserved
    <3>2. inst[g][from[p]] = "open" /\ inst[g][to[p]] = "none"
      BY <2>2 DEF Migrate, Sources, Open
    <3>3. Lineage(inst'[g], known'[g])
      BY <1>1, <2>1, <3>1, <3>2, LineageMoves
    <3>4. HasOpen(inst[g]) /\ HasOpen(inst'[g])
      BY <1>1, <2>1, <3>1, <3>2 DEF HasOpen
    <3>5. QED
      BY <3>3, <3>4
  <2>3. CASE g \notin Sources(p)
    <3>1. inst'[g] = inst[g] /\ known'[g] = known[g]
      BY <2>3 DEF Migrate
    <3>2. QED
      BY <2>1, <3>1
  <2>4. QED
    BY <2>2, <2>3
<1>3. ASSUME NEW q \in Upgraders
      PROVE  /\ \A w \in saved'[q] : Backed(w)'
             /\ \A v, w \in saved'[q] : v = w
  BY <1>1, <1>2 DEF CarryInv, Backed, TypeInv, StepType
<1>4. ASSUME NEW q \in Activators, pc'[q] = "enrolling", NEW g \in learner'[q]
      PROVE  ~HasOpen(inst'[g])
  BY <1>1, <1>2, <1>4 DEF CarryInv, TypeInv, StepType, LocalType
<1>5. QED
  BY <1>2, <1>3, <1>4 DEF CarryInv

LEMMA CarryLearn ==
    ASSUME TypeInv, CarryInv, NEW g \in Goals, NEW v \in Versions, NEW c \in Concepts,
           Learn(g, v, c)
    PROVE  CarryInv'
<1>1. UNCHANGED <<inst, pc, saved, learner>> /\ inst[g][v] = "open"
  BY DEF Learn, Open, locals
<1>2. ASSUME NEW h \in Goals PROVE Lineage(inst[h], known'[h])
  <2>1. /\ inst[h] \in [Versions -> {"none", "open", "archived"}]
        /\ known[h] \in [Versions -> SUBSET Concepts] /\ Lineage(inst[h], known[h])
    BY DEF TypeInv, DatabaseType, Enrolments, Records, CarryInv
  <2>2. known'[h] = IF h = g THEN [known[h] EXCEPT ![v] = @ \union {c}] ELSE known[h]
    BY DEF Learn, TypeInv, DatabaseType, Records
  <2>3. QED
    BY <1>1, <2>1, <2>2, LineageGrows
<1>3. \A w : Backed(w)' <=> Backed(w)
  BY <1>1 DEF Backed
<1>4. QED
  BY <1>1, <1>2, <1>3 DEF CarryInv

\* A backup is the workspace as it is.
LEMMA CarryBackup ==
    ASSUME TypeInv, CarryInv, NEW p \in Upgraders, Backup(p) PROVE CarryInv'
<1>1. /\ UNCHANGED <<inst, known, learner>> /\ p \in Invocations /\ p \notin Activators
      /\ pc' = [pc EXCEPT ![p] = "backed"] /\ saved' = [saved EXCEPT ![p] = {Workspace}]
  BY InvocationAssumption DEF Backup, Goto, Invocations, database
<1>2. Workspace.inst = inst /\ Workspace.known = known
  BY DEF Workspace
<1>3. Backed(Workspace) /\ \A w : Backed(w)' <=> Backed(w)
  BY <1>1, <1>2 DEF CarryInv, Backed
<1> DEFINE now == Workspace
<1>4. \A q \in Upgraders : saved'[q] = IF q = p THEN {now} ELSE saved[q]
  BY <1>1 DEF TypeInv, LocalType
<1>5. /\ pc'[p] = "backed" /\ \A q \in Invocations \ {p} : pc'[q] = pc[q]
  BY <1>1 DEF TypeInv, StepType
<1> HIDE DEF now
<1>6. Backed(now)
  BY <1>3 DEF now
<1>7. QED
  BY <1>1, <1>3, <1>4, <1>5, <1>6 DEF CarryInv, Invocations

\* What a recovery brings back.
LEMMA CarryRestored ==
    ASSUME SingleUpgrade, TypeInv, CarryInv, NEW p \in Upgraders, RestoreDatabase(p),
           saved'[p] \subseteq saved[p],
           \A q \in Activators : pc'[q] = pc[q] /\ learner'[q] = learner[q]
    PROVE  CarryInv'
<1>1. PICK w \in saved[p] : inst' = w.inst /\ known' = w.known
  BY DEF RestoreDatabase
<1>2. \A q \in Upgraders : q = p
  BY DEF SingleUpgrade
<1>3. \A g \in Goals : /\ Lineage(inst'[g], known'[g])
                       /\ HasOpen(inst'[g]) => HasOpen(inst[g])
  BY <1>1 DEF CarryInv, Backed
<1>4. \A v \in saved'[p] : v = w
  BY DEF CarryInv
<1>5. \A v \in saved'[p] : Backed(v)'
  BY <1>1, <1>3, <1>4 DEF Backed
<1>6. ASSUME NEW q \in Activators, pc'[q] = "enrolling", NEW g \in learner'[q]
      PROVE  ~HasOpen(inst'[g])
  BY <1>3, <1>6 DEF CarryInv, TypeInv, LocalType
<1>7. QED
  BY <1>2, <1>3, <1>4, <1>5, <1>6 DEF CarryInv

\* The activation that creates an instance has found none for the goal.
LEMMA CarryCreate ==
    ASSUME SingleActivation, TypeInv, CarryInv, NEW p \in Activators, CreateInstance(p)
    PROVE  CarryInv'
<1>1. /\ UNCHANGED <<known, learner, saved>> /\ p \in Invocations
      /\ pc[p] = "enrolling" /\ pc' = [pc EXCEPT ![p] = "enrolled"] /\ to[p] \in Versions
  BY DEF CreateInstance, Goto, Invocations, locals, TypeInv, Targets
<1>2. PICK g \in learner[p] : inst' = [inst EXCEPT ![g][to[p]] = "open"]
  BY DEF CreateInstance
<1>3. g \in Goals /\ ~HasOpen(inst[g])
  BY <1>1 DEF CarryInv, TypeInv, LocalType
<1>4. \A h \in Goals : inst'[h] = IF h = g THEN [inst[g] EXCEPT ![to[p]] = "open"] ELSE inst[h]
  BY <1>2 DEF TypeInv, DatabaseType, Enrolments
<1>5. \A v \in Versions : inst'[g][v] = IF v = to[p] THEN "open" ELSE inst[g][v]
  BY <1>3, <1>4 DEF TypeInv, DatabaseType, Enrolments
<1>6. Lineage(inst'[g], known'[g]) /\ HasOpen(inst'[g])
  <2>1. \A v \in Versions : inst'[g][v] # "archived" /\ (inst'[g][v] = "open" => v = to[p])
    BY <1>3, <1>5 DEF CarryInv, Lineage, HasOpen
  <2>2. HasOpen(inst'[g])
    BY <1>1, <1>5 DEF HasOpen
  <2>3. QED
    BY <2>1, <2>2 DEF Lineage
<1>7. \A h \in Goals : Lineage(inst'[h], known'[h]) /\ (HasOpen(inst[h]) => HasOpen(inst'[h]))
  BY <1>1, <1>4, <1>6 DEF CarryInv
<1>8. \A q \in Upgraders : \A w \in saved'[q] : Backed(w)'
  BY <1>1, <1>7 DEF CarryInv, Backed
<1>9. \A q \in Activators : pc'[q] # "enrolling"
  BY <1>1 DEF SingleActivation, TypeInv, StepType
<1>10. QED
  BY <1>1, <1>7, <1>8, <1>9 DEF CarryInv

LEMMA CarryFind ==
    ASSUME TypeInv, CarryInv, NEW p \in Activators, FindInstance(p) PROVE CarryInv'
<1>1. UNCHANGED <<inst, known, saved>> /\ p \in Invocations /\ p \notin Upgraders
  BY InvocationAssumption DEF FindInstance, Invocations, database
<1>2. PICK g \in Goals : /\ Eligible(g, to[p])
                         /\ learner' = [learner EXCEPT ![p] = {g}]
                         /\ Goto(p, IF Open(g, to[p]) THEN "enrolled" ELSE "enrolling")
  BY DEF FindInstance
<1>3. \A q \in Activators \ {p} : learner'[q] = learner[q] /\ pc'[q] = pc[q]
  BY <1>1, <1>2 DEF TypeInv, LocalType, StepType, Goto
<1>4. learner'[p] = {g} /\ (pc'[p] = "enrolling" => ~Open(g, to[p]))
  BY <1>1, <1>2 DEF TypeInv, LocalType, StepType, Goto
<1>5. pc'[p] = "enrolling" => ~HasOpen(inst[g])
  BY <1>2, <1>4 DEF HasOpen, Eligible, Open
<1>6. \A q \in Activators : pc'[q] = "enrolling" => \A h \in learner'[q] : ~HasOpen(inst[h])
  BY <1>3, <1>4, <1>5 DEF CarryInv
<1>7. QED
  BY <1>1, <1>6, CarryKept

\* An invocation that only moves on, or is over.
LEMMA CarryMoves ==
    ASSUME TypeInv, CarryInv, UNCHANGED <<inst, known>>, NEW p \in Invocations, NEW step,
           Goto(p, step), step # "enrolling", UNCHANGED <<learner, saved>> \/ Forget(p)
    PROVE  CarryInv'
<1>1. \A q \in Upgraders : saved'[q] \subseteq saved[q]
  BY DEF Forget
<1>2. \A q \in Activators : learner'[q] \subseteq learner[q]
  BY DEF Forget
<1>3. \A q \in Invocations : pc'[q] = "enrolling" => pc[q] = "enrolling"
  BY DEF Goto, TypeInv, StepType
<1>4. QED
  BY <1>1, <1>2, <1>3, CarryKept DEF CarryInv, Invocations

LEMMA CarryUpgrade ==
    ASSUME SingleUpgrade, TypeInv, CarryInv, NEW p \in Upgraders, Upgrade(p) PROVE CarryInv'
<1>1. p \in Invocations /\ p \notin Activators
  BY InvocationAssumption DEF Invocations
<1>2. ASSUME NEW w \in Versions, BeginUpgrade(p, w) PROVE CarryInv'
  BY <1>1, <1>2, CarryMoves DEF BeginUpgrade, database
<1>3. CASE Restore(p) \/ RestoreDies(p)
  <2>1. RestoreDatabase(p) /\ (Goto(p, "restored") \/ Goto(p, "idle"))
        /\ (UNCHANGED <<learner, saved>> \/ Forget(p))
    BY <1>3 DEF Restore, RestoreDies, locals
  <2>2. saved'[p] \subseteq saved[p]
    BY <2>1 DEF Forget
  <2>3. \A q \in Activators : pc'[q] = pc[q] /\ learner'[q] = learner[q]
    BY <1>1, <2>1 DEF Forget, Goto, TypeInv, StepType, Invocations
  <2>4. QED
    BY <2>1, <2>2, <2>3, CarryRestored
<1>4. CASE PointUpgrade(p)
  BY <1>1, <1>4, CarryMoves DEF PointUpgrade, database, locals
<1>5. CASE CheckIntegrity(p)
  BY <1>1, <1>5, CarryMoves DEF CheckIntegrity, database, locals
<1>6. CASE Fail(p)
  BY <1>1, <1>6, CarryMoves DEF Fail, locals
<1>7. CASE RestoreFails(p)
  BY <1>1, <1>7, CarryMoves DEF RestoreFails, database, locals
<1>8. CASE Complete(p)
  BY <1>1, <1>8, CarryMoves DEF Complete
<1>9. CASE RecordFailure(p)
  BY <1>1, <1>9, CarryMoves DEF RecordFailure
<1>10. QED
  BY <1>2, <1>3, <1>4, <1>5, <1>6, <1>7, <1>8, <1>9, CarryBackup, CarryMigrate DEF Upgrade

LEMMA CarryActivate ==
    ASSUME SingleActivation, TypeInv, CarryInv, NEW p \in Activators, Activate(p) PROVE CarryInv'
<1>1. p \in Invocations
  BY DEF Invocations
<1>2. ASSUME NEW v \in Versions, BeginActivate(p, v) PROVE CarryInv'
  BY <1>1, <1>2, CarryMoves DEF BeginActivate, database
<1>3. CASE Preflight(p)
  BY <1>1, <1>3, CarryMoves DEF Preflight, database, locals
<1>4. CASE CheckReference(p)
  BY <1>1, <1>4, CarryMoves DEF CheckReference, database, locals
<1>5. CASE WriteReference(p)
  BY <1>1, <1>5, CarryMoves DEF WriteReference, database
<1>6. QED
  BY <1>2, <1>3, <1>4, <1>5, CarryFind, CarryCreate DEF Activate

LEMMA CarryStep ==
    ASSUME SingleUpgrade, SingleActivation, TypeInv, CarryInv, [Next]_vars PROVE CarryInv'
<1>1. CASE Store
  BY <1>1, CarryKept DEF Store, Install, database, locals, CarryInv
<1>2. ASSUME NEW g \in Goals, SetGoal(g) \/ PauseGoal(g) \/ ResumeGoal(g) PROVE CarryInv'
  BY <1>2, CarryKept DEF SetGoal, PauseGoal, ResumeGoal, locals, CarryInv
<1>3. CASE Student
  BY <1>2, <1>3, CarryLearn DEF Student
<1>4. ASSUME NEW p \in Invocations, Quit(p) PROVE CarryInv'
  BY <1>4, CarryMoves DEF Quit, database
<1>5. CASE UNCHANGED vars
  BY <1>5, CarryKept DEF vars, CarryInv
<1>6. QED
  BY <1>1, <1>3, <1>4, <1>5, CarryUpgrade, CarryActivate DEF Next

\* A learner keeps the progress of every archived instance, over any number
\* of upgrades, failures, recoveries and other commands, when no two upgrades
\* and no two activations run side by side (curriculumInstanceService.Migrate).
THEOREM ProgressSurvives ==
    ASSUME SingleUpgrade, SingleActivation PROVE Spec => []ProgressCarried
<1>1. CarryInv => ProgressCarried
  BY DEF CarryInv, Lineage, Carries, ProgressCarried, Open
<1>2. CarryInv /\ TypeInv /\ [Next]_vars => CarryInv'
  BY CarryStep
<1>3. QED
  BY <1>1, <1>2, Types, CarryInit, PTL DEF Spec

-----------------------------------------------------------------------------
(* The resolver.  It is defined by a recursive function on the states of   *)
(* its search; each state it goes on to has less left to choose and expand.*)

\* A nonempty set has a member of least weight.
LEMMA Lightest ==
    ASSUME NEW S, S # {}, NEW w \in [S -> Nat]
    PROVE  \E x \in S : \A y \in S : w[x] <= w[y]
<1> DEFINE W == {w[x] : x \in S}
<1>1. W \subseteq Nat /\ W # {}
  OBVIOUS
<1> DEFINE Upto(n) == {m \in W : m <= n}
           D == {Upto(n) : n \in W}
<1>2. D # {} /\ D \subseteq FiniteSubsetsOf(W)
  <2>1. SUFFICES ASSUME NEW n \in W PROVE Upto(n) \in FiniteSubsetsOf(W)
    BY <1>1
  <2>2. Upto(n) \in SUBSET Nat /\ n \in Nat /\ \A m \in Upto(n) : m <= n
    BY <1>1
  <2>3. IsFiniteSet(Upto(n))
    <3> HIDE DEF Upto
    <3>1. QED
      BY <2>2, FS_BoundedSetOfNaturals
  <2>4. QED
    BY <2>3, Zenon DEF FiniteSubsetsOf
<1>3. PICK T \in D : \A U \in D : <<U, T>> \notin StrictSubsetOrdering(W)
  <2> HIDE DEF D, W
  <2>1. QED
    BY <1>2, FS_StrictSubsetOrderingWellFounded, WFMin, Zenon
<1>4. PICK n \in W : T = Upto(n)
  BY <1>3
<1>5. ASSUME NEW m \in W, m < n PROVE FALSE
  <2>1. m \in Nat /\ n \in Nat
    BY <1>1
  <2>2. Upto(m) \subseteq T /\ n \in T /\ n \notin Upto(m)
    BY <1>1, <1>4, <1>5, <2>1
  <2>3. <<Upto(m), T>> \in StrictSubsetOrdering(W)
    <3>1. T \subseteq W /\ Upto(m) \subseteq W
      BY <1>4
    <3> HIDE DEF Upto, W
    <3>2. QED
      BY <2>2, <3>1, SMT DEF StrictSubsetOrdering
  <2>4. QED
    BY <1>3, <2>3
<1>6. \A m \in W : n <= m
  <2> HIDE DEF W
  <2>1. QED
    BY <1>1, <1>5, SMT
<1>7. PICK x \in S : w[x] = n
  BY <1>4
<1>8. QED
  BY <1>6, <1>7

LEMMA LeastOf ==
    ASSUME NEW ids \in SUBSET Nat, ids # {}
    PROVE  Least(ids) \in ids
<1> DEFINE w == [i \in ids |-> i]
<1>1. w \in [ids -> Nat]
  OBVIOUS
<1>2. \E i \in ids : \A j \in ids : w[i] <= w[j]
  <2> HIDE DEF w
  <2>1. QED
    BY <1>1, Lightest
<1>3. QED
  BY <1>2 DEF Least

\* The order of versions has no cycle, so finitely many have a newest.
LEMMA HighestOf ==
    ASSUME NEW manifests, WellFormed(manifests), manifests # {}
    PROVE  Highest(manifests) \in manifests
<1> DEFINE Tops(T) == {m \in T : \A n \in T : ~Older(m.version, n.version)}
           Lacking == {T \in FiniteSubsetsOf(manifests) : T # {} /\ Tops(T) = {}}
<1>1. Tops(manifests) # {}
  <2>1. SUFFICES ASSUME Tops(manifests) = {} PROVE FALSE
    OBVIOUS
  <2>2. Lacking # {} /\ Lacking \subseteq FiniteSubsetsOf(manifests)
    <3>1. manifests \in FiniteSubsetsOf(manifests)
      BY DEF WellFormed, FiniteSubsetsOf
    <3>2. QED
      BY <2>1, <3>1
  <2>3. PICK T \in Lacking :
          \A U \in Lacking : <<U, T>> \notin StrictSubsetOrdering(manifests)
    <3> HIDE DEF Lacking
    <3>1. QED
      BY <2>2, FS_StrictSubsetOrderingWellFounded, WFMin, Zenon
  <2>4. T \in FiniteSubsetsOf(manifests) /\ T # {} /\ Tops(T) = {}
    OBVIOUS
  <2>5. PICK z \in T : TRUE
    BY <2>4
  <2>6. T \ {z} \in FiniteSubsetsOf(manifests)
    BY <2>4, FS_RemoveElement, Zenon DEF FiniteSubsetsOf
  <2>7. <<T \ {z}, T>> \in StrictSubsetOrdering(manifests)
    BY <2>4, <2>5, <2>6, SMT DEF FiniteSubsetsOf, StrictSubsetOrdering
  <2>8. T \ {z} = {} \/ Tops(T \ {z}) # {}
    BY <2>3, <2>6, <2>7
  <2>9. \A m \in T : m.version \in Number
    BY <2>4 DEF WellFormed, FiniteSubsetsOf
  <2>10. CASE T \ {z} = {}
    <3>1. T = {z} /\ ~Older(z.version, z.version)
      BY <2>5, <2>9, <2>10, OlderIsAnOrder
    <3>2. z \in Tops(T)
      BY <3>1
    <3>3. QED
      BY <2>4, <3>2
  <2>11. ASSUME NEW m \in Tops(T \ {z}) PROVE FALSE
    <3>1. m \in T /\ \A n \in T \ {z} : ~Older(m.version, n.version)
      BY <2>11
    <3>2. CASE ~Older(m.version, z.version)
      <4>1. m \in Tops(T)
        BY <3>1, <3>2
      <4>2. QED
        BY <2>4, <4>1
    <3>3. CASE Older(m.version, z.version)
      <4>1. \A n \in T : ~Older(z.version, n.version)
        BY <2>5, <2>9, <3>1, <3>3, OlderIsAnOrder
      <4>2. z \in Tops(T)
        BY <2>5, <4>1
      <4>3. QED
        BY <2>4, <4>2
    <3>4. QED
      BY <3>2, <3>3
  <2>12. QED
    BY <2>8, <2>10, <2>11
<1>2. PICK m \in manifests : \A n \in manifests : ~Older(m.version, n.version)
  BY <1>1
<1> DEFINE V == {n.version : n \in manifests}
<1>3. m.version \in V /\ \A v \in V : ~Older(m.version, v)
  BY <1>2
<1>4. Newest(V) \in V
  <2> HIDE DEF V
  <2>1. QED
    BY <1>3 DEF Newest
<1>5. \E n \in manifests : n.version = Newest(V)
  BY <1>4
<1>6. QED
  BY <1>5 DEF Highest

-----------------------------------------------------------------------------
(* The search. *)

SearchStates(root, available) ==
    [chosen : SUBSET (available \union {root}),
     expanded : SUBSET {m.id : m \in available \union {root}}]
\* Where the search goes from s.
Choose(s, m) == [s EXCEPT !.chosen = @ \union {m}]
Expand(s) == [s EXCEPT !.expanded = @ \union {Least(Unexpanded(s))}]
Fits(s, available) ==
    {m \in available : m.id = Least(Needed(s)) /\ ManifestSatisfies(m, Demands(s, Least(Needed(s))))}
Conflict(s) == \E m \in s.chosen : ~ManifestSatisfies(m, Demands(s, m.id))

\* One step of the search, as Resolve has it.
Answer(solve, s, available) ==
    IF Conflict(s) THEN {}
    ELSE IF Unexpanded(s) # {} THEN solve[Expand(s)]
    ELSE IF Needed(s) = {} THEN IF Cyclic(s.chosen) THEN {} ELSE s.chosen
    ELSE LET works == {m \in Fits(s, available) : solve[Choose(s, m)] # {}}
         IN IF works = {} THEN {} ELSE solve[Choose(s, Highest(works))]

\* Resolve is defined by the function that answers so everywhere.
LEMMA ResolveSearches ==
    ASSUME NEW root, NEW available
    PROVE  Resolve(root, available) =
            (CHOOSE solve : solve = [s \in SearchStates(root, available) |->
                                        Answer(solve, s, available)])
                [[chosen |-> {root}, expanded |-> {}]]
<1> DEFINE works(solve, s) ==
            {m \in available :
                /\ m.id = Least(Needed(s))
                /\ ManifestSatisfies(m, Demands(s, Least(Needed(s))))
                /\ solve[[s EXCEPT !.chosen = @ \union {m}]] # {}}
           answer(solve, s) ==
            IF \E m \in s.chosen : ~ManifestSatisfies(m, Demands(s, m.id)) THEN {}
            ELSE IF Unexpanded(s) # {}
              THEN solve[[s EXCEPT !.expanded = @ \union {Least(Unexpanded(s))}]]
            ELSE IF Needed(s) = {} THEN IF Cyclic(s.chosen) THEN {} ELSE s.chosen
            ELSE IF works(solve, s) = {} THEN {}
            ELSE solve[[s EXCEPT !.chosen = @ \union {Highest(works(solve, s))}]]
<1>1. Resolve(root, available) =
        (CHOOSE solve : solve = [s \in SearchStates(root, available) |-> answer(solve, s)])
            [[chosen |-> {root}, expanded |-> {}]]
  BY DEF Resolve, SearchStates
<1>2. \A solve, s : works(solve, s) = {m \in Fits(s, available) : solve[Choose(s, m)] # {}}
  BY DEF Fits, Choose
<1>3. \A solve, s : answer(solve, s) = Answer(solve, s, available)
  <2> HIDE DEF works
  <2>1. QED
    BY <1>2 DEF Answer, Conflict, Expand, Choose
<1>4. QED
  <2> HIDE DEF answer
  <2>1. QED
    BY <1>1, <1>3

Ids(root, available) == {m.id : m \in available \union {root}}

\* What the search has still to choose and to expand.
Left(s, root, available) ==
    Cardinality((available \union {root}) \ s.chosen)
        + Cardinality(Ids(root, available) \ s.expanded)

LEMMA IdsAreFinite ==
    ASSUME NEW root, NEW available, WellFormed(available \union {root})
    PROVE  /\ IsFiniteSet(Ids(root, available)) /\ Ids(root, available) \subseteq Nat
           /\ IsFiniteSet(available \union {root})
<1> DEFINE M == available \union {root}
           I == Ids(root, available)
           f == [m \in M |-> m.id]
<1>1. f \in Surjection(M, I)
  BY DEF Surjection, Ids
<1>2. IsFiniteSet(M) /\ I \subseteq Nat
  BY DEF WellFormed, Ids
<1>3. QED
  <2> HIDE DEF f, I
  <2>1. IsFiniteSet(I) /\ I \subseteq Nat
    BY <1>1, <1>2, FS_Surjection
  <2>2. QED
    BY <1>2, <2>1 DEF I

LEMMA LeftIsNat ==
    ASSUME NEW root, NEW available, WellFormed(available \union {root}),
           NEW s \in SearchStates(root, available)
    PROVE  Left(s, root, available) \in Nat
<1>1. /\ IsFiniteSet((available \union {root}) \ s.chosen)
      /\ IsFiniteSet(Ids(root, available) \ s.expanded)
  BY IdsAreFinite, FS_Difference, Zenon
<1>2. QED
  BY <1>1, FS_CardinalityType DEF Left

\* The search goes on to a state with less left.
LEMMA ExpandAdvances ==
    ASSUME NEW root, NEW available, WellFormed(available \union {root}),
           NEW s \in SearchStates(root, available), Unexpanded(s) # {}
    PROVE  /\ Expand(s) \in SearchStates(root, available)
           /\ Expand(s).chosen = s.chosen
           /\ Expand(s).expanded = s.expanded \union {Least(Unexpanded(s))}
           /\ Least(Unexpanded(s)) \in {m.id : m \in s.chosen} \ s.expanded
           /\ Left(Expand(s), root, available) < Left(s, root, available)
<1> DEFINE I == Ids(root, available)
           i == Least(Unexpanded(s))
<1>1. /\ s.chosen \subseteq available \union {root} /\ s.expanded \subseteq I
      /\ I \subseteq Nat /\ IsFiniteSet(I)
  BY IdsAreFinite DEF SearchStates, Ids
<1>2. Unexpanded(s) \subseteq I
  BY <1>1 DEF Unexpanded, Ids
<1>3. i \in Unexpanded(s)
  BY <1>1, <1>2, LeastOf
<1>4. Expand(s) = [chosen |-> s.chosen, expanded |-> s.expanded \union {i}]
  BY DEF Expand, SearchStates
<1>5. Expand(s) \in SearchStates(root, available)
  BY <1>1, <1>2, <1>3, <1>4 DEF SearchStates, Ids
<1>6. I \ (s.expanded \union {i}) = (I \ s.expanded) \ {i} /\ i \in I \ s.expanded
  BY <1>2, <1>3 DEF Unexpanded
<1>7. IsFiniteSet(I \ s.expanded)
  BY <1>1, FS_Difference, Zenon
<1>8. Cardinality(I \ (s.expanded \union {i})) = Cardinality(I \ s.expanded) - 1
  BY <1>6, <1>7, FS_RemoveElement
<1>9. Left(Expand(s), root, available) = Left(s, root, available) - 1
  <2>1. Cardinality(I \ s.expanded) \in Nat
        /\ Cardinality((available \union {root}) \ s.chosen) \in Nat
    BY <1>7, IdsAreFinite, FS_Difference, FS_CardinalityType
  <2> HIDE DEF I, i
  <2>2. Left(Expand(s), root, available) =
          Cardinality((available \union {root}) \ s.chosen)
            + Cardinality(I \ (s.expanded \union {i}))
    BY <1>4 DEF Left, I
  <2>3. Left(s, root, available) =
          Cardinality((available \union {root}) \ s.chosen) + Cardinality(I \ s.expanded)
    BY DEF Left, I
  <2>4. QED
    BY <1>8, <2>1, <2>2, <2>3
<1>10. Left(s, root, available) \in Nat /\ i \in {m.id : m \in s.chosen} \ s.expanded
  BY <1>3, LeftIsNat DEF Unexpanded
<1>11. Expand(s).chosen = s.chosen /\ Expand(s).expanded = s.expanded \union {i}
  BY <1>4
<1>12. Left(Expand(s), root, available) < Left(s, root, available)
  <2> HIDE DEF I, i
  <2>1. QED
    BY <1>9, <1>10
<1>13. QED
  BY <1>5, <1>10, <1>11, <1>12

LEMMA ChooseAdvances ==
    ASSUME NEW root, NEW available, WellFormed(available \union {root}),
           NEW s \in SearchStates(root, available), Needed(s) # {},
           NEW m \in Fits(s, available)
    PROVE  /\ Choose(s, m) \in SearchStates(root, available)
           /\ Choose(s, m).chosen = s.chosen \union {m}
           /\ Choose(s, m).expanded = s.expanded
           /\ m.id \in Needed(s)
           /\ Left(Choose(s, m), root, available) < Left(s, root, available)
<1> DEFINE M == available \union {root}
<1>1. /\ s.chosen \subseteq M /\ IsFiniteSet(M) /\ m \in M
      /\ s.expanded \subseteq Ids(root, available)
  BY IdsAreFinite DEF SearchStates, Ids, Fits
<1>2. Needed(s) \subseteq Nat
  BY <1>1 DEF Needed, WellFormed
<1>3. m.id \in Needed(s)
  BY <1>2, LeastOf DEF Fits
<1>4. Choose(s, m) = [chosen |-> s.chosen \union {m}, expanded |-> s.expanded]
  BY DEF Choose, SearchStates
<1>5. Choose(s, m) \in SearchStates(root, available)
  BY <1>1, <1>4 DEF SearchStates, Ids
<1>6. M \ (s.chosen \union {m}) = (M \ s.chosen) \ {m} /\ m \in M \ s.chosen
  <2>1. m.id \notin {n.id : n \in s.chosen}
    BY <1>3 DEF Needed
  <2>2. m \notin s.chosen
    BY <2>1
  <2>3. QED
    BY <1>1, <2>2
<1>7. IsFiniteSet(M \ s.chosen)
  BY <1>1, FS_Difference, Zenon
<1>8. Cardinality(M \ (s.chosen \union {m})) = Cardinality(M \ s.chosen) - 1
  BY <1>6, <1>7, FS_RemoveElement
<1>9. Left(Choose(s, m), root, available) = Left(s, root, available) - 1
  <2> DEFINE I == Ids(root, available)
  <2>1. Cardinality(I \ s.expanded) \in Nat /\ Cardinality(M \ s.chosen) \in Nat
    BY <1>7, IdsAreFinite, FS_Difference, FS_CardinalityType
  <2> HIDE DEF I, M
  <2>2. Left(Choose(s, m), root, available) =
          Cardinality(M \ (s.chosen \union {m})) + Cardinality(I \ s.expanded)
    BY <1>4 DEF Left, I, M
  <2>3. Left(s, root, available) = Cardinality(M \ s.chosen) + Cardinality(I \ s.expanded)
    BY DEF Left, I, M
  <2>4. QED
    BY <1>8, <2>1, <2>2, <2>3
<1>10. QED
  BY <1>3, <1>4, <1>5, <1>9, LeftIsNat

\* What is found from a state depends on states with less left only.
LEMMA AnswerDepends ==
    ASSUME NEW root, NEW available, WellFormed(available \union {root}),
           NEW s \in SearchStates(root, available), NEW f, NEW g,
           \A t \in SearchStates(root, available) :
            Left(t, root, available) < Left(s, root, available) => f[t] = g[t]
    PROVE  Answer(f, s, available) = Answer(g, s, available)
<1>1. Unexpanded(s) # {} => f[Expand(s)] = g[Expand(s)]
  BY ExpandAdvances
<1>2. ASSUME Needed(s) # {}
      PROVE  \A m \in Fits(s, available) : f[Choose(s, m)] = g[Choose(s, m)]
  BY <1>2, ChooseAdvances
<1> DEFINE works(solve) == {m \in Fits(s, available) : solve[Choose(s, m)] # {}}
<1>3. CASE Needed(s) # {}
  <2>1. works(f) = works(g)
    BY <1>2, <1>3
  <2>2. WellFormed(works(f))
    <3>1. works(f) \subseteq available \union {root}
      BY DEF Fits
    <3>2. QED
      BY <3>1, FS_Subset DEF WellFormed
  <2>3. works(f) # {} => Highest(works(f)) \in Fits(s, available)
    <3>1. works(f) # {} => Highest(works(f)) \in works(f)
      <4> HIDE DEF works
      <4>1. QED
        BY <2>2, HighestOf
    <3>2. QED
      BY <3>1
  <2>4. works(f) # {} => f[Choose(s, Highest(works(f)))] = g[Choose(s, Highest(works(g)))]
    <3> HIDE DEF works
    <3>1. QED
      BY <1>2, <1>3, <2>1, <2>3
  <2>5. QED
    BY <1>1, <1>3, <2>1, <2>4 DEF Answer
<1>4. CASE Needed(s) = {}
  BY <1>1, <1>4 DEF Answer
<1>5. QED
  BY <1>3, <1>4

\* So the function the resolver is defined by exists: it is built from the
\* states with the least left to those with more.
LEMMA SearchExists ==
    ASSUME NEW root, NEW available, WellFormed(available \union {root})
    PROVE  \E solve : solve = [s \in SearchStates(root, available) |->
                                Answer(solve, s, available)]
<1> DEFINE States == SearchStates(root, available)
           Below(n) == {s \in States : Left(s, root, available) < n}
           Partial(n) == \E f : f = [s \in Below(n) |-> Answer(f, s, available)]
           Lacking == {n \in Nat : ~Partial(n)}
<1>1. \A n \in Nat : Partial(n)
  <2>1. SUFFICES ASSUME Lacking # {} PROVE FALSE
    OBVIOUS
  <2>2. PICK n \in Lacking : \A k \in Lacking : n <= k
    <3> DEFINE w == [k \in Lacking |-> k]
    <3>1. w \in [Lacking -> Nat]
      OBVIOUS
    <3>2. \E n \in Lacking : \A k \in Lacking : w[n] <= w[k]
      <4> HIDE DEF w, Lacking
      <4>1. QED
        BY <2>1, <3>1, Lightest
    <3>3. QED
      BY <3>2
  <2>3. n \in Nat /\ ~Partial(n)
    OBVIOUS
  <2>4. CASE n = 0
    <3>1. Below(n) = {}
      BY <2>4, LeftIsNat
    <3>2. [s \in {} |-> {}] = [s \in Below(n) |-> Answer([t \in {} |-> {}], s, available)]
      BY <3>1
    <3>3. QED
      BY <2>3, <3>2
  <2>5. CASE n # 0
    <3>1. n - 1 \in Nat /\ ~(n <= n - 1)
      BY <2>3, <2>5
    <3>2. Partial(n - 1)
      BY <2>2, <3>1
    <3>3. PICK f : f = [s \in Below(n - 1) |-> Answer(f, s, available)]
      BY <3>2
    <3> DEFINE g == [s \in Below(n) |-> Answer(f, s, available)]
    <3>4. \A s \in Below(n) : Answer(f, s, available) = Answer(g, s, available)
      <4> SUFFICES ASSUME NEW s \in Below(n)
                   PROVE  Answer(f, s, available) = Answer(g, s, available)
        OBVIOUS
      <4>1. ASSUME NEW t \in States, Left(t, root, available) < Left(s, root, available)
            PROVE  f[t] = g[t]
        <5>1. Left(t, root, available) \in Nat /\ Left(s, root, available) \in Nat
              /\ Left(s, root, available) < n
          BY LeftIsNat
        <5>2. t \in Below(n - 1) /\ t \in Below(n)
          BY <2>3, <4>1, <5>1
        <5>3. f[t] = Answer(f, t, available)
          <6> HIDE DEF Below
          <6>1. QED
            BY <3>3, <5>2, Zenon
        <5>4. QED
          BY <5>2, <5>3
      <4>2. s \in SearchStates(root, available)
        OBVIOUS
      <4> HIDE DEF g
      <4>3. QED
        BY <4>1, <4>2, AnswerDepends
    <3>5. g = [s \in Below(n) |-> Answer(g, s, available)]
      <4>1. g = [s \in Below(n) |-> Answer(f, s, available)]
        OBVIOUS
      <4> HIDE DEF g, Below
      <4>2. QED
        BY <3>4, <4>1
    <3>6. QED
      BY <2>3, <3>5, Zenon
  <2>6. QED
    BY <2>4, <2>5
<1> DEFINE Pooled == Cardinality(available \union {root})
           Named == Cardinality(Ids(root, available))
<1>2. Pooled + Named + 1 \in Nat
  BY IdsAreFinite, FS_CardinalityType
<1>3. \A s \in States : Left(s, root, available) < Pooled + Named + 1
  <2> SUFFICES ASSUME NEW s \in States PROVE Left(s, root, available) < Pooled + Named + 1
    OBVIOUS
  <2> DEFINE A == Cardinality((available \union {root}) \ s.chosen)
             B == Cardinality(Ids(root, available) \ s.expanded)
  <2>1. A \in Nat /\ A <= Pooled /\ B \in Nat /\ B <= Named
    BY IdsAreFinite, FS_CardinalityType, FS_Subset
  <2>2. Pooled \in Nat /\ Named \in Nat
    BY IdsAreFinite, FS_CardinalityType
  <2>3. Left(s, root, available) = A + B
    BY DEF Left
  <2> HIDE DEF A, B, Pooled, Named
  <2>4. QED
    BY <2>1, <2>2, <2>3
<1>4. Below(Pooled + Named + 1) = States
  BY <1>3
<1>5. QED
  <2> HIDE DEF Below, Pooled, Named
  <2>1. Partial(Pooled + Named + 1)
    BY <1>1, <1>2
  <2>2. QED
    BY <1>4, <2>1

\* Of two states in which something fails, the search can go from the one to
\* the other only if that has less left: there is a last one.
LEMMA LastFailure ==
    ASSUME NEW root, NEW available, WellFormed(available \union {root}),
           NEW Failing \in SUBSET SearchStates(root, available), Failing # {}
    PROVE  \E s \in Failing : \A t \in SearchStates(root, available) :
            Left(t, root, available) < Left(s, root, available) => t \notin Failing
<1> DEFINE w == [s \in Failing |-> Left(s, root, available)]
<1>1. w \in [Failing -> Nat]
  BY LeftIsNat
<1>2. \E s \in Failing : \A t \in Failing : w[s] <= w[t]
  <2> HIDE DEF w
  <2>1. QED
    BY <1>1, Lightest
<1>3. PICK s \in Failing : \A t \in Failing : w[s] <= w[t]
  BY <1>2
<1>4. ASSUME NEW t \in SearchStates(root, available), t \in Failing,
             Left(t, root, available) < Left(s, root, available)
      PROVE  FALSE
  <2>1. Left(s, root, available) <= Left(t, root, available)
    BY <1>3, <1>4
  <2>2. Left(s, root, available) \in Nat /\ Left(t, root, available) \in Nat
    BY LeftIsNat
  <2>3. QED
    BY <1>4, <2>1, <2>2
<1>5. QED
  BY <1>4

\* One version per pack.
Distinct(chosen) == \A m, n \in chosen : m.id = n.id => m = n

\* The candidate the search goes on with is one of those that fit.
LEMMA HighestOfFits ==
    ASSUME NEW root, NEW available, WellFormed(available \union {root}),
           NEW s, NEW works \in SUBSET Fits(s, available), works # {}
    PROVE  Highest(works) \in works
<1>1. works \subseteq available \union {root}
  BY DEF Fits
<1>2. WellFormed(works)
  BY <1>1, FS_Subset DEF WellFormed
<1>3. QED
  BY <1>2, HighestOf

\* What the search finds, from any state it can be in, is a resolution.
LEMMA SearchIsSound ==
    ASSUME NEW root, NEW available, WellFormed(available \union {root}),
           NEW solve,
           solve = [s \in SearchStates(root, available) |-> Answer(solve, s, available)],
           NEW s \in SearchStates(root, available), root \in s.chosen, Distinct(s.chosen),
           solve[s] # {}
    PROVE  IsResolution(root, solve[s]) /\ solve[s] \subseteq available \union {root}
<1> DEFINE States == SearchStates(root, available)
           Right(selection) ==
            IsResolution(root, selection) /\ selection \subseteq available \union {root}
           Failing == {t \in States : /\ root \in t.chosen /\ Distinct(t.chosen) /\ solve[t] # {}
                                      /\ ~Right(solve[t])}
<1>1. SUFFICES ASSUME Failing # {} PROVE FALSE
  OBVIOUS
<1>2. PICK t \in Failing : \A u \in States :
        Left(u, root, available) < Left(t, root, available) => u \notin Failing
  <2>1. Failing \in SUBSET SearchStates(root, available)
    OBVIOUS
  <2> HIDE DEF Failing
  <2>2. QED
    BY <1>1, <2>1, LastFailure
<1>3. /\ t \in States /\ root \in t.chosen /\ Distinct(t.chosen) /\ solve[t] # {}
      /\ ~Right(solve[t])
  OBVIOUS
<1>4. solve[t] = Answer(solve, t, available)
  <2> HIDE DEF States
  <2>1. QED
    BY <1>3, Zenon DEF States
<1>5. ~Conflict(t)
  BY <1>3, <1>4 DEF Answer
<1>6. CASE Unexpanded(t) # {}
  <2>1. solve[t] = solve[Expand(t)]
    BY <1>4, <1>5, <1>6 DEF Answer
  <2>2. Expand(t) \in States /\ Expand(t).chosen = t.chosen
        /\ Left(Expand(t), root, available) < Left(t, root, available)
    BY <1>3, <1>6, ExpandAdvances
  <2>3. Expand(t) \in Failing
    BY <1>3, <2>1, <2>2
  <2>4. QED
    BY <1>2, <2>2, <2>3
<1>7. CASE Unexpanded(t) = {} /\ Needed(t) = {}
  <2>1. solve[t] = t.chosen /\ ~Cyclic(t.chosen)
    BY <1>3, <1>4, <1>5, <1>7 DEF Answer
  <2>2. t.chosen \subseteq available \union {root}
    BY <1>3 DEF SearchStates
  <2>3. ASSUME NEW m \in t.chosen, NEW id \in Needs(m)
        PROVE  \E n \in t.chosen : n.id = id /\ n.version \in m.needs[id]
    <3>1. id \in UNION {Needs(n) : n \in t.chosen}
      BY <2>3
    <3>2. PICK n \in t.chosen : n.id = id
      BY <1>7, <3>1 DEF Needed
    <3>3. m.id \in t.expanded
      BY <1>7 DEF Unexpanded
    <3>4. m.needs[id] \in Demands(t, n.id)
      BY <2>3, <3>2, <3>3 DEF Demands
    <3>5. n.version \in m.needs[id]
      BY <1>5, <3>4 DEF Conflict, ManifestSatisfies
    <3>6. QED
      BY <3>2, <3>5
  <2>4. Right(t.chosen)
    BY <1>3, <2>1, <2>2, <2>3 DEF IsResolution, Distinct
  <2>5. QED
    BY <1>3, <2>1, <2>4
<1>8. CASE Unexpanded(t) = {} /\ Needed(t) # {}
  <2> DEFINE works == {m \in Fits(t, available) : solve[Choose(t, m)] # {}}
             best == Highest(works)
  <2>1. works # {} /\ solve[t] = solve[Choose(t, best)]
    BY <1>3, <1>4, <1>5, <1>8 DEF Answer
  <2>2. best \in works
    <3>1. works \in SUBSET Fits(t, available)
      OBVIOUS
    <3> HIDE DEF works
    <3>2. QED
      BY <2>1, <3>1, HighestOfFits
  <2>3. best \in Fits(t, available)
    BY <2>2
  <2> HIDE DEF works, best
  <2>4. /\ Choose(t, best) \in States /\ Choose(t, best).chosen = t.chosen \union {best}
        /\ best.id \in Needed(t)
        /\ Left(Choose(t, best), root, available) < Left(t, root, available)
    BY <1>3, <1>8, <2>3, ChooseAdvances
  <2>5. \A m \in t.chosen : m.id # best.id
    BY <2>4 DEF Needed
  <2>6. Distinct(t.chosen \union {best})
    BY <1>3, <2>5 DEF Distinct
  <2>7. Choose(t, best) \in Failing
    BY <1>3, <2>1, <2>4, <2>6
  <2>8. QED
    BY <1>2, <2>4, <2>7
<1>9. QED
  BY <1>6, <1>7, <1>8

\* A search that has chosen nothing outside some resolution does not fail.
LEMMA SearchIsComplete ==
    ASSUME NEW root, NEW available, WellFormed(available \union {root}),
           NEW solve,
           solve = [s \in SearchStates(root, available) |-> Answer(solve, s, available)],
           NEW selection \in SUBSET (available \union {root}), IsResolution(root, selection),
           NEW s \in SearchStates(root, available), root \in s.chosen, s.chosen \subseteq selection
    PROVE  solve[s] # {}
<1> DEFINE States == SearchStates(root, available)
           Failing == {t \in States : root \in t.chosen /\ t.chosen \subseteq selection /\ solve[t] = {}}
<1>1. SUFFICES ASSUME Failing # {} PROVE FALSE
  OBVIOUS
<1>2. PICK t \in Failing : \A u \in States :
        Left(u, root, available) < Left(t, root, available) => u \notin Failing
  <2>1. Failing \in SUBSET SearchStates(root, available)
    OBVIOUS
  <2> HIDE DEF Failing
  <2>2. QED
    BY <1>1, <2>1, LastFailure
<1>3. t \in States /\ root \in t.chosen /\ t.chosen \subseteq selection /\ solve[t] = {}
  OBVIOUS
<1>4. solve[t] = Answer(solve, t, available)
  <2> HIDE DEF States
  <2>1. QED
    BY <1>3, Zenon DEF States
<1>5. ASSUME NEW m \in selection PROVE ManifestSatisfies(m, Demands(t, m.id))
  <2>1. SUFFICES ASSUME NEW n \in t.chosen, m.id \in Needs(n) PROVE m.version \in n.needs[m.id]
    BY DEF ManifestSatisfies, Demands
  <2>2. PICK k \in selection : k.id = m.id /\ k.version \in n.needs[m.id]
    BY <1>3, <2>1 DEF IsResolution
  <2>3. k = m
    BY <1>5, <2>2 DEF IsResolution
  <2>4. QED
    BY <2>2, <2>3
<1>6. ~Conflict(t)
  BY <1>3, <1>5 DEF Conflict
<1>7. CASE Unexpanded(t) # {}
  <2>1. solve[t] = solve[Expand(t)]
    BY <1>4, <1>6, <1>7 DEF Answer
  <2>2. Expand(t) \in States /\ Expand(t).chosen = t.chosen
        /\ Left(Expand(t), root, available) < Left(t, root, available)
    BY <1>3, <1>7, ExpandAdvances
  <2>3. Expand(t) \in Failing
    BY <1>3, <2>1, <2>2
  <2>4. QED
    BY <1>2, <2>2, <2>3
<1>8. CASE Unexpanded(t) = {} /\ Needed(t) = {}
  <2>1. ~Cyclic(t.chosen)
    BY <1>3 DEF IsResolution, Cyclic
  <2>2. solve[t] = t.chosen
    BY <1>4, <1>6, <1>8, <2>1 DEF Answer
  <2>3. QED
    BY <1>3, <2>2
<1>9. CASE Unexpanded(t) = {} /\ Needed(t) # {}
  <2> DEFINE id == Least(Needed(t))
  <2>1. Needed(t) \subseteq Nat
    <3>1. \A m \in t.chosen : Needs(m) \subseteq Nat
      BY <1>3 DEF WellFormed
    <3>2. QED
      BY <3>1 DEF Needed
  <2>2. id \in Needed(t)
    BY <1>9, <2>1, LeastOf
  <2>3. PICK m \in t.chosen : id \in Needs(m)
    BY <2>2 DEF Needed
  <2>4. PICK n \in selection : n.id = id
    BY <1>3, <2>3 DEF IsResolution
  <2>5. n.id # root.id
    BY <1>3, <2>2, <2>4 DEF Needed
  <2>6. n \in Fits(t, available)
    BY <1>5, <2>4, <2>5 DEF Fits
  <2>7. /\ Choose(t, n) \in States /\ Choose(t, n).chosen = t.chosen \union {n}
        /\ Left(Choose(t, n), root, available) < Left(t, root, available)
    BY <1>3, <1>9, <2>6, ChooseAdvances
  <2>8. solve[Choose(t, n)] # {}
    BY <1>2, <1>3, <2>4, <2>7
  <2> DEFINE works == {k \in Fits(t, available) : solve[Choose(t, k)] # {}}
  <2>9. works # {} /\ works \in SUBSET Fits(t, available)
    BY <2>6, <2>8
  <2>10. Highest(works) \in works
    <3> HIDE DEF works
    <3>1. QED
      BY <2>9, HighestOfFits
  <2>11. solve[Choose(t, Highest(works))] # {}
    BY <2>10
  <2>12. solve[t] = solve[Choose(t, Highest(works))]
    BY <1>4, <1>6, <1>9, <2>9 DEF Answer
  <2>13. QED
    BY <1>3, <2>11, <2>12
<1>10. QED
  BY <1>7, <1>8, <1>9

\* The resolver finds a selection exactly when there is one, and a right one.
THEOREM ResolverDecides ==
    ASSUME NEW root, NEW available, WellFormed(available \union {root})
    PROVE  /\ Resolve(root, available) # {} =>
                /\ IsResolution(root, Resolve(root, available))
                /\ Resolve(root, available) \subseteq available \union {root}
           /\ Resolve(root, available) = {} =>
                \A s \in SUBSET (available \union {root}) : ~IsResolution(root, s)
<1> DEFINE Solves(solve) ==
            solve = [s \in SearchStates(root, available) |-> Answer(solve, s, available)]
           first == [chosen |-> {root}, expanded |-> {}]
<1>1. PICK solve : Solves(solve) /\ Resolve(root, available) = solve[first]
  <2>1. \E solve : Solves(solve)
    BY SearchExists
  <2>2. Resolve(root, available) = (CHOOSE solve : Solves(solve))[first]
    BY ResolveSearches
  <2> HIDE DEF Solves
  <2>3. QED
    BY <2>1, <2>2
<1>2. first \in SearchStates(root, available) /\ first.chosen = {root} /\ Distinct(first.chosen)
  BY DEF SearchStates, Distinct
<1>3. ASSUME solve[first] # {}
      PROVE  IsResolution(root, solve[first]) /\ solve[first] \subseteq available \union {root}
  <2> HIDE DEF first
  <2>1. QED
    BY <1>1, <1>2, <1>3, SearchIsSound
<1>4. ASSUME NEW s \in SUBSET (available \union {root}), IsResolution(root, s)
      PROVE  solve[first] # {}
  <2>1. root \in s
    BY <1>4 DEF IsResolution
  <2> HIDE DEF first
  <2>2. QED
    BY <1>1, <1>2, <1>4, <2>1, SearchIsComplete
<1>5. QED
  BY <1>1, <1>3, <1>4

\* A selection found in a store is still one in any store with more in it.
LEMMA MoreInStore ==
    ASSUME NEW m \in Manifests, NEW larger \in SUBSET Manifests, NEW store \in SUBSET larger,
           Resolve(m, store) # {}
    PROVE  Resolve(m, larger) # {}
<1>1. WellFormed(store \union {m}) /\ WellFormed(larger \union {m})
  <2>1. \A S \in SUBSET Manifests : WellFormed(S)
    BY ManifestAssumption, FS_Subset DEF WellFormed
  <2>2. QED
    BY <2>1
<1>2. /\ IsResolution(m, Resolve(m, store))
      /\ Resolve(m, store) \in SUBSET (larger \union {m})
  BY <1>1, ResolverDecides
<1>3. QED
  BY <1>1, <1>2, ResolverDecides

LEMMA ResolvedPairs ==
    \A store, m : <<store, m>> \in Resolved <=>
        store \in SUBSET Manifests /\ m \in Manifests /\ Resolve(m, store) # {}
  BY DEF Resolved

\* Whatever is installed later, an installed pack can still be activated
\* (PackInstallerV1.requireResolvedDependencies, asked again by Activate).
THEOREM InstalledPacksStayUsable == Spec => []InstalledStaysUsable
<1>1. Init => InstalledStaysUsable
  BY DEF Init, InstalledStaysUsable
<1>2. TypeInv /\ InstalledStaysUsable /\ [Next]_vars => InstalledStaysUsable'
  <2> SUFFICES ASSUME TypeInv, InstalledStaysUsable, [Next]_vars PROVE InstalledStaysUsable'
    OBVIOUS
  <2>1. CASE Store
    <3>1. PICK n \in Manifests : Install(n)
      BY <2>1 DEF Store
    <3>2. /\ installed' = installed \union {n} /\ Resolve(n, installed) # {}
          /\ installed' \in SUBSET Manifests
      BY <3>1, ResolvedPairs DEF Install, TypeInv, StoreType
    <3>3. SUFFICES ASSUME NEW m \in installed' PROVE Resolve(m, installed') # {}
      BY <3>2, <3>3, ResolvedPairs DEF InstalledStaysUsable
    <3>4. Resolve(m, installed) # {}
      BY <3>2, ResolvedPairs DEF InstalledStaysUsable
    <3>5. QED
      BY <3>2, <3>3, <3>4, MoreInStore
  <2>2. CASE UNCHANGED installed
    BY <2>2, ResolvedPairs DEF InstalledStaysUsable
  <2>3. Store \/ UNCHANGED installed
    BY DEF Next, vars, Student, SetGoal, PauseGoal, ResumeGoal, Learn, Upgrade, BeginUpgrade,
      Backup, Migrate, PointUpgrade, CheckIntegrity, Complete, Fail, Restore, RestoreFails,
      RestoreDies, RecordFailure, Activate, BeginActivate, Preflight, FindInstance,
      CreateInstance, CheckReference, WriteReference, Quit
  <2>4. QED
    BY <2>1, <2>2, <2>3
<1>3. QED
  BY <1>1, <1>2, Types, PTL DEF Spec

\* The resolver finds a selection exactly when there is one, and a right one,
\* whatever the store holds (PackDependencyResolverV1.Resolve).
THEOREM ResolverStaysExact == Spec => []ResolverIsExact
<1>1. ASSUME NEW store \in SUBSET Manifests, NEW m \in Manifests PROVE ~Misresolves(m, store)
  <2>1. WellFormed(store \union {m})
    BY ManifestAssumption, FS_Subset DEF WellFormed
  <2>2. QED
    BY <2>1, ResolverDecides DEF Misresolves
<1>2. \A r \in Misresolved : FALSE
  BY <1>1 DEF Misresolved
<1>3. ResolverIsExact
  BY <1>2 DEF ResolverIsExact
<1>4. QED
  BY <1>3, PTL
====
