---- MODULE PackUpgrade ----
(***************************************************************************)
(* Installing, activating and upgrading the Learning Pack of a workspace   *)
(* (pack_installation.go, pack_activation.go, pack_upgrade.go,             *)
(* pack_upgrade_execution.go, infra/packfs, infra/learningmigration,       *)
(* learning/application/curriculum_migration.go).                          *)
(*                                                                         *)
(* Three stores are involved: the user's global pack store, the file       *)
(* state/active-pack.json of the workspace, and its database.  An upgrade  *)
(* writes the database and the file one after the other and repairs a      *)
(* failure by restoring a backup of both; a process may die in between.    *)
(* Other commands of the learner commit to the database at any time.       *)
(***************************************************************************)
EXTENDS PackDependency

CONSTANTS Goals,       \* learning goals the student may set
          Concepts,    \* concepts the curricula are made of
          Course,      \* the pack this workspace follows
          Manifests,   \* artifacts that may be offered for installation
          Contents,    \* the concepts of each version of the course
          Upgraders,   \* invocations of packs upgrade
          Activators,  \* invocations of packs activate
          NoVersion    \* stands for the absence of a version

Invocations == Upgraders \union Activators
Versions == {m.version : m \in {x \in Manifests : x.id = Course}}

ASSUME ManifestAssumption == WellFormed(Manifests)
ASSUME ContentsAssumption == Contents \in [Versions -> SUBSET Concepts]
ASSUME InvocationAssumption == Upgraders \intersect Activators = {}
ASSUME NoVersionAssumption == NoVersion \notin Versions

VARIABLES
    installed,  \* the global store: published manifests
    active,     \* active-pack.json: the version it names, or NoVersion
    inst,       \* the learner's curriculum instances, by goal and version
    known,      \* the concepts with recorded progress in each of them
    goal,       \* status of each goal
    reported,   \* what the newest upgrade event of the audit trail says is active
    pc, from, to,
    learner,    \* the goal an activation is about
    saved,      \* the backup of each upgrade
    clean,      \* history: no pack command overlapped another or ended torn
    near        \* history: of an upgrade, see BeginUpgrade

database == <<inst, known, goal, reported>>
locals == <<from, to, learner, saved>>
vars == <<installed, active, inst, known, goal, reported, pc, from, to, learner, saved, clean, near>>

AtRest == \A p \in Invocations : pc[p] = "idle"
Open(g, v) == inst[g][v] = "open"
AllOpenIn(versions) == \A g \in Goals : \A v \in Versions : Open(g, v) => v \in versions

Init ==
    /\ installed = {} /\ active = NoVersion /\ reported = NoVersion
    /\ inst = [g \in Goals |-> [v \in Versions |-> "none"]]
    /\ known = [g \in Goals |-> [v \in Versions |-> {}]]
    /\ goal = [g \in Goals |-> "none"]
    /\ pc = [p \in Invocations |-> "idle"]
    /\ from = [p \in Invocations |-> NoVersion]
    /\ to = [p \in Invocations |-> NoVersion]
    /\ learner = [p \in Activators |-> {}]
    /\ saved = [p \in Upgraders |-> {}]
    /\ clean = TRUE /\ near = [p \in Upgraders |-> FALSE]

Goto(p, step) == pc' = [pc EXCEPT ![p] = step]

-----------------------------------------------------------------------------
\* The global store.

\* requireResolvedDependencies: pairs of a content of the store and a manifest
\* whose complete dependency graph is there.
Resolved ==
    UNION {{store} \X {m \in Manifests : Resolve(m, store) # {}} : store \in SUBSET Manifests}

Installed(v) == \E m \in installed : m.id = Course /\ m.version = v
Usable(v) ==
    \E m \in installed : m.id = Course /\ m.version = v /\ <<installed, m>> \in Resolved

\* Mutant: the dependencies are not looked at.
InstallAlone(m) ==
    /\ \A n \in installed : n.id # m.id \/ n.version # m.version
    /\ installed' = installed \union {m}
    /\ UNCHANGED <<active, database, pc, locals, clean, near>>

\* PackInstallerV1.Install.  The version directory is published by one rename
\* that fails when it exists, so the same identity is never replaced.
Install(m) ==
    /\ \A n \in installed : n.id # m.id \/ n.version # m.version
    /\ <<installed, m>> \in Resolved
    /\ installed' = installed \union {m}
    /\ UNCHANGED <<active, database, pc, locals, clean, near>>

-----------------------------------------------------------------------------
\* Other commands of the learner, each one transaction.

\* goalLifecycleService.Set: the new goal is active, the one before is paused.
SetGoal(g) ==
    /\ goal[g] = "none"
    /\ goal' = [h \in Goals |-> IF h = g THEN "active"
                                ELSE IF goal[h] = "active" THEN "paused" ELSE goal[h]]
    /\ UNCHANGED <<installed, active, inst, known, reported, pc, locals, clean, near>>

\* Resume takes the paused goal that was updated last; clocks may be set
\* back, so here any of them.
ResumeGoal(g) ==
    /\ goal[g] = "paused"
    /\ goal' = [h \in Goals |-> IF h = g THEN "active"
                                ELSE IF goal[h] = "active" THEN "paused" ELSE goal[h]]
    /\ UNCHANGED <<installed, active, inst, known, reported, pc, locals, clean, near>>

PauseGoal(g) ==
    /\ goal[g] = "active"
    /\ goal' = [goal EXCEPT ![g] = "paused"]
    /\ UNCHANGED <<installed, active, inst, known, reported, pc, locals, clean, near>>

\* A study command records progress on a concept of an active instance.
Learn(g, v, c) ==
    /\ goal[g] = "active" /\ Open(g, v) /\ c \in Contents[v] \ known[g][v]
    /\ known' = [known EXCEPT ![g][v] = @ \union {c}]
    /\ UNCHANGED <<installed, active, inst, goal, reported, pc, locals, clean, near>>

-----------------------------------------------------------------------------
\* packs upgrade.

Overlaps(p) == \E q \in Invocations \ {p} : pc[q] # "idle"
Begins(p) ==
    /\ pc[p] = "idle"
    /\ clean' = (clean /\ ~Overlaps(p))

\* PackUpgradePlannerV1: every read of the plan.  A target given by the user
\* may be any newer installed version, the default is the newest.
\* near[p]: nothing else is under way, and every open instance is at the
\* version the upgrade leaves or at the one it goes to.
BeginUpgrade(p, w) ==
    /\ Begins(p)
    /\ active # NoVersion
    /\ Installed(w)
    /\ TransitionAllowed(active, w, Impact(Contents[active], Contents[w]))
    /\ from' = [from EXCEPT ![p] = active] /\ to' = [to EXCEPT ![p] = w]
    /\ near' = [q \in Upgraders |-> q = p /\ ~Overlaps(p) /\ AllOpenIn({active, w})]
    /\ Goto(p, "planned")
    /\ UNCHANGED <<installed, active, database, learner, saved>>

\* backups.Create: database and state directory.
Workspace ==
    [active |-> active, inst |-> inst, known |-> known, goal |-> goal, reported |-> reported]
Backup(p) ==
    /\ pc[p] = "planned" /\ Goto(p, "backed")
    /\ saved' = [saved EXCEPT ![p] = {Workspace}]
    /\ UNCHANGED <<installed, active, database, from, to, learner, clean, near>>

\* Mutant: the goals that are paused are forgotten.
ActiveSources(p) == {g \in Goals : goal[g] = "active" /\ Open(g, from[p])}
Sources(p) == {g \in Goals : Open(g, from[p])}

\* What an instance of the new version takes over from one of the old.
\* Mutant: it starts unknown.
Unknown(p, g) == {}
Preserved(p, g) == known[g][from[p]] \intersect Contents[to[p]]

\* Mutant: the sources stay open.
MigrateCopies(p) ==
    /\ pc[p] = "backed" /\ Goto(p, "migrated")
    /\ \A g \in Sources(p) : inst[g][to[p]] = "none"
    /\ inst' = [g \in Goals |->
                IF g \in Sources(p) THEN [inst[g] EXCEPT ![to[p]] = "open"] ELSE inst[g]]
    /\ known' = [g \in Goals |->
                IF g \in Sources(p) THEN [known[g] EXCEPT ![to[p]] = Preserved(p, g)]
                ELSE known[g]]
    /\ UNCHANGED <<installed, active, goal, reported, locals, clean, near>>

\* CurriculumInstanceService.Migrate, one transaction: every instance of the
\* old version that is not archived gets a successor that keeps the state of
\* the concepts both versions have.
Migrate(p) ==
    /\ pc[p] = "backed" /\ Goto(p, "migrated")
    /\ \A g \in Sources(p) : inst[g][to[p]] = "none"
    /\ inst' = [g \in Goals |->
                IF g \in Sources(p)
                THEN [inst[g] EXCEPT ![from[p]] = "archived", ![to[p]] = "open"] ELSE inst[g]]
    /\ known' = [g \in Goals |->
                IF g \in Sources(p) THEN [known[g] EXCEPT ![to[p]] = Preserved(p, g)]
                ELSE known[g]]
    /\ UNCHANGED <<installed, active, goal, reported, locals, clean, near>>

\* PackInstallerV1.Activate with MigrationAuthorized: any active version may
\* be replaced.  The file is renamed into place.
PointUpgrade(p) ==
    /\ pc[p] = "migrated" /\ Goto(p, "pointed")
    /\ Usable(to[p])
    /\ active' = to[p]
    /\ UNCHANGED <<installed, database, locals, clean, near>>

CheckIntegrity(p) ==
    /\ pc[p] = "pointed" /\ Goto(p, "checked")
    /\ UNCHANGED <<installed, active, database, locals, clean, near>>

\* A step after the backup fails: Migrate with a conflict or an error, which
\* its transaction undoes; Activate, when the clock is before the
\* installation or the write fails; the integrity check; the audit, whose
\* event may have been committed before the store failed to close.
Fail(p) ==
    /\ pc[p] \in {"backed", "migrated", "pointed", "checked"} /\ Goto(p, "failed")
    /\ \/ reported' = reported
       \/ pc[p] = "checked" /\ reported' = to[p]
    /\ UNCHANGED <<installed, active, inst, known, goal, locals, clean, near>>

\* Restore swaps the database first and the state directory last; a failure
\* is rolled back, and only a process that dies leaves the one without the
\* other (BackupRestore).
RestoreDatabase(p) ==
    \E w \in saved[p] :
        inst' = w.inst /\ known' = w.known /\ goal' = w.goal /\ reported' = w.reported

\* Mutant: the audit trail of the failed attempt is kept.
RestoreKeepsAudit(p) ==
    /\ pc[p] = "failed" /\ Goto(p, "restored")
    /\ \E w \in saved[p] :
        active' = w.active /\ inst' = w.inst /\ known' = w.known /\ goal' = w.goal
    /\ UNCHANGED <<installed, reported, locals, clean, near>>

Restore(p) ==
    /\ pc[p] = "failed" /\ Goto(p, "restored")
    /\ RestoreDatabase(p) /\ \E w \in saved[p] : active' = w.active
    /\ UNCHANGED <<installed, locals, clean, near>>

RestoreFails(p) ==
    /\ pc[p] = "failed" /\ Goto(p, "unrestored")
    /\ UNCHANGED <<installed, active, database, locals, clean, near>>

-----------------------------------------------------------------------------
\* An invocation ends.  The history remembers an end that leaves an open
\* instance apart from the active version.

Forget(p) ==
    /\ from' = [from EXCEPT ![p] = NoVersion] /\ to' = [to EXCEPT ![p] = NoVersion]
    /\ learner' = [q \in Activators |-> IF q = p THEN {} ELSE learner[q]]
    /\ saved' = [q \in Upgraders |-> IF q = p THEN {} ELSE saved[q]]
    /\ near' = [q \in Upgraders |-> q # p /\ near[q]]
Torn == ~AllOpenIn({active})

\* The pack.upgrade.completed event; the upgrade has been applied.
Complete(p) ==
    /\ pc[p] = "checked" /\ Goto(p, "idle") /\ Forget(p)
    /\ reported' = to[p]
    /\ UNCHANGED <<installed, active, inst, known, goal, clean>>

RestoreDies(p) ==
    /\ pc[p] = "failed" /\ Goto(p, "idle") /\ Forget(p)
    /\ RestoreDatabase(p)
    /\ UNCHANGED <<installed, active>>
    /\ clean' = (clean /\ ~Torn')

\* The pack.upgrade.failed event says whether the recovery succeeded; when it
\* did, the old version is active.  It may itself fail to be written.
RecordFailure(p) ==
    /\ pc[p] \in {"restored", "unrestored"} /\ Goto(p, "idle") /\ Forget(p)
    /\ \/ reported' = reported
       \/ pc[p] = "restored" /\ reported' = from[p]
       \/ pc[p] = "unrestored" /\ reported' = NoVersion
    /\ clean' = (clean /\ (pc[p] = "restored" \/ ~Torn))
    /\ UNCHANGED <<installed, active, inst, known, goal>>

\* The process dies, or the command returns an error that needs no recovery:
\* the backup failed, it was not confirmed, activation was refused or failed.
Quit(p) ==
    /\ pc[p] # "idle" /\ Goto(p, "idle") /\ Forget(p)
    /\ clean' = (clean /\ (pc[p] \in {"planned", "backed"} \/ ~Torn))
    /\ UNCHANGED <<installed, active, database>>

-----------------------------------------------------------------------------
\* packs activate: PackActivationCoordinatorV1 and the installer's Activate.

\* Active and Find: the workspace follows no version yet, or this one.
BeginActivate(p, v) ==
    /\ Begins(p)
    /\ active \in {NoVersion, v}
    /\ Installed(v)
    /\ to' = [to EXCEPT ![p] = v]
    /\ near' = [q \in Upgraders |-> FALSE]
    /\ Goto(p, "selected")
    /\ UNCHANGED <<installed, active, database, from, learner, saved>>

\* activationContext: there is an active goal, and it has no open instance of
\* another version.
Eligible(g, v) == goal[g] = "active" /\ \A w \in Versions \ {v} : ~Open(g, w)

Preflight(p) ==
    /\ pc[p] = "selected" /\ Goto(p, "preflighted")
    /\ \E g \in Goals : Eligible(g, to[p])
    /\ UNCHANGED <<installed, active, database, locals, clean, near>>

\* ActivateCurriculum reads the same again, in a store of its own, and then
\* the instances of the goal.
FindInstance(p) ==
    /\ pc[p] = "preflighted"
    /\ \E g \in Goals :
        /\ Eligible(g, to[p])
        /\ learner' = [learner EXCEPT ![p] = {g}]
        /\ Goto(p, IF Open(g, to[p]) THEN "enrolled" ELSE "enrolling")
    /\ UNCHANGED <<installed, active, database, from, to, saved, clean, near>>

\* CurriculumInstances.Create, one transaction; one instance per goal and
\* version is all that the schema ensures.
CreateInstance(p) ==
    /\ pc[p] = "enrolling" /\ Goto(p, "enrolled")
    /\ \E g \in learner[p] :
        /\ goal[g] = "active" /\ inst[g][to[p]] = "none"
        /\ inst' = [inst EXCEPT ![g][to[p]] = "open"]
    /\ UNCHANGED <<installed, active, known, goal, reported, locals, clean, near>>

\* PackInstallerV1.Activate without authorisation reads the reference ...
CheckReference(p) ==
    /\ pc[p] = "enrolled" /\ Goto(p, "ready")
    /\ Usable(to[p])
    /\ active \in {NoVersion, to[p]}
    /\ UNCHANGED <<installed, active, database, locals, clean, near>>

\* ... and writes it.
WriteReference(p) ==
    /\ pc[p] = "ready" /\ Goto(p, "idle") /\ Forget(p)
    /\ active' = to[p]
    /\ UNCHANGED <<installed, database, clean>>

-----------------------------------------------------------------------------
Store == \E m \in Manifests : Install(m)
Student ==
    \E g \in Goals :
        \/ SetGoal(g) \/ PauseGoal(g) \/ ResumeGoal(g)
        \/ \E v \in Versions, c \in Concepts : Learn(g, v, c)
Upgrade(p) ==
    \/ \E w \in Versions : BeginUpgrade(p, w)
    \/ Backup(p) \/ Migrate(p) \/ PointUpgrade(p) \/ CheckIntegrity(p) \/ Complete(p)
    \/ Fail(p) \/ Restore(p) \/ RestoreFails(p) \/ RestoreDies(p) \/ RecordFailure(p)
Activate(p) ==
    \/ \E v \in Versions : BeginActivate(p, v)
    \/ Preflight(p) \/ FindInstance(p) \/ CreateInstance(p)
    \/ CheckReference(p) \/ WriteReference(p)

Next ==
    \/ Store \/ Student
    \/ \E p \in Upgraders : Upgrade(p)
    \/ \E p \in Activators : Activate(p)
    \/ \E p \in Invocations : Quit(p)

Spec == Init /\ [][Next]_vars

-----------------------------------------------------------------------------
Reference == Versions \union {NoVersion}
Enrolments == [Goals -> [Versions -> {"none", "open", "archived"}]]
Records == [Goals -> [Versions -> SUBSET Concepts]]
GoalStates == [Goals -> {"none", "active", "paused"}]
WorkspaceState ==
    [active : Reference, inst : Enrolments, known : Records, goal : GoalStates,
     reported : Reference]
UpgradeSteps ==
    {"idle", "planned", "backed", "migrated", "pointed", "checked", "failed", "restored",
        "unrestored"}
ActivateSteps == {"idle", "selected", "preflighted", "enrolling", "enrolled", "ready"}

\* Every variable keeps its type, and upgrades and activations keep to their
\* own steps.
TypeOK ==
    /\ installed \subseteq Manifests
    /\ active \in Reference /\ reported \in Reference
    /\ inst \in Enrolments /\ known \in Records /\ goal \in GoalStates
    /\ pc \in [Invocations -> UpgradeSteps \union ActivateSteps]
    /\ \A p \in Upgraders : pc[p] \in UpgradeSteps
    /\ \A p \in Activators : pc[p] \in ActivateSteps
    /\ from \in [Invocations -> Reference] /\ to \in [Invocations -> Reference]
    /\ learner \in [Activators -> SUBSET Goals]
    /\ saved \in [Upgraders -> SUBSET WorkspaceState]
    /\ clean \in BOOLEAN /\ near \in [Upgraders -> BOOLEAN]

\* The reference and the learner agree: after any sequence of commands and
\* failures, each open instance is of the active version, unless two pack
\* commands overlapped or one of them ended between its two writes.
ReferenceFollows == clean /\ AtRest => AllOpenIn({active})

\* The audit trail never claims a version newer than the active one.
ReportIsTrue == clean /\ reported # NoVersion => ~Older(active, reported)

\* Repeating an upgrade repairs it: when every open instance is at the old
\* version or at the new one, where an upgrade that died left them, an
\* upgrade that reports success leaves them all at the new one.
RepeatedUpgradeCompletes ==
    [][\A p \in Upgraders : Complete(p) /\ near[p] => AllOpenIn({active})]_vars

\* Progress survives upgrades: what a learner knew in an archived instance is
\* known in the open one, when no version in between dropped the concept.
Through(v, w) == {u \in Versions : (u = v \/ Older(v, u)) /\ (u = w \/ Older(u, w))}
ProgressCarried ==
    \A g \in Goals : \A v, w \in Versions :
        inst[g][v] = "archived" /\ Open(g, w) =>
            {c \in known[g][v] : \A u \in Through(v, w) : c \in Contents[u]} \subseteq known[g][w]

\* Whatever is installed later, an installed pack can still be activated.
InstalledStaysUsable == \A m \in installed : <<installed, m>> \in Resolved

\* The resolver finds a selection exactly when there is one, and a right one,
\* whatever is in the store besides what is there now.
Misresolves(m, store) ==
    LET found == Resolve(m, store)
    IN IF found # {} THEN ~IsResolution(m, found)
       ELSE \E s \in SUBSET (store \union {m}) : IsResolution(m, s)
Misresolved ==
    UNION {{store} \X {m \in Manifests : Misresolves(m, store)} : store \in SUBSET Manifests}
ResolverIsExact == \A r \in Misresolved : ~(installed \subseteq r[1])

\* An upgrade that reports success has migrated every open instance.
AppliedUpgradeMigrates == [][\A p \in Upgraders : Complete(p) => AllOpenIn({active})]_vars
====
