---- MODULE BackupRestore ----
(***************************************************************************)
(* Restoring a backup: the four managed components of a workspace are      *)
(* swapped, one rename at a time, against verified copies in a staging     *)
(* directory, while a recovery directory keeps the originals.              *)
(*                                                                         *)
(* Components, in the order of the swap: 1 learning.db, 2 config.toml,     *)
(* 3 workspace.json, 4 the state directory.  A content has data and, if it *)
(* is the database, the index of the visible artifacts; the artifacts      *)
(* themselves stay in place.                                               *)
(***************************************************************************)
EXTENDS Naturals

CONSTANTS
    Restores,   \* invocations, each of one restore
    Data, Indexes,
    Absent,
    Saved,      \* the backups: what each holds of each component
    Initial,    \* the workspace at first
    Written,    \* the components that other commands write
    Overlap,    \* may restores overlap?
    Commands,   \* may other commands run during a restore?
    Faults      \* what may go wrong: "rename", "remove", "death"

Components == 1..4
Database == 1
Metadata == 3
StateDirectory == 4
Contents == [data : Data, index : Indexes]
Slots == Contents \union {Absent}
Backups == DOMAIN Saved

\* validateManifest requires the metadata; the staging directory always has a
\* state directory.
ASSUME SavedAssumption ==
    /\ Saved \in [Backups -> [Components -> Slots]]
    /\ \A b \in Backups : Saved[b][Metadata] # Absent /\ Saved[b][StateDirectory] # Absent
ASSUME InitialAssumption == Initial \in [Components -> Contents]
ASSUME AbsentAssumption == Absent \notin Contents
ASSUME WrittenAssumption == Written \subseteq Components \ {Metadata}
ASSUME FlagAssumption == Overlap \in BOOLEAN /\ Commands \in BOOLEAN
ASSUME FaultAssumption == Faults \subseteq {"rename", "remove", "death"}

VARIABLES
    live,       \* the workspace's components
    artifacts,  \* the visible artifacts, by what an exact index says of them
    \* Each restore.
    pc,
    which,      \* its backup
    staged,     \* its staging directory
    original,   \* its recovery directory
    at,         \* the component it is moving
    moves,      \* what it has moved: hadOriginal and hadStaged of restoreMove
    stuck,      \* has a step of its rollback failed?
    before,     \* history: the components when its swap began
    target      \* history: its staging directory then

local == <<which, staged, original, at, moves, stuck, before, target>>
vars == <<live, artifacts, pc, local>>

Swapping == {"preserve", "commit"}
RollingBack == {"remove", "putback"}
Running == {"stage", "reconcile", "begin"} \union Swapping \union RollingBack \union {"discard", "clean"}
Committing == Swapping \union RollingBack \union {"discard", "clean"}
Steps == Running \union {"idle", "refused", "done", "failed", "kept", "dead"}

Nothing == [c \in Components |-> Absent]

Init ==
    /\ live = Initial
    /\ artifacts = Initial[Database].index
    /\ pc = [i \in Restores |-> "idle"]
    /\ which \in [Restores -> Backups]
    /\ staged = [i \in Restores |-> Nothing]
    /\ original = [i \in Restores |-> Nothing]
    /\ at = [i \in Restores |-> 1]
    /\ moves = [i \in Restores |-> [original |-> {}, staged |-> {}]]
    /\ stuck = [i \in Restores |-> FALSE]
    /\ before = [i \in Restores |-> Nothing]
    /\ target = [i \in Restores |-> Nothing]

Goto(i, step) == pc' = [pc EXCEPT ![i] = step]
Quiet == \A i \in Restores : pc[i] \notin Running

-----------------------------------------------------------------------------
(* Before the swap. *)

\* loadAndValidate verifies the backup; the workspace's own metadata, which
\* must be readable, says that the backup belongs to it.
Load(i) ==
    /\ pc[i] = "idle"
    /\ Overlap \/ Quiet
    /\ Goto(i, IF live[Metadata] = Absent THEN "refused" ELSE "stage")
    /\ UNCHANGED <<live, artifacts, local>>

\* Every file is copied and verified again.
Stage(i) ==
    /\ pc[i] = "stage"
    /\ staged' = [staged EXCEPT ![i] = Saved[which[i]]]
    /\ Goto(i, IF Saved[which[i]][Database] = Absent THEN "begin" ELSE "reconcile")
    /\ UNCHANGED <<live, artifacts, which, original, at, moves, stuck, before, target>>

\* Mutant: the saved database replaces the index of the visible artifacts too.
ReconciledNot(saved, current) == saved

\* ReconcileUnbackedArtifacts: the artifacts are not in the backup, so their
\* index is taken from the current database.
Reconciled(saved, current) == [saved EXCEPT !.index = current.index]

Reconcile(i) ==
    /\ pc[i] = "reconcile"
    /\ IF live[Database] = Absent
       THEN Goto(i, "refused") /\ UNCHANGED staged
       ELSE /\ staged' = [staged EXCEPT ![i][Database] = Reconciled(@, live[Database])]
            /\ Goto(i, "begin")
    /\ UNCHANGED <<live, artifacts, which, original, at, moves, stuck, before, target>>

\* A step before the swap fails: nothing has changed.
Refuse(i) ==
    /\ pc[i] \in {"stage", "reconcile", "begin"}
    /\ Goto(i, "refused")
    /\ staged' = [staged EXCEPT ![i] = Nothing]
    /\ UNCHANGED <<live, artifacts, which, original, at, moves, stuck, before, target>>

-----------------------------------------------------------------------------
(* The swap: replaceComponent for each component. *)

\* The recovery directory is made.
Begin(i) ==
    /\ pc[i] = "begin"
    /\ at' = [at EXCEPT ![i] = 1]
    /\ before' = [before EXCEPT ![i] = live]
    /\ target' = [target EXCEPT ![i] = staged[i]]
    /\ Goto(i, "preserve")
    /\ UNCHANGED <<live, artifacts, which, staged, original, moves, stuck>>

\* The original, if there is one, is renamed into the recovery directory.
Preserve(i) ==
    LET c == at[i]
    IN  /\ pc[i] = "preserve"
        /\ IF live[c] = Absent
           THEN UNCHANGED <<live, original, moves>>
           ELSE /\ original' = [original EXCEPT ![i][c] = live[c]]
                /\ live' = [live EXCEPT ![c] = Absent]
                /\ moves' = [moves EXCEPT ![i].original = @ \union {c}]
        /\ Goto(i, "commit")
        /\ UNCHANGED <<artifacts, which, staged, at, stuck, before, target>>

\* A failed preservation leaves no move of its component to roll back.
PreserveFails(i) ==
    /\ "rename" \in Faults /\ pc[i] = "preserve" /\ live[at[i]] # Absent
    /\ at' = [at EXCEPT ![i] = @ - 1]
    /\ Goto(i, "remove")
    /\ UNCHANGED <<live, artifacts, which, staged, original, moves, stuck, before, target>>

\* A file is replaced by a rename onto it, a directory is not.
Occupied(c) == c = StateDirectory /\ live[c] # Absent

\* The staged component, if there is one, is renamed into its place.
Commit(i) ==
    LET c == at[i]
    IN  /\ pc[i] = "commit"
        /\ IF staged[i][c] = Absent
           THEN UNCHANGED <<live, staged, moves>>
           ELSE /\ ~Occupied(c)
                /\ live' = [live EXCEPT ![c] = staged[i][c]]
                /\ staged' = [staged EXCEPT ![i][c] = Absent]
                /\ moves' = [moves EXCEPT ![i].staged = @ \union {c}]
        /\ IF c = StateDirectory
           THEN Goto(i, "discard") /\ UNCHANGED at
           ELSE Goto(i, "preserve") /\ at' = [at EXCEPT ![i] = @ + 1]
        /\ UNCHANGED <<artifacts, which, original, stuck, before, target>>

\* Mutant: the component whose commit failed is not rolled back.
CommitFailsUnrecorded(i) ==
    /\ pc[i] = "commit" /\ staged[i][at[i]] # Absent
    /\ "rename" \in Faults \/ Occupied(at[i])
    /\ at' = [at EXCEPT ![i] = @ - 1]
    /\ Goto(i, "remove")
    /\ UNCHANGED <<live, artifacts, which, staged, original, moves, stuck, before, target>>

CommitFails(i) ==
    /\ pc[i] = "commit" /\ staged[i][at[i]] # Absent
    /\ "rename" \in Faults \/ Occupied(at[i])
    /\ Goto(i, "remove")
    /\ UNCHANGED <<live, artifacts, local>>

-----------------------------------------------------------------------------
(* rollback, from the last move to the first. *)

\* A component that was put in place is removed again.
Remove(i) ==
    LET c == at[i]
    IN  /\ pc[i] = "remove" /\ c # 0
        /\ live' = IF c \in moves[i].staged THEN [live EXCEPT ![c] = Absent] ELSE live
        /\ Goto(i, "putback")
        /\ UNCHANGED <<artifacts, local>>

RemoveFails(i) ==
    /\ "remove" \in Faults /\ pc[i] = "remove" /\ at[i] \in moves[i].staged
    /\ stuck' = [stuck EXCEPT ![i] = TRUE]
    /\ at' = [at EXCEPT ![i] = @ - 1]
    /\ UNCHANGED <<live, artifacts, pc, which, staged, original, moves, before, target>>

\* The original is renamed back.
PutBack(i) ==
    LET c == at[i]
    IN  /\ pc[i] = "putback"
        /\ IF c \in moves[i].original
           THEN /\ ~Occupied(c)
                /\ live' = [live EXCEPT ![c] = original[i][c]]
                /\ original' = [original EXCEPT ![i][c] = Absent]
           ELSE UNCHANGED <<live, original>>
        /\ at' = [at EXCEPT ![i] = @ - 1]
        /\ Goto(i, "remove")
        /\ UNCHANGED <<artifacts, which, staged, moves, stuck, before, target>>

\* Mutant: the rollback reports no error.
PutBackFailsSilently(i) ==
    LET c == at[i]
    IN  /\ pc[i] = "putback" /\ c \in moves[i].original
        /\ "rename" \in Faults \/ Occupied(c)
        /\ at' = [at EXCEPT ![i] = @ - 1]
        /\ Goto(i, "remove")
        /\ UNCHANGED <<live, artifacts, which, staged, original, moves, stuck, before, target>>

PutBackFails(i) ==
    LET c == at[i]
    IN  /\ pc[i] = "putback" /\ c \in moves[i].original
        /\ "rename" \in Faults \/ Occupied(c)
        /\ stuck' = [stuck EXCEPT ![i] = TRUE]
        /\ at' = [at EXCEPT ![i] = @ - 1]
        /\ Goto(i, "remove")
        /\ UNCHANGED <<live, artifacts, which, staged, original, moves, before, target>>

-----------------------------------------------------------------------------
(* The end of a restore. *)

\* The invocation is over; nothing reads its staging directory any more.
Forget(i) ==
    /\ staged' = [staged EXCEPT ![i] = Nothing]
    /\ at' = [at EXCEPT ![i] = 1]
    /\ moves' = [moves EXCEPT ![i] = [original |-> {}, staged |-> {}]]
    /\ stuck' = [stuck EXCEPT ![i] = FALSE]
    /\ before' = [before EXCEPT ![i] = Nothing]
    /\ target' = [target EXCEPT ![i] = Nothing]

\* A failed rollback retains the recovery directory and reports it.
RolledBack(i) ==
    /\ pc[i] = "remove" /\ at[i] = 0
    /\ IF stuck[i]
       THEN Goto(i, "kept") /\ Forget(i)
       ELSE Goto(i, "clean") /\ UNCHANGED <<staged, at, moves, stuck, before, target>>
    /\ UNCHANGED <<live, artifacts, which, original>>

\* The recovery directory and the staging directory are removed; that they
\* cannot be is no error.
End(i) ==
    /\ pc[i] \in {"discard", "clean"}
    /\ original' \in {[original EXCEPT ![i] = Nothing]}
                        \union {o \in {original} : "remove" \in Faults}
    /\ Goto(i, IF pc[i] = "discard" THEN "done" ELSE "failed")
    /\ Forget(i)
    /\ UNCHANGED <<live, artifacts, which>>

Die(i) ==
    /\ "death" \in Faults /\ pc[i] \in Running
    /\ Goto(i, "dead")
    /\ Forget(i)
    /\ UNCHANGED <<live, artifacts, which, original>>

-----------------------------------------------------------------------------
(* Other commands. *)

\* A command of the workspace writes a component, or makes it anew.
Work(c, d) ==
    /\ Commands \/ Quiet
    /\ live[Metadata] # Absent
    /\ \E x \in Indexes :
        /\ live[c] # Absent => x = live[c].index
        /\ live' = [live EXCEPT ![c] = [data |-> d, index |-> x]]
    /\ UNCHANGED <<artifacts, pc, local>>

\* A command writes the visible artifacts and records what it wrote.
Regenerate(x) ==
    /\ Commands \/ Quiet
    /\ live[Metadata] # Absent /\ live[Database] # Absent
    /\ live' = [live EXCEPT ![Database].index = x]
    /\ artifacts' = x
    /\ UNCHANGED <<pc, local>>

Step(i) ==
    \/ Load(i) \/ Stage(i) \/ Reconcile(i) \/ Refuse(i)
    \/ Begin(i) \/ Preserve(i) \/ PreserveFails(i) \/ Commit(i) \/ CommitFails(i)
    \/ Remove(i) \/ RemoveFails(i) \/ PutBack(i) \/ PutBackFails(i) \/ RolledBack(i)
    \/ End(i) \/ Die(i)

Next ==
    \/ \E i \in Restores : Step(i)
    \/ \E c \in Written, d \in Data : Work(c, d)
    \/ \E x \in Indexes : Regenerate(x)

Spec == Init /\ [][Next]_vars

-----------------------------------------------------------------------------
(* Properties. *)

\* Every variable has its type, and what a restore has put in place it no
\* longer has staged: a component is moved, never copied.
TypeOK ==
    /\ live \in [Components -> Slots]
    /\ artifacts \in Indexes
    /\ pc \in [Restores -> Steps]
    /\ which \in [Restores -> Backups]
    /\ staged \in [Restores -> [Components -> Slots]]
    /\ original \in [Restores -> [Components -> Slots]]
    /\ at \in [Restores -> 0..4]
    /\ moves \in [Restores -> [original : SUBSET Components, staged : SUBSET Components]]
    /\ stuck \in [Restores -> BOOLEAN]
    /\ before \in [Restores -> [Components -> Slots]]
    /\ target \in [Restores -> [Components -> Slots]]
    /\ \A i \in Restores : \A c \in moves[i].staged : staged[i][c] = Absent

Ends(i, step) == pc[i] # step /\ pc'[i] = step

\* A restore ends with every component restored, or with every component as
\* it was, or says that it could do neither and keeps what it lacks.
EndsWhole ==
    [][\A i \in Restores :
        /\ Ends(i, "done") => live' = target[i]
        /\ Ends(i, "failed") => live' = before[i]
        /\ Ends(i, "kept") => \A c \in Components :
            before[i][c] \in {live'[c], original'[i][c], Absent}]_vars

Held(c) == {live[c]} \union {original[i][c] : i \in Restores}

\* No step of a restore, whether it fails or dies, makes the last copy of a
\* component disappear, except that a complete restore drops what it replaced
\* and a rollback takes away what came from the backup.
NothingIsLost ==
    [][pc' = pc \/ \A c \in Components : \A v \in Held(c) \ (Held(c)' \union {Absent}) :
        \E i \in Restores :
            \/ Ends(i, "done") /\ live' = target[i]
            \/ pc[i] = "remove" /\ v = target[i][c]]_vars

\* After restores that completed or were undone, the database knows the
\* visible artifacts that are there: its index neither takes an older
\* projection for a current one nor a current one for a person's edit.  A
\* backup without a database has no index to keep.
Coherent(i) ==
    /\ pc[i] \notin {"kept", "dead"}
    /\ pc[i] = "done" => Saved[which[i]][Database] # Absent

IndexIsExact ==
    Quiet /\ (\A i \in Restores : Coherent(i)) =>
        live[Database] # Absent /\ live[Database].index = artifacts

\* To whoever looks while no restore is at work, a restore is one step: until
\* it has ended the workspace counts as it was when the swap began.
AtRest ==
    IF \E i \in Restores : pc[i] \in Committing
    THEN before[CHOOSE i \in Restores : pc[i] \in Committing] ELSE live
Status == [i \in Restores |-> IF pc[i] \in Running THEN "busy" ELSE pc[i]]
Recovery == [i \in Restores |-> IF pc[i] \in Running THEN Nothing ELSE original[i]]

Promise == INSTANCE AtomicRestore WITH
    workspace <- AtRest, status <- Status, recovery <- Recovery

ImplementsRestore == Promise!Spec
====
