---- MODULE AtomicRestore ----
(***************************************************************************)
(* What a restore promises to whoever looks at the workspace while none is *)
(* at work: it changes everything in one step or nothing, or it breaks off *)
(* and then each component is in its place or in the recovery directory.   *)
(***************************************************************************)
CONSTANTS
    Restores, Components, Database, Metadata, Data, Indexes, Absent,
    Saved,      \* the backups: what each holds of each component
    Initial,    \* the workspace at first
    Written     \* the components that commands write

VARIABLES
    workspace,  \* its components
    artifacts,  \* the visible artifacts, by what an exact index says of them
    status,     \* of each restore
    which,      \* its backup
    recovery    \* what it leaves in its recovery directory

vars == <<workspace, artifacts, status, which, recovery>>

Nothing == [c \in Components |-> Absent]
Busy == \E i \in Restores : status[i] = "busy"
Becomes(i, s) == status' = [status EXCEPT ![i] = s]

Init ==
    /\ workspace = Initial
    /\ artifacts = Initial[Database].index
    /\ status = [i \in Restores |-> "idle"]
    /\ which \in [Restores -> DOMAIN Saved]
    /\ recovery = [i \in Restores |-> Nothing]

Start(i) ==
    /\ status[i] = "idle" /\ ~Busy
    /\ workspace[Metadata] # Absent
    /\ Becomes(i, "busy")
    /\ UNCHANGED <<workspace, artifacts, which, recovery>>

Refuse(i) ==
    /\ status[i] = "busy" \/ (status[i] = "idle" /\ workspace[Metadata] = Absent)
    /\ Becomes(i, "refused")
    /\ UNCHANGED <<workspace, artifacts, which, recovery>>

\* What a restore makes of the workspace: the backup, with the index of the
\* artifacts that stay where they are.
Indexed(saved, current) ==
    IF saved = Absent \/ current = Absent THEN saved ELSE [saved EXCEPT !.index = current.index]
Image(i) == [Saved[which[i]] EXCEPT ![Database] = Indexed(@, workspace[Database])]
Ready(i) == Saved[which[i]][Database] # Absent => workspace[Database] # Absent

Complete(i) ==
    /\ status[i] = "busy" /\ Ready(i)
    /\ Becomes(i, "done")
    /\ workspace' = Image(i)
    /\ recovery' \in {recovery, [recovery EXCEPT ![i] = workspace]}
    /\ UNCHANGED <<artifacts, which>>

Undo(i) ==
    /\ status[i] = "busy"
    /\ Becomes(i, "failed")
    /\ UNCHANGED <<workspace, artifacts, which, recovery>>

\* A restore whose rollback failed says so; one whose process died does not.
BreakOff(i) ==
    /\ status[i] = "busy"
    /\ Becomes(i, "kept") \/ Becomes(i, "dead")
    /\ \E taken \in SUBSET Components : \E placed \in SUBSET taken :
        /\ taken # {} => Ready(i)
        /\ workspace' = [c \in Components |->
                IF c \in placed THEN Image(i)[c] ELSE IF c \in taken THEN Absent ELSE workspace[c]]
        /\ recovery' = [recovery EXCEPT ![i] =
                [c \in Components |-> IF c \in taken THEN workspace[c] ELSE Absent]]
    /\ UNCHANGED <<artifacts, which>>

\* Commands of the workspace.
Work(c, d) ==
    /\ ~Busy /\ workspace[Metadata] # Absent
    /\ \E x \in Indexes :
        /\ workspace[c] # Absent => x = workspace[c].index
        /\ workspace' = [workspace EXCEPT ![c] = [data |-> d, index |-> x]]
    /\ UNCHANGED <<artifacts, status, which, recovery>>

Regenerate(x) ==
    /\ ~Busy /\ workspace[Metadata] # Absent /\ workspace[Database] # Absent
    /\ workspace' = [workspace EXCEPT ![Database].index = x]
    /\ artifacts' = x
    /\ UNCHANGED <<status, which, recovery>>

Next ==
    \/ \E i \in Restores : Start(i) \/ Refuse(i) \/ Complete(i) \/ Undo(i) \/ BreakOff(i)
    \/ \E c \in Written, d \in Data : Work(c, d)
    \/ \E x \in Indexes : Regenerate(x)

Spec == Init /\ [][Next]_vars
====
