---- MODULE BackupCatalog ----
(***************************************************************************)
(* The backups of one workspace, .kelyro/backups, under invocations that   *)
(* each create one backup and then apply the retention.  Nothing locks the *)
(* directory: an invocation lists it, reads the manifests one by one and   *)
(* removes the oldest, while others publish and remove.                    *)
(*                                                                         *)
(* A backup is named by the invocation that creates it.  Its id is its     *)
(* UTC time followed by random digits, so the order of the names, which    *)
(* decides between equal times, is any order of the invocations.           *)
(***************************************************************************)
EXTENDS Naturals, FiniteSets

CONSTANTS
    Creators,
    Retention,  \* backup.retention
    Times,      \* what the wall clock may show
    Faults      \* what may go wrong: "failed" calls, "dead" processes

ASSUME CreatorAssumption == Creators \subseteq Nat /\ IsFiniteSet(Creators)
ASSUME RetentionAssumption == Retention \in 1..100
ASSUME TimeAssumption == Times \subseteq Nat /\ Times # {}
ASSUME FaultAssumption == Faults \subseteq {"failed", "dead"}

VARIABLES
    dir,        \* the directory of each backup
    created,    \* the manifest's created_at
    now,
    pc,
    names,      \* the directories an invocation listed
    loaded      \* those whose manifest it read and that it has not removed

vars == <<dir, created, now, pc, names, loaded>>

\* "none" is not published yet; removing a directory takes its manifest or
\* some of its data away first.
Directories == {"none", "whole", "dataless", "manifestless", "gone"}
Running == {"publish", "scan", "load", "prune", "remove"}
Steps == Running \union {"idle", "done", "failed", "dead"}

Published == {b \in Creators : dir[b] # "none"}
Present == {b \in Creators : dir[b] \notin {"none", "gone"}}

\* The order of prune: by time, then by id.
Older(a, b) == created[a] < created[b] \/ (created[a] = created[b] /\ a < b)

Oldest(S) == {a \in S : \A b \in S \ {a} : Older(a, b)}

Goto(i, step) == pc' = [pc EXCEPT ![i] = step]

Init ==
    /\ dir = [b \in Creators |-> "none"]
    /\ created = [b \in Creators |-> 0]
    /\ now \in Times
    /\ pc = [i \in Creators |-> "idle"]
    /\ names = [i \in Creators |-> {}]
    /\ loaded = [i \in Creators |-> {}]

-----------------------------------------------------------------------------
(* Create. *)

Begin(i) ==
    /\ pc[i] = "idle"
    /\ created' = [created EXCEPT ![i] = now]
    /\ Goto(i, "publish")
    /\ UNCHANGED <<dir, now, names, loaded>>

\* The allowlisted files are copied to a hidden staging directory, which is
\* validated, given its manifest and renamed to the id.
Publish(i) ==
    /\ pc[i] = "publish"
    /\ dir' = [dir EXCEPT ![i] = "whole"]
    /\ Goto(i, "scan")
    /\ UNCHANGED <<created, now, names, loaded>>

-----------------------------------------------------------------------------
(* prune. *)

Scan(i) ==
    /\ pc[i] = "scan"
    /\ names' = [names EXCEPT ![i] = Present]
    /\ Goto(i, "load")
    /\ UNCHANGED <<dir, created, now, loaded>>

\* Reads the next manifest, in the order of the names.  Without a manifest,
\* because another invocation has removed it or died in removing it, Create
\* fails though its backup is published.
Load(i) ==
    /\ pc[i] = "load"
    /\ \E b \in Oldest(names[i] \ loaded[i]) :
        IF dir[b] \in {"whole", "dataless"}
        THEN /\ loaded' = [loaded EXCEPT ![i] = @ \union {b}]
             /\ UNCHANGED pc
        ELSE /\ Goto(i, "failed")
             /\ UNCHANGED loaded
    /\ UNCHANGED <<dir, created, now, names>>

Loaded(i) ==
    /\ pc[i] = "load"
    /\ names[i] \subseteq loaded[i]
    /\ Goto(i, "prune")
    /\ UNCHANGED <<dir, created, now, names, loaded>>

\* What is left of a directory while it is being removed.
Shrunk(d) ==
    CASE d = "whole" -> {"dataless", "manifestless"}
      [] d \in {"dataless", "manifestless"} -> {"manifestless"}
      [] d = "gone" -> {"gone"}

\* Mutant: the retention counts from zero.
RemoveOneMore(i) ==
    /\ pc[i] = "prune"
    /\ Cardinality(loaded[i]) > Retention - 1
    /\ \E b \in Oldest(loaded[i]) : \E d \in Shrunk(dir[b]) :
        dir' = [dir EXCEPT ![b] = d]
    /\ Goto(i, "remove")
    /\ UNCHANGED <<created, now, names, loaded>>

\* removeAll begins on the oldest backup.  Another invocation may be removing
\* it as well.
Remove(i) ==
    /\ pc[i] = "prune"
    /\ Cardinality(loaded[i]) > Retention
    /\ \E b \in Oldest(loaded[i]) : \E d \in Shrunk(dir[b]) :
        dir' = [dir EXCEPT ![b] = d]
    /\ Goto(i, "remove")
    /\ UNCHANGED <<created, now, names, loaded>>

Removed(i) ==
    /\ pc[i] = "remove"
    /\ \E b \in Oldest(loaded[i]) :
        /\ dir' = [dir EXCEPT ![b] = "gone"]
        /\ loaded' = [loaded EXCEPT ![i] = @ \ {b}]
    /\ Goto(i, "prune")
    /\ UNCHANGED <<created, now, names>>

\* Mutant: a backup too many is no reason to remove one.
ReportEarly(i) ==
    /\ pc[i] = "prune"
    /\ Cardinality(loaded[i]) <= Retention + 1
    /\ Goto(i, "done")
    /\ UNCHANGED <<dir, created, now, names, loaded>>

\* Create returns the backup's description.
Report(i) ==
    /\ pc[i] = "prune"
    /\ Cardinality(loaded[i]) <= Retention
    /\ Goto(i, "done")
    /\ UNCHANGED <<dir, created, now, names, loaded>>

\* A call fails and Create returns its error, or the process dies.
Stop(i) ==
    /\ pc[i] \in Running
    /\ \E fault \in Faults : Goto(i, fault)
    /\ UNCHANGED <<dir, created, now, names, loaded>>

Tick ==
    /\ now' \in Times
    /\ UNCHANGED <<dir, created, pc, names, loaded>>

Step(i) ==
    \/ Begin(i) \/ Publish(i)
    \/ Scan(i) \/ Load(i) \/ Loaded(i)
    \/ Remove(i) \/ Removed(i) \/ Report(i)
    \/ Stop(i)

Next == Tick \/ \E i \in Creators : Step(i)

Spec == Init /\ [][Next]_vars

-----------------------------------------------------------------------------
(* Properties. *)

\* Every variable has its type, and an invocation lists published backups only.
TypeOK ==
    /\ dir \in [Creators -> Directories]
    /\ created \in [Creators -> Nat]
    /\ now \in Nat
    /\ pc \in [Creators -> Steps]
    /\ names \in [Creators -> SUBSET Creators]
    /\ loaded \in [Creators -> SUBSET Creators]
    /\ \A i \in Creators : loaded[i] \subseteq names[i] /\ names[i] \subseteq Published

Newer(b) == {a \in Published : Older(b, a)}

\* The Retention newest backups ever published are whole, whatever overlaps,
\* fails, dies or sets the clock: no two invocations that remove backups can
\* together remove too many.
NewestKept ==
    \A b \in Published :
        Cardinality(Newer(b)) < Retention => dir[b] = "whole"

\* After an invocation that listed every backup has reported success, no
\* more than Retention remain, also when others overlapped with it or died.
RetentionHonoured ==
    \A i \in Creators :
        pc[i] = "done" /\ Published \subseteq names[i]
            => Cardinality(Present) <= Retention

====
