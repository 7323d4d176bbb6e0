---- MODULE MCBackupRestore ----
(* Small instances of BackupRestore for TLC. *)
EXTENDS BackupRestore, TLC

CONSTANTS old, new, zero, one, r1, r2

Content(d, x) == [data |-> d, index |-> x]
Workspace == [c \in Components |-> Content(new, zero)]

\* A full backup, and one of a workspace without a database and a config.
Full == [c \in Components |-> Content(old, zero)]
Bare == [Full EXCEPT ![Database] = Absent, ![2] = Absent]
Two == <<Full, Bare>>

Permuted == Permutations(Restores)
====
