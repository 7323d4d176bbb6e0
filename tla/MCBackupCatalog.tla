---- MODULE MCBackupCatalog ----
(* Small instances of BackupCatalog for TLC. *)
EXTENDS BackupCatalog
====
