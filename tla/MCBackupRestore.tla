-------------------------- MODULE MCBackupRestore ---------------------------
(***************************************************************************)
(* Small instances of BackupRestore.                                       *)
(***************************************************************************)
EXTENDS BackupRestore
=============================================================================
