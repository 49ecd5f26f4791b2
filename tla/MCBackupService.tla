-------------------------- MODULE MCBackupService --------------------------
(***************************************************************************)
(* BackupService on small instances: one admin besides the scheduler, as   *)
(* two runs at once are what the flag forbids, and orders that come while  *)
(* a dump is made.                                                         *)
(***************************************************************************)
EXTENDS BackupService
=============================================================================
