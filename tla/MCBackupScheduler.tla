------------------------- MODULE MCBackupScheduler --------------------------
(***************************************************************************)
(* BackupScheduler for TLC.                                                *)
(***************************************************************************)
EXTENDS BackupScheduler, TLC

CONSTANTS x, y, z, n, m
=============================================================================
