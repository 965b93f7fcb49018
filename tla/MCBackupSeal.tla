---------------------------- MODULE MCBackupSeal ----------------------------
(* Three contents: the one on disk and those of two saves that follow it.  *)
EXTENDS BackupSeal
=============================================================================
