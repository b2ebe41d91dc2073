------------------------- MODULE MCBackupScheduler --------------------------
EXTENDS BackupScheduler, TLC
=============================================================================
