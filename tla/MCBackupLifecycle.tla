------------------------- MODULE MCBackupLifecycle --------------------------
EXTENDS BackupLifecycle, TLC
=============================================================================
