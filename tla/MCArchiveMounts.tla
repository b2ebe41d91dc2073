--------------------------- MODULE MCArchiveMounts ---------------------------
EXTENDS ArchiveMounts, TLC
=============================================================================
