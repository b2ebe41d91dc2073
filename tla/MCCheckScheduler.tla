-------------------------- MODULE MCCheckScheduler --------------------------
EXTENDS CheckScheduler, TLC
=============================================================================
