---------------------------- MODULE MCServiceJobs ----------------------------
EXTENDS ServiceJobs, TLC
=============================================================================
