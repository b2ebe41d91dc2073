----------------------- MODULE MCScheduledMaintenance -----------------------
EXTENDS ScheduledMaintenance, TLC

CONSTANTS c1, c2

Setup(p1, p2, v, n) == [plan |-> (c1 :> p1) @@ (c2 :> p2), borg |-> v, faults |-> n]

\* Both kinds of maintenance and two running rows of one kind, which is what a cancel request
\* can confuse, without a fault; and with one: two rows of one kind, both kinds after each
\* other with either version of Borg, and the compaction of Borg 2 beside a prune.
MCSetups ==
  {Setup({"prune", "compact"}, {"prune"}, 1, 0), Setup({"prune"}, {"prune"}, 1, 1),
   Setup({"prune", "compact"}, {}, 1, 1), Setup({"prune", "compact"}, {}, 2, 1),
   Setup({"compact"}, {"prune"}, 2, 1)}
=============================================================================
