--------------------------- MODULE MCMultiRepoRun ---------------------------
EXTENDS MultiRepoRun

\* With and without the repositories' scripts, prune and compact; compact alone goes with
\* those scripts, prune alone without, and the schedule's own scripts go with prune.
MCFlagSets ==
    {f \in Flags : {f.pre, f.post} = {f.prune} /\ f.compact \in {f.prune, f.hooks}}

\* One script, after the backup, and two for each hook, whose conditions may be edited.
MCScriptSets ==
    {[pre |-> {}, post |-> {1}, runOn |-> <<"success", "always">>],
     [pre |-> {1, 2}, post |-> {1, 2}, runOn |-> <<"failure", "success">>],
     [pre |-> {1, 2}, post |-> {1, 2}, runOn |-> <<"always", "warning">>]}
=============================================================================
