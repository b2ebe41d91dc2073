------------------------ MODULE ScheduledMaintenance ------------------------
(***************************************************************************)
(* The maintenance a scheduled backup runs after itself: prune and compact *)
(* of the repository it backed up, one after the other in the same         *)
(* coroutine (a chain), each with a PruneJob or CompactJob row (a child)   *)
(* and a borg process of its own; the cancel endpoint, which finds the     *)
(* child through the repository path; deletion of rows and schedules;      *)
(* commits that meet a lock; and a restart.                                *)
(*                                                                         *)
(* All chains work on one repository: several schedules may name it.       *)
(* A chain commits several times between two awaits. Those commits are     *)
(* separate steps, because a crash can fall between them, but no request   *)
(* and no other chain runs until the chain is suspended again.             *)
(***************************************************************************)
EXTENDS Integers, Sequences, FiniteSets

CONSTANTS
  Chains,      \* scheduled runs of backups of one repository
  Setups       \* what the schedules ask for, chain by chain, the version of Borg of the
               \* repository, and a bound: rows and schedules that users delete, and chains
               \* and services that give up on a locked database

ASSUME SetupsAssumption ==
  Setups \subseteq [plan : [Chains -> SUBSET {"prune", "compact"}], borg : {1, 2}, faults : Nat]

VARIABLES
  up,         \* the server process serves requests
  setup,      \* the schedules and the repository, a member of Setups
  dropped,    \* chains whose schedule a user deleted
  backup,     \* backup[c]: status of the backup row
  maint,      \* maint[c]: maintenance_status of the backup row
  child,      \* child[c][k]: status of the child row of kind k
  made,       \* made[k]: the chains in the order of the ids of their child rows of kind k
  pc,         \* pc[c]: stage of the chain and position within the stage
  proc,       \* proc[c]: the borg process the chain waits for
  canceller,  \* canceller[c]: child that a cancel request for backup c waits for
  cut,        \* chains that a locked commit of their own put an end to
  lost        \* children whose service or chain gave up writing them

faults == <<cut, lost>>
vars == <<up, setup, dropped, backup, maint, child, made, pc, proc, canceller, cut, lost>>

plan == setup.plan    \* plan[c]: the maintenance the schedule of c asks for
borg == setup.borg

Kinds == {"prune", "compact"}
EndedStatus == {"completed", "completed_with_warnings", "failed", "cancelled"}

\* The values of maintenance_status, by the kind of maintenance they speak of.
Running(k)   == IF k = "prune" THEN "running_prune" ELSE "running_compact"
Completed(k) == IF k = "prune" THEN "prune_completed" ELSE "compact_completed"

Failed(k)    == IF k = "prune" THEN "prune_failed" ELSE "compact_failed"
MaintStatus  == {"none", "running_prune", "prune_completed", "prune_failed",
                 "running_compact", "compact_completed", "compact_failed",
                 "maintenance_completed"}

\* Within a stage: about to create the child, to mark the backup row, to start the
\* child; suspended before the start is committed again, in the spawn, or waiting for
\* borg; about to settle the result.
Position == {"create", "mark", "start", "retry", "spawn", "wait", "settle"}
Nowhere == [target |-> "none", kind |-> "prune"]

TypeOK ==
  /\ up \in BOOLEAN
  /\ setup \in Setups
  /\ dropped \subseteq Chains
  /\ backup \in [Chains -> {"running", "deleted"} \cup EndedStatus]
  /\ maint \in [Chains -> MaintStatus]
  /\ child \in [Chains -> [Kinds -> {"absent", "deleted", "pending", "running"} \cup EndedStatus]]
  /\ made \in [Kinds -> Seq(Chains)]
  /\ pc \in [Chains -> [stage : {"backup", "finish", "done"} \cup Kinds, at : Position]]
  /\ proc \in [Chains -> {"none", "alive", "terminated", "gone"}]
  /\ canceller \in [Chains -> [target : {"none"} \cup Chains, kind : Kinds]]
  /\ cut \subseteq Chains
  /\ lost \subseteq Chains \X Kinds

Init ==
  /\ up = TRUE
  /\ setup \in Setups
  /\ dropped = {}
  /\ backup = [c \in Chains |-> "running"]
  /\ maint = [c \in Chains |-> "none"]
  /\ child = [c \in Chains |-> [k \in Kinds |-> "absent"]]
  /\ made = [k \in Kinds |-> <<>>]
  /\ pc = [c \in Chains |-> [stage |-> "backup", at |-> "create"]]
  /\ proc = [c \in Chains |-> "none"]
  /\ canceller = [c \in Chains |-> Nowhere]
  /\ cut = {}
  /\ lost = {}

-----------------------------------------------------------------------------
(* Where a chain is, and who may run. *)

At(c, k, p) == pc[c] = [stage |-> k, at |-> p]
GoTo(c, s, p) == pc' = [pc EXCEPT ![c] = [stage |-> s, at |-> p]]

\* The chain is between two commits of one segment: nothing else runs on the event loop.
InSegment(c) ==
  \/ pc[c].stage = "finish"
  \/ pc[c].stage \in Kinds /\ pc[c].at \notin {"retry", "spawn", "wait"}

MayStep(c) == up /\ \A d \in Chains \ {c} : ~InSegment(d)
LoopFree == up /\ \A d \in Chains : ~InSegment(d)

\* The next stage after s that the schedule asks for.
NextStage(c, s) ==
  IF s = "backup" /\ "prune" \in plan[c] THEN "prune"
  ELSE IF s \in {"backup", "prune"} /\ "compact" \in plan[c] THEN "compact"
  ELSE "finish"

SetMaint(c, m) == maint' = [maint EXCEPT ![c] = IF backup[c] = "deleted" THEN @ ELSE m]
SetChild(c, k, s) ==
  child' = [child EXCEPT ![c][k] = IF @ = "deleted" THEN @ ELSE s]

\* Bound: rows and schedules that are deleted, or given up because of a lock.
MayFail ==
  Cardinality(dropped) + Cardinality({c \in Chains : backup[c] = "deleted"})
    + Cardinality({r \in Chains \X Kinds : child[r[1]][r[2]] = "deleted"})
    + Cardinality(cut) + Cardinality(lost) < setup.faults

\* commit_with_retry met a lock to the end, and so did the except handler, if there is one:
\* the child stays as it is.
GiveUp(c, k) ==
  /\ MayFail
  /\ lost' = lost \cup {<<c, k>>}
  /\ UNCHANGED child

-----------------------------------------------------------------------------
(* The chain. *)

\* execute_backup returns; only a completed backup, with warnings or not, is maintained, and
\* only if its schedule is still there.
BackupEnds(c) ==
  /\ MayStep(c)
  /\ pc[c].stage = "backup"
  /\ \E s \in EndedStatus :
       /\ backup' = [backup EXCEPT ![c] = s]
       /\ GoTo(c, IF s \in {"completed", "completed_with_warnings"} /\ c \notin dropped
                  THEN NextStage(c, "backup") ELSE "done", "create")
  /\ UNCHANGED <<up, setup, dropped, faults, maint, child, made, proc, canceller>>

\* create_started_maintenance_job: a pending row of its own, whatever else runs.
CreateChild(c, k) ==
  /\ MayStep(c)
  /\ At(c, k, "create")
  /\ child' = [child EXCEPT ![c][k] = "pending"]
  /\ made' = [made EXCEPT ![k] = Append(@, c)]
  /\ GoTo(c, k, "mark")
  /\ UNCHANGED <<up, setup, dropped, faults, backup, maint, proc, canceller>>

\* maintenance_status = running_prune or running_compact, committed.
MarkBackup(c, k) ==
  /\ MayStep(c)
  /\ At(c, k, "mark")
  /\ maint' = [maint EXCEPT ![c] = Running(k)]
  /\ GoTo(c, k, "start")
  /\ UNCHANGED <<up, setup, dropped, faults, backup, child, made, proc, canceller>>

\* A commit of the chain itself meets a lock: nothing is written, the commit of the except
\* handler fails because the session waits for a rollback, and so does what comes after it.
\* The child that was created is never started.
CommitLocked(c, k) ==
  /\ MayStep(c) /\ MayFail
  /\ pc[c].stage = k /\ pc[c].at \in {"create", "mark", "settle"}
  /\ GoTo(c, "done", "create")
  /\ cut' = cut \cup {c}
  /\ lost' = IF pc[c].at = "create" THEN lost ELSE lost \cup {<<c, k>>}
  /\ UNCHANGED <<up, setup, dropped, backup, maint, child, made, proc, canceller>>

\* The service stores running, or fails for want of a repository, or sleeps because of a lock.
\* The compaction of Borg 2 leaves the status as it is.
StartChild(c, k) ==
  /\ MayStep(c)
  /\ At(c, k, "start")
  /\ \/ SetChild(c, k, IF k = "compact" /\ borg = 2 THEN "pending" ELSE "running")
        /\ GoTo(c, k, "spawn")
     \/ SetChild(c, k, "failed") /\ GoTo(c, k, "settle")
     \/ ~(k = "compact" /\ borg = 2) /\ GoTo(c, k, "retry") /\ UNCHANGED child
  /\ UNCHANGED <<up, setup, dropped, faults, backup, maint, made, proc, canceller>>

\* The start is committed in the end, or the service gives up and returns as if the row were
\* gone, which it may be by now. The pruning of Borg 2 stores failed then.
RetryStart(c, k) ==
  /\ MayStep(c)
  /\ At(c, k, "retry")
  /\ \/ /\ child[c][k] # "deleted"
        /\ SetChild(c, k, "running")
        /\ GoTo(c, k, "spawn")
        /\ UNCHANGED lost
     \/ /\ child[c][k] = "deleted" \/ borg = 2
        /\ SetChild(c, k, "failed")
        /\ GoTo(c, k, "settle")
        /\ UNCHANGED lost
     \/ GiveUp(c, k) /\ GoTo(c, k, "settle")
  /\ UNCHANGED <<up, setup, dropped, cut, backup, maint, made, proc, canceller>>

\* create_subprocess_exec returns: borg runs and can be found; or it raised, or the process
\* id could not be stored, and the except handler stores failed, or gives up.
Spawned(c, k) ==
  /\ MayStep(c)
  /\ At(c, k, "spawn")
  /\ \/ /\ proc' = [proc EXCEPT ![c] = "alive"]
        /\ GoTo(c, k, "wait")
        /\ UNCHANGED <<child, lost>>
     \/ /\ SetChild(c, k, "failed") /\ UNCHANGED lost
        /\ GoTo(c, k, "settle")
        /\ UNCHANGED proc
     \/ /\ GiveUp(c, k)
        /\ GoTo(c, k, "settle")
        /\ UNCHANGED proc
  /\ UNCHANGED <<up, setup, dropped, cut, backup, maint, made, canceller>>

\* Mutant of Heartbeat: looks at the backup row instead of the child.
HeartbeatWrongRow(c, k) ==
  /\ MayStep(c)
  /\ At(c, k, "wait")
  /\ backup[c] = "cancelled"
  /\ proc[c] = "alive"
  /\ proc' = [proc EXCEPT ![c] = "terminated"]
  /\ UNCHANGED <<up, setup, dropped, faults, backup, maint, child, made, pc, canceller>>

\* check_cancellation sees the cancelled row: SIGTERM, and SIGKILL after 5 s.
Heartbeat(c, k) ==
  /\ MayStep(c)
  /\ At(c, k, "wait")
  /\ child[c][k] = "cancelled"
  /\ proc[c] = "alive"
  /\ proc' = [proc EXCEPT ![c] = "terminated"]
  /\ UNCHANGED <<up, setup, dropped, faults, backup, maint, child, made, pc, canceller>>

\* borg ends, by itself or because it was told to.
ProcessExit(c) ==
  /\ up
  /\ proc[c] \in {"alive", "terminated"}
  /\ proc' = [proc EXCEPT ![c] = "gone"]
  /\ UNCHANGED <<up, setup, dropped, faults, backup, maint, child, made, pc, canceller>>

\* The service commits the final status: "cancelled" if its session has seen that, the
\* status the exit code stands for otherwise, even over a cancellation it has not seen. If
\* that meets a lock to the end, the except handler stores failed, or gives up.
ServiceEnd(c, k) ==
  /\ MayStep(c)
  /\ At(c, k, "wait")
  /\ proc[c] = "gone"
  /\ \/ \E s \in EndedStatus :
          /\ s = "cancelled" => child[c][k] = "cancelled"
          /\ SetChild(c, k, s)
          /\ UNCHANGED lost
     \/ GiveUp(c, k)
  /\ GoTo(c, k, "settle")
  /\ proc' = [proc EXCEPT ![c] = "none"]
  /\ UNCHANGED <<up, setup, dropped, cut, backup, maint, made, canceller>>

\* Mutant of Settle: any end of the service counts as success.
SettleBlind(c, k) ==
  /\ MayStep(c)
  /\ At(c, k, "settle")
  /\ SetMaint(c, Completed(k))
  /\ GoTo(c, NextStage(c, k), "create")
  /\ UNCHANGED <<up, setup, dropped, faults, backup, child, made, proc, canceller>>

\* Mutant of Settle: a child that ended with warnings is neither completed nor failed.
SettleForgetsWarnings(c, k) ==
  /\ MayStep(c)
  /\ At(c, k, "settle")
  /\ CASE child[c][k] = "completed" -> SetMaint(c, Completed(k))
       [] child[c][k] \in {"failed", "cancelled"} -> SetMaint(c, Failed(k))
       [] OTHER -> UNCHANGED maint
  /\ GoTo(c, NextStage(c, k), "create")
  /\ UNCHANGED <<up, setup, dropped, faults, backup, child, made, proc, canceller>>

\* What makes a later commit or read of the chain raise beyond its except handler: a deleted
\* backup row; a deleted prune row (of compaction it fails the refresh only); a deleted
\* schedule, if the time of the maintenance is to be written to it.
Abandoned(c, k) ==
  \/ backup[c] = "deleted"
  \/ k = "prune" /\ child[c][k] = "deleted"
  \/ c \in dropped /\ child[c][k] = "completed"

\* The child row is read back: completed without a warning, or failed. After a prune the
\* schedule is asked for compaction, which raises if it is gone.
Settle(c, k) ==
  /\ MayStep(c)
  /\ At(c, k, "settle")
  /\ \/ Abandoned(c, k) /\ GoTo(c, "done", "create") /\ UNCHANGED maint
     \/ /\ ~Abandoned(c, k)
        /\ SetMaint(c, IF child[c][k] = "completed" THEN Completed(k) ELSE Failed(k))
        /\ GoTo(c, IF k = "prune" /\ c \in dropped THEN "done" ELSE NextStage(c, k), "create")
  /\ UNCHANGED <<up, setup, dropped, faults, backup, child, made, proc, canceller>>

\* Maintenance that does not read as failed is completed, unless that commit meets a lock,
\* and the chain is over.
Finish(c) ==
  /\ MayStep(c)
  /\ pc[c].stage = "finish"
  /\ \/ /\ maint[c] \notin {"none", Failed("prune"), Failed("compact")}
        /\ SetMaint(c, "maintenance_completed")
     \/ /\ maint[c] \in {"none", Failed("prune"), Failed("compact")} \/ MayFail
        /\ UNCHANGED maint
  /\ GoTo(c, "done", "create")
  /\ UNCHANGED <<up, setup, dropped, faults, backup, child, made, proc, canceller>>

-----------------------------------------------------------------------------
(* Requests. *)

\* _get_running_maintenance_job: the newest running child of kind k of the repository.
RunningChildren(k) == {i \in DOMAIN made[k] : child[made[k][i]][k] = "running"}
Newest(k) == made[k][CHOOSE i \in RunningChildren(k) : \A m \in RunningChildren(k) : m <= i]

\* What the request commits: both rows, or neither if one of them is gone.
CommitCancel(c, t, k) ==
  IF backup[c] = "deleted" \/ child[t][k] = "deleted" THEN UNCHANGED <<maint, child>>
  ELSE SetMaint(c, Failed(k)) /\ SetChild(t, k, "cancelled")

\* POST /backup/cancel of a completed backup under maintenance. The process that is
\* found is told to stop and awaited before anything is committed.
CancelMaintenance(c, k) ==
  /\ LoopFree
  /\ backup[c] \in EndedStatus
  /\ maint[c] = Running(k)
  /\ canceller[c] = Nowhere
  /\ RunningChildren(k) # {}
  /\ LET t == Newest(k)
     IN IF At(t, k, "wait") /\ proc[t] # "gone"
        THEN /\ proc' = [proc EXCEPT ![t] = "terminated"]
             /\ canceller' = [canceller EXCEPT ![c] = [target |-> t, kind |-> k]]
             /\ UNCHANGED <<maint, child>>
        ELSE CommitCancel(c, t, k) /\ UNCHANGED <<proc, canceller>>
  /\ UNCHANGED <<up, setup, dropped, faults, backup, made, pc>>

\* The awaited process is gone (it may even be settled by now): the request commits, or
\* meets a lock.
CancelDone(c) ==
  /\ LoopFree
  /\ canceller[c] # Nowhere
  /\ \/ proc[canceller[c].target] \in {"none", "gone"}
     \/ pc[canceller[c].target].stage # canceller[c].kind
  /\ \/ CommitCancel(c, canceller[c].target, canceller[c].kind)
     \/ MayFail /\ UNCHANGED <<maint, child>>
  /\ canceller' = [canceller EXCEPT ![c] = Nowhere]
  /\ UNCHANGED <<up, setup, dropped, faults, backup, made, pc, proc>>

\* DELETE /activity/backup/{id}: the backup has ended, its maintenance may go on.
DeleteBackup(c) ==
  /\ LoopFree /\ MayFail
  /\ backup[c] \in EndedStatus
  /\ backup' = [backup EXCEPT ![c] = "deleted"]
  /\ UNCHANGED <<up, setup, dropped, faults, maint, child, made, pc, proc, canceller>>

\* DELETE /activity/prune/{id} or /activity/compact/{id}: any row that is not running.
DeleteChild(c, k) ==
  /\ LoopFree /\ MayFail
  /\ child[c][k] \in {"pending"} \cup EndedStatus
  /\ child' = [child EXCEPT ![c][k] = "deleted"]
  /\ UNCHANGED <<up, setup, dropped, faults, backup, maint, made, pc, proc, canceller>>

\* DELETE /schedule/{id} while its run lasts: nothing looks at what that does.
DeleteSchedule(c) ==
  /\ LoopFree /\ MayFail
  /\ c \notin dropped /\ pc[c].stage # "done"
  /\ dropped' = dropped \cup {c}
  /\ UNCHANGED <<up, setup, faults, backup, maint, child, made, pc, proc, canceller>>

-----------------------------------------------------------------------------
(* Restart. *)

\* The container stops, between any two commits.
Crash ==
  /\ up
  /\ up' = FALSE
  /\ pc' = [c \in Chains |-> [stage |-> "done", at |-> "create"]]
  /\ proc' = [c \in Chains |-> "none"]
  /\ canceller' = [c \in Chains |-> Nowhere]
  /\ UNCHANGED <<setup, dropped, faults, backup, maint, child, made>>

\* _mark_stale_backup_maintenance_failed leaves completed backups out.
StaleMaintenance(c) ==
  /\ maint[c] \in {Running(k) : k \in Kinds}
  /\ backup[c] \notin {"completed", "deleted"}

\* A running child that is failed takes every backup of the repository with it.
Orphaned(k) == \E d \in Chains : child[d][k] = "running"

\* Mutant of Recover: the children are left to their process ids.
RecoverBackupsOnly ==
  /\ ~up
  /\ up' = TRUE
  /\ backup' = [c \in Chains |-> IF StaleMaintenance(c) \/ backup[c] = "running"
                                 THEN "failed" ELSE backup[c]]
  /\ maint' = [c \in Chains |->
                 IF \E k \in Kinds : maint[c] = Running(k) /\ StaleMaintenance(c)
                 THEN Failed(CHOOSE k \in Kinds : maint[c] = Running(k)) ELSE maint[c]]
  /\ UNCHANGED <<setup, dropped, faults, child, made, pc, proc, canceller>>

\* cleanup_orphaned_jobs: stale maintenance first, then the running rows. The processes
\* died with the container, so no compact row is kept for a live process.
Recover ==
  /\ ~up
  /\ up' = TRUE
  /\ backup' = [c \in Chains |-> IF StaleMaintenance(c) \/ backup[c] = "running"
                                 THEN "failed" ELSE backup[c]]
  /\ maint' = [c \in Chains |->
                 IF \E k \in Kinds : maint[c] = Running(k) /\ backup[c] # "deleted"
                                       /\ (StaleMaintenance(c) \/ Orphaned(k))
                 THEN Failed(CHOOSE k \in Kinds : maint[c] = Running(k)) ELSE maint[c]]
  /\ child' = [c \in Chains |-> [k \in Kinds |->
                 IF child[c][k] = "running" THEN "failed" ELSE child[c][k]]]
  /\ UNCHANGED <<setup, dropped, faults, made, pc, proc, canceller>>

-----------------------------------------------------------------------------
Stage(c, k) ==
  \/ CreateChild(c, k) \/ MarkBackup(c, k) \/ StartChild(c, k) \/ RetryStart(c, k)
  \/ Spawned(c, k) \/ ServiceEnd(c, k) \/ Settle(c, k)

Next ==
  \/ \E c \in Chains :
       \/ BackupEnds(c) \/ Finish(c) \/ ProcessExit(c) \/ CancelDone(c)
       \/ DeleteBackup(c) \/ DeleteSchedule(c)
       \/ \E k \in Kinds : \/ Stage(c, k) \/ CommitLocked(c, k) \/ Heartbeat(c, k)
                           \/ CancelMaintenance(c, k) \/ DeleteChild(c, k)
  \/ Crash
  \/ Recover

Spec == Init /\ [][Next]_vars

\* The event loop runs every ready coroutine; a process that was told to stop is killed
\* after 5 s at the latest. Nothing says that borg ends by itself.
Fairness ==
  /\ \A c \in Chains :
       /\ WF_vars(Finish(c))
       /\ WF_vars(proc[c] = "terminated" /\ ProcessExit(c))
       /\ WF_vars(CancelDone(c))
       /\ \A k \in Kinds : WF_vars(Stage(c, k)) /\ WF_vars(Heartbeat(c, k))
  /\ WF_vars(Recover)

LiveSpec == Spec /\ Fairness
-----------------------------------------------------------------------------
(* Properties. *)

LastKind(c) == IF "compact" \in plan[c] THEN "compact" ELSE "prune"

\* A backup row says that maintenance was completed only if the child row behind it was
\* completed; afterwards that row can only have been deleted, or cancelled by a request
\* that was late.
HonestMaintenance ==
  \A c \in Chains :
    /\ \A k \in Kinds : maint[c] = Completed(k)
                           => child[c][k] \in {"completed", "cancelled", "deleted"}
    /\ maint[c] = "maintenance_completed"
         => child[c][LastKind(c)] \in {"completed", "cancelled", "deleted"}

\* A chain that leaves a stage while the server stays up takes the running status off the
\* backup row, although the service may have failed, been cancelled or given up. It does not
\* if somebody deleted one of the two rows meanwhile, or the schedule of maintenance that was
\* completed, or if a commit of the chain met a lock.
LeavesStage(c, k) == pc[c].stage = k /\ pc'[c].stage # k /\ up'

MaintenanceCleared ==
  [][\A c \in Chains, k \in Kinds :
       LeavesStage(c, k) /\ c \notin cut'
         /\ backup[c] # "deleted" /\ child[c][k] # "deleted"
         /\ (c \in dropped => child[c][k] # "completed")
         => maint'[c] # Running(k)]_vars

\* A cancelled child comes to an end, however the cancellation reached it, unless its row
\* is deleted while borg still runs.
CancelledMaintenanceEnds ==
  \A c \in Chains, k \in Kinds :
    (child[c][k] = "cancelled" /\ pc[c].stage = k)
      ~> (pc[c].stage # k \/ child[c][k] = "deleted")

(***************************************************************************)
(* A child row implements the lifecycle every job row is promised; the     *)
(* chain holds it from its creation to the end of the stage.               *)
(***************************************************************************)
PhaseOf(s) == CASE s = "absent"  -> "absent"
                [] s = "deleted" -> "removed"
                [] s = "pending" -> "queued"
                [] s = "running" -> "active"
                [] OTHER         -> "ended"

Lifecycle == INSTANCE JobLifecycle WITH
  Jobs  <- Chains \X Kinds,
  phase <- [j \in Chains \X Kinds |-> PhaseOf(child[j[1]][j[2]])],
  held  <- {j \in Chains \X Kinds : pc[j[1]].stage = j[2] /\ pc[j[1]].at # "create"},
  lost  <- lost

ImplementsLifecycle == Lifecycle!AbsSpec
=============================================================================
