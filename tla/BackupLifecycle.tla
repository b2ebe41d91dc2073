-------------------------- MODULE BackupLifecycle --------------------------
(***************************************************************************)
(* One backup from the request to the end of its task: the BackupJob row,  *)
(* the execute_backup coroutine that owns it, the borg process it spawns,  *)
(* the heartbeat that looks for a cancellation, the cancel and delete      *)
(* endpoints, and a restart of the server.                                 *)
(*                                                                         *)
(* The server is one process with one event loop, so a coroutine runs      *)
(* undisturbed from one await to the next: an action is one such segment.  *)
(* The row lives in the database; a task reads it through its SQLAlchemy   *)
(* session, which keeps a loaded value until the next commit or refresh.   *)
(***************************************************************************)
EXTENDS FiniteSets

CONSTANT Jobs    \* ids of backup job rows

VARIABLES
  up,         \* the server process serves requests
  row,        \* row[j]: status of the backup_jobs row, and whether completed_at is set
  task,       \* task[j]: the execute_backup coroutine of job j
  proc,       \* proc[j]: the borg process of job j
  tracked,    \* keys of BackupService.running_processes
  mounts,     \* keys of BackupService.ssh_mounts: jobs whose SSHFS mounts are up
  canceller,  \* canceller[j]: a cancel request that awaits the end of the process
  failNote,   \* jobs for which send_backup_failure was called
  handler     \* handler[j]: what became of the commit of the except handler

vars == <<up, row, task, proc, tracked, mounts, canceller, failNote, handler>>

EndedStatus == {"completed", "completed_with_warnings", "failed", "cancelled", "skipped"}
Status == {"absent", "deleted", "pending", "running"} \cup EndedStatus

\* Positions of the coroutine: the await it is suspended at.
Pc == {"none", "queued", "prehook", "prepare", "starting", "spawning", "streaming",
       "posthook", "notifying", "failing", "unmounting", "done"}

NoTask == [pc |-> "none", seen |-> "expired", result |-> "none", hooks |-> FALSE,
           heartbeat |-> "off", streamed |-> FALSE]
NoProc == [os |-> "none", signal |-> "none", rc |-> "none", reaped |-> FALSE]

RowRecord == [status : Status, completedAt : BOOLEAN]
SeenStatus == {"expired"} \cup Status
Outcomes == {"none", "ok", "warn", "err", "cancelled", "hookfail"}
HeartbeatState == {"off", "polling", "killing", "dead"}
TaskRecord == [pc : Pc, seen : SeenStatus, result : Outcomes, hooks : BOOLEAN,
               heartbeat : HeartbeatState, streamed : BOOLEAN]
Signal == {"none", "term", "kill"}
ExitCode == {"none", "ok", "warn", "err"}
\* The handler commits, or leaves it to a second session, which may fail as well.
HandlerFate == {"committed", "retried", "lost"}
ProcRecord == [os : {"none", "alive", "gone"}, signal : Signal, rc : ExitCode,
               reaped : BOOLEAN]

TypeOK ==
  /\ up \in BOOLEAN
  /\ row \in [Jobs -> RowRecord]
  /\ task \in [Jobs -> TaskRecord]
  /\ proc \in [Jobs -> ProcRecord]
  /\ tracked \subseteq Jobs
  /\ mounts \subseteq Jobs
  /\ canceller \in [Jobs -> {"idle", "waiting"}]
  /\ failNote \subseteq Jobs
  /\ handler \in [Jobs -> HandlerFate]

Init ==
  /\ up = TRUE
  /\ row = [j \in Jobs |-> [status |-> "absent", completedAt |-> FALSE]]
  /\ task = [j \in Jobs |-> NoTask]
  /\ proc = [j \in Jobs |-> NoProc]
  /\ tracked = {}
  /\ mounts = {}
  /\ canceller = [j \in Jobs |-> "idle"]
  /\ failNote = {}
  /\ handler = [j \in Jobs |-> "committed"]

-----------------------------------------------------------------------------
(* Steps every segment is built from. *)

At(j, p) == up /\ task[j].pc = p
Deleted(j) == row[j].status = "deleted"

\* job.status = s, job.completed_at = now, commit. An UPDATE of a deleted row
\* raises instead, and the retry in the except handler finds no row.
SaveEnded(j, s) ==
  row' = IF Deleted(j) THEN row
         ELSE [row EXCEPT ![j] = [status |-> s, completedAt |-> TRUE]]

\* The coroutine goes on to p; entering `finally` drops the process from tracking.
Goto(j, p) ==
  /\ task' = [task EXCEPT ![j].pc = p]
  /\ tracked' = IF p = "unmounting" THEN tracked \ {j} ELSE tracked

\* After a save: a deleted row made it raise, which ends in `finally`.
GotoSaved(j, p) == Goto(j, IF Deleted(j) THEN "unmounting" ELSE p)

\* The commit of the except handler meets a lock, or a session that waits for a rollback:
\* a second session stores "failed", or gives up too; nobody is notified either way.
FailUnheard(j) ==
  /\ ~Deleted(j)
  /\ \/ SaveEnded(j, "failed") /\ handler' = [handler EXCEPT ![j] = "retried"]
     \/ UNCHANGED row /\ handler' = [handler EXCEPT ![j] = "lost"]
  /\ Goto(j, "unmounting")

\* Mutant of FailJob: without the second session nothing is written.
FailJobOnce(j) ==
  \/ SaveEnded(j, "failed") /\ GotoSaved(j, "failing") /\ UNCHANGED handler
  \/ Goto(j, "unmounting") /\ UNCHANGED <<row, handler>>

\* `except Exception`: the row becomes failed whatever it was, then a notification. Every
\* commit of the try block may raise.
FailJob(j) ==
  \/ SaveEnded(j, "failed") /\ GotoSaved(j, "failing") /\ UNCHANGED handler
  \/ FailUnheard(j)

\* Mutant of Finalize: the failure branch is left to the except handler.
FinalizeSilent(j) == Goto(j, "unmounting")

\* The end of the try block: a job that reads back as failed is notified again.
Finalize(j) ==
  Goto(j, IF row[j].status = "failed" THEN "failing" ELSE "unmounting")

-----------------------------------------------------------------------------
(* The request and the task up to the borg process. *)

\* POST /backup/start: the row is committed as pending and the task is created;
\* an unknown repository fails the row at once and creates no task.
Submit(j) ==
  /\ up
  /\ row[j].status = "absent"
  /\ \/ /\ row' = [row EXCEPT ![j].status = "pending"]
        /\ task' = [task EXCEPT ![j].pc = "queued"]
     \/ /\ row' = [row EXCEPT ![j] = [status |-> "failed", completedAt |-> TRUE]]
        /\ UNCHANGED task
  /\ UNCHANGED <<up, proc, tracked, mounts, canceller, failNote, handler>>

\* Mutant of Begin: the row is written back without having been looked up.
BeginBlind(j) ==
  /\ At(j, "queued")
  /\ row' = [row EXCEPT ![j].status = "running"]
  /\ Goto(j, "prepare")
  /\ UNCHANGED <<up, proc, mounts, canceller, failNote, handler>>

\* First segment of execute_backup. The status is overwritten unconditionally.
\* An observe-mode repository, missing sources or an unreadable path raise.
Begin(j) ==
  /\ At(j, "queued")
  /\ \/ /\ Deleted(j)
        /\ Goto(j, "unmounting")
        /\ UNCHANGED <<row, handler>>
     \/ /\ ~Deleted(j)
        /\ row' = [row EXCEPT ![j].status = "running"]
        /\ \E h \in BOOLEAN :
             task' = [task EXCEPT ![j].pc = IF h THEN "prehook" ELSE "prepare",
                                  ![j].hooks = h]
        /\ UNCHANGED <<tracked, handler>>
     \/ ~Deleted(j) /\ FailJob(j)
  /\ UNCHANGED <<up, proc, mounts, canceller, failNote>>

\* Pre-backup scripts: success or "continue on failure"; a skip; an abort or an exception.
PreHook(j) ==
  /\ At(j, "prehook")
  /\ \/ Goto(j, "prepare") /\ UNCHANGED <<row, handler>>
     \/ SaveEnded(j, "skipped") /\ Goto(j, "unmounting") /\ UNCHANGED handler
     \/ FailJob(j)
  /\ UNCHANGED <<up, proc, mounts, canceller, failNote>>

\* _prepare_source_paths: SSH sources are mounted through SSHFS, local ones are not.
MountSources(j) == mounts' \in {mounts, mounts \cup {j}}

\* Source paths: SSH sources are mounted first. No usable path ends the job
\* without going through the except handler.
Prepare(j) ==
  /\ At(j, "prepare")
  /\ \/ /\ MountSources(j)
        /\ Goto(j, "starting")
        /\ UNCHANGED <<row, handler>>
     \/ /\ SaveEnded(j, "failed")
        /\ Goto(j, "unmounting")
        /\ UNCHANGED <<mounts, handler>>
     \/ FailJob(j) /\ UNCHANGED mounts
  /\ UNCHANGED <<up, proc, canceller, failNote>>

\* The start notification was sent; create_subprocess_exec starts borg, or raises.
Spawn(j) ==
  /\ At(j, "starting")
  /\ \/ /\ proc' = [proc EXCEPT ![j].os = "alive"]
        /\ Goto(j, "spawning")
        /\ UNCHANGED <<row, handler>>
     \/ FailJob(j) /\ UNCHANGED proc
  /\ UNCHANGED <<up, mounts, canceller, failNote>>

\* create_subprocess_exec returns: only now can a cancel request find the process.
Register(j) ==
  /\ At(j, "spawning")
  /\ tracked' = tracked \cup {j}
  /\ task' = [task EXCEPT ![j].pc = "streaming", ![j].heartbeat = "polling"]
  /\ UNCHANGED <<up, row, proc, mounts, canceller, failNote, handler>>

-----------------------------------------------------------------------------
(* While borg runs. *)

\* Mutant of Heartbeat: looks at the loaded status, without the refresh.
HeartbeatCached(j) ==
  /\ At(j, "streaming")
  /\ task[j].heartbeat = "polling"
  /\ ~proc[j].reaped
  /\ task[j].seen = "cancelled"
  /\ task' = [task EXCEPT ![j].heartbeat = "killing"]
  /\ proc' = [proc EXCEPT ![j].signal = "term"]
  /\ UNCHANGED <<up, row, tracked, mounts, canceller, failNote, handler>>

\* process.terminate(): a second signal does not take back a SIGKILL.
Terminate(j) == proc' = [proc EXCEPT ![j].signal = IF @ = "none" THEN "term" ELSE @]

\* check_cancellation every 3 s: refresh the row; a cancelled job is terminated.
\* The refresh of a deleted row raises, as does any refresh after a progress commit of
\* stream_logs met a lock; gather swallows the exception.
Heartbeat(j) ==
  /\ At(j, "streaming")
  /\ task[j].heartbeat = "polling"
  /\ ~proc[j].reaped
  /\ \/ /\ task' = [task EXCEPT ![j].heartbeat = "dead"]
        /\ UNCHANGED proc
     \/ /\ row[j].status = "cancelled"
        /\ task' = [task EXCEPT ![j].seen = "cancelled", ![j].heartbeat = "killing"]
        /\ Terminate(j)
     \/ /\ row[j].status \notin {"deleted", "cancelled"}
        /\ task' = [task EXCEPT ![j].seen = row[j].status]
        /\ UNCHANGED proc
  /\ UNCHANGED <<up, row, tracked, mounts, canceller, failNote, handler>>

\* periodic_sync_state reads the running rows through the same session: an expired
\* row is loaded, a loaded one keeps the value it had.
ProgressSync(j) ==
  /\ At(j, "streaming")
  /\ task[j].seen = "expired"
  /\ row[j].status = "running"
  /\ ~proc[j].reaped
  /\ task' = [task EXCEPT ![j].seen = "running"]
  /\ UNCHANGED <<up, row, proc, tracked, mounts, canceller, failNote, handler>>

\* SIGTERM was not enough for 5 s: the heartbeat or the cancel request sends SIGKILL.
KillStubborn(j) ==
  /\ up
  /\ proc[j].os = "alive"
  /\ proc[j].signal = "term"
  /\ task[j].heartbeat = "killing" \/ canceller[j] = "waiting"
  /\ proc' = [proc EXCEPT ![j].signal = "kill"]
  /\ UNCHANGED <<up, row, task, tracked, mounts, canceller, failNote, handler>>

\* borg ends; a killed borg never reports success. The repository's external program.
ProcessExit(j) ==
  /\ up
  /\ proc[j].os = "alive"
  /\ \E rc \in IF proc[j].signal = "kill" THEN {"err"} ELSE {"ok", "warn", "err"} :
       proc' = [proc EXCEPT ![j].os = "gone", ![j].rc = rc]
  /\ UNCHANGED <<up, row, task, tracked, mounts, canceller, failNote, handler>>

\* The event loop learns of the exit: every process.wait() is woken.
Reap(j) ==
  /\ up
  /\ proc[j].os = "gone"
  /\ ~proc[j].reaped
  /\ proc' = [proc EXCEPT ![j].reaped = TRUE]
  /\ UNCHANGED <<up, row, task, tracked, mounts, canceller, failNote, handler>>

\* stream_logs ends, at end of file or because reading a line raised; its `finally`
\* commits, which expires what the session had loaded.
StreamEnd(j) ==
  /\ At(j, "streaming")
  /\ ~task[j].streamed
  /\ task' = [task EXCEPT ![j].streamed = TRUE, ![j].seen = "expired"]
  /\ UNCHANGED <<up, row, proc, tracked, mounts, canceller, failNote, handler>>

-----------------------------------------------------------------------------
(* After borg. *)

\* The status the session reads: the loaded one, or the row if it was expired.
ReadStatus(j) == IF task[j].seen = "expired" THEN row[j].status ELSE task[j].seen

\* What the exit code and the row say together: "cancelled" wins, if the row reads so.
Outcome(j) == IF ReadStatus(j) = "cancelled" THEN "cancelled" ELSE proc[j].rc

\* Mutants of ResultStatus: the result itself is stored; a warning counts as success.
ResultStatusRaw(result) == result
ResultStatusLenient(result) ==
  CASE result \in {"ok", "warn"} -> "completed"
    [] result = "cancelled"      -> "cancelled"
    [] OTHER                     -> "failed"

ResultStatus(result) ==
  CASE result = "ok"        -> "completed"
    [] result = "warn"      -> "completed_with_warnings"
    [] result = "cancelled" -> "cancelled"
    [] OTHER                -> "failed"

\* Where the task goes with its result once the row is published: statistics and
\* post-backup hooks, or straight to the end of the try block.
AfterPublish(j, result) ==
  IF Deleted(j) THEN "unmounting"
  ELSE IF result \in {"ok", "warn"} \/ task[j].hooks THEN "posthook"
  ELSE IF result = "err" THEN "failing" ELSE "unmounting"

\* Mutant of Decide: the end of the output is taken for the end of the process.
DecideAtEof(j) ==
  /\ At(j, "streaming")
  /\ task[j].streamed
  /\ SaveEnded(j, ResultStatus(proc[j].rc))
  /\ Goto(j, "posthook")
  /\ UNCHANGED <<up, proc, mounts, canceller, failNote, handler>>

\* publish_terminal_state: the exit code decides the status unless the row reads as
\* cancelled.
Publish(j) ==
  /\ SaveEnded(j, ResultStatus(Outcome(j)))
  /\ task' = [task EXCEPT ![j].pc = AfterPublish(j, Outcome(j)), ![j].result = Outcome(j),
                          ![j].seen = "expired",
                          ![j].heartbeat = IF @ = "dead" THEN @ ELSE "off"]
  /\ tracked' = IF AfterPublish(j, Outcome(j)) = "unmounting" THEN tracked \ {j} ELSE tracked
  /\ UNCHANGED handler

\* gather returned; what is published may fail to be committed.
Decide(j) ==
  /\ At(j, "streaming")
  /\ task[j].streamed /\ proc[j].reaped
  /\ Publish(j) \/ FailJob(j)
  /\ UNCHANGED <<up, proc, mounts, canceller, failNote>>

\* Archive statistics and post-backup hooks. A failed hook turns a completed backup
\* into a failed one; after a failure or a cancellation it only adds to the message.
PostHook(j) ==
  /\ At(j, "posthook")
  /\ \/ /\ task[j].result \in {"ok", "warn"}
        /\ GotoSaved(j, "notifying")
        /\ UNCHANGED <<row, handler>>
     \/ /\ task[j].result \in {"ok", "warn"} /\ task[j].hooks
        /\ SaveEnded(j, "failed")
        /\ task' = [task EXCEPT ![j].pc = IF Deleted(j) THEN "unmounting" ELSE "notifying",
                                ![j].result = "hookfail"]
        /\ tracked' = IF Deleted(j) THEN tracked \ {j} ELSE tracked
        /\ UNCHANGED handler
     \/ /\ task[j].result \in {"err", "cancelled"}
        /\ Finalize(j)
        /\ UNCHANGED <<row, handler>>
     \/ FailJob(j)
  /\ UNCHANGED <<up, proc, mounts, canceller, failNote>>

\* Notifications are sent without giving up the event loop; an error of a channel is
\* swallowed. Only those of a failure are kept.
TellSuccess(j) == task[j].result = "ok" /\ UNCHANGED failNote
TellWarning(j) == task[j].result = "warn" /\ UNCHANGED failNote
TellFailure(j) == failNote' = failNote \cup {j}

\* The success, warning or failure notification, then the commit that ends the try block:
\* if it raises, the job whose success was told becomes a failed one.
Notify(j) ==
  /\ At(j, "notifying")
  /\ \/ TellSuccess(j)
     \/ TellWarning(j)
     \/ task[j].result = "hookfail" /\ TellFailure(j)
  /\ \/ Finalize(j) /\ UNCHANGED <<row, handler>>
     \/ FailJob(j)
  /\ UNCHANGED <<up, proc, mounts, canceller>>

\* send_backup_failure returned: `finally`.
FailureSent(j) ==
  /\ At(j, "failing")
  /\ TellFailure(j)
  /\ Goto(j, "unmounting")
  /\ UNCHANGED <<up, row, proc, mounts, canceller, handler>>

\* _cleanup_ssh_mounts, the key file and the session: the coroutine is over.
Unmount(j) ==
  /\ At(j, "unmounting")
  /\ mounts' = mounts \ {j}
  /\ Goto(j, "done")
  /\ UNCHANGED <<up, row, proc, canceller, failNote, handler>>

-----------------------------------------------------------------------------
(* Requests against a job that exists. *)

\* Mutant of CancelRequest: a pending job can be cancelled too.
CancelRequestPending(j) ==
  /\ up
  /\ row[j].status \in {"pending", "running"}
  /\ SaveEnded(j, "cancelled")
  /\ UNCHANGED <<up, task, proc, tracked, mounts, canceller, failNote, handler>>

\* POST /backup/cancel/{id}: only a running job. A process that can be found and is
\* not reaped gets SIGTERM and is awaited; otherwise the row is cancelled at once.
CancelRequest(j) ==
  /\ up
  /\ row[j].status = "running"
  /\ canceller[j] = "idle"
  /\ \/ /\ j \in tracked /\ ~proc[j].reaped
        /\ Terminate(j)
        /\ canceller' = [canceller EXCEPT ![j] = "waiting"]
        /\ UNCHANGED row
     \/ /\ j \notin tracked \/ proc[j].reaped
        /\ SaveEnded(j, "cancelled")
        /\ UNCHANGED <<proc, canceller>>
  /\ UNCHANGED <<up, task, tracked, mounts, failNote, handler>>

\* The process is gone: the request writes "cancelled" over whatever the row holds now,
\* because its own session still has the "running" it loaded before the await. Its commit
\* may meet a lock: the process is stopped and the row not cancelled.
CancelFinish(j) ==
  /\ up
  /\ canceller[j] = "waiting"
  /\ proc[j].reaped
  /\ SaveEnded(j, "cancelled") \/ UNCHANGED row
  /\ canceller' = [canceller EXCEPT ![j] = "idle"]
  /\ UNCHANGED <<up, task, proc, tracked, mounts, failNote, handler>>

\* DELETE /activity/backup/{id}: any row that is not running, a pending one included.
DeleteRow(j) ==
  /\ up
  /\ row[j].status \in {"pending"} \cup EndedStatus
  /\ row' = [row EXCEPT ![j] = [status |-> "deleted", completedAt |-> FALSE]]
  /\ UNCHANGED <<up, task, proc, tracked, mounts, canceller, failNote, handler>>

-----------------------------------------------------------------------------
(* The container stops and starts again. *)

\* Every coroutine is lost, the processes die with the container.
Crash ==
  /\ up
  /\ up' = FALSE
  /\ task' = [j \in Jobs |-> NoTask]
  /\ proc' = [j \in Jobs |->
                IF proc[j].os = "alive" THEN [proc[j] EXCEPT !.os = "gone", !.rc = "err"]
                ELSE proc[j]]
  /\ tracked' = {}
  /\ canceller' = [j \in Jobs |-> "idle"]
  /\ UNCHANGED <<row, mounts, failNote, handler>>

\* cleanup_orphaned_jobs: backups have no process id, every running row is failed.
OrphanCleaned(r) ==
  IF r.status = "running" THEN [status |-> "failed", completedAt |-> TRUE] ELSE r

\* Mutant of Recover: only the job rows are cleaned up.
RecoverRowsOnly ==
  /\ ~up
  /\ up' = TRUE
  /\ row' = [j \in Jobs |-> OrphanCleaned(row[j])]
  /\ UNCHANGED <<task, proc, tracked, mounts, canceller, failNote, handler>>

\* startup_event before requests are served: cleanup_orphaned_jobs, then
\* cleanup_orphaned_mounts unmounts what is left.
Recover ==
  /\ ~up
  /\ up' = TRUE
  /\ row' = [j \in Jobs |-> OrphanCleaned(row[j])]
  /\ mounts' = {}
  /\ UNCHANGED <<task, proc, tracked, canceller, failNote, handler>>

-----------------------------------------------------------------------------
TaskStep(j) ==
  \/ Begin(j) \/ PreHook(j) \/ Prepare(j) \/ Spawn(j) \/ Register(j)
  \/ Decide(j) \/ PostHook(j) \/ Notify(j) \/ FailureSent(j) \/ Unmount(j)

WhileRunning(j) ==
  \/ Heartbeat(j) \/ ProgressSync(j) \/ KillStubborn(j)
  \/ ProcessExit(j) \/ Reap(j) \/ StreamEnd(j)

Request(j) == Submit(j) \/ CancelRequest(j) \/ CancelFinish(j) \/ DeleteRow(j)

Next ==
  \/ \E j \in Jobs : TaskStep(j) \/ WhileRunning(j) \/ Request(j)
  \/ Crash
  \/ Recover

Spec == Init /\ [][Next]_vars

(***************************************************************************)
(* The event loop runs every ready coroutine, hooks and mounts have        *)
(* timeouts, the kernel delivers SIGKILL and reports an exit, and a reader *)
(* sees the end of a pipe whose writer is gone. Nothing says that borg     *)
(* ends by itself, that a user ever cancels, or that the server crashes.   *)
(***************************************************************************)
Fairness ==
  /\ \A j \in Jobs :
       /\ WF_vars(TaskStep(j))
       /\ WF_vars(Heartbeat(j))
       /\ WF_vars(KillStubborn(j))
       /\ WF_vars(proc[j].signal = "kill" /\ ProcessExit(j))
       /\ WF_vars(Reap(j))
       /\ WF_vars(proc[j].os = "gone" /\ StreamEnd(j))
       /\ WF_vars(CancelFinish(j))
  /\ WF_vars(Recover)

LiveSpec == Spec /\ Fairness
-----------------------------------------------------------------------------
(* Properties. *)

Working == {"prehook", "prepare", "starting", "spawning", "streaming"}

\* While the server is up, a running row is being worked on by its task, and a pending
\* row waits for a task that has not started: no early return of execute_backup, no
\* cancellation and no restart leaves a row open that nobody will end. What does is the
\* except handler when both of its sessions meet a lock.
\* (A pending row may have no task at all: the restart clean-up does not look at it.)
OpenRowHasTask ==
  up => \A j \in Jobs : handler[j] # "lost" =>
          /\ row[j].status = "running" => task[j].pc \in Working
          /\ row[j].status = "pending" => task[j].pc \in {"none", "queued"}

\* completed_at is set exactly on the rows that have ended, on every path that ends one.
CompletedAtIffEnded ==
  \A j \in Jobs : row[j].completedAt <=> row[j].status \in EndedStatus

\* A row says completed (with warnings) only if the borg process of that very job ended
\* with that result, and skipped only if no process was started: neither a late cancel,
\* a stale session nor a restart makes a job look better than its borg did.
HonestStatus ==
  \A j \in Jobs :
    /\ row[j].status = "completed" => proc[j].rc = "ok"
    /\ row[j].status = "completed_with_warnings" => proc[j].rc = "warn"
    /\ row[j].status = "skipped" => proc[j].os = "none"

\* A live borg process belongs to a task that is still watching it, and from the moment
\* the spawn returns a cancel request can find it.
ProcessIsWatched ==
  \A j \in Jobs : proc[j].os = "alive" =>
    /\ task[j].pc \in {"spawning", "streaming"}
    /\ task[j].pc = "streaming" => j \in tracked

\* While the server is up, SSHFS mounts exist only for a task that will unmount them.
MountsHaveTask ==
  up => \A j \in mounts : task[j].pc \notin {"none", "queued", "prehook", "prepare", "done"}

\* A row that has ended is never run again, although the task overwrites the status
\* with "running" without looking at it: what protects it is that nothing ends a
\* pending row that has a task.
NoSecondRun ==
  [][\A j \in Jobs : row[j].status \in EndedStatus => row'[j].status \in EndedStatus \cup {"deleted"}]_vars

\* After a user cancelled, the task and its process come to an end, unless the heartbeat
\* died: its refresh raises when the row was deleted or a commit of the session met a lock.
CancelledTaskEnds ==
  \A j \in Jobs : (row[j].status = "cancelled" /\ task[j].pc # "none")
                     ~> (task[j].pc \in {"none", "done"} \/ task[j].heartbeat = "dead")

(***************************************************************************)
(* The job row implements the lifecycle every job row is promised.         *)
(***************************************************************************)
PhaseOf(s) == CASE s = "absent"  -> "absent"
                [] s = "deleted" -> "removed"
                [] s = "pending" -> "queued"
                [] s = "running" -> "active"
                [] OTHER         -> "ended"

Lifecycle == INSTANCE JobLifecycle WITH
  phase <- [j \in Jobs |-> PhaseOf(row[j].status)],
  held  <- {j \in Jobs : task[j].pc \notin {"none", "done"}},
  lost  <- {j \in Jobs : handler[j] = "lost" \/ task[j].heartbeat = "dead"}

ImplementsLifecycle == Lifecycle!AbsSpec

\* docs/notifications.md:199 "Backup Failure - Sent when a backup fails": once borg has
\* been started, no path to a failed row (the exit code, a hook, an exception) ends without
\* the failure notification, unless the commit of the except handler failed. Before the
\* start of borg one path does, in Prepare.
FailureIsNotified ==
  \A j \in Jobs :
    (task[j].pc = "done" /\ row[j].status = "failed" /\ proc[j].os # "none")
      => j \in failNote \/ handler[j] # "committed"
=============================================================================
