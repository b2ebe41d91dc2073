----------------------------- MODULE ServiceJobs -----------------------------
(***************************************************************************)
(* One row of a job that a service runs in the background: check, compact, *)
(* prune and archive deletion of Borg 1 and (with a 2) of Borg 2, a        *)
(* restore (also onto a mounted SSH host), a backup that runs on a remote  *)
(* host, or the installation of a system package. The row is written by    *)
(* the coroutine of the service, by cancel requests, by deletions and by   *)
(* the clean-up at start. The services are variations on one theme, and    *)
(* the variations are what goes wrong: which of them keeps the process id, *)
(* polls its row for a cancellation, reads the row or a flag of its own    *)
(* before it writes the result, retries a commit that met a lock.          *)
(*                                                                         *)
(* An action is what runs between two awaits. A session keeps the status   *)
(* it has loaded until its next commit: task.seen.                         *)
(***************************************************************************)
EXTENDS Integers

CONSTANT MaxLocks   \* bound: commits that meet a locked database

ASSUME LocksAssumption == MaxLocks \in Nat

VARIABLES
  up,        \* the server process is running
  kind,      \* the kind of job
  row,       \* the row: status, completed_at is set, process_pid is stored
  task,      \* the coroutine of the service
  proc,      \* the borg process: not started, live, told to stop, or how it ended
  tracked,   \* running_processes has an entry for the job
  req,       \* a cancel request awaits the end of the process
  locks,     \* locks met so far
  told,      \* what the users have been told of the outcome
  pkg        \* the package to install: its status, and what the script at start does

vars == <<up, kind, row, task, proc, tracked, req, locks, told, pkg>>

Polling   == {"check", "check2", "compact", "compact2", "prune", "prune2", "delete"}
Killable  == {"compact", "compact2", "prune", "prune2", "restore", "restore_ssh"}
Streaming == {"check", "check2", "compact", "compact2"}   \* they report the progress of borg
Reading   == Streaming \cup {"prune", "restore", "restore_ssh", "remote"}
Kinds     == Polling \cup {"delete2", "restore", "restore_ssh", "remote", "package"}

Ended   == {"completed", "completed_with_warnings", "failed", "cancelled"}
Results == {"ok", "warn", "err"}

TypeOK ==
  /\ up \in BOOLEAN
  /\ kind \in Kinds
  /\ row \in [status : {"absent", "pending", "running", "deleted"} \cup Ended,
              ended : BOOLEAN, pid : BOOLEAN]
  /\ row.status \in Ended => row.ended \/ (row.status = "cancelled" /\ kind \in {"delete", "delete2"})
  /\ task \in [pc : {"idle", "queued", "start", "spawn", "pid", "watch", "final",
                     "second", "raise"},
               want : Ended, seen : {"unread", "pending", "running"} \cup Ended,
               flag : BOOLEAN, beat : BOOLEAN, eof : BOOLEAN]
  /\ proc \in {"none", "live", "term"} \cup Results
  /\ tracked \in BOOLEAN
  /\ req \in BOOLEAN
  /\ locks \in 0 .. MaxLocks
  /\ told \in {"nothing", "success", "failure"}
  /\ pkg \in [status : {"none", "pending", "installing", "installed", "failed", "gone"},
              boot : {"off", "due", "installing"}]

NoTask == [pc |-> "idle", want |-> "failed", seen |-> "unread",
           flag |-> FALSE, beat |-> FALSE, eof |-> FALSE]

Init ==
  /\ up = TRUE
  /\ kind \in Kinds
  /\ row = [status |-> "absent", ended |-> FALSE, pid |-> FALSE]
  /\ task = NoTask
  /\ proc = "none"
  /\ tracked = FALSE
  /\ req = FALSE
  /\ locks = 0
  /\ told = "nothing"
  /\ pkg = [status |-> IF kind = "package" THEN "pending" ELSE "none", boot |-> "off"]

-----------------------------------------------------------------------------
(* Commits and the two ways out of the coroutine. *)

Gone    == row.status = "deleted"
Turn(k, p) == up /\ kind = k /\ task.pc = p
Goto(p) == task' = [task EXCEPT !.pc = p]
Leave   == task' = NoTask /\ tracked' = FALSE
Store(s, e) == row' = IF Gone THEN row ELSE [row EXCEPT !.status = s, !.ended = e]

\* commit_with_retry meets "database is locked": it rolls back and sleeps.
Locked == locks < MaxLocks /\ locks' = locks + 1

\* The except handler and the finally clause. The handler's own commit may find the row
\* deleted, or give up on a locked database.
Except ==
  /\ Leave
  /\ \/ Store("failed", TRUE) /\ UNCHANGED locks
     \/ Locked /\ UNCHANGED row

\* The coroutine ends and leaves the row as it is.
Quit == Leave /\ UNCHANGED <<row, locks>>

-----------------------------------------------------------------------------
(* Notifications. They are sent without giving up the event loop, so whoever sends one  *)
(* and then writes the row does both in one step.                                       *)

\* A service has subscribed to the event, for this repository, and can be reached.
Tells(news) == told' \in {told, news}

\* A restore with warnings counts as a success, one that restored nothing as a failure.
TellsRestored    == Tells("success")
TellsNotRestored == Tells("failure")
TellsRestore(s)  == IF s = "failed" THEN TellsNotRestored ELSE TellsRestored

\* Warnings and cancellations of a check are not told.
TellsCheck(s) ==
  \/ s = "completed" /\ Tells("success")
  \/ s = "failed" /\ Tells("failure")
  \/ s \notin {"completed", "failed"} /\ UNCHANGED told

\* A check that ends tells what its row says by then; no other service than the check and
\* the restore tells anything.
InformsAtEnd ==
  IF kind = "check" /\ task'.pc = "idle" THEN TellsCheck(row'.status) ELSE UNCHANGED told

-----------------------------------------------------------------------------
(* The row is created, together with the task. *)

Creates(k, status) ==
  /\ up
  /\ kind = k /\ row.status = "absent" /\ pkg.status # "gone"
  /\ row' = [row EXCEPT !.status = status]
  /\ Goto("queued")
  /\ UNCHANGED <<up, kind, proc, tracked, req, locks, told, pkg>>

\* The endpoints of a repository, which BorgRouter hands to the service of its Borg
\* version. The prune request awaits its service.
SubmitCheck    == Creates("check", "pending") \/ Creates("check2", "pending")
SubmitCompact  == Creates("compact", "pending") \/ Creates("compact2", "pending")
SubmitPrune    == Creates("prune", "pending") \/ Creates("prune2", "pending")
SubmitDelete   == Creates("delete", "pending")

\* The endpoints of Borg 2 create the row running, but for a deletion.
SubmitRunning2 == Creates("check2", "running") \/ Creates("compact2", "running")
SubmitDelete2  == Creates("delete2", "pending")

\* From a remote repository onto a remote host there is no restore.
SubmitRestore  == Creates("restore", "pending") \/ Creates("restore_ssh", "pending")

\* A backup whose row says it runs on a remote host.
SubmitRemote   == Creates("remote", "pending")

\* A package has one open installation at a time; its row says "installing" for "running".
SubmitPackage  == Creates("package", "pending")

-----------------------------------------------------------------------------
(* The service starts. *)

\* The row is set to running, under retry. A service that gives up either fails the row
\* in its except handler or, quietly, takes the row to be deleted and returns.
StartsRow(k, quiet) ==
  /\ Turn(k, "queued") \/ Turn(k, "start")
  /\ \/ Gone /\ Quit
     \/ /\ ~Gone
        /\ \/ /\ Store("running", FALSE)
              /\ Goto("spawn")
              /\ UNCHANGED <<tracked, locks>>
           \/ /\ task.pc = "queued" /\ Locked
              /\ Goto("start")
              /\ UNCHANGED <<row, tracked>>
           \/ /\ task.pc = "start"
              /\ IF quiet THEN Quit ELSE Except
  /\ UNCHANGED <<up, kind, proc, req, told, pkg>>

BeginCheck   == StartsRow("check", TRUE)
BeginPrune   == StartsRow("prune", TRUE)
BeginCompact == StartsRow("compact", TRUE)
BeginDelete  == StartsRow("delete", FALSE)
BeginPrune2  == StartsRow("prune2", FALSE)
BeginDelete2 == StartsRow("delete2", FALSE)

\* The Borg 2 check and compact leave the status as the row has it.
FindsRow(k) ==
  /\ Turn(k, "queued")
  /\ IF row.status \in {"pending", "running"} THEN Goto("spawn") /\ UNCHANGED <<row, tracked, locks>>
     ELSE Quit
  /\ UNCHANGED <<up, kind, proc, req, told, pkg>>

BeginCheck2   == FindsRow("check2")
BeginCompact2 == FindsRow("compact2")

\* A restore takes any failure of its first commit for a deleted row.
StartsRestore(k) ==
  /\ Turn(k, "queued")
  /\ \/ Gone /\ Quit
     \/ ~Gone /\ Store("running", FALSE) /\ Goto("spawn") /\ UNCHANGED <<tracked, locks>>
     \/ Locked /\ Leave /\ UNCHANGED row
  /\ UNCHANGED <<up, kind, proc, req, told, pkg>>

BeginRestore == StartsRestore("restore")

\* Onto an SSH host: the connection may be gone.
BeginRestoreSsh ==
  \/ StartsRestore("restore_ssh")
  \/ /\ Turn("restore_ssh", "queued")
     /\ Store("failed", TRUE) /\ Leave
     /\ IF Gone THEN UNCHANGED told ELSE TellsNotRestored
     /\ UNCHANGED <<up, kind, proc, req, locks, pkg>>

\* A remote backup is set to running; a missing connection or repository raises, and so
\* does a lock.
BeginRemote ==
  /\ Turn("remote", "queued")
  /\ \/ Gone /\ Quit
     \/ ~Gone /\ Store("running", FALSE) /\ Goto("spawn") /\ UNCHANGED <<tracked, locks>>
     \/ ~Gone /\ Store("failed", TRUE) /\ Leave /\ UNCHANGED locks
  /\ UNCHANGED <<up, kind, proc, req, told, pkg>>

-----------------------------------------------------------------------------
(* The process. *)

Watching == [task EXCEPT !.pc = "watch", !.beat = kind \in Polling,
                         !.eof = kind \notin Reading]

\* create_subprocess_exec raises, or borg runs and is entered in running_processes (the
\* Borg 2 deletion runs it through the borg wrapper, which tracks nothing).
Spawns(k) ==
  /\ Turn(k, "spawn")
  /\ \/ Except /\ UNCHANGED proc
     \/ /\ proc' = "live"
        /\ task' = Watching
        /\ tracked' = (k # "delete2")
        /\ UNCHANGED <<row, locks>>
  /\ UNCHANGED <<up, kind, req, pkg>>

\* The process id is committed before the process is tracked; if that fails, the handler
\* ends the job and borg runs on.
SpawnsAndStores(k) ==
  /\ \/ /\ Turn(k, "spawn")
        /\ \/ Except /\ UNCHANGED proc
           \/ proc' = "live" /\ Goto("pid") /\ UNCHANGED <<row, tracked, locks>>
     \/ /\ Turn(k, "pid")
        /\ \/ Gone /\ Quit
           \/ /\ ~Gone
              /\ row' = [row EXCEPT !.pid = TRUE]
              /\ task' = Watching
              /\ tracked' = TRUE
              /\ UNCHANGED locks
           \/ Locked /\ Leave /\ Store("failed", TRUE)
        /\ UNCHANGED proc
  /\ InformsAtEnd
  /\ UNCHANGED <<up, kind, req, pkg>>

SpawnCheck    == SpawnsAndStores("check")
SpawnCheck2   == SpawnsAndStores("check2")
SpawnCompact  == SpawnsAndStores("compact")
SpawnCompact2 == SpawnsAndStores("compact2")
SpawnDelete   == SpawnsAndStores("delete")
SpawnPrune    == Spawns("prune") /\ UNCHANGED told
SpawnPrune2   == Spawns("prune2") /\ UNCHANGED told
SpawnDelete2  == Spawns("delete2") /\ UNCHANGED told

\* A restore that cannot start is told once its row says so.
SpawnsRestore(k) ==
  /\ Spawns(k)
  /\ IF proc' = "live" \/ row' = row THEN UNCHANGED told ELSE TellsNotRestored

SpawnRestore    == SpawnsRestore("restore")
SpawnRestoreSsh == SpawnsRestore("restore_ssh")      \* after the host has been mounted

\* ssh runs borg on the remote host. Its id is committed after it was tracked; a lock
\* there fails the row, and nobody reads what ssh says.
SpawnRemote ==
  /\ \/ Spawns("remote")
     \/ /\ Turn("remote", "spawn")
        /\ proc' = "live"
        /\ Locked /\ Store("failed", TRUE) /\ Leave
        /\ UNCHANGED <<up, kind, req, pkg>>
  /\ UNCHANGED told

\* borg ends with success, a warning or an error; told to stop, it ends any way. Without
\* a coroutine to read it, the result is lost.
ProcessExit ==
  /\ up
  /\ proc \in {"live", "term"}
  /\ proc' \in (IF task.pc = "idle" THEN {"none"} ELSE Results)
  /\ UNCHANGED <<up, kind, row, task, tracked, req, locks, told, pkg>>

\* Mutant of Heartbeat: the loop looks at the object it has without refreshing it.
HeartbeatStale ==
  /\ up
  /\ task.pc = "watch" /\ task.beat
  /\ task' = [task EXCEPT !.beat = proc \notin Results]
  /\ UNCHANGED <<up, kind, row, proc, tracked, req, locks, told, pkg>>

\* check_cancellation: refresh, and stop the process of a cancelled row. The refresh of a
\* deleted row raises, which gather swallows; the loop ends with the process.
Heartbeat ==
  /\ up
  /\ task.pc = "watch" /\ task.beat
  /\ LET cancelled == row.status = "cancelled"
     IN /\ task' = [task EXCEPT
              !.seen = IF Gone THEN @ ELSE row.status,
              !.flag = cancelled,
              !.beat = ~(Gone \/ cancelled \/ proc \in Results)]
        /\ proc' = IF cancelled /\ proc = "live" THEN "term" ELSE proc
  /\ UNCHANGED <<up, kind, row, tracked, req, locks, told, pkg>>

\* The output is read: more of it, or its end. A service that reports the progress
\* commits, which expires what its session has loaded.
Reads(k) ==
  /\ Turn(k, "watch") /\ ~task.eof
  /\ \E end \in BOOLEAN :
       task' = [task EXCEPT !.eof = end, !.seen = IF k = "prune" THEN @ ELSE "unread"]
  /\ UNCHANGED <<up, kind, row, proc, tracked, req, locks, told, pkg>>

ReadsCheck    == Reads("check")
ReadsCheck2   == Reads("check2")
ReadsCompact  == Reads("compact")
ReadsCompact2 == Reads("compact2")
ReadsPrune    == Reads("prune")

\* The progress of a restore is committed at most every 2 s; a commit that fails is
\* rolled back and forgotten.
ReadsRestore    == Reads("restore")
ReadsRestoreSsh == Reads("restore_ssh")

ReadsRemote   == Reads("remote")

-----------------------------------------------------------------------------
(* The result. *)

\* The final status is committed; the retry after a lock writes it again over whatever
\* the row has become, and a service that gives up ends in its except handler.
Commits(s) ==
  \/ Gone /\ Quit
  \/ ~Gone /\ Store(s, TRUE) /\ Leave /\ UNCHANGED locks
  \/ /\ Locked
     /\ task' = [task EXCEPT !.pc = "final", !.want = s]
     /\ UNCHANGED <<row, tracked>>

RetryFinal ==
  /\ up
  /\ task.pc = "final"
  /\ \/ Gone /\ Quit
     \/ ~Gone /\ Store(task.want, TRUE) /\ Leave /\ UNCHANGED locks
     \/ ~Gone /\ Except
  /\ InformsAtEnd
  /\ UNCHANGED <<up, kind, proc, req, pkg>>

\* What the session thinks the status is.
LoadedStatus == IF task.seen = "unread" THEN row.status ELSE task.seen

\* The process is awaited, and the end of the output by a service that reads it.
AwaitsProcess(k) == Turn(k, "watch") /\ proc \in Results /\ task.eof

\* gather waits for heartbeat and output, then the process.
AwaitsStreams(k) == AwaitsProcess(k) /\ ~task.beat

\* Services that read the row: cancelled as far as the session knows, or the exit code.
ReadsRow(k, result) ==
  /\ AwaitsStreams(k)
  /\ Commits(IF LoadedStatus = "cancelled" THEN "cancelled" ELSE result[proc])
  /\ InformsAtEnd
  /\ UNCHANGED <<up, kind, proc, req, pkg>>

\* The return code and the status it becomes.
Lenient == [ok |-> "completed", warn |-> "completed_with_warnings", err |-> "failed"]
Strict  == [ok |-> "completed", warn |-> "failed", err |-> "failed"]

\* Mutant of FinishCheck: an exit code above 127 counts as a warning.
FinishCheckAnyCode ==
  ReadsRow("check", [Lenient EXCEPT !.err = "completed_with_warnings"])

FinishCheck    == ReadsRow("check", Lenient)
FinishCheck2   == ReadsRow("check2", Lenient)
FinishPrune    == ReadsRow("prune", Lenient)
CompactResult  == Lenient
FinishCompact  == ReadsRow("compact", CompactResult)
FinishCompact2 == ReadsRow("compact2", CompactResult)

\* communicate() is awaited and the heartbeat is cancelled. The output is written to the log
\* file before the row; no try is around that, so the except handler ends the job if it fails.
FinishPrune2 ==
  /\ AwaitsProcess("prune2")
  /\ \/ Commits(IF LoadedStatus = "cancelled" THEN "cancelled" ELSE Strict[proc])
     \/ Except
  /\ UNCHANGED <<up, kind, proc, req, told, pkg>>

\* Mutant of FinishDelete: the exit code decides alone.
FinishDeleteByCode ==
  /\ AwaitsProcess("delete")
  /\ Commits(Lenient[proc])
  /\ UNCHANGED <<up, kind, proc, req, told, pkg>>

\* The deletion trusts the flag its heartbeat has set, and only that. It writes the log as
\* the pruning of Borg 2 does.
FinishDelete ==
  /\ AwaitsProcess("delete")
  /\ \/ Commits(IF task.flag THEN "cancelled" ELSE Lenient[proc])
     \/ Except
  /\ UNCHANGED <<up, kind, proc, req, told, pkg>>

\* Mutant of FinishDelete2: the failure of the first command is returned, not stored.
FinishDelete2Unsaved ==
  /\ \/ /\ AwaitsProcess("delete2")
        /\ \/ proc # "ok" /\ Quit
           \/ proc = "ok" /\ Goto("second") /\ UNCHANGED <<row, tracked, locks>>
     \/ Turn("delete2", "second") /\ Commits("completed")
  /\ UNCHANGED <<up, kind, proc, req, told, pkg>>

\* Borg 2 frees the space in a second command, whose result is only logged; neither step
\* looks at the status of the row.
FinishDelete2 ==
  /\ \/ /\ AwaitsProcess("delete2")
        /\ \/ proc # "ok" /\ Commits("failed")
           \/ proc = "ok" /\ ~Gone /\ Goto("second") /\ UNCHANGED <<row, tracked, locks>>
           \/ proc = "ok" /\ Gone /\ Quit
     \/ Turn("delete2", "second") /\ Commits("completed")
  /\ UNCHANGED <<up, kind, proc, req, told, pkg>>

\* The row of a restore is written over whatever it has become; a lock breaks the session
\* for the handlers as well and leaves the row as it is.
Writes(s) ==
  \/ Store(s, TRUE) /\ Leave /\ UNCHANGED locks
  \/ Locked /\ Leave /\ UNCHANGED row

\* A warning with nothing restored is a failure. The outcome is told before the row is
\* committed.
FinishRestore ==
  /\ AwaitsProcess("restore")
  /\ \E s \in {Lenient[proc]} \cup (IF proc = "warn" THEN {"failed"} ELSE {}) :
       TellsRestore(s) /\ Writes(s)
  /\ UNCHANGED <<up, kind, proc, req, pkg>>

\* Mutant of FinishRestoreSsh: here, too, the outcome is told first.
FinishRestoreSshTellsFirst ==
  /\ AwaitsProcess("restore_ssh")
  /\ TellsRestore(Lenient[proc]) /\ Writes(Lenient[proc])
  /\ UNCHANGED <<up, kind, proc, req, pkg>>

\* A restore onto an SSH host writes the row before it tells.
FinishRestoreSsh ==
  /\ AwaitsProcess("restore_ssh")
  /\ Writes(Lenient[proc])
  /\ IF Gone \/ locks' # locks THEN UNCHANGED told ELSE TellsRestore(Lenient[proc])
  /\ UNCHANGED <<up, kind, proc, req, pkg>>

\* The outcome of a remote backup is committed; then a notification method is called that
\* does not exist, and the handler sets the row to failed. A lock, here or while the
\* progress was written, fails the backup.
FinishRemote ==
  /\ \/ /\ AwaitsProcess("remote")
        /\ \/ Gone /\ Quit
           \/ ~Gone /\ Store(Strict[proc], TRUE) /\ Goto("raise") /\ UNCHANGED <<tracked, locks>>
           \/ Locked /\ Store("failed", TRUE) /\ Leave
     \/ Turn("remote", "raise") /\ Store("failed", TRUE) /\ Leave /\ UNCHANGED locks
  /\ UNCHANGED <<up, kind, proc, req, told, pkg>>

-----------------------------------------------------------------------------
(* The installation of a package writes its row and the package, and retries nothing.   *)

SetPackage(status) ==
  pkg' = [pkg EXCEPT !.status = IF @ = "gone" THEN @ ELSE status]

\* The except handler fails the row, then the package. It stops where a commit fails: at
\* a deleted row, or at a lock.
FailsPackage ==
  /\ Leave
  /\ \/ ~Gone /\ Store("failed", TRUE) /\ SetPackage("failed") /\ UNCHANGED locks
     \/ Gone /\ UNCHANGED <<row, pkg, locks>>
     \/ Locked /\ (UNCHANGED row \/ Store("failed", TRUE)) /\ UNCHANGED pkg

BeginPackage ==
  /\ Turn("package", "queued")
  /\ \/ Gone /\ Quit /\ UNCHANGED pkg
     \/ /\ ~Gone
        /\ Store("running", FALSE) /\ SetPackage("installing")
        /\ Goto("spawn")
        /\ UNCHANGED <<tracked, locks>>
     \/ Locked /\ Leave /\ UNCHANGED <<row, pkg>>
  /\ UNCHANGED <<up, kind, proc, req, told>>

\* The process id is committed at once; if that fails, so does the handler, and the
\* command runs on.
SpawnPackage ==
  /\ \/ /\ Turn("package", "spawn")
        /\ \/ FailsPackage /\ UNCHANGED proc
           \/ proc' = "live" /\ Goto("pid") /\ UNCHANGED <<row, tracked, locks, pkg>>
     \/ /\ Turn("package", "pid")
        /\ \/ /\ ~Gone
              /\ row' = [row EXCEPT !.pid = TRUE]
              /\ task' = Watching
              /\ UNCHANGED <<tracked, locks>>
           \/ Gone /\ Quit
           \/ Locked /\ Leave /\ UNCHANGED row
        /\ UNCHANGED <<proc, pkg>>
  /\ UNCHANGED <<up, kind, req, told>>

\* After five minutes the command is killed.
PackageTimeout ==
  /\ Turn("package", "watch") /\ proc = "live"
  /\ proc' = "term"
  /\ task' = [task EXCEPT !.flag = TRUE]
  /\ UNCHANGED <<up, kind, row, tracked, req, locks, told, pkg>>

\* One commit for the row and the package: a row that was deleted, or a lock, leaves both.
FinishPackage ==
  /\ AwaitsProcess("package")
  /\ \/ task.flag /\ FailsPackage
     \/ /\ ~task.flag /\ ~Gone
        /\ Store(Strict[proc], TRUE)
        /\ SetPackage(IF proc = "ok" THEN "installed" ELSE "failed")
        /\ Leave /\ UNCHANGED locks
     \/ ~task.flag /\ Gone /\ Quit /\ UNCHANGED pkg
     \/ ~task.flag /\ Locked /\ Leave /\ UNCHANGED <<row, pkg>>
  /\ UNCHANGED <<up, kind, proc, req, told>>

\* Reinstalling resets the package and then fails on a call with a wrong argument.
ReinstallPackage ==
  /\ up /\ kind = "package"
  /\ SetPackage("pending")
  /\ UNCHANGED <<up, kind, row, task, proc, tracked, req, locks, told>>

\* DELETE /packages/{id}, and with it, by the cascade, its rows.
DeletePackage ==
  /\ up /\ kind = "package"
  /\ pkg' = [pkg EXCEPT !.status = "gone"]
  /\ row' = IF row.status = "absent" THEN row ELSE [row EXCEPT !.status = "deleted"]
  /\ UNCHANGED <<up, kind, task, proc, tracked, req, locks, told>>

\* The script beside the server installs, once after a start, what dpkg does not know and
\* no open row claims.
BootChecks ==
  /\ up /\ pkg.boot = "due"
  /\ \/ pkg' = [pkg EXCEPT !.boot = "off"]
     \/ /\ row.status \notin {"pending", "running"} /\ pkg.status # "gone"
        /\ pkg' = [status |-> "installing", boot |-> "installing"]
  /\ UNCHANGED <<up, kind, row, task, proc, tracked, req, locks, told>>

BootInstalls ==
  /\ up /\ pkg.boot = "installing"
  /\ \E result \in {"installed", "failed"} :
       pkg' = [status |-> IF pkg.status = "gone" THEN "gone" ELSE result, boot |-> "off"]
  /\ UNCHANGED <<up, kind, row, task, proc, tracked, req, locks, told>>

-----------------------------------------------------------------------------
(* Requests. They do not run between the two commits of FinishRemote. *)

Serves == up /\ task.pc # "raise"

\* terminate; the process is killed if it is still there after 5 s.
Stop == proc' = "term"

\* A tracked process is told to stop and awaited; the others are left to their heartbeat,
\* or to themselves.
Cancels(kinds, ended) ==
  /\ Serves
  /\ kind \in kinds
  /\ row.status = "running" /\ ~req
  /\ IF kind \in Killable /\ tracked /\ proc \in {"live", "term"}
     THEN Stop /\ req' = TRUE /\ UNCHANGED row
     ELSE /\ Store("cancelled", ended)
          /\ UNCHANGED <<proc, req>>
  /\ UNCHANGED <<up, kind, task, tracked, locks, told, pkg>>

\* Only a running row can be cancelled; there is no request for a check. Those of a prune
\* and a compact come through the backup they follow.
CancelMaintenance == Cancels({"prune", "prune2", "compact", "compact2"}, TRUE)
CancelRestore     == Cancels({"restore", "restore_ssh"}, TRUE)
CancelDelete      == Cancels({"delete", "delete2"}, FALSE)
CancelRemote      == Cancels({"remote"}, TRUE)
CancelRequest     == CancelMaintenance \/ CancelRestore \/ CancelDelete \/ CancelRemote

\* The process is gone, and the row is written whatever it has become.
CancelFinish ==
  /\ Serves /\ req
  /\ proc \notin {"live", "term"}
  /\ Store("cancelled", TRUE)
  /\ req' = FALSE
  /\ UNCHANGED <<up, kind, task, proc, tracked, locks, told, pkg>>

\* DELETE /activity/{type}/{id}: any row that is not running, which an installing one is
\* not either; not for archive deletions.
DeleteRow ==
  /\ Serves
  /\ \/ row.status \in {"pending"} \cup Ended
     \/ kind = "package" /\ row.status = "running"
  /\ kind \notin {"delete", "delete2"}
  /\ row' = [row EXCEPT !.status = "deleted"]
  /\ UNCHANGED <<up, kind, task, proc, tracked, req, locks, told, pkg>>

\* DELETE /repositories/{id} takes the job rows of the repository with it, running or not;
\* backups keep theirs.
DeleteRepository ==
  /\ Serves
  /\ row.status \notin {"absent", "deleted"}
  /\ kind \notin {"remote", "package"}
  /\ row' = [row EXCEPT !.status = "deleted"]
  /\ UNCHANGED <<up, kind, task, proc, tracked, req, locks, told, pkg>>

-----------------------------------------------------------------------------
(* Restart. *)

\* The server stops; borg may outlive it if only the server process was restarted.
Crash ==
  /\ up
  /\ up' = FALSE
  /\ task' = NoTask
  /\ tracked' = FALSE
  /\ req' = FALSE
  /\ pkg' = [pkg EXCEPT !.boot = "off"]
  /\ proc' \in (IF proc \in {"live", "term"} THEN {"none", proc} ELSE {proc})
  /\ UNCHANGED <<kind, row, locks, told>>

\* The rows cleanup_orphaned_jobs fails: running ones, of a check or compact only if no
\* live process has the stored id. It does not know archive deletions and installations.
Orphaned ==
  /\ row.status = "running"
  /\ kind \notin {"delete", "delete2", "package"}
  /\ kind \in Streaming => ~(row.pid /\ proc \in {"live", "term"})

Recover ==
  /\ ~up
  /\ up' = TRUE
  /\ IF Orphaned THEN Store("failed", TRUE) ELSE UNCHANGED row
  /\ pkg' = IF kind = "package" THEN [pkg EXCEPT !.boot = "due"] ELSE pkg
  /\ UNCHANGED <<kind, task, proc, tracked, req, locks, told>>

-----------------------------------------------------------------------------
Begin ==
  \/ BeginCheck \/ BeginPrune \/ BeginCompact \/ BeginDelete \/ BeginPrune2
  \/ BeginDelete2 \/ BeginCheck2 \/ BeginCompact2 \/ BeginRestore \/ BeginRestoreSsh \/ BeginRemote
  \/ BeginPackage

Spawn ==
  \/ SpawnCheck \/ SpawnCheck2 \/ SpawnCompact \/ SpawnCompact2 \/ SpawnDelete
  \/ SpawnPrune \/ SpawnPrune2 \/ SpawnDelete2 \/ SpawnRestore \/ SpawnRestoreSsh
  \/ SpawnRemote \/ SpawnPackage

Finish ==
  \/ FinishCheck \/ FinishCheck2 \/ FinishPrune \/ FinishCompact \/ FinishCompact2
  \/ FinishPrune2 \/ FinishDelete \/ FinishDelete2 \/ FinishRestore \/ FinishRestoreSsh
  \/ FinishRemote \/ FinishPackage
  \/ RetryFinal

Submit ==
  \/ SubmitCheck \/ SubmitCompact \/ SubmitPrune \/ SubmitDelete \/ SubmitRunning2
  \/ SubmitDelete2 \/ SubmitRestore \/ SubmitRemote \/ SubmitPackage

StreamEnds ==
  \/ ReadsCheck \/ ReadsCheck2 \/ ReadsCompact \/ ReadsCompact2 \/ ReadsPrune
  \/ ReadsRestore \/ ReadsRestoreSsh \/ ReadsRemote

Request == CancelRequest \/ CancelFinish \/ DeleteRow \/ DeleteRepository

Package == PackageTimeout \/ ReinstallPackage \/ DeletePackage \/ BootChecks \/ BootInstalls

Next ==
  \/ Submit \/ Begin \/ Spawn \/ Heartbeat \/ StreamEnds \/ Finish
  \/ ProcessExit \/ Package \/ Request \/ Crash \/ Recover

Spec == Init /\ [][Next]_vars

\* The event loop runs what is ready; a process that was told to stop is killed after
\* 5 s, which also ends its output. Nothing says that borg ends by itself.
Fairness ==
  /\ WF_vars(Begin) /\ WF_vars(Spawn)
  /\ WF_vars(task.pc # "second" /\ Finish)
  /\ WF_vars(Heartbeat)
  /\ WF_vars(proc # "live" /\ StreamEnds /\ task'.eof)
  /\ WF_vars(proc = "term" /\ ProcessExit)
  /\ WF_vars(CancelFinish)
  /\ WF_vars(Recover)

LiveSpec == Spec /\ Fairness
-----------------------------------------------------------------------------
(* Properties. *)

\* A coroutine that ends while the server runs leaves an ended row, or none, no borg
\* process and no package that is being installed: an open row would refuse every later
\* job of the repository, and a process would work on it unseen. What can break this is a
\* database that stays locked, a row deleted between the spawn and the commit of the
\* process id, and, for the package, a row deleted during its installation.
WorkerLeavesNothingBehind ==
  [][(up' /\ task.pc # "idle" /\ task'.pc = "idle")
       => \/ /\ row'.status \in Ended \cup {"deleted"}
             /\ proc' \notin {"live", "term"}
             /\ pkg'.status = "installing" => Gone \/ pkg.boot = "installing"
          \/ task.pc = "pid"
          \/ task.pc = "start" \/ locks' # locks]_vars

\* Whatever else wrote the row, it says completed only if borg succeeded, and completed
\* with warnings only if borg warned.
HonestStatus ==
  /\ row.status = "completed" => proc = "ok"
  /\ row.status = "completed_with_warnings" => proc = "warn"

\* The except handler of a service that writes its log outside a handler of its own.
LogUnwritten == kind \in {"delete", "prune2"} /\ task.pc = "watch" /\ row'.status = "failed"

\* The status of an ended row changes only to cancelled, by a request that was already
\* waiting; or from cancelled, by a worker that has not noticed (or met a lock, and then
\* fails the row); or to failed, by a worker that cannot write its log; or when a remote
\* backup trips over its notification.
EndedStands ==
  [][(row.status \in Ended /\ row'.status \notin {row.status, "deleted"})
       => \/ row'.status = "cancelled" /\ req
          \/ row.status = "cancelled" /\ task.pc # "idle" /\ (~task.flag \/ locks' > 0)
          \/ LogUnwritten
          \/ task.pc = "raise"]_vars

\* Whoever is told of an outcome finds it in the row: of all the ends of a check and of a
\* restore only the local restore tells before it commits, and can tell of a row that is
\* deleted or that a locked database leaves running (to be failed by the next start).
ToldAsWritten ==
  [][told' # told
       => \/ told' = "success" /\ row'.status \in {"completed", "completed_with_warnings"}
          \/ told' = "failure" /\ row'.status = "failed"
          \/ kind = "restore" /\ proc # "none" /\ (Gone \/ locks' # locks)]_vars

\* A cancelled job of a service that polls its row comes to an end, at whatever point of
\* its start the cancellation reached it, unless the row is deleted under it.
CancelledJobEnds ==
  (kind \in Polling /\ row.status = "cancelled" /\ task.pc # "idle")
    ~> (task.pc = "idle" \/ Gone)
=============================================================================
