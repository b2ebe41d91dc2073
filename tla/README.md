# A TLA+ model of BorgScale

BorgScale is a web server (FastAPI, SQLAlchemy over SQLite) that runs Borg for its users:
backups on request and on schedule, prune, compact and check, restores, archive mounts.
Whatever it does in the background follows one pattern: a row in a job table, a coroutine
that owns the row, a borg process that the coroutine waits for, and HTTP requests that read
and write the same row meanwhile. This directory models that pattern where it is hardest to
get right, checks the models with TLC and proves the main results with TLAPS.

Paths and line numbers refer to the repository root.

## 1. The system

One server process with one event loop: `entrypoint.sh` starts gunicorn with `--workers 1`.
A coroutine therefore runs undisturbed from one `await` to the next, and every action of the
models is such a segment, or a part of one that ends in a commit when a crash can fall in
between. Sessions do not autoflush; a session keeps what it has loaded until its next commit
or refresh, and a flush that fails leaves it unusable until it is rolled back.

| Component | State | Operations | Interacts with | Hard behaviour |
|---|---|---|---|---|
| Backup execution (`services/backup_service.py`, `api/backup.py`) | `backup_jobs` rows; `running_processes`, `ssh_mounts` in memory | start, execute, cancel | borg, hooks, mounts, notifications, activity, startup | cancel against exit code; stale session; deletion under the task; crash between commits |
| Scheduled maintenance (`api/schedule.py`, `services/prune_service.py`, `services/compact_service.py`) | `prune_jobs`, `compact_jobs`, `maintenance_status` of the backup row | prune and compact after a backup, cancel | backup execution, cancel endpoint, activity | two rows for one fact; the child is found by repository path; deletion; crash |
| Scheduled dispatch (`api/schedule.py`) | `scheduled_jobs` rows; `_active_scheduled_backup_runs` in memory | dispatch, enable, disable, delete, set limit, run now | backup execution, multi-repository runs | a limit counted from memory; a commit after the start; order and starvation |
| Startup (`main.py`, `utils/process_utils.py`) | none of its own | clean-up of rows and mounts | every job table | rows caught in any state |
| Activity (`api/activity.py`) | none of its own | delete any row that is not running | every job table | deletion under a task |
| Service jobs (`services/*_service.py`, `services/v2/`, `api/maintenance_jobs.py`, `utils/db_retries.py`) | one row for each check, prune, compact, restore, archive deletion, remote backup, package installation; process ids; `running_processes` | submit, start, spawn, poll, end, retry, cancel, delete | borg, apt, notifications, startup | twelve variations of one life: which of them polls, keeps the process id, reads before it writes, retries |
| Scheduled checks (`services/check_scheduler.py`) | `check_jobs` rows, `next_scheduled_check` | dispatch, admit manual checks | check services | rows without a task occupy slots; order and starvation |
| Multi-repository runs (`api/schedule.py:1693`) | one backup row per repository, one session | run in turn, with scripts, hooks and maintenance | backup execution, script library | everything can be edited or deleted under the run; one failed commit spoils the session |
| SSHFS mounts (`services/mount_service.py`) | `active_mounts`, a state file, temporary roots, key files | mount the paths of a job, unmount, clean up at start | FUSE, SSH, backups, restores | several paths share one root; removing a root that is mounted deletes on the remote host |
| Archive mounts (`services/mount_service.py`, `api/mounts.py`) | the same table; a borg process each | mount, unmount, recover | FUSE | awaits between look-up and removal; directories named by users |
| SSH keys and connections (`api/ssh_keys.py`) | `ssh_keys`, `ssh_connections`, files in `~/.ssh` | generate, import, deploy, test, edit, delete | ssh commands | a result is written seconds after the row was read |
| Repositories (`api/repositories.py`, `api/v2/repositories.py`) | `repositories`, key files, what is on disk | create, import, move, set up with rollback, delete | borg init and info | checks before the command, writes after it |
| Archive cache (`services/cache_service.py`, `api/browse.py`) | entries, sizes, backend | get, set, evict, fail over, clear, reconfigure | Redis | size accounting; age of answers across backends |
| MQTT state (`services/mqtt_service.py`) | two id sets in the database, the client's queue, retained topics | publish, clean up, connect, reconfigure | the broker | two threads publish; messages are lost with the client; ids come back |
| Script hooks, notifications | few of their own | called by the above | external | how often a script runs; who is told of what |
| Log storage, authentication, settings, dashboards, import and export, migrations, web interface | rows, files | CRUD, reads | - | not modelled (section 5) |

What makes each component correct:

- **Backup execution**: an open row always has the task that will end it; a row never says
  better than its borg process did; a live process is watched and can be stopped; mounts are
  taken down; a cancellation is answered and ends the task; nothing ended runs again.
- **Scheduled maintenance**: no child row stays open without its chain (an open one refuses
  every later maintenance of the repository); the backup row says "completed" only if the
  child did; a cancelled child ends; a chain does not leave "running" behind.
- **Dispatch**: the run keys are exactly those of the running tasks; runs start in the order
  in which schedules became due and within the limit; no due schedule starves.
- **Service jobs**: a coroutine that ends leaves an ended row, no process and no package in
  installation; a row says "completed" only if borg did; an ended row stands; users are told
  what was written; a cancelled job ends.
- **Scheduled checks**: no check is started beyond the limit, whatever rows were left behind;
  a due repository is checked.
- **Multi-repository runs**: a run that nothing is deleted under is complete, whatever ends
  badly in it; the scripts of a repository run once.
- **Mounts**: what a job works on is there and not hidden; nothing mounted is removed; an
  ended mount leaves nothing; one user's mount is not another's to take.
- **Keys and connections**: "testing" means that an answer is to come, "connected" that a
  command succeeded with that key.
- **Repositories**: a registered repository exists and opens with its passphrase; its key
  file is kept.
- **Cache**: the counted size is the true one; an answer has a bounded age.
- **MQTT**: what the broker still shows of a deleted repository is known to be there, and the
  broker comes to agree with the database.

## 2. The modules

| Module | What it is |
|---|---|
| `JobLifecycle` | Abstract specification: what every job row is promised |
| `BackupLifecycle` | A backup from request to `finally` |
| `BackupLifecycleProofs` | Its inductive invariant, safety theorems and the refinement of `JobLifecycle` |
| `ScheduledMaintenance` | Prune and compact after scheduled backups of one repository |
| `ScheduledMaintenanceProofs` | Its safety theorems and the refinement of `JobLifecycle` by the child rows |
| `BackupScheduler` | Dispatch of due schedules under the limit |
| `BackupSchedulerProofs` | Theorems about the run keys, the limit and the order of starts, and about a run over many repositories |
| `ServiceJobs` | The row of a check, prune, compact, deletion, restore, remote backup or installation |
| `ServiceJobsProofs` | Theorems about the rows, whoever writes them, and what is told of them |
| `CheckScheduler` | Dispatch of scheduled checks, and manual ones beside it |
| `MultiRepoRun` | One run of a schedule over several repositories |
| `SshMounts` | SSHFS mounts of backups and restores |
| `ArchiveMounts` | Archives mounted for browsing |
| `ArchiveMountsProofs` | Theorems about what a mount leaves and whose directory it is, and about the sizes and ages in the cache |
| `Connections` | SSH keys and connections, several requests at once |
| `ConnectionsProofs` | Theorems about what a connection shows of itself, and about SSHFS mounts |
| `Repositories` | Registration, move and removal of repositories, several requests at once |
| `RepositoriesProofs` | Theorems about registered repositories and their key files, and about the limit of scheduled checks |
| `ArchiveCache` | The two caches and the requests that browse through them |
| `MqttState` | The state published at an MQTT broker |
| `MqttStateProofs` | The theorem about repositories that are gone |
| `MC...` | Instances for model checking: functions and symmetry that a configuration cannot write |

Four modules of proofs extend two components each, and name the second in a section of their
own; `SshMounts`, `CheckScheduler`, `MultiRepoRun` and `ArchiveCache` therefore carry their
name in `SshInit`, `ChecksSpec`, `RunNext`, `cacheVars` and the like.

### JobLifecycle

`phase[j]` is absent, queued, active, ended or removed; `held` are the jobs that a task of
the running server works on. A row moves forward only, is ended only while held (or by the
restart), and a task whose row has ended lets go of it. `lost` are the jobs whose task can no
longer write its row, because a commit met a lock to the end and so did the one after it: such
a row may stay open without a task, and no other. `BackupLifecycle` maps its rows and tasks to
it; `ScheduledMaintenance` maps each child row, held by its chain from the creation of the row
to the end of the stage.

### BackupLifecycle

| Variable | Code |
|---|---|
| `row[j]` | status and completed_at of the `backup_jobs` row |
| `task[j].pc` | the `await` at which `execute_backup` is suspended |
| `task[j].seen` | what the task's session has loaded as status, "expired" after a commit |
| `task[j].heartbeat` | `check_cancellation`: polling, killing, or dead after a failed refresh |
| `task[j].streamed` | `stream_logs` is over |
| `proc[j]` | the borg process: alive or gone, the signal it was sent, exit code, reaped by the loop |
| `tracked` | keys of `running_processes`, through which the cancel endpoint finds the process |
| `mounts` | keys of `ssh_mounts` |
| `canceller[j]` | a cancel request suspended in `backup_service.cancel_backup` |
| `failNote` | jobs for which `send_backup_failure` was called |
| `handler[j]` | what became of the commit of the `except` handler: made, left to a second session, lost |

| Action | Code |
|---|---|
| `Submit` | `_start_backup_impl` |
| `Begin`, `PreHook`, `Prepare`, `Spawn`, `Register` | `execute_backup` up to the three concurrent coroutines |
| `Heartbeat`, `ProgressSync`, `StreamEnd` | `check_cancellation`, `periodic_sync_state`, `stream_logs` |
| `Reap`, `Decide` | the wait for the process, and what the exit code and the row say together |
| `PostHook`, `Notify`, `FailureSent`, `Unmount` | post-backup hooks, notifications, the `except` and `finally` blocks |
| `CancelRequest`, `CancelFinish`, `KillStubborn` | the cancel endpoint before and after its `await`, SIGKILL after 5 s |
| `DeleteRow` | `delete_job` |
| `Crash`, `Recover` | the container stops; `startup_event` cleans up |

Abstracted: log text, progress figures, command lines, retention of logs. The outcome of
hooks, of path preparation and of borg is a choice. A commit fails when the row is gone or
meets a lock, and then the `except` block (`FailJob`) does what it can: its own commit fails as
well when the row is gone, or the database is still locked, or the session waits for a
rollback; a second session (backup_service.py:2756) then stores "failed", notifying nobody, or
gives up and leaves the row open. Ids are used once.

### ScheduledMaintenance

A *chain* is one run of `execute_scheduled_backup_with_maintenance`. All chains back up the
same repository, so that `_get_running_maintenance_job` can find the child of another chain.
`pc[c]` is the stage and the position in it; "create", "mark", "start" and "settle" are
commits of one segment, and `MayStep`, `LoopFree` say that no other chain and no request
runs while a chain is between two of them. A crash can. `made[k]` keeps the order of the ids
of the child rows of each kind. `canceller[c]` is the cancel request suspended on a process.
`setup`, chosen at the start, is what the schedules ask for and the version of Borg of the
repository: a compaction of Borg 2 stays pending while it runs. Users delete rows, and the
schedules of runs in progress (`dropped`). A commit of the chain itself that meets a lock ends
the chain (`cut`), because its `except` handler commits with the same session. A service whose
start or end meets a lock to the last retry gives its row up: the row is `lost`, pending or
running, and the chain goes on.

### BackupScheduler

Time is left out: `due` lists the schedules whose `next_run` has passed in the order in which
it did. `Tick` takes the list and the free slots, and the following `DispatchOne` steps are
the iterations of the loop of `dispatch_due_scheduled_backups`; nothing else runs until the
list or the slots are used up. `runs` are the tasks, `keys` is `_active_scheduled_backup_runs`.
A run over many repositories has the schedule as key, any other its backup row.
Four things can happen to a schedule: it cannot start (`SkipMissing`), it starts (`Dispatch`),
it starts but its cron expression has no further occurrence (`DispatchWithoutNext`), or a
commit fails before or after the start and ends the dispatch (`DispatchFails`).

### ServiceJobs

One row, of a `kind` that the initial state chooses among twelve: `check`, `prune`,
`compact`, `delete` and their Borg 2 counterparts (`check2`, ...), `restore` and `restore_ssh`,
`remote` and `package`. `row` is status, completed_at and whether `process_pid` is stored;
`task` the coroutine (`pc` is the await it is at, `seen` what its session has loaded, `flag`
what it knows of a cancellation); `proc` the process and how it ended; `tracked` its entry in
`running_processes`; `req` a cancel request that waits; `told` what users were told last;
`pkg` the package of an installation and the script at start that installs beside the server.
`Begin...`, `Spawn...` and `Finish...` are the segments of each service; `Heartbeat` is
`check_cancellation` of those that poll (`Polling`); `Locked` and `RetryFinal` are
`commit_with_retry` and its callers; `Reads...` is the reading of borg's output, with the
commits of progress that expire the session, and `ReadsRow` the look at the row before the
result is written; an archive deletion and a prune of Borg 2 write their log outside any
handler of their own, and if that raises the outer one stores "failed" over whatever the row
says, a cancellation included; `Cancels` is what the cancel endpoints have in common. A restart
may or may not take the process with it, as when only the worker of gunicorn is replaced;
`Orphaned` is the clean-up's condition. The rows do not refine `JobLifecycle`: a deletion's or
installation's row outlives its task.

### CheckScheduler

`due` is in the order of the query, in which a repository without a next time comes first.
`checks[<<r, n>>]` is an open `check_jobs` row of the repository `r`, manual if `n` is 0 and
scheduled otherwise: its status, and whether a task owns it. `Slots` counts rows, not tasks.
A Borg 2 check stays pending while it runs (`Two`). `Lost` are scheduled rows that nobody
owns. `ManualCheck` is admitted when no row of the repository reads running. A repository whose cron expression has run out
(`Finite`) is due again at once.

### MultiRepoRun

`run` is the coroutine of `execute_multi_repo_schedule`: where it is (`pc`), at which
repository (`at`), and what its session holds of the schedule and, while it runs them, of a
repository's scripts (`todo`). `row[q]`, `maint[q]`, `child` are the rows of the backups and of
the maintenance at hand. `scripts[q]` are the library scripts of a repository for each of its
two hooks, in their order, those after the backup with the condition they run on; `pres`,
`posts`, `postRan` count how often each ran. Who runs them decides how: the run goes through
them in order, asks for no condition and stops at the first that fails (`Tried`); the backup
goes on after a failure and runs those whose condition the result meets (`ShouldRun`, for which
a warning is neither a success nor a failure). Every edit and deletion that users can make in
between is an action, one that changes the assignments of a repository among them (`Reassign`);
a failed commit leaves the session to `Raise`.

### SshMounts and ArchiveMounts

`SshMounts`: a job takes its paths one by one (`todo`), mounts the directory of each below
one root, reuses, hides or undoes mounts of directories above and below, works, and unmounts
from the deepest. What is above what is decided by the code with strings, by the kernel with
directories: `Dir` is a directory as it is written, `Place` the directory it is, and a chosen
directory may be written with a slash at its end (`Slashed`), which the code then never finds
above another. `tracked` is `active_mounts`, `live` what the kernel has, `late` a mount whose
sshfs was slower than its verification, `stuck` a mount that could not be undone because
another is mounted inside, `covered` one that a later mount was put over, `wiped` mounts whose
root was removed while they were there. Such a root loses its files and stays (`RemoveRoots`).
The state file is what `tracked` was (`saved`); a restart loads it, drops what the system does
not list and removes old roots.

`ArchiveMounts`: `request[i]` is a mount request, `point[i]` its directory, `named` those
whose directory a user chose, `proc[i]` the borg process that serves it, `unmount[<<i, u>>]` up to
two requests to unmount it, `stack[p]` what is mounted on a directory. A borg process may end
by itself: `EndProcess` takes its mount off its directory wherever it is in the stack. A request
that cannot list the mounts fails and leaves its process ("leaked"). `FreePoint` makes a directory unique with a suffix; the check of
`mount`'s output is a substring match.

### Connections, Repositories

Requests in progress are records in `req`: what they read before their command is in the
record, what they write afterwards is in `Answer`, `Insert` and the like. Rows are keyed by
id, and ids come back. `works` (connections) keeps with which key a command has succeeded;
`raced` and `lost` in `Connections`, `raced` and `shared` in `Repositories` name the rows,
paths and key files for which the code is known to go wrong, each entered only by the steps
that spoil them, so that the properties hold of all others. A key file is `shared` when an
import or an upload has written it while another row, or another import under way, needs it:
its name is made of the path, so that two paths may have the same. It is no longer when somebody
writes it who alone needs it. In `Repositories`, `disk` is what borg finds at a path and `late` are borg processes that nobody
waits for any more after a time-out.

### ArchiveCache

`cache` is the service: `lru` the entries of the memory in their order, `size` the counted
bytes, `store` the entries of Redis, which of the two is in use, and how often Redis failed.
An entry is a raw listing or the page of a
directory; a second directory's page is made of the raw listing (`BrowseRaw`), which is how an
answer comes to be older than one time to live. `age` is how old the last answer was. `Put` is `InMemoryBackend.set` with its
order of subtraction, eviction and refusal; `lost` says that an eviction removed the key that
was being replaced, after which the count is too low. `Only` and `SizeIn` are recursive
functions over the places of a sequence: what is left of it, and what that takes.

### MqttState

`sync[t]` is the progress of a publication by the event loop or the client's thread: what it
read of the database and of the two sets. `out[r]` is what the client has accepted for a topic
and not delivered; it is lost with the client. `deleting` is the repository whose deletion is
committed and not yet queued, `fresh` the one a guided setup has just created and may take
away again (`RollBack`), which queues nothing: `unqueued` are those that neither set had then.
A hand-over may be refused, a publication broken off by an exception, and a set that cannot be
read is taken for empty. `crossed` says that two have changed the sets at the same time:
two publications have overlapped, or a deletion was queued after a publication had read
others and before it wrote the set back.

## 3. What is checked

| Run | Instance | Shows |
|---|---|---|
| `backup` | 1 backup, any commit of which may fail; fairness | open rows, processes and mounts have their task; the status is honest; a failure after the start of borg is told; nothing ended runs again; a cancellation ends the task; refinement of `JobLifecycle` with its liveness |
| `maintenance` | 2 chains of one repository in five setups: both kinds and two rows of one kind without a fault; each of these, and Borg 2, with one row or schedule deleted or one lock; fairness | maintenance is honest; a stage that is left is cleared; cancelled maintenance ends whoever cancelled it; both child rows refine `JobLifecycle` |
| `scheduler` | 2 plain schedules, 1 with many repositories that runs out, 1 without repository; limit up to 2, up to 2 runs each, 1 fault; fairness | keys match runs; oldest first; the limit is kept; no due schedule starves |
| `service_jobs` | each of the 12 kinds; 2 locks; a log that cannot be written; fairness | honest status; nothing is left behind; an ended row stands; users are told what was written; a cancelled job ends |
| `checks` | 2 repositories, one of Borg 2, one whose cron runs out; limit up to 2, 1 fault; fairness | within the limit; a due check starts |
| `ssh_mounts` | 2 jobs over a directory written with a slash, a file and a directory in it, and another directory; 2 faults | sources are mounted and not covered; nothing mounted is removed; an ended job leaves nothing |
| `archive_mounts` | 3 mounts, 2 requests to unmount each; 1 fault | mounts are apart; an ended mount leaves nothing |
| `connections` | 2 keys of different types, 2 hosts, 2 requests at once, 3 in all; 1 fault | testing is watched; connected with its own key |
| `repositories` | 2 names and passphrases, 2 paths with one key-file name, 2 requests at once, 3 in all; 1 fault | what is registered opens; key files are kept |
| `archive_cache` | 2 archives of 2 repositories, 2 directories of one and 1 of the other, 2 requests; listings of 2 and 5, pages of 1, memory of 4; 3 time steps, 1 outage | the size is true; answers are fresh |
| `multi_repo` | 2 repositories with one of three sets of up to 2 scripts per hook; six settings of the schedule; 1 failed commit, 1 edit | a run is complete; scripts run once, up to a failing one or by their conditions |
| `mqtt_state` | 2 repositories with 2 values; 3 changes beside the rollbacks of setups, 1 loss or fault; fairness | what is gone is known; the broker agrees |

Every property has a mutant in `PROJECT.json`: a plausible mistake in the code, under which
TLC finds that property violated. The mutants stand before the definitions they are mutants
of. A property that the code does not keep in some case names the case, and no more than it:
`OpenRowHasTask` the rows neither session of the handler could write, `FailureIsNotified` the
backups whose borg was not started and those whose handler could not commit,
`MaintenanceCleared` the chains whose own commit failed and the deleted rows and schedules,
`SourcesAreMounted` and `OnlyFaultsWipe` the directories written with a slash,
`EndedMountLeavesNothing` the process of a request that could not list the mounts, `KeyfileKept`
the `shared` files, `DispatchWithinCapacity` the runs the limit does not count, `RunIsComplete`
the runs something is deleted under, `GoneIsKnown` the times when somebody else changes the two
sets during a publication and the repositories a setup took away unknown to both. The cases
themselves are listed in `PROJECT.json` under "findings", each with the sentence of the
repository it contradicts. The most consequential:

- The exit code replaces a cancellation the task's session has not read
  (backup_service.py:2195), and compaction runs after a failed prune (schedule.py:2344).
- After a crash at the wrong commit, after the prune row or the schedule was deleted under the
  chain, or after a locked commit of the chain, a completed backup reads "running_prune" for
  good (process_utils.py:36, schedule.py:2336).
- A backup whose `except` handler cannot commit fails without a notification, or its row stays
  open (backup_service.py:2744).
- A child row whose service gives up on a lock stays open and refuses later maintenance of the
  repository until a restart (`lost`).
- A cancelled deletion or Borg 2 prune that cannot write its log reads "failed"
  (delete_archive_service.py:251).
- A source directory written with a slash can be mounted inside, and the removal of the root
  then deletes remote files without any fault (mount_service.py:593).
- A refused import can delete the key of another registered repository (repositories.py:1351).
- A guided setup that fails can leave its repository at the broker for good
  (repositories.py:3537).
- Two runs of a schedule with many repositories share one run key (schedule.py:2443).
- A package is left "installing", or installed twice (package rows are not cleaned up).
- A deletion queued during a publication that had read others is forgotten
  (mqtt_service.py:1412), and the topics of the repository may stay for good.
- A root with a mount that came late is removed (mount_service.py:1814): `OnlyFaultsWipe`
  shows that it takes a fault, not that it cannot happen.

### Bounds, and why they are enough

- *One backup.* Jobs share no variable but the server's life; the safety properties and the
  safety part of the refinement are theorems for every set of jobs.
- *Chains, 2, in five setups.* Chains interact through the newest running child of a kind and
  through the event loop; two are enough for one to hit the other. In the largest setup two
  prune rows can run at once while one chain still has a stage before it; the setups with a
  fault have one pair of stages each, of every kind and either version of Borg. One deletion or
  lock, since a second one hits a chain that is already dead or already over. Crashes are not
  bounded: a chain does not start again.
- *Schedules, `MaxLimit`, `MaxRuns`.* Two plain schedules for order, starvation and the
  limit; a limit of 2, so that it can be partly used; two runs of a schedule, so that it can
  overlap itself. `Tick` waits until each due schedule has room for a run within `MaxRuns`; it
  is this bound that keeps a third overlap out.
- *Locks, 2.* A commit that met a lock either succeeds in a retry or gives up, whatever the
  number of attempts; two locks let the commit at the start and the final one meet one each.
- *Requests, 2 at once and 3 in all.* A handler is disturbed by what happened while it
  waited; a second one can do all of that, and a third meets what both have left.
- *Repositories of a run, 2; of the broker, 2; of the checks, 2.* One that goes wrong and one
  that comes after it. *Scripts of a hook, 2*, for the same reason.
- *Paths of a job, 4.* A directory above, a file (which mounts its directory) and a directory
  below, in any order, so that every comparison of two directories can go either way, and one
  path apart. *Paths of repositories, 2*, of which both or none need the one key file.
- *Sizes.* Pages of 1, listings that fit (2) and that never fit (5) in a memory of 4: all
  branches of `InMemoryBackend.set` are taken.
- *Faults, 1 or 2.* What a fault disturbs is visible before the next one; in `SshMounts` two,
  since a late mount does harm only when unmounting goes wrong as well or the server restarts.
  In `MqttState` losses and faults share the bound: `GoneIsKnown` speaks of behaviours without
  a fault, and is proved for any number of losses.
- Deadlock is checked except where everything may be over: the mounts, the requests and the
  runs of bounded number may all have been made.

### Fairness, and why the code justifies it

- `WF` of the steps of a task or chain and of requests that resume: the event loop runs every
  ready coroutine, hooks and mounts have timeouts, and sends of notifications are bounded.
- `WF` of `Heartbeat`: it polls every 3 s as long as the process has not been reaped.
- `WF` of `KillStubborn` and of the exit of a killed process: 5 s after SIGTERM comes
  SIGKILL, which the kernel delivers. In `ScheduledMaintenance` and `ServiceJobs` the two
  signals are one step, hence `WF` of the exit of a process that was told to stop.
- `WF` of `StreamEnd` once the process is gone: a reader sees the end of the pipe.
- `WF` of `Recover` and `Restart`: the container is restarted by its supervisor.
- `WF` of `Tick` and `DispatchOne`: the loops wake up every minute, a segment runs to its end.
- `WF` of publications, of the client's reconnection and of delivery while connected: the
  client's thread runs; that the connection stays up is a premise of `BrokerAgrees`.
- `WF` of `RunEnds` in `BackupScheduler`, and of `TaskEnds` in `CheckScheduler`, are
  assumptions and not facts about the code: a borg that hangs keeps its slot. The other
  modules never assume that borg ends.
- No fairness for submitting, cancelling, deleting, crashing or the passing of time.

## 4. What is proved

`BackupLifecycleProofs`, for every set of jobs:

- `IInv == TypeOK /\ \A j \in Jobs : JobInv(j)` is inductive. The checked properties are
  not: that a running row is being worked on says nothing of what the step that ends the
  work leaves behind, and `Begin` writes "running" without looking at the row. `JobInv` ties
  the row, the task, the process, the mounts and the cancel request of a job together by the
  position of the task, in four named parts: `StoppedIsEmpty` (a stopped server has no
  coroutine and no live process), `RowBeforeStart` (what the row can say while its task has
  not started, so that nothing ends a pending row that has one), `ExitCodeIffGone` (a process
  has an exit code exactly when it is gone, is reaped only then, and does not exist before
  the spawn) and `Promised` (the invariants themselves, of one job).
- From it `TypeCorrect`, `OpenRowsAreOwned`, `CompletedAtCorrect`, `StatusIsHonest`,
  `ProcessesAreWatched`, `MountsAreOwned` follow, and `EndedIsFinal` as an action property.
- `ImplementsLifecycleSafety`: the initial state maps to the abstract one, and each step to
  an abstract step or a stutter. The invariant is needed where an ended or running row must
  be held by its task.

`BackupSchedulerProofs`, for all schedules and bounds (from `SchedulesAssumption` and
`BoundsAssumption`, which say that the parameters are sets and numbers of the right kind):

- `KeysCorrect`: keys match runs. Its inductive invariant adds the types of `limit`, `turn`
  and `runs`, that `keys` is finite, and that a dispatch under way has a slot left.
- `CapacityRespected`: no counted run is started beyond the limit, whatever the schedules do
  that it does not count. The invariant adds `SlotsFit`: while a dispatch is under way, the
  counted runs and the slots left fit the limit together. `Tick` establishes it because the
  counted runs have their keys (`CountedHaveKeys`), and a start keeps it because it either
  takes a slot or adds no counted run (`StartRunCounts`).

- `TypeCorrect` and `StartsInOrder`: their invariant `Ordered` says that the list of due
  schedules has no schedule twice and that what a dispatch has yet to look at is the end of
  that list, behind schedules that could not start or could not be moved on. Distinctness is
  needed twice: to know which entry `Without` takes away, and that a disabled schedule is not
  among those left.

`FailuresAreNotified` of `BackupLifecycleProofs` adds `Told` to `IInv`: who has left the try
block with a failed row and a borg process was notified, or the commit of its handler
failed. It uses that a reaped process has an exit code (so that `Decide` has an outcome) and that
there is no process before the spawn (where one path fails the row in silence).

`ScheduledMaintenanceProofs`, for any chains, setups and number of deletions and locks
(`SetupsAssumption`): `MaintenanceIsHonest`, `StagesClear` and `ImplementsLifecycleSafety`, the
refinement of `JobLifecycle` by both child rows, in which exactly the rows given up because of a
lock are lost. A stage starts its child whatever the backup row says, and `Finish` trusts what
`Settle` has left there, so that `Inv` says which rows a chain can have made by its stage
(`ChainInv`, `ChildInv`), and that a cancel request waits for a child that was running
(`Awaited`). `StagesClear` goes through the ways a chain can leave a stage (`ClearsAt`).

`ServiceJobsProofs`, for every kind of job and any number of locks (`LocksAssumption`):
`StatusIsHonest`, `LeavesNothingBehind`, `EndsStand`, `TellsWhatIsWritten`. `Inv` places the
coroutine (`Placed`: no process before it spawns one, a result after it awaited it, and what
it retries to write says what borg said), the row (`Open`), what the coroutine knows of a
cancellation (`Noticed`: knowing is not forgotten), and keeps installations apart (`Apart`).

`ArchiveMountsProofs`, for any mounts, requests and directories (`PointsAssumption`,
`MaxFaultsAssumption`): `EndsLeaveNothing`, with the one process that does stay, and `MountsStayApart`. Beside the request, the
process, the key and the entry of each mount (`RequestInv`, `UnmountInv`), `Inv` has that what
lies on a directory was mounted there (`StackInv`), that the list and its file agree but for a
moment of the start (`ListInv`), and that a mount being made or known has its directory for
itself as long as no request found its mount gone (`Apart`).

`ConnectionsProofs`, for any keys, hosts and requests (`TypeAssumption`; `NullAssumption`: the
null of the columns is neither a key nor a host; `BoundAssumption`): `TestingWatched`,
`ConnectedHasItsKey` and `TypeCorrect`, which contains the foreign key of `ssh_connections`.
What is added is `AnswersFit`: the row a request waits to write still has the key the request
was made with, or another that worked, unless it was spoilt by name (`raced`).

`RepositoriesProofs` (`RepositoriesAssumption`): `RegistersWhatOpens` from `AnswersAreTrue`
(who was answered "ok" found or made what it will register, or its path was raced for), and
`KeepsItsKeyfile` from `ImportsKeepKeys` (a file an import wrote is there and nobody else's,
or it is shared): a refusal takes a file away only from its writer, or it was shared.

`MqttStateProofs` (`MqttStateAssumption`: the markers of absence are neither repositories nor
data), for any repositories and number of changes: `GoneStaysKnown`. `Latest` is what the
broker will show of a repository once all is delivered; `KnownInv` says that whatever is shown
so, or was read by a publication in progress, is in the database, in one of the two sets, or
about to be queued, or was taken away by a setup when neither set had it. `MarkInv` follows a publication: what it found gone and marked has yet to
be removed, has been removed, or the sets are not written back, and the deletions it read are
all there are. The attempt to prove this showed that the invariant was false as it had stood:
with a fourth change, one more than the run allowed, a deletion can be queued between the
reading and the writing of a publication that had read others, and is cleared with them. That
is what the code does (mqtt_service.py:1412), so `crossed` covers it now and it is listed
among the findings.

`ConnectionsProofs`, second part, for any jobs, paths and directories (`TreeAssumption`: the
paths are finitely many, no directory is above itself, what is above a directory is above all
that lies below it, a directory is written in one way but for the slash at the end, and a path
written with the slash is less deep than one below it, since it is the directory itself;
`MaxMountFaultsAssumption`): `SshSources`, `SshNothingWiped`, `SshNothingLeft`. None of the
three is inductive: that a path is shown by a mount says nothing of a job between two paths,
which has taken down what a new mount will hide and does not have that mount yet. `JobMatches`
says it for each phase of a job by `MountsMatch`: each path taken is shown or will be by the
mount in hand, a mount is inside another only if that one has the slash, and what the job no
longer knows of lies below what it knows; and a root that was removed is still there only with
something mounted in it (`RootLeft`). `FaultFree` says that before the first fault the kernel
has the tracked mounts, those stuck on a mount inside, and no others, and `SlashStuck` that the
first of a job to be stuck has the slash: paths are mounted by their depth (`ByDepth`), so that a
directory the code finds above another is undone before it can be inside.

`RepositoriesProofs`, second part (`ReposAssumption`, `BoundsAssumption`): `CheckLimitRespected`,
an action property. `SlotsInv` is the counterpart of `SlotsFit`, with rows for keys: the slots a
pass has left and the scheduled rows that are open fit the limit together, whatever manual checks
and earlier processes left.

`BackupSchedulerProofs`, second part, for any number of repositories, edits and failed commits
(`MultiRepoRunAssumption`): `CompleteRuns` and `HooksRunOnce`. `RunInv` says where a run can be
and which repositories it has not touched there (`Place`), what its session can hold of the
schedule (`Session`), how often a script can have run at each await (`Counts`), that repositories
before the current one are served and the current one is on the way there (`Progress`), and that
what the run leaves out is what the backup does (`HooksRun`): a first part of the enabled scripts
if the run has them, up to one that failed, and otherwise all before the backup and exactly those
after it that ask for its result.

`ArchiveMountsProofs`, second part, for any archives, sizes, limits and outages
(`ArchiveCacheAssumption`): `SizesAreTrue` and `AnswersFresh`. `AnswersFresh` follows from
`AllKept`: an entry is kept no longer than twice the time to live after borg listed it, and a raw
listing, of which pages are made, no longer than once. `SizesAreTrue` needs what a sum over a
sequence is: that the sums of two parts add up (`Joins`), that the sum over what two sets have is
the sum of theirs (`Splits`), and that what is left of a sequence takes what it took (`OnlyHas`).
These are shown by induction on the length. The induction theorems of the library take an
operator and cannot be used; `UpTo` and `AtEnd` state the same for a set, from the
well-foundedness of strict inclusion on finite sets. `InMemoryBackend.set` never leaves the counted
size above the true one because it takes off the bytes of the entry it replaces at least once
(`PutIn`), and a second time if that entry is evicted.

Each of these invariants also holds in TLC on the instance of its run in section 3.
The assumptions on constants are evaluated by every run of their modules. None of the theorems
uses fairness.

Only model-checked:

- Everything about liveness, and with it the liveness part of the two refinements
  (`ImplementsLifecycle`): `CancelledTaskEnds`, `CancelledMaintenanceEnds`, `CancelledJobEnds`,
  `DueIsDispatched`, `DueCheckStarts`, `BrokerAgrees`. Liveness and `ENABLED` are out of the
  prover's reach.

Every other property of the runs is a theorem.

## 5. What is not modelled

- Authentication and authorization, dashboards and metrics, settings other than the
  concurrency limits and the cache, file browsing, server events, import and export, log
  rotation, migrations, the web interface: reads, CRUD or conversions without a second actor.
- The Borg 2 backup and restore services, which repeat the operations of Borg 1.
- Parsing of progress and of borg's output, command lines, environment of scripts.
- Lock errors of SQLite in the first commit of a backup's task (the row then stays pending);
  every later commit of a backup, those of a maintenance chain and all of the services can meet
  them.
- An exception of the log file between the spawn of a backup's borg and the three coroutines,
  and, in `ScheduledMaintenance`, a borg left unwatched when its process id cannot be stored
  (`ServiceJobs` has that one).
- Of SSH paths, other spellings than a slash at the end (doubled slashes, dots, symbolic links),
  and the directories `os.makedirs` creates inside a remote directory that is mounted.
- Key files that borg itself makes when it creates a repository.
- A backup runs the scripts of one hook in one step: an assignment that is removed between two
  of them is left out; in the run's own loop it is modelled.
- Running a schedule with one repository now (`schedule.py:1394`): such runs are neither
  tracked nor counted. `MultiRepoRun` has the endpoint for many repositories.
- `max_concurrent_backups`, which is stored and shown but never read by anything that starts
  a backup.
- Reuse of the ids of jobs, several server processes, clocks.

## 6. Running the checks

    tlc -workers 2 -config backup.cfg MCBackupLifecycle.tla
    tlapm BackupLifecycleProofs.tla

`PROJECT.json` lists the module of each configuration. `maintenance`, `archive_cache`,
`mqtt_state` and `multi_repo` take two to three minutes each (330 thousand states with their
liveness, and up to 16 million), every other run less than one.

## 7. Plan

Done: the models of sections 2 and 3 and the proofs of section 4, which cover all safety
properties of the runs. What could come next are models: `MultiRepoRun` and `BackupScheduler`
composed, so that the one is the run whose key the other keeps; log rotation as a function checked
against a reference definition; running a schedule with one repository now, beside the limit.
