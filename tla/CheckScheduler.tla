--------------------------- MODULE CheckScheduler ---------------------------
(***************************************************************************)
(* Checks of repositories, requested or scheduled. A check that is asked   *)
(* for is refused while a row of the repository reads running; a scheduled *)
(* one also needs a slot, and the slots taken are counted in the table:    *)
(* scheduled rows that are pending or running. A row outlives its task     *)
(* when the server stops, and a pending row is then nobody's.              *)
(*                                                                         *)
(* As in BackupScheduler a dispatch is a segment without an await that     *)
(* commits after every repository, and next_scheduled_check is kept as an  *)
(* order: repositories without a next time come first. Names that           *)
(* Repositories has too are prefixed or changed, so that a module can      *)
(* extend both.                                                            *)
(***************************************************************************)
EXTENDS Integers, Sequences, FiniteSets

CONSTANTS
  Repos,       \* rows of repositories
  Two,         \* the repositories of Borg 2: their checks stay pending while they run
  Finite,      \* repositories whose cron expression has a last occurrence
  MaxLimit,    \* bound: the largest limit of concurrent scheduled checks
  MaxCheckFaults  \* bound: failed commits and restarts

ASSUME ReposAssumption == Two \subseteq Repos /\ Finite \subseteq Repos
ASSUME BoundsAssumption == MaxLimit \in Nat /\ MaxCheckFaults \in Nat

VARIABLES
  up,        \* the server process is running
  enabled,   \* repositories with a check schedule
  due,       \* those of them whose next check has come, in the order of the query
  limit,     \* max_concurrent_scheduled_checks
  turn,      \* the dispatch in progress: repositories to look at, slots left
  checks,    \* the open rows: status, and whether a task works on them
  checkFaults  \* failed commits and restarts so far

checkVars == <<up, enabled, due, limit, turn, checks, checkFaults>>

\* Number 0 is a check that was asked for (bound: one of a repository at a time), the
\* others have scheduled_check set. There are never more of those than MaxLimit.
Id     == Repos \X (0 .. MaxLimit)
None   == [status |-> "none", task |-> FALSE]
NoTurn == [jobs |-> <<>>, slots |-> 0]
Quiet  == turn = NoTurn

Listed(r) == \E i \in DOMAIN due : due[i] = r
Without(seq, r) == SelectSeq(seq, LAMBDA x : x # r)

ChecksTypeOK ==
  /\ up \in BOOLEAN
  /\ enabled \subseteq Repos
  /\ due \in Seq(enabled)
  /\ limit \in 0 .. MaxLimit
  /\ turn \in [jobs : Seq(Repos), slots : Nat]
  /\ checks \in [Id -> [status : {"none", "pending", "running"}, task : BOOLEAN]]
  /\ checkFaults \in 0 .. MaxCheckFaults

ChecksInit ==
  /\ up = TRUE
  /\ enabled = Repos
  /\ due = <<>>
  /\ limit \in 0 .. MaxLimit
  /\ turn = NoTurn
  /\ checks = [c \in Id |-> None]
  /\ checkFaults = 0

-----------------------------------------------------------------------------
(* The table of checks. *)

IsOpen(c)     == checks[c].status # "none"
OpenScheduled == {c \in Id : IsOpen(c) /\ c[2] > 0}

\* Rows that nothing will ever end.
Lost == {c \in OpenScheduled : ~checks[c].task}

\* ensure_no_running_job: a pending row does not refuse another.
RunningCheck(r) == \E n \in 0 .. MaxLimit : checks[<<r, n>>].status = "running"

\* The row is committed as pending, and its task is created.
StartCheck(r, numbers) ==
  \E n \in numbers :
    /\ ~IsOpen(<<r, n>>)
    /\ checks' = [checks EXCEPT ![<<r, n>>] = [status |-> "pending", task |-> TRUE]]

\* POST /repositories/{id}/check.
ManualCheck(r) ==
  /\ up /\ Quiet
  /\ ~RunningCheck(r)
  /\ StartCheck(r, {0})
  /\ UNCHANGED <<up, enabled, due, limit, turn, checkFaults>>

\* The task sets the row to running; that of Borg 2 leaves it pending.
TaskStarts(c) ==
  /\ up /\ Quiet
  /\ checks[c].status = "pending" /\ checks[c].task
  /\ c[1] \notin Two
  /\ checks' = [checks EXCEPT ![c].status = "running"]
  /\ UNCHANGED <<up, enabled, due, limit, turn, checkFaults>>

\* The task cannot set the row to running, because the database stays locked, and returns.
TaskGivesUp(c) ==
  /\ up /\ Quiet
  /\ checks[c].status = "pending" /\ checks[c].task
  /\ c[1] \notin Two
  /\ checkFaults < MaxCheckFaults
  /\ checks' = [checks EXCEPT ![c].task = FALSE]
  /\ checkFaults' = checkFaults + 1
  /\ UNCHANGED <<up, enabled, due, limit, turn>>

\* The check ends, one way or another.
TaskEnds(c) ==
  /\ up /\ Quiet
  /\ checks[c].task
  /\ checks[c].status = "running" \/ (c[1] \in Two /\ IsOpen(c))
  /\ checks' = [checks EXCEPT ![c] = None]
  /\ UNCHANGED <<up, enabled, due, limit, turn, checkFaults>>

\* An administrator deletes a pending row; that of a Borg 2 check from under its task.
DeleteRow(c) ==
  /\ up /\ Quiet
  /\ checks[c].status = "pending"
  /\ checks' = [checks EXCEPT ![c] = None]
  /\ UNCHANGED <<up, enabled, due, limit, turn, checkFaults>>

-----------------------------------------------------------------------------
(* Schedules. *)

\* Mutant of BecomesDue: the query takes the latest first.
BecomesDueFirst(r) ==
  /\ Quiet
  /\ r \in enabled
  /\ ~Listed(r)
  /\ due' = <<r>> \o due
  /\ UNCHANGED <<up, enabled, limit, turn, checks, checkFaults>>

BecomesDue(r) ==
  /\ Quiet
  /\ r \in enabled
  /\ ~Listed(r)
  /\ due' = Append(due, r)
  /\ UNCHANGED <<up, enabled, limit, turn, checks, checkFaults>>

\* PUT .../check-schedule computes the next check, or clears it. If there is none the
\* repository is due at once.
UpdateSchedule(r) ==
  /\ up /\ Quiet
  /\ \/ enabled' = enabled \ {r} /\ due' = Without(due, r)
     \/ /\ enabled' = enabled \cup {r}
        /\ due' \in {Without(due, r)} \cup (IF r \in Finite THEN {<<r>> \o Without(due, r)} ELSE {})
  /\ UNCHANGED <<up, limit, turn, checks, checkFaults>>

SetLimit ==
  /\ up /\ Quiet
  /\ limit' \in 0 .. MaxLimit
  /\ UNCHANGED <<up, enabled, due, turn, checks, checkFaults>>

-----------------------------------------------------------------------------
(* Dispatch. *)

\* Mutant of Slots: only the rows that are running count.
SlotsOfRunning ==
  limit - Cardinality({c \in OpenScheduled : checks[c].status = "running"})

Slots == limit - Cardinality(OpenScheduled)

Tick ==
  /\ up /\ Quiet
  /\ due # <<>> /\ Slots > 0
  /\ turn' = [jobs |-> due, slots |-> Slots]
  /\ UNCHANGED <<up, enabled, due, limit, checks, checkFaults>>

Advance(used) ==
  turn' = IF Len(turn.jobs) = 1 \/ turn.slots = used THEN NoTurn
          ELSE [jobs |-> Tail(turn.jobs), slots |-> turn.slots - used]

Looking(r) == turn.jobs # <<>> /\ r = Head(turn.jobs)

\* 409, caught: the repository stays due and takes no slot.
Refuse(r) ==
  /\ Looking(r)
  /\ RunningCheck(r)
  /\ Advance(0)
  /\ UNCHANGED <<up, enabled, due, limit, checks, checkFaults>>

\* The check is started and counted. Without a next occurrence the repository is due
\* again, before all others.
Dispatch(r) ==
  /\ Looking(r)
  /\ ~RunningCheck(r)
  /\ StartCheck(r, 1 .. MaxLimit)
  /\ \/ due' = Without(due, r)
     \/ r \in Finite /\ due' = <<r>> \o Without(due, r)
  /\ Advance(1)
  /\ UNCHANGED <<up, enabled, limit, checkFaults>>

\* A commit fails, that of the row or that of the next time, and breaks the session: every
\* repository that is left raises as well.
DispatchFails(r) ==
  /\ Looking(r)
  /\ ~RunningCheck(r)
  /\ checkFaults < MaxCheckFaults
  /\ UNCHANGED checks \/ StartCheck(r, 1 .. MaxLimit)
  /\ turn' = NoTurn
  /\ checkFaults' = checkFaults + 1
  /\ UNCHANGED <<up, enabled, due, limit>>

DispatchOne(r) == Refuse(r) \/ Dispatch(r) \/ DispatchFails(r)

-----------------------------------------------------------------------------
\* The server stops; the rows stay.
Crash ==
  /\ up
  /\ checkFaults < MaxCheckFaults
  /\ up' = FALSE
  /\ turn' = NoTurn
  /\ checks' = [c \in Id |-> [checks[c] EXCEPT !.task = FALSE]]
  /\ checkFaults' = checkFaults + 1
  /\ UNCHANGED <<enabled, due, limit>>

\* cleanup_orphaned_jobs ends the rows that read running and whose process is not found
\* alive. Pending rows are not looked at.
Recover ==
  /\ ~up
  /\ up' = TRUE
  /\ \E alive \in SUBSET {c \in Id : checks[c].status = "running"} :
       checks' = [c \in Id |-> IF checks[c].status = "running" /\ c \notin alive
                               THEN None ELSE checks[c]]
  /\ UNCHANGED <<enabled, due, limit, turn, checkFaults>>

ChecksNext ==
  \/ \E r \in Repos : ManualCheck(r) \/ BecomesDue(r) \/ UpdateSchedule(r) \/ DispatchOne(r)
  \/ \E c \in Id : TaskStarts(c) \/ TaskGivesUp(c) \/ TaskEnds(c) \/ DeleteRow(c)
  \/ SetLimit \/ Tick \/ Crash \/ Recover

ChecksSpec == ChecksInit /\ [][ChecksNext]_checkVars

\* The loop wakes up every minute and a segment runs to its end. That checks end is an
\* assumption about borg.
Fairness ==
  /\ WF_checkVars(Tick)
  /\ WF_checkVars(\E r \in Repos : DispatchOne(r))
  /\ WF_checkVars(Recover)
  /\ \A c \in Id : WF_checkVars(TaskStarts(c)) /\ WF_checkVars(TaskEnds(c))

LiveSpec == ChecksSpec /\ Fairness
-----------------------------------------------------------------------------
(* Properties. *)

\* No scheduled check is started beyond the limit, whatever became of the rows of earlier
\* ones: borg checks of many repositories at once are what the limit is there to prevent.
WithinCheckLimit ==
  [][(OpenScheduled' \ OpenScheduled # {}) => Cardinality(OpenScheduled') <= limit]_checkVars

\* A repository without a next occurrence takes the head of the queue.
JumpsAhead == \E r \in Finite : due' = <<r>> \o Without(due, r)

\* A repository that is due is checked, or is being checked, as long as the limit leaves
\* a slot besides those that were lost, and no repository whose schedule has run out keeps
\* jumping the queue: such a repository is due every minute, and always first.
DueCheckStarts ==
  <>[](limit > Cardinality(Lost)) /\ <>[][~JumpsAhead]_checkVars
    => \A r \in Repos : []<>(~Listed(r) \/ RunningCheck(r))
=============================================================================
