--------------------------- MODULE BackupScheduler ---------------------------
(***************************************************************************)
(* The dispatch of due schedules: once a minute check_scheduled_jobs reads *)
(* the enabled schedules whose next_run has passed, oldest first, and      *)
(* starts as many of them as the concurrency limit leaves room for. What   *)
(* is running it knows from a set of run keys in memory, which a done      *)
(* callback of each task removes.                                          *)
(*                                                                         *)
(* One dispatch is a segment without an await: no request is served and no *)
(* run ends until it is over, but it commits after each schedule and a     *)
(* commit can fail in the middle of it. next_run is kept as the order in   *)
(* which schedules became due: time itself does not matter.                *)
(***************************************************************************)
EXTENDS Integers, Sequences, FiniteSets

CONSTANTS
  Schedules,   \* rows of scheduled_jobs
  Multi,       \* schedules with a list of repositories: one run backs up all of them
  Missing,     \* schedules whose repository no longer exists
  Finite,      \* schedules whose cron expression has a last occurrence (a year field)
  MaxLimit,    \* bound: the largest concurrency limit an administrator sets
  MaxRuns,     \* bound: runs of one schedule at the same time
  MaxFaults    \* bound: failed commits and restarts

ASSUME SchedulesAssumption ==
  /\ Multi \subseteq Schedules
  /\ Missing \subseteq Schedules \ Multi
  /\ Finite \subseteq Schedules

ASSUME BoundsAssumption ==
  /\ MaxLimit \in Nat
  /\ MaxRuns \in Nat
  /\ MaxFaults \in Nat

VARIABLES
  up,        \* the server process is running
  enabled,   \* schedules that are enabled
  due,       \* enabled schedules whose next_run has passed, by next_run
  limit,     \* max_concurrent_scheduled_backups
  turn,      \* the dispatch in progress: schedules still to look at, slots left
  runs,      \* tasks started by the scheduler, <<schedule, number>>
  keys,      \* _active_scheduled_backup_runs
  faults     \* failed commits and restarts so far

vars == <<up, enabled, due, limit, turn, runs, keys, faults>>

Run == Schedules \X (1 .. MaxRuns)
NoTurn == [jobs |-> <<>>, slots |-> 0]
Idle == turn = NoTurn

\* The key of a run: its backup row, or the schedule if it has many repositories.
Key(r) == IF r[1] \in Multi THEN <<r[1], 0>> ELSE r

Listed(s) == \E i \in DOMAIN due : due[i] = s

\* A schedule is due at most once.
Without(seq, s) ==
  IF \E i \in DOMAIN seq : seq[i] = s
    THEN LET i == CHOOSE i \in DOMAIN seq : seq[i] = s
         IN  [k \in 1 .. Len(seq) - 1 |-> seq[IF k < i THEN k ELSE k + 1]]
    ELSE seq

TypeOK ==
  /\ up \in BOOLEAN
  /\ enabled \subseteq Schedules
  /\ due \in Seq(enabled)
  /\ limit \in 0 .. MaxLimit
  /\ turn \in [jobs : Seq(Schedules), slots : Nat]
  /\ runs \subseteq Run
  /\ keys \subseteq Schedules \X (0 .. MaxRuns)
  /\ faults \in 0 .. MaxFaults

Init ==
  /\ up = TRUE
  /\ enabled = Schedules
  /\ due = <<>>
  /\ limit \in 0 .. MaxLimit
  /\ turn = NoTurn
  /\ runs = {}
  /\ keys = {}
  /\ faults = 0

-----------------------------------------------------------------------------
(* Time, administrators and runs. *)

\* next_run passes, whether or not the server is up.
BecomesDue(s) ==
  /\ Idle
  /\ s \in enabled
  /\ ~Listed(s)
  /\ due' = Append(due, s)
  /\ UNCHANGED <<up, enabled, limit, turn, runs, keys, faults>>

\* Enabling a schedule, or giving it another cron expression, computes next_run anew.
Enable(s) ==
  /\ up /\ Idle
  /\ enabled' = enabled \cup {s}
  /\ due' = Without(due, s)
  /\ UNCHANGED <<up, limit, turn, runs, keys, faults>>

\* Mutant of Disable: the schedule stays among the due ones.
DisableKeepsDue(s) ==
  /\ up /\ Idle
  /\ enabled' = enabled \ {s}
  /\ UNCHANGED <<up, due, limit, turn, runs, keys, faults>>

\* Disabling or deleting a schedule takes it out of the query; its runs go on.
Disable(s) ==
  /\ up /\ Idle
  /\ enabled' = enabled \ {s}
  /\ due' = Without(due, s)
  /\ UNCHANGED <<up, limit, turn, runs, keys, faults>>

SetLimit ==
  /\ up /\ Idle
  /\ limit' \in 0 .. MaxLimit
  /\ UNCHANGED <<up, enabled, due, turn, runs, keys, faults>>

\* Mutant of RunEnds: the key is removed by the number of the run, not by its key.
RunEndsByNumber(r) ==
  /\ up /\ Idle
  /\ r \in runs
  /\ runs' = runs \ {r}
  /\ keys' = keys \ {<<r[1], 0>>}
  /\ UNCHANGED <<up, enabled, due, limit, turn, faults>>

\* A task is done, and its callback discards its key.
RunEnds(r) ==
  /\ up /\ Idle
  /\ r \in runs
  /\ runs' = runs \ {r}
  /\ keys' = keys \ {Key(r)}
  /\ UNCHANGED <<up, enabled, due, limit, turn, faults>>

-----------------------------------------------------------------------------
(* Dispatch. *)

Slots == limit - Cardinality(keys)

\* Bound: a dispatch is taken up only if each schedule it lists can start a run.
Room == \A i \in DOMAIN due : \E n \in 1 .. MaxRuns : <<due[i], n>> \notin runs

\* Mutant of Tick: the schedule that became due last is looked at first.
TickNewestFirst ==
  /\ up /\ Idle
  /\ due # <<>> /\ Slots > 0
  /\ Room
  /\ turn' = [jobs |-> [i \in DOMAIN due |-> due[Len(due) + 1 - i]], slots |-> Slots]
  /\ UNCHANGED <<up, enabled, due, limit, runs, keys, faults>>

\* Mutant of Tick: the slots are the limit, whatever is running.
TickIgnoresRunning ==
  /\ up /\ Idle
  /\ due # <<>> /\ Slots > 0
  /\ Room
  /\ turn' = [jobs |-> due, slots |-> limit]
  /\ UNCHANGED <<up, enabled, due, limit, runs, keys, faults>>

\* dispatch_due_scheduled_backups: nothing to do without a free slot or a due schedule.
Tick ==
  /\ up /\ Idle
  /\ due # <<>> /\ Slots > 0
  /\ Room
  /\ turn' = [jobs |-> due, slots |-> Slots]
  /\ UNCHANGED <<up, enabled, due, limit, runs, keys, faults>>

\* The loop goes on to the next schedule, unless the slots are used up.
Advance(used) ==
  turn' = IF Len(turn.jobs) = 1 \/ turn.slots = used THEN NoTurn
          ELSE [jobs |-> Tail(turn.jobs), slots |-> turn.slots - used]

\* The task is created and its key is entered.
StartRun(s) ==
  \E n \in 1 .. MaxRuns :
    /\ <<s, n>> \notin runs
    /\ runs' = runs \cup {<<s, n>>}
    /\ keys' = keys \cup {Key(<<s, n>>)}

Looking(s) == turn.jobs # <<>> /\ s = Head(turn.jobs)

\* Mutant of SkipMissing: a schedule that could not start takes up a slot.
SkipMissingCounts(s) ==
  /\ Looking(s)
  /\ s \in Missing
  /\ Advance(1)
  /\ UNCHANGED <<up, enabled, due, limit, runs, keys, faults>>

\* The repository is gone: logged, not counted, and due again at the next dispatch.
SkipMissing(s) ==
  /\ Looking(s)
  /\ s \in Missing
  /\ Advance(0)
  /\ UNCHANGED <<up, enabled, due, limit, runs, keys, faults>>

\* The run is started and next_run moves on.
Dispatch(s) ==
  /\ Looking(s)
  /\ s \notin Missing
  /\ StartRun(s)
  /\ due' = Without(due, s)
  /\ Advance(1)
  /\ UNCHANGED <<up, enabled, limit, faults>>

\* croniter finds no next occurrence: the run has been started, but it is not counted and
\* next_run stays where it is.
DispatchWithoutNext(s) ==
  /\ Looking(s)
  /\ s \in Finite \ Missing
  /\ StartRun(s)
  /\ Advance(0)
  /\ UNCHANGED <<up, enabled, due, limit, faults>>

\* A commit fails: that of the backup row, or that of next_run after the run was started.
\* The session is unusable in the handler, which ends this dispatch.
DispatchFails(s) ==
  /\ Looking(s)
  /\ s \notin Missing
  /\ faults < MaxFaults
  /\ \/ s \notin Multi /\ UNCHANGED <<runs, keys>>
     \/ StartRun(s)
  /\ turn' = NoTurn
  /\ faults' = faults + 1
  /\ UNCHANGED <<up, enabled, due, limit>>

DispatchOne(s) ==
  SkipMissing(s) \/ Dispatch(s) \/ DispatchWithoutNext(s) \/ DispatchFails(s)

-----------------------------------------------------------------------------
\* The container stops: tasks and keys are in memory, the schedules are not.
Crash ==
  /\ up
  /\ faults < MaxFaults
  /\ up' = FALSE
  /\ runs' = {}
  /\ keys' = {}
  /\ turn' = NoTurn
  /\ faults' = faults + 1
  /\ UNCHANGED <<enabled, due, limit>>

Restart ==
  /\ ~up
  /\ up' = TRUE
  /\ UNCHANGED <<enabled, due, limit, turn, runs, keys, faults>>

Next ==
  \/ \E s \in Schedules :
       BecomesDue(s) \/ Enable(s) \/ Disable(s) \/ DispatchOne(s)
  \/ \E r \in Run : RunEnds(r)
  \/ SetLimit \/ Tick \/ Crash \/ Restart

Spec == Init /\ [][Next]_vars

\* The loop wakes up every minute, and a segment runs to its end. That runs end is an
\* assumption about borg: a backup that hangs keeps its slot.
Fairness ==
  /\ WF_vars(Tick)
  /\ WF_vars(\E s \in Schedules : DispatchOne(s))
  /\ WF_vars(Restart)
  /\ \A r \in Run : WF_vars(RunEnds(r))

LiveSpec == Spec /\ Fairness
-----------------------------------------------------------------------------
(* Properties. *)

\* Every key belongs to a running task, so that no slot is lost for good, and every run of
\* a schedule with one repository has its key, so that it is counted.
KeysMatchRuns ==
  /\ keys \subseteq {Key(r) : r \in runs}
  /\ \A r \in runs : r[1] \notin Multi => Key(r) \in keys

\* A schedule is started only when those that became due before it were looked at: each
\* of them is gone from the list, or could not start, or could not be moved on.
OldestFirst ==
  [][\A s \in Schedules :
       (\E n \in 1 .. MaxRuns : <<s, n>> \in runs' \ runs)
         => \A i, k \in DOMAIN due :
              (due[k] = s /\ i < k) => due[i] \in Missing \cup Finite]_vars

\* The runs that the limit is really about: each is counted by a key of its own and takes
\* one slot when it is started. A schedule with many repositories shares one key among
\* its runs, and one without a next occurrence takes no slot.
Counted(r) == r[1] \notin Multi \cup Finite

\* frontend/src/locales/en.json:1580 "How many scheduled backup executions the shared
\* scheduler may run at once." The limit may be lowered below what is running, commits
\* may fail and the server restart; but no start brings the counted runs above it.
DispatchWithinCapacity ==
  [][runs' \ runs # {} => Cardinality({r \in runs' : Counted(r)}) <= limit]_vars

\* A due schedule is started, or taken off the list by somebody, unless its repository is
\* gone, its cron expression has run out or the administrator keeps the scheduler paused.
DueIsDispatched ==
  <>[](limit > 0)
    => \A s \in Schedules \ (Missing \cup Finite) : Listed(s) ~> ~Listed(s)
=============================================================================
