---------------------------- MODULE JobLifecycle ----------------------------
(***************************************************************************)
(* What BorgScale promises of every background job row (BackupJob,         *)
(* PruneJob, CheckJob, ...), whatever the operation behind it does:        *)
(*   - the row moves forward only: queued, active, ended; an ended row is  *)
(*     never run again;                                                    *)
(*   - while the server is up an active row has a task that works on it;   *)
(*   - when the server is restarted, the rows that were active are ended   *)
(*     before anything else runs;                                          *)
(*   - a task whose row has ended lets go of the job.                      *)
(* A task whose session with the database failed may leave its row as it   *)
(* was, or not see that it was ended: such jobs are lost, and nothing else *)
(* is.                                                                     *)
(* The statuses that end a job are not told apart here.                    *)
(***************************************************************************)
CONSTANT Jobs

VARIABLES
  up,      \* the server process serves requests
  phase,   \* phase[j]: where the row of job j is
  held,    \* the jobs that a task of this server process is working on
  lost     \* jobs whose task can no longer read or write the row

avars == <<up, phase, held, lost>>

Phase == {"absent", "queued", "active", "ended", "removed"}

AbsTypeOK ==
  /\ up \in BOOLEAN
  /\ phase \in [Jobs -> Phase]
  /\ held \subseteq Jobs
  /\ lost \subseteq Jobs

AbsInit ==
  /\ up = TRUE
  /\ phase = [j \in Jobs |-> "absent"]
  /\ held = {}
  /\ lost = {}

MovePhase(j, from, to) ==
  /\ up
  /\ phase[j] \in from
  /\ phase' = [phase EXCEPT ![j] = to]
  /\ UNCHANGED <<up, lost>>

\* A row is created together with the task that will run it, or is refused.
AbsSubmit(j) ==
  \/ MovePhase(j, {"absent"}, "queued") /\ held' = held \cup {j}
  \/ MovePhase(j, {"absent"}, "ended") /\ UNCHANGED held

AbsStart(j) == j \in held /\ MovePhase(j, {"queued"}, "active") /\ UNCHANGED held

\* The task ends its row, or a request ends the row under the task's feet; a lost row can
\* only be ended by a request.
AbsEnd(j) ==
  j \in held \cup lost /\ MovePhase(j, {"queued", "active"}, "ended") /\ UNCHANGED held

AbsRelease(j) ==
  /\ up
  /\ j \in held
  /\ phase[j] \in {"ended", "removed"}
  /\ held' = held \ {j}
  /\ UNCHANGED <<up, phase, lost>>

\* The session of the task fails: it lets go of the row, now or at its own end.
AbsLose(j) ==
  /\ up
  /\ j \in held
  /\ lost' = lost \cup {j}
  /\ held' \in {held, held \ {j}}
  /\ UNCHANGED <<up, phase>>

AbsRemove(j) == MovePhase(j, {"queued", "ended"}, "removed") /\ UNCHANGED held

AbsCrash == up /\ up' = FALSE /\ held' = {} /\ lost' \subseteq lost /\ UNCHANGED phase

AbsRecover ==
  /\ ~up
  /\ up' = TRUE
  /\ phase' = [j \in Jobs |-> IF phase[j] = "active" THEN "ended" ELSE phase[j]]
  /\ UNCHANGED <<held, lost>>

AbsNext ==
  \/ \E j \in Jobs : \/ AbsSubmit(j) \/ AbsStart(j) \/ AbsEnd(j)
                     \/ AbsRelease(j) \/ AbsLose(j) \/ AbsRemove(j)
  \/ AbsCrash
  \/ AbsRecover

AbsSafety == AbsInit /\ [][AbsNext]_avars

AbsSpec ==
  /\ AbsSafety
  /\ \A j \in Jobs : WF_avars(phase[j] = "ended" /\ j \notin lost /\ AbsRelease(j))
  /\ WF_avars(AbsRecover)

\* While the server is up, a row that is active has a task working on it, or is lost.
ActiveIsHeld == up => \A j \in Jobs : phase[j] = "active" => j \in held \cup lost
=============================================================================
