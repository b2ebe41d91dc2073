----------------------- MODULE BackupLifecycleProofs -----------------------
(***************************************************************************)
(* For every set of jobs: the invariants of BackupLifecycle hold, an ended *)
(* row is never run again, and the job row implements the safety part of   *)
(* JobLifecycle.                                                           *)
(*                                                                         *)
(* Every action disturbs one job, so the inductive invariant is TypeOK and *)
(* a predicate JobInv of each job. The checked properties are not          *)
(* inductive one by one: Begin writes "running" without looking at the     *)
(* row, so one must know that nothing ends a pending row that has a task;  *)
(* Decide trusts the exit code, so one must know that a process has one    *)
(* exactly when it is gone.                                                *)
(***************************************************************************)
EXTENDS BackupLifecycle, TLAPS

\* A stopped server has no coroutine and no process.
StoppedIsEmpty(j) == ~up => task[j] = NoTask /\ proc[j].os # "alive"

\* What the row says while its task has not started yet; an except handler whose commit
\* failed is on its way out.
RowBeforeStart(j) ==
  /\ task[j].pc = "queued" => row[j].status \in {"pending", "deleted"}
  /\ row[j].status = "absent" =>
       task[j].pc = "none" /\ proc[j].os = "none" /\ handler[j] = "committed"
  /\ row[j].status = "skipped" => task[j].pc \in {"none", "unmounting", "done"}
  /\ canceller[j] = "waiting" => row[j].status \notin {"absent", "pending"}
  /\ handler[j] # "committed" => task[j].pc \in {"none", "unmounting", "done"}

\* A process has an exit code exactly when it is gone, is reaped only then, and does
\* not exist before the spawn.
ExitCodeIffGone(j) ==
  /\ proc[j].rc # "none" <=> proc[j].os = "gone"
  /\ proc[j].reaped => proc[j].os = "gone"
  /\ task[j].pc \in {"queued", "prehook", "prepare", "starting"} => proc[j].os = "none"

\* The checked invariants, of one job.
Promised(j) ==
  /\ up => /\ handler[j] # "lost" =>
                /\ row[j].status = "running" => task[j].pc \in Working
                /\ row[j].status = "pending" => task[j].pc \in {"none", "queued"}
           /\ j \in mounts =>
                task[j].pc \notin {"none", "queued", "prehook", "prepare", "done"}
  /\ row[j].completedAt <=> row[j].status \in EndedStatus
  /\ row[j].status = "completed" => proc[j].rc = "ok"
  /\ row[j].status = "completed_with_warnings" => proc[j].rc = "warn"
  /\ row[j].status = "skipped" => proc[j].os = "none"
  /\ proc[j].os = "alive" => /\ task[j].pc \in {"spawning", "streaming"}
                             /\ task[j].pc = "streaming" => j \in tracked

JobInv(j) == StoppedIsEmpty(j) /\ RowBeforeStart(j) /\ ExitCodeIffGone(j) /\ Promised(j)

\* The inductive invariant.
IInv == TypeOK /\ \A j \in Jobs : JobInv(j)

LEMMA InvariantsFollow ==
  IInv => /\ TypeOK
          /\ OpenRowHasTask
          /\ CompletedAtIffEnded
          /\ HonestStatus
          /\ ProcessIsWatched
          /\ MountsHaveTask
  BY DEF IInv, JobInv, Promised, TypeOK, OpenRowHasTask, CompletedAtIffEnded,
         HonestStatus, ProcessIsWatched, MountsHaveTask

LEMMA InitIInv == Init => IInv
  BY DEF Init, IInv, TypeOK, JobInv, StoppedIsEmpty, RowBeforeStart, ExitCodeIffGone,
         Promised, NoTask, NoProc, RowRecord, TaskRecord, ProcRecord, Status, EndedStatus,
         SeenStatus, Outcomes, HeartbeatState, Signal, ExitCode, Pc, HandlerFate

-----------------------------------------------------------------------------
(* The record updates the actions make stay within their types. *)

LEMMA TaskUpdates ==
  /\ \A t \in TaskRecord, p \in Pc : [t EXCEPT !.pc = p] \in TaskRecord
  /\ \A t \in TaskRecord, p \in Pc, h \in BOOLEAN :
       [t EXCEPT !.pc = p, !.hooks = h] \in TaskRecord
  /\ \A t \in TaskRecord, p \in Pc, b \in HeartbeatState :
       [t EXCEPT !.pc = p, !.heartbeat = b] \in TaskRecord
  /\ \A t \in TaskRecord, b \in HeartbeatState : [t EXCEPT !.heartbeat = b] \in TaskRecord
  /\ \A t \in TaskRecord, s \in SeenStatus : [t EXCEPT !.seen = s] \in TaskRecord
  /\ \A t \in TaskRecord, s \in SeenStatus, b \in HeartbeatState :
       [t EXCEPT !.seen = s, !.heartbeat = b] \in TaskRecord
  /\ \A t \in TaskRecord, s \in SeenStatus, h \in BOOLEAN :
       [t EXCEPT !.streamed = h, !.seen = s] \in TaskRecord
  /\ \A t \in TaskRecord, p \in Pc, r \in Outcomes :
       [t EXCEPT !.pc = p, !.result = r] \in TaskRecord
  /\ \A t \in TaskRecord, p \in Pc, r \in Outcomes, s \in SeenStatus, b \in HeartbeatState :
       [t EXCEPT !.pc = p, !.result = r, !.seen = s, !.heartbeat = b] \in TaskRecord
  BY DEF TaskRecord

LEMMA ProcUpdates ==
  /\ \A q \in ProcRecord : [q EXCEPT !.os = "alive"] \in ProcRecord
  /\ \A q \in ProcRecord : [q EXCEPT !.reaped = TRUE] \in ProcRecord
  /\ \A q \in ProcRecord, g \in Signal : [q EXCEPT !.signal = g] \in ProcRecord
  /\ \A q \in ProcRecord, c \in ExitCode : [q EXCEPT !.os = "gone", !.rc = c] \in ProcRecord
  /\ \A q \in ProcRecord : q.signal \in Signal /\ q.rc \in ExitCode
  BY DEF ProcRecord

LEMMA RowUpdates ==
  /\ \A s \in Status, b \in BOOLEAN : [status |-> s, completedAt |-> b] \in RowRecord
  /\ \A r \in RowRecord, s \in Status : [r EXCEPT !.status = s] \in RowRecord
  /\ \A r \in RowRecord : r.status \in Status
  BY DEF RowRecord

LEMMA SaveType ==
  ASSUME TypeOK, NEW j \in Jobs, NEW s \in EndedStatus, SaveEnded(j, s)
  PROVE  row' \in [Jobs -> RowRecord]
  BY RowUpdates DEF TypeOK, SaveEnded, Status

LEMMA GotoType ==
  ASSUME TypeOK, NEW j \in Jobs, NEW p \in Pc, Goto(j, p)
  PROVE  task' \in [Jobs -> TaskRecord] /\ tracked' \subseteq Jobs
  BY TaskUpdates DEF TypeOK, Goto

LEMMA FailJobType ==
  ASSUME TypeOK, NEW j \in Jobs, FailJob(j)
  PROVE  /\ row' \in [Jobs -> RowRecord]
         /\ task' \in [Jobs -> TaskRecord]
         /\ tracked' \subseteq Jobs
         /\ handler' \in [Jobs -> HandlerFate]
<1>1. CASE SaveEnded(j, "failed") /\ GotoSaved(j, "failing") /\ UNCHANGED handler
  BY <1>1, SaveType, GotoType DEF GotoSaved, EndedStatus, Pc, TypeOK
<1>2. CASE FailUnheard(j)
  <2>1. row' \in [Jobs -> RowRecord]
    BY <1>2, SaveType DEF FailUnheard, EndedStatus, TypeOK
  <2>2. Goto(j, "unmounting")
    BY <1>2 DEF FailUnheard
  <2>3. task' \in [Jobs -> TaskRecord] /\ tracked' \subseteq Jobs
    BY <2>2, GotoType DEF Pc
  <2>4. handler' \in [Jobs -> HandlerFate]
    BY <1>2 DEF FailUnheard, HandlerFate, TypeOK
  <2> QED
    BY <2>1, <2>3, <2>4
<1> QED
  BY <1>1, <1>2 DEF FailJob

\* What the except handler leaves: a row that was deleted, or is failed, or is as it was.
LEMMA FailJobEffect ==
  ASSUME TypeOK, NEW j \in Jobs, FailJob(j)
  PROVE  /\ task'[j].heartbeat = task[j].heartbeat
         /\ \/ /\ Deleted(j) /\ row'[j] = row[j]
               /\ task'[j].pc = "unmounting" /\ handler'[j] = handler[j]
            \/ /\ ~Deleted(j) /\ row'[j].status = "failed" /\ row'[j].completedAt
               /\ \/ task'[j].pc = "failing" /\ handler'[j] = handler[j]
                  \/ task'[j].pc = "unmounting" /\ handler'[j] = "retried"
            \/ /\ ~Deleted(j) /\ row'[j] = row[j]
               /\ task'[j].pc = "unmounting" /\ handler'[j] = "lost"
<1>1. \A p : Goto(j, p) => task'[j].pc = p /\ task'[j].heartbeat = task[j].heartbeat
  BY DEF TypeOK, TaskRecord, Goto
<1>2. SaveEnded(j, "failed") =>
        \/ Deleted(j) /\ row'[j] = row[j]
        \/ ~Deleted(j) /\ row'[j].status = "failed" /\ row'[j].completedAt
  BY DEF TypeOK, SaveEnded
<1>3. CASE SaveEnded(j, "failed") /\ GotoSaved(j, "failing") /\ UNCHANGED handler
  BY <1>1, <1>2, <1>3 DEF GotoSaved
<1>4. CASE FailUnheard(j)
  BY <1>1, <1>2, <1>4 DEF FailUnheard, TypeOK
<1> QED
  BY <1>3, <1>4 DEF FailJob

\* It touches the row, the task and the fate of job j only.
LEMMA FailJobFrame ==
  ASSUME TypeOK, NEW j \in Jobs, FailJob(j), NEW k \in Jobs \ {j}
  PROVE  /\ row'[k] = row[k] /\ task'[k] = task[k] /\ handler'[k] = handler[k]
         /\ k \in tracked' <=> k \in tracked
  BY DEF TypeOK, FailJob, FailUnheard, GotoSaved, Goto, SaveEnded

LEMMA FinalizeType ==
  ASSUME TypeOK, NEW j \in Jobs, Finalize(j)
  PROVE  task' \in [Jobs -> TaskRecord] /\ tracked' \subseteq Jobs
  BY GotoType DEF Finalize, Pc

-----------------------------------------------------------------------------
(* A step of one job leaves what the invariant says of the others alone. *)

OnlyJob(j) ==
  /\ up' = up
  /\ \A k \in Jobs \ {j} :
       /\ row'[k] = row[k] /\ task'[k] = task[k] /\ proc'[k] = proc[k]
       /\ canceller'[k] = canceller[k] /\ handler'[k] = handler[k]
       /\ k \in tracked' <=> k \in tracked
       /\ k \in mounts' <=> k \in mounts

LEMMA Frame ==
  ASSUME NEW j \in Jobs, IInv, OnlyJob(j), JobInv(j)', TypeOK'
  PROVE  IInv'
<1>1. SUFFICES ASSUME NEW k \in Jobs PROVE JobInv(k)'
  BY DEF IInv
<1>2. CASE k = j
  BY <1>2
<1>3. CASE k # j
  BY <1>3 DEF OnlyJob, IInv, JobInv, StoppedIsEmpty, RowBeforeStart, ExitCodeIffGone, Promised
<1> QED
  BY <1>2, <1>3

-----------------------------------------------------------------------------
(* The abstract state of one job, and the steps JobLifecycle allows it. *)

PhaseAt(j) == PhaseOf(row[j].status)
Held(j) == task[j].pc \notin {"none", "done"}
Lost(j) == handler[j] = "lost" \/ task[j].heartbeat = "dead"

AbstractMove(j) ==
  \/ /\ Lost(j)' <=> Lost(j)
     /\ \/ PhaseAt(j)' = PhaseAt(j) /\ (Held(j)' <=> Held(j))
        \/ PhaseAt(j) = "absent" /\ PhaseAt(j)' = "queued" /\ Held(j)'
        \/ PhaseAt(j) = "absent" /\ PhaseAt(j)' = "ended" /\ (Held(j)' <=> Held(j))
        \/ PhaseAt(j) = "queued" /\ PhaseAt(j)' = "active" /\ Held(j) /\ Held(j)'
        \/ /\ PhaseAt(j) \in {"queued", "active"} /\ PhaseAt(j)' = "ended"
           /\ Held(j) \/ Lost(j)
           /\ (Held(j)' <=> Held(j))
        \/ /\ PhaseAt(j) \in {"ended", "removed"} /\ PhaseAt(j)' = PhaseAt(j)
           /\ Held(j) /\ ~Held(j)'
        \/ /\ PhaseAt(j) \in {"queued", "ended"} /\ PhaseAt(j)' = "removed"
           /\ (Held(j)' <=> Held(j))
  \/ PhaseAt(j)' = PhaseAt(j) /\ Held(j) /\ Lost(j)'

-----------------------------------------------------------------------------
(* The except handler, wherever it is entered from. *)

LEMMA FailJobStep ==
  ASSUME IInv, NEW j \in Jobs, FailJob(j), up, up' = up,
         task[j].pc \in {"queued", "prehook", "prepare", "starting", "streaming", "posthook",
                         "notifying"},
         task[j].pc = "queued" => ~Deleted(j),
         proc'[j] = proc[j], proc[j].os # "alive", canceller'[j] = canceller[j],
         j \in mounts' <=> j \in mounts,
         j \in mounts => task[j].pc # "queued"
  PROVE  JobInv(j)' /\ AbstractMove(j)
<1>1. /\ JobInv(j) /\ TypeOK
      /\ row[j].status # "absent" /\ handler[j] = "committed"
      /\ row[j].status \in Status
  BY RowUpdates DEF IInv, JobInv, RowBeforeStart, TypeOK, HandlerFate
<1>2. /\ task'[j].heartbeat = task[j].heartbeat
      /\ \/ /\ Deleted(j) /\ row'[j] = row[j]
            /\ task'[j].pc = "unmounting" /\ handler'[j] = handler[j]
         \/ /\ ~Deleted(j) /\ row'[j].status = "failed" /\ row'[j].completedAt
            /\ \/ task'[j].pc = "failing" /\ handler'[j] = handler[j]
               \/ task'[j].pc = "unmounting" /\ handler'[j] = "retried"
         \/ /\ ~Deleted(j) /\ row'[j] = row[j]
            /\ task'[j].pc = "unmounting" /\ handler'[j] = "lost"
  BY <1>1, FailJobEffect
<1>3. StoppedIsEmpty(j)'
  BY DEF StoppedIsEmpty
<1>4. RowBeforeStart(j)'
  BY <1>1, <1>2 DEF RowBeforeStart, JobInv
<1>5. ExitCodeIffGone(j)'
  BY <1>1, <1>2 DEF ExitCodeIffGone, JobInv
<1>6. Promised(j)'
  BY <1>1, <1>2 DEF Promised, JobInv, Deleted, EndedStatus, Working
<1>7. AbstractMove(j)
  BY <1>1, <1>2 DEF AbstractMove, PhaseAt, PhaseOf, Held, Lost, Deleted, Status, EndedStatus
<1> QED
  BY <1>3, <1>4, <1>5, <1>6, <1>7 DEF JobInv

-----------------------------------------------------------------------------
(* One lemma per action. *)

LEMMA BeginStep ==
  ASSUME IInv, NEW j \in Jobs, Begin(j)
  PROVE  IInv' /\ OnlyJob(j) /\ up /\ AbstractMove(j)
<1> USE DEF IInv
<1>1. TypeOK'
  <2>1. CASE Goto(j, "unmounting") /\ UNCHANGED <<row, handler>>
    BY <2>1, GotoType DEF TypeOK, Begin, Pc
  <2>2. ASSUME NEW h \in BOOLEAN,
               row' = [row EXCEPT ![j].status = "running"],
               task' = [task EXCEPT ![j].pc = IF h THEN "prehook" ELSE "prepare",
                                    ![j].hooks = h],
               UNCHANGED <<tracked, handler>>
        PROVE  TypeOK'
    <3>1. row' \in [Jobs -> RowRecord]
      BY <2>2, RowUpdates DEF TypeOK, Status
    <3>2. (IF h THEN "prehook" ELSE "prepare") \in Pc
      BY DEF Pc
    <3>3. task' \in [Jobs -> TaskRecord]
      BY <2>2, <3>2, TaskUpdates DEF TypeOK
    <3> QED
      BY <2>2, <3>1, <3>3 DEF TypeOK, Begin
  <2>3. CASE FailJob(j)
    BY <2>3, FailJobType DEF TypeOK, Begin
  <2> QED
    BY <2>1, <2>2, <2>3 DEF Begin
<1>2. OnlyJob(j)
  BY FailJobFrame DEF OnlyJob, TypeOK, Begin, At, Deleted, SaveEnded, Goto, GotoSaved
<1>3. JobInv(j)' /\ up /\ AbstractMove(j)
  <2>1. /\ task[j].pc = "queued" /\ proc[j].os = "none" /\ j \notin mounts
        /\ up /\ up' /\ proc' = proc /\ mounts' = mounts /\ canceller' = canceller
        /\ row[j].status \in {"pending", "deleted"} /\ ~row[j].completedAt
        /\ row[j] \in RowRecord /\ task[j] \in TaskRecord /\ proc[j] \in ProcRecord
        /\ canceller[j] = "waiting" => row[j].status = "deleted"
        /\ handler[j] = "committed"
    BY DEF TypeOK, HandlerFate, RowRecord, Begin, At, JobInv, RowBeforeStart, ExitCodeIffGone, Promised,
       EndedStatus
  <2>2. CASE Deleted(j) /\ Goto(j, "unmounting") /\ UNCHANGED <<row, handler>>
    <3>1. /\ row'[j] = row[j] /\ task'[j].pc = "unmounting" /\ row[j].status = "deleted"
          /\ handler' = handler /\ task'[j].heartbeat = task[j].heartbeat
      BY <2>1, <2>2 DEF Goto, Deleted, TypeOK, TaskRecord
    <3> QED
      BY <2>1, <3>1 DEF JobInv, StoppedIsEmpty, RowBeforeStart, ExitCodeIffGone, Promised,
         EndedStatus, Working, AbstractMove, PhaseAt, PhaseOf, Held, Lost
  <2>3. ASSUME NEW h \in BOOLEAN, ~Deleted(j),
               row' = [row EXCEPT ![j].status = "running"],
               task' = [task EXCEPT ![j].pc = IF h THEN "prehook" ELSE "prepare",
                                    ![j].hooks = h],
               UNCHANGED handler
        PROVE  JobInv(j)' /\ AbstractMove(j)
    <3>1. /\ row[j].status = "pending"
          /\ row'[j].status = "running" /\ ~row'[j].completedAt
          /\ task'[j].pc \in {"prehook", "prepare"}
          /\ task'[j].heartbeat = task[j].heartbeat /\ handler' = handler
      BY <2>1, <2>3 DEF TypeOK, RowRecord, TaskRecord, Deleted
    <3> QED
      BY <2>1, <3>1 DEF JobInv, StoppedIsEmpty, RowBeforeStart, ExitCodeIffGone, Promised,
         EndedStatus, Working, AbstractMove, PhaseAt, PhaseOf, Held, Lost
  <2>4. CASE ~Deleted(j) /\ FailJob(j)
    BY <2>1, <2>4, FailJobStep
  <2> QED
    BY <2>1, <2>2, <2>3, <2>4 DEF Begin
<1> QED
  BY <1>1, <1>2, <1>3, Frame

LEMMA PreHookStep ==
  ASSUME IInv, NEW j \in Jobs, PreHook(j)
  PROVE  IInv' /\ OnlyJob(j) /\ up /\ AbstractMove(j)
<1> USE DEF IInv
<1>1. TypeOK'
  BY FailJobType, GotoType, SaveType DEF TypeOK, PreHook, Pc, EndedStatus
<1>2. OnlyJob(j)
  BY FailJobFrame DEF OnlyJob, TypeOK, PreHook, At, Deleted, SaveEnded, Goto, GotoSaved
<1>3. up /\ up' /\ UNCHANGED <<proc, canceller, mounts>> /\ task[j].pc = "prehook"
      /\ JobInv(j) /\ proc[j].os = "none"
  BY DEF PreHook, At, JobInv, ExitCodeIffGone
<1>4. JobInv(j)' /\ AbstractMove(j)
  <2>1. CASE Goto(j, "prepare") /\ UNCHANGED <<row, handler>>
    BY <1>3, <2>1 DEF Goto, TypeOK, TaskRecord, JobInv, StoppedIsEmpty, RowBeforeStart,
       ExitCodeIffGone, Promised, Working, AbstractMove, PhaseAt, Held, Lost
  <2>2. CASE SaveEnded(j, "skipped") /\ Goto(j, "unmounting") /\ UNCHANGED handler
    BY <1>3, <2>2 DEF SaveEnded, Deleted, Goto, TypeOK, RowRecord, TaskRecord, EndedStatus,
       Status, JobInv, StoppedIsEmpty, RowBeforeStart, ExitCodeIffGone, Promised, Working,
       AbstractMove, PhaseAt, PhaseOf, Held, Lost
  <2>3. CASE FailJob(j)
    BY <1>3, <2>3, FailJobStep
  <2> QED
    BY <2>1, <2>2, <2>3 DEF PreHook
<1> QED
  BY <1>1, <1>2, <1>3, <1>4, Frame

LEMMA PrepareStep ==
  ASSUME IInv, NEW j \in Jobs, Prepare(j)
  PROVE  IInv' /\ OnlyJob(j) /\ up /\ AbstractMove(j)
<1> USE DEF IInv
<1>1. TypeOK'
  BY FailJobType, GotoType, SaveType DEF TypeOK, Prepare, MountSources, Pc, EndedStatus
<1>2. OnlyJob(j)
  BY FailJobFrame DEF OnlyJob, TypeOK, Prepare, MountSources, At, Deleted, SaveEnded, Goto, GotoSaved
<1>3. up /\ up' /\ UNCHANGED <<proc, canceller>> /\ task[j].pc = "prepare"
      /\ JobInv(j) /\ proc[j].os = "none"
  BY DEF Prepare, At, JobInv, ExitCodeIffGone
<1>4. JobInv(j)' /\ AbstractMove(j)
  <2>1. CASE MountSources(j) /\ Goto(j, "starting") /\ UNCHANGED <<row, handler>>
    BY <1>3, <2>1 DEF Goto, TypeOK, TaskRecord, JobInv, StoppedIsEmpty, RowBeforeStart,
       ExitCodeIffGone, Promised, Working, AbstractMove, PhaseAt, Held, Lost
  <2>2. CASE SaveEnded(j, "failed") /\ Goto(j, "unmounting") /\ UNCHANGED <<mounts, handler>>
    BY <1>3, <2>2 DEF SaveEnded, Deleted, Goto, TypeOK, RowRecord, TaskRecord, EndedStatus,
       Status, JobInv, StoppedIsEmpty, RowBeforeStart, ExitCodeIffGone, Promised, Working,
       AbstractMove, PhaseAt, PhaseOf, Held, Lost
  <2>3. CASE FailJob(j) /\ UNCHANGED mounts
    BY <1>3, <2>3, FailJobStep
  <2> QED
    BY <2>1, <2>2, <2>3 DEF Prepare
<1> QED
  BY <1>1, <1>2, <1>3, <1>4, Frame

LEMMA SpawnStep ==
  ASSUME IInv, NEW j \in Jobs, Spawn(j)
  PROVE  IInv' /\ OnlyJob(j) /\ up /\ AbstractMove(j)
<1> USE DEF IInv
<1>1. TypeOK'
  <2>1. CASE proc' = [proc EXCEPT ![j].os = "alive"] /\ Goto(j, "spawning")
             /\ UNCHANGED <<row, handler>>
    BY <2>1, GotoType, ProcUpdates DEF TypeOK, Spawn, Pc
  <2>2. CASE FailJob(j) /\ UNCHANGED proc
    BY <2>2, FailJobType DEF TypeOK, Spawn
  <2> QED
    BY <2>1, <2>2 DEF Spawn
<1>2. OnlyJob(j)
  BY FailJobFrame DEF OnlyJob, TypeOK, Spawn, At, Deleted, SaveEnded, Goto, GotoSaved
<1>3. JobInv(j)' /\ up /\ AbstractMove(j)
  <2>1. /\ task[j].pc = "starting" /\ proc[j].os = "none" /\ proc[j].rc = "none"
        /\ ~proc[j].reaped /\ up /\ up'
        /\ mounts' = mounts /\ canceller' = canceller
        /\ row[j] \in RowRecord /\ task[j] \in TaskRecord /\ proc[j] \in ProcRecord
    BY DEF TypeOK, RowRecord, ProcRecord, Spawn, At, JobInv, ExitCodeIffGone
  <2>2. CASE proc' = [proc EXCEPT ![j].os = "alive"] /\ Goto(j, "spawning")
             /\ UNCHANGED <<row, handler>>
    <3>1. /\ row'[j] = row[j] /\ task'[j].pc = "spawning" /\ proc'[j].os = "alive"
          /\ handler' = handler /\ task'[j].heartbeat = task[j].heartbeat
          /\ proc'[j].rc = proc[j].rc /\ proc'[j].reaped = proc[j].reaped
      BY <2>1, <2>2 DEF Goto, TypeOK, TaskRecord, ProcRecord
    <3> QED
      BY <2>1, <3>1 DEF JobInv, StoppedIsEmpty, RowBeforeStart, ExitCodeIffGone, Promised,
         EndedStatus, Working, AbstractMove, PhaseAt, PhaseOf, Held, Lost
  <2>3. CASE FailJob(j) /\ UNCHANGED proc
    BY <2>1, <2>3, FailJobStep
  <2> QED
    BY <2>1, <2>2, <2>3 DEF Spawn
<1> QED
  BY <1>1, <1>2, <1>3, Frame

LEMMA RegisterStep ==
  ASSUME IInv, NEW j \in Jobs, Register(j)
  PROVE  IInv' /\ OnlyJob(j) /\ up /\ AbstractMove(j)
<1> USE DEF IInv
<1>1. TypeOK'
  BY TaskUpdates DEF TypeOK, Register, Pc, HeartbeatState
<1>2. OnlyJob(j)
  BY DEF OnlyJob, TypeOK, Register, At
<1>3. JobInv(j)'
  BY DEF Register, At, TypeOK, RowRecord, TaskRecord, ProcRecord, Status, EndedStatus,
     JobInv, StoppedIsEmpty, RowBeforeStart, ExitCodeIffGone, Promised, Working, NoTask
<1>4. up /\ AbstractMove(j)
  BY DEF Register, At, TypeOK, RowRecord, TaskRecord, Status, EndedStatus, JobInv,
     RowBeforeStart, Promised, Working, AbstractMove, PhaseAt, PhaseOf, Held, Lost
<1> QED
  BY <1>1, <1>2, <1>3, <1>4, Frame

LEMMA PublishStep ==
  ASSUME IInv, NEW j \in Jobs, Decide(j), Publish(j)
  PROVE  IInv' /\ OnlyJob(j) /\ up /\ AbstractMove(j)
<1> USE DEF IInv
<1>1. TypeOK'
  <2>1. /\ Outcome(j) \in Outcomes
        /\ ResultStatus(Outcome(j)) \in EndedStatus
        /\ AfterPublish(j, Outcome(j)) \in Pc
    BY ProcUpdates DEF TypeOK, Outcome, Outcomes, ExitCode, ResultStatus, EndedStatus,
       AfterPublish, Pc
  <2>2. row' \in [Jobs -> RowRecord]
    BY <2>1, SaveType DEF Publish
  <2>3. (IF task[j].heartbeat = "dead" THEN "dead" ELSE "off") \in HeartbeatState
    BY DEF HeartbeatState
  <2>4. task' \in [Jobs -> TaskRecord]
    BY <2>1, <2>3, TaskUpdates DEF Publish, TypeOK, SeenStatus
  <2> QED
    BY <2>2, <2>4 DEF TypeOK, Decide, Publish
<1>2. OnlyJob(j)
  BY DEF OnlyJob, TypeOK, Decide, Publish, At, Deleted, SaveEnded, ReadStatus, Outcome,
     ResultStatus, AfterPublish
<1> DEFINE s == ResultStatus(Outcome(j))
           p == AfterPublish(j, Outcome(j))
<1>3. /\ up /\ up' = up /\ task[j].pc = "streaming" /\ proc[j].os = "gone"
      /\ proc[j].rc \in {"ok", "warn", "err"}
      /\ row[j].status \notin {"absent", "pending", "skipped"}
      /\ row[j].completedAt <=> row[j].status \in EndedStatus
      /\ handler[j] = "committed"
  <2>1. up /\ task[j].pc = "streaming" /\ proc[j].reaped /\ up' = up
    BY DEF Decide, At
  <2>2. proc[j].os = "gone" /\ proc[j].rc # "none" /\ proc[j].rc \in ExitCode
    BY <2>1, ProcUpdates DEF TypeOK, JobInv, ExitCodeIffGone
  <2>3. row[j].status \notin {"absent", "pending", "skipped"}
    BY <2>1 DEF JobInv, RowBeforeStart, Promised
  <2>4. row[j].completedAt <=> row[j].status \in EndedStatus
    BY DEF JobInv, Promised
  <2>5. handler[j] = "committed"
    BY <2>1 DEF JobInv, RowBeforeStart
  <2> QED
    BY <2>1, <2>2, <2>3, <2>4, <2>5 DEF ExitCode
<1>4. /\ s \in {"completed", "completed_with_warnings", "cancelled", "failed"}
      /\ s = "completed" => proc[j].rc = "ok"
      /\ s = "completed_with_warnings" => proc[j].rc = "warn"
      /\ p \in {"unmounting", "posthook", "failing"}
  BY <1>3 DEF Outcome, ResultStatus, AfterPublish
<1>5. /\ task'[j].pc = p /\ proc'[j] = proc[j] /\ canceller'[j] = canceller[j]
      /\ handler' = handler /\ (Lost(j)' <=> Lost(j))
      /\ Deleted(j) => row'[j] = row[j]
      /\ ~Deleted(j) => row'[j].status = s /\ row'[j].completedAt
  <2>1. task \in [Jobs -> TaskRecord] /\ row \in [Jobs -> RowRecord]
    BY DEF TypeOK
  <2>2. task'[j].pc = p
    BY <2>1 DEF Publish, TaskRecord
  <2>3. proc'[j] = proc[j] /\ canceller'[j] = canceller[j]
    BY DEF Decide
  <2>4. /\ Deleted(j) => row'[j] = row[j]
        /\ ~Deleted(j) => row'[j].status = s /\ row'[j].completedAt
    <3> HIDE DEF s
    <3>1. SaveEnded(j, s)
      BY DEF Publish, s
    <3> QED
      BY <2>1, <3>1 DEF SaveEnded
  <2>5. handler' = handler /\ (Lost(j)' <=> Lost(j))
    BY <2>1 DEF Publish, TaskRecord, Lost
  <2> QED
    BY <2>2, <2>3, <2>4, <2>5
<1> HIDE DEF s, p
<1>6. JobInv(j)'
  <2>1. StoppedIsEmpty(j)'
    BY <1>3, <1>5 DEF StoppedIsEmpty
  <2>2. RowBeforeStart(j)'
    BY <1>3, <1>4, <1>5 DEF RowBeforeStart, JobInv, Deleted
  <2>3. ExitCodeIffGone(j)'
    BY <1>3, <1>4, <1>5 DEF ExitCodeIffGone
  <2>4. Promised(j)'
    BY <1>3, <1>4, <1>5 DEF Promised, Deleted, EndedStatus, Working, JobInv
  <2> QED
    BY <2>1, <2>2, <2>3, <2>4 DEF JobInv
<1>7. up /\ AbstractMove(j)
  BY <1>3, <1>4, <1>5 DEF AbstractMove, PhaseAt, PhaseOf, Held, Deleted, JobInv, Promised, Working
<1> QED
  BY <1>1, <1>2, <1>6, <1>7, Frame

LEMMA DecideStep ==
  ASSUME IInv, NEW j \in Jobs, Decide(j)
  PROVE  IInv' /\ OnlyJob(j) /\ up /\ AbstractMove(j)
<1>1. CASE Publish(j)
  BY <1>1, PublishStep
<1>2. CASE FailJob(j)
  <2>1. TypeOK /\ JobInv(j)
    BY DEF IInv
  <2>2. TypeOK'
    BY <1>2, <2>1, FailJobType DEF TypeOK, Decide
  <2>3. OnlyJob(j)
    BY <1>2, <2>1, FailJobFrame DEF OnlyJob, Decide, At
  <2>4. /\ up /\ up' = up /\ UNCHANGED <<proc, mounts, canceller>>
        /\ task[j].pc = "streaming" /\ proc[j].os = "gone"
    BY <2>1 DEF Decide, At, JobInv, ExitCodeIffGone
  <2>5. JobInv(j)' /\ AbstractMove(j)
    BY <1>2, <2>4, FailJobStep
  <2> QED
    BY <2>2, <2>3, <2>4, <2>5, Frame
<1> QED
  BY <1>1, <1>2 DEF Decide

LEMMA PostHookStep ==
  ASSUME IInv, NEW j \in Jobs, PostHook(j)
  PROVE  IInv' /\ OnlyJob(j) /\ up /\ AbstractMove(j)
<1> USE DEF IInv
<1>1. TypeOK'
  <2>1. CASE GotoSaved(j, "notifying") /\ UNCHANGED <<row, handler>>
    BY <2>1, GotoType DEF TypeOK, PostHook, GotoSaved, Pc
  <2>2. CASE /\ SaveEnded(j, "failed")
             /\ task' = [task EXCEPT ![j].pc = IF Deleted(j) THEN "unmounting" ELSE "notifying",
                                     ![j].result = "hookfail"]
             /\ tracked' = IF Deleted(j) THEN tracked \ {j} ELSE tracked
             /\ UNCHANGED handler
    <3>1. row' \in [Jobs -> RowRecord]
      BY <2>2, SaveType DEF EndedStatus
    <3>2. (IF Deleted(j) THEN "unmounting" ELSE "notifying") \in Pc
      BY DEF Pc
    <3>3. task' \in [Jobs -> TaskRecord]
      BY <2>2, <3>2, TaskUpdates DEF TypeOK, Outcomes
    <3> QED
      BY <2>2, <3>1, <3>3 DEF TypeOK, PostHook
  <2>3. CASE Finalize(j) /\ UNCHANGED <<row, handler>>
    BY <2>3, FinalizeType DEF TypeOK, PostHook
  <2>4. CASE FailJob(j)
    BY <2>4, FailJobType DEF TypeOK, PostHook
  <2> QED
    BY <2>1, <2>2, <2>3, <2>4 DEF PostHook
<1>2. OnlyJob(j)
  BY FailJobFrame DEF OnlyJob, TypeOK, PostHook, At, Deleted, SaveEnded, Goto, GotoSaved,
     Finalize
<1>3. CASE FailJob(j)
  <2>1. /\ up /\ up' = up /\ UNCHANGED <<proc, mounts, canceller>>
        /\ task[j].pc = "posthook" /\ proc[j].os # "alive"
    BY DEF PostHook, At, JobInv, Promised
  <2>2. JobInv(j)' /\ AbstractMove(j)
    BY <1>3, <2>1, FailJobStep
  <2> QED
    BY <1>1, <1>2, <2>1, <2>2, Frame
<1>4. ASSUME \/ GotoSaved(j, "notifying") /\ UNCHANGED <<row, handler>>
             \/ /\ SaveEnded(j, "failed")
                /\ task' = [task EXCEPT ![j].pc = IF Deleted(j) THEN "unmounting" ELSE "notifying",
                                        ![j].result = "hookfail"]
                /\ UNCHANGED handler
             \/ Finalize(j) /\ UNCHANGED <<row, handler>>
      PROVE  JobInv(j)' /\ up /\ AbstractMove(j)
  <2>1. JobInv(j)'
    BY <1>4 DEF PostHook, At, Deleted, SaveEnded, Goto, GotoSaved, Finalize, TypeOK,
       RowRecord, TaskRecord, ProcRecord, Status, EndedStatus, JobInv, StoppedIsEmpty,
       RowBeforeStart, ExitCodeIffGone, Promised, Working, NoTask
  <2>2. up /\ AbstractMove(j)
    BY <1>4 DEF PostHook, At, Deleted, SaveEnded, Goto, GotoSaved, Finalize, TypeOK,
       RowRecord, TaskRecord, Status, EndedStatus, JobInv, RowBeforeStart, Promised,
       Working, AbstractMove, PhaseAt, PhaseOf, Held, Lost
  <2> QED
    BY <2>1, <2>2
<1> QED
  BY <1>1, <1>2, <1>3, <1>4, Frame DEF PostHook

LEMMA NotifyStep ==
  ASSUME IInv, NEW j \in Jobs, Notify(j)
  PROVE  IInv' /\ OnlyJob(j) /\ up /\ AbstractMove(j)
<1> USE DEF IInv
<1>1. TypeOK'
  BY FinalizeType, FailJobType DEF TypeOK, Notify, TellSuccess, TellWarning, TellFailure
<1>2. OnlyJob(j)
  BY FailJobFrame DEF OnlyJob, TypeOK, Notify, At, Goto, Finalize
<1>3. /\ up /\ up' = up /\ UNCHANGED <<proc, mounts, canceller>>
      /\ task[j].pc = "notifying" /\ proc[j].os # "alive"
  BY DEF Notify, At, JobInv, Promised
<1>4. CASE FailJob(j)
  <2>1. JobInv(j)' /\ AbstractMove(j)
    BY <1>3, <1>4, FailJobStep
  <2> QED
    BY <1>1, <1>2, <1>3, <2>1, Frame
<1>5. CASE Finalize(j) /\ UNCHANGED <<row, handler>>
  <2>1. JobInv(j)'
    BY <1>3, <1>5 DEF Goto, Finalize, TypeOK, TaskRecord, JobInv, StoppedIsEmpty,
       RowBeforeStart, ExitCodeIffGone, Promised, Working, NoTask
  <2>2. AbstractMove(j)
    BY <1>3, <1>5 DEF Goto, Finalize, TypeOK, TaskRecord, JobInv,
       RowBeforeStart, Promised, Working, AbstractMove, PhaseAt, Held, Lost
  <2> QED
    BY <1>1, <1>2, <1>3, <2>1, <2>2, Frame
<1> QED
  BY <1>4, <1>5 DEF Notify

LEMMA FailureSentStep ==
  ASSUME IInv, NEW j \in Jobs, FailureSent(j)
  PROVE  IInv' /\ OnlyJob(j) /\ up /\ AbstractMove(j)
<1> USE DEF IInv
<1>1. TypeOK'
  BY GotoType DEF TypeOK, FailureSent, TellFailure, Pc
<1>2. OnlyJob(j)
  BY DEF OnlyJob, TypeOK, FailureSent, TellFailure, At, Goto
<1>3. JobInv(j)'
  BY DEF FailureSent, TellFailure, At, Goto, TypeOK, RowRecord, TaskRecord, ProcRecord, Status,
     EndedStatus, JobInv, StoppedIsEmpty, RowBeforeStart, ExitCodeIffGone, Promised,
     Working, NoTask
<1>4. up /\ AbstractMove(j)
  BY DEF FailureSent, TellFailure, At, Goto, TypeOK, RowRecord, TaskRecord, Status, EndedStatus,
     JobInv, RowBeforeStart, Promised, Working, AbstractMove, PhaseAt, PhaseOf, Held, Lost
<1> QED
  BY <1>1, <1>2, <1>3, <1>4, Frame

LEMMA UnmountStep ==
  ASSUME IInv, NEW j \in Jobs, Unmount(j)
  PROVE  IInv' /\ OnlyJob(j) /\ up /\ AbstractMove(j)
<1> USE DEF IInv
<1>1. TypeOK'
  BY GotoType DEF TypeOK, Unmount, Pc
<1>2. OnlyJob(j)
  BY DEF OnlyJob, TypeOK, Unmount, At, Goto
<1>3. JobInv(j)'
  BY DEF Unmount, At, Goto, TypeOK, RowRecord, TaskRecord, ProcRecord, Status,
     EndedStatus, JobInv, StoppedIsEmpty, RowBeforeStart, ExitCodeIffGone, Promised,
     Working, NoTask
<1>4. up /\ AbstractMove(j)
  BY DEF Unmount, At, Goto, TypeOK, RowRecord, TaskRecord, Status, EndedStatus, JobInv,
     RowBeforeStart, Promised, Working, AbstractMove, PhaseAt, PhaseOf, Held, Lost
<1> QED
  BY <1>1, <1>2, <1>3, <1>4, Frame

LEMMA HeartbeatStep ==
  ASSUME IInv, NEW j \in Jobs, Heartbeat(j)
  PROVE  IInv' /\ OnlyJob(j) /\ up /\ AbstractMove(j)
<1> USE DEF IInv
<1>1. TypeOK'
  <2>1. row[j].status \in SeenStatus /\ proc[j].signal \in Signal
    BY RowUpdates, ProcUpdates DEF TypeOK, SeenStatus
  <2>2. CASE task' = [task EXCEPT ![j].heartbeat = "dead"] /\ UNCHANGED proc
    BY <2>2, TaskUpdates DEF TypeOK, Heartbeat, HeartbeatState
  <2>3. CASE /\ task' = [task EXCEPT ![j].seen = "cancelled", ![j].heartbeat = "killing"]
             /\ Terminate(j)
    <3>1. task' \in [Jobs -> TaskRecord]
      BY <2>3, TaskUpdates DEF TypeOK, SeenStatus, Status, EndedStatus, HeartbeatState
    <3>2. (IF proc[j].signal = "none" THEN "term" ELSE proc[j].signal) \in Signal
      BY <2>1 DEF Signal
    <3>3. proc' \in [Jobs -> ProcRecord]
      BY <2>3, <3>2, ProcUpdates DEF TypeOK, Terminate
    <3> QED
      BY <3>1, <3>3 DEF TypeOK, Heartbeat
  <2>4. CASE task' = [task EXCEPT ![j].seen = row[j].status] /\ UNCHANGED proc
    BY <2>1, <2>4, TaskUpdates DEF TypeOK, Heartbeat
  <2> QED
    BY <2>2, <2>3, <2>4 DEF Heartbeat
<1>2. OnlyJob(j)
  BY DEF OnlyJob, TypeOK, Heartbeat, Terminate, At, Deleted
<1>3. JobInv(j)'
  BY DEF Heartbeat, Terminate, At, Deleted, TypeOK, RowRecord, TaskRecord, ProcRecord, Status,
     EndedStatus, JobInv, StoppedIsEmpty, RowBeforeStart, ExitCodeIffGone, Promised,
     Working, NoTask
<1>4. up /\ AbstractMove(j)
  BY DEF Heartbeat, Terminate, At, Deleted, TypeOK, RowRecord, TaskRecord, Status, EndedStatus,
     JobInv, RowBeforeStart, Promised, Working, AbstractMove, PhaseAt, PhaseOf, Held, Lost
<1> QED
  BY <1>1, <1>2, <1>3, <1>4, Frame

LEMMA ProgressSyncStep ==
  ASSUME IInv, NEW j \in Jobs, ProgressSync(j)
  PROVE  IInv' /\ OnlyJob(j) /\ up /\ AbstractMove(j)
<1> USE DEF IInv
<1>1. TypeOK'
  BY TaskUpdates DEF TypeOK, ProgressSync, SeenStatus, Status
<1>2. OnlyJob(j)
  BY DEF OnlyJob, TypeOK, ProgressSync, At
<1>3. JobInv(j)'
  BY DEF ProgressSync, At, TypeOK, RowRecord, TaskRecord, ProcRecord, Status,
     EndedStatus, JobInv, StoppedIsEmpty, RowBeforeStart, ExitCodeIffGone, Promised,
     Working, NoTask
<1>4. up /\ AbstractMove(j)
  BY DEF ProgressSync, At, TypeOK, RowRecord, TaskRecord, Status, EndedStatus, JobInv,
     RowBeforeStart, Promised, Working, AbstractMove, PhaseAt, PhaseOf, Held, Lost
<1> QED
  BY <1>1, <1>2, <1>3, <1>4, Frame

LEMMA KillStubbornStep ==
  ASSUME IInv, NEW j \in Jobs, KillStubborn(j)
  PROVE  IInv' /\ OnlyJob(j) /\ up /\ AbstractMove(j)
<1> USE DEF IInv
<1>1. TypeOK'
  BY ProcUpdates DEF TypeOK, KillStubborn, Signal
<1>2. OnlyJob(j)
  BY DEF OnlyJob, TypeOK, KillStubborn
<1>3. JobInv(j)'
  BY DEF KillStubborn, TypeOK, RowRecord, TaskRecord, ProcRecord, Status, EndedStatus,
     JobInv, StoppedIsEmpty, RowBeforeStart, ExitCodeIffGone, Promised, Working, NoTask
<1>4. up /\ AbstractMove(j)
  BY DEF KillStubborn, TypeOK, RowRecord, TaskRecord, Status, EndedStatus, JobInv,
     RowBeforeStart, Promised, Working, AbstractMove, PhaseAt, PhaseOf, Held, Lost
<1> QED
  BY <1>1, <1>2, <1>3, <1>4, Frame

LEMMA ProcessExitStep ==
  ASSUME IInv, NEW j \in Jobs, ProcessExit(j)
  PROVE  IInv' /\ OnlyJob(j) /\ up /\ AbstractMove(j)
<1> USE DEF IInv
<1>1. TypeOK'
  <2>1. PICK rc \in ExitCode : proc' = [proc EXCEPT ![j].os = "gone", ![j].rc = rc]
    BY DEF ProcessExit, ExitCode
  <2> QED
    BY <2>1, ProcUpdates DEF TypeOK, ProcessExit
<1>2. OnlyJob(j)
  BY DEF OnlyJob, TypeOK, ProcessExit
<1>3. JobInv(j)'
  BY DEF ProcessExit, TypeOK, RowRecord, TaskRecord, ProcRecord, Status, EndedStatus,
     JobInv, StoppedIsEmpty, RowBeforeStart, ExitCodeIffGone, Promised, Working, NoTask
<1>4. up /\ AbstractMove(j)
  BY DEF ProcessExit, TypeOK, RowRecord, TaskRecord, Status, EndedStatus, JobInv,
     RowBeforeStart, Promised, Working, AbstractMove, PhaseAt, PhaseOf, Held, Lost
<1> QED
  BY <1>1, <1>2, <1>3, <1>4, Frame

LEMMA ReapStep ==
  ASSUME IInv, NEW j \in Jobs, Reap(j)
  PROVE  IInv' /\ OnlyJob(j) /\ up /\ AbstractMove(j)
<1> USE DEF IInv
<1>1. TypeOK'
  BY ProcUpdates DEF TypeOK, Reap
<1>2. OnlyJob(j)
  BY DEF OnlyJob, TypeOK, Reap
<1>3. JobInv(j)'
  BY DEF Reap, TypeOK, RowRecord, TaskRecord, ProcRecord, Status, EndedStatus, JobInv,
     StoppedIsEmpty, RowBeforeStart, ExitCodeIffGone, Promised, Working, NoTask
<1>4. up /\ AbstractMove(j)
  BY DEF Reap, TypeOK, RowRecord, TaskRecord, Status, EndedStatus, JobInv,
     RowBeforeStart, Promised, Working, AbstractMove, PhaseAt, PhaseOf, Held, Lost
<1> QED
  BY <1>1, <1>2, <1>3, <1>4, Frame

LEMMA StreamEndStep ==
  ASSUME IInv, NEW j \in Jobs, StreamEnd(j)
  PROVE  IInv' /\ OnlyJob(j) /\ up /\ AbstractMove(j)
<1> USE DEF IInv
<1>1. TypeOK'
  BY TaskUpdates DEF TypeOK, StreamEnd, SeenStatus
<1>2. OnlyJob(j)
  BY DEF OnlyJob, TypeOK, StreamEnd, At
<1>3. JobInv(j)'
  BY DEF StreamEnd, At, TypeOK, RowRecord, TaskRecord, ProcRecord, Status, EndedStatus,
     JobInv, StoppedIsEmpty, RowBeforeStart, ExitCodeIffGone, Promised, Working, NoTask
<1>4. up /\ AbstractMove(j)
  BY DEF StreamEnd, At, TypeOK, RowRecord, TaskRecord, Status, EndedStatus, JobInv,
     RowBeforeStart, Promised, Working, AbstractMove, PhaseAt, PhaseOf, Held, Lost
<1> QED
  BY <1>1, <1>2, <1>3, <1>4, Frame

LEMMA SubmitStep ==
  ASSUME IInv, NEW j \in Jobs, Submit(j)
  PROVE  IInv' /\ OnlyJob(j) /\ up /\ AbstractMove(j)
<1> USE DEF IInv
<1>1. TypeOK'
  <2>1. CASE /\ row' = [row EXCEPT ![j].status = "pending"]
             /\ task' = [task EXCEPT ![j].pc = "queued"]
    BY <2>1, RowUpdates, TaskUpdates DEF TypeOK, Submit, Pc, Status
  <2>2. CASE /\ row' = [row EXCEPT ![j] = [status |-> "failed", completedAt |-> TRUE]]
             /\ UNCHANGED task
    BY <2>2, RowUpdates DEF TypeOK, Submit, Status, EndedStatus
  <2> QED
    BY <2>1, <2>2 DEF Submit
<1>2. OnlyJob(j)
  BY DEF OnlyJob, TypeOK, Submit
<1>3. JobInv(j)' /\ up /\ AbstractMove(j)
  <2>1. /\ task[j].pc = "none" /\ proc[j].os = "none" /\ row[j].status = "absent"
        /\ up /\ up' /\ j \notin mounts /\ ~row[j].completedAt
        /\ proc' = proc /\ mounts' = mounts /\ canceller' = canceller
        /\ canceller[j] # "waiting" /\ handler' = handler /\ handler[j] = "committed"
        /\ row[j] \in RowRecord /\ task[j] \in TaskRecord /\ proc[j] \in ProcRecord
    BY DEF TypeOK, RowRecord, Submit, JobInv, RowBeforeStart, Promised, EndedStatus
  <2>2. CASE /\ row' = [row EXCEPT ![j].status = "pending"]
             /\ task' = [task EXCEPT ![j].pc = "queued"]
    <3>1. /\ row'[j].status = "pending" /\ ~row'[j].completedAt /\ task'[j].pc = "queued"
          /\ task'[j].heartbeat = task[j].heartbeat
      BY <2>1, <2>2 DEF TypeOK, RowRecord, TaskRecord
    <3> QED
      BY <2>1, <3>1 DEF JobInv, StoppedIsEmpty, RowBeforeStart, ExitCodeIffGone, Promised,
         EndedStatus, Working, AbstractMove, PhaseAt, PhaseOf, Held, Lost
  <2>3. CASE /\ row' = [row EXCEPT ![j] = [status |-> "failed", completedAt |-> TRUE]]
             /\ UNCHANGED task
    <3>1. row'[j].status = "failed" /\ row'[j].completedAt /\ task'[j] = task[j]
      BY <2>1, <2>3 DEF TypeOK
    <3> QED
      BY <2>1, <3>1 DEF JobInv, StoppedIsEmpty, RowBeforeStart, ExitCodeIffGone, Promised,
         EndedStatus, Working, AbstractMove, PhaseAt, PhaseOf, Held, Lost
  <2> QED
    BY <2>1, <2>2, <2>3 DEF Submit
<1> QED
  BY <1>1, <1>2, <1>3, Frame

LEMMA CancelRequestStep ==
  ASSUME IInv, NEW j \in Jobs, CancelRequest(j)
  PROVE  IInv' /\ OnlyJob(j) /\ up /\ AbstractMove(j)
<1> USE DEF IInv
<1>1. TypeOK'
  <2>1. (IF proc[j].signal = "none" THEN "term" ELSE proc[j].signal) \in Signal
    BY ProcUpdates DEF TypeOK, Signal
  <2>2. CASE Terminate(j)
             /\ canceller' = [canceller EXCEPT ![j] = "waiting"] /\ UNCHANGED row
    BY <2>1, <2>2, ProcUpdates DEF TypeOK, CancelRequest, Terminate
  <2>3. CASE SaveEnded(j, "cancelled") /\ UNCHANGED <<proc, canceller>>
    BY <2>3, SaveType DEF TypeOK, CancelRequest, EndedStatus
  <2> QED
    BY <2>2, <2>3 DEF CancelRequest
<1>2. OnlyJob(j)
  BY DEF OnlyJob, TypeOK, CancelRequest, Terminate, Deleted, SaveEnded
<1>3. JobInv(j)'
  BY DEF CancelRequest, Terminate, Deleted, SaveEnded, TypeOK, RowRecord, TaskRecord, ProcRecord,
     Status, EndedStatus, JobInv, StoppedIsEmpty, RowBeforeStart, ExitCodeIffGone,
     Promised, Working, NoTask
<1>4. up /\ AbstractMove(j)
  BY DEF CancelRequest, Terminate, Deleted, SaveEnded, TypeOK, RowRecord, TaskRecord, Status,
     EndedStatus, JobInv, RowBeforeStart, Promised, Working, AbstractMove, PhaseAt,
     PhaseOf, Held, Lost
<1> QED
  BY <1>1, <1>2, <1>3, <1>4, Frame

LEMMA CancelFinishStep ==
  ASSUME IInv, NEW j \in Jobs, CancelFinish(j)
  PROVE  IInv' /\ OnlyJob(j) /\ up /\ AbstractMove(j)
<1> USE DEF IInv
<1>1. TypeOK'
  BY SaveType DEF TypeOK, CancelFinish, EndedStatus
<1>2. OnlyJob(j)
  BY DEF OnlyJob, TypeOK, CancelFinish, Deleted, SaveEnded
<1>3. JobInv(j)'
  BY DEF CancelFinish, Deleted, SaveEnded, TypeOK, RowRecord, TaskRecord, ProcRecord,
     Status, EndedStatus, JobInv, StoppedIsEmpty, RowBeforeStart, ExitCodeIffGone,
     Promised, Working, NoTask
<1>4. up /\ AbstractMove(j)
  BY DEF CancelFinish, Deleted, SaveEnded, TypeOK, RowRecord, TaskRecord, Status,
     EndedStatus, JobInv, RowBeforeStart, Promised, Working, AbstractMove, PhaseAt,
     PhaseOf, Held, Lost
<1> QED
  BY <1>1, <1>2, <1>3, <1>4, Frame

LEMMA DeleteRowStep ==
  ASSUME IInv, NEW j \in Jobs, DeleteRow(j)
  PROVE  IInv' /\ OnlyJob(j) /\ up /\ AbstractMove(j)
<1> USE DEF IInv
<1>1. TypeOK'
  BY RowUpdates DEF TypeOK, DeleteRow, Status
<1>2. OnlyJob(j)
  BY DEF OnlyJob, TypeOK, DeleteRow
<1>3. JobInv(j)'
  BY DEF DeleteRow, TypeOK, RowRecord, TaskRecord, ProcRecord, Status, EndedStatus,
     JobInv, StoppedIsEmpty, RowBeforeStart, ExitCodeIffGone, Promised, Working, NoTask
<1>4. up /\ AbstractMove(j)
  BY DEF DeleteRow, TypeOK, RowRecord, TaskRecord, Status, EndedStatus, JobInv,
     RowBeforeStart, Promised, Working, AbstractMove, PhaseAt, PhaseOf, Held, Lost
<1> QED
  BY <1>1, <1>2, <1>3, <1>4, Frame

-----------------------------------------------------------------------------
(* The steps of the whole server. *)

LEMMA CrashStep ==
  ASSUME IInv, Crash
  PROVE  IInv' /\ Lifecycle!AbsCrash
<1> USE DEF IInv
<1>1. TypeOK'
  <2>1. NoTask \in TaskRecord
    BY DEF NoTask, TaskRecord, Pc, SeenStatus, Outcomes, HeartbeatState
  <2>2. ASSUME NEW k \in Jobs
        PROVE  (IF proc[k].os = "alive" THEN [proc[k] EXCEPT !.os = "gone", !.rc = "err"]
                ELSE proc[k]) \in ProcRecord
    BY ProcUpdates DEF TypeOK, ExitCode
  <2> QED
    BY <2>1, <2>2 DEF TypeOK, Crash
<1>2. ASSUME NEW k \in Jobs PROVE JobInv(k)'
  <2>1. /\ ~up' /\ row'[k] = row[k] /\ task'[k] = NoTask /\ canceller'[k] = "idle"
        /\ \/ proc'[k] = proc[k] /\ proc[k].os # "alive"
           \/ proc[k].os = "alive" /\ proc'[k].os = "gone" /\ proc'[k].rc = "err"
        /\ handler' = handler
    BY DEF Crash, TypeOK, ProcRecord
  <2> QED
    BY <2>1 DEF JobInv, StoppedIsEmpty, RowBeforeStart, ExitCodeIffGone, Promised, NoTask
<1>3. Lifecycle!AbsCrash
  BY DEF Crash, Lifecycle!AbsCrash, NoTask
<1> QED
  BY <1>1, <1>2, <1>3

LEMMA RecoverStep ==
  ASSUME IInv, Recover
  PROVE  IInv' /\ Lifecycle!AbsRecover
<1> USE DEF IInv
<1>1. TypeOK'
  BY RowUpdates DEF TypeOK, Recover, OrphanCleaned, Status, EndedStatus
<1>2. ASSUME NEW k \in Jobs PROVE JobInv(k)'
  <2>1. /\ ~up /\ up' /\ task'[k] = task[k] /\ proc'[k] = proc[k] /\ mounts' = {}
        /\ canceller'[k] = canceller[k] /\ task[k].pc = "none" /\ proc[k].os # "alive"
        /\ \/ row[k].status # "running" /\ row'[k] = row[k]
           \/ /\ row[k].status = "running"
              /\ row'[k].status = "failed" /\ row'[k].completedAt
        /\ handler' = handler
    BY DEF Recover, OrphanCleaned, TypeOK, JobInv, StoppedIsEmpty, NoTask
  <2> QED
    BY <2>1 DEF JobInv, StoppedIsEmpty, RowBeforeStart, ExitCodeIffGone, Promised,
       EndedStatus, NoTask
<1>3. Lifecycle!AbsRecover
  <2>1. ASSUME NEW k \in Jobs
        PROVE  PhaseOf(row'[k].status) = IF PhaseOf(row[k].status) = "active" THEN "ended"
                                         ELSE PhaseOf(row[k].status)
    BY DEF Recover, OrphanCleaned, PhaseOf, TypeOK, RowRecord, Status, EndedStatus
  <2> QED
    BY <2>1 DEF Recover, Lifecycle!AbsRecover
<1> QED
  BY <1>1, <1>2, <1>3

LEMMA StutterStep ==
  ASSUME IInv, UNCHANGED vars
  PROVE  IInv' /\ UNCHANGED Lifecycle!avars
  BY DEF vars, IInv, TypeOK, JobInv, StoppedIsEmpty, RowBeforeStart, ExitCodeIffGone,
     Promised, Lifecycle!avars

\* A step of one job is a step of the abstract lifecycle, or a stutter of it.
LEMMA MoveIsAbstract ==
  ASSUME IInv, NEW j \in Jobs, OnlyJob(j), up, AbstractMove(j)
  PROVE  [Lifecycle!AbsNext]_(Lifecycle!avars)
<1> DEFINE phaseBar == [k \in Jobs |-> PhaseOf(row[k].status)]
           heldBar  == {k \in Jobs : task[k].pc \notin {"none", "done"}}
           lostBar  == {k \in Jobs : handler[k] = "lost" \/ task[k].heartbeat = "dead"}
<1>1. /\ up' /\ phaseBar[j] = PhaseAt(j) /\ (j \in heldBar <=> Held(j))
      /\ (j \in lostBar <=> Lost(j))
  BY DEF OnlyJob, PhaseAt, Held, Lost
<1>2. phaseBar' = [phaseBar EXCEPT ![j] = PhaseAt(j)']
  BY DEF OnlyJob, PhaseAt
<1>3. /\ heldBar' = IF Held(j)' THEN heldBar \cup {j} ELSE heldBar \ {j}
      /\ lostBar' = IF Lost(j)' THEN lostBar \cup {j} ELSE lostBar \ {j}
  BY DEF OnlyJob, Held, Lost
<1>4. up' = up
  BY DEF OnlyJob
<1> HIDE DEF phaseBar, heldBar, lostBar
<1>5. /\ phaseBar \in [Jobs -> {PhaseOf(row[k].status) : k \in Jobs}] /\ heldBar \subseteq Jobs
      /\ lostBar \subseteq Jobs
  BY DEF phaseBar, heldBar, lostBar
<1>6. CASE PhaseAt(j)' = PhaseAt(j) /\ Held(j) /\ Lost(j)'
  <2>1. /\ phaseBar' = phaseBar /\ j \in heldBar /\ heldBar' \in {heldBar, heldBar \ {j}}
        /\ lostBar' = lostBar \cup {j}
    BY <1>1, <1>2, <1>3, <1>5, <1>6
  <2>2. Lifecycle!AbsLose(j)
    BY <1>4, <2>1 DEF Lifecycle!AbsLose, phaseBar, heldBar, lostBar
  <2> QED
    BY <2>2 DEF Lifecycle!AbsNext
<1>7. ASSUME Lost(j)' <=> Lost(j),
             \/ PhaseAt(j)' = PhaseAt(j) /\ (Held(j)' <=> Held(j))
             \/ PhaseAt(j) = "absent" /\ PhaseAt(j)' = "queued" /\ Held(j)'
             \/ PhaseAt(j) = "absent" /\ PhaseAt(j)' = "ended" /\ (Held(j)' <=> Held(j))
             \/ PhaseAt(j) = "queued" /\ PhaseAt(j)' = "active" /\ Held(j) /\ Held(j)'
             \/ /\ PhaseAt(j) \in {"queued", "active"} /\ PhaseAt(j)' = "ended"
                /\ Held(j) \/ Lost(j)
                /\ (Held(j)' <=> Held(j))
             \/ /\ PhaseAt(j) \in {"ended", "removed"} /\ PhaseAt(j)' = PhaseAt(j)
                /\ Held(j) /\ ~Held(j)'
             \/ /\ PhaseAt(j) \in {"queued", "ended"} /\ PhaseAt(j)' = "removed"
                /\ (Held(j)' <=> Held(j))
      PROVE  [Lifecycle!AbsNext]_(Lifecycle!avars)
  <2>0. lostBar' = lostBar
    BY <1>1, <1>3, <1>5, <1>7
  <2>1. CASE PhaseAt(j)' = PhaseAt(j) /\ (Held(j)' <=> Held(j))
    <3>1. phaseBar' = phaseBar /\ heldBar' = heldBar
      BY <1>1, <1>2, <1>3, <1>5, <2>1
    <3> QED
      BY <1>4, <2>0, <3>1 DEF Lifecycle!avars, phaseBar, heldBar, lostBar
  <2>2. CASE PhaseAt(j) = "absent" /\ PhaseAt(j)' = "queued" /\ Held(j)'
    <3>1. phaseBar[j] = "absent" /\ phaseBar' = [phaseBar EXCEPT ![j] = "queued"]
          /\ heldBar' = heldBar \cup {j}
      BY <1>1, <1>2, <1>3, <2>2
    <3>2. Lifecycle!AbsSubmit(j)
      BY <1>4, <2>0, <3>1
      DEF Lifecycle!AbsSubmit, Lifecycle!MovePhase, phaseBar, heldBar, lostBar
    <3> QED
      BY <3>2 DEF Lifecycle!AbsNext
  <2>3. CASE PhaseAt(j) = "absent" /\ PhaseAt(j)' = "ended" /\ (Held(j)' <=> Held(j))
    <3>1. phaseBar[j] = "absent" /\ phaseBar' = [phaseBar EXCEPT ![j] = "ended"]
          /\ heldBar' = heldBar
      BY <1>1, <1>2, <1>3, <1>5, <2>3
    <3>2. Lifecycle!AbsSubmit(j)
      BY <1>4, <2>0, <3>1
      DEF Lifecycle!AbsSubmit, Lifecycle!MovePhase, phaseBar, heldBar, lostBar
    <3> QED
      BY <3>2 DEF Lifecycle!AbsNext
  <2>4. CASE PhaseAt(j) = "queued" /\ PhaseAt(j)' = "active" /\ Held(j) /\ Held(j)'
    <3>1. phaseBar[j] = "queued" /\ phaseBar' = [phaseBar EXCEPT ![j] = "active"]
          /\ j \in heldBar /\ heldBar' = heldBar
      BY <1>1, <1>2, <1>3, <1>5, <2>4
    <3>2. Lifecycle!AbsStart(j)
      BY <1>4, <2>0, <3>1
      DEF Lifecycle!AbsStart, Lifecycle!MovePhase, phaseBar, heldBar, lostBar
    <3> QED
      BY <3>2 DEF Lifecycle!AbsNext
  <2>5. CASE /\ PhaseAt(j) \in {"queued", "active"} /\ PhaseAt(j)' = "ended"
             /\ Held(j) \/ Lost(j)
             /\ (Held(j)' <=> Held(j))
    <3>1. phaseBar[j] \in {"queued", "active"} /\ phaseBar' = [phaseBar EXCEPT ![j] = "ended"]
          /\ j \in heldBar \cup lostBar /\ heldBar' = heldBar
      BY <1>1, <1>2, <1>3, <1>5, <2>5
    <3>2. Lifecycle!AbsEnd(j)
      BY <1>4, <2>0, <3>1 DEF Lifecycle!AbsEnd, Lifecycle!MovePhase, phaseBar, heldBar, lostBar
    <3> QED
      BY <3>2 DEF Lifecycle!AbsNext
  <2>6. CASE /\ PhaseAt(j) \in {"ended", "removed"} /\ PhaseAt(j)' = PhaseAt(j)
             /\ Held(j) /\ ~Held(j)'
    <3>1. phaseBar[j] \in {"ended", "removed"} /\ phaseBar' = phaseBar
          /\ j \in heldBar /\ heldBar' = heldBar \ {j}
      BY <1>1, <1>2, <1>3, <1>5, <2>6
    <3>2. Lifecycle!AbsRelease(j)
      BY <1>4, <2>0, <3>1 DEF Lifecycle!AbsRelease, phaseBar, heldBar, lostBar
    <3> QED
      BY <3>2 DEF Lifecycle!AbsNext
  <2>7. CASE /\ PhaseAt(j) \in {"queued", "ended"} /\ PhaseAt(j)' = "removed"
             /\ (Held(j)' <=> Held(j))
    <3>1. phaseBar[j] \in {"queued", "ended"} /\ phaseBar' = [phaseBar EXCEPT ![j] = "removed"]
          /\ heldBar' = heldBar
      BY <1>1, <1>2, <1>3, <1>5, <2>7
    <3>2. Lifecycle!AbsRemove(j)
      BY <1>4, <2>0, <3>1
      DEF Lifecycle!AbsRemove, Lifecycle!MovePhase, phaseBar, heldBar, lostBar
    <3> QED
      BY <3>2 DEF Lifecycle!AbsNext
  <2> QED
    BY <1>7, <2>1, <2>2, <2>3, <2>4, <2>5, <2>6, <2>7
<1> QED
  BY <1>6, <1>7 DEF AbstractMove

\* Every step keeps the invariant and is a step, or a stutter, of JobLifecycle.
LEMMA EveryStep ==
  ASSUME IInv, [Next]_vars
  PROVE  IInv' /\ [Lifecycle!AbsNext]_(Lifecycle!avars)
<1>1. ASSUME NEW j \in Jobs, TaskStep(j) \/ WhileRunning(j) \/ Request(j)
      PROVE  IInv' /\ OnlyJob(j) /\ up /\ AbstractMove(j)
  <2>1. CASE TaskStep(j)
    BY <2>1, BeginStep, PreHookStep, PrepareStep, SpawnStep, RegisterStep, DecideStep,
       PostHookStep, NotifyStep, FailureSentStep, UnmountStep DEF TaskStep
  <2>2. CASE WhileRunning(j)
    BY <2>2, HeartbeatStep, ProgressSyncStep, KillStubbornStep, ProcessExitStep, ReapStep,
       StreamEndStep DEF WhileRunning
  <2>3. CASE Request(j)
    BY <2>3, SubmitStep, CancelRequestStep, CancelFinishStep, DeleteRowStep DEF Request
  <2> QED
    BY <1>1, <2>1, <2>2, <2>3
<1>2. CASE \E j \in Jobs : TaskStep(j) \/ WhileRunning(j) \/ Request(j)
  BY <1>1, <1>2, MoveIsAbstract
<1>3. CASE Crash
  BY <1>3, CrashStep DEF Lifecycle!AbsNext
<1>4. CASE Recover
  BY <1>4, RecoverStep DEF Lifecycle!AbsNext
<1>5. CASE UNCHANGED vars
  BY <1>5, StutterStep
<1> QED
  BY <1>2, <1>3, <1>4, <1>5 DEF Next

\* An abstract step never takes a job from ended to anything but ended or removed.
LEMMA EndedStaysEnded ==
  ASSUME TypeOK, TypeOK', [Lifecycle!AbsNext]_(Lifecycle!avars),
         NEW j \in Jobs, row[j].status \in EndedStatus
  PROVE  row'[j].status \in EndedStatus \cup {"deleted"}
<1> DEFINE phaseBar == [k \in Jobs |-> PhaseOf(row[k].status)]
<1>1. phaseBar[j] = "ended"
  BY DEF PhaseOf, EndedStatus
<1>2. phaseBar'[j] \in {"ended", "removed"}
  <2>1. ASSUME NEW k \in Jobs,
               \/ Lifecycle!AbsSubmit(k) \/ Lifecycle!AbsStart(k) \/ Lifecycle!AbsEnd(k)
               \/ Lifecycle!AbsRelease(k) \/ Lifecycle!AbsLose(k) \/ Lifecycle!AbsRemove(k)
        PROVE  phaseBar'[j] \in {"ended", "removed"}
    <3> HIDE DEF phaseBar
    <3>1. phaseBar = [i \in Jobs |-> phaseBar[i]]
      BY DEF phaseBar
    <3>2. \/ phaseBar' = phaseBar
          \/ /\ phaseBar[k] # "ended" /\ \E to : phaseBar' = [phaseBar EXCEPT ![k] = to]
          \/ phaseBar' = [phaseBar EXCEPT ![k] = "removed"]
      BY <2>1 DEF Lifecycle!AbsSubmit, Lifecycle!AbsStart, Lifecycle!AbsEnd,
         Lifecycle!AbsRelease, Lifecycle!AbsLose, Lifecycle!AbsRemove, Lifecycle!MovePhase, phaseBar
    <3> QED
      BY <1>1, <3>1, <3>2
  <2>2. CASE Lifecycle!AbsCrash
    BY <1>1, <2>2 DEF Lifecycle!AbsCrash
  <2>3. CASE Lifecycle!AbsRecover
    BY <1>1, <2>3 DEF Lifecycle!AbsRecover
  <2>4. CASE UNCHANGED Lifecycle!avars
    BY <1>1, <2>4 DEF Lifecycle!avars
  <2> QED
    BY <2>1, <2>2, <2>3, <2>4 DEF Lifecycle!AbsNext
<1> QED
  BY <1>2 DEF PhaseOf, TypeOK, RowRecord, Status, EndedStatus

-----------------------------------------------------------------------------
(* The theorems. *)

\* The inductive invariant holds of every reachable state, for every set of jobs.
THEOREM InductiveInvariant == Spec => []IInv
<1>1. IInv /\ [Next]_vars => IInv'
  BY EveryStep
<1> QED
  BY InitIInv, <1>1, PTL DEF Spec

\* execute_backup, its heartbeat, the requests and a restart keep every variable in its type.
THEOREM TypeCorrect == Spec => []TypeOK
<1>1. IInv => TypeOK
  BY DEF IInv
<1> QED
  BY <1>1, InductiveInvariant, PTL

\* No path through execute_backup and no restart leaves a row open that nobody will end.
THEOREM OpenRowsAreOwned == Spec => []OpenRowHasTask
<1>1. IInv => OpenRowHasTask
  BY InvariantsFollow
<1> QED
  BY <1>1, InductiveInvariant, PTL

\* completed_at is set exactly on the rows that have ended.
THEOREM CompletedAtCorrect == Spec => []CompletedAtIffEnded
<1>1. IInv => CompletedAtIffEnded
  BY InvariantsFollow
<1> QED
  BY <1>1, InductiveInvariant, PTL

\* A row never looks better than the exit code of its own borg process.
THEOREM StatusIsHonest == Spec => []HonestStatus
<1>1. IInv => HonestStatus
  BY InvariantsFollow
<1> QED
  BY <1>1, InductiveInvariant, PTL

\* A live borg process has a task that watches it, and a cancel request can find it.
THEOREM ProcessesAreWatched == Spec => []ProcessIsWatched
<1>1. IInv => ProcessIsWatched
  BY InvariantsFollow
<1> QED
  BY <1>1, InductiveInvariant, PTL

\* SSHFS mounts exist only for a task that will unmount them.
THEOREM MountsAreOwned == Spec => []MountsHaveTask
<1>1. IInv => MountsHaveTask
  BY InvariantsFollow
<1> QED
  BY <1>1, InductiveInvariant, PTL

\* A row that has ended is never run again.
THEOREM EndedIsFinal == Spec => NoSecondRun
<1>1. IInv /\ IInv' /\ [Next]_vars
        => [\A j \in Jobs : row[j].status \in EndedStatus
                              => row'[j].status \in EndedStatus \cup {"deleted"}]_vars
  BY EveryStep, EndedStaysEnded DEF IInv
<1> QED
  BY <1>1, InductiveInvariant, PTL DEF Spec, NoSecondRun

\* The job row implements the safety part of the lifecycle all job rows are promised.
THEOREM ImplementsLifecycleSafety == Spec => Lifecycle!AbsSafety
<1>1. Init => Lifecycle!AbsInit
  BY DEF Init, Lifecycle!AbsInit, PhaseOf, NoTask
<1>2. IInv /\ [Next]_vars => [Lifecycle!AbsNext]_(Lifecycle!avars)
  BY EveryStep
<1> QED
  BY <1>1, <1>2, InductiveInvariant, PTL DEF Spec, Lifecycle!AbsSafety

-----------------------------------------------------------------------------
(* The failure notification. *)

\* A backup with a borg process that leaves the try block as failed was notified before.
Told(j) ==
  /\ task[j].pc \in {"unmounting", "done"} /\ row[j].status = "failed" /\ proc[j].os # "none"
  => j \in failNote \/ handler[j] # "committed"

\* A job that a step did not make fail, bring to its end or start borg for stays told.
LEMMA ToldStays ==
  ASSUME NEW j \in Jobs, Told(j), failNote \subseteq failNote',
         handler[j] # "committed" => handler'[j] # "committed",
         task'[j].pc \in {"unmounting", "done"} => task[j].pc \in {"unmounting", "done"},
         row'[j].status = "failed" => row[j].status = "failed",
         proc'[j].os # "none" => proc[j].os # "none"
  PROVE  Told(j)'
  BY DEF Told

\* After Goto and the savings the row and the task are where they were sent.
LEMMA SentTo ==
  ASSUME TypeOK, NEW j \in Jobs
  PROVE  /\ \A p : Goto(j, p) => task'[j].pc = p
         /\ \A s : SaveEnded(j, s) => row'[j].status = IF Deleted(j) THEN "deleted" ELSE s
         /\ FailJob(j) => \/ task'[j].pc = "failing"
                          \/ task'[j].pc = "unmounting" /\ row'[j].status = "deleted"
                          \/ task'[j].pc = "unmounting" /\ handler'[j] # "committed"
         /\ Finalize(j) => task'[j].pc = IF row[j].status = "failed" THEN "failing"
                                         ELSE "unmounting"
  <1>1. \A p : Goto(j, p) => task'[j].pc = p
    BY DEF TypeOK, TaskRecord, Goto
  <1>2. \A s : SaveEnded(j, s) => row'[j].status = IF Deleted(j) THEN "deleted" ELSE s
    BY DEF TypeOK, RowRecord, SaveEnded, Deleted
  <1> QED
    BY <1>1, <1>2, FailJobEffect DEF Finalize, Deleted

\* A step of the task before borg is there.
LEMMA ToldBeforeBorg ==
  ASSUME IInv, NEW j \in Jobs, Told(j),
         Begin(j) \/ PreHook(j) \/ Prepare(j) \/ Spawn(j) \/ Register(j)
  PROVE  Told(j)'
  <1>1. ExitCodeIffGone(j) /\ TypeOK
    BY DEF IInv, JobInv
  <1>2. CASE Begin(j) \/ PreHook(j) \/ Prepare(j)
    <2>1. proc' = proc /\ proc[j].os = "none"
      BY <1>1, <1>2 DEF Begin, PreHook, Prepare, At, ExitCodeIffGone
    <2> QED
      BY <2>1 DEF Told
  <1>3. CASE Spawn(j)
    <2>1. Goto(j, "spawning") \/ FailJob(j)
      BY <1>3 DEF Spawn
    <2> QED
      BY <1>1, <2>1, SentTo DEF Told
  <1>4. CASE Register(j)
    <2>1. task'[j].pc = "streaming"
      BY <1>1, <1>4 DEF Register, TypeOK, TaskRecord
    <2> QED
      BY <2>1 DEF Told
  <1> QED
    BY <1>2, <1>3, <1>4

\* gather returned: what is cancelled is not failed, and what failed is told later.
LEMMA ToldByDecide ==
  ASSUME IInv, NEW j \in Jobs, Decide(j)
  PROVE  Told(j)'
  <1>1. TypeOK /\ ExitCodeIffGone(j) /\ proc[j].reaped
    BY DEF IInv, JobInv, Decide
  <1>2. CASE FailJob(j)
    BY <1>1, <1>2, SentTo DEF Told
  <1>3. CASE Publish(j)
    <2>1. proc[j].rc \in {"ok", "warn", "err"}
      BY <1>1 DEF ExitCodeIffGone, TypeOK, ProcRecord, ExitCode
    <2>2. Outcome(j) \in {"cancelled", "ok", "warn", "err"}
      BY <2>1 DEF Outcome
    <2>3. task'[j].pc = AfterPublish(j, Outcome(j))
      BY <1>1, <1>3 DEF Publish, TypeOK, TaskRecord
    <2>4. row'[j].status = IF Deleted(j) THEN "deleted" ELSE ResultStatus(Outcome(j))
      BY <1>1, <1>3, SentTo DEF Publish
    <2>5. AfterPublish(j, Outcome(j)) \in {"unmounting", "done"} =>
            Deleted(j) \/ Outcome(j) = "cancelled"
      BY <2>2 DEF AfterPublish
    <2> QED
      BY <2>3, <2>4, <2>5 DEF Told, ResultStatus
  <1> QED
    BY <1>2, <1>3 DEF Decide

\* After borg: who finds the row failed goes on to the notification.
LEMMA ToldAfterBorg ==
  ASSUME IInv, NEW j \in Jobs, Told(j),
         PostHook(j) \/ Notify(j) \/ FailureSent(j) \/ Unmount(j)
  PROVE  Told(j)'
  <1>1. TypeOK
    BY DEF IInv
  <1>2. CASE PostHook(j)
    <2>1. CASE GotoSaved(j, "notifying") /\ UNCHANGED <<row, handler>>
      BY <1>1, <2>1, SentTo DEF GotoSaved, Deleted, Told
    <2>2. CASE /\ SaveEnded(j, "failed")
               /\ task' = [task EXCEPT ![j].pc = IF Deleted(j) THEN "unmounting" ELSE "notifying",
                                       ![j].result = "hookfail"]
      <3>1. task'[j].pc = IF Deleted(j) THEN "unmounting" ELSE "notifying"
        BY <1>1, <2>2 DEF TypeOK, TaskRecord
      <3> QED
        BY <1>1, <2>2, <3>1, SentTo DEF Told
    <2>3. CASE Finalize(j) /\ UNCHANGED <<row, handler>>
      BY <1>1, <2>3, SentTo DEF Told
    <2>4. CASE FailJob(j)
      BY <1>1, <2>4, SentTo DEF Told
    <2> QED
      BY <1>2, <2>1, <2>2, <2>3, <2>4 DEF PostHook
  <1>3. CASE Notify(j)
    <2>1. CASE FailJob(j)
      BY <1>1, <2>1, SentTo DEF Told
    <2>2. CASE Finalize(j) /\ UNCHANGED <<row, handler>>
      BY <1>1, <2>2, SentTo DEF Told
    <2> QED
      BY <1>3, <2>1, <2>2 DEF Notify
  <1>4. CASE FailureSent(j)
    BY <1>4 DEF FailureSent, TellFailure, Told
  <1>5. CASE Unmount(j)
    BY <1>5 DEF Unmount, At, Told
  <1> QED
    BY <1>2, <1>3, <1>4, <1>5

\* While borg runs, and requests: a row that is written is not made to say failed, unless it
\* has no task.
LEMMA ToldByOthers ==
  ASSUME IInv, NEW j \in Jobs, Told(j), WhileRunning(j) \/ Request(j)
  PROVE  Told(j)'
  <1>1. TypeOK /\ RowBeforeStart(j)
    BY DEF IInv, JobInv
  <1>2. CASE WhileRunning(j)
    <2>1. UNCHANGED <<row, failNote, handler>>
      BY <1>2 DEF WhileRunning, Heartbeat, ProgressSync, KillStubborn, ProcessExit, Reap, StreamEnd
    <2>2. task'[j].pc = task[j].pc
      BY <1>1, <1>2 DEF WhileRunning, Heartbeat, ProgressSync, KillStubborn, ProcessExit, Reap,
                        StreamEnd, TypeOK, TaskRecord
    <2>3. proc'[j].os # "none" => proc[j].os # "none"
      BY <1>1, <1>2 DEF WhileRunning, Heartbeat, ProgressSync, KillStubborn, ProcessExit, Reap,
                        StreamEnd, Terminate, TypeOK, ProcRecord
    <2> QED
      BY <2>1, <2>2, <2>3, ToldStays
  <1>3. CASE Submit(j)
    <2>1. task'[j].pc \in {"none", "queued"}
      BY <1>1, <1>3 DEF Submit, RowBeforeStart, TypeOK, TaskRecord
    <2> QED
      BY <2>1 DEF Told
  <1>4. CASE CancelRequest(j)
    <2>1. UNCHANGED <<task, failNote, handler>> /\ (SaveEnded(j, "cancelled") \/ UNCHANGED row)
      BY <1>4 DEF CancelRequest
    <2>2. proc'[j].os = proc[j].os
      BY <1>1, <1>4 DEF CancelRequest, Terminate, TypeOK, ProcRecord
    <2>3. row'[j].status = "failed" => row[j].status = "failed"
      BY <1>1, <2>1, SentTo
    <2> QED
      BY <2>1, <2>2, <2>3, ToldStays
  <1>5. CASE CancelFinish(j)
    <2>1. /\ UNCHANGED <<task, proc, failNote, handler>>
          /\ SaveEnded(j, "cancelled") \/ UNCHANGED row
      BY <1>5 DEF CancelFinish
    <2>2. row'[j].status = "failed" => row[j].status = "failed"
      BY <1>1, <2>1, SentTo
    <2> QED
      BY <2>1, <2>2, ToldStays
  <1>6. CASE DeleteRow(j)
    <2>1. row'[j].status = "deleted"
      BY <1>1, <1>6 DEF DeleteRow, TypeOK
    <2> QED
      BY <2>1 DEF Told
  <1> QED
    BY <1>2, <1>3, <1>4, <1>5, <1>6 DEF Request

LEMMA ToldStep ==
  ASSUME IInv, \A j \in Jobs : Told(j), [Next]_vars, NEW k \in Jobs
  PROVE  Told(k)'
  <1>1. ASSUME NEW j \in Jobs, TaskStep(j) \/ WhileRunning(j) \/ Request(j)
        PROVE  Told(k)'
    <2>1. CASE k = j
      BY <1>1, <2>1, ToldBeforeBorg, ToldByDecide, ToldAfterBorg, ToldByOthers DEF TaskStep
    <2>2. CASE k # j
      <3>1. OnlyJob(j)
        BY <1>1, BeginStep, PreHookStep, PrepareStep, SpawnStep, RegisterStep, DecideStep,
           PostHookStep, NotifyStep, FailureSentStep, UnmountStep, HeartbeatStep,
           ProgressSyncStep, KillStubbornStep, ProcessExitStep, ReapStep, StreamEndStep,
           SubmitStep, CancelRequestStep, CancelFinishStep, DeleteRowStep
        DEF TaskStep, WhileRunning, Request
      <3>2. failNote' = failNote \/ failNote' = failNote \cup {j}
        BY <1>1
        DEF TaskStep, WhileRunning, Request, Begin, PreHook, Prepare, Spawn, Register, Decide,
            PostHook, Notify, FailureSent, Unmount, TellSuccess, TellWarning, TellFailure,
            Heartbeat, ProgressSync, KillStubborn, ProcessExit, Reap, StreamEnd, Submit,
            CancelRequest, CancelFinish, DeleteRow
      <3> QED
        BY <2>2, <3>1, <3>2, ToldStays DEF OnlyJob
    <2> QED
      BY <2>1, <2>2
  <1>2. CASE Crash
    BY <1>2 DEF Crash, Told, NoTask
  <1>3. CASE Recover
    <2>1. task[k] = NoTask /\ task' = task
      BY <1>3 DEF Recover, IInv, JobInv, StoppedIsEmpty
    <2> QED
      BY <2>1 DEF Told, NoTask
  <1>4. CASE UNCHANGED vars
    BY <1>4 DEF vars, Told
  <1> QED
    BY <1>1, <1>2, <1>3, <1>4 DEF Next

\* Once borg was started, no path through execute_backup ends with a failed row and without
\* a call of send_backup_failure, except the one whose handler could not commit.
THEOREM FailuresAreNotified == Spec => []FailureIsNotified
<1> DEFINE AllTold == \A j \in Jobs : Told(j)
<1>1. Init => AllTold
  BY DEF Init, Told, NoTask
<1>2. IInv /\ AllTold /\ [Next]_vars => AllTold'
  BY ToldStep
<1>3. AllTold => FailureIsNotified
  BY DEF Told, FailureIsNotified
<1> QED
  BY <1>1, <1>2, <1>3, InductiveInvariant, PTL DEF Spec
=============================================================================
