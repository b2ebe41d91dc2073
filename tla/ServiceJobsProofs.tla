-------------------------- MODULE ServiceJobsProofs --------------------------
(***************************************************************************)
(* For every kind of job and any number of locks: what the row says, what  *)
(* the users are told, and what a coroutine leaves when it ends.           *)
(***************************************************************************)
EXTENDS ServiceJobs, TLAPS

RowTypes == [status : {"absent", "pending", "running", "deleted"} \cup Ended,
             ended : BOOLEAN, pid : BOOLEAN]
TaskTypes == [pc : {"idle", "queued", "start", "spawn", "pid", "watch", "final",
                    "second", "raise"},
              want : Ended, seen : {"unread", "pending", "running"} \cup Ended,
              flag : BOOLEAN, beat : BOOLEAN, eof : BOOLEAN]
PkgTypes == [status : {"none", "pending", "installing", "installed", "failed", "gone"},
             boot : {"off", "due", "installing"}]

Types ==
  /\ up \in BOOLEAN /\ kind \in Kinds /\ req \in BOOLEAN
  /\ row \in RowTypes /\ task \in TaskTypes /\ pkg \in PkgTypes
  /\ proc \in {"none", "live", "term"} \cup Results
  /\ locks \in Nat /\ told \in {"nothing", "success", "failure"}

\* What borg said is what the status says.
Says(status, exit) ==
  /\ status = "completed" => exit = "ok"
  /\ status = "completed_with_warnings" => exit = "warn"

\* Where the coroutine is, and what has happened by then: nothing before it is created, no
\* process before it spawns one, and a result after it has awaited it.
Placed ==
  /\ row.status = "absent" => task = NoTask /\ proc = "none" /\ ~req
  /\ ~up => task = NoTask
  /\ task.pc \in {"queued", "start", "spawn"} => proc = "none"
  /\ task.pc \in {"final", "second", "raise"} => proc \in Results
  /\ task.pc = "second" => proc = "ok"
  /\ task.pc = "final" => locks > 0 /\ Says(task.want, proc)

\* The row is not ended while the coroutine is at work, but for a cancellation.
Open ==
  /\ task.pc \notin {"idle", "raise"} =>
       row.status \notin {"completed", "completed_with_warnings", "failed"}
  /\ Says(row.status, proc)

\* A coroutine that has noticed a cancellation does not forget it.
Noticed ==
  /\ task.flag => \/ /\ kind \in Polling /\ ~task.beat /\ task.pc \in {"watch", "final"}
                     /\ task.seen \in {"unread", "cancelled"}
                  \/ kind = "package" /\ task.pc = "watch"
  /\ task.beat => kind \in Polling
  /\ req => kind \in Killable

\* Only an installation knows a package, and nobody cancels or retries it.
Apart ==
  /\ kind = "package" => row.status # "cancelled" /\ task.pc \notin {"final", "second", "raise"}
  /\ kind # "package" => pkg = [status |-> "none", boot |-> "off"]

Inv == Types /\ Placed /\ Open /\ Noticed /\ Apart

-----------------------------------------------------------------------------
(* Rows and tasks. *)

LEMMA StoreRow ==
  ASSUME row \in RowTypes, NEW s \in Ended \cup {"running"}, NEW e \in BOOLEAN, Store(s, e)
  PROVE  row' \in RowTypes /\ row'.status = IF Gone THEN "deleted" ELSE s
  BY DEF Store, RowTypes, Gone

LEMMA GotoTask ==
  ASSUME task \in TaskTypes, NEW p \in {"queued", "start", "spawn", "pid", "second", "raise"},
         Goto(p)
  PROVE  /\ task' \in TaskTypes /\ task'.pc = p
         /\ task'.flag = task.flag /\ task'.beat = task.beat /\ task'.seen = task.seen
  BY DEF Goto, TaskTypes

LEMMA NoTaskType ==
  NoTask \in TaskTypes /\ NoTask.pc = "idle" /\ NoTask.flag = FALSE /\ NoTask.beat = FALSE
  BY DEF NoTask, TaskTypes, Ended

LEMMA WatchingType ==
  ASSUME task \in TaskTypes
  PROVE  /\ Watching \in TaskTypes /\ Watching.pc = "watch" /\ Watching.flag = task.flag
         /\ Watching.beat => kind \in Polling
  <1> DEFINE beats == kind \in Polling
             over == kind \notin Reading
  <1>1. beats \in BOOLEAN /\ over \in BOOLEAN
    OBVIOUS
  <1>2. Watching = [task EXCEPT !.pc = "watch", !.beat = beats, !.eof = over]
    BY DEF Watching
  <1>3. beats => kind \in Polling
    OBVIOUS
  <1> HIDE DEF beats, over
  <1> QED
    BY <1>1, <1>2, <1>3 DEF TaskTypes

\* The except handler fails the row, or leaves it to a lock.
LEMMA ExceptEnds ==
  ASSUME Types, Except
  PROVE  /\ task' = NoTask
         /\ \/ row' = row /\ locks' = locks + 1
            \/ row' \in RowTypes /\ row'.status = (IF Gone THEN "deleted" ELSE "failed") /\ locks' = locks
  <1>1. CASE Store("failed", TRUE) /\ UNCHANGED locks
    BY <1>1, StoreRow DEF Except, Leave, Ended, Types
  <1>2. CASE Locked /\ UNCHANGED row
    BY <1>2 DEF Except, Leave, Locked
  <1> QED
    BY <1>1, <1>2 DEF Except

-----------------------------------------------------------------------------
(* What a step does besides keeping the invariant. *)

Leaves ==
  up' /\ task.pc # "idle" /\ task'.pc = "idle"
    => \/ /\ row'.status \in Ended \cup {"deleted"}
          /\ proc' \notin {"live", "term"}
          /\ pkg'.status = "installing" => Gone \/ pkg.boot = "installing"
       \/ task.pc = "pid"
       \/ task.pc = "start" \/ locks' # locks

Stands ==
  row.status \in Ended /\ row'.status \notin {row.status, "deleted"}
    => \/ row'.status = "cancelled" /\ req
       \/ row.status = "cancelled" /\ task.pc # "idle" /\ (~task.flag \/ locks' > 0)
       \/ LogUnwritten
       \/ task.pc = "raise"

Tellings ==
  told' # told
    => \/ told' = "success" /\ row'.status \in {"completed", "completed_with_warnings"}
       \/ told' = "failure" /\ row'.status = "failed"
       \/ kind = "restore" /\ proc # "none" /\ (Gone \/ locks' # locks)

Good == Inv' /\ Leaves /\ Stands /\ Tellings

\* A coroutine that has not looked at a process yet: it has noticed nothing.
LEMMA StartsRowStep ==
  ASSUME Inv, NEW k \in Kinds \ {"package"}, NEW quiet \in BOOLEAN, StartsRow(k, quiet)
  PROVE  Good
  <1>1. /\ kind = k /\ up /\ task.pc \in {"queued", "start"} /\ proc = "none"
        /\ ~task.flag /\ row.status # "absent"
        /\ UNCHANGED <<up, kind, proc, req, told, pkg>>
    BY NoTaskType DEF StartsRow, Turn, Inv, Placed, Noticed
  <1>2. CASE Quit /\ (Gone \/ task.pc = "start")
    BY <1>1, <1>2, NoTaskType
    DEF Quit, Leave, Good, Leaves, Stands, Tellings, Inv, Types, Placed, Open, Noticed, Apart, Gone
  <1>3. CASE ~Gone /\ Store("running", FALSE) /\ Goto("spawn") /\ UNCHANGED locks
    <2>1. row' \in RowTypes /\ row'.status = "running"
      BY <1>3, StoreRow DEF Inv, Types
    <2>2. task' \in TaskTypes /\ task'.pc = "spawn" /\ ~task'.flag /\ task'.beat = task.beat
      BY <1>1, <1>3, GotoTask DEF Inv, Types
    <2> QED
      BY <1>1, <1>3, <2>1, <2>2
      DEF Good, Leaves, Stands, Tellings, Inv, Types, Placed, Open, Noticed, Apart, Says, Ended
  <1>4. CASE Locked /\ Goto("start") /\ UNCHANGED row /\ task.pc = "queued"
    <2>1. task' \in TaskTypes /\ task'.pc = "start" /\ ~task'.flag /\ task'.beat = task.beat
      BY <1>1, <1>4, GotoTask DEF Inv, Types
    <2> QED
      BY <1>1, <1>4, <2>1
      DEF Locked, Good, Leaves, Stands, Tellings, Inv, Types, Placed, Open, Noticed, Apart
  <1>5. CASE Except /\ task.pc = "start"
    <2>1. /\ task' = NoTask
          /\ \/ row' = row /\ locks' = locks + 1
             \/ row' \in RowTypes /\ row'.status = (IF Gone THEN "deleted" ELSE "failed") /\ locks' = locks
      BY <1>5, ExceptEnds DEF Inv
    <2> QED
      BY <1>1, <1>5, <2>1, NoTaskType
      DEF Good, Leaves, Stands, Tellings, Inv, Types, Placed, Open, Noticed, Apart, Says, Gone, Ended
  <1> QED
    BY <1>2, <1>3, <1>4, <1>5 DEF StartsRow

LEMMA InformsTells ==
  ASSUME Types, InformsAtEnd \/ told' = told
  PROVE  Tellings /\ told' \in {"nothing", "success", "failure"}
  BY DEF InformsAtEnd, TellsCheck, Tells, Tellings, Types

\* The coroutine ends with a row that says what borg said.
LEMMA EndInv ==
  ASSUME Inv, UNCHANGED <<up, kind, proc, req>>, task' = NoTask, locks' \in Nat,
         row' \in RowTypes, row'.status # "absent", Says(row'.status, proc),
         kind = "package" => row'.status # "cancelled",
         pkg' \in PkgTypes, kind # "package" => pkg' = pkg,
         told' \in {"nothing", "success", "failure"}
  PROVE  Inv'
  BY NoTaskType DEF Inv, Types, Placed, Open, Noticed, Apart

LEMMA CreatesStep ==
  ASSUME Inv, NEW k \in Kinds, NEW status \in {"pending", "running"}, Creates(k, status)
  PROVE  Good
  <1>1. /\ row.status = "absent" /\ task = NoTask /\ proc = "none" /\ up
        /\ UNCHANGED <<up, kind, proc, req, locks, told, pkg>>
    BY DEF Creates, Inv, Placed
  <1>2. row' \in RowTypes /\ row'.status = status
    BY DEF Creates, Inv, Types, RowTypes
  <1>3. task' \in TaskTypes /\ task'.pc = "queued" /\ ~task'.flag /\ ~task'.beat
    BY <1>1, GotoTask, NoTaskType DEF Creates, Inv, Types
  <1> QED
    BY <1>1, <1>2, <1>3, NoTaskType
    DEF Good, Leaves, Stands, Tellings, Inv, Types, Placed, Open, Noticed, Apart, Says, Ended

\* A coroutine that has begun, and neither spawned nor noticed anything.
LEMMA BegunFacts ==
  ASSUME Inv, task.pc \in {"queued", "start", "spawn"}
  PROVE  /\ proc = "none" /\ ~task.flag /\ row.status # "absent" /\ up
         /\ row.status \notin {"completed", "completed_with_warnings", "failed"}
         /\ row.status \in {"pending", "running", "cancelled", "deleted"}
  BY NoTaskType DEF Inv, Types, RowTypes, Placed, Open, Noticed, Ended

\* It ends before it has spawned anything: the row is gone, failed, or not to be worked on.
LEMMA BegunEnds ==
  ASSUME Inv, task.pc \in {"queued", "start", "spawn"}, task' = NoTask,
         UNCHANGED <<up, kind, proc, req, pkg>>, Tellings,
         told' \in {"nothing", "success", "failure"},
         \/ row' = row /\ locks' = locks
            /\ (row.status \in Ended \cup {"deleted"} \/ task.pc = "start")
         \/ row' = row /\ locks' = locks + 1
         \/ row' \in RowTypes /\ row'.status \in {"failed", "deleted"} /\ locks' = locks
            /\ kind # "package"
  PROVE  Good
  <1>1. /\ proc = "none" /\ ~task.flag /\ row.status # "absent"
        /\ row.status \notin {"completed", "completed_with_warnings", "failed"}
    BY BegunFacts
  <1>2. locks' \in Nat /\ row' \in RowTypes /\ pkg' \in PkgTypes
    BY DEF Inv, Types
  <1>3. row'.status # "absent" /\ Says(row'.status, proc)
    BY <1>1 DEF Says
  <1>4. kind = "package" => row'.status # "cancelled"
    BY DEF Inv, Apart
  <1>5. Inv'
    BY <1>2, <1>3, <1>4, EndInv
  <1>6. Leaves
    BY <1>1 DEF Leaves, Inv, Types, Apart, Ended, Gone
  <1>7. Stands
    BY <1>1 DEF Stands, Inv, Placed, Ended
  <1> QED
    BY <1>5, <1>6, <1>7 DEF Good

\* It goes on towards the process.
LEMMA BegunGoesOn ==
  ASSUME Inv, task.pc \in {"queued", "start", "spawn"},
         task' \in TaskTypes, task'.pc \in {"queued", "start", "spawn"}, task'.flag = task.flag,
         task'.beat => kind \in Polling,
         UNCHANGED <<up, kind, proc, req, told>>, locks' \in Nat,
         pkg' \in PkgTypes, kind # "package" => pkg' = pkg,
         \/ row' = row
         \/ row' \in RowTypes /\ row'.status = "running"
  PROVE  Good
  <1>1. /\ proc = "none" /\ ~task.flag /\ row.status # "absent" /\ up
        /\ row.status \in {"pending", "running", "cancelled", "deleted"}
    BY BegunFacts
  <1>2. Inv'
    BY <1>1, NoTaskType DEF Inv, Types, Placed, Open, Noticed, Apart, Says
  <1> QED
    BY <1>1, <1>2 DEF Good, Leaves, Stands, Tellings, Ended

LEMMA TurnBegun ==
  ASSUME NEW k, NEW p, Turn(k, p)
  PROVE  kind = k /\ task.pc = p /\ up
  BY DEF Turn

LEMMA FindsRowStep ==
  ASSUME Inv, NEW k \in Kinds \ {"package"}, FindsRow(k)
  PROVE  Good
  <1>1. /\ task.pc = "queued" /\ UNCHANGED <<up, kind, proc, req, told, pkg>> /\ row' = row
        /\ locks' = locks
    BY DEF FindsRow, Turn, Quit
  <1>2. CASE Goto("spawn")
    BY <1>1, <1>2, GotoTask, BegunGoesOn DEF Inv, Types, Noticed
  <1>3. CASE task' = NoTask /\ row.status \notin {"pending", "running"}
    <2>1. row.status \in Ended \cup {"deleted"}
      BY <1>1, <1>3, BegunFacts DEF Ended
    <2> QED
      BY <1>1, <1>3, <2>1, BegunEnds DEF Tellings, Inv, Types
  <1> QED
    BY <1>2, <1>3 DEF FindsRow, Quit, Leave

LEMMA StartsRestoreStep ==
  ASSUME Inv, NEW k \in {"restore", "restore_ssh"}, StartsRestore(k)
  PROVE  Good
  <1>1. /\ task.pc = "queued" /\ UNCHANGED <<up, kind, proc, req, told, pkg>>
        /\ told \in {"nothing", "success", "failure"} /\ Tellings
        /\ pkg' \in PkgTypes /\ locks \in Nat
    BY DEF StartsRestore, Turn, Tellings, Inv, Types
  <1>2. CASE Gone /\ Quit
    BY <1>1, <1>2, BegunEnds DEF Gone, Quit, Leave
  <1>3. CASE ~Gone /\ Store("running", FALSE) /\ Goto("spawn") /\ UNCHANGED locks
    <2>1. row' \in RowTypes /\ row'.status = "running"
      BY <1>3, StoreRow DEF Inv, Types
    <2> QED
      BY <1>1, <1>3, <2>1, GotoTask, BegunGoesOn DEF Inv, Types, Noticed
  <1>4. CASE Locked /\ Leave /\ UNCHANGED row
    BY <1>1, <1>4, BegunEnds DEF Locked, Leave
  <1> QED
    BY <1>2, <1>3, <1>4 DEF StartsRestore

LEMMA BeginRestoreSshStep ==
  ASSUME Inv, BeginRestoreSsh
  PROVE  Good
  <1>1. CASE StartsRestore("restore_ssh")
    BY <1>1, StartsRestoreStep
  <1>2. CASE /\ Turn("restore_ssh", "queued")
             /\ Store("failed", TRUE) /\ Leave
             /\ IF Gone THEN UNCHANGED told ELSE TellsNotRestored
             /\ UNCHANGED <<up, kind, proc, req, locks, pkg>>
    <2>1. row' \in RowTypes /\ row'.status = IF Gone THEN "deleted" ELSE "failed"
      BY <1>2, StoreRow DEF Inv, Types, Ended
    <2>2. Tellings /\ told' \in {"nothing", "success", "failure"}
      BY <1>2, <2>1 DEF Tellings, TellsNotRestored, Tells, Inv, Types
    <2>3. task.pc = "queued" /\ task' = NoTask /\ kind = "restore_ssh"
      BY <1>2 DEF Turn, Leave
    <2> QED
      BY <1>2, <2>1, <2>2, <2>3, BegunEnds
  <1> QED
    BY <1>1, <1>2 DEF BeginRestoreSsh

LEMMA BeginRemoteStep ==
  ASSUME Inv, BeginRemote
  PROVE  Good
  <1>1. /\ task.pc = "queued" /\ kind = "remote" /\ UNCHANGED <<up, kind, proc, req, told, pkg>>
        /\ told \in {"nothing", "success", "failure"} /\ Tellings
        /\ pkg' \in PkgTypes /\ locks' = locks /\ locks \in Nat
    BY DEF BeginRemote, Turn, Tellings, Inv, Types, Quit
  <1>2. CASE Gone /\ Quit
    BY <1>1, <1>2, BegunEnds DEF Gone, Quit, Leave
  <1>3. CASE ~Gone /\ Store("running", FALSE) /\ Goto("spawn")
    <2>1. row' \in RowTypes /\ row'.status = "running"
      BY <1>3, StoreRow DEF Inv, Types
    <2> QED
      BY <1>1, <1>3, <2>1, GotoTask, BegunGoesOn DEF Inv, Types, Noticed
  <1>4. CASE ~Gone /\ Store("failed", TRUE) /\ Leave
    <2>1. row' \in RowTypes /\ row'.status = "failed"
      BY <1>4, StoreRow DEF Inv, Types, Ended
    <2> QED
      BY <1>1, <1>4, <2>1, BegunEnds DEF Leave
  <1> QED
    BY <1>2, <1>3, <1>4 DEF BeginRemote

LEMMA SetPackageType ==
  ASSUME Inv, NEW status \in {"pending", "installing", "installed", "failed"}, SetPackage(status)
  PROVE  /\ pkg' \in PkgTypes
         /\ pkg'.status = IF pkg.status = "gone" THEN "gone" ELSE status
  BY DEF SetPackage, Inv, Types, PkgTypes

\* The installation fails before it is at work, or when it was stopped.
LEMMA FailsPackageStep ==
  ASSUME Inv, kind = "package", up, task.pc \in {"spawn", "watch"}, FailsPackage,
         proc \notin {"live", "term"}, UNCHANGED <<up, kind, proc, req, told>>
  PROVE  Good
  <1>1. /\ task' = NoTask /\ row.status \notin {"absent", "cancelled"}
        /\ row.status \notin {"completed", "completed_with_warnings", "failed"}
        /\ locks \in Nat /\ told \in {"nothing", "success", "failure"} /\ pkg \in PkgTypes
        /\ row \in RowTypes
    BY NoTaskType DEF FailsPackage, Leave, Inv, Types, Placed, Open, Apart
  <1>2. CASE ~Gone /\ Store("failed", TRUE) /\ SetPackage("failed") /\ UNCHANGED locks
    <2>1. row' \in RowTypes /\ row'.status = "failed"
      BY <1>1, <1>2, StoreRow DEF Ended
    <2>2. pkg' \in PkgTypes /\ pkg'.status # "installing"
      BY <1>2, SetPackageType
    <2>3. Inv'
      BY <1>1, <1>2, <2>1, <2>2, EndInv DEF Says
    <2> QED
      BY <1>1, <2>1, <2>2, <2>3 DEF Good, Leaves, Stands, Tellings, Ended
  <1>3. CASE Gone /\ UNCHANGED <<row, pkg, locks>>
    <2>1. Inv'
      BY <1>1, <1>3, EndInv DEF Says, Gone
    <2> QED
      BY <1>1, <1>3, <2>1 DEF Good, Leaves, Stands, Tellings, Gone
  <1>4. CASE Locked /\ (UNCHANGED row \/ Store("failed", TRUE)) /\ UNCHANGED pkg
    <2>1. row' = row \/ (row' \in RowTypes /\ row'.status \in {"failed", "deleted"})
      BY <1>1, <1>4, StoreRow DEF Ended
    <2>2. locks' = locks + 1
      BY <1>4 DEF Locked
    <2>3. Inv'
      BY <1>1, <1>4, <2>1, <2>2, EndInv DEF Says
    <2> QED
      BY <1>1, <2>2, <2>3 DEF Good, Leaves, Stands, Tellings, Ended
  <1> QED
    BY <1>2, <1>3, <1>4 DEF FailsPackage

LEMMA BeginPackageStep ==
  ASSUME Inv, BeginPackage
  PROVE  Good
  <1>1. /\ task.pc = "queued" /\ kind = "package" /\ UNCHANGED <<up, kind, proc, req, told>>
        /\ told \in {"nothing", "success", "failure"} /\ Tellings
        /\ pkg \in PkgTypes /\ locks \in Nat
    BY DEF BeginPackage, Turn, Tellings, Inv, Types
  <1>2. CASE Gone /\ Quit /\ UNCHANGED pkg
    BY <1>1, <1>2, BegunEnds DEF Gone, Quit, Leave
  <1>3. CASE /\ ~Gone /\ Store("running", FALSE) /\ SetPackage("installing")
             /\ Goto("spawn") /\ UNCHANGED <<tracked, locks>>
    <2>1. row' \in RowTypes /\ row'.status = "running"
      BY <1>3, StoreRow DEF Inv, Types
    <2>2. pkg' \in PkgTypes
      BY <1>3, SetPackageType
    <2> QED
      BY <1>1, <1>3, <2>1, <2>2, GotoTask, BegunGoesOn DEF Inv, Types, Noticed
  <1>4. CASE Locked /\ Leave /\ UNCHANGED <<row, pkg>>
    BY <1>1, <1>4, BegunEnds DEF Locked, Leave
  <1> QED
    BY <1>2, <1>3, <1>4 DEF BeginPackage

\* The process is there; nobody has looked at the row since.
LEMMA Spawned ==
  ASSUME Inv, task.pc = "spawn", proc' = "live", task' \in TaskTypes,
         task'.pc \in {"pid", "watch"}, task'.flag = task.flag, task'.beat => kind \in Polling,
         UNCHANGED <<up, kind, req, pkg, row, locks, told>>
  PROVE  Good
  <1>1. /\ proc = "none" /\ ~task.flag /\ row.status # "absent" /\ up
        /\ row.status \in {"pending", "running", "cancelled", "deleted"}
    BY BegunFacts
  <1>2. Inv'
    BY <1>1, NoTaskType DEF Inv, Types, Placed, Open, Noticed, Apart, Says
  <1> QED
    BY <1>1, <1>2 DEF Good, Leaves, Stands, Tellings, Ended

LEMMA ExceptAtSpawn ==
  ASSUME Inv, task.pc = "spawn", kind # "package", Except,
         UNCHANGED <<up, kind, proc, req, pkg>>, Tellings,
         told' \in {"nothing", "success", "failure"}
  PROVE  Good
  <1>1. /\ task' = NoTask
        /\ \/ row' = row /\ locks' = locks + 1
           \/ row' \in RowTypes /\ row'.status = (IF Gone THEN "deleted" ELSE "failed") /\ locks' = locks
    BY ExceptEnds DEF Inv
  <1> QED
    BY <1>1, BegunEnds

LEMMA SpawnsStep ==
  ASSUME Inv, NEW k \in Kinds \ {"package"}, Spawns(k), UNCHANGED told
  PROVE  Good
  <1>1. /\ task.pc = "spawn" /\ kind # "package" /\ UNCHANGED <<up, kind, req, pkg>>
        /\ Tellings /\ told' \in {"nothing", "success", "failure"}
    BY DEF Spawns, Turn, Tellings, Inv, Types
  <1>2. CASE Except /\ UNCHANGED proc
    BY <1>1, <1>2, ExceptAtSpawn
  <1>3. CASE proc' = "live" /\ task' = Watching /\ UNCHANGED <<row, locks>>
    BY <1>1, <1>3, Spawned, WatchingType DEF Inv, Types
  <1> QED
    BY <1>2, <1>3 DEF Spawns

LEMMA SpawnsRestoreStep ==
  ASSUME Inv, NEW k \in {"restore", "restore_ssh"}, SpawnsRestore(k)
  PROVE  Good
  <1>1. task.pc = "spawn" /\ kind = k /\ UNCHANGED <<up, kind, req, pkg>>
    BY DEF SpawnsRestore, Spawns, Turn
  <1>2. CASE Except /\ UNCHANGED proc
    <2>1. \/ row' = row
          \/ row'.status = "failed"
      <3>1. \/ row' = row
            \/ row'.status = (IF Gone THEN "deleted" ELSE "failed")
        BY <1>2, ExceptEnds DEF Inv
      <3>2. Gone => row' = row
        BY <1>2 DEF Except, Store
      <3> QED
        BY <3>1, <3>2
    <2>2. Tellings /\ told' \in {"nothing", "success", "failure"}
      BY <2>1 DEF SpawnsRestore, TellsNotRestored, Tells, Tellings, Inv, Types
    <2> QED
      BY <1>1, <1>2, <2>2, ExceptAtSpawn
  <1>3. CASE proc' = "live" /\ task' = Watching /\ UNCHANGED <<row, locks>>
    BY <1>1, <1>3, Spawned, WatchingType DEF Inv, Types, SpawnsRestore
  <1> QED
    BY <1>2, <1>3 DEF SpawnsRestore, Spawns

LEMMA SpawnRemoteStep ==
  ASSUME Inv, SpawnRemote
  PROVE  Good
  <1>1. CASE Spawns("remote")
    BY <1>1, SpawnsStep DEF SpawnRemote, Kinds
  <1>2. CASE /\ Turn("remote", "spawn")
             /\ proc' = "live"
             /\ Locked /\ Store("failed", TRUE) /\ Leave
             /\ UNCHANGED <<up, kind, req, pkg>>
    <2>1. /\ proc = "none" /\ ~task.flag /\ row.status # "absent" /\ up
          /\ row.status \in {"pending", "running", "cancelled", "deleted"}
      BY <1>2, BegunFacts DEF Turn
    <2>2. row' \in RowTypes /\ row'.status \in {"failed", "deleted"}
      BY <1>2, StoreRow DEF Inv, Types, Ended
    <2>3. /\ task' = NoTask /\ locks' = locks + 1 /\ told' = told /\ kind = "remote"
          /\ task.pc = "spawn" /\ locks \in Nat
      BY <1>2 DEF Leave, Locked, SpawnRemote, Turn, Inv, Types
    <2>4. Inv'
      BY <1>2, <2>1, <2>2, <2>3, NoTaskType
      DEF Inv, Types, Placed, Open, Noticed, Apart, Says
    <2> QED
      BY <2>1, <2>2, <2>3, <2>4 DEF Good, Leaves, Stands, Tellings, Ended
  <1> QED
    BY <1>1, <1>2 DEF SpawnRemote

\* Between the spawn and the commit of the process id.
LEMMA PidFacts ==
  ASSUME Inv, task.pc = "pid"
  PROVE  /\ ~task.flag /\ row.status # "absent" /\ up /\ row \in RowTypes /\ locks \in Nat
         /\ row.status \in {"pending", "running", "cancelled", "deleted"}
  BY NoTaskType DEF Inv, Types, RowTypes, Placed, Open, Noticed, Ended

LEMMA PidStored ==
  ASSUME Inv, task.pc = "pid", row' = [row EXCEPT !.pid = TRUE], task' = Watching,
         UNCHANGED <<up, kind, proc, req, pkg, locks>>, Tellings,
         told' \in {"nothing", "success", "failure"}
  PROVE  Good
  <1>1. /\ ~task.flag /\ row.status # "absent" /\ up /\ row \in RowTypes
        /\ row.status \in {"pending", "running", "cancelled", "deleted"}
    BY PidFacts
  <1>2. row' \in RowTypes /\ row'.status = row.status
    BY <1>1 DEF RowTypes
  <1>3. /\ task' \in TaskTypes /\ task'.pc = "watch" /\ ~task'.flag
        /\ task'.beat => kind \in Polling
    BY <1>1, WatchingType DEF Inv, Types
  <1>4. Inv'
    BY <1>1, <1>2, <1>3, NoTaskType DEF Inv, Types, Placed, Open, Noticed, Apart, Says
  <1> QED
    BY <1>2, <1>3, <1>4 DEF Good, Leaves, Stands

LEMMA PidEnds ==
  ASSUME Inv, task.pc = "pid", task' = NoTask,
         row' = row \/ (row' \in RowTypes /\ row'.status \in {"failed", "deleted"}),
         UNCHANGED <<up, kind, proc, req, pkg>>, locks' \in Nat, Tellings,
         told' \in {"nothing", "success", "failure"}
  PROVE  Good
  <1>1. /\ ~task.flag /\ row.status # "absent" /\ up /\ row \in RowTypes
        /\ row.status \in {"pending", "running", "cancelled", "deleted"}
    BY PidFacts
  <1>2. Inv'
    BY <1>1, EndInv DEF Inv, Types, Apart, Says
  <1> QED
    BY <1>1, <1>2 DEF Good, Leaves, Stands, Ended

LEMMA SpawnsAndStoresStep ==
  ASSUME Inv, NEW k \in Kinds \ {"package"}, SpawnsAndStores(k)
  PROVE  Good
  <1>1. /\ kind # "package" /\ UNCHANGED <<up, kind, req, pkg>>
        /\ Tellings /\ told' \in {"nothing", "success", "failure"}
    BY InformsTells DEF SpawnsAndStores, Turn, Inv
  <1>2. CASE Turn(k, "spawn") /\ Except /\ UNCHANGED proc
    BY <1>1, <1>2, ExceptAtSpawn DEF Turn
  <1>3. CASE Turn(k, "spawn") /\ proc' = "live" /\ Goto("pid") /\ UNCHANGED <<row, locks>>
    <2>1. /\ task' \in TaskTypes /\ task'.pc = "pid" /\ task'.flag = task.flag
          /\ task'.beat => kind \in Polling
      BY <1>3, GotoTask DEF Inv, Types, Noticed
    <2>2. told' = told
      BY <2>1 DEF SpawnsAndStores, InformsAtEnd
    <2> QED
      BY <1>1, <1>3, <2>1, <2>2, Spawned DEF Turn
  <1>4. CASE Turn(k, "pid") /\ Gone /\ Quit /\ UNCHANGED proc
    BY <1>1, <1>4, PidEnds DEF Turn, Quit, Leave, Inv, Types
  <1>5. CASE /\ Turn(k, "pid") /\ ~Gone /\ row' = [row EXCEPT !.pid = TRUE]
             /\ task' = Watching /\ UNCHANGED <<proc, locks>>
    BY <1>1, <1>5, PidStored DEF Turn
  <1>6. CASE Turn(k, "pid") /\ Locked /\ Leave /\ Store("failed", TRUE) /\ UNCHANGED proc
    <2>1. row' \in RowTypes /\ row'.status \in {"failed", "deleted"}
      BY <1>6, StoreRow DEF Inv, Types, Ended
    <2> QED
      BY <1>1, <1>6, <2>1, PidEnds DEF Turn, Leave, Locked, Inv, Types
  <1> QED
    BY <1>2, <1>3, <1>4, <1>5, <1>6 DEF SpawnsAndStores

LEMMA SpawnPackageStep ==
  ASSUME Inv, SpawnPackage
  PROVE  Good
  <1>1. /\ kind = "package" /\ up /\ UNCHANGED <<up, kind, req, told>>
        /\ Tellings /\ told' \in {"nothing", "success", "failure"}
    BY DEF SpawnPackage, Turn, Tellings, Inv, Types
  <1>2. CASE Turn("package", "spawn") /\ FailsPackage /\ UNCHANGED proc
    BY <1>1, <1>2, FailsPackageStep, BegunFacts DEF Turn
  <1>3. CASE Turn("package", "spawn") /\ proc' = "live" /\ Goto("pid") /\ UNCHANGED <<row, locks, pkg>>
    BY <1>1, <1>3, GotoTask, Spawned DEF Turn, Inv, Types, Noticed
  <1>4. CASE /\ Turn("package", "pid") /\ row' = [row EXCEPT !.pid = TRUE]
             /\ task' = Watching /\ UNCHANGED <<proc, locks, pkg>>
    BY <1>1, <1>4, PidStored DEF Turn
  <1>5. CASE Turn("package", "pid") /\ Gone /\ Quit /\ UNCHANGED <<proc, pkg>>
    BY <1>1, <1>5, PidEnds DEF Turn, Quit, Leave, Inv, Types
  <1>6. CASE Turn("package", "pid") /\ Locked /\ Leave /\ UNCHANGED <<row, proc, pkg>>
    BY <1>1, <1>6, PidEnds DEF Turn, Locked, Leave, Inv, Types
  <1> QED
    BY <1>2, <1>3, <1>4, <1>5, <1>6 DEF SpawnPackage

-----------------------------------------------------------------------------
(* The process is watched. *)

LEMMA WatchFacts ==
  ASSUME Inv, task.pc \in {"watch", "final", "second"}
  PROVE  /\ row.status # "absent" /\ up /\ row \in RowTypes /\ locks \in Nat
         /\ row.status \in {"pending", "running", "cancelled", "deleted"}
         /\ row.status \in Ended => row.status = "cancelled"
         /\ told \in {"nothing", "success", "failure"}
  BY NoTaskType DEF Inv, Types, RowTypes, Placed, Open, Noticed, Ended

\* A step of neither the row nor the coroutine's place changes nothing that matters.
LEMMA ProcessExitStep ==
  ASSUME Inv, ProcessExit
  PROVE  Good
  <1>1. /\ proc \in {"live", "term"} /\ proc' \in {"none"} \cup Results
        /\ UNCHANGED <<up, kind, row, task, req, locks, told, pkg>>
        /\ task.pc # "idle" => proc' \in Results
    BY DEF ProcessExit
  <1>2. proc' \in {"none", "live", "term"} \cup Results
    BY <1>1
  <1>3. Placed'
    BY <1>1 DEF Inv, Placed, Results
  <1>4. Open'
    BY <1>1 DEF Inv, Open, Says, Results
  <1> QED
    BY <1>1, <1>2, <1>3, <1>4
    DEF Good, Leaves, Stands, Tellings, Inv, Types, Noticed, Apart

LEMMA HeartbeatStep ==
  ASSUME Inv, Heartbeat
  PROVE  Good
  <1> DEFINE cancelled == row.status = "cancelled"
             loaded == IF Gone THEN task.seen ELSE row.status
             beats == ~(Gone \/ cancelled \/ proc \in Results)
  <1>1. /\ row.status # "absent" /\ up /\ row \in RowTypes
        /\ row.status \in {"pending", "running", "cancelled", "deleted"}
    BY WatchFacts DEF Heartbeat
  <1>2. /\ cancelled \in BOOLEAN /\ beats \in BOOLEAN
        /\ loaded \in {"unread", "pending", "running"} \cup Ended
        /\ cancelled => loaded = "cancelled" /\ ~beats
    BY <1>1 DEF Gone, Inv, Types, TaskTypes, Ended
  <1>3. task' = [task EXCEPT !.seen = loaded, !.flag = cancelled, !.beat = beats]
    BY DEF Heartbeat
  <1>4. /\ task.pc = "watch" /\ task.beat /\ UNCHANGED <<up, kind, row, req, locks, told, pkg>>
        /\ proc' = IF cancelled /\ proc = "live" THEN "term" ELSE proc
    BY DEF Heartbeat
  <1>5. cancelled <=> row.status = "cancelled"
    OBVIOUS
  <1> HIDE DEF cancelled, loaded, beats
  <1>6. /\ task' \in TaskTypes /\ task'.pc = "watch" /\ task'.flag = cancelled
        /\ task'.beat = beats /\ task'.seen = loaded
    BY <1>2, <1>3, <1>4 DEF TaskTypes, Inv, Types
  <1>7. kind \in Polling
    BY <1>4 DEF Inv, Noticed
  <1>8. Types'
    BY <1>4, <1>6 DEF Inv, Types
  <1>9. Placed' /\ Open'
    BY <1>1, <1>4, <1>6, NoTaskType DEF Inv, Placed, Open, Says, Results
  <1>10. Noticed' /\ Apart'
    BY <1>2, <1>4, <1>6, <1>7 DEF Inv, Noticed, Apart
  <1> QED
    BY <1>1, <1>4, <1>6, <1>8, <1>9, <1>10 DEF Good, Leaves, Stands, Tellings, Inv, Ended

LEMMA ReadsStep ==
  ASSUME Inv, NEW k \in Kinds \ {"package"}, Reads(k)
  PROVE  Good
  <1>1. PICK end \in BOOLEAN :
          task' = [task EXCEPT !.eof = end, !.seen = IF k = "prune" THEN @ ELSE "unread"]
    BY DEF Reads
  <1>2. /\ task.pc = "watch" /\ kind = k
        /\ UNCHANGED <<up, kind, row, proc, req, locks, told, pkg>>
    BY DEF Reads, Turn
  <1>3. /\ task' \in TaskTypes /\ task'.pc = "watch" /\ task'.flag = task.flag
        /\ task'.beat = task.beat /\ task'.seen \in {task.seen, "unread"}
    BY <1>1, <1>2 DEF TaskTypes, Inv, Types
  <1>4. Inv'
    BY <1>2, <1>3, WatchFacts, NoTaskType DEF Inv, Types, Placed, Open, Noticed, Apart
  <1> QED
    BY <1>2, <1>3, <1>4 DEF Good, Leaves, Stands, Tellings

-----------------------------------------------------------------------------
(* The result. *)

\* The coroutine ends with a row that says what borg said, or leaves it gone or to a lock;
\* a cancellation it has noticed stands, but for a lock.
LEMMA ResultEnds ==
  ASSUME Inv, task.pc \in {"watch", "final", "second", "raise"}, proc \in Results,
         kind # "package", task' = NoTask, UNCHANGED <<up, kind, proc, req, pkg>>,
         locks' \in {locks, locks + 1}, Tellings, told' \in {"nothing", "success", "failure"},
         \/ row' = row /\ (Gone \/ locks' = locks + 1)
         \/ /\ row' \in RowTypes /\ row'.status \in Ended \cup {"deleted"}
            /\ Says(row'.status, proc)
            /\ task.flag /\ row.status = "cancelled"
                 => row'.status \in {"cancelled", "deleted"} \/ locks' > 0 \/ LogUnwritten
  PROVE  Good
  <1>1. /\ row.status # "absent" /\ row \in RowTypes /\ locks \in Nat
        /\ Says(row.status, proc)
        /\ task.pc = "raise" \/ (row.status \in Ended => row.status = "cancelled")
    BY WatchFacts, NoTaskType DEF Inv, Types, Placed, Open
  <1>2. row'.status # "absent"
    BY <1>1 DEF Ended
  <1>3. Inv'
    BY <1>1, <1>2, EndInv DEF Inv, Types
  <1>4. Leaves
    BY <1>1 DEF Leaves, Gone, Results, Inv, Apart
  <1>5. Stands
    BY <1>1, NoTaskType DEF Stands
  <1> QED
    BY <1>3, <1>4, <1>5 DEF Good

\* The log cannot be written.
LEMMA LogFailsStep ==
  ASSUME Inv, kind \in {"delete", "prune2"}, task.pc = "watch", proc \in Results, Except,
         UNCHANGED <<up, kind, proc, req, pkg, told>>
  PROVE  Good
  <1>1. /\ task' = NoTask /\ row \in RowTypes /\ locks \in Nat
        /\ \/ row' = row /\ locks' = locks + 1
           \/ row' \in RowTypes /\ row'.status = (IF Gone THEN "deleted" ELSE "failed") /\ locks' = locks
    BY ExceptEnds DEF Inv, Types
  <1>2. Says("failed", proc) /\ Says("deleted", proc)
    BY DEF Says
  <1>3. Tellings /\ told' \in {"nothing", "success", "failure"}
    BY DEF Tellings, Inv, Types
  <1> QED
    BY <1>1, <1>2, <1>3, ResultEnds DEF LogUnwritten, Ended

LEMMA CommitsStep ==
  ASSUME Inv, task.pc \in {"watch", "second"}, proc \in Results, kind # "package",
         UNCHANGED <<up, kind, proc, req, pkg>>, NEW s \in Ended, Commits(s), Says(s, proc),
         task.flag /\ row.status = "cancelled" => s = "cancelled",
         InformsAtEnd \/ told' = told
  PROVE  Good
  <1>1. Tellings /\ told' \in {"nothing", "success", "failure"}
    BY InformsTells DEF Inv
  <1>2. locks \in Nat
    BY DEF Inv, Types
  <1>3. CASE Gone /\ Quit
    BY <1>1, <1>3, ResultEnds DEF Quit, Leave
  <1>4. CASE ~Gone /\ Store(s, TRUE) /\ Leave /\ UNCHANGED locks
    <2>1. row' \in RowTypes /\ row'.status = s
      BY <1>4, StoreRow DEF Inv, Types
    <2> QED
      BY <1>1, <1>4, <2>1, ResultEnds DEF Leave
  <1>5. CASE Locked /\ task' = [task EXCEPT !.pc = "final", !.want = s] /\ UNCHANGED row
    <2>1. /\ task' \in TaskTypes /\ task'.pc = "final" /\ task'.want = s
          /\ task'.flag = task.flag /\ task'.beat = task.beat /\ task'.seen = task.seen
      BY <1>5 DEF TaskTypes, Inv, Types
    <2>2. locks' = locks + 1
      BY <1>5 DEF Locked
    <2>3. told' = told
      BY <2>1 DEF InformsAtEnd
    <2>4. Types' /\ Placed'
      BY <1>2, <1>5, <2>1, <2>2, <2>3, WatchFacts DEF Inv, Types, Placed
    <2>5. Open' /\ Noticed' /\ Apart'
      BY <1>5, <2>1 DEF Inv, Open, Noticed, Apart
    <2> QED
      BY <1>5, <2>1, <2>3, <2>4, <2>5 DEF Good, Leaves, Stands, Tellings, Inv
  <1> QED
    BY <1>3, <1>4, <1>5 DEF Commits

LEMMA RetryFinalStep ==
  ASSUME Inv, RetryFinal
  PROVE  Good
  <1>1. Tellings /\ told' \in {"nothing", "success", "failure"}
    BY InformsTells DEF RetryFinal, Inv
  <1>2. /\ task.pc = "final" /\ proc \in Results /\ locks \in Nat /\ locks > 0
        /\ Says(task.want, proc) /\ task.want \in Ended /\ kind # "package"
        /\ UNCHANGED <<up, kind, proc, req, pkg>>
    BY DEF RetryFinal, Inv, Types, Placed, Apart, TaskTypes
  <1>3. CASE Gone /\ Quit
    BY <1>1, <1>2, <1>3, ResultEnds DEF Quit, Leave
  <1>4. CASE ~Gone /\ Store(task.want, TRUE) /\ Leave /\ UNCHANGED locks
    <2>1. row' \in RowTypes /\ row'.status = task.want
      BY <1>2, <1>4, StoreRow DEF Inv, Types
    <2> QED
      BY <1>1, <1>2, <1>4, <2>1, ResultEnds DEF Leave
  <1>5. CASE ~Gone /\ Except
    <2>1. /\ task' = NoTask
          /\ \/ row' = row /\ locks' = locks + 1
             \/ row' \in RowTypes /\ row'.status = "failed" /\ locks' = locks
      BY <1>5, ExceptEnds DEF Inv
    <2>2. /\ locks' \in {locks, locks + 1}
          /\ \/ row' = row /\ locks' = locks + 1
             \/ /\ row' \in RowTypes /\ row'.status \in Ended \cup {"deleted"}
                /\ Says(row'.status, proc) /\ locks' > 0
      BY <1>2, <2>1 DEF Says, Ended
    <2> QED
      BY <1>1, <1>2, <2>1, <2>2, ResultEnds
  <1> QED
    BY <1>3, <1>4, <1>5 DEF RetryFinal

LEMMA ResultSays ==
  ASSUME proc \in Results
  PROVE  /\ Lenient[proc] \in {"completed", "completed_with_warnings", "failed"}
         /\ Strict[proc] \in {"completed", "failed"}
         /\ Says(Lenient[proc], proc) /\ Says(Strict[proc], proc)
         /\ Says("cancelled", proc) /\ Says("failed", proc)
         /\ {Lenient[proc], Strict[proc], "failed", "cancelled"} \subseteq Ended
         /\ Lenient[proc] = "completed_with_warnings" <=> proc = "warn"
  BY DEF Results, Lenient, Strict, Says, Ended

\* A session that has seen the cancellation still sees it.
LEMMA LoadedCancelled ==
  ASSUME Inv, task.flag, kind # "package", row.status = "cancelled"
  PROVE  LoadedStatus = "cancelled"
  BY DEF Inv, Noticed, LoadedStatus

LEMMA ReadsRowStep ==
  ASSUME Inv, NEW k \in Kinds \ {"package"}, ReadsRow(k, Lenient)
  PROVE  Good
  <1> DEFINE s == IF LoadedStatus = "cancelled" THEN "cancelled" ELSE Lenient[proc]
  <1>1. /\ task.pc = "watch" /\ proc \in Results /\ kind # "package"
        /\ UNCHANGED <<up, kind, proc, req, pkg>> /\ InformsAtEnd /\ Commits(s)
    BY DEF ReadsRow, AwaitsStreams, AwaitsProcess, Turn
  <1>2. /\ s \in Ended /\ Says(s, proc)
        /\ task.flag /\ row.status = "cancelled" => s = "cancelled"
    BY <1>1, ResultSays, LoadedCancelled
  <1> HIDE DEF s
  <1> QED
    BY <1>1, <1>2, CommitsStep

LEMMA FinishPrune2Step ==
  ASSUME Inv, FinishPrune2
  PROVE  Good
  <1> DEFINE s == IF LoadedStatus = "cancelled" THEN "cancelled" ELSE Strict[proc]
  <1>1. /\ task.pc = "watch" /\ proc \in Results /\ kind # "package" /\ told' = told
        /\ UNCHANGED <<up, kind, proc, req, pkg>> /\ (Commits(s) \/ Except)
        /\ kind = "prune2"
    BY DEF FinishPrune2, AwaitsProcess, Turn
  <1>2. /\ s \in Ended /\ Says(s, proc)
        /\ task.flag /\ row.status = "cancelled" => s = "cancelled"
    BY <1>1, ResultSays, LoadedCancelled
  <1> HIDE DEF s
  <1> QED
    BY <1>1, <1>2, CommitsStep, LogFailsStep

LEMMA FinishDeleteStep ==
  ASSUME Inv, FinishDelete
  PROVE  Good
  <1> DEFINE s == IF task.flag THEN "cancelled" ELSE Lenient[proc]
  <1>1. /\ task.pc = "watch" /\ proc \in Results /\ kind # "package" /\ told' = told
        /\ UNCHANGED <<up, kind, proc, req, pkg>> /\ (Commits(s) \/ Except)
        /\ kind = "delete"
    BY DEF FinishDelete, AwaitsProcess, Turn
  <1>2. s \in Ended /\ Says(s, proc) /\ (task.flag => s = "cancelled")
    BY <1>1, ResultSays
  <1> HIDE DEF s
  <1> QED
    BY <1>1, <1>2, CommitsStep, LogFailsStep

LEMMA FinishDelete2Step ==
  ASSUME Inv, FinishDelete2
  PROVE  Good
  <1>1. /\ kind = "delete2" /\ ~task.flag /\ told' = told /\ UNCHANGED <<up, kind, proc, req, pkg>>
        /\ told \in {"nothing", "success", "failure"}
    BY DEF FinishDelete2, AwaitsProcess, Turn, Inv, Types, Noticed, Polling
  <1>2. CASE AwaitsProcess("delete2") /\ proc # "ok" /\ Commits("failed")
    BY <1>1, <1>2, ResultSays, CommitsStep DEF AwaitsProcess, Turn
  <1>3. CASE AwaitsProcess("delete2") /\ proc = "ok" /\ Goto("second") /\ UNCHANGED <<row, locks>>
    <2>1. /\ task' \in TaskTypes /\ task'.pc = "second" /\ task'.flag = task.flag
          /\ task'.beat = task.beat
      BY <1>3, GotoTask DEF Inv, Types
    <2>2. task.pc = "watch" /\ proc \in Results
      BY <1>3 DEF AwaitsProcess, Turn
    <2>3. Inv'
      BY <1>1, <1>3, <2>1, <2>2, WatchFacts DEF Inv, Types, Placed, Open, Noticed, Apart
    <2> QED
      BY <1>1, <1>3, <2>1, <2>3 DEF Good, Leaves, Stands, Tellings
  <1>4. CASE AwaitsProcess("delete2") /\ proc = "ok" /\ Gone /\ Quit
    BY <1>1, <1>4, ResultEnds DEF AwaitsProcess, Turn, Quit, Leave, Tellings
  <1>5. CASE Turn("delete2", "second") /\ Commits("completed")
    <2>1. task.pc = "second" /\ proc = "ok"
      BY <1>5 DEF Turn, Inv, Placed
    <2> QED
      BY <1>1, <1>5, <2>1, CommitsStep DEF Says, Results, Ended
  <1> QED
    BY <1>2, <1>3, <1>4, <1>5 DEF FinishDelete2

\* A restore writes its row, or leaves it to a lock.
LEMMA WritesRow ==
  ASSUME Inv, task.pc = "watch", NEW s \in Ended, Writes(s)
  PROVE  /\ task' = NoTask
         /\ \/ row' = row /\ locks' = locks + 1
            \/ /\ row' \in RowTypes /\ locks' = locks
               /\ row'.status = IF Gone THEN "deleted" ELSE s
  <1>1. CASE Store(s, TRUE) /\ Leave /\ UNCHANGED locks
    BY <1>1, StoreRow DEF Leave, Inv, Types
  <1>2. CASE Locked /\ Leave /\ UNCHANGED row
    BY <1>2 DEF Locked, Leave
  <1> QED
    BY <1>1, <1>2 DEF Writes

LEMMA WritesStep ==
  ASSUME Inv, NEW k \in {"restore", "restore_ssh"}, AwaitsProcess(k), NEW s \in Ended, Writes(s),
         Says(s, proc), UNCHANGED <<up, kind, proc, req, pkg>>, Tellings,
         told' \in {"nothing", "success", "failure"}
  PROVE  Good
  <1>1. task.pc = "watch" /\ proc \in Results /\ kind = k /\ ~task.flag /\ locks \in Nat
    BY DEF AwaitsProcess, Turn, Inv, Types, Noticed, Polling
  <1>2. /\ task' = NoTask
        /\ \/ row' = row /\ locks' = locks + 1
           \/ /\ row' \in RowTypes /\ locks' = locks
              /\ row'.status = IF Gone THEN "deleted" ELSE s
    BY <1>1, WritesRow
  <1>3. CASE row' = row
    BY <1>1, <1>2, <1>3, ResultEnds DEF Gone, RowTypes, Inv, Types
  <1>4. CASE row' \in RowTypes /\ locks' = locks /\ row'.status = IF Gone THEN "deleted" ELSE s
    <2>1. row'.status \in Ended \cup {"deleted"} /\ Says(row'.status, proc)
      BY <1>4 DEF Says
    <2> QED
      BY <1>1, <1>2, <1>4, <2>1, ResultEnds
  <1> QED
    BY <1>2, <1>3, <1>4

LEMMA FinishRestoreStep ==
  ASSUME Inv, FinishRestore
  PROVE  Good
  <1>1. /\ AwaitsProcess("restore") /\ UNCHANGED <<up, kind, proc, req, pkg>>
        /\ proc \in Results /\ kind = "restore" /\ task.pc = "watch"
    BY DEF FinishRestore, AwaitsProcess, Turn
  <1>2. PICK s \in {Lenient[proc]} \cup (IF proc = "warn" THEN {"failed"} ELSE {}) :
          TellsRestore(s) /\ Writes(s)
    BY DEF FinishRestore
  <1>3. s \in {"completed", "completed_with_warnings", "failed"} /\ s \in Ended /\ Says(s, proc)
    BY <1>1, <1>2, ResultSays
  <1>4. \/ row' = row /\ locks' = locks + 1
        \/ row'.status = IF Gone THEN "deleted" ELSE s
    BY <1>1, <1>2, <1>3, WritesRow
  <1>5. Tellings /\ told' \in {"nothing", "success", "failure"}
    BY <1>1, <1>2, <1>3, <1>4
    DEF Tellings, TellsRestore, TellsRestored, TellsNotRestored, Tells, Inv, Types, Results
  <1> QED
    BY <1>1, <1>2, <1>3, <1>5, WritesStep

LEMMA FinishRestoreSshStep ==
  ASSUME Inv, FinishRestoreSsh
  PROVE  Good
  <1>1. /\ AwaitsProcess("restore_ssh") /\ UNCHANGED <<up, kind, proc, req, pkg>>
        /\ proc \in Results /\ task.pc = "watch" /\ Writes(Lenient[proc])
    BY DEF FinishRestoreSsh, AwaitsProcess, Turn
  <1>2. /\ Lenient[proc] \in {"completed", "completed_with_warnings", "failed"}
        /\ Lenient[proc] \in Ended /\ Says(Lenient[proc], proc)
    BY <1>1, ResultSays
  <1>3. \/ row' = row /\ locks' = locks + 1
        \/ locks' = locks /\ row'.status = IF Gone THEN "deleted" ELSE Lenient[proc]
    BY <1>1, <1>2, WritesRow
  <1>4. locks + 1 # locks
    BY DEF Inv, Types
  <1>5. Tellings /\ told' \in {"nothing", "success", "failure"}
    BY <1>2, <1>3, <1>4
    DEF FinishRestoreSsh, Tellings, TellsRestore, TellsRestored, TellsNotRestored, Tells, Inv, Types
  <1> QED
    BY <1>1, <1>2, <1>5, WritesStep

LEMMA FinishRemoteStep ==
  ASSUME Inv, FinishRemote
  PROVE  Good
  <1>1. /\ kind = "remote" /\ ~task.flag /\ Tellings /\ UNCHANGED <<up, kind, proc, req, told, pkg>>
        /\ told' \in {"nothing", "success", "failure"} /\ locks \in Nat
        /\ task.pc \in {"watch", "raise"} /\ proc \in Results /\ ~task.beat
    BY DEF FinishRemote, AwaitsProcess, Turn, Tellings, Inv, Types, Placed, Noticed, Polling
  <1>2. CASE Gone /\ Quit
    BY <1>1, <1>2, ResultEnds DEF Quit, Leave
  <1>3. CASE /\ task.pc = "watch" /\ ~Gone /\ Store(Strict[proc], TRUE) /\ Goto("raise")
             /\ UNCHANGED locks
    <2>1. row' \in RowTypes /\ row'.status = Strict[proc] /\ Strict[proc] \in Ended
          /\ Says(row'.status, proc)
      BY <1>1, <1>3, StoreRow, ResultSays DEF Inv, Types
    <2>2. /\ task' \in TaskTypes /\ task'.pc = "raise" /\ task'.flag = task.flag
          /\ task'.beat = task.beat
      BY <1>3, GotoTask DEF Inv, Types
    <2>3. Inv'
      BY <1>1, <1>3, <2>1, <2>2, WatchFacts DEF Inv, Types, Placed, Open, Noticed, Apart, Ended
    <2>4. Stands
      BY <1>1, <1>3, WatchFacts DEF Stands
    <2> QED
      BY <1>1, <1>3, <2>2, <2>3, <2>4 DEF Good, Leaves
  <1>4. CASE Store("failed", TRUE) /\ Leave /\ locks' \in {locks, locks + 1}
    <2>1. row' \in RowTypes /\ row'.status \in {"failed", "deleted"}
      BY <1>4, StoreRow DEF Inv, Types, Ended
    <2>2. row'.status \in Ended \cup {"deleted"} /\ Says(row'.status, proc)
      BY <2>1 DEF Says, Ended
    <2> QED
      BY <1>1, <1>4, <2>1, <2>2, ResultEnds DEF Leave
  <1> QED
    BY <1>2, <1>3, <1>4 DEF FinishRemote, AwaitsProcess, Turn, Locked

LEMMA FinishPackageStep ==
  ASSUME Inv, FinishPackage
  PROVE  Good
  <1>1. /\ kind = "package" /\ up /\ task.pc = "watch" /\ proc \in Results
        /\ UNCHANGED <<up, kind, proc, req, told>> /\ locks \in Nat
        /\ told \in {"nothing", "success", "failure"} /\ pkg \in PkgTypes /\ row \in RowTypes
        /\ row.status \notin {"absent", "cancelled"} /\ row.status \notin Ended
        /\ Says(row.status, proc)
    BY WatchFacts DEF FinishPackage, AwaitsProcess, Turn, Inv, Types, Apart, Open
  <1>2. proc \notin {"live", "term"}
    BY <1>1 DEF Results
  <1>3. CASE FailsPackage
    BY <1>1, <1>2, <1>3, FailsPackageStep
  <1>4. CASE /\ ~Gone /\ Store(Strict[proc], TRUE) /\ Leave /\ UNCHANGED locks
             /\ SetPackage(IF proc = "ok" THEN "installed" ELSE "failed")
    <2>1. /\ row' \in RowTypes /\ row'.status = Strict[proc]
          /\ Strict[proc] \in {"completed", "failed"} /\ Says(Strict[proc], proc)
          /\ Strict[proc] \in Ended
      BY <1>1, <1>4, StoreRow, ResultSays
    <2>2. pkg' \in PkgTypes /\ pkg'.status # "installing"
      BY <1>4, SetPackageType
    <2>3. Inv'
      BY <1>1, <1>4, <2>1, <2>2, EndInv DEF Leave
    <2> QED
      BY <1>1, <1>2, <1>4, <2>1, <2>2, <2>3 DEF Good, Leaves, Stands, Tellings
  <1>5. CASE Gone /\ Quit /\ UNCHANGED pkg
    <2>1. Inv'
      BY <1>1, <1>5, EndInv DEF Quit, Leave
    <2> QED
      BY <1>1, <1>2, <1>5, <2>1 DEF Good, Leaves, Stands, Tellings, Quit, Gone
  <1>6. CASE Locked /\ Leave /\ UNCHANGED <<row, pkg>>
    <2>1. locks' = locks + 1 /\ task' = NoTask
      BY <1>6 DEF Locked, Leave
    <2>2. Inv'
      BY <1>1, <1>6, <2>1, EndInv
    <2> QED
      BY <1>1, <1>6, <2>1, <2>2 DEF Good, Leaves, Stands, Tellings
  <1> QED
    BY <1>3, <1>4, <1>5, <1>6 DEF FinishPackage

\* Only the package changes.
LEMMA PackageChanges ==
  ASSUME Inv, kind = "package", pkg' \in PkgTypes,
         UNCHANGED <<up, kind, row, task, proc, req, locks, told>>
  PROVE  Good
  BY DEF Good, Leaves, Stands, Tellings, Inv, Types, Placed, Open, Noticed, Apart

LEMMA PackageStep ==
  ASSUME Inv, Package
  PROVE  Good
  <1>1. CASE PackageTimeout
    <2>1. /\ kind = "package" /\ task.pc = "watch" /\ proc = "live" /\ proc' = "term"
          /\ UNCHANGED <<up, kind, row, req, locks, told, pkg>>
      BY <1>1 DEF PackageTimeout, Turn
    <2>2. task' \in TaskTypes /\ task'.pc = "watch" /\ task'.beat = task.beat
      BY <1>1, <2>1 DEF PackageTimeout, TaskTypes, Inv, Types
    <2>3. Inv'
      BY <2>1, <2>2, WatchFacts, NoTaskType
      DEF Inv, Types, Placed, Open, Noticed, Apart, Says
    <2> QED
      BY <2>1, <2>2, <2>3 DEF Good, Leaves, Stands, Tellings
  <1>2. CASE ReinstallPackage
    BY <1>2, SetPackageType, PackageChanges DEF ReinstallPackage
  <1>3. CASE DeletePackage
    <2>1. /\ row' \in RowTypes /\ row'.status \in {row.status, "deleted"}
          /\ row.status = "absent" <=> row'.status = "absent"
      BY <1>3 DEF DeletePackage, RowTypes, Inv, Types
    <2>2. pkg' \in PkgTypes /\ pkg'.status = "gone"
      BY <1>3 DEF DeletePackage, PkgTypes, Inv, Types
    <2>3. kind = "package" /\ UNCHANGED <<up, kind, task, proc, req, locks, told>>
      BY <1>3 DEF DeletePackage
    <2>4. Inv'
      BY <2>1, <2>2, <2>3 DEF Inv, Types, Placed, Open, Noticed, Apart, Says
    <2> QED
      BY <2>1, <2>3, <2>4 DEF Good, Leaves, Stands, Tellings
  <1>4. CASE BootChecks
    <2>1. kind = "package" /\ pkg' \in PkgTypes
      BY <1>4 DEF BootChecks, Inv, Types, Apart, PkgTypes
    <2> QED
      BY <1>4, <2>1, PackageChanges DEF BootChecks
  <1>5. CASE BootInstalls
    <2>1. kind = "package" /\ pkg' \in PkgTypes
      BY <1>5 DEF BootInstalls, Inv, Types, Apart, PkgTypes
    <2> QED
      BY <1>5, <2>1, PackageChanges DEF BootInstalls
  <1> QED
    BY <1>1, <1>2, <1>3, <1>4, <1>5 DEF Package

-----------------------------------------------------------------------------
(* Requests and restarts. *)

\* A request takes the row away, or cancels it, and leaves the coroutine alone.
LEMMA RequestChanges ==
  ASSUME Inv, row.status # "absent", row' \in RowTypes,
         row'.status \in {row.status, "cancelled", "deleted"},
         UNCHANGED <<up, kind, task, locks, told, pkg>>,
         proc' \in {proc, "term"}, proc' = proc \/ proc \in {"live", "term"}, req' \in BOOLEAN,
         req' => kind \in Killable,
         row'.status = "cancelled" /\ row.status # "cancelled"
           => kind # "package" /\ (row.status = "running" \/ req)
  PROVE  Good
  <1>1. proc' = proc \/ (proc \in {"live", "term"} /\ proc' = "term")
    OBVIOUS
  <1>2. row'.status # "absent"
    OBVIOUS
  <1>3. Types'
    BY <1>1 DEF Inv, Types
  <1>4. Placed'
    BY <1>1, <1>2 DEF Inv, Placed, Results
  <1>5. Open'
    BY <1>1 DEF Inv, Open, Says
  <1>6. Noticed' /\ Apart'
    BY DEF Inv, Noticed, Apart
  <1>7. Stands
    BY DEF Stands, Ended
  <1> QED
    BY <1>3, <1>4, <1>5, <1>6, <1>7 DEF Good, Leaves, Tellings, Inv

LEMMA CancelsStep ==
  ASSUME Inv, NEW kinds \in SUBSET (Kinds \ {"package"}), NEW ended \in BOOLEAN,
         Cancels(kinds, ended)
  PROVE  Good
  <1>1. /\ kind # "package" /\ row.status = "running" /\ row \in RowTypes /\ req \in BOOLEAN
        /\ req => kind \in Killable
        /\ UNCHANGED <<up, kind, task, locks, told, pkg>>
    BY DEF Cancels, Inv, Types, Noticed
  <1>2. CASE /\ kind \in Killable /\ proc \in {"live", "term"}
             /\ Stop /\ req' = TRUE /\ UNCHANGED row
    BY <1>1, <1>2, RequestChanges DEF Stop
  <1>3. CASE Store("cancelled", ended) /\ UNCHANGED <<proc, req>>
    <2>1. row' \in RowTypes /\ row'.status \in {"cancelled", "deleted"}
      BY <1>1, <1>3, StoreRow DEF Ended
    <2> QED
      BY <1>1, <1>3, <2>1, RequestChanges
  <1> QED
    BY <1>2, <1>3 DEF Cancels

LEMMA RequestStep ==
  ASSUME Inv, Request
  PROVE  Good
  <1>1. row \in RowTypes /\ req \in BOOLEAN /\ (req => kind \in Killable)
    BY DEF Inv, Types, Noticed
  <1>2. CASE CancelRequest
    BY <1>2, CancelsStep
    DEF CancelRequest, CancelMaintenance, CancelRestore, CancelDelete, CancelRemote, Kinds, Polling
  <1>3. CASE CancelFinish
    <2>1. /\ req /\ row.status # "absent" /\ kind # "package" /\ ~req'
          /\ UNCHANGED <<up, kind, task, proc, locks, told, pkg>>
      BY <1>1, <1>3 DEF CancelFinish, Inv, Placed, Killable
    <2>2. row' \in RowTypes /\ row'.status \in {"cancelled", "deleted"}
      BY <1>1, <1>3, StoreRow DEF CancelFinish, Ended
    <2> QED
      BY <1>1, <1>3, <2>1, <2>2, RequestChanges DEF CancelFinish
  <1>4. CASE DeleteRow \/ DeleteRepository
    <2>1. /\ row.status # "absent" /\ row' = [row EXCEPT !.status = "deleted"]
          /\ UNCHANGED <<up, kind, task, proc, req, locks, told, pkg>>
      BY <1>4 DEF DeleteRow, DeleteRepository, Ended
    <2>2. row' \in RowTypes /\ row'.status = "deleted"
      BY <1>1, <2>1 DEF RowTypes
    <2> QED
      BY <1>1, <2>1, <2>2, RequestChanges
  <1> QED
    BY <1>2, <1>3, <1>4 DEF Request

LEMMA CrashStep ==
  ASSUME Inv, Crash
  PROVE  Good
  <1>1. /\ ~up' /\ task' = NoTask /\ ~req' /\ proc' \in {"none", proc}
        /\ proc' = proc \/ proc \in {"live", "term"}
        /\ UNCHANGED <<kind, row, locks, told>>
    BY DEF Crash
  <1>2. pkg' \in PkgTypes /\ (kind # "package" => pkg' = pkg)
    BY DEF Crash, PkgTypes, Inv, Types, Apart
  <1>3. Inv'
    BY <1>1, <1>2, NoTaskType DEF Crash, Inv, Types, Placed, Open, Noticed, Apart, Says
  <1> QED
    BY <1>1, <1>3 DEF Good, Leaves, Stands, Tellings

LEMMA RecoverStep ==
  ASSUME Inv, Recover
  PROVE  Good
  <1>1. /\ ~up /\ up' /\ task = NoTask /\ row \in RowTypes
        /\ UNCHANGED <<kind, task, proc, req, locks, told>>
    BY DEF Recover, Inv, Types, Placed
  <1>2. pkg' \in PkgTypes /\ (kind # "package" => pkg' = pkg)
    BY DEF Recover, PkgTypes, Inv, Types
  <1>3. \/ row' = row
        \/ /\ row' \in RowTypes /\ row'.status = "failed"
           /\ row.status = "running"
    BY <1>1, StoreRow DEF Recover, Orphaned, Ended, Gone
  <1>4. Inv'
    BY <1>1, <1>2, <1>3, NoTaskType DEF Inv, Types, Placed, Open, Noticed, Apart, Says
  <1> QED
    BY <1>1, <1>3, <1>4, NoTaskType DEF Good, Leaves, Stands, Tellings, Ended

-----------------------------------------------------------------------------
LEMMA InitInv == Init => Inv
  <1> SUFFICES ASSUME Init PROVE Inv
    OBVIOUS
  <1>1. row \in RowTypes /\ row.status = "absent"
    BY DEF Init, RowTypes
  <1>2. pkg \in PkgTypes /\ (kind # "package" => pkg = [status |-> "none", boot |-> "off"])
    <2>1. CASE kind = "package"
      BY <2>1 DEF Init, PkgTypes
    <2>2. CASE kind # "package"
      BY <2>2 DEF Init, PkgTypes
    <2> QED
      BY <2>1, <2>2
  <1>3. Types
    BY <1>1, <1>2, NoTaskType DEF Init, Types
  <1> QED
    BY <1>1, <1>2, <1>3, NoTaskType DEF Init, Inv, Placed, Open, Noticed, Apart, Says

LEMMA SubmitStep ==
  ASSUME Inv, Submit
  PROVE  Good
  BY CreatesStep
  DEF Submit, SubmitCheck, SubmitCompact, SubmitPrune, SubmitDelete, SubmitRunning2, SubmitDelete2,
      SubmitRestore, SubmitRemote, SubmitPackage, Kinds, Polling

LEMMA BeginStep ==
  ASSUME Inv, Begin
  PROVE  Good
  <1>1. CASE BeginCheck \/ BeginPrune \/ BeginCompact \/ BeginDelete \/ BeginPrune2 \/ BeginDelete2
    BY <1>1, StartsRowStep
    DEF BeginCheck, BeginPrune, BeginCompact, BeginDelete, BeginPrune2, BeginDelete2, Kinds, Polling
  <1>2. CASE BeginCheck2 \/ BeginCompact2
    BY <1>2, FindsRowStep DEF BeginCheck2, BeginCompact2, Kinds, Polling
  <1>3. CASE BeginRestore \/ BeginRestoreSsh \/ BeginRemote \/ BeginPackage
    BY <1>3, StartsRestoreStep, BeginRestoreSshStep, BeginRemoteStep, BeginPackageStep
    DEF BeginRestore
  <1> QED
    BY <1>1, <1>2, <1>3 DEF Begin

LEMMA SpawnStep ==
  ASSUME Inv, Spawn
  PROVE  Good
  <1>1. CASE SpawnCheck \/ SpawnCheck2 \/ SpawnCompact \/ SpawnCompact2 \/ SpawnDelete
    BY <1>1, SpawnsAndStoresStep
    DEF SpawnCheck, SpawnCheck2, SpawnCompact, SpawnCompact2, SpawnDelete, Kinds, Polling
  <1>2. CASE SpawnPrune \/ SpawnPrune2 \/ SpawnDelete2
    BY <1>2, SpawnsStep DEF SpawnPrune, SpawnPrune2, SpawnDelete2, Kinds, Polling
  <1>3. CASE SpawnRestore \/ SpawnRestoreSsh \/ SpawnRemote \/ SpawnPackage
    BY <1>3, SpawnsRestoreStep, SpawnRemoteStep, SpawnPackageStep
    DEF SpawnRestore, SpawnRestoreSsh
  <1> QED
    BY <1>1, <1>2, <1>3 DEF Spawn

LEMMA StreamEndsStep ==
  ASSUME Inv, StreamEnds
  PROVE  Good
  BY ReadsStep
  DEF StreamEnds, ReadsCheck, ReadsCheck2, ReadsCompact, ReadsCompact2, ReadsPrune, ReadsRestore,
      ReadsRestoreSsh, ReadsRemote, Kinds, Polling

LEMMA FinishStep ==
  ASSUME Inv, Finish
  PROVE  Good
  <1>1. CASE FinishCheck \/ FinishCheck2 \/ FinishPrune \/ FinishCompact \/ FinishCompact2
    BY <1>1, ReadsRowStep
    DEF FinishCheck, FinishCheck2, FinishPrune, FinishCompact, FinishCompact2, CompactResult,
        Kinds, Polling
  <1> QED
    BY <1>1, FinishPrune2Step, FinishDeleteStep, FinishDelete2Step, FinishRestoreStep,
       FinishRestoreSshStep, FinishRemoteStep, FinishPackageStep, RetryFinalStep DEF Finish

LEMMA Step == Inv /\ [Next]_vars => Good \/ (Inv' /\ UNCHANGED vars)
  <1> SUFFICES ASSUME Inv, [Next]_vars
               PROVE  Good \/ (Inv' /\ UNCHANGED vars)
    OBVIOUS
  <1>1. CASE Next
    BY <1>1, SubmitStep, BeginStep, SpawnStep, HeartbeatStep, StreamEndsStep, FinishStep,
       ProcessExitStep, PackageStep, RequestStep, CrashStep, RecoverStep DEF Next
  <1>2. CASE UNCHANGED vars
    BY <1>2 DEF vars, Inv, Types, Placed, Open, Noticed, Apart
  <1> QED
    BY <1>1, <1>2

\* The invariant of a job's row, task, process and request, for every kind of job, which the
\* theorems below rest on.
THEOREM IndInv == Spec => []Inv
  <1>1. Inv /\ [Next]_vars => Inv'
    BY Step DEF Good
  <1> QED
    BY InitInv, <1>1, PTL DEF Spec

\* Whatever else has written the row of a job, it says completed only if borg succeeded,
\* and completed with warnings only if borg warned.
THEOREM StatusIsHonest == Spec => []HonestStatus
  <1>1. Inv => HonestStatus
    BY DEF Inv, Open, Says, HonestStatus
  <1> QED
    BY IndInv, <1>1, PTL

\* A coroutine that ends while the server runs leaves an ended row, or none, no process and
\* no package being installed, but where the process id or a lock stopped it.
THEOREM LeavesNothingBehind == Spec => WorkerLeavesNothingBehind
  <1>1. Inv /\ [Next]_vars => Leaves \/ UNCHANGED vars
    BY Step DEF Good
  <1> QED
    BY IndInv, <1>1, PTL DEF Spec, WorkerLeavesNothingBehind, Leaves

\* An ended row changes only by a cancellation that was already waiting, by a worker that
\* has not noticed its own, by one that cannot write its log, or by a remote backup that
\* trips over its notification.
THEOREM EndsStand == Spec => EndedStands
  <1>1. Inv /\ [Next]_vars => Stands \/ UNCHANGED vars
    BY Step DEF Good
  <1> QED
    BY IndInv, <1>1, PTL DEF Spec, EndedStands, Stands

\* Whoever is told of an outcome finds it in the row, but for a local restore whose row is
\* deleted or locked.
THEOREM TellsWhatIsWritten == Spec => ToldAsWritten
  <1>1. Inv /\ [Next]_vars => Tellings \/ UNCHANGED vars
    BY Step DEF Good
  <1> QED
    BY IndInv, <1>1, PTL DEF Spec, ToldAsWritten, Tellings
=============================================================================
