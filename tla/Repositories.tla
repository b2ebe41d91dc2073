--------------------------- MODULE Repositories ---------------------------
(***************************************************************************)
(* How repositories are registered, moved and removed (api/repositories.py *)
(* and api/v2/repositories.py).  A request checks the database, awaits a   *)
(* borg command that creates or opens the repository, and only then writes *)
(* its row; nothing is locked while it waits.  `disk` is what borg finds   *)
(* at each path: NoRepo, or the passphrase the repository was made with.   *)
(***************************************************************************)
EXTENDS Integers, FiniteSets, FiniteSetsExt

CONSTANTS Names, Paths, Secrets, Requests,
          Local,      \* the paths on this host: the others are reached by SSH
          FileOf,     \* the key file a path is given
          NoRow, NoRepo, NoKey, Idle,
          MaxRows, MaxAsked, MaxFaults

ASSUME RepositoriesAssumption ==
    /\ Local \subseteq Paths
    /\ DOMAIN FileOf = Paths
    /\ NoRepo \notin Secrets
    /\ {MaxRows, MaxAsked, MaxFaults} \subseteq Nat

VARIABLES rows,       \* id -> row of the table repositories
          disk,       \* path -> what borg finds there
          keyfiles,   \* the key files in ~/.config/borg/keys
          late,       \* borg init processes nobody waits for any more
          req,        \* request -> where its coroutine is
          asked, faults,
          shared,     \* key files written over one that another needs
          raced       \* paths a rollback or a write to a reused id has spoilt
vars == <<rows, disk, keyfiles, late, req, asked, faults, shared, raced>>

Ids == 1..MaxRows
Files == {FileOf[p] : p \in Paths}
Row == [name: Names, path: Paths, secret: Secrets, v: {1, 2},
        existed: BOOLEAN,      \* registered over what was there
        key: Files \cup {NoKey}]   \* has_keyfile: the file its key was put in
Reply == {"none", "ok", "exists", "failed"}
Request == [op: {"create", "guided", "import", "move"},
            at: {"init", "again", "verify", "back"}, res: Reply,
            row: Row, id: Ids \cup {0}, seen: Row \cup {NoRow}]

TypeOK ==
    /\ rows \in [Ids -> Row \cup {NoRow}]
    /\ disk \in [Paths -> Secrets \cup {NoRepo}]
    /\ keyfiles \subseteq Files
    /\ late \subseteq Paths \X Secrets
    /\ req \in [Requests -> Request \cup {Idle}]
    /\ asked \in 0..MaxAsked /\ faults \in 0..MaxFaults
    /\ shared \subseteq Files /\ raced \subseteq Paths

Init ==
    /\ rows = [i \in Ids |-> NoRow]
    /\ disk \in [Paths -> Secrets \cup {NoRepo}]
    /\ keyfiles = {} /\ late = {} /\ shared = {} /\ raced = {}
    /\ req = [r \in Requests |-> Idle]
    /\ asked = 0 /\ faults = 0

Registered == {i \in Ids : rows[i] # NoRow}
NameFree(n, i) == \A j \in Registered \ {i} : rows[j].name # n
PathFree(p, i) == \A j \in Registered \ {i} : rows[j].path # p
NewId == Max({0} \cup Registered) + 1
Full == NewId > MaxRows

Busy(r) == req[r] # Idle
Ask(r) == ~Busy(r) /\ asked < MaxAsked /\ asked' = asked + 1
Goto(r, at, res) == req' = [req EXCEPT ![r].at = at, ![r].res = res]
Ends(r) == req' = [req EXCEPT ![r] = Idle]
Fails == faults < MaxFaults /\ faults' = faults + 1
Works == faults' = faults

(***************************************************************************)
(* Requests.                                                               *)
(***************************************************************************)
NewRow(n, p, s, v, k) ==
    [name |-> n, path |-> p, secret |-> s, v |-> v, existed |-> FALSE,
     key |-> IF k THEN FileOf[p] ELSE NoKey]

Waits(r, op, at, row, i, seen) ==
    req' = [req EXCEPT ![r] = [op |-> op, at |-> at, res |-> "none",
                               row |-> row, id |-> i, seen |-> seen]]

\* A repository is created: name and path must be free, and borg is started.
AskCreate(r, n, p, s, v) ==
    /\ Ask(r) /\ NameFree(n, 0) /\ PathFree(p, 0)
    /\ Waits(r, "create", "init", NewRow(n, p, s, v, FALSE), 0, NoRow)
    /\ UNCHANGED <<rows, disk, keyfiles, faults, shared, raced, late>>

\* The guided set-up refuses a local path that holds anything, then creates.
AskGuided(r, n, p, s, v) ==
    /\ Ask(r)
    /\ p \in Local => disk[p] = NoRepo
    /\ NameFree(n, 0) /\ PathFree(p, 0)
    /\ Waits(r, "guided", "init", NewRow(n, p, s, v, FALSE), 0, NoRow)
    /\ UNCHANGED <<rows, disk, keyfiles, faults, shared, raced, late>>

\* The key is in the file of a row, or in one that an import has written.
NeededBy(f) == {i \in Registered : rows[i].key = f}
Imports(q, f) == q # Idle /\ q.op # "move" /\ q.row.key = f

\* A key file is written, whatever is there: the name is made of the path, in
\* which every other character than a letter or a digit becomes "_".
Writes(f, mine) ==
    /\ keyfiles' = keyfiles \cup {f}
    /\ shared' = IF NeededBy(f) \subseteq mine /\ \A r \in Requests : ~Imports(req[r], f)
                 THEN shared \ {f} ELSE shared \cup {f}

\* A repository is imported: a key that came with it is written before borg
\* opens it, so that borg finds it.

AskImport(r, n, p, s, v, k) ==
    /\ Ask(r) /\ NameFree(n, 0) /\ PathFree(p, 0)
    /\ v = 1 /\ p \in Local => disk[p] # NoRepo
    /\ IF k THEN Writes(FileOf[p], {}) ELSE UNCHANGED <<keyfiles, shared>>
    /\ Waits(r, "import", "verify", NewRow(n, p, s, v, k), 0, NoRow)
    /\ UNCHANGED <<rows, disk, faults, raced, late>>

\* A repository is given another path: the row is changed in the session
\* only, and borg looks at the new path.
AskMove(r, i, n, p) ==
    /\ Ask(r) /\ i \in Registered
    /\ NameFree(n, i) /\ PathFree(p, i) /\ p # rows[i].path
    /\ Waits(r, "move", "verify",
             [rows[i] EXCEPT !.name = n, !.path = p], i, rows[i])
    /\ UNCHANGED <<rows, disk, keyfiles, faults, shared, raced, late>>

\* A new name alone is written at once.
Rename(i, n) ==
    /\ asked < MaxAsked /\ asked' = asked + 1
    /\ i \in Registered /\ NameFree(n, i) /\ n # rows[i].name
    /\ rows' = [rows EXCEPT ![i].name = n]
    /\ UNCHANGED <<disk, keyfiles, req, faults, shared, raced, late>>

\* A key file is uploaded for a registered repository.
UploadKey(i) ==
    /\ asked < MaxAsked /\ asked' = asked + 1
    /\ i \in Registered
    /\ Writes(FileOf[rows[i].path], {i})
    /\ \/ rows' = [rows EXCEPT ![i].key = FileOf[rows[i].path]] /\ Works
       \/ UNCHANGED rows /\ Fails
    /\ UNCHANGED <<disk, req, raced, late>>

\* The row goes; the repository and its key file stay where they are.
Delete(i) ==
    /\ asked < MaxAsked /\ asked' = asked + 1
    /\ i \in Registered
    /\ rows' = [rows EXCEPT ![i] = NoRow]
    /\ UNCHANGED <<disk, keyfiles, req, faults, shared, raced, late>>

(***************************************************************************)
(* Borg runs.  It may fail for any reason, and have made the repository    *)
(* all the same.  When its time is over borg init is not killed: it goes   *)
(* on with nobody waiting.  For Borg 2 every error (return code 2) is      *)
(* taken for a repository that is there.                                   *)
(***************************************************************************)
InitReply(q) ==
    IF disk[q.row.path] # NoRepo THEN {"exists", "failed"}
    ELSE {"ok", "failed"} \cup (IF q.row.v = 2 THEN {"exists"} ELSE {})

Made(p, s) == IF disk[p] = NoRepo THEN [disk EXCEPT ![p] = s] ELSE disk

Makes(q, res) ==
    disk' \in (IF res # "ok" THEN {disk} ELSE {})
              \cup (IF res # "exists" THEN {Made(q.row.path, q.row.secret)} ELSE {})

\* borg init answers, or is no longer waited for.
Inits(r, res) ==
    \/ /\ res \in InitReply(req[r])
       /\ Makes(req[r], res) /\ Works
       /\ UNCHANGED late
    \/ /\ res = "failed"
       /\ late' = late \cup {<<req[r].row.path, req[r].row.secret>>} /\ Fails
       /\ UNCHANGED disk

LateInit(p, s) ==
    /\ <<p, s>> \in late
    /\ late' = late \ {<<p, s>>}
    /\ disk' = Made(p, s)
    /\ UNCHANGED <<rows, keyfiles, req, asked, faults, shared, raced>>

\* borg init for a repository that is being created.
Creates(r) ==
    /\ Busy(r) /\ req[r].op \in {"create", "guided"} /\ req[r].at = "init"
    /\ \E res \in Reply : Inits(r, res) /\ Goto(r, "back", res)
    /\ UNCHANGED <<rows, keyfiles, asked, shared, raced>>

\* borg info succeeds only where the repository opens with the passphrase.
Opens(q) == disk[q.row.path] = q.row.secret

Verifies(r) ==
    /\ Busy(r) /\ req[r].at = "verify"
    /\ \/ Opens(req[r]) /\ Goto(r, "back", "ok")
       \/ Goto(r, IF req[r].op = "move" THEN "init" ELSE "back", "failed")
    /\ UNCHANGED <<rows, disk, keyfiles, asked, faults, shared, raced, late>>

\* A move initialises a path that borg could not open; the failure it raises
\* is caught by its own handler, which tries once more.
Initialises(r) ==
    /\ Busy(r) /\ req[r].op = "move" /\ req[r].at \in {"init", "again"}
    /\ \E res \in Reply :
          /\ Inits(r, res)
          /\ IF res = "ok" THEN Goto(r, "back", "ok")
             ELSE Goto(r, IF req[r].at = "init" THEN "again" ELSE "back", "failed")
    /\ UNCHANGED <<rows, keyfiles, asked, shared, raced>>

(***************************************************************************)
(* The coroutine goes on.  Names and paths are unique in the table: what   *)
(* another request took meanwhile makes the commit fail.                   *)
(***************************************************************************)
Back(r, ops) == Busy(r) /\ req[r].op \in ops /\ req[r].at = "back"
Taken(r, i) == ~(NameFree(req[r].row.name, i) /\ PathFree(req[r].row.path, i))
\* Mutant: what borg answered is not looked at.
AnyReply(res) == res # "none"
Accepted(res) == res \in {"ok", "exists"}

Inserted(r, i) ==
    [rows EXCEPT ![i] = [req[r].row EXCEPT !.existed = req[r].res = "exists"]]

\* Mutant: the key file is removed whether or not it was written.
RefusedTakesKey(r) ==
    /\ Back(r, {"create", "guided", "import"})
    /\ ~Accepted(req[r].res)
    /\ keyfiles' = keyfiles \ {FileOf[req[r].row.path]}
    /\ Ends(r)
    /\ UNCHANGED <<rows, disk, asked, faults, shared, raced, late>>

\* Nothing is registered, and a key file that was written is removed.
CreateRefused(r) ==
    /\ Back(r, {"create", "guided", "import"})
    /\ ~Accepted(req[r].res)
    /\ keyfiles' = keyfiles \ {req[r].row.key}
    /\ Ends(r)
    /\ UNCHANGED <<rows, disk, asked, faults, shared, raced, late>>

NotInserted(r) ==
    /\ Back(r, {"create", "guided", "import"})
    /\ Accepted(req[r].res)
    /\ \/ Taken(r, 0) /\ Works
       \/ ~Taken(r, 0) /\ Fails
    /\ Ends(r)
    /\ UNCHANGED <<rows, disk, keyfiles, asked, shared, raced, late>>

\* The row is written, and that it has a key by a second commit.
Insert(r) ==
    /\ Back(r, {"create", "import"})
    /\ Accepted(req[r].res) /\ ~Taken(r, 0) /\ ~Full
    /\ \/ rows' = Inserted(r, NewId) /\ Works
       \/ /\ req[r].row.key # NoKey /\ Fails
          /\ rows' = [Inserted(r, NewId) EXCEPT ![NewId].key = NoKey]
    /\ Ends(r)
    /\ UNCHANGED <<disk, keyfiles, asked, shared, raced, late>>

\* The guided set-up goes on to the schedule.  When that is refused it takes
\* back what it did: the local directory first, then the row.
GuidedReady(r) ==
    /\ Back(r, {"guided"})
    /\ Accepted(req[r].res) /\ ~Taken(r, 0) /\ ~Full
    /\ rows' = Inserted(r, NewId)
    /\ Ends(r)
    /\ UNCHANGED <<disk, keyfiles, asked, faults, shared, raced, late>>

Others(r, p) == {o \in Requests \ {r} : Busy(o) /\ req[o].row.path = p}

GuidedRolledBack(r) ==
    LET p == req[r].row.path IN
    /\ Back(r, {"guided"})
    /\ Accepted(req[r].res) /\ ~Taken(r, 0) /\ ~Full
    /\ disk' = IF p \in Local THEN [disk EXCEPT ![p] = NoRepo] ELSE disk
    /\ \/ UNCHANGED <<rows, raced>> /\ Works /\ Others(r, p) = {}
       \/ UNCHANGED rows /\ Works /\ Others(r, p) # {} /\ raced' = raced \cup {p}
       \/ rows' = Inserted(r, NewId) /\ Fails /\ raced' = raced \cup {p}
    /\ Ends(r)
    /\ UNCHANGED <<keyfiles, asked, shared, late>>

\* The move is committed.  A row that was deleted makes the commit fail; one
\* that took its id meanwhile is written over.
MoveRefused(r) ==
    /\ Back(r, {"move"})
    /\ \/ ~Accepted(req[r].res) /\ Works
       \/ Accepted(req[r].res) /\ (Taken(r, req[r].id) \/ rows[req[r].id] = NoRow) /\ Works
       \/ Accepted(req[r].res) /\ Fails
    /\ Ends(r)
    /\ UNCHANGED <<rows, disk, keyfiles, asked, shared, raced, late>>

\* What the session did not change is not written.
Written(now, loaded, new) == IF new = loaded THEN now ELSE new

Moved(r) ==
    LET q == req[r] IN
    /\ Back(r, {"move"}) /\ Accepted(q.res)
    /\ rows[q.id] # NoRow /\ ~Taken(r, q.id)
    /\ rows' = [rows EXCEPT ![q.id].name = Written(@, q.seen.name, q.row.name),
                            ![q.id].path = q.row.path,
                            ![q.id].existed = FALSE]
    /\ raced' = IF rows[q.id].secret = q.seen.secret THEN raced
                ELSE raced \cup {q.row.path}
    /\ Ends(r)
    /\ UNCHANGED <<disk, keyfiles, asked, faults, shared, late>>

\* The server stops: requests and processes are gone, what they wrote stays.
Restart ==
    /\ \E r \in Requests : Busy(r)
    /\ Fails
    /\ req' = [r \in Requests |-> Idle] /\ late' = {}
    /\ UNCHANGED <<rows, disk, keyfiles, asked, shared, raced>>

Next ==
    \/ \E r \in Requests, n \in Names, p \in Paths, s \in Secrets, v \in {1, 2} :
          \/ AskCreate(r, n, p, s, v)
          \/ AskGuided(r, n, p, s, v)
          \/ \E k \in BOOLEAN : AskImport(r, n, p, s, v, k)
    \/ \E i \in Ids :
          \/ UploadKey(i) \/ Delete(i)
          \/ \E n \in Names : Rename(i, n)
          \/ \E r \in Requests, n \in Names, p \in Paths : AskMove(r, i, n, p)
    \/ \E r \in Requests :
          \/ Creates(r) \/ Verifies(r) \/ Initialises(r)
          \/ CreateRefused(r) \/ NotInserted(r) \/ Insert(r)
          \/ GuidedReady(r) \/ GuidedRolledBack(r)
          \/ MoveRefused(r) \/ Moved(r)
    \/ \E p \in Paths, s \in Secrets : LateInit(p, s)
    \/ Restart

Spec == Init /\ [][Next]_vars

-----------------------------------------------------------------------------
(***************************************************************************)
(* Safety.                                                                 *)
(***************************************************************************)
\* A repository that was created, imported or moved is on disk and opens
\* with the passphrase in its row: a row is never written for a command that
\* failed, whatever other requests did meanwhile.  Left out are rows taken
\* over from what create found there (the passphrase was not tried) and the
\* paths a rollback of the guided set-up, or a write to a reused id, spoilt.
RegisteredOpens ==
    \A i \in Registered :
       \/ rows[i].existed \/ rows[i].path \in raced
       \/ disk[rows[i].path] = rows[i].secret

\* A repository that was given a key keeps the file, as it was given: an
\* import that is refused takes away only what it wrote (repositories.py:1367,
\* "Clean up keyfile we wrote").  The code breaks this for files that are
\* shared, and for those only: an import or an upload wrote over a key that
\* another row, or another import under way, needs, and nobody wrote it afresh.
KeyfileKept ==
    \A i \in Registered : rows[i].key \in keyfiles \cup shared \cup {NoKey}
===========================================================================
