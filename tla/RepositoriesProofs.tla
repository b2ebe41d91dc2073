------------------------- MODULE RepositoriesProofs -------------------------
(***************************************************************************)
(* For every set of names, paths, passphrases and requests: what is        *)
(* registered opens, and its key file is kept.                             *)
(***************************************************************************)
EXTENDS Repositories, CheckScheduler, TLAPS, FiniteSetTheorems

\* A request that came back with "ok" has found, or made, what it will register.
AnswersAreTrue ==
    \A r \in Requests : Busy(r) =>
       /\ req[r].op = "move" => req[r].row.secret = req[r].seen.secret
       /\ req[r].op \in {"import", "move"} => req[r].res # "exists"
       /\ req[r].res = "ok" =>
             \/ req[r].row.path \in raced
             \/ disk[req[r].row.path] = req[r].row.secret

\* A file that an import wrote is there, and nobody else's unless it is shared.
ImportsKeepKeys ==
    \A r \in Requests, f \in Files : Imports(req[r], f) /\ f # NoKey =>
       /\ f \in keyfiles \cup shared
       /\ \A i \in Registered : rows[i].key = f => f \in shared
       /\ \A o \in Requests \ {r} : Imports(req[o], f) => f \in shared

-----------------------------------------------------------------------------
(* Types. *)

LEMMA BoundsAreNumbers == MaxRows \in Nat /\ MaxAsked \in Nat /\ MaxFaults \in Nat
  BY RepositoriesAssumption

LEMMA NewRowType ==
  ASSUME NEW n \in Names, NEW p \in Paths, NEW s \in Secrets, NEW v \in {1, 2},
         NEW k \in BOOLEAN
  PROVE  NewRow(n, p, s, v, k) \in Row
  BY DEF NewRow, Row, Files

LEMMA MadeType ==
  ASSUME TypeOK, NEW p \in Paths, NEW s \in Secrets
  PROVE  Made(p, s) \in [Paths -> Secrets \cup {NoRepo}]
  BY DEF TypeOK, Made

LEMMA InitType == Init => TypeOK
  BY RepositoriesAssumption DEF Init, TypeOK

\* What a coroutine that goes on has of its request.
LEMMA BusyType ==
  ASSUME TypeOK, NEW r \in Requests, Busy(r)
  PROVE  /\ req[r] \in Request
         /\ req[r].row \in Row /\ req[r].row.path \in Paths
         /\ req[r].row.secret \in Secrets /\ req[r].row.key \in Files \cup {NoKey}
  BY DEF TypeOK, Busy, Request, Row

LEMMA InsertedType ==
  ASSUME TypeOK, NEW r \in Requests, Busy(r), NEW i
  PROVE  /\ Inserted(r, i) \in [Ids -> Row \cup {NoRow}]
         /\ [Inserted(r, i) EXCEPT ![i].key = NoKey] \in [Ids -> Row \cup {NoRow}]
  <1>1. [req[r].row EXCEPT !.existed = req[r].res = "exists"] \in Row
    BY BusyType DEF Row
  <1>2. Inserted(r, i) \in [Ids -> Row \cup {NoRow}]
    BY <1>1 DEF TypeOK, Inserted
  <1>3. i \in Ids => Inserted(r, i)[i] \in Row
    BY <1>1 DEF TypeOK, Inserted
  <1> QED
    BY <1>2, <1>3 DEF Row

LEMMA StepType == TypeOK /\ [Next]_vars => TypeOK'
  <1> SUFFICES ASSUME TypeOK, [Next]_vars
               PROVE  TypeOK'
    OBVIOUS
  <1> USE RepositoriesAssumption, BoundsAreNumbers
  <1>1. ASSUME NEW r \in Requests, NEW n \in Names, NEW p \in Paths, NEW s \in Secrets,
               NEW v \in {1, 2},
               \/ AskCreate(r, n, p, s, v)
               \/ AskGuided(r, n, p, s, v)
               \/ \E k \in BOOLEAN : AskImport(r, n, p, s, v, k)
        PROVE  TypeOK'
    <2>0. Ask(r)
      BY <1>1 DEF AskCreate, AskGuided, AskImport
    <2>1. asked' \in 0 .. MaxAsked
      BY <2>0 DEF Ask, TypeOK
    <2>2. req' \in [Requests -> Request \cup {Idle}]
      <3>1. PICK op \in {"create", "guided", "import"}, at \in {"init", "verify"}, k \in BOOLEAN :
              Waits(r, op, at, NewRow(n, p, s, v, k), 0, NoRow)
        BY <1>1 DEF AskCreate, AskGuided, AskImport
      <3>2. NewRow(n, p, s, v, k) \in Row
        BY NewRowType
      <3> QED
        BY <3>1, <3>2 DEF Waits, TypeOK, Request, Reply
    <2>3. keyfiles' \subseteq Files /\ shared' \subseteq Files
      <3>1. \/ Writes(FileOf[p], {})
            \/ UNCHANGED <<keyfiles, shared>>
        BY <1>1 DEF AskCreate, AskGuided, AskImport
      <3>2. FileOf[p] \in Files
        BY DEF Files
      <3> QED
        BY <3>1, <3>2 DEF Writes, TypeOK
    <2>4. UNCHANGED <<rows, disk, faults, raced, late>>
      BY <1>1 DEF AskCreate, AskGuided, AskImport
    <2> QED
      BY <2>1, <2>2, <2>3, <2>4 DEF TypeOK
  <1>2. ASSUME NEW i \in Ids, UploadKey(i)
        PROVE  TypeOK'
    <2>1. rows[i] \in Row
      BY <1>2 DEF UploadKey, Registered, TypeOK
    <2>2. rows' \in [Ids -> Row \cup {NoRow}]
      BY <1>2, <2>1 DEF UploadKey, TypeOK, Row, Files
    <2>3. FileOf[rows[i].path] \in Files
      BY <2>1 DEF Row, Files
    <2> QED
      BY <1>2, <2>2, <2>3 DEF UploadKey, Writes, Works, Fails, TypeOK
  <1>3. ASSUME NEW i \in Ids, Delete(i)
        PROVE  TypeOK'
    BY <1>3 DEF Delete, TypeOK
  <1>4. ASSUME NEW i \in Ids, NEW n \in Names, Rename(i, n)
        PROVE  TypeOK'
    BY <1>4 DEF Rename, Registered, TypeOK, Row
  <1>5. ASSUME NEW i \in Ids, NEW r \in Requests, NEW n \in Names, NEW p \in Paths,
               AskMove(r, i, n, p)
        PROVE  TypeOK'
    <2>1. rows[i] \in Row
      BY <1>5 DEF AskMove, Registered, TypeOK
    <2>2. [rows[i] EXCEPT !.name = n, !.path = p] \in Row
      BY <2>1 DEF Row
    <2>3. req' \in [Requests -> Request \cup {Idle}]
      BY <1>5, <2>1, <2>2 DEF AskMove, Waits, TypeOK, Request, Reply
    <2> QED
      BY <1>5, <2>3 DEF AskMove, Ask, TypeOK
  <1>6. ASSUME NEW r \in Requests, Creates(r) \/ Initialises(r)
        PROVE  TypeOK'
    <2>1. /\ req[r] \in Request /\ <<req[r].row.path, req[r].row.secret>> \in Paths \X Secrets
          /\ Made(req[r].row.path, req[r].row.secret) \in [Paths -> Secrets \cup {NoRepo}]
      BY <1>6, BusyType, MadeType DEF Creates, Initialises
    <2>2. PICK res \in Reply : Inits(r, res)
      BY <1>6 DEF Creates, Initialises
    <2>3. /\ disk' \in [Paths -> Secrets \cup {NoRepo}]
          /\ late' \subseteq Paths \X Secrets
          /\ faults' \in 0 .. MaxFaults
      BY <2>1, <2>2 DEF Inits, Makes, Works, Fails, TypeOK
    <2>4. req' \in [Requests -> Request \cup {Idle}]
      BY <1>6, <2>1 DEF Creates, Initialises, Goto, TypeOK, Request, Reply
    <2> QED
      BY <1>6, <2>3, <2>4 DEF Creates, Initialises, TypeOK
  <1>7. ASSUME NEW r \in Requests, Verifies(r)
        PROVE  TypeOK'
    BY <1>7, BusyType DEF Verifies, Goto, TypeOK, Request, Reply
  <1>8. ASSUME NEW r \in Requests, CreateRefused(r) \/ NotInserted(r) \/ MoveRefused(r)
        PROVE  TypeOK'
    BY <1>8 DEF CreateRefused, NotInserted, MoveRefused, Ends, Works, Fails, TypeOK
  <1>9. ASSUME NEW r \in Requests, Insert(r) \/ GuidedReady(r) \/ GuidedRolledBack(r)
        PROVE  TypeOK'
    <2>1. Busy(r)
      BY <1>9 DEF Insert, GuidedReady, GuidedRolledBack, Back
    <2>2. rows' \in [Ids -> Row \cup {NoRow}]
      <3>1. \/ rows' = Inserted(r, NewId)
            \/ rows' = [Inserted(r, NewId) EXCEPT ![NewId].key = NoKey]
            \/ rows' = rows
        BY <1>9 DEF Insert, GuidedReady, GuidedRolledBack
      <3>2. /\ Inserted(r, NewId) \in [Ids -> Row \cup {NoRow}]
            /\ [Inserted(r, NewId) EXCEPT ![NewId].key = NoKey] \in [Ids -> Row \cup {NoRow}]
        BY <2>1, InsertedType
      <3>3. rows \in [Ids -> Row \cup {NoRow}]
        BY DEF TypeOK
      <3> QED
        BY ONLY <3>1, <3>2, <3>3
    <2>3. req[r].row.path \in Paths
      BY <2>1, BusyType
    <2> QED
      BY <1>9, <2>2, <2>3
      DEF Insert, GuidedReady, GuidedRolledBack, Ends, Works, Fails, TypeOK
  <1>10. ASSUME NEW r \in Requests, Moved(r)
         PROVE  TypeOK'
    <2>1. Busy(r)
      BY <1>10 DEF Moved, Back
    <2>2. req[r].row \in Row /\ req[r].row.path \in Paths /\ req[r].row.name \in Names
      BY <2>1, BusyType DEF Row
    <2>3. rows' \in [Ids -> Row \cup {NoRow}]
      <3> DEFINE i == req[r].id
                 q == req[r]
                 new == [rows[i] EXCEPT !.name = Written(@, q.seen.name, q.row.name),
                                        !.path = q.row.path, !.existed = FALSE]
      <3>1. i \in Ids => new \in Row
        <4>1. i \in Ids => rows[i] \in Row
          BY <1>10 DEF Moved, TypeOK
        <4> QED
          BY <2>2, <4>1 DEF Row, Written
      <3>2. rows' = [rows EXCEPT ![i] = new]
        BY <1>10 DEF Moved, TypeOK
      <3> QED
        BY <3>1, <3>2 DEF TypeOK
    <2> QED
      BY <1>10, <2>2, <2>3 DEF Moved, Ends, TypeOK
  <1>11. ASSUME NEW p \in Paths, NEW s \in Secrets, LateInit(p, s)
         PROVE  TypeOK'
    BY <1>11, MadeType DEF LateInit, TypeOK
  <1>12. CASE Restart
    BY <1>12 DEF Restart, Fails, TypeOK
  <1>13. CASE UNCHANGED vars
    BY <1>13 DEF vars, TypeOK
  <1> QED
    BY <1>1, <1>2, <1>3, <1>4, <1>5, <1>6, <1>7, <1>8, <1>9, <1>10, <1>11, <1>12, <1>13
    DEF Next

-----------------------------------------------------------------------------
(* What is registered opens. *)

Opening(row, found, spoilt) == row.path \in spoilt \/ found[row.path] = row.secret

\* No repository is lost but at paths that are given up as raced.
DiskKept ==
    /\ raced \subseteq raced'
    /\ \A p \in Paths : disk[p] \in Secrets => disk'[p] = disk[p] \/ p \in raced'

LEMMA OpeningKept ==
  ASSUME DiskKept, NEW row \in Row, Opening(row, disk, raced)
  PROVE  Opening(row, disk', raced')
  BY DEF DiskKept, Opening, Row

LEMMA MadeKeeps ==
  ASSUME TypeOK, NEW p \in Paths, NEW s \in Secrets
  PROVE  /\ \A o \in Paths : disk[o] \in Secrets => Made(p, s)[o] = disk[o]
         /\ disk[p] = NoRepo => Made(p, s)[p] = s
  BY RepositoriesAssumption DEF TypeOK, Made

\* borg init answers "ok" only if it has made the repository.
LEMMA InitsKeeps ==
  ASSUME TypeOK, NEW r \in Requests, Busy(r), NEW res \in Reply, Inits(r, res),
         raced' = raced
  PROVE  /\ DiskKept
         /\ res = "ok" => disk'[req[r].row.path] = req[r].row.secret
  <1> DEFINE p == req[r].row.path
             s == req[r].row.secret
  <1>1. p \in Paths /\ s \in Secrets
    BY BusyType
  <1>2. disk' = disk \/ disk' = Made(p, s)
    BY DEF Inits, Makes
  <1>3. /\ \A o \in Paths : disk[o] \in Secrets => Made(p, s)[o] = disk[o]
        /\ disk[p] = NoRepo => Made(p, s)[p] = s
    BY <1>1, MadeKeeps
  <1>4. ASSUME res = "ok"
        PROVE  disk[p] = NoRepo /\ disk' = Made(p, s)
    BY <1>4 DEF Inits, Makes, InitReply
  <1> QED
    BY <1>2, <1>3, <1>4 DEF DiskKept

\* Requests that are not at work on the step keep what they know.
AnswerIsTrue(q, found, spoilt) ==
    /\ q.op = "move" => q.row.secret = q.seen.secret
    /\ q.op \in {"import", "move"} => q.res # "exists"
    /\ q.res = "ok" => Opening(q.row, found, spoilt)

LEMMA AnswersUnfolded == AnswersAreTrue <=> \A r \in Requests : Busy(r) => AnswerIsTrue(req[r], disk, raced)
  BY DEF AnswersAreTrue, AnswerIsTrue, Opening

LEMMA AnswersKept ==
  ASSUME TypeOK, AnswersAreTrue, DiskKept, NEW r \in Requests, NEW q,
         req' = [req EXCEPT ![r] = q], q = Idle \/ AnswerIsTrue(q, disk', raced')
  PROVE  AnswersAreTrue'
  <1> SUFFICES ASSUME NEW o \in Requests, Busy(o)'
               PROVE  AnswerIsTrue(req'[o], disk', raced')
    BY DEF AnswersAreTrue, AnswerIsTrue, Opening
  <1>1. CASE o = r
    BY <1>1 DEF Busy, TypeOK
  <1>2. CASE o # r
    <2>1. req'[o] = req[o] /\ Busy(o)
      BY <1>2 DEF Busy, TypeOK
    <2>2. AnswerIsTrue(req[o], disk, raced) /\ req[o].row \in Row
      BY <2>1, AnswersUnfolded, BusyType
    <2> QED
      BY <2>1, <2>2, OpeningKept DEF AnswerIsTrue
  <1> QED
    BY <1>1, <1>2

LEMMA RowsKept ==
  ASSUME TypeOK, RegisteredOpens, DiskKept, NEW i \in Ids, rows'[i] = rows[i],
         i \in Registered'
  PROVE  rows'[i].existed \/ Opening(rows'[i], disk', raced')
  <1>1. rows[i] \in Row /\ i \in Registered
    BY DEF Registered, TypeOK
  <1> QED
    BY <1>1, OpeningKept DEF RegisteredOpens, Opening

OpensInv == AnswersAreTrue /\ RegisteredOpens

LEMMA OpensUnfolded ==
  RegisteredOpens <=> \A i \in Registered : rows[i].existed \/ Opening(rows[i], disk, raced)
  BY DEF RegisteredOpens, Opening

\* A step that keeps the rows, or writes one that opens, and keeps the answers.
LEMMA RegisteredKept ==
  ASSUME TypeOK, RegisteredOpens, DiskKept, NEW j,
         \A i \in Ids \ {j} : rows'[i] = rows[i],
         j \in Registered' => rows'[j].existed \/ Opening(rows'[j], disk', raced')
  PROVE  RegisteredOpens'
  BY RowsKept DEF RegisteredOpens, Opening, Registered

LEMMA RegisteredUnchanged ==
  ASSUME TypeOK, RegisteredOpens, DiskKept, rows' = rows
  PROVE  RegisteredOpens'
  BY RowsKept DEF RegisteredOpens, Opening, Registered

LEMMA InsertedOpens ==
  ASSUME TypeOK, AnswersAreTrue, DiskKept, NEW r \in Requests, Busy(r),
         Accepted(req[r].res), NEW i, rows' = Inserted(r, i), i \in Registered'
  PROVE  rows'[i].existed \/ Opening(rows'[i], disk', raced')
  <1>1. req[r].row \in Row /\ AnswerIsTrue(req[r], disk, raced)
    BY BusyType, AnswersUnfolded
  <1>2. i \in Ids
    BY DEF Registered
  <1>3. rows'[i] = [req[r].row EXCEPT !.existed = req[r].res = "exists"]
    BY <1>2 DEF Inserted, TypeOK
  <1>4. /\ rows'[i].existed = (req[r].res = "exists")
        /\ rows'[i].path = req[r].row.path /\ rows'[i].secret = req[r].row.secret
    BY <1>1, <1>3 DEF Row
  <1>5. CASE req[r].res = "ok"
    BY <1>1, <1>4, <1>5, OpeningKept DEF AnswerIsTrue, Opening
  <1>6. CASE req[r].res = "exists"
    BY <1>4, <1>6
  <1> QED
    BY <1>5, <1>6 DEF Accepted

LEMMA OpensStep ==
  ASSUME TypeOK, OpensInv, [Next]_vars
  PROVE  OpensInv'
  <1> USE DEF OpensInv
  <1>1. ASSUME NEW r \in Requests, NEW n \in Names, NEW p \in Paths, NEW s \in Secrets,
               NEW v \in {1, 2},
               \/ AskCreate(r, n, p, s, v)
               \/ AskGuided(r, n, p, s, v)
               \/ \E k \in BOOLEAN : AskImport(r, n, p, s, v, k)
        PROVE  OpensInv'
    <2>1. DiskKept /\ rows' = rows
      BY <1>1 DEF AskCreate, AskGuided, AskImport, DiskKept
    <2>2. PICK op \in {"create", "guided", "import"}, at \in {"init", "verify"}, k \in BOOLEAN :
            Waits(r, op, at, NewRow(n, p, s, v, k), 0, NoRow)
      BY <1>1 DEF AskCreate, AskGuided, AskImport
    <2> DEFINE q == [op |-> op, at |-> at, res |-> "none",
                     row |-> NewRow(n, p, s, v, k), id |-> 0, seen |-> NoRow]
    <2>3. AnswerIsTrue(q, disk', raced')
      BY DEF AnswerIsTrue
    <2>4. AnswersAreTrue'
      BY <2>1, <2>2, <2>3, AnswersKept DEF Waits
    <2> QED
      BY <2>1, <2>4, RegisteredUnchanged
  <1>2. ASSUME NEW i \in Ids, NEW r \in Requests, NEW n \in Names, NEW p \in Paths,
               AskMove(r, i, n, p)
        PROVE  OpensInv'
    <2>1. DiskKept /\ rows' = rows /\ rows[i] \in Row
      BY <1>2 DEF AskMove, DiskKept, Registered, TypeOK
    <2> DEFINE row == [rows[i] EXCEPT !.name = n, !.path = p]
               q == [op |-> "move", at |-> "verify", res |-> "none",
                     row |-> row, id |-> i, seen |-> rows[i]]
    <2>2. row.secret = rows[i].secret
      BY <2>1 DEF Row
    <2>3. AnswerIsTrue(q, disk', raced')
      BY <2>1, <2>2 DEF AnswerIsTrue
    <2>4. AnswersAreTrue'
      BY <1>2, <2>1, <2>3, AnswersKept DEF AskMove, Waits
    <2> QED
      BY <2>1, <2>4, RegisteredUnchanged
  <1>3. ASSUME NEW i \in Ids, \/ UploadKey(i) \/ Delete(i)
                              \/ \E n \in Names : Rename(i, n)
        PROVE  OpensInv'
    <2>1. DiskKept /\ req' = req /\ raced' = raced /\ disk' = disk
      BY <1>3 DEF UploadKey, Delete, Rename, DiskKept
    <2>2. AnswersAreTrue'
      BY <2>1 DEF AnswersAreTrue, Busy
    <2>3. /\ \A j \in Ids \ {i} : rows'[j] = rows[j]
          /\ i \in Registered
          /\ i \in Registered' => /\ rows'[i].existed = rows[i].existed
                                 /\ rows'[i].path = rows[i].path
                                 /\ rows'[i].secret = rows[i].secret
      BY <1>3 DEF UploadKey, Delete, Rename, Registered, TypeOK, Row
    <2>4. i \in Registered' => rows'[i].existed \/ Opening(rows'[i], disk', raced')
      BY <2>1, <2>3 DEF RegisteredOpens, Opening
    <2> QED
      BY <2>1, <2>2, <2>3, <2>4, RegisteredKept
  <1>4. ASSUME NEW r \in Requests, Creates(r)
        PROVE  OpensInv'
    <2>1. PICK res \in Reply : Inits(r, res) /\ Goto(r, "back", res)
      BY <1>4 DEF Creates
    <2>2. Busy(r) /\ rows' = rows /\ raced' = raced
          /\ req[r].op \in {"create", "guided"} /\ req[r] \in Request
      BY <1>4, BusyType DEF Creates
    <2>3. DiskKept /\ (res = "ok" => disk'[req[r].row.path] = req[r].row.secret)
      BY <2>1, <2>2, InitsKeeps
    <2> DEFINE q == [req[r] EXCEPT !.at = "back", !.res = res]
    <2>4. q.op = req[r].op /\ q.res = res /\ q.row = req[r].row
      BY <2>2 DEF Request
    <2>5. AnswerIsTrue(q, disk', raced')
      BY <2>2, <2>3, <2>4 DEF AnswerIsTrue, Opening
    <2>6. req' = [req EXCEPT ![r] = q]
      BY <2>1 DEF Goto
    <2>7. AnswersAreTrue'
      BY <2>3, <2>5, <2>6, AnswersKept
    <2> QED
      BY <2>2, <2>3, <2>7, RegisteredUnchanged
  <1>5. ASSUME NEW r \in Requests, Initialises(r)
        PROVE  OpensInv'
    <2>1. PICK res \in Reply, at \in {"again", "back"}, answer \in {"ok", "failed"} :
             Inits(r, res) /\ Goto(r, at, answer) /\ (answer = "ok" => res = "ok")
      BY <1>5 DEF Initialises
    <2>2. Busy(r) /\ rows' = rows /\ raced' = raced /\ req[r] \in Request
      BY <1>5, BusyType DEF Initialises
    <2>3. DiskKept /\ (res = "ok" => disk'[req[r].row.path] = req[r].row.secret)
      BY <2>1, <2>2, InitsKeeps
    <2> DEFINE q == [req[r] EXCEPT !.at = at, !.res = answer]
    <2>4. /\ q.op = req[r].op /\ q.res = answer /\ q.row = req[r].row
          /\ q.seen = req[r].seen
      BY <2>2 DEF Request
    <2>5. AnswerIsTrue(req[r], disk, raced)
      BY <2>2, AnswersUnfolded
    <2>6. AnswerIsTrue(q, disk', raced')
      BY <2>1, <2>3, <2>4, <2>5 DEF AnswerIsTrue, Opening
    <2>7. req' = [req EXCEPT ![r] = q]
      BY <2>1 DEF Goto
    <2>8. AnswersAreTrue'
      BY <2>3, <2>6, <2>7, AnswersKept
    <2> QED
      BY <2>2, <2>3, <2>8, RegisteredUnchanged
  <1>6. ASSUME NEW r \in Requests, Verifies(r)
        PROVE  OpensInv'
    <2>1. PICK at \in {"init", "back"}, answer \in {"ok", "failed"} :
             Goto(r, at, answer) /\ (answer = "ok" => Opens(req[r]))
      BY <1>6 DEF Verifies
    <2>2. Busy(r) /\ rows' = rows /\ DiskKept /\ req[r] \in Request /\ disk' = disk
      BY <1>6, BusyType DEF Verifies, DiskKept
    <2> DEFINE q == [req[r] EXCEPT !.at = at, !.res = answer]
    <2>4. /\ q.op = req[r].op /\ q.res = answer /\ q.row = req[r].row
          /\ q.seen = req[r].seen
      BY <2>2 DEF Request
    <2>5. AnswerIsTrue(req[r], disk, raced)
      BY <2>2, AnswersUnfolded
    <2>6. AnswerIsTrue(q, disk', raced')
      BY <2>1, <2>2, <2>4, <2>5 DEF AnswerIsTrue, Opening, Opens
    <2>7. req' = [req EXCEPT ![r] = q]
      BY <2>1 DEF Goto
    <2>8. AnswersAreTrue'
      BY <2>2, <2>6, <2>7, AnswersKept
    <2> QED
      BY <2>2, <2>8, RegisteredUnchanged
  <1>7. ASSUME NEW r \in Requests, CreateRefused(r) \/ NotInserted(r) \/ MoveRefused(r)
        PROVE  OpensInv'
    <2>1. DiskKept /\ rows' = rows /\ req' = [req EXCEPT ![r] = Idle]
      BY <1>7 DEF CreateRefused, NotInserted, MoveRefused, Ends, DiskKept
    <2>2. AnswersAreTrue'
      BY <2>1, AnswersKept
    <2> QED
      BY <2>1, <2>2, RegisteredUnchanged
  <1>8. ASSUME NEW r \in Requests, Insert(r) \/ GuidedReady(r)
        PROVE  OpensInv'
    <2>1. /\ DiskKept /\ Busy(r) /\ Accepted(req[r].res)
          /\ req' = [req EXCEPT ![r] = Idle]
      BY <1>8 DEF Insert, GuidedReady, Back, Ends, DiskKept
    <2>2. AnswersAreTrue'
      BY <2>1, AnswersKept
    <2>3. CASE rows' = Inserted(r, NewId)
      <3>1. NewId \in Registered' => rows'[NewId].existed \/ Opening(rows'[NewId], disk', raced')
        BY <2>1, <2>3, InsertedOpens
      <3>2. \A i \in Ids \ {NewId} : rows'[i] = rows[i]
        BY <2>3 DEF Inserted, TypeOK
      <3> QED
        BY <2>1, <2>2, <3>1, <3>2, RegisteredKept
    <2>4. CASE rows' = [Inserted(r, NewId) EXCEPT ![NewId].key = NoKey]
      <3> DEFINE i == NewId
                 row == [req[r].row EXCEPT !.existed = req[r].res = "exists"]
      <3>1. \A j \in Ids \ {i} : rows'[j] = rows[j]
        BY <2>4 DEF Inserted, TypeOK
      <3>2. ASSUME i \in Registered'
            PROVE  rows'[i].existed \/ Opening(rows'[i], disk', raced')
        <4>1. i \in Ids
          BY <3>2 DEF Registered
        <4>2. rows'[i] = [row EXCEPT !.key = NoKey]
          BY <2>4, <4>1 DEF Inserted, TypeOK
        <4>3. req[r].row \in Row /\ AnswerIsTrue(req[r], disk, raced)
          BY <2>1, BusyType, AnswersUnfolded
        <4>4. /\ rows'[i].existed = (req[r].res = "exists")
              /\ rows'[i].path = req[r].row.path /\ rows'[i].secret = req[r].row.secret
          BY <4>2, <4>3 DEF Row
        <4>5. CASE req[r].res = "ok"
          BY <2>1, <4>3, <4>4, <4>5, OpeningKept DEF AnswerIsTrue, Opening
        <4>6. CASE req[r].res = "exists"
          BY <4>4, <4>6
        <4> QED
          BY <2>1, <4>5, <4>6 DEF Accepted
      <3> QED
        BY <2>1, <2>2, <3>1, <3>2, RegisteredKept
    <2> QED
      BY <1>8, <2>3, <2>4 DEF Insert, GuidedReady
  <1>9. ASSUME NEW r \in Requests, Moved(r)
        PROVE  OpensInv'
    <2> DEFINE q == req[r]
               i == q.id
    <2>1. /\ DiskKept /\ Busy(r) /\ disk' = disk /\ raced \subseteq raced'
          /\ q.op = "move" /\ Accepted(q.res)
          /\ req' = [req EXCEPT ![r] = Idle]
      BY <1>9 DEF Moved, Back, Ends, DiskKept
    <2>2. AnswersAreTrue'
      BY <2>1, AnswersKept
    <2>3. AnswerIsTrue(q, disk, raced) /\ q.res = "ok" /\ q.row \in Row
      <3>1. AnswerIsTrue(q, disk, raced) /\ q.row \in Row
        BY <2>1, AnswersUnfolded, BusyType
      <3> QED
        BY <2>1, <3>1 DEF AnswerIsTrue, Accepted
    <2>4. \A j \in Ids \ {i} : rows'[j] = rows[j]
      BY <1>9 DEF Moved, TypeOK
    <2>5. ASSUME i \in Registered'
          PROVE  Opening(rows'[i], disk', raced')
      <3>1. i \in Ids /\ rows[i] \in Row
        BY <1>9, <2>5 DEF Registered, Moved, TypeOK
      <3>2. rows'[i].path = q.row.path /\ rows'[i].secret = rows[i].secret
        BY <1>9, <3>1 DEF Moved, TypeOK, Row
      <3>3. CASE rows[i].secret = q.seen.secret
        BY <2>1, <2>3, <3>2, <3>3 DEF AnswerIsTrue, Opening
      <3>4. CASE rows[i].secret # q.seen.secret
        BY <1>9, <3>2, <3>4 DEF Moved, Opening
      <3> QED
        BY <3>3, <3>4
    <2> QED
      BY <2>1, <2>2, <2>4, <2>5, RegisteredKept
  <1>10. ASSUME NEW p \in Paths, NEW s \in Secrets, LateInit(p, s)
         PROVE  OpensInv'
    <2>1. DiskKept /\ rows' = rows /\ req' = req
      BY <1>10, MadeKeeps DEF LateInit, DiskKept
    <2>2. AnswersAreTrue'
      BY <2>1, AnswersUnfolded, BusyType, OpeningKept
      DEF AnswersAreTrue, AnswerIsTrue, Opening, Busy
    <2> QED
      BY <2>1, <2>2, RegisteredUnchanged
  <1>11. CASE Restart
    <2>1. DiskKept /\ rows' = rows /\ req' = [r \in Requests |-> Idle]
      BY <1>11 DEF Restart, DiskKept
    <2>2. AnswersAreTrue'
      BY <2>1 DEF AnswersAreTrue, Busy
    <2> QED
      BY <2>1, <2>2, RegisteredUnchanged
  <1>12. CASE UNCHANGED vars
    BY <1>12 DEF vars, AnswersAreTrue, RegisteredOpens, Registered, Busy
  <1>13. ASSUME NEW r \in Requests, GuidedRolledBack(r)
         PROVE  OpensInv'
    <2> DEFINE p == req[r].row.path
    <2>1. /\ Busy(r) /\ Accepted(req[r].res) /\ PathFree(p, 0)
          /\ req' = [req EXCEPT ![r] = Idle]
          /\ disk' = IF p \in Local THEN [disk EXCEPT ![p] = NoRepo] ELSE disk
      BY <1>13 DEF GuidedRolledBack, Back, Ends, Taken
    <2>2. CASE raced' = raced \cup {p}
      <3>1. DiskKept
        BY <2>1, <2>2 DEF DiskKept, TypeOK
      <3>2. AnswersAreTrue'
        BY <2>1, <3>1, AnswersKept
      <3>3. CASE rows' = rows
        BY <3>1, <3>2, <3>3, RegisteredUnchanged
      <3>4. CASE rows' = Inserted(r, NewId)
        <4>1. NewId \in Registered' => rows'[NewId].existed \/ Opening(rows'[NewId], disk', raced')
          BY <2>1, <3>1, <3>4, InsertedOpens
        <4>2. \A i \in Ids \ {NewId} : rows'[i] = rows[i]
          BY <3>4 DEF Inserted, TypeOK
        <4> QED
          BY <3>1, <3>2, <4>1, <4>2, RegisteredKept
      <3> QED
        BY <1>13, <3>3, <3>4 DEF GuidedRolledBack
    <2>3. CASE UNCHANGED <<rows, raced>> /\ Others(r, p) = {}
      <3>1. \A o \in Paths \ {p} : disk'[o] = disk[o]
        BY <2>1 DEF TypeOK
      <3>2. ASSUME NEW o \in Requests, Busy(o)'
            PROVE  AnswerIsTrue(req'[o], disk', raced')
        <4>1. o # r /\ req'[o] = req[o] /\ Busy(o)
          BY <2>1, <3>2 DEF Busy, TypeOK
        <4>2. req[o].row \in Row /\ AnswerIsTrue(req[o], disk, raced) /\ req[o].row.path # p
          BY <2>3, <4>1, AnswersUnfolded, BusyType DEF Others
        <4> QED
          BY <2>3, <3>1, <4>1, <4>2 DEF AnswerIsTrue, Opening, Row
      <3>3. AnswersAreTrue'
        BY <3>2 DEF AnswersAreTrue, AnswerIsTrue, Opening
      <3>4. ASSUME NEW i \in Registered'
            PROVE  rows'[i].existed \/ Opening(rows'[i], disk', raced')
        <4>1. i \in Registered /\ rows'[i] = rows[i] /\ rows[i] \in Row
          BY <2>3 DEF Registered, TypeOK
        <4>2. rows[i].path # p
          <5>1. 0 \notin Registered
            BY DEF Registered, Ids
          <5> QED
            BY <2>1, <4>1, <5>1 DEF PathFree
        <4> QED
          BY <2>3, <3>1, <4>1, <4>2 DEF RegisteredOpens, Opening, Row
      <3> QED
        BY <3>3, <3>4 DEF RegisteredOpens, Opening
    <2> QED
      BY <1>13, <2>2, <2>3 DEF GuidedRolledBack
  <1> QED
    BY <1>1, <1>2, <1>3, <1>4, <1>5, <1>6, <1>7, <1>8, <1>9, <1>10, <1>11, <1>12, <1>13
    DEF Next

\* Whatever requests do to each other, a row opens: it is written only by a
\* coroutine whose borg command found or made the repository, and what is on
\* disk under it is taken away only at paths given up as raced.
THEOREM RegistersWhatOpens == Spec => []RegisteredOpens
  <1>1. Init => TypeOK /\ OpensInv
    BY InitType DEF Init, OpensInv, AnswersAreTrue, RegisteredOpens, Registered, Busy
  <1>2. TypeOK /\ OpensInv /\ [Next]_vars => (TypeOK /\ OpensInv)'
    BY StepType, OpensStep
  <1>3. OpensInv => RegisteredOpens
    BY DEF OpensInv
  <1> QED
    BY <1>1, <1>2, <1>3, PTL DEF Spec

\* Every variable keeps its type.
THEOREM TypeCorrect == Spec => []TypeOK
  BY InitType, StepType, PTL DEF Spec

-----------------------------------------------------------------------------
(* Key files. *)

KeysInv == ImportsKeepKeys /\ KeyfileKept

\* A step that takes no file away, and gives none to a row or to a request.
LEMMA KeysUnchanged ==
  ASSUME KeysInv,
         keyfiles \subseteq keyfiles', shared' = shared,
         \A i \in Registered' : i \in Registered /\ rows'[i].key \in {rows[i].key, NoKey},
         \A r \in Requests, f \in Files :
            Imports(req'[r], f) /\ f # NoKey => Imports(req[r], f)
  PROVE  KeysInv'
  BY DEF KeysInv, ImportsKeepKeys, KeyfileKept

\* The same for a step that leaves rows and files alone.
LEMMA FilesUnchanged ==
  ASSUME KeysInv, UNCHANGED <<rows, keyfiles, shared>>,
         \A r \in Requests, f \in Files :
            Imports(req'[r], f) /\ f # NoKey => Imports(req[r], f)
  PROVE  KeysInv'
  BY KeysUnchanged DEF Registered

\* A request that ends, or goes on with the row it had, imports no other file.
LEMMA ImportsOfOthers ==
  ASSUME TypeOK, NEW r \in Requests, NEW q, req' = [req EXCEPT ![r] = q],
         NEW f \in Files, Imports(q, f) /\ f # NoKey => Imports(req[r], f)
  PROVE  \A o \in Requests : Imports(req'[o], f) /\ f # NoKey => Imports(req[o], f)
  BY DEF TypeOK

\* A file is written: nobody else needs it, or it is shared.
LEMMA WrittenKept ==
  ASSUME NEW g, NEW mine, Writes(g, mine)
  PROVE  /\ g \in keyfiles' /\ keyfiles \subseteq keyfiles'
         /\ \A f : f # g => (f \in shared <=> f \in shared')
         /\ \A i \in Registered \ mine : rows[i].key = g => g \in shared'
         /\ \A o \in Requests : Imports(req[o], g) => g \in shared'
  BY DEF Writes, NeededBy

\* The file a request has written becomes its row's.
LEMMA InsertedKeeps ==
  ASSUME TypeOK, KeysInv, NEW r \in Requests, Busy(r), req[r].op # "move",
         req' = [req EXCEPT ![r] = Idle], UNCHANGED <<keyfiles, shared>>,
         NEW i, \A j \in Ids \ {i} : rows'[j] = rows[j],
         i \in Registered' => rows'[i].key \in {req[r].row.key, NoKey}
  PROVE  KeysInv'
  <1> DEFINE k == req[r].row.key
  <1>1. k \in Files \cup {NoKey} /\ Imports(req[r], k)
    BY BusyType DEF Imports, Busy
  <1>2. \A o \in Requests, f \in Files :
           Imports(req'[o], f) => o # r /\ Imports(req[o], f)
    BY DEF TypeOK, Imports
  <1>3. \A j \in Registered' : \/ j \in Registered /\ rows'[j] = rows[j]
                               \/ rows'[j].key = k
                               \/ rows'[j].key = NoKey
    BY DEF Registered
  <1>4. k # NoKey => /\ k \in keyfiles \cup shared
                     /\ \A o \in Requests \ {r} : Imports(req[o], k) => k \in shared
    BY <1>1 DEF KeysInv, ImportsKeepKeys
  <1>5. ImportsKeepKeys'
    <2>1. SUFFICES ASSUME NEW o \in Requests, NEW f \in Files,
                          Imports(req'[o], f), f # NoKey
                   PROVE  /\ f \in keyfiles \cup shared
                          /\ \A j \in Registered' : rows'[j].key = f => f \in shared
                          /\ \A x \in Requests \ {o} : Imports(req'[x], f) => f \in shared
      BY DEF ImportsKeepKeys
    <2>2. o # r /\ Imports(req[o], f)
      BY <1>2, <2>1
    <2> QED
      BY <1>2, <1>3, <1>4, <2>1, <2>2 DEF KeysInv, ImportsKeepKeys
  <1>6. KeyfileKept'
    BY <1>3, <1>4 DEF KeysInv, KeyfileKept
  <1> QED
    BY <1>5, <1>6 DEF KeysInv

LEMMA KeysStep ==
  ASSUME TypeOK, KeysInv, [Next]_vars
  PROVE  KeysInv'
  <1>1. ASSUME NEW r \in Requests, NEW n \in Names, NEW p \in Paths, NEW s \in Secrets,
               NEW v \in {1, 2}, NEW op \in {"create", "guided", "import"},
               NEW at \in {"init", "verify"},
               Waits(r, op, at, NewRow(n, p, s, v, FALSE), 0, NoRow),
               UNCHANGED <<rows, keyfiles, shared>>
        PROVE  KeysInv'
    <2> DEFINE q == [op |-> op, at |-> at, res |-> "none",
                     row |-> NewRow(n, p, s, v, FALSE), id |-> 0, seen |-> NoRow]
    <2>1. \A f \in Files : ~(Imports(q, f) /\ f # NoKey)
      BY DEF Imports, NewRow
    <2>2. req' = [req EXCEPT ![r] = q]
      BY <1>1 DEF Waits
    <2> QED
      BY <1>1, <2>1, <2>2, ImportsOfOthers, FilesUnchanged
  <1>2. ASSUME NEW r \in Requests, NEW n \in Names, NEW p \in Paths, NEW s \in Secrets,
               NEW v \in {1, 2}, AskImport(r, n, p, s, v, TRUE)
        PROVE  KeysInv'
    <2> DEFINE q == [op |-> "import", at |-> "verify", res |-> "none",
                     row |-> NewRow(n, p, s, v, TRUE), id |-> 0, seen |-> NoRow]
               g == FileOf[p]
    <2>1. req' = [req EXCEPT ![r] = q] /\ rows' = rows /\ Writes(g, {}) /\ req[r] = Idle
      BY <1>2 DEF AskImport, Waits, Ask, Busy
    <2>2. \A f \in Files : Imports(q, f) => f = g
      BY DEF Imports, NewRow
    <2>3. \A o \in Requests, f \in Files :
             Imports(req'[o], f) => (o = r /\ f = g) \/ (o # r /\ Imports(req[o], f))
      BY <2>1, <2>2 DEF TypeOK
    <2>4. /\ g \in keyfiles' /\ keyfiles \subseteq keyfiles'
          /\ \A f : f # g => (f \in shared <=> f \in shared')
          /\ \A i \in Registered : rows[i].key = g => g \in shared'
          /\ \A o \in Requests : Imports(req[o], g) => g \in shared'
      BY <2>1, WrittenKept
    <2>5. ASSUME NEW o \in Requests, NEW f \in Files,
                 Imports(req'[o], f), f # NoKey
          PROVE  /\ f \in keyfiles' \cup shared'
                 /\ \A i \in Registered : rows[i].key = f => f \in shared'
                 /\ \A x \in Requests \ {o} : Imports(req'[x], f) => f \in shared'
      <3>1. CASE f = g
        <4>1. \A x \in Requests \ {o} : Imports(req'[x], g) => g \in shared'
          <5>1. ASSUME NEW x \in Requests \ {o}, Imports(req'[x], g)
                PROVE  Imports(req[x], g) \/ Imports(req[o], g)
            BY <2>3, <2>5, <3>1, <5>1
          <5> QED
            BY <2>4, <5>1
        <4> QED
          BY <2>4, <3>1, <4>1
      <3>2. CASE f # g
        <4>1. o # r /\ Imports(req[o], f)
          BY <2>3, <2>5, <3>2
        <4>2. /\ f \in keyfiles \cup shared
              /\ \A i \in Registered : rows[i].key = f => f \in shared
              /\ \A x \in Requests \ {o} : Imports(req[x], f) => f \in shared
          BY <2>5, <4>1 DEF KeysInv, ImportsKeepKeys
        <4> QED
          BY <2>3, <2>4, <3>2, <4>2
      <3> QED
        BY <3>1, <3>2
    <2>6. ImportsKeepKeys'
      BY <2>1, <2>5 DEF ImportsKeepKeys, Registered
    <2>7. KeyfileKept'
      BY <2>1, <2>4 DEF KeysInv, KeyfileKept, Registered
    <2> QED
      BY <2>6, <2>7 DEF KeysInv
  <1>3. ASSUME NEW i \in Ids, UploadKey(i)
        PROVE  KeysInv'
    <2> DEFINE g == FileOf[rows[i].path]
    <2>1. /\ Writes(g, {i}) /\ req' = req /\ i \in Registered
          /\ \A j \in Registered' : /\ j \in Registered
                                    /\ rows'[j].key = rows[j].key \/ (j = i /\ rows'[j].key = g)
      BY <1>3 DEF UploadKey, Registered, TypeOK, Row
    <2>2. /\ g \in keyfiles' /\ keyfiles \subseteq keyfiles'
          /\ \A f : f # g => (f \in shared <=> f \in shared')
          /\ \A j \in Registered \ {i} : rows[j].key = g => g \in shared'
          /\ \A o \in Requests : Imports(req[o], g) => g \in shared'
      BY <2>1, WrittenKept
    <2>3. ASSUME NEW o \in Requests, NEW f \in Files, Imports(req[o], f), f # NoKey
          PROVE  /\ f \in keyfiles' \cup shared'
                 /\ \A j \in Registered' : rows'[j].key = f => f \in shared'
                 /\ \A x \in Requests \ {o} : Imports(req[x], f) => f \in shared'
      <3>1. CASE f = g
        BY <2>2, <2>3, <3>1
      <3>2. CASE f # g
        <4>1. /\ f \in keyfiles \cup shared
              /\ \A j \in Registered : rows[j].key = f => f \in shared
              /\ \A x \in Requests \ {o} : Imports(req[x], f) => f \in shared
          BY <2>3 DEF KeysInv, ImportsKeepKeys
        <4> QED
          BY <2>1, <2>2, <3>2, <4>1
      <3> QED
        BY <3>1, <3>2
    <2>4. ImportsKeepKeys'
      BY <2>1, <2>3 DEF ImportsKeepKeys
    <2>5. KeyfileKept'
      BY <2>1, <2>2 DEF KeysInv, KeyfileKept
    <2> QED
      BY <2>4, <2>5 DEF KeysInv
  <1>4. ASSUME NEW i \in Ids, \/ Delete(i) \/ \E n \in Names : Rename(i, n)
        PROVE  KeysInv'
    <2>1. /\ UNCHANGED <<keyfiles, shared, req>>
          /\ \A j \in Registered' : j \in Registered /\ rows'[j].key = rows[j].key
      BY <1>4 DEF Delete, Rename, Registered, TypeOK, Row
    <2> QED
      BY <2>1, KeysUnchanged
  <1>5. ASSUME NEW r \in Requests, NEW i \in Ids, NEW n \in Names, NEW p \in Paths,
               AskMove(r, i, n, p)
        PROVE  KeysInv'
    <2> DEFINE q == [op |-> "move", at |-> "verify", res |-> "none",
                     row |-> [rows[i] EXCEPT !.name = n, !.path = p],
                     id |-> i, seen |-> rows[i]]
    <2>1. req' = [req EXCEPT ![r] = q] /\ UNCHANGED <<rows, keyfiles, shared>>
      BY <1>5 DEF AskMove, Waits
    <2>2. \A f \in Files : ~Imports(q, f)
      BY DEF Imports
    <2> QED
      BY <2>1, <2>2, ImportsOfOthers, FilesUnchanged
  <1>6. ASSUME NEW r \in Requests, NEW at, NEW res, Busy(r), Goto(r, at, res),
               UNCHANGED <<rows, keyfiles, shared>>
        PROVE  KeysInv'
    <2> DEFINE q == [req[r] EXCEPT !.at = at, !.res = res]
    <2>1. q.op = req[r].op /\ q.row = req[r].row
      BY <1>6, BusyType DEF Request
    <2>2. \A f \in Files : Imports(q, f) => Imports(req[r], f)
      BY <1>6, <2>1 DEF Imports, Busy
    <2>3. req' = [req EXCEPT ![r] = q]
      BY <1>6 DEF Goto
    <2> QED
      BY <1>6, <2>2, <2>3, ImportsOfOthers, FilesUnchanged
  <1>7. ASSUME NEW r \in Requests, Creates(r) \/ Verifies(r) \/ Initialises(r)
        PROVE  KeysInv'
    <2>1. Busy(r) /\ UNCHANGED <<rows, keyfiles, shared>>
      BY <1>7 DEF Creates, Verifies, Initialises
    <2>2. \E at \in {"init", "again", "back"}, res \in Reply : Goto(r, at, res)
      BY <1>7 DEF Creates, Verifies, Initialises, Reply
    <2> QED
      BY <1>6, <2>1, <2>2
  <1>8. ASSUME NEW r \in Requests, Ends(r), UNCHANGED <<rows, keyfiles, shared>>
        PROVE  KeysInv'
    <2>1. \A f \in Files : ~Imports(Idle, f)
      BY DEF Imports
    <2> QED
      BY <1>8, <2>1, ImportsOfOthers, FilesUnchanged DEF Ends
  <1>9. ASSUME NEW r \in Requests, CreateRefused(r)
        PROVE  KeysInv'
    <2> DEFINE k == req[r].row.key
    <2>1. /\ rows' = rows /\ shared' = shared /\ keyfiles' = keyfiles \ {k}
          /\ req' = [req EXCEPT ![r] = Idle] /\ Busy(r) /\ req[r].op # "move"
      BY <1>9 DEF CreateRefused, Back, Ends
    <2>2. k \in Files \cup {NoKey} /\ Imports(req[r], k)
      BY <2>1, BusyType DEF Imports, Busy
    <2>3. \A o \in Requests, f \in Files :
             Imports(req'[o], f) => o # r /\ Imports(req[o], f)
      BY <2>1 DEF TypeOK, Imports
    <2>4. k # NoKey => /\ \A o \in Requests \ {r} : Imports(req[o], k) => k \in shared
                       /\ \A i \in Registered : rows[i].key = k => k \in shared
      BY <2>2 DEF KeysInv, ImportsKeepKeys
    <2>5. ImportsKeepKeys'
      BY <2>1, <2>3, <2>4 DEF KeysInv, ImportsKeepKeys, Registered
    <2>6. KeyfileKept'
      BY <2>1, <2>4 DEF KeysInv, KeyfileKept, Registered
    <2> QED
      BY <2>5, <2>6 DEF KeysInv
  <1>10. ASSUME NEW r \in Requests, Insert(r) \/ GuidedReady(r)
         PROVE  KeysInv'
    <2>1. /\ Busy(r) /\ req[r].op # "move" /\ UNCHANGED <<keyfiles, shared>>
          /\ req' = [req EXCEPT ![r] = Idle] /\ req[r].row \in Row
      BY <1>10, BusyType DEF Insert, GuidedReady, Back, Ends
    <2>2. \/ rows' = Inserted(r, NewId)
          \/ rows' = [Inserted(r, NewId) EXCEPT ![NewId].key = NoKey]
      BY <1>10 DEF Insert, GuidedReady
    <2>3. /\ \A j \in Ids \ {NewId} : rows'[j] = rows[j]
          /\ NewId \in Registered' => rows'[NewId].key \in {req[r].row.key, NoKey}
      BY <2>1, <2>2 DEF Inserted, Registered, TypeOK, Row
    <2> QED
      BY <2>1, <2>3, InsertedKeeps
  <1>11. ASSUME NEW r \in Requests, GuidedRolledBack(r)
         PROVE  KeysInv'
    <2>1. /\ Busy(r) /\ req[r].op # "move" /\ UNCHANGED <<keyfiles, shared>>
          /\ req' = [req EXCEPT ![r] = Idle] /\ req[r].row \in Row /\ Ends(r)
          /\ rows' = rows \/ rows' = Inserted(r, NewId)
      BY <1>11, BusyType DEF GuidedRolledBack, Back, Ends
    <2>2. CASE rows' = rows
      BY <1>8, <2>1, <2>2
    <2>3. CASE rows' = Inserted(r, NewId)
      <3>1. /\ \A j \in Ids \ {NewId} : rows'[j] = rows[j]
            /\ NewId \in Registered' => rows'[NewId].key \in {req[r].row.key, NoKey}
        BY <2>1, <2>3 DEF Inserted, Registered, TypeOK, Row
      <3> QED
        BY <2>1, <3>1, InsertedKeeps
    <2> QED
      BY <2>1, <2>2, <2>3
  <1>12. ASSUME NEW r \in Requests, Moved(r)
         PROVE  KeysInv'
    <2>1. /\ UNCHANGED <<keyfiles, shared>> /\ req' = [req EXCEPT ![r] = Idle]
          /\ rows[req[r].id] # NoRow
      BY <1>12 DEF Moved, Ends
    <2>2. \A j \in Registered' : j \in Registered /\ rows'[j].key = rows[j].key
      BY <1>12, <2>1 DEF Moved, Registered, TypeOK, Row
    <2>3. \A f \in Files : ~Imports(Idle, f)
      BY DEF Imports
    <2> QED
      BY <2>1, <2>2, <2>3, ImportsOfOthers, KeysUnchanged
  <1>13. ASSUME NEW p \in Paths, NEW s \in Secrets, LateInit(p, s)
         PROVE  KeysInv'
    BY <1>13, FilesUnchanged DEF LateInit
  <1>14. CASE Restart
    BY <1>14, FilesUnchanged DEF Restart, Imports
  <1>15. CASE UNCHANGED vars
    BY <1>15, FilesUnchanged DEF vars
  <1>16. ASSUME NEW r \in Requests, NEW n \in Names, NEW p \in Paths, NEW s \in Secrets,
                NEW v \in {1, 2},
                \/ AskCreate(r, n, p, s, v)
                \/ AskGuided(r, n, p, s, v)
                \/ \E k \in BOOLEAN : AskImport(r, n, p, s, v, k)
         PROVE  KeysInv'
    <2>1. CASE AskCreate(r, n, p, s, v) \/ AskGuided(r, n, p, s, v)
      BY <1>1, <2>1 DEF AskCreate, AskGuided
    <2>2. CASE AskImport(r, n, p, s, v, FALSE)
      BY <1>1, <2>2 DEF AskImport
    <2> QED
      BY <1>2, <1>16, <2>1, <2>2
  <1>17. ASSUME NEW r \in Requests, NotInserted(r) \/ MoveRefused(r)
         PROVE  KeysInv'
    BY <1>8, <1>17 DEF NotInserted, MoveRefused
  <1> QED
    BY <1>3, <1>4, <1>5, <1>7, <1>9, <1>10, <1>11, <1>12, <1>13, <1>14, <1>15, <1>16, <1>17
    DEF Next

\* Every registered repository that was given a key has the file, whatever imports are
\* refused: that a file is lost to a refused import takes a write over it by an import or
\* an upload while another row, or another import under way, needs it, and none of its own
\* since.
THEOREM KeepsItsKeyfile == Spec => []KeyfileKept
  <1>1. Init => TypeOK /\ KeysInv
    BY InitType DEF Init, KeysInv, ImportsKeepKeys, KeyfileKept, Registered, Imports
  <1>2. TypeOK /\ KeysInv /\ [Next]_vars => (TypeOK /\ KeysInv)'
    BY StepType, KeysStep
  <1>3. KeysInv => KeyfileKept
    BY DEF KeysInv
  <1> QED
    BY <1>1, <1>2, <1>3, PTL DEF Spec

-----------------------------------------------------------------------------
(***************************************************************************)
(* The scheduled checks: the checks in progress stay within the limit.     *)
(***************************************************************************)
RowType == [status : {"none", "pending", "running"}, task : BOOLEAN]

\* The rows are finite in number, and the slots that a dispatch has left are free.
SlotsInv ==
  /\ checks \in [Id -> RowType]
  /\ limit \in 0 .. MaxLimit
  /\ IsFiniteSet(OpenScheduled)
  /\ ~Quiet =>
       /\ turn.slots \in Nat \ {0}
       /\ turn.slots + Cardinality(OpenScheduled) <= limit

\* A scheduled check that starts is one row more.
LEMMA StartsOneCheck ==
  ASSUME SlotsInv, NEW r \in Repos, StartCheck(r, 1 .. MaxLimit)
  PROVE  /\ checks' \in [Id -> RowType]
         /\ IsFiniteSet(OpenScheduled')
         /\ Cardinality(OpenScheduled) \in Nat
         /\ Cardinality(OpenScheduled') = Cardinality(OpenScheduled) + 1
  <1>1. PICK n \in 1 .. MaxLimit :
          /\ ~IsOpen(<<r, n>>)
          /\ checks' = [checks EXCEPT ![<<r, n>>] = [status |-> "pending", task |-> TRUE]]
    BY DEF StartCheck
  <1>2. <<r, n>> \in Id /\ <<r, n>>[2] > 0
    BY BoundsAssumption DEF Id
  <1>3. checks' \in [Id -> RowType]
    BY <1>1, <1>2 DEF SlotsInv, RowType
  <1>4. OpenScheduled' = OpenScheduled \cup {<<r, n>>}
    BY <1>1, <1>2 DEF OpenScheduled, IsOpen, SlotsInv
  <1>5. <<r, n>> \notin OpenScheduled
    BY <1>1 DEF OpenScheduled
  <1>6. IsFiniteSet(OpenScheduled)
    BY DEF SlotsInv
  <1> HIDE DEF OpenScheduled
  <1> QED
    BY <1>3, <1>4, <1>5, <1>6, FS_AddElement, FS_CardinalityType

\* No other step makes a scheduled row.
LEMMA OthersStartNone ==
  ASSUME SlotsInv, [ChecksNext]_checkVars,
         ~\E r \in Repos : Dispatch(r) \/ DispatchFails(r)
  PROVE  checks' \in [Id -> RowType] /\ OpenScheduled' \subseteq OpenScheduled
  <1>1. CASE UNCHANGED checks
    BY <1>1 DEF SlotsInv, OpenScheduled, IsOpen
  <1>2. ASSUME NEW r \in Repos, ManualCheck(r)
        PROVE  checks' \in [Id -> RowType] /\ OpenScheduled' \subseteq OpenScheduled
    <2>1. checks' = [checks EXCEPT ![<<r, 0>>] = [status |-> "pending", task |-> TRUE]]
      BY <1>2 DEF ManualCheck, StartCheck
    <2>2. <<r, 0>> \in Id
      BY BoundsAssumption DEF Id
    <2> QED
      BY <2>1, <2>2 DEF SlotsInv, RowType, OpenScheduled, IsOpen
  <1>3. ASSUME NEW c \in Id, TaskStarts(c) \/ TaskGivesUp(c) \/ TaskEnds(c) \/ DeleteRow(c)
        PROVE  checks' \in [Id -> RowType] /\ OpenScheduled' \subseteq OpenScheduled
    <2>1. PICK row \in RowType :
            /\ checks' = [checks EXCEPT ![c] = row]
            /\ checks[c].status = "none" => row.status = "none"
      <3>1. CASE TaskStarts(c)
        <4>1. [checks[c] EXCEPT !.status = "running"] \in RowType
          BY DEF SlotsInv, RowType
        <4> QED
          BY <3>1, <4>1 DEF TaskStarts
      <3>2. CASE TaskGivesUp(c)
        <4>1. [checks[c] EXCEPT !.task = FALSE] \in RowType
          BY DEF SlotsInv, RowType
        <4> QED
          BY <3>2, <4>1 DEF TaskGivesUp
      <3>3. CASE TaskEnds(c) \/ DeleteRow(c)
        BY <3>3 DEF TaskEnds, DeleteRow, None, RowType
      <3> QED
        BY <1>3, <3>1, <3>2, <3>3
    <2> QED
      BY <2>1 DEF SlotsInv, OpenScheduled, IsOpen
  <1>4. CASE Crash
    <2>1. checks' = [c \in Id |-> [checks[c] EXCEPT !.task = FALSE]]
      BY <1>4 DEF Crash
    <2>2. \A c \in Id : checks'[c] \in RowType /\ checks'[c].status = checks[c].status
      BY <2>1 DEF SlotsInv, RowType
    <2> QED
      BY <2>1, <2>2 DEF OpenScheduled, IsOpen
  <1>5. CASE Recover
    BY <1>5 DEF Recover, SlotsInv, RowType, OpenScheduled, IsOpen, None
  <1> QED
    BY <1>1, <1>2, <1>3, <1>4, <1>5
    DEF ChecksNext, BecomesDue, UpdateSchedule, DispatchOne, Refuse, SetLimit, Tick, checkVars

\* The turn after a repository that used up to one slot.
LEMMA AdvanceSlots ==
  ASSUME turn.slots \in Nat \ {0}, NEW used \in 0 .. 1, Advance(used), turn' # NoTurn
  PROVE  turn'.slots \in Nat \ {0} /\ turn'.slots = turn.slots - used
  BY DEF Advance

LEMMA SlotsStart == ChecksInit => SlotsInv
  <1> SUFFICES ASSUME ChecksInit PROVE SlotsInv
    OBVIOUS
  <1>1. OpenScheduled = {}
    BY DEF ChecksInit, OpenScheduled, IsOpen, None
  <1> QED
    BY <1>1, FS_EmptySet DEF ChecksInit, SlotsInv, RowType, None, Quiet

LEMMA SlotsKeep == SlotsInv /\ [ChecksNext]_checkVars => SlotsInv'
  <1> SUFFICES ASSUME SlotsInv, [ChecksNext]_checkVars PROVE SlotsInv'
    OBVIOUS
  <1> DEFINE open == Cardinality(OpenScheduled)
  <1>0. /\ limit \in Nat /\ open \in Nat /\ IsFiniteSet(OpenScheduled)
        /\ ~Quiet => turn.slots \in Nat \ {0} /\ turn.slots + open <= limit
    BY FS_CardinalityType, BoundsAssumption DEF SlotsInv
  <1>1. ASSUME NEW r \in Repos, Dispatch(r)
        PROVE  SlotsInv'
    <2>1. ~Quiet /\ Advance(1) /\ limit' = limit /\ StartCheck(r, 1 .. MaxLimit)
      BY <1>1 DEF Dispatch, Looking, Quiet, NoTurn
    <2>2. /\ checks' \in [Id -> RowType] /\ IsFiniteSet(OpenScheduled')
          /\ Cardinality(OpenScheduled') = open + 1
      BY <2>1, StartsOneCheck
    <2>3. ~Quiet' => turn'.slots \in Nat \ {0} /\ turn'.slots = turn.slots - 1
      BY <1>0, <2>1, AdvanceSlots DEF Quiet
    <2> HIDE DEF open
    <2>4. ~Quiet' => turn'.slots + Cardinality(OpenScheduled') <= limit'
      BY <1>0, <2>1, <2>2, <2>3
    <2> QED
      BY <2>1, <2>2, <2>3, <2>4 DEF SlotsInv
  <1>2. ASSUME NEW r \in Repos, DispatchFails(r)
        PROVE  SlotsInv'
    <2>1. Quiet' /\ limit' = limit
      BY <1>2 DEF DispatchFails, Quiet
    <2>2. checks' \in [Id -> RowType] /\ IsFiniteSet(OpenScheduled')
      <3>1. CASE UNCHANGED checks
        BY <1>0, <3>1 DEF SlotsInv, OpenScheduled, IsOpen
      <3>2. CASE StartCheck(r, 1 .. MaxLimit)
        BY <3>2, StartsOneCheck
      <3> QED
        BY <1>2, <3>1, <3>2 DEF DispatchFails
    <2> QED
      BY <2>1, <2>2 DEF SlotsInv
  <1>3. ASSUME ~\E r \in Repos : Dispatch(r) \/ DispatchFails(r)
        PROVE  SlotsInv'
    <2>1. checks' \in [Id -> RowType] /\ OpenScheduled' \subseteq OpenScheduled
      BY <1>3, OthersStartNone
    <2>2. /\ IsFiniteSet(OpenScheduled') /\ Cardinality(OpenScheduled') \in Nat
          /\ Cardinality(OpenScheduled') <= open
      BY <1>0, <2>1, FS_Subset, FS_CardinalityType
    <2>3. limit' \in 0 .. MaxLimit
      BY <1>3 DEF SlotsInv, ChecksNext, ManualCheck, BecomesDue, UpdateSchedule, DispatchOne,
                  Refuse, TaskStarts, TaskGivesUp, TaskEnds, DeleteRow, SetLimit, Tick, Crash,
                  Recover, checkVars
    <2>4. CASE Quiet' \/ (UNCHANGED <<turn, limit>>)
      <3> HIDE DEF open
      <3> QED
        BY <1>0, <2>1, <2>2, <2>3, <2>4 DEF SlotsInv, Quiet
    <2>5. CASE Tick
      <3>1. limit' = limit /\ turn'.slots = limit - open /\ limit - open > 0
        BY <2>5 DEF Tick, Slots
      <3> HIDE DEF open
      <3>2. turn'.slots \in Nat \ {0} /\ turn'.slots + Cardinality(OpenScheduled') <= limit'
        BY <1>0, <2>2, <3>1
      <3> QED
        BY <2>1, <2>2, <2>3, <3>2 DEF SlotsInv
    <2>6. ASSUME NEW r \in Repos, Refuse(r)
          PROVE  SlotsInv'
      <3>1. ~Quiet /\ Advance(0) /\ limit' = limit
        BY <2>6 DEF Refuse, Looking, Quiet, NoTurn
      <3>2. ~Quiet' => turn'.slots \in Nat \ {0} /\ turn'.slots = turn.slots - 0
        BY <1>0, <3>1, AdvanceSlots DEF Quiet
      <3> HIDE DEF open
      <3>3. ~Quiet' => turn'.slots + Cardinality(OpenScheduled') <= limit'
        BY <1>0, <2>2, <3>1, <3>2
      <3> QED
        BY <2>1, <2>2, <2>3, <3>2, <3>3 DEF SlotsInv
    <2>7. \/ Quiet' \/ UNCHANGED <<turn, limit>> \/ Tick
          \/ \E r \in Repos : Refuse(r)
      BY <1>3 DEF ChecksNext, ManualCheck, BecomesDue, UpdateSchedule, DispatchOne,
                  TaskStarts, TaskGivesUp, TaskEnds, DeleteRow, SetLimit, Crash, Recover,
                  checkVars, Quiet
    <2> QED
      BY <2>4, <2>5, <2>6, <2>7
  <1> QED
    BY <1>1, <1>2, <1>3

\* The inductive invariant: run_due_scheduled_checks never has more slots left than the limit
\* leaves beside the scheduled rows that are open.
THEOREM CheckSlotsInvariant == ChecksSpec => []SlotsInv
  <1> QED
    BY SlotsStart, SlotsKeep, PTL DEF ChecksSpec

\* A scheduled check starts only within max_concurrent_scheduled_checks, counting the rows
\* that earlier processes left behind, and whatever the requests between two dispatches do.
THEOREM CheckLimitRespected == ChecksSpec => WithinCheckLimit
  <1> DEFINE Within == (OpenScheduled' \ OpenScheduled # {}) => Cardinality(OpenScheduled') <= limit
  <1>1. ASSUME SlotsInv, [ChecksNext]_checkVars, OpenScheduled' \ OpenScheduled # {}
        PROVE  Cardinality(OpenScheduled') <= limit
    <2>1. PICK r \in Repos : Dispatch(r) \/ DispatchFails(r)
      BY <1>1, OthersStartNone
    <2>2. StartCheck(r, 1 .. MaxLimit)
      BY <1>1, <2>1 DEF Dispatch, DispatchFails, OpenScheduled, IsOpen
    <2>3. /\ Cardinality(OpenScheduled) \in Nat
          /\ Cardinality(OpenScheduled') = Cardinality(OpenScheduled) + 1
      BY <1>1, <2>2, StartsOneCheck
    <2>4. turn.slots \in Nat \ {0} /\ turn.slots + Cardinality(OpenScheduled) <= limit
      BY <1>1, <2>1 DEF SlotsInv, Dispatch, DispatchFails, Looking, Quiet, NoTurn
    <2>5. limit \in Nat
      BY <1>1, BoundsAssumption DEF SlotsInv
    <2> QED
      BY <2>3, <2>4, <2>5
  <1>2. SlotsInv /\ [ChecksNext]_checkVars => [Within]_checkVars
    BY <1>1
  <1> QED
    BY <1>2, CheckSlotsInvariant, PTL DEF ChecksSpec, WithinCheckLimit
=============================================================================
