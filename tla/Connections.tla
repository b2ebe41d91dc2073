---------------------------- MODULE Connections ----------------------------
(***************************************************************************)
(* SSH keys and the connections that use them: the handlers of             *)
(* app/api/ssh_keys.py, several of which are in progress at once. A        *)
(* handler reads rows, waits for ssh, ssh-copy-id or ssh-keygen, and then  *)
(* writes rows that other handlers may have changed or deleted meanwhile.  *)
(* A step is what a handler does between two waits; it commits.            *)
(***************************************************************************)
EXTENDS Naturals, FiniteSets, FiniteSetsExt

CONSTANTS
  Keys,        \* key pairs; a pair made under the name of a deleted one is another
  Type,        \* the type of each key, after which its file is named
  Hosts,       \* user, host and port of a connection
  Requests,    \* requests that may be in progress together
  MaxConns,    \* bound: connections
  MaxAsked,    \* bound: requests of one behaviour that wait for a command
  MaxFaults    \* bound: failed commits and restarts

None == "none"   \* NULL

ASSUME TypeAssumption == DOMAIN Type = Keys
ASSUME NullAssumption == None \notin Keys \cup Hosts
ASSUME BoundAssumption == MaxConns \in Nat /\ MaxAsked \in Nat /\ MaxFaults \in Nat

Types == {Type[k] : k \in Keys}
Ids == 1 .. MaxConns

VARIABLES
  keys,     \* "none", "plain", "system" or "gone": the rows of ssh_keys
  conns,    \* the rows of ssh_connections, by id
  req,      \* what each request waits for
  file,     \* the key whose private half is in id_<type>, for each type
  works,    \* <<id, key>>: a command of the connection succeeded with the key
  raced,    \* ids of rows that were deleted or lost their key under a request
  lost,     \* ids of rows whose answer could not be written
  asked,    \* requests so far
  faults    \* faults so far

vars == <<keys, conns, req, file, works, raced, lost, asked, faults>>

NoConn == [key |-> None, host |-> None, status |-> None]
Idle == [kind |-> "idle", key |-> None, host |-> None, conn |-> 0, seen |-> NoConn]

Statuses == {"connected", "failed", "testing"}
RowKinds == {"deploy", "test", "retest", "redeploy"}
KeyKinds == {"generate", "pair", "quick"}

Exists(k) == keys[k] \in {"plain", "system"}

Conn == [key: Keys \cup {None}, host: Hosts, status: Statuses]
Wait == [kind: {"idle", "verify", "quickdeploy"} \cup RowKinds \cup KeyKinds,
         key: Keys \cup {None}, host: Hosts \cup {None}, conn: Ids \cup {0},
         seen: Conn \cup {NoConn}]

TypeOK ==
  /\ keys \in [Keys -> {None, "plain", "system", "gone"}]
  /\ conns \in [Ids -> Conn \cup {NoConn}]
  /\ \A c \in Ids : conns[c].key # None => Exists(conns[c].key)
  /\ req \in [Requests -> Wait]
  /\ \A r \in Requests :
       /\ req[r].kind \in RowKinds <=> req[r].conn # 0
       /\ req[r].kind # "idle" => req[r].key \in Keys
       /\ req[r].kind \in {"verify", "quickdeploy"} => req[r].host \in Hosts
  /\ file \in [Types -> Keys \cup {None}]
  /\ works \subseteq Ids \X Keys /\ raced \subseteq Ids /\ lost \subseteq Ids
  /\ asked \in 0 .. MaxAsked /\ faults \in 0 .. MaxFaults

Init ==
  /\ keys = [k \in Keys |-> None]
  /\ conns = [c \in Ids |-> NoConn]
  /\ req = [r \in Requests |-> Idle]
  /\ file = [t \in Types |-> None]
  /\ works = {} /\ raced = {} /\ lost = {}
  /\ asked = 0 /\ faults = 0

Rows == {c \in Ids : conns[c] # NoConn}
SystemKeys == {k \in Keys : keys[k] = "system"}

\* SQLite gives a new row the id after the greatest one.
NewId == 1 + Max(Rows \cup {0})

\* The rows that requests wait to write.
Awaited == {req[r].conn : r \in Requests} \ {0}

Fault == faults < MaxFaults /\ faults' = faults + 1

\* A request starts to wait, and ends.
Ask(r, wait) ==
  /\ req[r] = Idle /\ asked < MaxAsked
  /\ req' = [req EXCEPT ![r] = wait]
  /\ asked' = asked + 1
End(r) == req' = [req EXCEPT ![r] = Idle]
Over(r) == End(r) /\ UNCHANGED asked
Waits(r, kind) == req[r].kind = kind

\* An INSERT, of a row without id: the id it gets is new, and so is what is known of it.
Insert(row) ==
  /\ NewId \in Ids
  /\ conns' = [conns EXCEPT ![NewId] = row]

-----------------------------------------------------------------------------
(* Keys. *)

\* create_ssh_key: the name is not taken.
CreateKey(k) ==
  /\ keys[k] = None
  /\ keys' = [keys EXCEPT ![k] = "plain"]
  /\ UNCHANGED <<conns, req, file, works, raced, lost, asked, faults>>

\* deploy_ssh_key.py: the first system key is written to the file of its type.
DeployedFile(f, set) ==
  {[t \in Types |-> IF Type[k] = t THEN k ELSE f[t]] : k \in set} \cup (IF set = {} THEN {f} ELSE {})

\* generate_ssh_key: no system key so far, and ssh-keygen is started.
AskSystemKey(r, k) ==
  /\ SystemKeys = {} /\ keys[k] # "gone"
  /\ Ask(r, [Idle EXCEPT !.kind = "generate", !.key = k])
  /\ UNCHANGED <<keys, conns, file, works, raced, lost, faults>>

\* import_ssh_key: nor is the name taken; ssh-keygen is asked for the fingerprint.
AskImport(r, k) ==
  /\ keys[k] = None
  /\ AskSystemKey(r, k)

\* The pair is there. A name taken meanwhile is refused by the unique index.
SystemKeyMade(r) ==
  /\ Waits(r, "generate")
  /\ LET k == req[r].key
     IN  IF keys[k] # None
         THEN UNCHANGED <<keys, file>>
         ELSE /\ keys' = [keys EXCEPT ![k] = "system"]
              /\ file' \in DeployedFile(file, SystemKeys \cup {k})
  /\ Over(r)
  /\ UNCHANGED <<conns, works, raced, lost, faults>>

\* manual_pair_init: a key of that name is given back as it is.
AskPairKey(r, k) ==
  /\ keys[k] = None
  /\ Ask(r, [Idle EXCEPT !.kind = "pair", !.key = k])
  /\ UNCHANGED <<keys, conns, file, works, raced, lost, faults>>

PairKeyMade(r) ==
  /\ Waits(r, "pair")
  /\ keys' = [keys EXCEPT ![req[r].key] = IF @ = None THEN "plain" ELSE @]
  /\ Over(r)
  /\ UNCHANGED <<conns, file, works, raced, lost, faults>>

\* quick_ssh_setup: the name is not looked at before the pair is made.
AskQuickSetup(r, k) ==
  /\ keys[k] # "gone"
  /\ \E h \in Hosts \cup {None} : Ask(r, [Idle EXCEPT !.kind = "quick", !.key = k, !.host = h])
  /\ UNCHANGED <<keys, conns, file, works, raced, lost, faults>>

\* The key is committed, and deployed if a host was given.
QuickKeyMade(r) ==
  /\ Waits(r, "quick")
  /\ LET k == req[r].key
     IN  /\ keys' = [keys EXCEPT ![k] = IF @ = None THEN "plain" ELSE @]
         /\ IF keys[k] # None \/ req[r].host = None
            THEN End(r)
            ELSE req' = [req EXCEPT ![r].kind = "quickdeploy"]
  /\ UNCHANGED <<conns, file, works, raced, lost, asked, faults>>

\* The connection gets a row whether or not the key could be deployed; a key deleted
\* meanwhile is a foreign key that does not exist.
QuickDeployed(r) ==
  /\ Waits(r, "quickdeploy")
  /\ LET k == req[r].key
     IN  IF ~Exists(k)
         THEN UNCHANGED <<conns, works>>
         ELSE \/ /\ Insert([key |-> k, host |-> req[r].host, status |-> "connected"])
                 /\ works' = works \cup {<<NewId, k>>}
              \/ /\ Insert([key |-> k, host |-> req[r].host, status |-> "failed"])
                 /\ UNCHANGED works
  /\ Over(r)
  /\ UNCHANGED <<keys, file, raced, lost, faults>>

\* ssh-keygen failed or timed out.
KeyNotMade(r) ==
  /\ req[r].kind \in KeyKinds
  /\ Over(r)
  /\ UNCHANGED <<keys, conns, file, works, raced, lost, faults>>

\* What becomes of a connection whose key is deleted.
Keyless(conn) == [conn EXCEPT !.key = None, !.status = "failed"]

\* delete_ssh_key: connections are kept, and the file of the type goes, whose key it may be.
DeleteKey(k) ==
  /\ Exists(k)
  /\ keys' = [keys EXCEPT ![k] = "gone"]
  /\ LET of == {c \in Rows : conns[c].key = k}
     IN  /\ conns' = [c \in Ids |-> IF c \in of THEN Keyless(conns[c]) ELSE conns[c]]
         /\ raced' = raced \cup (of \cap Awaited)
  /\ file' = [file EXCEPT ![Type[k]] = None]
  /\ UNCHANGED <<req, works, lost, asked, faults>>

-----------------------------------------------------------------------------
(* Connections. *)

\* Mutant of Find: the row is found by its host.
FindByHost(k, h) == {c \in Rows : conns[c].host = h}

Find(k, h) == {c \in Rows : conns[c].key = k /\ conns[c].host = h}

\* deploy_ssh_key and test_ssh_connection: the row of the key and host, or a new one, is
\* "testing" while ssh-copy-id or ssh runs.
AskForKey(r, kind, k, h) ==
  /\ Exists(k)
  /\ LET row == [key |-> k, host |-> h, status |-> "testing"]
         wait == [Idle EXCEPT !.kind = kind, !.key = k]
     IN  \/ /\ Find(k, h) = {}
            /\ Insert(row)
            /\ Ask(r, [wait EXCEPT !.conn = NewId])
         \/ \E c \in Find(k, h) :
              /\ conns' = [conns EXCEPT ![c].status = "testing"]
              /\ Ask(r, [wait EXCEPT !.conn = c])
  /\ UNCHANGED <<keys, file, works, raced, lost, faults>>

Deploy(r, k, h) == AskForKey(r, "deploy", k, h)
Test(r, k, h) == AskForKey(r, "test", k, h)

\* The key of a connection: a connection without one is given a system key.
KeysFor(c) == IF conns[c].key # None THEN {conns[c].key} ELSE SystemKeys

\* test_existing_connection.
Retest(r, c) ==
  /\ c \in Rows
  /\ \E k \in KeysFor(c) :
       /\ conns' = [conns EXCEPT ![c].key = k, ![c].status = "testing"]
       /\ Ask(r, [Idle EXCEPT !.kind = "retest", !.key = k, !.conn = c])
  /\ UNCHANGED <<keys, file, works, raced, lost, faults>>

\* redeploy_key_to_connection: the row is read, and not yet written.
Redeploy(r, c) ==
  /\ c \in Rows
  /\ \E k \in SystemKeys :
       Ask(r, [Idle EXCEPT !.kind = "redeploy", !.key = k, !.conn = c, !.seen = conns[c]])
  /\ UNCHANGED <<keys, conns, file, works, raced, lost, faults>>

\* A column that is set to what was read is not written.
Written(seen, new, current) == IF new = seen THEN current ELSE new

\* ssh-copy-id and ssh succeed, or they fail or time out.
DeployResults == {"connected", "failed"}
TestResults == {"connected", "failed"}
Results(kind) == IF kind \in {"deploy", "redeploy"} THEN DeployResults ELSE TestResults

\* Mutant of AnsweredRow: a key that could not be deployed again leaves the row as it was read.
AnswerAsRead(wait, result, row) ==
  IF wait.kind = "redeploy" /\ result = "failed"
  THEN [row EXCEPT !.status = wait.seen.status]
  ELSE [row EXCEPT !.status = result]

\* What an answer makes of the row of a connection. Only a key that is deployed again was
\* waited for with the row already read.
AnsweredRow(wait, result, row) ==
  IF wait.kind = "redeploy"
  THEN [row EXCEPT !.status = Written(wait.seen.status, result, @),
                   !.key = IF result = "connected" THEN Written(wait.seen.key, wait.key, @) ELSE @]
  ELSE [row EXCEPT !.status = result]

\* The UPDATE fails if the row is gone, or it now refers to a key that is gone.
Answer(r) ==
  LET wait == req[r] IN
  LET c == wait.conn IN
  /\ wait.kind \in RowKinds
  /\ \E result \in Results(wait.kind) :
       LET row == AnsweredRow(wait, result, conns[c])
       IN  IF c \in Rows /\ (row.key # None => Exists(row.key))
           THEN /\ conns' = [conns EXCEPT ![c] = row]
                /\ works' = works \cup (IF result = "connected" THEN {<<c, wait.key>>} ELSE {})
           ELSE UNCHANGED <<conns, works>>
  /\ Over(r)
  /\ UNCHANGED <<keys, file, raced, lost, faults>>

\* The commit of an answer meets a lock: the handler ends, and the row stays.
AnswerFails(r) ==
  /\ req[r].kind \in RowKinds
  /\ Fault
  /\ lost' = lost \cup {req[r].conn}
  /\ Over(r)
  /\ UNCHANGED <<keys, conns, file, works, raced>>

\* manual_pair_verify: borg is asked for its version.
Verify(r, k, h) ==
  /\ Exists(k)
  /\ Ask(r, [Idle EXCEPT !.kind = "verify", !.key = k, !.host = h])
  /\ UNCHANGED <<keys, conns, file, works, raced, lost, faults>>

\* The row is looked for once borg has answered; a deleted key has none, and gets none.
Verified(r) ==
  /\ Waits(r, "verify")
  /\ LET k == req[r].key
         h == req[r].host
         row == [key |-> k, host |-> h, status |-> "connected"]
     IN  \/ UNCHANGED <<conns, works>>
         \/ \E c \in Find(k, h) :
              /\ conns' = [conns EXCEPT ![c].status = "connected"]
              /\ works' = works \cup {<<c, k>>}
         \/ /\ Exists(k) /\ Find(k, h) = {}
            /\ Insert(row)
            /\ works' = works \cup {<<NewId, k>>}
  /\ Over(r)
  /\ UNCHANGED <<keys, file, raced, lost, faults>>

\* update_ssh_connection: the host may change, the status does not.
UpdateConnection(c, h) ==
  /\ c \in Rows
  /\ conns' = [conns EXCEPT ![c].host = h]
  /\ UNCHANGED <<keys, req, file, works, raced, lost, asked, faults>>

\* refresh_connection_storage: what it measures afterwards is left out.
RefreshStorage(c) ==
  /\ c \in Rows /\ conns[c].key = None
  /\ \E k \in SystemKeys : conns' = [conns EXCEPT ![c].key = k]
  /\ UNCHANGED <<keys, req, file, works, raced, lost, asked, faults>>

\* delete_ssh_connection: nothing that happens to the row is known of the next one of its id.
DeleteConnection(c) ==
  /\ c \in Rows
  /\ conns' = [conns EXCEPT ![c] = NoConn]
  /\ works' = {w \in works : w[1] # c}
  /\ raced' = IF c \in Awaited THEN raced \cup {c} ELSE raced
  /\ UNCHANGED <<keys, req, file, lost, asked, faults>>

-----------------------------------------------------------------------------

\* The server stops, and its entrypoint deploys the system key as it starts again. No row
\* is looked at.
Restart ==
  /\ Fault
  /\ lost' = lost \cup Awaited
  /\ req' = [r \in Requests |-> Idle]
  /\ file' \in DeployedFile(file, SystemKeys)
  /\ UNCHANGED <<keys, conns, works, raced, asked>>

Next ==
  \/ \E k \in Keys : CreateKey(k) \/ DeleteKey(k)
  \/ \E r \in Requests :
       \/ \E k \in Keys :
            \/ AskSystemKey(r, k) \/ AskImport(r, k) \/ AskPairKey(r, k) \/ AskQuickSetup(r, k)
            \/ \E h \in Hosts : Deploy(r, k, h) \/ Test(r, k, h) \/ Verify(r, k, h)
       \/ \E c \in Ids : Retest(r, c) \/ Redeploy(r, c)
       \/ SystemKeyMade(r) \/ PairKeyMade(r) \/ QuickKeyMade(r) \/ QuickDeployed(r)
       \/ KeyNotMade(r) \/ Answer(r) \/ AnswerFails(r) \/ Verified(r)
  \/ \E c \in Ids :
       \/ \E h \in Hosts : UpdateConnection(c, h)
       \/ RefreshStorage(c) \/ DeleteConnection(c)
  \/ Restart

Spec == Init /\ [][Next]_vars

-----------------------------------------------------------------------------

\* A connection that is shown as being tested is being tested: an answer of one of its
\* requests is still to come, whatever the others wrote, unless a commit failed or the
\* server was restarted before it.
TestingIsWatched ==
  \A c \in Rows \ lost :
    conns[c].status = "testing" =>
      \E r \in Requests : req[r].conn = c /\ req[r].kind # "redeploy"

\* A connection that is shown as connected has a key, and a command has succeeded with that
\* key: no answer of a request, however late, is taken for an answer about another key,
\* unless the connection or its key was deleted while a request on it was waiting.
ConnectedWithItsKey ==
  \A c \in Rows \ raced :
    conns[c].status = "connected" => <<c, conns[c].key>> \in works
=============================================================================
