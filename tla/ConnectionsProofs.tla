------------------------- MODULE ConnectionsProofs -------------------------
(***************************************************************************)
(* For every set of keys, hosts and requests: what is shown as connected   *)
(* has a key that works, and what is shown as being tested is being tested.*)
(***************************************************************************)
EXTENDS Connections, SshMounts, TLAPS, FiniteSetTheorems, WellFoundedInduction

\* The row a request waits to write is there, and its key is the one the request was made
\* with or one that is known to work; for a key that is deployed again that is so only if
\* it was the key of the row when the request read it.
Fits(q, cs, ws, spoilt) ==
  q.kind \in RowKinds /\ q.conn \notin spoilt =>
    /\ cs[q.conn] # NoConn
    /\ q.kind # "redeploy" \/ q.seen.key = q.key =>
          cs[q.conn].key = q.key \/ <<q.conn, cs[q.conn].key>> \in ws

AnswersFit == \A r \in Requests : Fits(req[r], conns, works, raced)

-----------------------------------------------------------------------------
(* The id of a new row. *)

LEMMA HasGreatest ==
  ASSUME NEW n \in Nat, NEW S \in SUBSET (0 .. n), S # {}
  PROVE  \E x \in S : \A y \in S : x >= y
  <1> DEFINE IdsAfter(x) == {y \in S : y > x}
             T == {IdsAfter(x) : x \in S}
             R == StrictSubsetOrdering(Nat)
  <1>0. \A y \in S : y \in Nat /\ y <= n
    OBVIOUS
  <1>1. ASSUME NEW x \in S
        PROVE  /\ IdsAfter(x) \in SUBSET Nat /\ IdsAfter(x) \in FiniteSubsetsOf(Nat)
               /\ \A y \in S : y \in IdsAfter(x) <=> y > x
    <2>1. IdsAfter(x) \in SUBSET Nat /\ \A y \in IdsAfter(x) : y <= n
      BY <1>0
    <2>2. \A y \in S : y \in IdsAfter(x) <=> y > x
      OBVIOUS
    <2> HIDE DEF IdsAfter
    <2> QED
      BY <2>1, <2>2, FS_BoundedSetOfNaturals DEF FiniteSubsetsOf
  <1>2. \A x \in S : IdsAfter(x) \subseteq S
    OBVIOUS
  <1> HIDE DEF IdsAfter
  <1>3. T \subseteq FiniteSubsetsOf(Nat) /\ T # {}
    BY <1>1
  <1>4. PICK A \in T : \A B \in T : ~(<<B, A>> \in R)
    <2>1. IsWellFoundedOn(R, FiniteSubsetsOf(Nat))
      BY FS_StrictSubsetOrderingWellFounded
    <2> HIDE DEF T, R
    <2> QED
      BY <1>3, <2>1, WFMin
  <1>5. PICK x \in S : A = IdsAfter(x)
    BY <1>4
  <1>6. ASSUME NEW y \in S, y > x
        PROVE  FALSE
    <2>1. IdsAfter(y) \subseteq IdsAfter(x)
      BY <1>0, <1>1, <1>2, <1>6
    <2>2. y \in IdsAfter(x) /\ y \notin IdsAfter(y)
      BY <1>0, <1>1, <1>6
    <2>3. <<IdsAfter(y), IdsAfter(x)>> \in R
      BY <1>1, <2>1, <2>2 DEF StrictSubsetOrdering
    <2> QED
      BY <1>4, <1>5, <2>3
  <1> QED
    BY <1>0, <1>6

LEMMA NewIdIsFree == NewId \notin Rows
  <1>1. PICK x \in Rows \cup {0} : \A y \in Rows \cup {0} : x >= y
    <2>1. Rows \cup {0} \in SUBSET (0 .. MaxConns) /\ MaxConns \in Nat
      BY BoundAssumption DEF Rows, Ids
    <2> QED
      BY <2>1, HasGreatest
  <1>2. \A y \in Rows : Max(Rows \cup {0}) >= y
    BY <1>1 DEF Max
  <1>3. Max(Rows \cup {0}) \in Nat
    BY <1>1, BoundAssumption DEF Max, Rows, Ids
  <1> QED
    BY <1>2, <1>3 DEF NewId

-----------------------------------------------------------------------------
(* Types. *)

WaitOK(q) ==
  /\ q \in Wait
  /\ q.kind \in RowKinds <=> q.conn # 0
  /\ q.kind # "idle" => q.key \in Keys
  /\ q.kind \in {"verify", "quickdeploy"} => q.host \in Hosts

ConnOK(row) ==
  /\ row \in Conn \cup {NoConn}
  /\ row.key # None => Exists(row.key)

LEMMA TypeUnfolded ==
  TypeOK <=>
    /\ keys \in [Keys -> {None, "plain", "system", "gone"}]
    /\ DOMAIN conns = Ids /\ conns = [c \in Ids |-> conns[c]]
    /\ \A c \in Ids : ConnOK(conns[c])
    /\ DOMAIN req = Requests /\ req = [r \in Requests |-> req[r]]
    /\ \A r \in Requests : WaitOK(req[r])
    /\ file \in [Types -> Keys \cup {None}]
    /\ works \subseteq Ids \X Keys /\ raced \subseteq Ids /\ lost \subseteq Ids
    /\ asked \in 0 .. MaxAsked /\ faults \in 0 .. MaxFaults
  BY DEF TypeOK, ConnOK, WaitOK

LEMMA IdleOK == WaitOK(Idle)
  BY DEF WaitOK, Idle, Wait, RowKinds

LEMMA InitType == Init => TypeOK
  <1>2. ASSUME Init PROVE TypeOK
    BY <1>2, IdleOK, BoundAssumption DEF Init, TypeOK, NoConn, WaitOK
  <1> QED
    BY <1>2

\* A step that writes at most one row of each table, and deletes no key.
LEMMA TypeKept ==
  ASSUME TypeOK,
         keys' \in [Keys -> {None, "plain", "system", "gone"}],
         \A k \in Keys : Exists(k) => keys'[k] \in {"plain", "system"},
         \/ conns' = conns
         \/ \E c \in Ids : \E row : ConnOK(row) /\ conns' = [conns EXCEPT ![c] = row],
         \/ req' = req
         \/ \E r \in Requests : \E q : WaitOK(q) /\ req' = [req EXCEPT ![r] = q],
         file' \in [Types -> Keys \cup {None}],
         works' \subseteq Ids \X Keys, raced' \subseteq Ids, lost' \subseteq Ids,
         asked' \in 0 .. MaxAsked, faults' \in 0 .. MaxFaults
  PROVE  TypeOK'
  <1>1. conns' \in [Ids -> Conn \cup {NoConn}] /\ \A c \in Ids : ConnOK(conns'[c])
    BY DEF TypeOK, ConnOK
  <1>2. \A c \in Ids : conns'[c].key # None => keys'[conns'[c].key] \in {"plain", "system"}
    BY <1>1 DEF ConnOK, Conn, NoConn, Exists
  <1>3. req' \in [Requests -> Wait] /\ \A r \in Requests : WaitOK(req'[r])
    BY DEF TypeOK, WaitOK
  <1> QED
    BY <1>1, <1>2, <1>3 DEF TypeOK, WaitOK, Exists

\* A step that leaves the keys and their files alone, and loses nothing.
LEMMA RowsWritten ==
  ASSUME TypeOK, UNCHANGED <<keys, file, raced, lost, faults>>,
         \/ conns' = conns
         \/ \E c \in Ids : \E row : ConnOK(row) /\ conns' = [conns EXCEPT ![c] = row],
         \/ req' = req
         \/ \E r \in Requests : \E q : WaitOK(q) /\ req' = [req EXCEPT ![r] = q],
         works' \subseteq Ids \X Keys, asked' \in 0 .. MaxAsked
  PROVE  TypeOK'
  <1>1. \A k \in Keys : Exists(k) => keys'[k] \in {"plain", "system"}
    BY DEF Exists
  <1> QED
    BY <1>1, TypeKept DEF TypeOK

\* The requests that only start to wait.
Asks(r, q) == Ask(r, q) /\ WaitOK(q) /\ UNCHANGED <<keys, conns, file, works, raced, lost, faults>>

LEMMA AsksType ==
  ASSUME TypeOK, NEW r \in Requests, NEW q, Asks(r, q)
  PROVE  TypeOK'
  <1>1. asked' \in 0 .. MaxAsked
    BY BoundAssumption DEF Asks, Ask, TypeOK
  <1>2. \E o \in Requests : \E x : WaitOK(x) /\ req' = [req EXCEPT ![o] = x]
    BY DEF Asks, Ask
  <1>3. UNCHANGED <<keys, conns, file, works, raced, lost, faults>> /\ works \subseteq Ids \X Keys
    BY DEF Asks, TypeOK
  <1> QED
    BY <1>1, <1>2, <1>3, RowsWritten

LEMMA KeyAsks ==
  ASSUME TypeOK, NEW r \in Requests, NEW k \in Keys,
         AskSystemKey(r, k) \/ AskPairKey(r, k) \/ AskQuickSetup(r, k)
  PROVE  \E q : Asks(r, q) /\ q.conn = 0
  <1>1. ASSUME NEW q, Ask(r, q), q \in Wait, q.kind \in KeyKinds, q.key = k, q.conn = 0
        PROVE  Asks(r, q) /\ q.conn = 0
    BY <1>1 DEF Asks, WaitOK, KeyKinds, RowKinds, AskSystemKey, AskPairKey, AskQuickSetup
  <1>2. CASE AskSystemKey(r, k)
    <2> DEFINE q == [Idle EXCEPT !.kind = "generate", !.key = k]
    <2>1. Ask(r, q) /\ q \in Wait /\ q.kind \in KeyKinds /\ q.key = k /\ q.conn = 0
      BY <1>2 DEF AskSystemKey, Wait, Idle, KeyKinds
    <2> QED
      BY <1>1, <2>1
  <1>3. CASE AskPairKey(r, k)
    <2> DEFINE q == [Idle EXCEPT !.kind = "pair", !.key = k]
    <2>1. Ask(r, q) /\ q \in Wait /\ q.kind \in KeyKinds /\ q.key = k /\ q.conn = 0
      BY <1>3 DEF AskPairKey, Wait, Idle, KeyKinds
    <2> QED
      BY <1>1, <2>1
  <1>4. CASE AskQuickSetup(r, k)
    <2>1. PICK h \in Hosts \cup {None} : Ask(r, [Idle EXCEPT !.kind = "quick", !.key = k, !.host = h])
      BY <1>4 DEF AskQuickSetup
    <2> DEFINE q == [Idle EXCEPT !.kind = "quick", !.key = k, !.host = h]
    <2>2. Ask(r, q) /\ q \in Wait /\ q.kind \in KeyKinds /\ q.key = k /\ q.conn = 0
      BY <2>1 DEF Wait, Idle, KeyKinds
    <2> QED
      BY <1>1, <2>2
  <1> QED
    BY <1>2, <1>3, <1>4

LEMMA VerifyAsks ==
  ASSUME TypeOK, NEW r \in Requests, NEW k \in Keys, NEW h \in Hosts, Verify(r, k, h)
  PROVE  \E q : Asks(r, q) /\ q.conn = 0
  <1> DEFINE q == [Idle EXCEPT !.kind = "verify", !.key = k, !.host = h]
  <1>1. WaitOK(q) /\ q.conn = 0
    BY DEF WaitOK, Wait, Idle, KeyKinds, RowKinds
  <1> QED
    BY <1>1 DEF Asks, Verify

LEMMA RedeployAsks ==
  ASSUME TypeOK, NEW r \in Requests, NEW c \in Ids, Redeploy(r, c)
  PROVE  \E k \in SystemKeys :
            LET q == [Idle EXCEPT !.kind = "redeploy", !.key = k, !.conn = c, !.seen = conns[c]]
            IN  Asks(r, q)
  <1>1. PICK k \in SystemKeys :
          Ask(r, [Idle EXCEPT !.kind = "redeploy", !.key = k, !.conn = c, !.seen = conns[c]])
    BY DEF Redeploy
  <1> DEFINE q == [Idle EXCEPT !.kind = "redeploy", !.key = k, !.conn = c, !.seen = conns[c]]
  <1>2. conns[c] \in Conn \cup {NoConn} /\ c # 0 /\ k \in Keys
    BY DEF TypeOK, Ids, SystemKeys
  <1>3. WaitOK(q)
    BY <1>2 DEF WaitOK, Wait, Idle, KeyKinds, RowKinds
  <1> QED
    BY <1>1, <1>3 DEF Asks, Redeploy

\* A row of the table, and what the key of one that exists is.
LEMMA RowType ==
  ASSUME TypeOK, NEW c \in Rows
  PROVE  /\ c \in Ids /\ conns[c] \in Conn /\ conns[c].host \in Hosts
         /\ ConnOK(conns[c])
  BY DEF TypeOK, Rows, Conn, ConnOK

LEMMA NewRowOK ==
  ASSUME NEW k \in Keys, Exists(k), NEW h \in Hosts, NEW status \in Statuses
  PROVE  LET row == [key |-> k, host |-> h, status |-> status]
         IN  ConnOK(row) /\ row # NoConn
  BY DEF ConnOK, Conn, Statuses, NoConn, None

\* A request that has a row tested: the row is its own, with its key.
Starts(r, c, row, q) ==
  /\ WaitOK(q) /\ q.kind \in {"deploy", "test", "retest"} /\ q.conn = c
  /\ c \in Ids /\ ConnOK(row) /\ row.status = "testing" /\ row.key = q.key
  /\ c \in Rows => conns[c].key \in {q.key, None}
  /\ conns' = [conns EXCEPT ![c] = row] /\ Ask(r, q)
  /\ UNCHANGED <<keys, file, works, raced, lost, faults>>

LEMMA ForKeyStarts ==
  ASSUME TypeOK, NEW r \in Requests, NEW k \in Keys, NEW h \in Hosts,
         NEW kind \in {"deploy", "test"}, AskForKey(r, kind, k, h)
  PROVE  \E c \in Ids : \E row, q : Starts(r, c, row, q)
  <1> DEFINE new == [key |-> k, host |-> h, status |-> "testing"]
             wait == [Idle EXCEPT !.kind = kind, !.key = k]
  <1>0. Exists(k)
    BY DEF AskForKey
  <1>1. ASSUME NEW c \in Ids, Ask(r, [wait EXCEPT !.conn = c]),
               NEW row, ConnOK(row), row.status = "testing", row.key = k,
               c \in Rows => conns[c].key = k,
               conns' = [conns EXCEPT ![c] = row]
        PROVE  \E x \in Ids : \E rr, q : Starts(r, x, rr, q)
    <2> DEFINE q == [wait EXCEPT !.conn = c]
    <2>0. c # 0
      BY DEF Ids
    <2>1. q \in Wait /\ q.kind \in {"deploy", "test"} /\ q.key = k /\ q.conn = c
      BY DEF Wait, Idle, RowKinds
    <2>2. Ask(r, q)
      BY <1>1
    <2> HIDE DEF q
    <2>3. WaitOK(q)
      BY <2>0, <2>1 DEF WaitOK, RowKinds
    <2> QED
      BY <1>1, <2>1, <2>2, <2>3 DEF Starts, AskForKey
  <1>2. CASE Find(k, h) = {} /\ Insert(new) /\ Ask(r, [wait EXCEPT !.conn = NewId])
    <2>1. ConnOK(new) /\ new.status = "testing" /\ new.key = k
      BY <1>0, NewRowOK DEF Statuses
    <2>2. NewId \in Ids /\ conns' = [conns EXCEPT ![NewId] = new] /\ NewId \notin Rows
      BY <1>2, NewIdIsFree DEF Insert
    <2> HIDE DEF new, wait
    <2> QED
      BY <1>1, <1>2, <2>1, <2>2
  <1>3. ASSUME NEW c \in Find(k, h), conns' = [conns EXCEPT ![c].status = "testing"],
               Ask(r, [wait EXCEPT !.conn = c])
        PROVE  \E x \in Ids : \E row, q : Starts(r, x, row, q)
    <2> DEFINE row == [conns[c] EXCEPT !.status = "testing"]
    <2>1. c \in Rows /\ conns[c].key = k
      BY DEF Find
    <2>2. c \in Ids /\ conns[c] \in Conn /\ ConnOK(conns[c])
      BY <2>1, RowType
    <2>3. ConnOK(row) /\ row.status = "testing" /\ row.key = k
      BY <2>1, <2>2 DEF ConnOK, Conn, Statuses
    <2>4. conns' = [conns EXCEPT ![c] = row]
      BY <1>3
    <2> HIDE DEF row, wait
    <2> QED
      BY <1>1, <1>3, <2>1, <2>2, <2>3, <2>4
  <1> QED
    BY <1>2, <1>3 DEF AskForKey

LEMMA RetestStarts ==
  ASSUME TypeOK, NEW r \in Requests, NEW c \in Ids, Retest(r, c)
  PROVE  \E row, q : Starts(r, c, row, q)
  <1>1. PICK k \in KeysFor(c) :
          /\ conns' = [conns EXCEPT ![c].key = k, ![c].status = "testing"]
          /\ Ask(r, [Idle EXCEPT !.kind = "retest", !.key = k, !.conn = c])
    BY DEF Retest
  <1> DEFINE row == [conns[c] EXCEPT !.key = k, !.status = "testing"]
             q == [Idle EXCEPT !.kind = "retest", !.key = k, !.conn = c]
  <1>2. c \in Rows /\ UNCHANGED <<keys, file, works, raced, lost, faults>>
    BY DEF Retest
  <1>3. conns[c] \in Conn /\ ConnOK(conns[c])
    BY <1>2, RowType
  <1>4. k \in Keys /\ Exists(k) /\ conns[c].key \in {k, None}
    BY <1>3, NullAssumption DEF KeysFor, SystemKeys, Exists, ConnOK, Conn
  <1>5. ConnOK(row) /\ row.status = "testing" /\ row.key = k
    BY <1>3, <1>4 DEF ConnOK, Conn, Statuses
  <1>6. q \in Wait /\ q.kind = "retest" /\ q.key = k /\ q.conn = c
    BY <1>4 DEF Wait, Idle, RowKinds
  <1>7. c # 0
    BY DEF Ids
  <1>8. WaitOK(q)
    BY <1>4, <1>6, <1>7 DEF WaitOK, RowKinds
  <1>9. conns' = [conns EXCEPT ![c] = row] /\ Ask(r, q)
    BY <1>1, <1>3 DEF TypeOK
  <1> HIDE DEF row, q
  <1> QED
    BY <1>2, <1>4, <1>5, <1>6, <1>8, <1>9 DEF Starts

LEMMA StartsType ==
  ASSUME TypeOK, NEW r \in Requests, NEW c \in Ids, NEW row, NEW q, Starts(r, c, row, q)
  PROVE  TypeOK'
  <1>1. asked' \in 0 .. MaxAsked /\ works' \subseteq Ids \X Keys
    BY BoundAssumption DEF Starts, Ask, TypeOK
  <1>2. \E o \in Requests : \E x : WaitOK(x) /\ req' = [req EXCEPT ![o] = x]
    BY DEF Starts, Ask
  <1>3. \E x \in Ids : \E rr : ConnOK(rr) /\ conns' = [conns EXCEPT ![x] = rr]
    BY DEF Starts
  <1>4. UNCHANGED <<keys, file, raced, lost, faults>>
    BY DEF Starts
  <1> QED
    BY <1>1, <1>2, <1>3, <1>4, RowsWritten

\* A row that is written as a command ends: what is newly known to work is its key.
Concludes(r, c, row) ==
  /\ c \in Ids /\ ConnOK(row) /\ row # NoConn
  /\ conns' = [conns EXCEPT ![c] = row] /\ req' = [req EXCEPT ![r] = Idle]
  /\ \/ works' = works
     \/ \E k \in Keys : works' = works \cup {<<c, k>>}
  /\ UNCHANGED <<keys, file, raced, lost, asked, faults>>

ConcludesNothing(r) ==
  req' = [req EXCEPT ![r] = Idle] /\ UNCHANGED <<keys, conns, file, works, raced, lost, asked, faults>>

LEMMA ConcludesType ==
  ASSUME TypeOK, NEW r \in Requests,
         ConcludesNothing(r) \/ \E c \in Ids : \E row : Concludes(r, c, row)
  PROVE  TypeOK'
  <1>1. \E o \in Requests : \E x : WaitOK(x) /\ req' = [req EXCEPT ![o] = x]
    BY IdleOK DEF Concludes, ConcludesNothing
  <1>2. \/ conns' = conns
        \/ \E c \in Ids : \E row : ConnOK(row) /\ conns' = [conns EXCEPT ![c] = row]
    BY DEF Concludes, ConcludesNothing
  <1>3. works' \subseteq Ids \X Keys /\ UNCHANGED <<keys, file, raced, lost, faults>>
    BY DEF Concludes, ConcludesNothing, TypeOK
  <1>4. asked' \in 0 .. MaxAsked
    BY DEF Concludes, ConcludesNothing, TypeOK
  <1> QED
    BY <1>1, <1>2, <1>3, <1>4, RowsWritten

\* A new row, connected or failed.
LEMMA InsertConcludes ==
  ASSUME TypeOK, NEW r \in Requests, NEW k \in Keys, Exists(k), NEW h \in Hosts,
         NEW status \in Statuses,
         LET row == [key |-> k, host |-> h, status |-> status] IN Insert(row),
         Over(r), works' = works \/ works' = works \cup {<<NewId, k>>},
         UNCHANGED <<keys, file, raced, lost, faults>>
  PROVE  \E row : /\ Concludes(r, NewId, row) /\ NewId \notin Rows
                  /\ row.key = k /\ row.status = status
  <1> DEFINE row == [key |-> k, host |-> h, status |-> status]
  <1>1. ConnOK(row) /\ row # NoConn /\ row.key = k /\ row.status = status
    BY NewRowOK
  <1>2. NewId \in Ids /\ conns' = [conns EXCEPT ![NewId] = row]
    BY DEF Insert
  <1> HIDE DEF row
  <1> QED
    BY <1>1, <1>2, NewIdIsFree DEF Concludes, Over, End

LEMMA QuickDeployedConcludes ==
  ASSUME TypeOK, NEW r \in Requests, QuickDeployed(r)
  PROVE  \/ ConcludesNothing(r)
         \/ \E row : /\ Concludes(r, NewId, row) /\ NewId \notin Rows
                     /\ \/ row.status = "failed"
                        \/ row.status = "connected" /\ <<NewId, row.key>> \in works'
  <1> DEFINE k == req[r].key
             h == req[r].host
  <1>1. k \in Keys /\ h \in Hosts /\ Over(r) /\ UNCHANGED <<keys, file, raced, lost, faults>>
    BY DEF QuickDeployed, Waits, TypeOK
  <1>2. CASE ~Exists(k)
    BY <1>2 DEF QuickDeployed, ConcludesNothing, Over, End
  <1>3. ASSUME Exists(k), NEW status \in {"connected", "failed"},
               Insert([key |-> k, host |-> h, status |-> status]),
               works' = works \/ works' = works \cup {<<NewId, k>>}
        PROVE  \E row : /\ Concludes(r, NewId, row) /\ NewId \notin Rows
                        /\ row.key = k /\ row.status = status
    <2>1. status \in Statuses
      BY DEF Statuses
    <2> HIDE DEF k, h
    <2> QED
      BY <1>1, <1>3, <2>1, InsertConcludes
  <1>4. CASE /\ Exists(k) /\ Insert([key |-> k, host |-> h, status |-> "connected"])
             /\ works' = works \cup {<<NewId, k>>}
    <2>1. <<NewId, k>> \in works'
      BY <1>4
    <2> HIDE DEF k, h
    <2> QED
      BY <1>3, <1>4, <2>1
  <1>5. CASE /\ Exists(k) /\ Insert([key |-> k, host |-> h, status |-> "failed"])
             /\ works' = works
    <2> HIDE DEF k, h
    <2> QED
      BY <1>3, <1>5
  <1> QED
    BY <1>2, <1>4, <1>5 DEF QuickDeployed

LEMMA VerifiedConcludes ==
  ASSUME TypeOK, NEW r \in Requests, Verified(r)
  PROVE  \/ ConcludesNothing(r)
         \/ \E c \in Ids : \E row :
              /\ Concludes(r, c, row) /\ row.status = "connected"
              /\ <<c, row.key>> \in works'
              /\ c \in Rows => row.key = conns[c].key
  <1> DEFINE k == req[r].key
             h == req[r].host
             new == [key |-> k, host |-> h, status |-> "connected"]
  <1>1. k \in Keys /\ h \in Hosts /\ Over(r) /\ UNCHANGED <<keys, file, raced, lost, faults>>
    BY DEF Verified, Waits, TypeOK
  <1>2. CASE UNCHANGED <<conns, works>>
    BY <1>1, <1>2 DEF ConcludesNothing, Over, End
  <1>3. ASSUME NEW c \in Find(k, h), conns' = [conns EXCEPT ![c].status = "connected"],
               works' = works \cup {<<c, k>>}
        PROVE  \E x \in Ids : \E row :
                 /\ Concludes(r, x, row) /\ row.status = "connected"
                 /\ <<x, row.key>> \in works'
                 /\ x \in Rows => row.key = conns[x].key
    <2> DEFINE row == [conns[c] EXCEPT !.status = "connected"]
    <2>1. c \in Rows /\ conns[c].key = k
      BY DEF Find
    <2>2. c \in Ids /\ conns[c] \in Conn /\ ConnOK(conns[c])
      BY <2>1, RowType
    <2>3. ConnOK(row) /\ row.status = "connected" /\ row.key = k /\ row # NoConn
      BY <2>1, <2>2 DEF ConnOK, Conn, Statuses, NoConn, None
    <2>4. conns' = [conns EXCEPT ![c] = row] /\ <<c, k>> \in works'
      BY <1>3
    <2>5. \E x \in Keys : works' = works \cup {<<c, x>>}
      BY <1>1, <1>3
    <2> HIDE DEF row, k, h, new
    <2> QED
      BY <1>1, <2>1, <2>2, <2>3, <2>4, <2>5 DEF Concludes, Over, End
  <1>4. CASE Exists(k) /\ Insert(new) /\ works' = works \cup {<<NewId, k>>}
    <2>1. "connected" \in Statuses /\ <<NewId, k>> \in works' /\ NewId \in Ids
      BY <1>4 DEF Statuses, Insert
    <2>2. Insert([key |-> k, host |-> h, status |-> "connected"])
      BY <1>4
    <2> HIDE DEF k, h, new
    <2>3. \E row : /\ Concludes(r, NewId, row) /\ NewId \notin Rows
                   /\ row.key = k /\ row.status = "connected"
      BY <1>1, <1>4, <2>1, <2>2, InsertConcludes
    <2> QED
      BY <2>1, <2>3
  <1> QED
    BY <1>2, <1>3, <1>4 DEF Verified

\* What an answer writes: the key of the row changes only if it was deployed again.
LEMMA AnsweredRowType ==
  ASSUME NEW q \in Wait, NEW row \in Conn, NEW result \in {"connected", "failed"}
  PROVE  LET new == AnsweredRow(q, result, row)
         IN  /\ new \in Conn
             /\ q.kind # "redeploy" => new.key = row.key /\ new.status = result
             /\ q.kind = "redeploy" =>
                   /\ new.status \in {result, row.status}
                   /\ result = "failed" => new.key = row.key
                   /\ result = "failed" /\ q.seen.status = "failed" => new = row
                   /\ result = "failed" /\ q.seen.status # "failed" => new.status = "failed"
                   /\ result = "connected" =>
                         \/ new.key = q.key
                         \/ new.key = row.key /\ q.seen.key = q.key
  <1>1. CASE q.kind # "redeploy"
    BY <1>1 DEF AnsweredRow, Conn, Statuses
  <1>2. CASE q.kind = "redeploy"
    <2>1. CASE result = "connected"
      BY <1>2, <2>1 DEF AnsweredRow, Written, Conn, Statuses, Wait
    <2>2. CASE result = "failed"
      BY <1>2, <2>2 DEF AnsweredRow, Written, Conn, Statuses, Wait
    <2> QED
      BY <2>1, <2>2
  <1> QED
    BY <1>1, <1>2

LEMMA AnswerConcludes ==
  ASSUME TypeOK, NEW r \in Requests, Answer(r)
  PROVE  LET q == req[r]
             c == q.conn
         IN  \/ ConcludesNothing(r) /\ (c \in Rows => q.kind = "redeploy")
             \/ /\ c \in Rows
                /\ \E result \in {"connected", "failed"} :
                     /\ Concludes(r, c, AnsweredRow(q, result, conns[c]))
                     /\ works' = works \cup (IF result = "connected" THEN {<<c, q.key>>} ELSE {})
  <1> DEFINE q == req[r]
             c == q.conn
  <1>1. q.kind \in RowKinds /\ q \in Wait /\ q.key \in Keys /\ c \in Ids
    BY DEF Answer, TypeOK, RowKinds, Wait
  <1>2. /\ req' = [req EXCEPT ![r] = Idle]
        /\ UNCHANGED <<keys, file, raced, lost, asked, faults>>
    BY DEF Answer, Over, End
  <1>3. PICK result \in {"connected", "failed"} :
          LET row == AnsweredRow(q, result, conns[c])
          IN  IF c \in Rows /\ (row.key # None => Exists(row.key))
              THEN /\ conns' = [conns EXCEPT ![c] = row]
                   /\ works' = works \cup (IF result = "connected" THEN {<<c, q.key>>} ELSE {})
              ELSE UNCHANGED <<conns, works>>
    BY DEF Answer, Results, DeployResults, TestResults
  <1> DEFINE row == AnsweredRow(q, result, conns[c])
  <1>4. CASE c \in Rows /\ (row.key # None => Exists(row.key))
    <2>1. conns[c] \in Conn
      BY <1>4, RowType
    <2>2. row \in Conn
      BY <1>1, <2>1, AnsweredRowType
    <2>3. ConnOK(row) /\ row # NoConn
      BY <1>4, <2>2 DEF ConnOK, Conn, Statuses, NoConn, None
    <2>4. /\ conns' = [conns EXCEPT ![c] = row]
          /\ works' = works \cup (IF result = "connected" THEN {<<c, q.key>>} ELSE {})
      BY <1>3, <1>4
    <2>5. works' = works \/ \E k \in Keys : works' = works \cup {<<c, k>>}
      BY <1>1, <2>4
    <2>6. Concludes(r, c, row)
      BY <1>1, <1>2, <2>3, <2>4, <2>5 DEF Concludes
    <2> QED
      BY <1>4, <2>4, <2>6
  <1>5. CASE ~(c \in Rows /\ (row.key # None => Exists(row.key)))
    <2>1. ConcludesNothing(r)
      BY <1>2, <1>3, <1>5 DEF ConcludesNothing
    <2>2. ASSUME c \in Rows, q.kind # "redeploy"
          PROVE  FALSE
      <3>1. conns[c] \in Conn /\ ConnOK(conns[c])
        BY <2>2, RowType
      <3>2. row.key = conns[c].key
        BY <1>1, <2>2, <3>1, AnsweredRowType
      <3> QED
        BY <1>5, <2>2, <3>1, <3>2 DEF ConnOK
    <2> QED
      BY <2>1, <2>2
  <1> QED
    BY <1>4, <1>5

LEMMA DeployedFileType ==
  ASSUME NEW f \in [Types -> Keys \cup {None}], NEW set \in SUBSET Keys,
         NEW g \in DeployedFile(f, set)
  PROVE  g \in [Types -> Keys \cup {None}]
  BY DEF DeployedFile

\* A key is made or it is not; no row of a connection is written.
KeyMade(r) ==
  KeyNotMade(r) \/ SystemKeyMade(r) \/ PairKeyMade(r) \/ QuickKeyMade(r)

LEMMA KeyMadeType ==
  ASSUME TypeOK, NEW r \in Requests, KeyMade(r)
  PROVE  /\ TypeOK'
         /\ req[r].conn = 0 /\ req'[r].conn = 0
         /\ UNCHANGED <<conns, works, raced, lost>>
         /\ \A o \in Requests \ {r} : req'[o] = req[o]
  <1> DEFINE k == req[r].key
  <1>1. req[r].kind \in KeyKinds /\ k \in Keys /\ req[r] \in Wait /\ WaitOK(req[r])
    BY TypeUnfolded DEF KeyMade, KeyNotMade, SystemKeyMade, PairKeyMade, QuickKeyMade, Waits,
       KeyKinds, WaitOK
  <1>2. UNCHANGED <<conns, works, raced, lost, asked, faults>>
    BY DEF KeyMade, KeyNotMade, SystemKeyMade, PairKeyMade, QuickKeyMade, Over
  <1>3. PICK q : WaitOK(q) /\ q.conn = 0 /\ req' = [req EXCEPT ![r] = q]
    <2>1. CASE req' = [req EXCEPT ![r] = Idle]
      BY <2>1, IdleOK DEF Idle
    <2>2. CASE req' = [req EXCEPT ![r].kind = "quickdeploy"] /\ req[r].host # None
      <3> DEFINE q == [req[r] EXCEPT !.kind = "quickdeploy"]
      <3>1. q \in Wait /\ q.kind = "quickdeploy" /\ q.key = k /\ q.host \in Hosts /\ q.conn = req[r].conn
        BY <1>1, <2>2 DEF Wait
      <3>2. req' = [req EXCEPT ![r] = q]
        BY <2>2
      <3> HIDE DEF q
      <3> QED
        BY <1>1, <3>1, <3>2 DEF WaitOK, RowKinds, KeyKinds
    <2> QED
      BY <2>1, <2>2 DEF KeyMade, KeyNotMade, SystemKeyMade, PairKeyMade, QuickKeyMade, Over, End
  <1>4. /\ keys' \in [Keys -> {None, "plain", "system", "gone"}]
        /\ \A x \in Keys : Exists(x) => keys'[x] \in {"plain", "system"}
    BY <1>1 DEF KeyMade, KeyNotMade, SystemKeyMade, PairKeyMade, QuickKeyMade, TypeOK, Exists, None
  <1>5. file' \in [Types -> Keys \cup {None}]
    <2>1. file \in [Types -> Keys \cup {None}] /\ SystemKeys \cup {k} \in SUBSET Keys
      BY <1>1 DEF TypeOK, SystemKeys
    <2> QED
      BY <2>1, DeployedFileType
      DEF KeyMade, KeyNotMade, SystemKeyMade, PairKeyMade, QuickKeyMade
  <1>6. TypeOK'
    BY <1>2, <1>3, <1>4, <1>5, TypeKept DEF TypeOK
  <1> QED
    BY <1>1, <1>2, <1>3, <1>6 DEF TypeOK, WaitOK, RowKinds, KeyKinds

LEMMA AnswerFailsType ==
  ASSUME TypeOK, NEW r \in Requests, AnswerFails(r)
  PROVE  TypeOK'
  <1>1. /\ req' = [req EXCEPT ![r] = Idle] /\ UNCHANGED <<keys, conns, file, works, raced, asked>>
        /\ lost' = lost \cup {req[r].conn} /\ faults' \in 0 .. MaxFaults
    BY BoundAssumption DEF AnswerFails, Over, End, Fault, TypeOK
  <1>2. req[r].conn \in Ids
    BY DEF AnswerFails, TypeOK, Wait
  <1>3. \A k \in Keys : Exists(k) => keys'[k] \in {"plain", "system"}
    BY <1>1 DEF Exists
  <1> QED
    BY <1>1, <1>2, <1>3, IdleOK, TypeKept DEF TypeOK

LEMMA RestartType ==
  ASSUME TypeOK, Restart
  PROVE  TypeOK'
  <1>1. SystemKeys \in SUBSET Keys /\ file \in [Types -> Keys \cup {None}]
    BY DEF SystemKeys, TypeOK
  <1>2. file' \in [Types -> Keys \cup {None}]
    BY <1>1, DeployedFileType DEF Restart
  <1>3. Awaited \subseteq Ids /\ faults' \in 0 .. MaxFaults
    BY BoundAssumption DEF Awaited, TypeOK, Wait, Restart, Fault
  <1>4. req' = [r \in Requests |-> Idle] /\ UNCHANGED <<keys, conns, works, raced, asked>>
    BY DEF Restart
  <1>5. lost' \subseteq Ids /\ req' \in [Requests -> Wait] /\ \A r \in Requests : WaitOK(req'[r])
    BY <1>3, <1>4, IdleOK DEF Restart, TypeOK, WaitOK
  <1> QED
    BY <1>2, <1>3, <1>4, <1>5 DEF TypeOK, WaitOK, Exists

LEMMA DeleteKeyType ==
  ASSUME TypeOK, NEW k \in Keys, DeleteKey(k)
  PROVE  /\ TypeOK'
         /\ UNCHANGED <<req, works, lost>> /\ raced \subseteq raced'
         /\ \A c \in Ids :
              \/ conns'[c] = conns[c]
              \/ conns'[c].status = "failed" /\ (c \in Awaited => c \in raced')
  <1> DEFINE of == {c \in Rows : conns[c].key = k}
  <1>1. conns' = [c \in Ids |-> IF c \in of THEN Keyless(conns[c]) ELSE conns[c]]
    BY DEF DeleteKey
  <1>2. /\ raced' = raced \cup (of \cap Awaited) /\ keys' = [keys EXCEPT ![k] = "gone"]
        /\ file' = [file EXCEPT ![Type[k]] = None] /\ UNCHANGED <<req, works, lost, asked, faults>>
    BY DEF DeleteKey
  <1>3. ASSUME NEW c \in Ids, c \in of
        PROVE  /\ conns'[c] \in Conn /\ conns'[c].key = None /\ conns'[c].status = "failed"
    <2>1. conns[c] \in Conn
      BY <1>3, RowType
    <2> QED
      BY <1>1, <1>3, <2>1 DEF Keyless, Conn, Statuses
  <1>4. ASSUME NEW c \in Ids, c \notin of
        PROVE  conns'[c] = conns[c] /\ conns[c].key # k
    BY <1>1, <1>4, NullAssumption DEF Rows, NoConn
  <1>5. conns' \in [Ids -> Conn \cup {NoConn}]
    BY <1>1, <1>3, <1>4 DEF TypeOK
  <1>6. \A c \in Ids : conns'[c].key # None => keys'[conns'[c].key] \in {"plain", "system"}
    BY <1>2, <1>3, <1>4 DEF TypeOK, Exists
  <1>7. raced' \subseteq Ids /\ file' \in [Types -> Keys \cup {None}]
    BY <1>2 DEF TypeOK, Rows
  <1>8. keys' \in [Keys -> {None, "plain", "system", "gone"}]
    BY <1>2 DEF TypeOK
  <1>9. TypeOK'
    BY <1>2, <1>5, <1>6, <1>7, <1>8 DEF TypeOK, Exists
  <1> QED
    BY <1>2, <1>3, <1>4, <1>9

LEMMA UpdateType ==
  ASSUME TypeOK, NEW c \in Ids, NEW h \in Hosts, UpdateConnection(c, h)
  PROVE  /\ TypeOK' /\ UNCHANGED <<req, works, raced, lost>>
         /\ \A i \in Ids : /\ conns'[i].key = conns[i].key /\ conns'[i].status = conns[i].status
                           /\ conns[i] # NoConn => conns'[i] # NoConn
  <1> DEFINE row == [conns[c] EXCEPT !.host = h]
  <1>1. c \in Rows /\ conns[c] \in Conn /\ ConnOK(conns[c])
    BY RowType DEF UpdateConnection
  <1>2. /\ ConnOK(row) /\ row # NoConn /\ row.key = conns[c].key /\ row.status = conns[c].status
    BY <1>1 DEF ConnOK, Conn, Statuses, NoConn, None
  <1>3. /\ conns' = [conns EXCEPT ![c] = row]
        /\ UNCHANGED <<keys, req, file, works, raced, lost, asked, faults>>
    BY DEF UpdateConnection
  <1> HIDE DEF row
  <1>4. TypeOK'
    BY <1>2, <1>3, RowsWritten DEF TypeOK
  <1> QED
    BY <1>2, <1>3, <1>4 DEF TypeOK

LEMMA RefreshType ==
  ASSUME TypeOK, NEW c \in Ids, RefreshStorage(c)
  PROVE  /\ TypeOK' /\ UNCHANGED <<req, works, raced, lost>>
         /\ conns[c].key = None
         /\ \A i \in Ids : /\ i # c => conns'[i] = conns[i]
                           /\ conns'[i].status = conns[i].status
                           /\ conns[i] # NoConn => conns'[i] # NoConn
  <1>1. PICK k \in SystemKeys : conns' = [conns EXCEPT ![c].key = k]
    BY DEF RefreshStorage
  <1> DEFINE row == [conns[c] EXCEPT !.key = k]
  <1>2. conns[c].key = None /\ c \in Rows /\ conns[c] \in Conn /\ k \in Keys /\ Exists(k)
    BY RowType DEF RefreshStorage, SystemKeys, Exists
  <1>3. /\ ConnOK(row) /\ row # NoConn /\ row.status = conns[c].status
    BY <1>2 DEF ConnOK, Conn, Statuses, NoConn, None
  <1>4. /\ conns' = [conns EXCEPT ![c] = row]
        /\ UNCHANGED <<keys, req, file, works, raced, lost, asked, faults>>
    BY <1>1 DEF RefreshStorage
  <1> HIDE DEF row
  <1>5. TypeOK'
    BY <1>3, <1>4, RowsWritten DEF TypeOK
  <1> QED
    BY <1>2, <1>3, <1>4, <1>5 DEF TypeOK

LEMMA DeleteConnectionType ==
  ASSUME TypeOK, NEW c \in Ids, DeleteConnection(c)
  PROVE  /\ TypeOK' /\ UNCHANGED <<req, lost>> /\ raced \subseteq raced'
         /\ conns'[c] = NoConn /\ (c \in Awaited => c \in raced')
         /\ \A i \in Ids \ {c} : /\ conns'[i] = conns[i]
                                /\ \A k : <<i, k>> \in works => <<i, k>> \in works'
  <1>1. /\ conns' = [conns EXCEPT ![c] = NoConn]
        /\ UNCHANGED <<keys, req, file, lost, asked, faults>>
        /\ works' = {w \in works : w[1] # c}
        /\ raced' = IF c \in Awaited THEN raced \cup {c} ELSE raced
    BY DEF DeleteConnection
  <1>2. conns' \in [Ids -> Conn \cup {NoConn}] /\ \A i \in Ids : ConnOK(conns'[i])
    BY <1>1 DEF TypeOK, ConnOK, NoConn
  <1> QED
    BY <1>1, <1>2 DEF TypeOK, ConnOK, Exists

-----------------------------------------------------------------------------
(* What a step has to keep. *)

SafeInv == TestingIsWatched /\ ConnectedWithItsKey /\ AnswersFit

Watched(c, qs) == \E r \in Requests : qs[r].conn = c /\ qs[r].kind # "redeploy"

LEMMA TestingKept ==
  ASSUME TestingIsWatched, lost \subseteq lost',
         \A c \in Ids : conns'[c].status = "testing" =>
            \/ c \in lost' \/ Watched(c, req')
            \/ conns[c].status = "testing" /\ (Watched(c, req) => Watched(c, req'))
  PROVE  TestingIsWatched'
  <1> SUFFICES ASSUME NEW c \in Ids, conns'[c].status = "testing", c \notin lost'
               PROVE  Watched(c, req')
    BY DEF TestingIsWatched, Watched, Rows
  <1> QED
    BY DEF TestingIsWatched, Watched, Rows, NoConn, None

LEMMA ConnectedKept ==
  ASSUME ConnectedWithItsKey, raced \subseteq raced',
         \A c \in Ids : conns'[c].status = "connected" =>
            \/ c \in raced' \/ <<c, conns'[c].key>> \in works'
            \/ /\ conns[c].status = "connected" /\ conns'[c].key = conns[c].key
               /\ \A k : <<c, k>> \in works => <<c, k>> \in works'
  PROVE  ConnectedWithItsKey'
  <1> SUFFICES ASSUME NEW c \in Ids, conns'[c].status = "connected", c \notin raced'
               PROVE  <<c, conns'[c].key>> \in works'
    BY DEF ConnectedWithItsKey, Rows
  <1> QED
    BY DEF ConnectedWithItsKey, Rows, NoConn, None

\* The key of a row somebody waits to write is replaced only where there was none, or by
\* one that works.
RowKept(c) ==
  conns[c] # NoConn =>
    /\ conns'[c] # NoConn
    /\ \/ conns'[c].key = conns[c].key
       \/ conns[c].key = None
       \/ <<c, conns'[c].key>> \in works'
    /\ \A k : <<c, k>> \in works => <<c, k>> \in works'

LEMMA FitsKept ==
  ASSUME TypeOK, NEW q, WaitOK(q), Fits(q, conns, works, raced), raced \subseteq raced',
         q.kind \in RowKinds => q.conn \in raced' \/ RowKept(q.conn)
  PROVE  Fits(q, conns', works', raced')
  <1> SUFFICES ASSUME q.kind \in RowKinds, q.conn \notin raced'
               PROVE  /\ conns'[q.conn] # NoConn
                      /\ q.kind # "redeploy" \/ q.seen.key = q.key =>
                           conns'[q.conn].key = q.key \/ <<q.conn, conns'[q.conn].key>> \in works'
    BY DEF Fits
  <1> DEFINE c == q.conn
  <1>1. /\ conns[c] # NoConn /\ RowKept(c)
        /\ q.kind # "redeploy" \/ q.seen.key = q.key =>
              conns[c].key = q.key \/ <<c, conns[c].key>> \in works
    BY DEF Fits
  <1>2. <<c, None>> \notin works /\ q.key # None
    BY NullAssumption DEF TypeOK, WaitOK, RowKinds
  <1> QED
    BY <1>1, <1>2 DEF RowKept

LEMMA AnswersKept ==
  ASSUME TypeOK, AnswersFit, raced \subseteq raced',
         \A c \in Awaited \ raced' : RowKept(c),
         \A r \in Requests : req'[r] = req[r] \/ Fits(req'[r], conns', works', raced')
  PROVE  AnswersFit'
  <1> SUFFICES ASSUME NEW r \in Requests
               PROVE  Fits(req'[r], conns', works', raced')
    BY DEF AnswersFit, Fits
  <1>1. CASE req'[r] = req[r]
    <2>1. WaitOK(req[r]) /\ Fits(req[r], conns, works, raced)
      BY TypeUnfolded DEF AnswersFit
    <2>2. req[r].kind \in RowKinds => req[r].conn \in Awaited
      BY <2>1 DEF WaitOK, Awaited
    <2> QED
      BY <1>1, <2>1, <2>2, FitsKept
  <1> QED
    BY <1>1

\* No row is written, and no watched row loses its watcher.
LEMMA QuietKept ==
  ASSUME TypeOK, SafeInv, UNCHANGED <<conns, works, raced>>, lost \subseteq lost',
         \A r \in Requests :
            \/ req'[r] = req[r]
            \/ /\ req[r].conn \in lost' \cup {0}
               /\ Fits(req'[r], conns, works, raced)
  PROVE  SafeInv'
  <1>1. \A c \in Ids : c \in lost' \/ (Watched(c, req) => Watched(c, req'))
    <2>1. 0 \notin Ids
      BY DEF Ids
    <2> QED
      BY <2>1 DEF Watched
  <1>2. \A c \in Ids : RowKept(c)
    BY DEF RowKept
  <1>3. Awaited \subseteq Ids
    BY DEF Awaited, TypeOK, Wait
  <1>4. AnswersFit'
    BY <1>2, <1>3, AnswersKept DEF SafeInv
  <1>5. TestingIsWatched' /\ ConnectedWithItsKey'
    BY <1>1, TestingKept, ConnectedKept DEF SafeInv
  <1> QED
    BY <1>4, <1>5 DEF SafeInv

-----------------------------------------------------------------------------
(* The steps. *)

LEMMA AwaitedIds == ASSUME TypeOK PROVE Awaited \subseteq Ids /\ 0 \notin Ids
  BY DEF Awaited, TypeOK, Wait, Ids

LEMMA AsksStep ==
  ASSUME TypeOK, SafeInv, NEW r \in Requests, NEW q, Asks(r, q), Fits(q, conns, works, raced)
  PROVE  TypeOK' /\ SafeInv'
  <1>1. /\ req[r].conn = 0 /\ req' = [req EXCEPT ![r] = q]
        /\ UNCHANGED <<conns, works, raced, lost>>
    BY DEF Asks, Ask, Idle
  <1>2. \A o \in Requests :
           req'[o] = req[o] \/ (req[o].conn = 0 /\ Fits(req'[o], conns, works, raced))
    BY <1>1 DEF TypeOK
  <1> QED
    BY <1>1, <1>2, QuietKept, AsksType

LEMMA NoConnFits ==
  ASSUME NEW q, WaitOK(q), q.conn = 0, NEW cs, NEW ws, NEW spoilt
  PROVE  Fits(q, cs, ws, spoilt)
  BY DEF Fits, WaitOK

LEMMA StartsStep ==
  ASSUME TypeOK, SafeInv, NEW r \in Requests, NEW c \in Ids, NEW row, NEW q,
         Starts(r, c, row, q)
  PROVE  TypeOK' /\ SafeInv'
  <1>1. /\ conns' = [conns EXCEPT ![c] = row] /\ req' = [req EXCEPT ![r] = q]
        /\ req[r] = Idle /\ UNCHANGED <<works, raced, lost>>
        /\ q.conn = c /\ q.kind # "redeploy" /\ row.status = "testing" /\ row.key = q.key
        /\ c \in Rows => conns[c].key \in {q.key, None}
    BY DEF Starts, Ask
  <1>2. conns'[c] = row /\ \A i \in Ids \ {c} : conns'[i] = conns[i]
    BY <1>1 DEF TypeOK
  <1>3. req'[r] = q /\ \A o \in Requests \ {r} : req'[o] = req[o]
    BY <1>1 DEF TypeOK
  <1>4. TestingIsWatched'
    <2>1. \A i \in Ids : Watched(i, req) => Watched(i, req')
      <3>1. \A i \in Ids : ~(req[r].conn = i)
        BY <1>1, AwaitedIds DEF Idle
      <3> QED
        BY <1>3, <3>1 DEF Watched
    <2>2. Watched(c, req')
      BY <1>1, <1>3 DEF Watched
    <2> QED
      BY <1>1, <1>2, <2>1, <2>2, TestingKept DEF SafeInv
  <1>5. ConnectedWithItsKey'
    BY <1>1, <1>2, ConnectedKept DEF SafeInv
  <1>6. AnswersFit'
    <2>1. row # NoConn
      BY <1>1 DEF NoConn, None
    <2>2. \A i \in Ids : RowKept(i)
      BY <1>1, <1>2, <2>1 DEF RowKept, Rows
    <2>3. Fits(q, conns', works', raced')
      BY <1>1, <1>2, <2>1 DEF Fits
    <2> QED
      BY <1>1, <1>3, <2>2, <2>3, AwaitedIds, AnswersKept DEF SafeInv
  <1> QED
    BY <1>4, <1>5, <1>6, StartsType DEF SafeInv

\* The request that ends is the only one that changes.
LEMMA EndingFits ==
  ASSUME TypeOK, AnswersFit, NEW r \in Requests, req' = [req EXCEPT ![r] = Idle],
         raced' = raced, \A c \in Awaited : c \in raced \/ RowKept(c)
  PROVE  AnswersFit'
  <1>1. \A o \in Requests : req'[o] = req[o] \/ Fits(req'[o], conns', works', raced')
    BY IdleOK, NoConnFits DEF TypeOK, Idle
  <1> QED
    BY <1>1, AnswersKept

LEMMA NothingStep ==
  ASSUME TypeOK, SafeInv, NEW r \in Requests, ConcludesNothing(r),
         req[r].conn \in Rows => req[r].kind = "redeploy"
  PROVE  TypeOK' /\ SafeInv'
  <1>1. /\ req' = [req EXCEPT ![r] = Idle] /\ UNCHANGED <<conns, works, raced, lost>>
    BY DEF ConcludesNothing
  <1>2. \A c \in Rows : Watched(c, req) => Watched(c, req')
    BY <1>1 DEF Watched, TypeOK
  <1>3. \A c \in Ids : conns[c].status = "testing" => c \in Rows
    BY DEF Rows, NoConn, None
  <1>4. TestingIsWatched'
    BY <1>1, <1>2, <1>3, TestingKept DEF SafeInv
  <1>5. ConnectedWithItsKey'
    BY <1>1, ConnectedKept DEF SafeInv
  <1>6. AnswersFit'
    BY <1>1, EndingFits DEF SafeInv, RowKept
  <1> QED
    BY <1>4, <1>5, <1>6, ConcludesType DEF SafeInv

\* A row that is written by a request which watched none: nothing is said of another key.
LEMMA ConcludesStep ==
  ASSUME TypeOK, SafeInv, NEW r \in Requests, NEW c \in Ids, NEW row, Concludes(r, c, row),
         row.status = "testing" =>
            conns[c].status = "testing" /\ (req[r].conn = c => req[r].kind = "redeploy"),
         req[r].conn \in {0, c},
         row.status = "connected" =>
            \/ c \in raced \/ <<c, row.key>> \in works'
            \/ conns[c].status = "connected" /\ row.key = conns[c].key,
         c \in raced \/ RowKept(c)
  PROVE  TypeOK' /\ SafeInv'
  <1>1. /\ conns' = [conns EXCEPT ![c] = row] /\ req' = [req EXCEPT ![r] = Idle]
        /\ works \subseteq works' /\ UNCHANGED <<raced, lost>>
    BY DEF Concludes
  <1>2. conns'[c] = row /\ \A i \in Ids \ {c} : conns'[i] = conns[i]
    BY <1>1 DEF TypeOK
  <1>3. \A i \in Ids : \/ Watched(i, req) => Watched(i, req')
                       \/ i = c /\ req[r].conn = c /\ req[r].kind # "redeploy"
    <2>1. \A o \in Requests \ {r} : req'[o] = req[o]
      BY <1>1 DEF TypeOK
    <2> QED
      BY <2>1, AwaitedIds DEF Watched
  <1>4. TestingIsWatched'
    BY <1>1, <1>2, <1>3, TestingKept DEF SafeInv
  <1>5. ConnectedWithItsKey'
    BY <1>1, <1>2, ConnectedKept DEF SafeInv
  <1>6. \A i \in Awaited : i \in raced \/ RowKept(i)
    <2>1. \A i \in Ids \ {c} : RowKept(i)
      BY <1>1, <1>2 DEF RowKept
    <2> QED
      BY <2>1, AwaitedIds
  <1>7. AnswersFit'
    BY <1>1, <1>6, EndingFits DEF SafeInv
  <1> QED
    BY <1>4, <1>5, <1>7, ConcludesType DEF SafeInv

LEMMA AnswerStep ==
  ASSUME TypeOK, SafeInv, NEW r \in Requests, Answer(r)
  PROVE  TypeOK' /\ SafeInv'
  <1> DEFINE q == req[r]
             c == q.conn
  <1>1. q.kind \in RowKinds /\ q \in Wait /\ c \in Ids /\ Fits(q, conns, works, raced)
    BY DEF Answer, TypeOK, Wait, SafeInv, AnswersFit
  <1>2. CASE ConcludesNothing(r) /\ (c \in Rows => q.kind = "redeploy")
    BY <1>2, NothingStep
  <1>3. ASSUME c \in Rows, NEW result \in {"connected", "failed"},
               Concludes(r, c, AnsweredRow(q, result, conns[c])),
               works' = works \cup (IF result = "connected" THEN {<<c, q.key>>} ELSE {})
        PROVE  TypeOK' /\ SafeInv'
    <2> DEFINE row == AnsweredRow(q, result, conns[c])
    <2>1. conns[c] \in Conn
      BY <1>3, RowType
    <2>2. /\ row \in Conn
          /\ q.kind # "redeploy" => row.key = conns[c].key /\ row.status = result
          /\ q.kind = "redeploy" =>
                /\ row.status \in {result, conns[c].status}
                /\ result = "failed" => row.key = conns[c].key
                /\ result = "failed" /\ q.seen.status = "failed" => row = conns[c]
                /\ result = "failed" /\ q.seen.status # "failed" => row.status = "failed"
                /\ result = "connected" =>
                      \/ row.key = q.key
                      \/ row.key = conns[c].key /\ q.seen.key = q.key
      BY <1>1, <2>1, AnsweredRowType
    <2>3. Concludes(r, c, row) /\ works \subseteq works' /\ conns'[c] = row
      BY <1>1, <1>3 DEF Concludes, TypeOK
    <2> HIDE DEF row
    <2>4. result = "connected" /\ c \notin raced => <<c, row.key>> \in works'
      <3>1. result = "connected" => <<c, q.key>> \in works'
        BY <1>3
      <3> QED
        BY <1>1, <2>2, <2>3, <3>1 DEF Fits
    <2>5. row.status = "connected" =>
            \/ c \in raced \/ <<c, row.key>> \in works'
            \/ conns[c].status = "connected" /\ row.key = conns[c].key
      BY <2>2, <2>4
    <2>6. row.status = "testing" =>
            conns[c].status = "testing" /\ q.kind = "redeploy"
      BY <2>2
    <2>7. c \in raced \/ RowKept(c)
      <3>1. row # NoConn
        BY <2>2 DEF Conn, Statuses, NoConn, None
      <3> QED
        BY <2>2, <2>3, <2>4, <3>1 DEF RowKept
    <2> QED
      BY <1>1, <2>3, <2>5, <2>6, <2>7, ConcludesStep
  <1> QED
    BY <1>2, <1>3, AnswerConcludes

\* A step that starts no request and ends none.
LEMMA UnaskedStep ==
  ASSUME TypeOK, SafeInv,
         \/ \E k \in Keys : CreateKey(k) \/ DeleteKey(k)
         \/ \E c \in Ids : \/ \E h \in Hosts : UpdateConnection(c, h)
                           \/ RefreshStorage(c) \/ DeleteConnection(c)
  PROVE  TypeOK' /\ SafeInv'
  <1>1. ASSUME NEW k \in Keys, CreateKey(k)
        PROVE  TypeOK' /\ SafeInv'
    <2>1. UNCHANGED <<conns, req, file, works, raced, lost, asked, faults>>
      BY <1>1 DEF CreateKey
    <2>2. /\ keys' \in [Keys -> {None, "plain", "system", "gone"}]
          /\ \A x \in Keys : Exists(x) => keys'[x] \in {"plain", "system"}
      BY <1>1 DEF CreateKey, TypeOK, Exists
    <2>3. TypeOK'
      BY <2>1, <2>2, TypeKept DEF TypeOK
    <2> QED
      BY <2>1, <2>3, QuietKept
  <1>2. ASSUME NEW k \in Keys, DeleteKey(k)
        PROVE  TypeOK' /\ SafeInv'
    <2>1. /\ TypeOK' /\ UNCHANGED <<req, works, lost>> /\ raced \subseteq raced'
          /\ \A c \in Ids :
               \/ conns'[c] = conns[c]
               \/ conns'[c].status = "failed" /\ (c \in Awaited => c \in raced')
      BY <1>2, DeleteKeyType
    <2>2. TestingIsWatched' /\ ConnectedWithItsKey'
      BY <2>1, TestingKept, ConnectedKept DEF SafeInv
    <2>3. AnswersFit'
      BY <2>1, AwaitedIds, AnswersKept DEF SafeInv, RowKept
    <2> QED
      BY <2>1, <2>2, <2>3 DEF SafeInv
  <1>3. ASSUME NEW c \in Ids, NEW h \in Hosts, UpdateConnection(c, h)
        PROVE  TypeOK' /\ SafeInv'
    <2>1. /\ TypeOK' /\ UNCHANGED <<req, works, raced, lost>>
          /\ \A i \in Ids : /\ conns'[i].key = conns[i].key
                            /\ conns'[i].status = conns[i].status
                            /\ conns[i] # NoConn => conns'[i] # NoConn
      BY <1>3, UpdateType
    <2>2. TestingIsWatched' /\ ConnectedWithItsKey'
      BY <2>1, TestingKept, ConnectedKept DEF SafeInv
    <2>3. AnswersFit'
      BY <2>1, AwaitedIds, AnswersKept DEF SafeInv, RowKept
    <2> QED
      BY <2>1, <2>2, <2>3 DEF SafeInv
  <1>4. ASSUME NEW c \in Ids, RefreshStorage(c)
        PROVE  TypeOK' /\ SafeInv'
    <2>1. /\ TypeOK' /\ UNCHANGED <<req, works, raced, lost>> /\ conns[c].key = None
          /\ \A i \in Ids : /\ i # c => conns'[i] = conns[i]
                            /\ conns'[i].status = conns[i].status
                            /\ conns[i] # NoConn => conns'[i] # NoConn
      BY <1>4, RefreshType
    <2>2. conns[c].status = "connected" => c \in raced
      <3>1. conns[c].status = "connected" => c \in Rows
        BY DEF Rows, NoConn, None
      <3>2. <<c, None>> \notin works
        BY NullAssumption DEF TypeOK
      <3> QED
        BY <2>1, <3>1, <3>2 DEF SafeInv, ConnectedWithItsKey
    <2>3. TestingIsWatched' /\ ConnectedWithItsKey'
      BY <2>1, <2>2, TestingKept, ConnectedKept DEF SafeInv
    <2>4. AnswersFit'
      BY <2>1, AwaitedIds, AnswersKept DEF SafeInv, RowKept
    <2> QED
      BY <2>1, <2>3, <2>4 DEF SafeInv
  <1>5. ASSUME NEW c \in Ids, DeleteConnection(c)
        PROVE  TypeOK' /\ SafeInv'
    <2>1. /\ TypeOK' /\ UNCHANGED <<req, lost>> /\ raced \subseteq raced'
          /\ conns'[c] = NoConn /\ (c \in Awaited => c \in raced')
          /\ \A i \in Ids \ {c} : /\ conns'[i] = conns[i]
                                 /\ \A k : <<i, k>> \in works => <<i, k>> \in works'
      BY <1>5, DeleteConnectionType
    <2>2. conns'[c].status \notin {"testing", "connected"}
      BY <2>1 DEF NoConn, None
    <2>3. TestingIsWatched' /\ ConnectedWithItsKey'
      BY <2>1, <2>2, TestingKept, ConnectedKept DEF SafeInv
    <2>4. AnswersFit'
      BY <2>1, AwaitedIds, AnswersKept DEF SafeInv, RowKept
    <2> QED
      BY <2>1, <2>3, <2>4 DEF SafeInv
  <1> QED
    BY <1>1, <1>2, <1>3, <1>4, <1>5

LEMMA Step ==
  ASSUME TypeOK, SafeInv, [Next]_vars
  PROVE  TypeOK' /\ SafeInv'
  <1>1. ASSUME NEW r \in Requests, NEW k \in Keys,
               \/ AskSystemKey(r, k) \/ AskImport(r, k) \/ AskPairKey(r, k)
               \/ AskQuickSetup(r, k) \/ \E h \in Hosts : Verify(r, k, h)
        PROVE  TypeOK' /\ SafeInv'
    <2>1. PICK q : Asks(r, q) /\ q.conn = 0
      BY <1>1, KeyAsks, VerifyAsks DEF AskImport
    <2>2. Fits(q, conns, works, raced)
      BY <2>1, NoConnFits DEF Asks
    <2> QED
      BY <2>1, <2>2, AsksStep
  <1>2. ASSUME NEW r \in Requests, NEW c \in Ids, Redeploy(r, c)
        PROVE  TypeOK' /\ SafeInv'
    <2>1. PICK k \in SystemKeys :
             Asks(r, [Idle EXCEPT !.kind = "redeploy", !.key = k, !.conn = c, !.seen = conns[c]])
      BY <1>2, RedeployAsks
    <2> DEFINE q == [Idle EXCEPT !.kind = "redeploy", !.key = k, !.conn = c, !.seen = conns[c]]
    <2>2. q.kind = "redeploy" /\ q.key = k /\ q.conn = c /\ q.seen = conns[c]
      BY DEF Idle
    <2>3. conns[c] # NoConn
      BY <1>2 DEF Redeploy, Rows
    <2>4. Asks(r, q)
      BY <2>1
    <2> HIDE DEF q
    <2>5. Fits(q, conns, works, raced)
      BY <2>2, <2>3 DEF Fits
    <2> QED
      BY <2>4, <2>5, AsksStep
  <1>3. ASSUME NEW r \in Requests,
               \/ \E c \in Ids : Retest(r, c)
               \/ \E k \in Keys, h \in Hosts : Deploy(r, k, h) \/ Test(r, k, h)
        PROVE  TypeOK' /\ SafeInv'
    <2>1. \E c \in Ids : \E row, q : Starts(r, c, row, q)
      BY <1>3, RetestStarts, ForKeyStarts DEF Deploy, Test
    <2> QED
      BY <2>1, StartsStep
  <1>4. ASSUME NEW r \in Requests, KeyMade(r)
        PROVE  TypeOK' /\ SafeInv'
    <2>1. /\ TypeOK' /\ req[r].conn = 0 /\ req'[r].conn = 0
          /\ UNCHANGED <<conns, works, raced, lost>>
          /\ \A o \in Requests \ {r} : req'[o] = req[o]
      BY <1>4, KeyMadeType
    <2>2. Fits(req'[r], conns, works, raced)
      BY <2>1 DEF Fits, TypeOK
    <2> QED
      BY <2>1, <2>2, QuietKept
  <1>5. ASSUME NEW r \in Requests, QuickDeployed(r)
        PROVE  TypeOK' /\ SafeInv'
    <2>1. req[r].conn = 0 /\ Fits(req[r], conns, works, raced)
      BY <1>5 DEF QuickDeployed, Waits, TypeOK, RowKinds, SafeInv, AnswersFit
    <2>2. CASE ConcludesNothing(r)
      BY <2>1, <2>2, NothingStep, AwaitedIds DEF Rows
    <2>3. ASSUME NEW row, Concludes(r, NewId, row), NewId \notin Rows,
                 \/ row.status = "failed"
                 \/ row.status = "connected" /\ <<NewId, row.key>> \in works'
          PROVE  TypeOK' /\ SafeInv'
      <3>1. NewId \in Ids /\ RowKept(NewId)
        BY <2>3 DEF Concludes, RowKept, Rows
      <3> QED
        BY <2>1, <2>3, <3>1, ConcludesStep
    <2> QED
      BY <1>5, <2>2, <2>3, QuickDeployedConcludes
  <1>6. ASSUME NEW r \in Requests, Verified(r)
        PROVE  TypeOK' /\ SafeInv'
    <2>1. req[r].conn = 0
      BY <1>6 DEF Verified, Waits, TypeOK, RowKinds
    <2>2. CASE ConcludesNothing(r)
      BY <2>1, <2>2, NothingStep, AwaitedIds DEF Rows
    <2>3. ASSUME NEW c \in Ids, NEW row, Concludes(r, c, row), row.status = "connected",
                 <<c, row.key>> \in works', c \in Rows => row.key = conns[c].key
          PROVE  TypeOK' /\ SafeInv'
      <3>1. RowKept(c)
        BY <2>3 DEF Concludes, RowKept, Rows, TypeOK
      <3> QED
        BY <2>1, <2>3, <3>1, ConcludesStep
    <2> QED
      BY <1>6, <2>2, <2>3, VerifiedConcludes
  <1>7. ASSUME NEW r \in Requests, AnswerFails(r)
        PROVE  TypeOK' /\ SafeInv'
    <2>1. /\ req' = [req EXCEPT ![r] = Idle] /\ UNCHANGED <<conns, works, raced>>
          /\ lost' = lost \cup {req[r].conn}
      BY <1>7 DEF AnswerFails, Over, End
    <2>2. Fits(Idle, conns, works, raced)
      BY IdleOK, NoConnFits DEF Idle
    <2>3. \A o \in Requests :
             \/ req'[o] = req[o]
             \/ req[o].conn \in lost' /\ Fits(req'[o], conns, works, raced)
      BY <2>1, <2>2 DEF TypeOK
    <2> QED
      BY <1>7, <2>1, <2>3, AnswerFailsType, QuietKept
  <1>8. CASE Restart
    <2>1. /\ req' = [r \in Requests |-> Idle] /\ UNCHANGED <<conns, works, raced>>
          /\ lost' = lost \cup Awaited
      BY <1>8 DEF Restart
    <2>2. Fits(Idle, conns, works, raced)
      BY IdleOK, NoConnFits DEF Idle
    <2>3. \A o \in Requests :
             req[o].conn \in lost' \cup {0} /\ Fits(req'[o], conns, works, raced)
      BY <2>1, <2>2 DEF Awaited
    <2> QED
      BY <1>8, <2>1, <2>3, RestartType, QuietKept
  <1>9. CASE UNCHANGED vars
    BY <1>9, QuietKept DEF vars, TypeOK, Exists
  <1> QED
    BY <1>1, <1>2, <1>3, <1>4, <1>5, <1>6, <1>7, <1>8, <1>9, UnaskedStep, AnswerStep
    DEF Next, KeyMade

\* The three invariants together are inductive: each of them needs the others.
THEOREM IndInv == Spec => [](TypeOK /\ SafeInv)
  <1>1. Init => TypeOK /\ SafeInv
    BY InitType, IdleOK, NoConnFits
    DEF Init, SafeInv, TestingIsWatched, ConnectedWithItsKey, AnswersFit, Rows, Idle
  <1>2. TypeOK /\ SafeInv /\ [Next]_vars => (TypeOK /\ SafeInv)'
    BY Step
  <1> QED
    BY <1>1, <1>2, PTL DEF Spec

\* Every variable keeps its type, and no row refers to a key that does not exist: the
\* foreign key of ssh_connections is never left dangling, whatever handlers run together.
THEOREM TypeCorrect == Spec => []TypeOK
  BY IndInv, PTL

\* A row shown as being tested is waited for by a request that will write it, unless the
\* commit of an answer failed or the server was restarted.
THEOREM TestingWatched == Spec => []TestingIsWatched
  <1>1. TypeOK /\ SafeInv => TestingIsWatched
    BY DEF SafeInv
  <1> QED
    BY <1>1, IndInv, PTL

\* A row shown as connected has a key with which a command of that connection succeeded:
\* late answers are never taken for answers about another key.
THEOREM ConnectedHasItsKey == Spec => []ConnectedWithItsKey
  <1>1. TypeOK /\ SafeInv => ConnectedWithItsKey
    BY DEF SafeInv
  <1> QED
    BY <1>1, IndInv, PTL

-----------------------------------------------------------------------------
(***************************************************************************)
(* The mounts of a backup's remote sources: what borg is given is what was *)
(* chosen, and what is taken down is never wiped through.                  *)
(***************************************************************************)
\* The directories of a job in a set of mounts.
On(j, set) == {d \in Dirs : <<j, d>> \in set}

SettingUp == {"next", "replacing", "mounting", "working"}

\* A path is shown by a mount of its directory or of one above it.
ShownBy(p, d) == Under(Dir[p], d)

\* The job s mounts path p, which none of its mounts is found to show.
Mounting(s, p) ==
  /\ s.pc \in {"replacing", "mounting"} /\ s.path = {p} /\ p \in s.todo
  /\ \A q \in s.todo : Depth[p] <= Depth[q]
  /\ \A e \in s.dirs : e # Dir[p] /\ ~StartsWith(Dir[p], e)

\* The directories a job has mounted, and the one in hand.
Taken(s) == s.dirs \cup {Dir[p] : p \in s.path}

\* No two mounts are of one directory, and one is inside another only if that has the slash.
Apart(t) ==
  \A d, e \in t : d # e => ~Same(d, e) /\ (Below(d, e) => e \in Slashed)

\* Each path that was taken is shown, or will be by the mount in hand.
PathsShown(s, t) ==
  \A i \in s.info :
    ShownBy(i[2], i[1]) /\ (i[1] \in t \/ \E p \in s.path : StartsWith(i[1], Dir[p]))

\* The mounts are of paths that are no deeper than those to come.
ByDepth(s, t) ==
  \A d \in t : \E q \in Paths : Dir[q] = d /\ \A p \in s.todo : Depth[q] <= Depth[p]

\* What a job s knows of its mounts, when t are tracked, l are or will be live and c were
\* covered: what it no longer knows of is found to be below what it has taken.
MountsMatch(s, t, l, c) ==
  /\ t = s.dirs /\ t \subseteq l \ c
  /\ Apart(t)
  /\ \A d \in t : \E i \in s.info : i[1] = d
  /\ PathsShown(s, t)
  /\ s.todo # {} \/ s.info # {}
  /\ ByDepth(s, t)
  /\ \A e \in l \cup c : e \in t \/ \E f \in Taken(s) : StartsWith(e, f)

\* A job s by its phase, when r is what is left of its key.
JobMatches(s, t, l, c, r) ==
  /\ s.pc \in {"new", "done"} => t = {} /\ r = {}
  /\ s.pc = "new" => s = NewJob /\ l = {} /\ c = {}
  /\ s.pc \in SettingUp => MountsMatch(s, t, l, c)
  /\ s.pc \in {"next", "working"} => s.path = {}
  /\ s.pc \in {"replacing", "mounting"} => \E p \in Paths : Mounting(s, p)
  /\ s.pc = "mounting" => \A p \in s.path : \A e \in s.dirs : ~StartsWith(e, Dir[p])
  /\ s.pc = "working" => s.info # {}
  /\ s.pc = "unmounting" =>
       /\ \A d \in t : \E i \in s.info : i[1] = d
       /\ t = {} => r = {}

\* A root that was removed is there only with something mounted in it.
RootLeft(j) ==
  job[j].pc = "done" \/ (job[j].pc = "unmounting" /\ On(j, tracked) = {}) =>
    (j \in root => On(j, live) # {})

JobInv(j) ==
  /\ JobMatches(job[j], On(j, tracked), On(j, live \cup late), On(j, covered), {j} \cap key)
  /\ RootLeft(j)
  /\ job[j].pc = "new" => On(j, saved) = {}
  /\ job[j].pc = "failing" => mountFaults > 0
  /\ up # "up" => job[j].pc \in {"new", "lost"}
JobsInv == \A j \in Jobs : JobInv(j)

\* The first mount of a job that is stuck is written with the slash.
SlashStuck == \A m \in stuck : \E n \in stuck : n[1] = m[1] /\ n[2] \in Slashed

\* Before the first fault all that is mounted is known, but for what is stuck.
FaultFree ==
  mountFaults = 0 =>
    /\ up = "up" /\ late = {}
    /\ tracked \subseteq live /\ live \subseteq tracked \cup stuck /\ wiped \subseteq stuck
    /\ SlashStuck

SshInv == SshTypeOK /\ JobsInv /\ FaultFree
-----------------------------------------------------------------------------
(* The tree of directories. *)

LEMMA DirsInTree ==
  /\ \A p \in Paths : Dir[p] \in Dirs
  /\ \A d \in Dirs : Place[d] \in Places
  /\ \A d, e \in Dirs : Below(d, e) => ~Below(e, d) /\ ~Same(d, e) /\ d # e
  /\ \A d, e, f \in Dirs : Below(d, e) /\ Below(e, f) => Below(d, f)
  <1>1. \A p \in Paths : Dir[p] \in Dirs
    BY DEF Dirs
  <1>2. \A d \in Dirs : Place[d] \in Places
    BY DEF Places
  <1>3. \A x, y, z \in Places : x \notin Above[x] /\ (y \in Above[x] /\ z \in Above[y] => z \in Above[x])
    BY TreeAssumption
  <1>4. \A d, e, f \in Dirs : Below(d, e) /\ Below(e, f) => Below(d, f)
    BY <1>2, <1>3 DEF Below
  <1>5. \A d, e \in Dirs : Below(d, e) => ~Below(e, d) /\ ~Same(d, e) /\ d # e
    BY <1>2, <1>3 DEF Below, Same
  <1> QED
    BY <1>1, <1>2, <1>4, <1>5

\* What the comparison of strings finds is so, and it is never found of a directory itself.
LEMMA StartsUnder ==
  /\ \A d, e \in Dirs : StartsWith(d, e) => Under(d, e) /\ e \notin Slashed /\ d # e
  /\ \A d, e, f \in Dirs : StartsWith(d, e) /\ StartsWith(e, f) => StartsWith(d, f)
  /\ \A d, e, f \in Dirs : Under(d, e) /\ Under(e, f) => Under(d, f)
  <1>1. \A d, e \in Dirs : StartsWith(d, e) => Under(d, e) /\ e \notin Slashed /\ d # e
    BY DirsInTree DEF StartsWith, Under
  <1>2. ASSUME NEW d \in Dirs, NEW e \in Dirs, NEW f \in Dirs, Under(d, e), Under(e, f)
        PROVE  Under(d, f) /\ (Below(e, f) => Below(d, f))
    <2>1. CASE Below(d, e)
      BY <1>2, <2>1, DirsInTree DEF Under, Same, Below
    <2>2. CASE Same(d, e)
      BY <1>2, <2>2 DEF Under, Same, Below
    <2> QED
      BY <1>2, <2>1, <2>2 DEF Under
  <1>3. ASSUME NEW d \in Dirs, NEW e \in Dirs, NEW f \in Dirs, StartsWith(d, e), StartsWith(e, f)
        PROVE  StartsWith(d, f)
    <2>1. Below(e, f) /\ f \notin Slashed
      BY <1>3 DEF StartsWith
    <2>2. Below(d, f)
      BY <1>1, <1>2, <1>3, <2>1
    <2> QED
      BY <2>1, <2>2 DEF StartsWith
  <1> QED
    BY <1>1, <1>2, <1>3

\* A directory that is taken and neither found to be shown by e nor to hide e is not above e
\* and not the same: if it has the slash, its path is less deep.
LEMMA NotCovering ==
  ASSUME NEW p \in Paths, NEW q \in Paths, Depth[q] <= Depth[p],
         Dir[q] # Dir[p], ~StartsWith(Dir[p], Dir[q]), ~StartsWith(Dir[q], Dir[p])
  PROVE  ~Under(Dir[q], Dir[p])
  <1> DEFINE d == Dir[p]
             e == Dir[q]
  <1>1. d \in Dirs /\ e \in Dirs
    BY DirsInTree
  <1>2. ~Same(e, d)
    <2>1. Same(e, d) => Same(d, e)
      BY DEF Same
    <2>2. Same(e, d) => (d \in Slashed <=> e \in Slashed)
      BY <2>1 DEF StartsWith
    <2> QED
      BY <1>1, <2>2, TreeAssumption
  <1>3. ~Below(e, d)
    <2>1. CASE d \in Slashed
      <3>1. Below(e, d) => Depth[p] < Depth[q]
        BY <2>1, TreeAssumption
      <3>2. Depth[p] \in Nat /\ Depth[q] \in Nat
        BY TreeAssumption
      <3> QED
        BY <3>1, <3>2
    <2>2. CASE d \notin Slashed
      BY <2>2 DEF StartsWith
    <2> QED
      BY <2>1, <2>2
  <1> QED
    BY <1>2, <1>3 DEF Under

LEMMA DirsFinite == IsFiniteSet(Dirs)
  <1> DEFINE f == [p \in Paths |-> Dir[p]]
  <1>1. f \in Surjection(Paths, Dirs)
    BY DEF Dirs, Surjection
  <1> HIDE DEF f
  <1> QED
    BY <1>1, TreeAssumption, FS_Surjection

\* Some directory of a set has none of the set below it.
LEMMA HasDeepest ==
  ASSUME NEW S \in SUBSET Dirs, S # {}
  PROVE  \E d \in S : \A e \in S : ~Below(e, d)
  <1> DEFINE Lower(d) == {e \in S : Below(e, d)}
             T == {Lower(d) : d \in S}
             R == StrictSubsetOrdering(Dirs)
  <1>1. \A d \in S : Lower(d) \in FiniteSubsetsOf(Dirs)
    BY DirsFinite, FS_Subset DEF FiniteSubsetsOf
  <1>2. T \subseteq FiniteSubsetsOf(Dirs) /\ T # {}
    BY <1>1
  <1>3. PICK A \in T : \A B \in T : ~(<<B, A>> \in R)
    <2>1. IsWellFoundedOn(R, FiniteSubsetsOf(Dirs))
      BY FS_StrictSubsetOrderingWellFounded
    <2> HIDE DEF T, R
    <2> QED
      BY <1>2, <2>1, WFMin
  <1>4. PICK d \in S : A = Lower(d)
    BY <1>3
  <1>5. ASSUME NEW e \in S, Below(e, d)
        PROVE  FALSE
    <2>1. Lower(e) \subseteq Lower(d) /\ e \in Lower(d) /\ e \notin Lower(e)
      BY <1>5, DirsInTree
    <2>2. <<Lower(e), Lower(d)>> \in R
      BY <2>1 DEF StrictSubsetOrdering
    <2> QED
      BY <1>3, <1>4, <2>2
  <1> QED
    BY <1>5

-----------------------------------------------------------------------------
(* Jobs that a step is not about. *)

LEMMA OtherJobs ==
  ASSUME SshTypeOK, JobsInv, NEW j,
         mountFaults' \in Nat, mountFaults' >= mountFaults,
         up' = up,
         saved' \in {saved, tracked, tracked'},
         \A k \in Jobs \ {j} :
           /\ job'[k] = job[k]
           /\ On(k, tracked)' = On(k, tracked)
           /\ On(k, live)' = On(k, live) /\ On(k, live \cup late)' = On(k, live \cup late)
           /\ On(k, covered)' = On(k, covered)
           /\ {k} \cap key' = {k} \cap key /\ (k \in root' => k \in root)
  PROVE  \A k \in Jobs \ {j} : JobInv(k)'
  <1> SUFFICES ASSUME NEW k \in Jobs \ {j} PROVE JobInv(k)'
    OBVIOUS
  <1>1. JobInv(k)
    BY DEF JobsInv
  <1>2. JobMatches(job[k], On(k, tracked), On(k, live \cup late), On(k, covered), {k} \cap key)'
    BY <1>1 DEF JobInv
  <1>3. job[k]'.pc = "new" => On(k, saved)' = {}
    BY <1>1 DEF JobInv, JobMatches, On
  <1>4. job[k]'.pc = "failing" => mountFaults' > 0
    BY <1>1 DEF JobInv, SshTypeOK
  <1>5. RootLeft(k)'
    BY <1>1 DEF JobInv, RootLeft
  <1> QED
    BY <1>1, <1>2, <1>3, <1>4, <1>5 DEF JobInv
-----------------------------------------------------------------------------
(* Types. *)

LEMMA CurrentPath ==
  ASSUME NEW j, NEW p, job[j].path = {p}
  PROVE  Current(j) = p
  BY DEF Current

JobType ==
  [pc : {"new", "next", "replacing", "mounting", "failing", "working", "unmounting", "done",
         "lost"},
   todo : SUBSET Paths, path : SUBSET Paths,
   dirs : SUBSET Dirs, info : SUBSET (Dirs \X Paths)]

LEMMA JobTypes ==
  ASSUME SshTypeOK, NEW j \in Jobs, NEW r \in JobType, job' = [job EXCEPT ![j] = r]
  PROVE  /\ job' \in [Jobs -> JobType]
         /\ job'[j] = r /\ \A k \in Jobs \ {j} : job'[k] = job[k]
  BY DEF SshTypeOK, JobType

\* The path in hand.
LEMMA InHand ==
  ASSUME SshTypeOK, JobsInv, NEW j \in Jobs, job[j].pc \in {"replacing", "mounting"}
  PROVE  \E p \in Paths : /\ Mounting(job[j], p) /\ job[j].path = {p}
                         /\ Current(j) = p /\ MountDir(p) = Dir[p] /\ Dir[p] \in Dirs
  <1>1. JobMatches(job[j], On(j, tracked), On(j, live \cup late), On(j, covered), {j} \cap key)
    BY DEF JobsInv, JobInv
  <1>2. PICK p \in Paths : Mounting(job[j], p)
    BY <1>1 DEF JobMatches
  <1>3. job[j].path = {p}
    BY <1>2 DEF Mounting
  <1>4. Current(j) = p
    BY <1>3, CurrentPath
  <1> QED
    BY <1>2, <1>3, <1>4, DirsInTree DEF MountDir

\* What fusermount does to a mount: it is gone, or it is stuck, or there was a fault.
LEMMA Tried ==
  ASSUME SshTypeOK, NEW m, TryUnmount(m)
  PROVE  /\ live' \subseteq live /\ live \ {m} \subseteq live'
         /\ stuck \subseteq stuck' /\ stuck' \subseteq Mounts
         /\ mountFaults' \in 0 .. MaxMountFaults /\ mountFaults' >= mountFaults
         /\ mountFaults' = 0 =>
              /\ mountFaults = 0
              /\ \/ live' = live \ {m} /\ stuck' = stuck
                 \/ Inside(m) # {} /\ live' = live /\ stuck' = stuck \cup {m} /\ m \in live
  <1>1. mountFaults \in Nat /\ mountFaults <= MaxMountFaults /\ MaxMountFaults \in Nat
    BY MaxMountFaultsAssumption DEF SshTypeOK
  <1>2. CASE m \in live /\ Inside(m) # {}
    BY <1>1, <1>2 DEF TryUnmount, NoFault, SshTypeOK
  <1>3. CASE ~(m \in live /\ Inside(m) # {})
    <2>1. /\ stuck' = stuck
          /\ \/ live' = live \ {m} /\ mountFaults' = mountFaults
             \/ live' = live /\ mountFaults < MaxMountFaults /\ mountFaults' = mountFaults + 1
      BY <1>3 DEF TryUnmount, NoFault, MountFault
    <2> QED
      BY <1>1, <2>1 DEF SshTypeOK
  <1> QED
    BY <1>2, <1>3

LEMMA StepTypes ==
  ASSUME SshTypeOK, JobsInv, NEW j \in Jobs, JobStep(j)
  PROVE  SshTypeOK'
  <1> USE MaxMountFaultsAssumption
  <1>0. job[j] \in JobType
    BY DEF SshTypeOK, JobType
  <1>1. CASE ReuseMount(j)
    <2>0. PICK p \in Shallowest(j) : \E e \in Reusable(j, MountDir(p)) :
            job' = [job EXCEPT ![j].todo = @ \ {p}, ![j].info = @ \cup {<<e, p>>}]
      BY <1>1 DEF ReuseMount
    <2>1. PICK e \in Reusable(j, MountDir(p)) :
            job' = [job EXCEPT ![j].todo = @ \ {p}, ![j].info = @ \cup {<<e, p>>}]
      BY <2>0
    <2> DEFINE r == [job[j] EXCEPT !.todo = @ \ {p}, !.info = @ \cup {<<e, p>>}]
    <2>2. e \in Dirs /\ p \in Paths
      BY <1>0, <2>0, <2>1 DEF Shallowest, Reusable, JobType
    <2>3. r \in JobType
      <3>1. job[j].todo \ {p} \in SUBSET Paths
        BY <1>0 DEF JobType
      <3>2. job[j].info \cup {<<e, p>>} \in SUBSET (Dirs \X Paths)
        BY <1>0, <2>2 DEF JobType
      <3> QED
        BY <1>0, <3>1, <3>2 DEF JobType
    <2>4. job' = [job EXCEPT ![j] = r]
      BY <2>1
    <2> HIDE DEF r
    <2>5. job' \in [Jobs -> JobType]
      BY <2>3, <2>4, JobTypes
    <2> QED
      BY <1>1, <2>5 DEF ReuseMount, JobType, SshTypeOK
  <1>2. CASE TakePath(j)
    <2>1. PICK p \in Shallowest(j) :
            job' = [job EXCEPT ![j].path = {p},
                               ![j].pc = IF Hidden(j, MountDir(p)) = {} THEN "mounting" ELSE "replacing"]
      BY <1>2 DEF TakePath
    <2> DEFINE r == [job[j] EXCEPT !.path = {p},
                                   !.pc = IF Hidden(j, MountDir(p)) = {} THEN "mounting" ELSE "replacing"]
    <2>2. r \in JobType
      BY <1>0, <2>1 DEF JobType, Shallowest
    <2>3. job' = [job EXCEPT ![j] = r]
      BY <2>1
    <2> HIDE DEF r
    <2>4. job' \in [Jobs -> JobType]
      BY <2>2, <2>3, JobTypes
    <2> QED
      BY <1>2, <2>4 DEF TakePath, JobType, SshTypeOK
  <1>3. CASE UnmountHidden(j)
    <2> DEFINE last(e) == Hidden(j, MountDir(Current(j))) = {e}
    <2>0. UNCHANGED <<up, root, key, late, wiped, covered>>
      BY <1>3 DEF UnmountHidden
    <2>1. PICK e \in Hidden(j, MountDir(Current(j))) :
            /\ TryUnmount(<<j, e>>)
            /\ tracked' = tracked \ {<<j, e>>}
            /\ saved' = tracked'
            /\ job' = [job EXCEPT ![j].dirs = @ \ {e}, ![j].pc = IF last(e) THEN "mounting" ELSE @]
      BY <1>3 DEF UnmountHidden, NextHidden
    <2> HIDE DEF last
    <2> DEFINE r == [job[j] EXCEPT !.dirs = @ \ {e}, !.pc = IF last(e) THEN "mounting" ELSE @]
    <2>2. r \in JobType
      BY <1>0 DEF JobType
    <2>3. job' = [job EXCEPT ![j] = r]
      BY <2>1
    <2> HIDE DEF r
    <2>4. job' \in [Jobs -> JobType]
      BY <2>2, <2>3, JobTypes
    <2> QED
      BY <2>0, <2>1, <2>4, Tried DEF JobType, SshTypeOK
  <1>4. CASE Mount(j)
    <2> DEFINE d == MountDir(Current(j))
    <2>1. d \in Dirs /\ Current(j) \in Paths
      BY <1>4, InHand DEF Mount, At
    <2>2. Shown(j, d) \in SUBSET (Dirs \X Paths)
      BY <1>0, <2>1 DEF Shown, JobType
    <2> HIDE DEF d
    <2>3. PathDone(j, d) \in JobType
      BY <1>0, <2>1, <2>2 DEF PathDone, JobType
    <2>4. /\ job' = [job EXCEPT ![j] = PathDone(j, d)]
          /\ ComesUp(<<j, d>>) /\ tracked' = tracked \cup {<<j, d>>}
          /\ covered' \subseteq covered \cup live
          /\ UNCHANGED <<up, root, key, saved, wiped, stuck>>
      BY <1>4 DEF Mount, Of, d
    <2>5. job' \in [Jobs -> JobType]
      BY <2>3, <2>4, JobTypes
    <2> QED
      BY <2>1, <2>4, <2>5 DEF ComesUp, NoFault, MountFault, Mounts, JobType, SshTypeOK
  <1>5. CASE MountFails(j)
    <2>1. MountDir(Current(j)) \in Dirs
      BY <1>5, InHand DEF MountFails, At
    <2> QED
      BY <1>5, <2>1 DEF MountFails, Goto, MountFault, Mounts, SshTypeOK
  <1>6. CASE UndoMount(j)
    BY <1>6 DEF UndoMount, SshTypeOK
  <1>7. CASE GiveUp(j)
    BY <1>7 DEF GiveUp, RemoveRoots, JobOver, NewJob, SshTypeOK
  <1>8. CASE Mounted(j)
    BY <1>8 DEF Mounted, Goto, SshTypeOK
  <1>9. CASE Unmount(j)
    <2>1. PICK d \in Deepest(j) : TryUnmount(<<j, d>>)
      BY <1>9 DEF Unmount
    <2> QED
      BY <1>9, <2>1, Tried DEF Unmount, RemoveRoots, SshTypeOK
  <1>10. CASE Unmounted(j)
    BY <1>10 DEF Unmounted, JobOver, NewJob, SshTypeOK
  <1> QED
    BY <1>1, <1>2, <1>3, <1>4, <1>5, <1>6, <1>7, <1>8, <1>9, <1>10 DEF JobStep

LEMMA SshTypes ==
  ASSUME SshTypeOK, JobsInv, [SshNext]_sshVars
  PROVE  SshTypeOK'
  <1> USE MaxMountFaultsAssumption DEF SshTypeOK
  <1>1. CASE \E j \in Jobs : Prepare(j)
    <2>1. PICK j \in Jobs, todo \in (SUBSET Paths) \ {{}} :
            job' = [job EXCEPT ![j].pc = "next", ![j].todo = todo]
      BY <1>1 DEF Prepare
    <2> DEFINE r == [job[j] EXCEPT !.pc = "next", !.todo = todo]
    <2>2. r \in JobType /\ job' = [job EXCEPT ![j] = r]
      BY <2>1 DEF JobType
    <2> HIDE DEF r
    <2>3. job' \in [Jobs -> JobType]
      BY <2>2, JobTypes
    <2> QED
      BY <1>1, <2>3 DEF Prepare, JobType
  <1>2. CASE \E j \in Jobs : JobStep(j)
    BY <1>2, StepTypes
  <1>3. CASE \E j \in Jobs : Finish(j)
    BY <1>3 DEF Finish, Goto
  <1>4. CASE \E m \in Mounts : LateMount(m)
    BY <1>4 DEF LateMount
  <1>5. CASE Crash
    BY <1>5 DEF Crash, MountFault, JobOver, NewJob
  <1>6. CASE Import
    BY <1>6 DEF Import, StillMounted, RemoveRoots
  <1>7. CASE Startup
    BY <1>7 DEF Startup
  <1>8. CASE UNCHANGED sshVars
    BY <1>8 DEF sshVars
  <1> QED
    BY <1>1, <1>2, <1>3, <1>4, <1>5, <1>6, <1>7, <1>8 DEF SshNext
-----------------------------------------------------------------------------
(* What each step of a job does to it. *)

LEMMA Own ==
  ASSUME JobsInv, NEW j \in Jobs
  PROVE  /\ JobMatches(job[j], On(j, tracked), On(j, live \cup late), On(j, covered), {j} \cap key)
         /\ RootLeft(j)
         /\ job[j].pc = "new" => On(j, saved) = {}
         /\ job[j].pc = "failing" => mountFaults > 0
         /\ up # "up" => job[j].pc \in {"new", "lost"}
  BY DEF JobsInv, JobInv

\* A path that an existing mount shows.
LEMMA ReuseMatches ==
  ASSUME NEW s \in JobType, NEW t, NEW l, NEW c, NEW r, JobMatches(s, t, l, c, r), s.pc = "next",
         NEW p \in Paths, NEW e \in s.dirs, ShownBy(p, e)
  PROVE  JobMatches([s EXCEPT !.todo = @ \ {p}, !.info = @ \cup {<<e, p>>}], t, l, c, r)
  <1> DEFINE n == [s EXCEPT !.todo = @ \ {p}, !.info = @ \cup {<<e, p>>}]
  <1>1. /\ n.pc = "next" /\ n.dirs = s.dirs /\ n.path = s.path
        /\ n.info = s.info \cup {<<e, p>>} /\ n.todo = s.todo \ {p}
    BY DEF JobType
  <1> HIDE DEF n
  <1>2. MountsMatch(s, t, l, c) /\ s.path = {}
    BY DEF JobMatches, SettingUp
  <1>3. PathsShown(n, t)
    BY <1>1, <1>2 DEF MountsMatch, PathsShown
  <1>4. ByDepth(n, t)
    BY <1>1, <1>2 DEF MountsMatch, ByDepth
  <1>5. MountsMatch(n, t, l, c)
    BY <1>1, <1>2, <1>3, <1>4 DEF MountsMatch, Taken
  <1> QED
    BY <1>1, <1>2, <1>5 DEF JobMatches, n

LEMMA ReuseKeeps ==
  ASSUME SshInv, NEW j \in Jobs, ReuseMount(j)
  PROVE  JobsInv' /\ FaultFree'
  <1> USE DEF SshInv
  <1>0. UNCHANGED <<up, root, key, live, late, tracked, saved, wiped, covered, stuck, mountFaults>>
    BY DEF ReuseMount
  <1>1. PICK p \in Shallowest(j) : \E e \in Reusable(j, MountDir(p)) :
          job' = [job EXCEPT ![j].todo = @ \ {p}, ![j].info = @ \cup {<<e, p>>}]
    BY DEF ReuseMount
  <1>2. PICK e \in Reusable(j, MountDir(p)) :
          job' = [job EXCEPT ![j].todo = @ \ {p}, ![j].info = @ \cup {<<e, p>>}]
    BY <1>1
  <1> DEFINE n == [job[j] EXCEPT !.todo = @ \ {p}, !.info = @ \cup {<<e, p>>}]
  <1>3. job[j] \in JobType /\ job[j].pc = "next"
    BY DEF SshTypeOK, JobType, ReuseMount, At
  <1>4. p \in Paths /\ e \in job[j].dirs /\ ShownBy(p, e)
    <2>1. p \in Paths /\ e \in job[j].dirs /\ e \in Dirs /\ (e = Dir[p] \/ StartsWith(Dir[p], e))
      BY <1>1, <1>2, <1>3 DEF Shallowest, Reusable, MountDir, JobType
    <2> QED
      BY <2>1, DirsInTree, StartsUnder DEF ShownBy, Under, Same
  <1>5. JobMatches(n, On(j, tracked), On(j, live \cup late), On(j, covered), {j} \cap key)
    BY <1>3, <1>4, Own, ReuseMatches
  <1>6. n.pc = "next" /\ job' = [job EXCEPT ![j] = n]
    BY <1>2, <1>3 DEF JobType
  <1> HIDE DEF n
  <1>7. job'[j] = n /\ \A k \in Jobs \ {j} : job'[k] = job[k]
    BY <1>6 DEF SshTypeOK
  <1>8. up = "up"
    BY DEF ReuseMount, At
  <1>9. JobInv(j)'
    BY <1>0, <1>5, <1>6, <1>7, <1>8 DEF JobInv, RootLeft, On
  <1>10. \A k \in Jobs \ {j} : JobInv(k)'
    BY <1>0, <1>7, OtherJobs DEF On, SshTypeOK
  <1> QED
    BY <1>0, <1>9, <1>10 DEF JobsInv, FaultFree, SlashStuck

\* A path that no mount shows is taken.
LEMMA TakeMatches ==
  ASSUME NEW s \in JobType, NEW t, NEW l, NEW c, NEW r, JobMatches(s, t, l, c, r), s.pc = "next",
         NEW p \in s.todo, \A q \in s.todo : Depth[p] <= Depth[q],
         \A e \in s.dirs : e # Dir[p] /\ ~StartsWith(Dir[p], e),
         NEW pc \in {"mounting", "replacing"},
         pc = "mounting" => \A e \in s.dirs : ~StartsWith(e, Dir[p])
  PROVE  JobMatches([s EXCEPT !.path = {p}, !.pc = pc], t, l, c, r)
  <1> DEFINE n == [s EXCEPT !.path = {p}, !.pc = pc]
  <1>1. n.pc = pc /\ n.dirs = s.dirs /\ n.path = {p} /\ n.info = s.info /\ n.todo = s.todo
    BY DEF JobType
  <1> HIDE DEF n
  <1>2. MountsMatch(s, t, l, c) /\ s.path = {} /\ p \in Paths
    BY DEF JobMatches, SettingUp, JobType
  <1>3. PathsShown(n, t) /\ ByDepth(n, t)
    BY <1>1, <1>2 DEF MountsMatch, PathsShown, ByDepth
  <1>4. Taken(s) \subseteq Taken(n)
    BY <1>1, <1>2 DEF Taken
  <1>5. MountsMatch(n, t, l, c)
    BY <1>1, <1>2, <1>3, <1>4 DEF MountsMatch
  <1>6. Mounting(n, p)
    BY <1>1 DEF Mounting
  <1> QED
    BY <1>1, <1>2, <1>5, <1>6 DEF JobMatches, n

LEMMA TakeKeeps ==
  ASSUME SshInv, NEW j \in Jobs, TakePath(j)
  PROVE  JobsInv' /\ FaultFree'
  <1> USE DEF SshInv
  <1>0. UNCHANGED <<up, root, key, live, late, tracked, saved, wiped, covered, stuck, mountFaults>>
    BY DEF TakePath
  <1>1. PICK p \in Shallowest(j) :
          /\ Reusable(j, MountDir(p)) = {}
          /\ job' = [job EXCEPT ![j].path = {p},
                                ![j].pc = IF Hidden(j, MountDir(p)) = {} THEN "mounting" ELSE "replacing"]
    BY DEF TakePath
  <1>2. PICK pc \in {"mounting", "replacing"} :
          pc = IF Hidden(j, MountDir(p)) = {} THEN "mounting" ELSE "replacing"
    OBVIOUS
  <1> DEFINE n == [job[j] EXCEPT !.path = {p}, !.pc = pc]
  <1>3. job[j] \in JobType /\ job[j].pc = "next"
    BY DEF SshTypeOK, JobType, TakePath, At
  <1>4. /\ p \in job[j].todo /\ \A q \in job[j].todo : Depth[p] <= Depth[q]
        /\ \A e \in job[j].dirs : e # Dir[p] /\ ~StartsWith(Dir[p], e)
    BY <1>1, <1>3 DEF Shallowest, Reusable, MountDir
  <1>5. pc = "mounting" => \A e \in job[j].dirs : ~StartsWith(e, Dir[p])
    BY <1>2 DEF Hidden, MountDir
  <1>6. JobMatches(n, On(j, tracked), On(j, live \cup late), On(j, covered), {j} \cap key)
    BY <1>3, <1>4, <1>5, Own, TakeMatches
  <1>7. n.pc = pc /\ job' = [job EXCEPT ![j] = n]
    BY <1>1, <1>2, <1>3 DEF JobType
  <1> HIDE DEF n
  <1>8. job'[j] = n /\ \A k \in Jobs \ {j} : job'[k] = job[k]
    BY <1>7 DEF SshTypeOK
  <1>9. up = "up"
    BY DEF TakePath, At
  <1>10. JobInv(j)'
    BY <1>0, <1>6, <1>7, <1>8, <1>9 DEF JobInv, RootLeft, On
  <1>11. \A k \in Jobs \ {j} : JobInv(k)'
    BY <1>0, <1>8, OtherJobs DEF On, SshTypeOK
  <1> QED
    BY <1>0, <1>10, <1>11 DEF JobsInv, FaultFree, SlashStuck

\* A mount that the one in hand would hide is undone.
LEMMA UnmountMatches ==
  ASSUME NEW s \in JobType, NEW t, NEW l \in SUBSET Dirs, NEW c \in SUBSET Dirs, NEW r,
         JobMatches(s, t, l, c, r), s.pc = "replacing",
         NEW p \in Paths, Mounting(s, p), NEW e \in s.dirs, StartsWith(e, Dir[p]),
         NEW pc \in {"mounting", "replacing"},
         pc = "mounting" => \A d \in s.dirs \ {e} : ~StartsWith(d, Dir[p]),
         NEW m, l \ {e} \subseteq m, m \subseteq l
  PROVE  JobMatches([s EXCEPT !.dirs = @ \ {e}, !.pc = pc], t \ {e}, m, c, r)
  <1> DEFINE n == [s EXCEPT !.dirs = @ \ {e}, !.pc = pc]
             u == t \ {e}
  <1>1. /\ n.pc = pc /\ n.dirs = s.dirs \ {e} /\ n.path = s.path /\ n.info = s.info
        /\ n.todo = s.todo
    BY DEF JobType
  <1> HIDE DEF n
  <1>2. MountsMatch(s, t, l, c)
    BY DEF JobMatches, SettingUp
  <1>3. Mounting(n, p) /\ n.path = {p}
    BY <1>1 DEF Mounting
  <1>4. MountsMatch(n, u, m, c)
    <2>1. u = n.dirs /\ u \subseteq m \ c /\ Apart(u)
      BY <1>1, <1>2 DEF MountsMatch, Apart
    <2>2. \A d \in u : \E i \in n.info : i[1] = d
      BY <1>1, <1>2 DEF MountsMatch
    <2>3. PathsShown(n, u)
      BY <1>1, <1>2, <1>3 DEF MountsMatch, PathsShown
    <2>4. n.todo # {} \/ n.info # {}
      BY <1>1, <1>2 DEF MountsMatch
    <2>5. ByDepth(n, u)
      BY <1>1, <1>2 DEF MountsMatch, ByDepth
    <2>6. ASSUME NEW x \in m \cup c
          PROVE  x \in u \/ \E f \in Taken(n) : StartsWith(x, f)
      <3>1. Dir[p] \in Taken(n) /\ Dir[p] \in Dirs /\ x \in Dirs /\ e \in Dirs
        BY <1>3, DirsInTree DEF Taken, JobType
      <3>2. CASE x \in t
        BY <3>1, <3>2
      <3>3. CASE \E f \in Taken(s) : StartsWith(x, f)
        <4>1. PICK f \in Taken(s) : StartsWith(x, f)
          BY <3>3
        <4>2. CASE f = e
          BY <3>1, <4>1, <4>2, StartsUnder
        <4>3. CASE f # e
          BY <1>1, <4>1, <4>3 DEF Taken
        <4> QED
          BY <4>2, <4>3
      <3> QED
        BY <1>2, <3>2, <3>3 DEF MountsMatch
    <2> QED
      BY <2>1, <2>2, <2>3, <2>4, <2>5, <2>6 DEF MountsMatch
  <1>5. n.pc = "mounting" => \A q \in n.path : \A d \in n.dirs : ~StartsWith(d, Dir[q])
    BY <1>1, <1>3
  <1> HIDE DEF u
  <1>6. JobMatches(n, u, m, c, r)
    BY <1>1, <1>3, <1>4, <1>5 DEF JobMatches
  <1> QED
    BY <1>6 DEF n, u

\* What a mount is stuck on: until one of its job is, each mount inside is known, and its own
\* directory has the slash.
LEMMA FirstStuck ==
  ASSUME SshTypeOK, NEW j \in Jobs, NEW e \in Dirs,
         <<j, e>> \in tracked, Apart(On(j, tracked)),
         live \subseteq tracked \cup stuck, Inside(<<j, e>>) # {}
  PROVE  e \in Slashed \/ \E m \in stuck : m[1] = j
  <1>1. PICK n \in Inside(<<j, e>>) : TRUE
    OBVIOUS
  <1>2. n \in live /\ n[1] = j /\ Below(n[2], e)
    BY <1>1 DEF Inside, Of
  <1>3. n \in Mounts
    BY <1>2 DEF SshTypeOK
  <1>4. n[2] \in Dirs /\ n = <<j, n[2]>>
    BY <1>2, <1>3 DEF Mounts
  <1>5. CASE n \in stuck
    BY <1>2, <1>5
  <1>6. CASE n \in tracked
    <2>1. n[2] \in On(j, tracked) /\ e \in On(j, tracked) /\ n[2] # e
      BY <1>2, <1>4, <1>6, DirsInTree DEF On
    <2> QED
      BY <1>2, <2>1 DEF Apart
  <1> QED
    BY <1>2, <1>5, <1>6

LEMMA StillSlashStuck ==
  ASSUME SlashStuck, NEW j, NEW e, stuck' = stuck \cup {<<j, e>>},
         e \in Slashed \/ \E m \in stuck : m[1] = j
  PROVE  SlashStuck'
  <1> SUFFICES ASSUME NEW m \in stuck' PROVE \E n \in stuck' : n[1] = m[1] /\ n[2] \in Slashed
    BY DEF SlashStuck
  <1>1. CASE m \in stuck
    BY <1>1 DEF SlashStuck
  <1>2. CASE m = <<j, e>> /\ e \in Slashed
    BY <1>2
  <1>3. CASE m = <<j, e>> /\ \E x \in stuck : x[1] = j
    BY <1>3 DEF SlashStuck
  <1> QED
    BY <1>1, <1>2, <1>3

LEMMA UnmountHiddenKeeps ==
  ASSUME SshInv, NEW j \in Jobs, UnmountHidden(j)
  PROVE  JobsInv' /\ FaultFree'
  <1> USE DEF SshInv
  <1>0. UNCHANGED <<up, root, key, late, wiped, covered>> /\ up = "up" /\ job[j].pc = "replacing"
    BY DEF UnmountHidden, At
  <1>1. PICK p \in Paths : /\ Mounting(job[j], p) /\ job[j].path = {p}
                           /\ Current(j) = p /\ MountDir(p) = Dir[p] /\ Dir[p] \in Dirs
    BY <1>0, InHand
  <1>2. PICK e \in Hidden(j, Dir[p]) :
          /\ TryUnmount(<<j, e>>)
          /\ tracked' = tracked \ {<<j, e>>}
          /\ saved' = tracked'
          /\ job' = [job EXCEPT ![j].dirs = @ \ {e},
                                ![j].pc = IF Hidden(j, Dir[p]) = {e} THEN "mounting" ELSE @]
    BY <1>1 DEF UnmountHidden, NextHidden
  <1>3. PICK pc \in {"mounting", "replacing"} :
          pc = IF Hidden(j, Dir[p]) = {e} THEN "mounting" ELSE job[j].pc
    BY <1>0
  <1> DEFINE n == [job[j] EXCEPT !.dirs = @ \ {e}, !.pc = pc]
  <1>4. job[j] \in JobType
    BY DEF SshTypeOK, JobType
  <1>5. e \in job[j].dirs /\ StartsWith(e, Dir[p]) /\ e \in Dirs
    BY <1>4 DEF Hidden, JobType
  <1>6. pc = "mounting" => \A d \in job[j].dirs \ {e} : ~StartsWith(d, Dir[p])
    BY <1>0, <1>3 DEF Hidden
  <1>7. /\ On(j, live \cup late) \ {e} \subseteq On(j, live \cup late)'
        /\ On(j, live \cup late)' \subseteq On(j, live \cup late)
    <2>1. live' \subseteq live /\ live \ {<<j, e>>} \subseteq live'
      BY <1>2, Tried
    <2> QED
      BY <1>0, <2>1 DEF On
  <1>8. JobMatches(n, On(j, tracked) \ {e}, On(j, live \cup late)', On(j, covered), {j} \cap key)
    <2> DEFINE s == job[j]
               t == On(j, tracked)
               l == On(j, live \cup late)
               c == On(j, covered)
               m == On(j, live \cup late)'
               r == {j} \cap key
    <2>1. JobMatches(s, t, l, c, r) /\ l \in SUBSET Dirs /\ c \in SUBSET Dirs
      BY Own DEF On
    <2>2. l \ {e} \subseteq m /\ m \subseteq l
      BY <1>7
    <2>3. s \in JobType /\ s.pc = "replacing" /\ Mounting(s, p) /\ e \in s.dirs
          /\ StartsWith(e, Dir[p]) /\ (pc = "mounting" => \A d \in s.dirs \ {e} : ~StartsWith(d, Dir[p]))
      BY <1>0, <1>1, <1>4, <1>5, <1>6
    <2> HIDE DEF s, t, l, c, m, r
    <2>4. JobMatches([s EXCEPT !.dirs = @ \ {e}, !.pc = pc], t \ {e}, m, c, r)
      BY <2>1, <2>2, <2>3, UnmountMatches
    <2> QED
      BY <2>4 DEF s, t, c, m, r
  <1>9. n.pc = pc /\ job' = [job EXCEPT ![j] = n]
    BY <1>2, <1>3, <1>4 DEF JobType
  <1> HIDE DEF n
  <1>10. job'[j] = n /\ \A k \in Jobs \ {j} : job'[k] = job[k]
    BY <1>9 DEF SshTypeOK
  <1>11. On(j, tracked)' = On(j, tracked) \ {e} /\ On(j, covered)' = On(j, covered)
    BY <1>0, <1>2 DEF On
  <1>12. JobInv(j)'
    BY <1>0, <1>8, <1>9, <1>10, <1>11 DEF JobInv, RootLeft
  <1>13. mountFaults' \in Nat /\ mountFaults' >= mountFaults
    BY <1>2, Tried, MaxMountFaultsAssumption
  <1>14. \A k \in Jobs \ {j} : JobInv(k)'
    <2>1. ASSUME NEW k \in Jobs \ {j}
          PROVE  /\ On(k, tracked)' = On(k, tracked)
                 /\ On(k, live)' = On(k, live) /\ On(k, live \cup late)' = On(k, live \cup late)
                 /\ On(k, covered)' = On(k, covered)
      <3>1. live' \subseteq live /\ live \ {<<j, e>>} \subseteq live'
        BY <1>2, Tried
      <3>2. On(k, live)' = On(k, live)
        BY <3>1 DEF On
      <3> QED
        BY <1>0, <1>2, <3>2 DEF On
    <2> QED
      BY <1>0, <1>2, <1>10, <1>13, <2>1, OtherJobs
  <1>15. FaultFree'
    <2> SUFFICES ASSUME mountFaults' = 0
                 PROVE  /\ up' = "up" /\ late' = {} /\ tracked' \subseteq live'
                        /\ live' \subseteq tracked' \cup stuck' /\ wiped' \subseteq stuck'
                        /\ SlashStuck'
      BY DEF FaultFree
    <2>1. /\ mountFaults = 0 /\ up = "up" /\ late = {} /\ tracked \subseteq live
          /\ live \subseteq tracked \cup stuck /\ wiped \subseteq stuck /\ SlashStuck
      BY <1>2, Tried DEF FaultFree
    <2>2. CASE live' = live \ {<<j, e>>} /\ stuck' = stuck
      BY <1>0, <1>2, <2>1, <2>2 DEF SlashStuck
    <2>3. CASE Inside(<<j, e>>) # {} /\ live' = live /\ stuck' = stuck \cup {<<j, e>>}
      <3>1. MountsMatch(job[j], On(j, tracked), On(j, live \cup late), On(j, covered))
        BY <1>0, Own DEF JobMatches, SettingUp
      <3>2. <<j, e>> \in tracked /\ Apart(On(j, tracked))
        BY <1>5, <3>1 DEF MountsMatch, On
      <3>3. e \in Slashed \/ \E m \in stuck : m[1] = j
        BY <1>5, <2>1, <2>3, <3>2, FirstStuck
      <3>4. SlashStuck'
        BY <2>1, <2>3, <3>3, StillSlashStuck
      <3> QED
        BY <1>0, <1>2, <2>1, <2>3, <3>4
    <2> QED
      BY <1>2, <2>2, <2>3, Tried
  <1> QED
    BY <1>12, <1>14, <1>15 DEF JobsInv

\* The directory in hand is mounted: it stands for its path and for those of the mounts it
\* replaced.
LEMMA MountMatches ==
  ASSUME NEW s \in JobType, NEW t \in SUBSET Dirs, NEW l \in SUBSET Dirs, NEW c \in SUBSET Dirs,
         NEW r, JobMatches(s, t, l, c, r),
         s.pc = "mounting", NEW p \in Paths, Mounting(s, p),
         NEW n \in JobType, NEW m, NEW b,
         n.pc = "next", n.dirs = s.dirs \cup {Dir[p]}, n.todo = s.todo \ {p}, n.path = {},
         n.info = {<<IF StartsWith(i[1], Dir[p]) THEN Dir[p] ELSE i[1], i[2]>> : i \in s.info}
                    \cup {<<Dir[p], p>>},
         m = l \cup {Dir[p]}, b \subseteq c \cup {e \in l : Under(e, Dir[p])}
  PROVE  JobMatches(n, t \cup {Dir[p]}, m, b, r)
  <1> DEFINE d == Dir[p]
             u == t \cup {d}
  <1>1. d \in Dirs
    BY DirsInTree
  <1>2. MountsMatch(s, t, l, c)
    BY DEF JobMatches, SettingUp
  <1>3. s.path = {p} /\ s.pc = "mounting" /\ t = s.dirs
    BY <1>2 DEF Mounting, MountsMatch
  <1>4. \A e \in t : e # d /\ ~StartsWith(d, e) /\ ~StartsWith(e, d)
    BY <1>3 DEF JobMatches, Mounting
  <1>5. \A e \in t : ~Under(e, d) /\ (Below(d, e) => e \in Slashed) /\ ~Same(d, e)
    <2> SUFFICES ASSUME NEW e \in t
                 PROVE  ~Under(e, d) /\ (Below(d, e) => e \in Slashed) /\ ~Same(d, e)
      OBVIOUS
    <2>1. PICK q \in Paths : Dir[q] = e /\ \A x \in s.todo : Depth[q] <= Depth[x]
      BY <1>2 DEF MountsMatch, ByDepth
    <2>2. Depth[q] <= Depth[p]
      BY <2>1 DEF Mounting
    <2>3. ~Under(e, d)
      BY <1>4, <2>1, <2>2, NotCovering
    <2>4. Below(d, e) => e \in Slashed
      BY <1>4 DEF StartsWith
    <2> QED
      BY <2>3, <2>4 DEF Under, Same
  \* What is live or covered and not known any more is below a directory that is known.
  <1>6. d \notin l \cup c
    <2> SUFFICES ASSUME d \in l \cup c PROVE FALSE
      OBVIOUS
    <2>1. PICK f \in Taken(s) : StartsWith(d, f)
      BY <1>2, <1>4 DEF MountsMatch
    <2>2. f = d
      BY <1>3, <1>4, <2>1 DEF Taken
    <2> QED
      BY <1>1, <2>1, <2>2, StartsUnder
  <1>7. u = n.dirs /\ u \subseteq m \ b
    <2>1. t \subseteq l \ c
      BY <1>2 DEF MountsMatch
    <2> QED
      BY <1>3, <1>5, <1>6, <2>1
  <1>8. Apart(u)
    <2> SUFFICES ASSUME NEW x \in u, NEW y \in u, x # y
                 PROVE  ~Same(x, y) /\ (Below(x, y) => y \in Slashed)
      BY DEF Apart
    <2>1. CASE x \in t /\ y \in t
      BY <1>2, <2>1 DEF MountsMatch, Apart
    <2>2. CASE x = d /\ y \in t
      BY <1>5, <2>2
    <2>3. CASE x \in t /\ y = d
      BY <1>5, <2>3 DEF Under
    <2> QED
      BY <2>1, <2>2, <2>3
  <1>9. \A e \in u : \E i \in n.info : i[1] = e
    <2>1. <<d, p>> \in n.info /\ <<d, p>>[1] = d
      OBVIOUS
    <2>2. ASSUME NEW e \in t
          PROVE  \E i \in n.info : i[1] = e
      <3>1. PICK i \in s.info : i[1] = e
        BY <1>2 DEF MountsMatch
      <3>2. <<e, i[2]>> \in n.info
        BY <1>4, <3>1
      <3> QED
        BY <3>2
    <2> QED
      BY <2>1, <2>2
  <1>10. PathsShown(n, u)
    <2> SUFFICES ASSUME NEW i \in n.info
                 PROVE  ShownBy(i[2], i[1]) /\ i[1] \in u
      BY DEF PathsShown
    <2>1. CASE i = <<d, p>>
      BY <2>1 DEF ShownBy, Under, Same
    <2>2. CASE \E x \in s.info : i = <<IF StartsWith(x[1], d) THEN d ELSE x[1], x[2]>>
      <3>1. PICK x \in s.info : i = <<IF StartsWith(x[1], d) THEN d ELSE x[1], x[2]>>
        BY <2>2
      <3>2. x[1] \in Dirs /\ x[2] \in Paths /\ Dir[x[2]] \in Dirs
        BY DirsInTree DEF JobType
      <3>3. ShownBy(x[2], x[1]) /\ (x[1] \in t \/ StartsWith(x[1], d))
        BY <1>2, <1>3 DEF MountsMatch, PathsShown
      <3>4. CASE StartsWith(x[1], d)
        <4>1. i[1] = d /\ i[2] = x[2]
          BY <3>1, <3>4
        <4>2. Under(Dir[x[2]], x[1]) /\ Under(x[1], d)
          BY <1>1, <3>2, <3>3, <3>4, StartsUnder DEF ShownBy
        <4>3. Under(Dir[x[2]], d)
          BY <1>1, <3>2, <4>2, StartsUnder
        <4> QED
          BY <4>1, <4>3 DEF ShownBy
      <3>5. CASE ~StartsWith(x[1], d)
        <4>1. i[1] = x[1] /\ i[2] = x[2]
          BY <3>1, <3>5
        <4> QED
          BY <3>3, <3>5, <4>1
      <3> QED
        BY <3>4, <3>5
    <2> QED
      BY <2>1, <2>2
  <1>11. n.info # {}
    OBVIOUS
  <1>12. ByDepth(n, u)
    <2> SUFFICES ASSUME NEW e \in u
                 PROVE  \E q \in Paths : Dir[q] = e /\ \A x \in n.todo : Depth[q] <= Depth[x]
      BY DEF ByDepth
    <2>1. CASE e \in t
      BY <1>2, <2>1 DEF MountsMatch, ByDepth
    <2>2. CASE e = d
      BY <2>2 DEF Mounting
    <2> QED
      BY <2>1, <2>2
  <1>13. ASSUME NEW e \in m \cup b
         PROVE  e \in u \/ \E f \in Taken(n) : StartsWith(e, f)
    <2>1. e = d \/ e \in l \cup c
      OBVIOUS
    <2>2. Taken(s) = Taken(n)
      BY <1>3 DEF Taken
    <2> QED
      BY <1>2, <2>1, <2>2 DEF MountsMatch
  <1>14. MountsMatch(n, u, m, b)
    BY <1>7, <1>8, <1>9, <1>10, <1>11, <1>12, <1>13 DEF MountsMatch
  <1> QED
    BY <1>14 DEF JobMatches

LEMMA MountKeeps ==
  ASSUME SshInv, NEW j \in Jobs, Mount(j)
  PROVE  JobsInv' /\ FaultFree'
  <1> USE DEF SshInv
  <1>0. UNCHANGED <<up, root, key, saved, wiped, stuck>> /\ up = "up" /\ job[j].pc = "mounting"
    BY DEF Mount, At
  <1>1. PICK p \in Paths : /\ Mounting(job[j], p) /\ job[j].path = {p}
                           /\ Current(j) = p /\ MountDir(p) = Dir[p] /\ Dir[p] \in Dirs
    BY <1>0, InHand
  <1> DEFINE d == Dir[p]
             n == PathDone(j, d)
  <1>2. /\ ComesUp(<<j, d>>)
        /\ tracked' = tracked \cup {<<j, d>>}
        /\ covered' = covered \cup {x \in Of(j, live) : Under(x[2], d)}
        /\ job' = [job EXCEPT ![j] = n]
    BY <1>1 DEF Mount
  <1>3. job[j] \in JobType
    BY DEF SshTypeOK, JobType
  <1>4. /\ n.pc = "next" /\ n.dirs = job[j].dirs \cup {d} /\ n.info = Shown(j, d)
        /\ n.todo = job[j].todo \ {p} /\ n.path = {}
    BY <1>1, <1>3 DEF PathDone, JobType
  <1>5. n \in JobType
    <2>1. Shown(j, d) \in SUBSET (Dirs \X Paths)
      BY <1>1, <1>3 DEF Shown, JobType
    <2> QED
      BY <1>1, <1>3, <2>1 DEF PathDone, JobType
  <1>6. On(j, live \cup late)' = On(j, live \cup late) \cup {d}
    BY <1>1, <1>2 DEF ComesUp, On
  <1> HIDE DEF n
  <1>7. n.info = {<<IF StartsWith(i[1], d) THEN d ELSE i[1], i[2]>> : i \in job[j].info}
                   \cup {<<d, p>>}
    BY <1>1, <1>4 DEF Shown
  <1>8. On(j, covered)' \subseteq On(j, covered) \cup {e \in On(j, live \cup late) : Under(e, d)}
    BY <1>2 DEF On, Of
  <1>9. JobMatches(n, On(j, tracked) \cup {d}, On(j, live \cup late)', On(j, covered)', {j} \cap key)
    <2> DEFINE s == job[j]
               t == On(j, tracked)
               l == On(j, live \cup late)
               c == On(j, covered)
               m == On(j, live \cup late)'
               b == On(j, covered)'
               r == {j} \cap key
    <2>1. JobMatches(s, t, l, c, r)
      BY Own
    <2>2. s \in JobType /\ s.pc = "mounting" /\ Mounting(s, p)
      BY <1>0, <1>1, <1>3
    <2>3. t \in SUBSET Dirs /\ l \in SUBSET Dirs /\ c \in SUBSET Dirs
      BY DEF On
    <2>4. /\ n.dirs = s.dirs \cup {Dir[p]} /\ n.todo = s.todo \ {p} /\ n.path = {}
          /\ n.info = {<<IF StartsWith(i[1], Dir[p]) THEN Dir[p] ELSE i[1], i[2]>> : i \in s.info}
                        \cup {<<Dir[p], p>>}
          /\ m = l \cup {Dir[p]} /\ b \subseteq c \cup {e \in l : Under(e, Dir[p])}
      BY <1>4, <1>6, <1>7, <1>8
    <2> HIDE DEF s, t, l, c, m, b, r
    <2>5. JobMatches(n, t \cup {Dir[p]}, m, b, r)
      BY <1>4, <1>5, <2>1, <2>2, <2>3, <2>4, MountMatches
    <2> QED
      BY <2>5 DEF t, m, b, r
  <1>10. job'[j] = n /\ \A k \in Jobs \ {j} : job'[k] = job[k]
    BY <1>2 DEF SshTypeOK
  <1>11. On(j, tracked)' = On(j, tracked) \cup {d}
    BY <1>1, <1>2 DEF On
  <1>12. JobInv(j)'
    BY <1>0, <1>4, <1>9, <1>10, <1>11 DEF JobInv, RootLeft
  <1>13. mountFaults' \in Nat /\ mountFaults' >= mountFaults
    BY <1>2, MaxMountFaultsAssumption DEF SshTypeOK, ComesUp, NoFault, MountFault
  <1>14. \A k \in Jobs \ {j} : JobInv(k)'
    <2>1. ASSUME NEW k \in Jobs \ {j}
          PROVE  /\ On(k, tracked)' = On(k, tracked)
                 /\ On(k, live)' = On(k, live) /\ On(k, live \cup late)' = On(k, live \cup late)
                 /\ On(k, covered)' = On(k, covered)
      BY <1>2 DEF On, Of, ComesUp
    <2> QED
      BY <1>0, <1>10, <1>13, <2>1, OtherJobs
  <1>15. FaultFree'
    <2> SUFFICES ASSUME mountFaults' = 0
                 PROVE  /\ up' = "up" /\ late' = {} /\ tracked' \subseteq live'
                        /\ live' \subseteq tracked' \cup stuck' /\ wiped' \subseteq stuck'
                        /\ SlashStuck'
      BY DEF FaultFree
    <2>1. mountFaults = 0 /\ live' = live \cup {<<j, d>>} /\ late' = late
      BY <1>2, MaxMountFaultsAssumption DEF SshTypeOK, ComesUp, NoFault, MountFault
    <2> QED
      BY <1>0, <1>2, <2>1 DEF FaultFree, SlashStuck
  <1> QED
    BY <1>12, <1>14, <1>15 DEF JobsInv

\* What a mount counts for is the directories of its job.
LEMMA OfIsOn ==
  ASSUME NEW j \in Jobs, NEW set \in SUBSET Mounts
  PROVE  /\ Of(j, set) = {<<j, d>> : d \in On(j, set)}
         /\ {m[2] : m \in Of(j, set)} = On(j, set)
  <1>1. ASSUME NEW m \in Of(j, set)
        PROVE  m = <<j, m[2]>> /\ m[2] \in On(j, set)
    <2>1. m \in Jobs \X Dirs /\ m \in set /\ m[1] = j
      BY DEF Of, Mounts
    <2>2. m = <<m[1], m[2]>> /\ m[2] \in Dirs
      BY <2>1
    <2> QED
      BY <2>1, <2>2 DEF On
  <1>2. ASSUME NEW d \in On(j, set)
        PROVE  <<j, d>> \in Of(j, set)
    BY DEF Of, On
  <1> QED
    BY <1>1, <1>2

LEMMA RootWithMounts ==
  ASSUME NEW j \in Jobs, live' \in SUBSET Mounts, RemoveRoots({j}), j \in root'
  PROVE  On(j, live)' # {}
  <1>1. Of(j, live') # {}
    BY DEF RemoveRoots
  <1>2. Of(j, live') = {<<j, d>> : d \in On(j, live')}
    BY OfIsOn
  <1> QED
    BY <1>1, <1>2 DEF On

\* A job whose mounts are being undone owes nothing until it ends.
LEMMA FailingKeeps ==
  ASSUME SshInv, NEW j \in Jobs, MountFails(j) \/ UndoMount(j) \/ GiveUp(j)
  PROVE  JobsInv' /\ FaultFree'
  <1> USE DEF SshInv
  <1>1. up = "up" /\ up' = up /\ saved' = saved /\ late' = late /\ covered' = covered
    BY DEF MountFails, UndoMount, GiveUp, At
  <1>2. mountFaults' \in Nat /\ mountFaults' >= mountFaults /\ mountFaults' > 0
    <2>1. mountFaults \in Nat
      BY MaxMountFaultsAssumption DEF SshTypeOK
    <2>2. CASE MountFails(j)
      BY <2>1, <2>2 DEF MountFails, MountFault
    <2>3. CASE UndoMount(j) \/ GiveUp(j)
      <3>1. job[j].pc = "failing" /\ mountFaults' = mountFaults
        BY <2>3 DEF UndoMount, GiveUp, At
      <3> QED
        <4>1. mountFaults > 0
          BY <3>1, Own
        <4> QED
          BY <2>1, <3>1, <4>1
    <2> QED
      BY <2>2, <2>3
  <1>3. job' \in [Jobs -> JobType] /\ job[j] \in JobType
    <2>1. JobStep(j)
      BY DEF JobStep
    <2> QED
      BY <2>1, StepTypes DEF SshTypeOK, JobType
  <1>4. \A k \in Jobs \ {j} : job'[k] = job[k]
    BY <1>3 DEF SshTypeOK, MountFails, UndoMount, GiveUp, Goto
  <1>5. ASSUME NEW k \in Jobs \ {j}
        PROVE  /\ On(k, tracked)' = On(k, tracked)
               /\ On(k, live)' = On(k, live) /\ On(k, live \cup late)' = On(k, live \cup late)
               /\ On(k, covered)' = On(k, covered)
               /\ {k} \cap key' = {k} \cap key /\ (k \in root' => k \in root)
    <2>1. CASE MountFails(j)
      BY <2>1 DEF MountFails, On
    <2>2. CASE UndoMount(j)
      BY <2>2 DEF UndoMount, On, Of
    <2>3. CASE GiveUp(j)
      BY <2>3 DEF GiveUp, On, RemoveRoots
    <2> QED
      BY <2>1, <2>2, <2>3
  <1>6. \A k \in Jobs \ {j} : JobInv(k)'
    BY <1>1, <1>2, <1>4, <1>5, OtherJobs
  <1>7. JobInv(j)'
    <2>1. CASE MountFails(j) \/ UndoMount(j)
      <3>1. job'[j].pc = "failing"
        BY <1>3, <2>1 DEF MountFails, UndoMount, Goto, At, SshTypeOK, JobType
      <3> QED
        BY <1>1, <1>2, <3>1 DEF JobInv, JobMatches, RootLeft, SettingUp
    <2>2. CASE GiveUp(j)
      <3>1. job'[j].pc = "done"
        BY <2>2 DEF GiveUp, SshTypeOK, JobOver, NewJob
      <3>2. On(j, tracked)' = {} /\ {j} \cap key' = {}
        BY <2>2 DEF GiveUp, On, Of
      <3>3. j \in root' => On(j, live)' # {}
        BY <2>2, RootWithMounts DEF GiveUp, SshTypeOK
      <3> QED
        BY <1>1, <3>1, <3>2, <3>3 DEF JobInv, JobMatches, RootLeft, SettingUp
    <2> QED
      BY <2>1, <2>2
  <1>8. FaultFree'
    BY <1>2 DEF FaultFree
  <1> QED
    BY <1>6, <1>7, <1>8 DEF JobsInv

LEMMA MountedKeeps ==
  ASSUME SshInv, NEW j \in Jobs, Mounted(j)
  PROVE  JobsInv' /\ FaultFree'
  <1> USE DEF SshInv
  <1>0. UNCHANGED <<up, root, key, live, late, tracked, wiped, covered, stuck, mountFaults>> /\ up = "up"
    BY DEF Mounted, At
  <1>1. saved' = tracked /\ job[j].pc = "next" /\ job[j].todo = {}
    BY DEF Mounted, At
  <1> DEFINE s == job[j]
             n == [s EXCEPT !.pc = "working"]
             t == On(j, tracked)
             l == On(j, live \cup late)
             c == On(j, covered)
             r == {j} \cap key
  <1>2. /\ n.pc = "working" /\ n.dirs = s.dirs /\ n.info = s.info /\ n.todo = s.todo
        /\ n.path = s.path /\ job' = [job EXCEPT ![j] = n]
    BY DEF Mounted, Goto, SshTypeOK
  <1>3. job'[j] = n /\ \A k \in Jobs \ {j} : job'[k] = job[k]
    BY <1>2 DEF SshTypeOK
  <1>4. JobMatches(s, t, l, c, r)
    BY Own
  <1> HIDE DEF n, t, l, c, r
  <1>5. MountsMatch(s, t, l, c) /\ s.path = {}
    BY <1>1, <1>4 DEF JobMatches, SettingUp
  <1>6. MountsMatch(n, t, l, c) /\ n.info # {}
    BY <1>1, <1>2, <1>5 DEF MountsMatch, PathsShown, ByDepth, Taken
  <1>7. JobMatches(n, t, l, c, r)
    BY <1>2, <1>5, <1>6 DEF JobMatches
  <1>8. JobInv(j)'
    BY <1>0, <1>2, <1>3, <1>7 DEF JobInv, RootLeft, On, t, l, c, r
  <1>9. \A k \in Jobs \ {j} : JobInv(k)'
    BY <1>0, <1>1, <1>3, OtherJobs DEF On, SshTypeOK
  <1> QED
    BY <1>0, <1>8, <1>9 DEF JobsInv, FaultFree, SlashStuck

LEMMA UnmountKeeps ==
  ASSUME SshInv, NEW j \in Jobs, Unmount(j)
  PROVE  JobsInv' /\ FaultFree'
  <1> USE DEF SshInv
  <1>0. UNCHANGED <<up, job, late, covered>> /\ up = "up" /\ job[j].pc = "unmounting"
    BY DEF Unmount, At
  <1>1. PICK d \in Deepest(j) :
          /\ TryUnmount(<<j, d>>)
          /\ IF KeepsRoot(<<j, d>>) THEN UNCHANGED <<root, key, wiped>>
             ELSE RemoveRoots({j}) /\ key' = key \ {j}
          /\ tracked' = tracked \ {<<j, d>>}
          /\ saved' = tracked'
    BY DEF Unmount
  <1>2. On(j, tracked)' = On(j, tracked) \ {d}
    BY <1>1 DEF On
  <1>3. live' \subseteq live /\ live \ {<<j, d>>} \subseteq live'
    BY <1>1, Tried
  <1>4. ASSUME ~KeepsRoot(<<j, d>>)
        PROVE  /\ j \notin key' /\ (j \in root' => On(j, live)' # {})
               /\ Of(j, tracked) = {<<j, d>>}
               /\ wiped' = wiped \cup {m \in live' : m[1] = j /\ j \in root}
    <2>1. RemoveRoots({j}) /\ key' = key \ {j} /\ Of(j, tracked) = {<<j, d>>}
      BY <1>1, <1>4 DEF KeepsRoot
    <2>2. live' \in SUBSET Mounts
      BY <1>3 DEF SshTypeOK
    <2>3. j \in root' => On(j, live)' # {}
      BY <2>1, <2>2, RootWithMounts
    <2> QED
      BY <2>1, <2>3 DEF RemoveRoots
  <1>5. On(j, tracked)' = {} => {j} \cap key' = {} /\ (j \in root' => On(j, live)' # {})
    <2>1. ASSUME On(j, tracked)' = {}
          PROVE  ~KeepsRoot(<<j, d>>)
      <3>1. On(j, tracked) \subseteq {d}
        BY <1>2, <2>1
      <3>2. d \in On(j, tracked)
        BY <1>1 DEF Deepest, Of, On, SshTypeOK, Mounts
      <3>3. Of(j, tracked) = {<<j, d>>}
        BY <3>1, <3>2, OfIsOn DEF SshTypeOK
      <3> QED
        BY <3>3 DEF KeepsRoot
    <2> QED
      BY <1>4, <2>1
  <1>6. JobMatches(job[j], On(j, tracked), On(j, live \cup late), On(j, covered), {j} \cap key)
    BY Own
  <1>7. JobInv(j)'
    BY <1>0, <1>2, <1>5, <1>6 DEF JobInv, JobMatches, RootLeft, SettingUp
  <1>8. mountFaults' \in Nat /\ mountFaults' >= mountFaults
    BY <1>1, Tried, MaxMountFaultsAssumption
  <1>9. ASSUME NEW k \in Jobs \ {j}
        PROVE  /\ On(k, tracked)' = On(k, tracked)
               /\ On(k, live)' = On(k, live) /\ On(k, live \cup late)' = On(k, live \cup late)
               /\ On(k, covered)' = On(k, covered)
               /\ {k} \cap key' = {k} \cap key /\ (k \in root' => k \in root)
    <2>1. On(k, tracked)' = On(k, tracked) /\ On(k, live)' = On(k, live)
      BY <1>1, <1>3 DEF On
    <2>2. {k} \cap key' = {k} \cap key /\ (k \in root' => k \in root)
      BY <1>1 DEF RemoveRoots
    <2> QED
      BY <1>0, <2>1, <2>2 DEF On
  <1>10. \A k \in Jobs \ {j} : JobInv(k)'
    BY <1>0, <1>1, <1>8, <1>9, OtherJobs
  \* Nothing that is tracked is mounted inside the deepest mount.
  <1>11. d \in Dirs /\ \A m \in Of(j, tracked) : ~Below(m[2], d)
    <2>1. d \in {i[1] : i \in job[j].info} \cap {m[2] : m \in Of(j, tracked)}
          /\ \A e \in {i[1] : i \in job[j].info} \cap {m[2] : m \in Of(j, tracked)} : ~Below(e, d)
      BY <1>1 DEF Deepest
    <2>2. \A e \in On(j, tracked) : \E i \in job[j].info : i[1] = e
      BY <1>0, <1>6 DEF JobMatches
    <2>3. {m[2] : m \in Of(j, tracked)} = On(j, tracked)
      BY OfIsOn DEF SshTypeOK
    <2>4. d \in Dirs
      BY <2>1, <2>3 DEF On
    <2> QED
      BY <2>1, <2>2, <2>3, <2>4
  <1>12. FaultFree'
    <2> SUFFICES ASSUME mountFaults' = 0
                 PROVE  /\ up' = "up" /\ late' = {} /\ tracked' \subseteq live'
                        /\ live' \subseteq tracked' \cup stuck' /\ wiped' \subseteq stuck'
                        /\ SlashStuck'
      BY DEF FaultFree
    <2>1. /\ mountFaults = 0 /\ up = "up" /\ late = {} /\ tracked \subseteq live
          /\ live \subseteq tracked \cup stuck /\ wiped \subseteq stuck /\ SlashStuck
      BY <1>1, Tried DEF FaultFree
    <2>2. /\ tracked' \subseteq live' /\ live' \subseteq tracked' \cup stuck' /\ SlashStuck'
          /\ stuck \subseteq stuck'
      <3>1. CASE live' = live \ {<<j, d>>} /\ stuck' = stuck
        BY <1>1, <2>1, <3>1 DEF SlashStuck
      <3>2. CASE Inside(<<j, d>>) # {} /\ live' = live /\ stuck' = stuck \cup {<<j, d>>}
        <4>1. PICK n \in Inside(<<j, d>>) : TRUE
          BY <3>2
        <4>2. n \in live /\ n[1] = j /\ Below(n[2], d)
          BY <4>1 DEF Inside, Of
        <4>3. n \in stuck
          BY <1>11, <2>1, <4>2 DEF Of
        <4>4. SlashStuck'
          BY <2>1, <3>2, <4>2, <4>3, StillSlashStuck
        <4> QED
          BY <1>1, <2>1, <3>2, <4>4
      <3> QED
        BY <1>1, <3>1, <3>2, Tried
    <2>3. wiped' \subseteq stuck'
      <3>1. CASE KeepsRoot(<<j, d>>)
        BY <1>1, <2>1, <2>2, <3>1
      <3>2. CASE ~KeepsRoot(<<j, d>>)
        <4>1. ASSUME NEW m \in live', m[1] = j
              PROVE  m \in stuck'
          <5>1. m \notin tracked'
            BY <1>1, <1>4, <3>2, <4>1 DEF Of
          <5> QED
            BY <2>2, <5>1
        <4> QED
          BY <1>4, <2>1, <2>2, <3>2, <4>1
      <3> QED
        BY <3>1, <3>2
    <2> QED
      BY <1>0, <2>1, <2>2, <2>3
  <1> QED
    BY <1>7, <1>10, <1>12 DEF JobsInv

\* No mount is the deepest only when there is none.
LEMMA UnmountedKeeps ==
  ASSUME SshInv, NEW j \in Jobs, Unmounted(j)
  PROVE  JobsInv' /\ FaultFree'
  <1> USE DEF SshInv
  <1>0. /\ UNCHANGED <<up, root, key, live, late, tracked, saved, wiped, covered, stuck, mountFaults>>
        /\ up = "up" /\ job[j].pc = "unmounting" /\ Deepest(j) = {}
    BY DEF Unmounted, At
  <1> DEFINE t == On(j, tracked)
             mine == {i[1] : i \in job[j].info} \cap {m[2] : m \in Of(j, tracked)}
  <1>1. JobMatches(job[j], t, On(j, live \cup late), On(j, covered), {j} \cap key) /\ RootLeft(j)
    BY Own
  <1>2. mine = t
    <2>1. {m[2] : m \in Of(j, tracked)} = t
      BY OfIsOn DEF SshTypeOK
    <2>2. \A d \in t : \E i \in job[j].info : i[1] = d
      BY <1>0, <1>1 DEF JobMatches
    <2> QED
      BY <2>1, <2>2
  <1>3. t = {}
    <2>1. {d \in mine : \A e \in mine : ~Below(e, d)} = {}
      BY <1>0 DEF Deepest
    <2>2. t \in SUBSET Dirs
      BY DEF On
    <2> HIDE DEF mine, t
    <2> QED
      BY <1>2, <2>1, <2>2, HasDeepest
  <1>4. {j} \cap key = {} /\ (j \in root => On(j, live) # {})
    BY <1>0, <1>1, <1>3 DEF JobMatches, RootLeft
  <1>5. job'[j] = JobOver("done") /\ \A k \in Jobs \ {j} : job'[k] = job[k]
    BY DEF Unmounted, SshTypeOK
  <1>6. JobInv(j)'
    BY <1>0, <1>3, <1>4, <1>5 DEF JobInv, JobMatches, RootLeft, SettingUp, JobOver, NewJob, On
  <1>7. \A k \in Jobs \ {j} : JobInv(k)'
    BY <1>0, <1>5, OtherJobs DEF On, SshTypeOK
  <1> QED
    BY <1>0, <1>6, <1>7 DEF JobsInv, FaultFree, SlashStuck

LEMMA PrepareKeeps ==
  ASSUME SshInv, NEW j \in Jobs, Prepare(j)
  PROVE  JobsInv' /\ FaultFree'
  <1> USE DEF SshInv
  <1>0. /\ UNCHANGED <<up, live, late, tracked, saved, wiped, covered, stuck, mountFaults>>
        /\ up = "up" /\ job[j].pc = "new"
        /\ root' = root \cup {j} /\ key' = key \cup {j}
    BY DEF Prepare, At
  <1>1. PICK todo \in (SUBSET Paths) \ {{}} :
          job' = [job EXCEPT ![j].pc = "next", ![j].todo = todo]
    BY DEF Prepare
  <1> DEFINE n == [NewJob EXCEPT !.pc = "next", !.todo = todo]
  <1>2. /\ job[j] = NewJob /\ On(j, tracked) = {}
        /\ On(j, live \cup late) = {} /\ On(j, covered) = {}
    BY <1>0, Own DEF JobMatches
  <1>3. job'[j] = n /\ \A k \in Jobs \ {j} : job'[k] = job[k]
    BY <1>1, <1>2 DEF SshTypeOK
  <1>4. n.pc = "next" /\ n.dirs = {} /\ n.info = {} /\ n.todo # {} /\ n.path = {}
    <2>1. todo # {}
      BY <1>1
    <2>2. n.pc = "next" /\ n.dirs = {} /\ n.info = {} /\ n.todo = todo /\ n.path = {}
      BY DEF NewJob
    <2> QED
      BY <2>1, <2>2
  <1> HIDE DEF n
  <1>5. JobInv(j)'
    <2>1. /\ On(j, tracked)' = {} /\ On(j, live \cup late)' = {} /\ On(j, covered)' = {}
      BY <1>0, <1>2 DEF On
    <2>2. MountsMatch(n, {}, {}, {})
      BY <1>4 DEF MountsMatch, Apart, PathsShown, ByDepth
    <2> QED
      BY <1>0, <1>3, <1>4, <2>1, <2>2 DEF JobInv, JobMatches, RootLeft
  <1>6. \A k \in Jobs \ {j} : JobInv(k)'
    BY <1>0, <1>3, OtherJobs DEF On, SshTypeOK
  <1> QED
    BY <1>0, <1>5, <1>6 DEF JobsInv, FaultFree, SlashStuck

LEMMA FinishKeeps ==
  ASSUME SshInv, NEW j \in Jobs, Finish(j)
  PROVE  JobsInv' /\ FaultFree'
  <1> USE DEF SshInv
  <1>0. /\ UNCHANGED <<up, root, key, live, late, tracked, saved, wiped, covered, stuck, mountFaults>>
        /\ up = "up" /\ job[j].pc = "working"
    BY DEF Finish, At
  <1>1. job'[j] = [job[j] EXCEPT !.pc = "unmounting"] /\ \A k \in Jobs \ {j} : job'[k] = job[k]
    BY DEF Finish, Goto, SshTypeOK
  <1>2. job'[j].pc = "unmounting" /\ job'[j].info = job[j].info
    BY <1>1 DEF SshTypeOK
  <1>3. JobMatches(job[j], On(j, tracked), On(j, live \cup late), On(j, covered), {j} \cap key)
    BY Own
  <1>4. MountsMatch(job[j], On(j, tracked), On(j, live \cup late), On(j, covered))
        /\ job[j].info # {} /\ job[j].path = {}
    BY <1>0, <1>3 DEF JobMatches, SettingUp
  <1>5. On(j, tracked) # {}
    BY <1>0, <1>4 DEF MountsMatch, PathsShown
  <1>6. JobInv(j)'
    BY <1>0, <1>2, <1>4, <1>5 DEF JobInv, JobMatches, RootLeft, SettingUp, MountsMatch, On
  <1>7. \A k \in Jobs \ {j} : JobInv(k)'
    BY <1>0, <1>1, OtherJobs DEF On, SshTypeOK
  <1> QED
    BY <1>0, <1>6, <1>7 DEF JobsInv, FaultFree, SlashStuck

LEMMA LateMountKeeps ==
  ASSUME SshInv, NEW m \in Mounts, LateMount(m)
  PROVE  JobsInv' /\ FaultFree'
  <1> USE DEF SshInv
  <1>1. /\ UNCHANGED <<up, job, root, key, tracked, saved, wiped, covered, stuck, mountFaults>>
        /\ (live \cup late)' = live \cup late /\ live \subseteq live' /\ late # {}
    BY DEF LateMount
  <1>2. ASSUME NEW j \in Jobs
        PROVE  JobInv(j)'
    <2>1. RootLeft(j)'
      BY <1>1, Own DEF RootLeft, On
    <2> QED
      BY <1>1, <2>1, Own DEF JobInv, On
  <1> QED
    BY <1>1, <1>2 DEF JobsInv, FaultFree

\* Restarts: of the jobs only those are left that had not begun.
LEMMA RestartKeeps ==
  ASSUME SshInv, Crash \/ Import \/ Startup
  PROVE  JobsInv' /\ FaultFree'
  <1> USE DEF SshInv
  <1>1. mountFaults' > 0
    <2>1. mountFaults \in Nat
      BY MaxMountFaultsAssumption DEF SshTypeOK
    <2> QED
      BY <2>1 DEF Crash, Import, Startup, MountFault, FaultFree
  <1>2. ASSUME NEW j \in Jobs
        PROVE  /\ job'[j].pc \in {"new", "lost"}
               /\ job'[j].pc = "new" =>
                    /\ job'[j] = NewJob
                    /\ On(j, tracked)' = {} /\ On(j, saved)' = {} /\ {j} \cap key' = {}
                    /\ On(j, live \cup late)' = {} /\ On(j, covered)' = {}
    <2>1. job[j].pc = "new" =>
            /\ job[j] = NewJob
            /\ On(j, tracked) = {} /\ On(j, saved) = {} /\ {j} \cap key = {}
            /\ On(j, live \cup late) = {} /\ On(j, covered) = {}
      BY Own DEF JobMatches
    <2>2. CASE Crash
      BY <2>1, <2>2 DEF Crash, JobOver, NewJob, On
    <2>3. CASE Import
      <3>1. tracked' \subseteq saved /\ key' \subseteq key
        BY <2>3 DEF Import, StillMounted
      <3>2. /\ saved' = tracked' /\ live' = live /\ late' = late /\ covered' = covered
            /\ job' = job /\ job[j].pc \in {"new", "lost"}
        BY <2>3, Own DEF Import
      <3> QED
        BY <2>1, <3>1, <3>2 DEF On
    <2>4. CASE Startup
      BY <2>1, <2>4, Own DEF Startup, On
    <2> QED
      BY <2>2, <2>3, <2>4
  <1>3. \A j \in Jobs : JobInv(j)'
    BY <1>2 DEF JobInv, JobMatches, RootLeft, SettingUp
  <1> QED
    BY <1>1, <1>3 DEF JobsInv, FaultFree
-----------------------------------------------------------------------------
(* The invariant, and what follows from it. *)

LEMMA SshStarts == SshInit => SshInv
  <1> SUFFICES ASSUME SshInit PROVE SshInv
    OBVIOUS
  <1>1. SshTypeOK
    BY MaxMountFaultsAssumption DEF SshInit, SshTypeOK, NewJob
  <1>2. JobsInv
    BY DEF SshInit, JobsInv, JobInv, JobMatches, RootLeft, SettingUp, NewJob, On
  <1>3. FaultFree
    BY DEF SshInit, FaultFree, SlashStuck
  <1> QED
    BY <1>1, <1>2, <1>3 DEF SshInv

LEMMA SshKeeps == SshInv /\ [SshNext]_sshVars => SshInv'
  <1> SUFFICES ASSUME SshInv, [SshNext]_sshVars PROVE SshInv'
    OBVIOUS
  <1>1. SshTypeOK'
    BY SshTypes DEF SshInv
  <1>2. CASE \E j \in Jobs : Prepare(j)
    BY <1>1, <1>2, PrepareKeeps DEF SshInv
  <1>3. CASE \E j \in Jobs : JobStep(j)
    <2>1. PICK j \in Jobs : JobStep(j)
      BY <1>3
    <2>2. JobsInv' /\ FaultFree'
      BY <2>1, ReuseKeeps, TakeKeeps, UnmountHiddenKeeps, MountKeeps, FailingKeeps, MountedKeeps,
         UnmountKeeps, UnmountedKeeps DEF JobStep
    <2> QED
      BY <1>1, <2>2 DEF SshInv
  <1>4. CASE \E j \in Jobs : Finish(j)
    BY <1>1, <1>4, FinishKeeps DEF SshInv
  <1>5. CASE \E m \in Mounts : LateMount(m)
    BY <1>1, <1>5, LateMountKeeps DEF SshInv
  <1>6. CASE Crash \/ Import \/ Startup
    BY <1>1, <1>6, RestartKeeps DEF SshInv
  <1>7. CASE UNCHANGED sshVars
    BY <1>1, <1>7 DEF SshInv, JobsInv, JobInv, RootLeft, FaultFree, SlashStuck, On, sshVars
  <1> QED
    BY <1>2, <1>3, <1>4, <1>5, <1>6, <1>7 DEF SshNext

\* The inductive invariant: what every job of mount_ssh_paths_shared knows of its mounts is
\* so, and before the first fault the kernel has the tracked mounts, those that were stuck
\* on a mount inside, and no others.
THEOREM SshInvariant == SshSpec => []SshInv
  <1> QED
    BY SshStarts, SshKeeps, PTL DEF SshSpec

\* Every path a job works on is shown by a mount of the job that is tracked and that nothing
\* was mounted over, whatever was reused or replaced (mount_ssh_paths_shared); a mount is
\* inside another only if that one was written with a slash at the end.
THEOREM SshSources == SshSpec => []SourcesAreMounted
  <1>1. SshInv => SourcesAreMounted
    <2> SUFFICES ASSUME SshInv, NEW j \in Jobs, At(j, "working")
                 PROVE  /\ \A i \in job[j].info :
                             /\ Under(Dir[i[2]], i[1])
                             /\ <<j, i[1]>> \in (tracked \cap (live \cup late)) \ covered
                        /\ \A m, n \in Of(j, tracked) : m # n =>
                             ~Same(m[2], n[2]) /\ (Below(m[2], n[2]) => n[2] \in Slashed)
      BY DEF SourcesAreMounted
    <2>1. /\ MountsMatch(job[j], On(j, tracked), On(j, live \cup late), On(j, covered))
          /\ job[j].path = {}
      BY Own DEF SshInv, JobMatches, SettingUp, At
    <2>2. \A i \in job[j].info : ShownBy(i[2], i[1]) /\ i[1] \in On(j, tracked)
      BY <2>1 DEF MountsMatch, PathsShown
    <2>3. \A d \in On(j, tracked) : <<j, d>> \in (tracked \cap (live \cup late)) \ covered
      BY <2>1 DEF MountsMatch, On
    <2>4. \A m \in Of(j, tracked) : m[2] \in On(j, tracked) /\ m = <<j, m[2]>>
      BY OfIsOn DEF SshInv, SshTypeOK
    <2>5. ASSUME NEW m \in Of(j, tracked), NEW n \in Of(j, tracked), m # n
          PROVE  ~Same(m[2], n[2]) /\ (Below(m[2], n[2]) => n[2] \in Slashed)
      <3>1. m[2] # n[2]
        BY <2>4, <2>5
      <3>2. Apart(On(j, tracked))
        BY <2>1 DEF MountsMatch
      <3> QED
        BY <2>4, <3>1, <3>2 DEF Apart
    <2> QED
      BY <2>2, <2>3, <2>5 DEF ShownBy
  <1> QED
    BY <1>1, SshInvariant, PTL

\* Unless something failed no mounted directory is removed as if it were a local one: the
\* root of a job goes with its last mount (MountService.unmount). The exception is what was
\* stuck on a mount inside, which takes a directory written with a slash at the end.
THEOREM SshNothingWiped == SshSpec => []OnlyFaultsWipe
  <1>1. SshInv => OnlyFaultsWipe
    BY DEF SshInv, FaultFree, SlashStuck, OnlyFaultsWipe
  <1> QED
    BY <1>1, SshInvariant, PTL

\* A job that came to its end has no key or tracked mount left, on every way there, and no
\* root unless something is still mounted in it (_cleanup_ssh_mounts, and the handler of
\* mount_ssh_paths_shared).
THEOREM SshNothingLeft == SshSpec => []EndedJobLeavesNothing
  <1>1. SshInv => EndedJobLeavesNothing
    <2> SUFFICES ASSUME SshInv, NEW j \in Jobs, job[j].pc = "done"
                 PROVE  /\ j \notin key
                        /\ Of(j, tracked) = {}
                        /\ j \in root => Of(j, live) # {}
                        /\ mountFaults = 0 => Of(j, live) \subseteq stuck
      BY DEF EndedJobLeavesNothing
    <2>1. On(j, tracked) = {} /\ {j} \cap key = {} /\ (j \in root => On(j, live) # {})
      BY Own DEF SshInv, JobMatches, RootLeft
    <2>2. Of(j, tracked) = {}
      BY <2>1, OfIsOn DEF SshInv, SshTypeOK
    <2>3. j \in root => Of(j, live) # {}
      <3>1. Of(j, live) = {<<j, d>> : d \in On(j, live)}
        BY OfIsOn DEF SshInv, SshTypeOK
      <3> QED
        BY <2>1, <3>1
    <2>4. mountFaults = 0 => Of(j, live) \subseteq stuck
      BY <2>2 DEF SshInv, FaultFree, Of
    <2> QED
      BY <2>1, <2>2, <2>3, <2>4
  <1> QED
    BY <1>1, SshInvariant, PTL
=============================================================================
