--------------------------- MODULE MqttStateProofs ---------------------------
(***************************************************************************)
(* For every set of repositories and however often they change: what the   *)
(* broker shows of a repository that is gone is known to be there, so that *)
(* a later publication removes it.                                         *)
(***************************************************************************)
EXTENDS MqttState, TLAPS

\* What the broker comes to show when the client has delivered what it has.
Latest(r) == IF out[r] # Nothing THEN out[r] ELSE broker[r]

\* A repository that is shown, or will be by a publication, is there or marked.
Showing(r) == Latest(r) # None \/ \E t \in Threads : sync[t].seen[r] # None
Known(r) ==
    Showing(r) => \/ db[r] # None
                  \/ r \in synced \cup pending \cup unqueued
                  \/ deleting = r

\* A publication, whatever else goes on.
SyncInv(t) ==
    /\ Idle(t) => sync[t] = NoSync
    /\ sync[t].pc = "publish" => \A r \in sync[t].todo : sync[t].seen[r] # None
    /\ sync[t].pc = "markers" => sync[t].old = {}
    /\ sync[t].pc \in {"markers", "server"} => sync[t].ok

\* A repository that was gone when the publication began, and was marked, has yet to be
\* removed, has been removed, or was not: then the markers are kept.
Removed(t, r) ==
    \/ sync[t].pc \in {"server", "clean"} /\ r \in sync[t].todo
    \/ Latest(r) = None
    \/ ~sync[t].ok

Marked(t) ==
    sync[t].pc \in {"server", "clean", "publish"} =>
       \A r \in Repos : sync[t].seen[r] = None /\ r \in synced \cup sync[t].old => Removed(t, r)

\* The deletions that were read are still all there are, if there were any.
SameQueue(t) == sync[t].old # {} => pending = sync[t].old

Alone == \A s, t \in Threads : Idle(s) \/ Idle(t) \/ s = t

SyncsInv == (client # "up" => Idle(Net)) /\ \A t \in Threads : SyncInv(t)
MarkInv == NothingLost => Alone /\ \A t \in Threads : Marked(t) /\ SameQueue(t)
KnownInv == NothingLost => \A r \in Repos : Known(r)
Inv == TypeOK /\ SyncsInv /\ MarkInv /\ KnownInv
-----------------------------------------------------------------------------
LEMMA Bounds == MaxChanges \in Nat /\ MaxTroubles \in Nat
  BY MqttStateAssumption

\* A trouble is counted.
LEMMA TroubleType ==
  ASSUME TypeOK
  PROVE  /\ Fault => faults' = faults + 1 /\ faults' \in 0 .. MaxTroubles /\ faults' # 0
         /\ Loss => losses' \in 0 .. MaxTroubles
  BY Bounds DEF TypeOK, Fault, Loss, Trouble

\* What a publication is.
Syncs == [pc: {"idle", "markers", "server", "clean", "publish"}, seen: [Repos -> Shown],
          old: SUBSET Repos, todo: SUBSET Repos, ok: BOOLEAN]

LEMMA NoSyncType == NoSync \in Syncs
  <1>1. [r \in Repos |-> None] \in [Repos -> Shown]
    BY DEF Shown
  <1>2. {} \in SUBSET Repos
    OBVIOUS
  <1> QED
    BY <1>1, <1>2 DEF NoSync, Syncs

LEMMA InitInv == Init => Inv
  <1> SUFFICES ASSUME Init
               PROVE  Inv
    OBVIOUS
  <1>1. TypeOK
    <2>1. sync \in [Threads -> Syncs]
      BY NoSyncType DEF Init
    <2>2. /\ db \in [Repos -> Shown] /\ broker \in [Repos -> Shown]
          /\ out \in [Repos -> Shown \cup {Nothing}]
      BY DEF Init, Shown
    <2>3. client \in {"none", "dead", "waiting", "up"}
      BY DEF Init, NewClient
    <2>4. /\ deleting \in Repos \cup {None} /\ fresh \in Repos \cup {None}
          /\ synced \subseteq Repos /\ pending \subseteq Repos /\ unqueued \subseteq Repos
      BY DEF Init
    <2>5. crossed \in BOOLEAN
      BY DEF Init
    <2>6. changes \in 0 .. MaxChanges /\ losses \in 0 .. MaxTroubles /\ faults \in 0 .. MaxTroubles
      BY Bounds DEF Init
    <2> QED
      BY <2>1, <2>2, <2>3, <2>4, <2>5, <2>6 DEF TypeOK, Syncs
  <1>2. SyncsInv
    BY DEF Init, SyncsInv, SyncInv, Idle, NoSync, Threads, Loop, Net
  <1>3. MarkInv
    BY DEF Init, MarkInv, Alone, Marked, SameQueue, Idle, NoSync, Threads
  <1>4. KnownInv
    BY MqttStateAssumption DEF Init, KnownInv, Known, Showing, NoSync, Latest, Shown
  <1> QED
    BY <1>1, <1>2, <1>3, <1>4 DEF Inv

\* The database changes, and neither the client nor the publications.
LEMMA ChangeStep ==
  ASSUME Inv, Change \/ Delete \/ RollBack
  PROVE  Inv'
  <1>1. PICK r \in Repos :
          \/ \E d \in Data : /\ db' = [db EXCEPT ![r] = d] /\ UNCHANGED deleting
                            /\ fresh' \in {None, r} /\ unqueued' = unqueued \ {r}
          \/ /\ db' = [db EXCEPT ![r] = None] /\ deleting = None /\ deleting' = r
             /\ fresh' = None /\ UNCHANGED unqueued
          \/ /\ db' = [db EXCEPT ![r] = None] /\ UNCHANGED deleting
             /\ fresh' = None /\ unqueued' = unqueued \cup ({r} \ (synced \cup pending))
    <2>1. CASE Change
      BY <2>1 DEF Change
    <2>2. CASE Delete
      BY <2>2 DEF Delete, Ids
    <2>3. CASE RollBack
      BY <2>3 DEF RollBack, Inv, TypeOK
    <2> QED
      BY <2>1, <2>2, <2>3
  <1>2. UNCHANGED World /\ changes' \in 0 .. MaxChanges
    <2>1. CASE Change \/ Delete
      BY <2>1, Bounds DEF Change, Delete, Inv, TypeOK
    <2>2. CASE RollBack
      BY <2>2 DEF RollBack, Inv, TypeOK
    <2> QED
      BY <2>1, <2>2
  <1>3. TypeOK'
    <2>1. db' \in [Repos -> Shown]
      BY <1>1 DEF Inv, TypeOK, Shown
    <2>2. /\ deleting' \in Repos \cup {None} /\ fresh' \in Repos \cup {None}
          /\ unqueued' \subseteq Repos
      BY <1>1 DEF Inv, TypeOK
    <2> QED
      BY <1>2, <2>1, <2>2 DEF Inv, TypeOK, World
  <1>4. SyncsInv' /\ MarkInv'
    BY <1>2 DEF Inv, SyncsInv, SyncInv, MarkInv, NothingLost, Alone, Marked, Removed,
                SameQueue, Latest, Idle, World
  <1>5. KnownInv'
    <2>1. ASSUME NEW q \in Repos, Known(q)
          PROVE  Known(q)'
      <3>1. Latest(q)' = Latest(q) /\ UNCHANGED <<synced, pending, sync>>
        BY <1>2 DEF World, Latest
      <3>2. db[q] # None => db'[q] # None \/ deleting' = q \/ q \in synced \cup pending \cup unqueued'
        BY <1>1, MqttStateAssumption DEF Inv, TypeOK
      <3>3. deleting = q => deleting' = q
        BY <1>1, MqttStateAssumption
      <3>4. q \in unqueued => q \in unqueued' \/ db'[q] # None
        BY <1>1, MqttStateAssumption DEF Inv, TypeOK
      <3> QED
        BY <2>1, <3>1, <3>2, <3>3, <3>4 DEF Known, Showing
    <2>2. NothingLost' => NothingLost
      BY <1>2 DEF World, NothingLost
    <2> QED
      BY <2>1, <2>2 DEF Inv, KnownInv
  <1> QED
    BY <1>3, <1>4, <1>5 DEF Inv

LEMMA QueueDeletedStep ==
  ASSUME Inv, QueueDeleted
  PROVE  Inv'
  <1>1. /\ deleting \in Repos /\ deleting' = None
        /\ UNCHANGED <<db, synced, client, out, broker, sync, fresh, changes, losses>>
        /\ \/ pending' = pending \cup {deleting} /\ UNCHANGED faults
           \/ /\ faults' \in 0 .. MaxTroubles /\ faults' # 0
              /\ pending' \in {pending, {deleting}}
        /\ unqueued' = unqueued \ pending'
        /\ crossed' = (crossed \/ \E t \in Threads : Unseen(t))
    BY TroubleType DEF QueueDeleted, Inv, TypeOK
  <1>2. TypeOK'
    <2>1. crossed' \in BOOLEAN
      BY <1>1 DEF Inv, TypeOK
    <2>2. /\ pending' \subseteq Repos /\ unqueued' \subseteq Repos
          /\ faults' \in 0 .. MaxTroubles
      BY <1>1 DEF Inv, TypeOK
    <2> QED
      BY <1>1, <2>1, <2>2 DEF Inv, TypeOK
  <1>3. SyncsInv'
    BY <1>1 DEF Inv, SyncsInv, SyncInv, Idle
  <1>4. NothingLost' =>
          /\ NothingLost /\ pending' = pending \cup {deleting}
          /\ \A t \in Threads : ~Unseen(t)
    <2>1. faults \in Nat
      BY DEF Inv, TypeOK
    <2>2. ~crossed' => ~crossed /\ \A t \in Threads : ~Unseen(t)
      BY <1>1
    <2>3. faults' = 0 => faults = 0 /\ pending' = pending \cup {deleting}
      BY <1>1, <2>1
    <2> QED
      BY <2>2, <2>3 DEF NothingLost
  <1>5. MarkInv'
    <2>1. \A t \in Threads : Marked(t) => Marked(t)'
      BY <1>1 DEF Marked, Removed, Latest
    <2>2. ASSUME NothingLost', NEW t \in Threads, SameQueue(t)
          PROVE  SameQueue(t)'
      BY <1>1, <1>4, <2>2 DEF SameQueue, Unseen
    <2> QED
      BY <1>1, <1>4, <2>1, <2>2 DEF Inv, MarkInv, Alone, Idle
  <1>6. KnownInv'
    <2>1. ASSUME NothingLost', NEW r \in Repos, Known(r)
          PROVE  Known(r)'
      BY <1>1, <1>4, <2>1 DEF Known, Showing, Latest
    <2> QED
      BY <1>4, <2>1 DEF Inv, KnownInv
  <1> QED
    BY <1>2, <1>3, <1>5, <1>6 DEF Inv

\* A publication begins, on the event loop or when the client has connected.
LEMMA BeginStep ==
  ASSUME Inv, NEW t \in Threads, Idle(t),
         NEW other \in Threads, \A s \in Threads : s = t \/ s = other,
         sync' = [sync EXCEPT ![t] = Began(db)],
         crossed' = (crossed \/ ~Idle(other)),
         client' = "up",
         UNCHANGED <<db, synced, pending, out, broker, deleting, fresh, unqueued, changes,
                     losses, faults>>
  PROVE  Inv'
  <1>1. /\ Began(db) \in Syncs /\ Began(db).pc = "markers" /\ Began(db).seen = db
        /\ Began(db).old = {} /\ Began(db).ok
    BY NoSyncType DEF Began, NoSync, Syncs, Inv, TypeOK
  <1>2. sync \in [Threads -> Syncs]
    BY DEF Inv, TypeOK, Syncs
  <1>3. sync' \in [Threads -> Syncs] /\ sync'[t] = Began(db)
        /\ \A s \in Threads : s # t => sync'[s] = sync[s]
    BY <1>1, <1>2
  <1>4. crossed' \in BOOLEAN /\ (~crossed' => ~crossed /\ \A s \in Threads : s # t => Idle(s))
    BY DEF Inv, TypeOK
  <1>5. TypeOK'
    BY <1>3, <1>4 DEF Inv, TypeOK, Syncs
  <1>6. SyncsInv'
    BY <1>1, <1>3 DEF Inv, SyncsInv, SyncInv, Idle
  <1>7. MarkInv'
    <2>1. ASSUME NEW s \in Threads, Marked(s), SameQueue(s)
          PROVE  Marked(s)' /\ SameQueue(s)'
      BY <1>1, <1>3, <2>1 DEF Marked, SameQueue, Removed, Latest
    <2>2. NothingLost' => NothingLost /\ Alone'
      BY <1>3, <1>4 DEF NothingLost, Alone, Idle
    <2> QED
      BY <2>1, <2>2 DEF Inv, MarkInv
  <1>8. KnownInv'
    <2>1. ASSUME NEW r \in Repos, Known(r)
          PROVE  Known(r)'
      <3>1. Showing(r)' => Showing(r) \/ db[r] # None
        BY <1>1, <1>3 DEF Showing, Latest
      <3> QED
        BY <2>1, <3>1 DEF Known
    <2>2. NothingLost' => NothingLost
      BY <1>4 DEF NothingLost
    <2> QED
      BY <2>1, <2>2 DEF Inv, KnownInv
  <1> QED
    BY <1>5, <1>6, <1>7, <1>8 DEF Inv

LEMMA StartSyncStep ==
  ASSUME Inv, StartSync
  PROVE  Inv'
  <1>1. Loop \in Threads /\ Net \in Threads /\ \A s \in Threads : s = Loop \/ s = Net
    BY DEF Threads
  <1> QED
    BY <1>1, BeginStep DEF StartSync, Rest

LEMMA OnConnectStep ==
  ASSUME Inv, OnConnect
  PROVE  Inv'
  <1>1. Loop \in Threads /\ Net \in Threads /\ \A s \in Threads : s = Net \/ s = Loop
    BY DEF Threads
  <1>2. Idle(Net)
    BY DEF Inv, SyncsInv, OnConnect
  <1> QED
    BY <1>1, <1>2, BeginStep DEF OnConnect

\* A step of a publication: it keeps its repositories, and what it hands over is their
\* removal or one of them.
LEMMA PublicationStep ==
  ASSUME Inv, NEW t \in Threads, ~Idle(t), NEW rec \in Syncs,
         sync' = [sync EXCEPT ![t] = rec],
         out' \in [Repos -> Shown \cup {Nothing}],
         UNCHANGED <<Rest, crossed, synced, pending, unqueued>>,
         faults' \in 0 .. MaxTroubles, losses' \in 0 .. MaxTroubles,
         faults' = 0 => faults = 0,
         rec.pc \in {"server", "clean", "publish"},
         rec.pc = "server" => rec.ok,
         rec.pc = "publish" => \A r \in rec.todo : rec.seen[r] # None,
         faults' = 0 => rec.old = sync[t].old \/ rec.old = pending,
         \A r \in Repos : rec.seen[r] = None <=> sync[t].seen[r] = None,
         \A r \in Repos : \/ Latest(r)' = Latest(r)
                          \/ Latest(r)' = None
                          \/ sync[t].seen[r] # None,
         NothingLost' /\ Marked(t) => Marked(t)'
  PROVE  Inv'
  <1>0. UNCHANGED <<db, client, broker, deleting, fresh, changes>>
    BY DEF Rest
  <1>1. sync \in [Threads -> Syncs]
    BY DEF Inv, TypeOK, Syncs
  <1>2. sync' \in [Threads -> Syncs] /\ sync'[t] = rec
        /\ \A s \in Threads : s # t => sync'[s] = sync[s]
    BY <1>1
  <1>3. TypeOK'
    BY <1>0, <1>2 DEF Inv, TypeOK, Syncs
  <1>4. SyncsInv'
    BY <1>0, <1>2 DEF Inv, SyncsInv, SyncInv, Idle
  <1>5. NothingLost' => NothingLost
    BY DEF NothingLost
  <1>6. MarkInv'
    <2>1. ASSUME NothingLost'
          PROVE  Alone' /\ \A s \in Threads : Marked(s)' /\ SameQueue(s)'
      <3>1. Alone /\ \A s \in Threads : Marked(s) /\ SameQueue(s)
        BY <1>5, <2>1 DEF Inv, MarkInv
      <3>2. \A s \in Threads : s # t => Idle(s) /\ Idle(s)'
        BY <1>2, <3>1 DEF Alone, Idle
      <3>3. Alone'
        BY <3>2 DEF Alone
      <3>4. ASSUME NEW s \in Threads, s # t
            PROVE  Marked(s)' /\ SameQueue(s)'
        BY <1>2, <3>1, <3>2, <3>4 DEF Marked, SameQueue, Idle
      <3>5. Marked(t)' /\ SameQueue(t)'
        BY <1>2, <1>5, <2>1, <3>1 DEF SameQueue, NothingLost
      <3> QED
        BY <3>3, <3>4, <3>5
    <2> QED
      BY <2>1 DEF MarkInv
  <1>7. KnownInv'
    <2>1. ASSUME NEW r \in Repos, Known(r)
          PROVE  Known(r)'
      <3>1. Showing(r)' => Showing(r)
        BY <1>2 DEF Showing
      <3> QED
        BY <1>0, <2>1, <3>1 DEF Known
    <2> QED
      BY <1>5, <2>1 DEF Inv, KnownInv
  <1> QED
    BY <1>3, <1>4, <1>6, <1>7 DEF Inv

\* Both sets are read, but for a fault.
LEMMA ReadMarkersStep ==
  ASSUME Inv, NEW t \in Threads, ReadMarkers(t)
  PROVE  Inv'
  <1>1. /\ sync \in [Threads -> Syncs] /\ sync[t] \in Syncs /\ sync[t].pc = "markers"
        /\ UNCHANGED <<Rest, crossed, synced, pending, out, unqueued, losses>>
        /\ synced \subseteq Repos /\ pending \subseteq Repos
    BY DEF ReadMarkers, Inv, TypeOK, Syncs
  <1>2. PICK known \in {synced, {}}, queued \in {pending, {}} :
          /\ sync' = [sync EXCEPT ![t].pc = "server", ![t].old = queued,
                                  ![t].todo = Stale(sync[t].seen, known, queued)]
          /\ IF known = synced /\ queued = pending THEN UNCHANGED faults ELSE Fault
    BY DEF ReadMarkers
  <1> DEFINE todo == Stale(sync[t].seen, known, queued)
             rec == [sync[t] EXCEPT !.pc = "server", !.old = queued, !.todo = todo]
  <1>3. todo \in SUBSET Repos /\ queued \in SUBSET Repos
    BY <1>1 DEF Stale
  <1>4. sync' = [sync EXCEPT ![t] = rec]
    BY <1>1, <1>2
  <1>5. /\ faults' \in 0 .. MaxTroubles /\ losses' \in 0 .. MaxTroubles
        /\ faults' = 0 => faults = 0 /\ known = synced /\ queued = pending
    BY <1>1, <1>2, TroubleType DEF Inv, TypeOK
  <1>6. \A r \in Repos : sync[t].seen[r] = None /\ r \in known \cup queued => r \in todo
    BY DEF Stale, Ids
  <1> HIDE DEF todo
  <1>7. /\ rec \in Syncs /\ rec.pc = "server" /\ rec.old = queued
        /\ rec.seen = sync[t].seen /\ rec.ok = sync[t].ok /\ rec.todo = todo
    BY <1>1, <1>3 DEF Syncs
  <1> HIDE DEF rec
  <1>8. \A r \in Repos : Latest(r)' = Latest(r)
    BY <1>1 DEF Latest, Rest
  <1>9. NothingLost' => Marked(t)'
    <2>1. sync'[t] = rec /\ synced' = synced
      BY <1>1, <1>4
    <2> QED
      BY <1>5, <1>6, <1>7, <2>1 DEF Marked, Removed, NothingLost
  <1>10. sync[t].ok /\ ~Idle(t)
    BY <1>1 DEF Inv, SyncsInv, SyncInv, Idle
  <1>11. out' \in [Repos -> Shown \cup {Nothing}]
    BY <1>1 DEF Inv, TypeOK
  <1>12. faults' = 0 => rec.old = sync[t].old \/ rec.old = pending
    BY <1>5, <1>7
  <1> QED
    BY <1>1, <1>4, <1>5, <1>7, <1>8, <1>9, <1>10, <1>11, <1>12, PublicationStep DEF Rest

LEMMA PublishServerStep ==
  ASSUME Inv, NEW t \in Threads, PublishServer(t)
  PROVE  Inv'
  <1>1. PICK ok \in BOOLEAN :
          /\ sync' = [sync EXCEPT ![t].pc = "clean", ![t].ok = ok]
          /\ IF ok THEN Taken ELSE Refused
    BY DEF PublishServer
  <1>2. losses' \in 0 .. MaxTroubles
    BY <1>1, TroubleType DEF Taken, Refused, Inv, TypeOK
  <1>3. /\ sync \in [Threads -> Syncs] /\ sync[t] \in Syncs /\ sync[t].pc = "server"
        /\ UNCHANGED <<Rest, crossed, synced, pending, out, unqueued, faults>>
    BY DEF PublishServer, Inv, TypeOK, Syncs
  <1> DEFINE rec == [sync[t] EXCEPT !.pc = "clean", !.ok = ok]
  <1>4. sync' = [sync EXCEPT ![t] = rec]
    BY <1>1, <1>3
  <1>5. /\ rec \in Syncs /\ rec.pc = "clean" /\ rec.old = sync[t].old
        /\ rec.seen = sync[t].seen /\ rec.todo = sync[t].todo
    BY <1>3 DEF Syncs
  <1> HIDE DEF rec
  <1>6. \A r \in Repos : Latest(r)' = Latest(r)
    BY <1>3 DEF Latest, Rest
  <1>7. sync[t].ok /\ ~Idle(t)
    BY <1>3 DEF Inv, SyncsInv, SyncInv, Idle
  <1>8. Marked(t) => Marked(t)'
    <2>1. sync'[t] = rec /\ synced' = synced
      BY <1>3, <1>4
    <2> QED
      BY <1>3, <1>5, <1>6, <1>7, <2>1 DEF Marked, Removed
  <1>9. out' \in [Repos -> Shown \cup {Nothing}] /\ faults' = faults
        /\ faults' \in 0 .. MaxTroubles
    BY <1>3 DEF Inv, TypeOK
  <1> QED
    BY <1>2, <1>3, <1>4, <1>5, <1>6, <1>7, <1>8, <1>9, PublicationStep DEF Rest

\* What handing over the topics of one repository does.
LEMMA SendEffect ==
  ASSUME Inv, NEW t \in Threads, NEW r \in Repos, NEW shown \in Shown, Send(t, r, shown),
         UNCHANGED broker
  PROVE  \E rec \in Syncs :
           /\ sync' = [sync EXCEPT ![t] = rec]
           /\ rec.pc = sync[t].pc /\ rec.seen = sync[t].seen /\ rec.old = sync[t].old
           /\ rec.todo = sync[t].todo \ {r}
           /\ rec.ok => sync[t].ok /\ Latest(r)' = shown
           /\ r \in sync[t].todo
           /\ losses' \in 0 .. MaxTroubles
           /\ out' \in [Repos -> Shown \cup {Nothing}]
           /\ \A q \in Repos : Latest(q)' = Latest(q) \/ (q = r /\ Latest(q)' = shown)
  <1>1. /\ sync \in [Threads -> Syncs] /\ sync[t] \in Syncs
        /\ out \in [Repos -> Shown \cup {Nothing}] /\ r \in sync[t].todo
    BY DEF Inv, TypeOK, Syncs, Send
  <1>2. PICK taken \in BOOLEAN :
          /\ sync' = [sync EXCEPT ![t].todo = @ \ {r}, ![t].ok = @ /\ taken]
          /\ out' = [out EXCEPT ![r] = shown] \/ (out' = out /\ ~taken)
          /\ IF taken THEN Taken ELSE Refused
    <2>1. CASE /\ Taken /\ out' = [out EXCEPT ![r] = shown]
               /\ sync' = [sync EXCEPT ![t].todo = @ \ {r}]
      <3>1. sync' = [sync EXCEPT ![t].todo = @ \ {r}, ![t].ok = @ /\ TRUE]
        BY <1>1, <2>1 DEF Syncs
      <3> QED
        BY <2>1, <3>1
    <2>2. CASE /\ Refused
               /\ out' \in {out, IF client = "up" THEN [out EXCEPT ![r] = shown] ELSE out}
               /\ sync' = [sync EXCEPT ![t].todo = @ \ {r}, ![t].ok = FALSE]
      <3>1. sync' = [sync EXCEPT ![t].todo = @ \ {r}, ![t].ok = @ /\ FALSE]
        BY <1>1, <2>2 DEF Syncs
      <3>2. out' = [out EXCEPT ![r] = shown] \/ out' = out
        BY <2>2
      <3> QED
        BY <2>2, <3>1, <3>2
    <2> QED
      BY <2>1, <2>2 DEF Send
  <1>3. losses' \in 0 .. MaxTroubles
    BY <1>2, TroubleType DEF Taken, Refused, Inv, TypeOK
  <1> DEFINE ok == sync[t].ok /\ taken
             rec == [sync[t] EXCEPT !.todo = @ \ {r}, !.ok = ok]
  <1>4. ok \in BOOLEAN
    BY <1>1 DEF Syncs
  <1>5. sync' = [sync EXCEPT ![t] = rec]
    BY <1>1, <1>2
  <1>6. /\ out' \in [Repos -> Shown \cup {Nothing}]
        /\ \A q \in Repos : Latest(q)' = Latest(q) \/ (q = r /\ Latest(q)' = shown)
    BY <1>1, <1>2, MqttStateAssumption DEF Latest
  <1>7. taken => Latest(r)' = shown
    BY <1>1, <1>2, MqttStateAssumption DEF Latest
  <1> HIDE DEF ok
  <1>8. /\ rec \in Syncs /\ rec.pc = sync[t].pc /\ rec.seen = sync[t].seen
        /\ rec.old = sync[t].old /\ rec.todo = sync[t].todo \ {r} /\ rec.ok = ok
    BY <1>1, <1>4 DEF Syncs
  <1> HIDE DEF rec
  <1>9. rec.ok => sync[t].ok /\ Latest(r)' = shown
    BY <1>7, <1>8 DEF ok
  <1> QED
    BY <1>1, <1>3, <1>5, <1>6, <1>8, <1>9

LEMMA RemoveStaleStep ==
  ASSUME Inv, NEW t \in Threads, RemoveStale(t)
  PROVE  Inv'
  <1>1. /\ sync \in [Threads -> Syncs] /\ sync[t] \in Syncs /\ sync[t].pc = "clean" /\ ~Idle(t)
        /\ UNCHANGED <<Rest, crossed, synced, pending, unqueued, faults>>
        /\ faults \in 0 .. MaxTroubles /\ losses \in 0 .. MaxTroubles
        /\ out \in [Repos -> Shown \cup {Nothing}]
    BY DEF RemoveStale, Inv, TypeOK, Syncs, Idle
  <1>2. ASSUME NEW r \in Repos, Send(t, r, None)
        PROVE  Inv'
    <2>1. None \in Shown
      BY DEF Shown
    <2>2. PICK rec \in Syncs :
            /\ sync' = [sync EXCEPT ![t] = rec]
            /\ rec.pc = sync[t].pc /\ rec.seen = sync[t].seen /\ rec.old = sync[t].old
            /\ rec.todo = sync[t].todo \ {r}
            /\ rec.ok => sync[t].ok /\ Latest(r)' = None
            /\ r \in sync[t].todo /\ losses' \in 0 .. MaxTroubles
            /\ out' \in [Repos -> Shown \cup {Nothing}]
            /\ \A q \in Repos : Latest(q)' = Latest(q) \/ (q = r /\ Latest(q)' = None)
      BY <1>1, <1>2, <2>1, SendEffect DEF Rest
    <2>3. Marked(t) => Marked(t)'
      <3>1. sync'[t] = rec /\ synced' = synced
        BY <1>1, <2>2
      <3>2. ASSUME NEW q \in Repos, Removed(t, q)
            PROVE  Removed(t, q)'
        BY <1>1, <2>2, <3>1, <3>2 DEF Removed
      <3> QED
        BY <1>1, <2>2, <3>1, <3>2 DEF Marked
    <2>4. rec.pc = "clean" /\ \A q \in Repos : rec.seen[q] = None <=> sync[t].seen[q] = None
      BY <1>1, <2>2
    <2>5. \A q \in Repos : Latest(q)' = Latest(q) \/ Latest(q)' = None
      BY <2>2
    <2>6. /\ UNCHANGED <<Rest, crossed, synced, pending, unqueued, faults>>
          /\ faults' \in 0 .. MaxTroubles /\ losses' \in 0 .. MaxTroubles
          /\ faults' = faults /\ sync' = [sync EXCEPT ![t] = rec] /\ out' \in [Repos -> Shown \cup {Nothing}]
          /\ rec.old = sync[t].old /\ ~Idle(t)
      BY <1>1, <2>2 DEF Rest
    <2> QED
      BY <2>3, <2>4, <2>5, <2>6, PublicationStep
  <1>3. CASE /\ sync[t].todo = {} /\ UNCHANGED <<out, losses>>
             /\ sync' = [sync EXCEPT ![t].pc = "publish", ![t].todo = Ids(sync[t].seen),
                                     ![t].seen = ReadJobs(sync[t].seen)]
    <2> DEFINE rec == [sync[t] EXCEPT !.pc = "publish", !.todo = Ids(sync[t].seen),
                                      !.seen = ReadJobs(sync[t].seen)]
    <2>1. sync' = [sync EXCEPT ![t] = rec]
      BY <1>1, <1>3
    <2>2. sync[t].seen \in [Repos -> Shown] /\ db \in [Repos -> Shown]
      BY <1>1 DEF Inv, TypeOK, Syncs
    <2>3. /\ ReadJobs(sync[t].seen) \in [Repos -> Shown]
          /\ \A r \in Repos : ReadJobs(sync[t].seen)[r] = None <=> sync[t].seen[r] = None
      BY <2>2 DEF ReadJobs
    <2>4. Ids(sync[t].seen) \in SUBSET Repos
      BY DEF Ids
    <2>5. /\ rec \in Syncs /\ rec.pc = "publish" /\ rec.old = sync[t].old /\ rec.ok = sync[t].ok
          /\ rec.todo = Ids(sync[t].seen) /\ rec.seen = ReadJobs(sync[t].seen)
      BY <1>1, <2>3, <2>4 DEF Syncs
    <2> HIDE DEF rec
    <2>6. \A r \in Repos : Latest(r)' = Latest(r)
      BY <1>1, <1>3 DEF Latest, Rest
    <2>7. Marked(t) => Marked(t)'
      <3>1. sync'[t] = rec /\ synced' = synced
        BY <1>1, <2>1
      <3> QED
        BY <1>1, <1>3, <2>3, <2>5, <2>6, <3>1 DEF Marked, Removed
    <2>8. \A r \in rec.todo : rec.seen[r] # None
      BY <2>3, <2>5 DEF Ids
    <2>9. out' \in [Repos -> Shown \cup {Nothing}]
      BY <1>1, <1>3
    <2>10. \A r \in Repos : rec.seen[r] = None <=> sync[t].seen[r] = None
      BY <2>3, <2>5
    <2>11. /\ faults' \in 0 .. MaxTroubles /\ losses' \in 0 .. MaxTroubles
           /\ faults' = faults
      BY <1>1, <1>3
    <2> QED
      BY <1>1, <2>1, <2>5, <2>6, <2>7, <2>8, <2>9, <2>10, <2>11, PublicationStep DEF Rest
  <1> QED
    BY <1>2, <1>3 DEF RemoveStale

LEMMA PublishRepositoryStep ==
  ASSUME Inv, NEW t \in Threads, PublishRepository(t)
  PROVE  Inv'
  <1>1. /\ sync \in [Threads -> Syncs] /\ sync[t] \in Syncs /\ sync[t].pc = "publish" /\ ~Idle(t)
        /\ UNCHANGED <<Rest, crossed, synced, pending, unqueued, faults>>
        /\ faults \in 0 .. MaxTroubles
        /\ \A q \in sync[t].todo : sync[t].seen[q] # None
    BY DEF PublishRepository, Inv, TypeOK, SyncsInv, SyncInv, Syncs, Idle
  <1>2. PICK r \in Repos : Send(t, r, sync[t].seen[r])
    BY DEF PublishRepository
  <1> DEFINE shown == sync[t].seen[r]
  <1>3. shown \in Shown
    BY <1>1 DEF Syncs
  <1> HIDE DEF shown
  <1>4. PICK rec \in Syncs :
          /\ sync' = [sync EXCEPT ![t] = rec]
          /\ rec.pc = sync[t].pc /\ rec.seen = sync[t].seen /\ rec.old = sync[t].old
          /\ rec.todo = sync[t].todo \ {r}
          /\ rec.ok => sync[t].ok /\ Latest(r)' = shown
          /\ r \in sync[t].todo /\ losses' \in 0 .. MaxTroubles
          /\ out' \in [Repos -> Shown \cup {Nothing}]
          /\ \A q \in Repos : Latest(q)' = Latest(q) \/ (q = r /\ Latest(q)' = shown)
    <2>1. Send(t, r, shown) /\ UNCHANGED broker
      BY <1>1, <1>2 DEF shown, Rest
    <2> QED
      BY <1>3, <2>1, SendEffect
  <1>5. sync[t].seen[r] # None
    BY <1>1, <1>4
  <1>6. Marked(t) => Marked(t)'
    <2>1. sync'[t] = rec /\ synced' = synced
      BY <1>1, <1>4
    <2>2. ASSUME NEW q \in Repos, sync[t].seen[q] = None, Removed(t, q)
          PROVE  Removed(t, q)'
      BY <1>1, <1>4, <1>5, <2>1, <2>2 DEF Removed
    <2> QED
      BY <1>1, <1>4, <2>1, <2>2 DEF Marked
  <1>7. \A q \in rec.todo : rec.seen[q] # None
    BY <1>1, <1>4
  <1> QED
    BY <1>1, <1>4, <1>5, <1>6, <1>7, PublicationStep DEF Rest

\* A publication ends: nothing else was in progress, so whatever the broker still shows it
\* has read, or it was marked after it read the markers; one that is broken off saves
\* nothing.
LEMMA EndSyncStep ==
  ASSUME Inv, NEW t \in Threads, EndSync(t) \/ BreakOff(t)
  PROVE  Inv'
  <1>1. /\ sync \in [Threads -> Syncs] /\ sync[t] \in Syncs
        /\ ~Idle(t) /\ losses' \in 0 .. MaxTroubles
        /\ UNCHANGED <<db, client, broker, deleting, fresh, changes, crossed, out>>
        /\ sync' = [sync EXCEPT ![t] = NoSync]
    BY TroubleType DEF EndSync, BreakOff, Inv, TypeOK, Syncs, Idle, Rest
  <1>2. sync' \in [Threads -> Syncs] /\ sync'[t] = NoSync
        /\ \A s \in Threads : s # t => sync'[s] = sync[s]
    BY <1>1, NoSyncType
  <1>3. /\ synced' \subseteq Repos /\ pending' \subseteq Repos /\ unqueued' \subseteq Repos
        /\ faults' \in 0 .. MaxTroubles
        /\ faults' = 0 =>
             /\ faults = 0
             /\ \/ /\ sync[t].ok /\ synced' = Ids(sync[t].seen)
                   /\ pending' = IF sync[t].old # {} THEN {} ELSE pending
                   /\ sync[t].pc = "publish" /\ sync[t].todo = {}
                \/ UNCHANGED <<synced, pending>>
        /\ \A r \in unqueued : r \in unqueued' \cup synced'
    <2>1. CASE EndSync(t)
      <3>1. \/ /\ sync[t].ok /\ synced' = Ids(sync[t].seen)
               /\ pending' = IF sync[t].old # {} THEN {} ELSE pending
               /\ UNCHANGED faults
            \/ Fault /\ UNCHANGED <<synced, pending>>
            \/ UNCHANGED <<synced, pending, faults>>
        BY <2>1 DEF EndSync, Saved
      <3>2. /\ synced' \subseteq Repos /\ pending' \subseteq Repos
            /\ faults' \in 0 .. MaxTroubles /\ (faults' = 0 => UNCHANGED faults)
        BY <3>1, TroubleType DEF Ids, Inv, TypeOK
      <3>3. unqueued' = unqueued \ synced' /\ sync[t].pc = "publish" /\ sync[t].todo = {}
        BY <2>1 DEF EndSync
      <3>4. unqueued' \subseteq Repos
        BY <3>3 DEF Inv, TypeOK
      <3> QED
        BY <3>1, <3>2, <3>3, <3>4, TroubleType DEF Inv
    <2>2. CASE BreakOff(t)
      BY <2>2 DEF BreakOff, Inv, TypeOK
    <2> QED
      BY <2>1, <2>2
  <1>4. TypeOK'
    BY <1>1, <1>2, <1>3 DEF Inv, TypeOK, Syncs
  <1>5. SyncsInv'
    BY <1>1, <1>2 DEF Inv, SyncsInv, SyncInv, Idle, NoSync
  <1>6. NothingLost' => NothingLost
    BY <1>1, <1>3 DEF NothingLost
  <1>7. NothingLost => Marked(t) /\ SameQueue(t) /\ \A s \in Threads : s # t => Idle(s)
    BY <1>1 DEF Inv, MarkInv, Alone, Idle
  <1>8. MarkInv'
    <2>1. NoSync.pc = "idle" /\ NoSync.old = {}
      BY DEF NoSync
    <2>2. NothingLost' => \A s \in Threads : sync'[s].pc = "idle"
      BY <1>2, <1>6, <1>7, <2>1 DEF Idle
    <2>3. NothingLost' => \A s \in Threads : sync'[s].old = {}
      BY <1>2, <1>6, <1>7, <2>1 DEF Inv, SyncsInv, SyncInv, Idle
    <2> QED
      BY <2>2, <2>3 DEF MarkInv, Alone, Marked, SameQueue, Idle
  <1>9. ASSUME NothingLost', NEW r \in Repos, Known(r)
        PROVE  Known(r)'
    <2>1. \A s \in Threads : sync'[s].seen[r] = None
      BY <1>2, <1>6, <1>7, <1>9 DEF Inv, SyncsInv, SyncInv, Idle, NoSync
    <2>2. Showing(r)' <=> Latest(r) # None
      BY <1>1, <2>1 DEF Showing, Latest
    <2>3. CASE UNCHANGED <<synced, pending>>
      BY <1>1, <1>3, <1>9, <2>2, <2>3 DEF Known, Showing
    <2>4. CASE /\ sync[t].ok /\ synced' = Ids(sync[t].seen)
               /\ pending' = IF sync[t].old # {} THEN {} ELSE pending
               /\ sync[t].pc = "publish" /\ sync[t].todo = {}
      <3>1. sync[t].seen[r] = None /\ r \in synced \cup sync[t].old => Latest(r) = None
        BY <1>1, <1>6, <1>7, <1>9, <2>4 DEF Marked, Removed
      <3>2. sync[t].seen[r] # None => r \in synced'
        BY <2>4 DEF Ids
      <3>3. r \in pending => r \in pending' \/ r \in sync[t].old
        BY <1>6, <1>7, <1>9, <2>4 DEF SameQueue
      <3> QED
        BY <1>1, <1>3, <1>9, <2>2, <3>1, <3>2, <3>3 DEF Known, Showing
    <2> QED
      BY <1>3, <1>9, <2>3, <2>4 DEF NothingLost
  <1> QED
    BY <1>4, <1>5, <1>6, <1>8, <1>9 DEF Inv, KnownInv

\* A delivery changes where something is shown, not what will be.
LEMMA DeliverStep ==
  ASSUME Inv, Deliver
  PROVE  Inv'
  <1>1. PICK q \in Repos : /\ out[q] # Nothing
                           /\ broker' = [broker EXCEPT ![q] = out[q]]
                           /\ out' = [out EXCEPT ![q] = Nothing]
    BY DEF Deliver
  <1>2. UNCHANGED <<db, synced, pending, client, sync, deleting, fresh, unqueued, crossed,
                    changes, losses, faults>>
    BY DEF Deliver
  <1>3. TypeOK'
    BY <1>1, <1>2 DEF Inv, TypeOK
  <1>4. ASSUME NEW r \in Repos
        PROVE  Latest(r)' = Latest(r)
    BY <1>1 DEF Inv, TypeOK, Latest
  <1>5. SyncsInv'
    BY <1>2 DEF Inv, SyncsInv, SyncInv, Idle
  <1>6. MarkInv'
    <2>1. ASSUME NEW t \in Threads, Marked(t)
          PROVE  Marked(t)'
      BY <1>2, <1>4, <2>1 DEF Marked, Removed
    <2> QED
      BY <1>2, <2>1 DEF Inv, MarkInv, NothingLost, Alone, SameQueue, Idle
  <1>7. KnownInv'
    BY <1>2, <1>4 DEF Inv, KnownInv, NothingLost, Known, Showing
  <1> QED
    BY <1>3, <1>5, <1>6, <1>7 DEF Inv

\* Losing the connection changes only the client.
LEMMA OnDisconnectStep ==
  ASSUME Inv, OnDisconnect
  PROVE  Inv'
  <1>1. /\ Idle(Net) /\ client' = "waiting" /\ losses' \in 0 .. MaxTroubles
        /\ UNCHANGED <<db, synced, pending, out, broker, sync, deleting, fresh, unqueued,
                       crossed, changes, faults>>
    BY TroubleType DEF OnDisconnect, Inv, TypeOK
  <1>2. TypeOK'
    BY <1>1 DEF Inv, TypeOK
  <1>3. SyncsInv' /\ MarkInv' /\ KnownInv'
    BY <1>1 DEF Inv, SyncsInv, SyncInv, MarkInv, KnownInv, NothingLost, Alone, Marked, Removed,
                SameQueue, Known, Showing, Latest, Idle
  <1> QED
    BY <1>2, <1>3 DEF Inv

\* What is lost with a client or with the process counts as a fault.
LEMMA FaultStep ==
  ASSUME Inv, Configure \/ Restart
  PROVE  Inv'
  <1>1. /\ faults' # 0 /\ faults' \in 0 .. MaxTroubles
        /\ client' \in {"none", "dead", "waiting"}
        /\ out' = [r \in Repos |-> Nothing]
        /\ UNCHANGED <<db, synced, pending, broker, unqueued, crossed, changes, losses>>
    BY TroubleType DEF Configure, Restart, NewClient, Inv
  <1>2. deleting' \in Repos \cup {None} /\ fresh' \in Repos \cup {None}
    BY DEF Configure, Restart, Inv, TypeOK
  <1>3. \/ UNCHANGED sync /\ Idle(Net)
        \/ sync' = [t \in Threads |-> NoSync]
    BY DEF Configure, Restart
  <1>4. sync' \in [Threads -> Syncs]
    BY <1>3, NoSyncType DEF Inv, TypeOK, Syncs
  <1>5. TypeOK'
    BY <1>1, <1>2, <1>4 DEF Inv, TypeOK, Syncs
  <1>6. SyncsInv'
    <2>1. NoSync.pc = "idle" /\ Net \in Threads
      BY DEF NoSync, Threads
    <2>2. CASE UNCHANGED sync /\ Idle(Net)
      BY <2>2 DEF Inv, SyncsInv, SyncInv, Idle
    <2>3. CASE sync' = [t \in Threads |-> NoSync]
      BY <2>1, <2>3 DEF SyncsInv, SyncInv, Idle
    <2> QED
      BY <1>3, <2>2, <2>3
  <1>7. ~NothingLost'
    BY <1>1 DEF NothingLost, Inv, TypeOK
  <1> QED
    BY <1>5, <1>6, <1>7 DEF Inv, MarkInv, KnownInv

LEMMA StepInv == Inv /\ [Next]_vars => Inv'
  <1> SUFFICES ASSUME Inv, [Next]_vars
               PROVE  Inv'
    OBVIOUS
  <1>1. CASE Change \/ Delete \/ RollBack
    BY <1>1, ChangeStep
  <1>2. CASE QueueDeleted
    BY <1>2, QueueDeletedStep
  <1>3. CASE StartSync
    BY <1>3, StartSyncStep
  <1>4. ASSUME NEW t \in Threads, Publication(t) \/ BreakOff(t)
        PROVE  Inv'
    BY <1>4, ReadMarkersStep, PublishServerStep, RemoveStaleStep, PublishRepositoryStep,
       EndSyncStep DEF Publication
  <1>5. CASE Deliver
    BY <1>5, DeliverStep
  <1>6. CASE OnConnect
    BY <1>6, OnConnectStep
  <1>7. CASE OnDisconnect
    BY <1>7, OnDisconnectStep
  <1>8. CASE Configure \/ Restart
    BY <1>8, FaultStep
  <1>9. CASE UNCHANGED vars
    BY <1>9 DEF vars, Inv, TypeOK, SyncsInv, SyncInv, MarkInv, KnownInv, NothingLost, Alone,
                Marked, Removed, SameQueue, Known, Showing, Latest, Idle
  <1> QED
    BY <1>1, <1>2, <1>3, <1>4, <1>5, <1>6, <1>7, <1>8, <1>9 DEF Next

-----------------------------------------------------------------------------
\* The invariant that the two theorems below rest on: what a publication has read, how far
\* it has come with removing what is gone, and that everything shown is there or marked.
THEOREM IndInv == Spec => []Inv
  BY InitInv, StepInv, PTL DEF Spec

\* Publications, the client and the two sets of ids in the database are what they can be.
THEOREM TypeCorrect == Spec => []TypeOK
  <1>1. Inv => TypeOK
    BY DEF Inv
  <1> QED
    BY <1>1, IndInv, PTL

\* While no commit fails, both sets can be read, no client is lost and nobody else changes
\* the sets during a publication, what the broker shows of a repository that is gone is
\* known to be there, or its removal is being delivered, however many publications are
\* refused or broken off; what a guided setup takes away is so if a set has it.
THEOREM GoneStaysKnown == Spec => []GoneIsKnown
  <1>1. Inv => GoneIsKnown
    <2> SUFFICES ASSUME Inv, NEW r \in Repos, Expected(r), db[r] = None, broker[r] # None
                 PROVE  r \in synced \cup pending \/ out[r] = None \/ deleting = r
      BY DEF GoneIsKnown
    <2>1. Known(r)
      BY DEF Inv, KnownInv, Expected
    <2>2. out[r] # None => Latest(r) # None
      BY DEF Latest
    <2> QED
      BY <2>1, <2>2 DEF Known, Showing, Expected
  <1> QED
    BY <1>1, IndInv, PTL
=============================================================================
