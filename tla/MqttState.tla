----------------------------- MODULE MqttState -----------------------------
(***************************************************************************)
(* The state of the repositories at an MQTT broker                         *)
(* (services/mqtt_service.py).  It is always published whole and from the  *)
(* database: by the event loop after changes and every few minutes, and by *)
(* the thread of the MQTT client each time it connects.  Two sets of ids   *)
(* in the database say which repositories the broker may know that are     *)
(* gone: those of the last publication, and those that were deleted.       *)
(***************************************************************************)
EXTENDS Naturals

CONSTANTS Repos,        \* repository ids, which are used again
          Data,         \* what can be shown of a repository
          None,         \* no repository; at the broker: no retained topic
          MaxChanges,
          MaxTroubles   \* the losses and the faults together

Shown == Data \cup {None}
Nothing == "nothing"    \* the client has nothing to deliver

ASSUME MqttStateAssumption ==
    /\ None \notin Repos /\ None \notin Data /\ Nothing \notin Shown
    /\ {MaxChanges, MaxTroubles} \subseteq Nat

Loop == "loop"      \* the event loop
Net == "net"        \* the thread of the client
Threads == {Loop, Net}

VARIABLES db,       \* repository -> what its rows say
          synced,   \* home_assistant_repo_ids_v1
          pending,  \* home_assistant_deleted_repo_ids_v1
          client,   \* the client, and whether it is connected
          out,      \* repository -> what the client still has to deliver
          broker,   \* repository -> what is retained
          sync,     \* thread -> its publication in progress
          deleting, \* the repository whose deletion is to be queued
          fresh,    \* the repository that a guided setup has just created
          unqueued, \* those taken away by a guided setup that no set has
          crossed,  \* two have changed the sets at the same time
          changes, losses, faults
vars == <<db, synced, pending, client, out, broker, sync, deleting, fresh, unqueued,
          crossed, changes, losses, faults>>

NoSync == [pc |-> "idle", seen |-> [r \in Repos |-> None], old |-> {},
           todo |-> {}, ok |-> TRUE]

TypeOK ==
    /\ db \in [Repos -> Shown] /\ broker \in [Repos -> Shown]
    /\ synced \subseteq Repos /\ pending \subseteq Repos
    /\ client \in {"none", "dead", "waiting", "up"}
    /\ out \in [Repos -> Shown \cup {Nothing}]
    /\ sync \in [Threads -> [pc: {"idle", "markers", "server", "clean", "publish"},
                             seen: [Repos -> Shown],    \* the repositories it read
                             old: SUBSET Repos,         \* the deletions it read
                             todo: SUBSET Repos, ok: BOOLEAN]]
    /\ deleting \in Repos \cup {None} /\ fresh \in Repos \cup {None}
    /\ unqueued \subseteq Repos /\ crossed \in BOOLEAN
    /\ changes \in 0..MaxChanges
    /\ losses \in 0..MaxTroubles /\ faults \in 0..MaxTroubles

\* A client that cannot connect at first is not tried again.
NewClient(on) == IF on THEN {"waiting", "dead"} ELSE {"none"}

Init ==
    /\ db = [r \in Repos |-> None] /\ broker = [r \in Repos |-> None]
    /\ synced = {} /\ pending = {}
    /\ client \in NewClient(TRUE) /\ out = [r \in Repos |-> Nothing]
    /\ sync = [t \in Threads |-> NoSync] /\ deleting = None /\ fresh = None
    /\ unqueued = {} /\ crossed = FALSE
    /\ changes = 0 /\ losses = 0 /\ faults = 0

Idle(t) == sync[t].pc = "idle"
Ids(view) == {r \in Repos : view[r] # None}
Trouble == losses + faults < MaxTroubles
Fault == Trouble /\ faults' = faults + 1
Loss == Trouble /\ losses' = losses + 1

-----------------------------------------------------------------------------
(***************************************************************************)
(* Changes, made by requests and jobs in the event loop.                   *)
(***************************************************************************)
World == <<synced, pending, client, out, broker, sync, crossed, losses, faults>>

\* A repository is created, by a guided setup or not, or imported, or its
\* statistics or jobs change.
Change ==
    /\ Idle(Loop) /\ deleting = None
    /\ changes < MaxChanges /\ changes' = changes + 1
    /\ \E r \in Repos, d \in Data :
          /\ d # db[r] /\ db' = [db EXCEPT ![r] = d]
          /\ fresh' \in IF db[r] = None THEN {None, r} ELSE {None}
          /\ unqueued' = unqueued \ {r}
    /\ UNCHANGED <<World, deleting>>

\* Everything of it goes, and then its deletion is queued.
Delete ==
    /\ Idle(Loop) /\ deleting = None
    /\ changes < MaxChanges /\ changes' = changes + 1
    /\ \E r \in Ids(db) : db' = [db EXCEPT ![r] = None] /\ deleting' = r
    /\ fresh' = None
    /\ UNCHANGED <<World, unqueued>>

\* A guided setup that cannot make the schedule takes its repository away, at
\* once, and queues nothing.
RollBack ==
    /\ Idle(Loop) /\ fresh # None
    /\ db' = [db EXCEPT ![fresh] = None] /\ fresh' = None
    /\ unqueued' = unqueued \cup ({fresh} \ (synced \cup pending))
    /\ UNCHANGED <<World, deleting, changes>>

\* The deletion is not among those that t has read and will clear.
Unseen(t) == sync[t].old # {} /\ deleting \notin sync[t].old

\* The deletion is queued with a commit of its own, which may fail; what cannot be
\* read is taken for empty and written over.
QueueDeleted ==
    /\ deleting # None /\ deleting' = None
    /\ \/ pending' = pending \cup {deleting} /\ UNCHANGED faults
       \/ Fault /\ pending' \in {pending, {deleting}}
    /\ unqueued' = unqueued \ pending'
    /\ crossed' = (crossed \/ \E t \in Threads : Unseen(t))
    /\ UNCHANGED <<db, synced, client, out, broker, sync, fresh, changes, losses>>

-----------------------------------------------------------------------------
(***************************************************************************)
(* A publication.  The repositories, the two sets and the jobs are read    *)
(* one after the other, outside of any transaction.                        *)
(***************************************************************************)
Rest == <<db, client, broker, deleting, fresh, changes>>

Began(view) == [NoSync EXCEPT !.pc = "markers", !.seen = view]

\* Every few minutes, at startup, and after most changes.
StartSync ==
    /\ Idle(Loop) /\ deleting = None /\ client = "up"
    /\ sync' = [sync EXCEPT ![Loop] = Began(db)]
    /\ crossed' = (crossed \/ ~Idle(Net))
    /\ UNCHANGED <<Rest, synced, pending, out, unqueued, losses, faults>>

\* Mutant: only what was queued is removed.
StalePendingOnly(view, known, queued) == queued

Stale(view, known, queued) == (known \ Ids(view)) \cup queued

\* A set that cannot be read is taken for empty.
ReadMarkers(t) ==
    /\ sync[t].pc = "markers"
    /\ \E known \in {synced, {}}, queued \in {pending, {}} :
          /\ sync' = [sync EXCEPT ![t].pc = "server", ![t].old = queued,
                                  ![t].todo = Stale(sync[t].seen, known, queued)]
          /\ IF known = synced /\ queued = pending THEN UNCHANGED faults ELSE Fault
    /\ UNCHANGED <<Rest, crossed, synced, pending, out, unqueued, losses>>

\* What is handed to the client is taken if it is connected and nothing raises.
Taken == client = "up" /\ UNCHANGED losses
Refused == IF client = "up" THEN Loss ELSE UNCHANGED losses

\* What concerns the server as a whole is published first.
PublishServer(t) ==
    /\ sync[t].pc = "server"
    /\ \E ok \in BOOLEAN :
          /\ sync' = [sync EXCEPT ![t].pc = "clean", ![t].ok = ok]
          /\ IF ok THEN Taken ELSE Refused
    /\ UNCHANGED <<Rest, crossed, synced, pending, out, unqueued, faults>>

\* One repository's topics are handed over; if one is refused the others may be taken.
Send(t, r, shown) ==
    /\ r \in sync[t].todo
    /\ \/ /\ Taken /\ out' = [out EXCEPT ![r] = shown]
          /\ sync' = [sync EXCEPT ![t].todo = @ \ {r}]
       \/ /\ Refused
          /\ out' \in {out, IF client = "up" THEN [out EXCEPT ![r] = shown] ELSE out}
          /\ sync' = [sync EXCEPT ![t].todo = @ \ {r}, ![t].ok = FALSE]

\* The jobs of the repositories are read only when the others were removed.
ReadJobs(view) ==
    [r \in Repos |-> IF None \in {view[r], db[r]} THEN view[r] ELSE db[r]]

RemoveStale(t) ==
    /\ sync[t].pc = "clean"
    /\ \/ \E r \in Repos : Send(t, r, None)
       \/ /\ sync[t].todo = {}
          /\ sync' = [sync EXCEPT ![t].pc = "publish", ![t].todo = Ids(sync[t].seen),
                                  ![t].seen = ReadJobs(sync[t].seen)]
          /\ UNCHANGED <<out, losses>>
    /\ UNCHANGED <<Rest, crossed, synced, pending, unqueued, faults>>

PublishRepository(t) ==
    /\ sync[t].pc = "publish"
    /\ \E r \in Repos : Send(t, r, sync[t].seen[r])
    /\ UNCHANGED <<Rest, crossed, synced, pending, unqueued, faults>>

\* Mutant: the markers are saved though something was not handed over.
SavedAnyway(t) == TRUE

Saved(t) == sync[t].ok

\* The markers are written over what they are by now, if everything was handed
\* over and the commit goes through.  The deletions are left alone if none of
\* them was seen.
EndSync(t) ==
    /\ sync[t].pc = "publish" /\ sync[t].todo = {}
    /\ \/ /\ Saved(t)
          /\ synced' = Ids(sync[t].seen)
          /\ pending' = IF sync[t].old # {} THEN {} ELSE pending
          /\ UNCHANGED faults
       \/ Saved(t) /\ Fault /\ UNCHANGED <<synced, pending>>
       \/ ~Saved(t) /\ UNCHANGED <<synced, pending, faults>>
    /\ unqueued' = unqueued \ synced'
    /\ sync' = [sync EXCEPT ![t] = NoSync]
    /\ UNCHANGED <<Rest, crossed, out, losses>>

\* A query raises: what was not handed over by then is not, nor is anything saved.
BreakOff(t) ==
    /\ ~Idle(t) /\ Loss
    /\ sync' = [sync EXCEPT ![t] = NoSync]
    /\ UNCHANGED <<Rest, crossed, synced, pending, out, unqueued, faults>>

-----------------------------------------------------------------------------
(***************************************************************************)
(* The client: its thread delivers what it was handed in its order, and    *)
(* publishes everything when it has connected; meanwhile it does nothing   *)
(* else.                                                                   *)
(***************************************************************************)
Deliver ==
    /\ client = "up" /\ Idle(Net)
    /\ \E r \in Repos :
          /\ out[r] # Nothing
          /\ broker' = [broker EXCEPT ![r] = out[r]]
          /\ out' = [out EXCEPT ![r] = Nothing]
    /\ UNCHANGED <<db, synced, pending, client, sync, deleting, fresh, unqueued,
                   crossed, changes, losses, faults>>

OnConnect ==
    /\ client = "waiting" /\ client' = "up"
    /\ sync' = [sync EXCEPT ![Net] = Began(db)]
    /\ crossed' = (crossed \/ ~Idle(Loop))
    /\ UNCHANGED <<db, synced, pending, out, broker, deleting, fresh, unqueued, changes,
                   losses, faults>>

\* What was not delivered is delivered after it has connected again.
OnDisconnect ==
    /\ client = "up" /\ Idle(Net) /\ Loss
    /\ client' = "waiting"
    /\ UNCHANGED <<db, synced, pending, out, broker, sync, deleting, fresh, unqueued,
                   crossed, changes, faults>>

\* New settings: the client is replaced, and with it goes what it had to
\* deliver.
Configure ==
    /\ Idle(Loop) /\ Idle(Net) /\ deleting = None /\ Fault
    /\ \E on \in BOOLEAN : client' \in NewClient(on)
    /\ out' = [r \in Repos |-> Nothing] /\ fresh' = None
    /\ UNCHANGED <<db, synced, pending, broker, sync, deleting, unqueued, crossed, changes,
                   losses>>

Restart ==
    /\ Fault
    /\ client' \in NewClient(client # "none")
    /\ out' = [r \in Repos |-> Nothing]
    /\ sync' = [t \in Threads |-> NoSync] /\ deleting' = None /\ fresh' = None
    /\ UNCHANGED <<db, synced, pending, broker, unqueued, crossed, changes, losses>>

Publication(t) ==
    ReadMarkers(t) \/ PublishServer(t) \/ RemoveStale(t) \/ PublishRepository(t)
    \/ EndSync(t)

Next ==
    \/ Change \/ Delete \/ RollBack \/ QueueDeleted \/ StartSync
    \/ \E t \in Threads : Publication(t) \/ BreakOff(t)
    \/ Deliver \/ OnConnect \/ OnDisconnect \/ Configure \/ Restart

Spec == Init /\ [][Next]_vars

\* The event loop publishes again and again, publications end, and the client's
\* thread connects again and delivers.
Fairness ==
    /\ WF_vars(StartSync) /\ WF_vars(QueueDeleted)
    /\ \A t \in Threads : WF_vars(Publication(t))
    /\ WF_vars(OnConnect)
    /\ \A r \in Repos : WF_vars(Deliver /\ out[r] # Nothing /\ out'[r] = Nothing)

LiveSpec == Spec /\ Fairness

-----------------------------------------------------------------------------
(***************************************************************************)
(* Safety.                                                                 *)
(***************************************************************************)
\* What the broker shows of a repository that is gone is known to be there, so
\* that a later publication removes it, or it is being removed: whatever changes
\* while the repositories and the two sets are read one after the other, and
\* whichever publications are refused or broken off.  It takes no failed commit or
\* unreadable set, no lost client, and nobody else who changes the sets meanwhile:
\* two publications at the same time overwrite them for each other, and one that
\* clears deletions clears with them the one that was queued after it read them.
\* What a guided setup takes away is known only by the publication that followed its
\* creation: if that one saved nothing, neither set has it.
NothingLost == faults = 0 /\ ~crossed
Expected(r) == NothingLost /\ r \notin unqueued

GoneIsKnown ==
    \A r \in Repos :
       Expected(r) /\ db[r] = None /\ broker[r] # None =>
          r \in synced \cup pending \/ out[r] = None \/ deleting = r

(***************************************************************************)
(* Liveness.                                                               *)
(***************************************************************************)
\* While the client stays connected the broker comes to show every repository
\* as it is, and none that is gone unless its removal was lost.
BrokerAgrees ==
    <>[](client = "up") =>
       <>[](\A r \in Repos : db[r] # None \/ Expected(r) => broker[r] = db[r])
===========================================================================
