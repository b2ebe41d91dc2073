------------------------ MODULE BackupSchedulerProofs ------------------------
(***************************************************************************)
(* For every set of schedules, limit and number of faults: the keys match  *)
(* the runs, and no counted run is started beyond the limit, whatever the  *)
(* schedules with many repositories and those without a next occurrence    *)
(* do beside it.                                                           *)
(***************************************************************************)
EXTENDS BackupScheduler, MultiRepoRun, FiniteSetTheorems, TLAPS

\* The part of the types the proofs need.
Types ==
  /\ limit \in Nat
  /\ turn.slots \in Nat
  /\ runs \subseteq Run
  /\ IsFiniteSet(keys)

Tracked == Types /\ KeysMatchRuns

LEMMA KeyOfSingle == \A r : r[1] \notin Multi => Key(r) = r
  BY DEF Key

LEMMA InitTracked == Init => Tracked
  BY FS_EmptySet, BoundsAssumption
  DEF Init, Tracked, Types, KeysMatchRuns, NoTurn, Run

-----------------------------------------------------------------------------
(* What the helpers of a dispatch do. *)

LEMMA AdvanceTurn ==
  ASSUME Types, NEW used \in {0, 1}, turn.slots >= 1, Advance(used)
  PROVE  /\ turn'.slots \in Nat
         /\ turn'.jobs # <<>> => /\ turn'.slots = turn.slots - used
                                 /\ turn'.slots >= 1
  <1>1. CASE turn' = NoTurn
    BY <1>1 DEF NoTurn
  <1>2. CASE turn' = [jobs |-> Tail(turn.jobs), slots |-> turn.slots - used]
             /\ turn.slots # used
    BY <1>2 DEF Types
  <1> QED
    BY <1>1, <1>2 DEF Advance

LEMMA StartRunTracks ==
  ASSUME Tracked, NEW s \in Schedules, StartRun(s)
  PROVE  /\ runs' \subseteq Run
         /\ KeysMatchRuns'
         /\ IsFiniteSet(keys')
         /\ Cardinality(keys') <= Cardinality(keys) + 1
  <1>1. PICK n \in 1 .. MaxRuns : /\ runs' = runs \cup {<<s, n>>}
                                  /\ keys' = keys \cup {Key(<<s, n>>)}
    BY DEF StartRun
  <1>2. runs' \subseteq Run
    BY <1>1 DEF Tracked, Types, Run
  <1>3. KeysMatchRuns'
    BY <1>1 DEF Tracked, KeysMatchRuns
  <1>4. IsFiniteSet(keys) /\ Cardinality(keys) \in Nat
    BY FS_CardinalityType DEF Tracked, Types
  <1>5. /\ IsFiniteSet(keys')
        /\ Cardinality(keys') = IF Key(<<s, n>>) \in keys THEN Cardinality(keys)
                                ELSE Cardinality(keys) + 1
    BY <1>1, <1>4, FS_AddElement
  <1> QED
    BY <1>2, <1>3, <1>4, <1>5

\* The callback of one run takes away no other run's key.
LEMMA RunEndsTracks ==
  ASSUME Tracked, NEW r \in Run, RunEnds(r)
  PROVE  Tracked'
  <1>1. /\ r \in runs
        /\ runs' = runs \ {r}
        /\ keys' = keys \ {Key(r)}
        /\ limit' = limit /\ turn' = turn
    BY DEF RunEnds
  <1>2. Types'
    BY <1>1, FS_RemoveElement DEF Tracked, Types
  <1>3. keys' \subseteq {Key(q) : q \in runs'}
    BY <1>1 DEF Tracked, KeysMatchRuns
  <1>4. ASSUME NEW q \in runs', q[1] \notin Multi
        PROVE  Key(q) \in keys'
    <2>1. q \in runs /\ q # r /\ Key(q) = q /\ Key(q) \in keys
      BY <1>1, <1>4, KeyOfSingle DEF Tracked, KeysMatchRuns
    <2>2. Key(r) # q
      <3>1. CASE r[1] \in Multi
        <4>1. Key(r)[1] \in Multi
          BY <3>1 DEF Key
        <4> QED
          BY <4>1, <1>4
      <3>2. CASE r[1] \notin Multi
        BY <3>2, <2>1, KeyOfSingle
      <3> QED
        BY <3>1, <3>2
    <2> QED
      BY <1>1, <2>1, <2>2
  <1> QED
    BY <1>2, <1>3, <1>4 DEF Tracked, KeysMatchRuns

-----------------------------------------------------------------------------
LEMMA StepTracked ==
  ASSUME Tracked, turn.jobs # <<>> => turn.slots >= 1, [Next]_vars
  PROVE  Tracked' /\ (turn'.jobs # <<>> => turn'.slots >= 1)
  <1> USE DEF Tracked
  <1>1. ASSUME NEW s \in Schedules, BecomesDue(s) \/ Enable(s) \/ Disable(s)
        PROVE  Tracked' /\ (turn'.jobs # <<>> => turn'.slots >= 1)
    BY <1>1 DEF BecomesDue, Enable, Disable, Types, KeysMatchRuns
  <1>2. ASSUME NEW s \in Schedules, DispatchOne(s)
        PROVE  Tracked' /\ (turn'.jobs # <<>> => turn'.slots >= 1)
    <2>0. turn.jobs # <<>> /\ turn.slots >= 1
      BY <1>2 DEF DispatchOne, SkipMissing, Dispatch, DispatchWithoutNext, DispatchFails,
                  Looking
    <2>1. CASE SkipMissing(s)
      BY <2>0, <2>1, AdvanceTurn DEF SkipMissing, Types, KeysMatchRuns
    <2>2. CASE Dispatch(s)
      BY <2>0, <2>2, AdvanceTurn, StartRunTracks DEF Dispatch, Types
    <2>3. CASE DispatchWithoutNext(s)
      BY <2>0, <2>3, AdvanceTurn, StartRunTracks DEF DispatchWithoutNext, Types
    <2>4. CASE DispatchFails(s)
      <3>1. limit' = limit /\ turn'.slots \in Nat /\ turn'.jobs = <<>>
        BY <2>4 DEF DispatchFails, NoTurn
      <3>2. CASE UNCHANGED <<runs, keys>>
        BY <3>1, <3>2 DEF Types, KeysMatchRuns
      <3>3. CASE StartRun(s)
        BY <3>1, <3>3, StartRunTracks DEF Types
      <3> QED
        BY <2>4, <3>2, <3>3 DEF DispatchFails
    <2> QED
      BY <1>2, <2>1, <2>2, <2>3, <2>4 DEF DispatchOne
  <1>3. ASSUME NEW r \in Run, RunEnds(r)
        PROVE  Tracked' /\ (turn'.jobs # <<>> => turn'.slots >= 1)
    BY <1>3, RunEndsTracks DEF RunEnds
  <1>4. CASE SetLimit
    BY <1>4, BoundsAssumption DEF SetLimit, Types, KeysMatchRuns
  <1>5. CASE Tick
    <2>1. Cardinality(keys) \in Nat
      BY FS_CardinalityType DEF Types
    <2>2. turn'.slots = Slots /\ Slots > 0
      BY <1>5 DEF Tick
    <2>3. turn'.slots \in Nat /\ turn'.slots >= 1
      BY <2>1, <2>2 DEF Slots, Types
    <2> QED
      BY <1>5, <2>3 DEF Tick, Types, KeysMatchRuns
  <1>6. CASE Crash
    BY <1>6, FS_EmptySet DEF Crash, Types, KeysMatchRuns, NoTurn, Run
  <1>7. CASE Restart
    BY <1>7 DEF Restart, Types, KeysMatchRuns
  <1>8. CASE UNCHANGED vars
    BY <1>8 DEF vars, Types, KeysMatchRuns
  <1> QED
    BY <1>1, <1>2, <1>3, <1>4, <1>5, <1>6, <1>7, <1>8 DEF Next

\* No key outlives its run, and no run of a schedule with one repository is without its
\* key: _active_scheduled_backup_runs loses no slot and misses no such run.
THEOREM KeysCorrect == Spec => []KeysMatchRuns
  <1> DEFINE Inv == Tracked /\ (turn.jobs # <<>> => turn.slots >= 1)
  <1>1. Init => Inv
    BY InitTracked DEF Init, NoTurn
  <1>2. Inv /\ [Next]_vars => Inv'
    BY StepTracked
  <1>3. Inv => KeysMatchRuns
    BY DEF Tracked
  <1> QED
    BY <1>1, <1>2, <1>3, PTL DEF Spec

-----------------------------------------------------------------------------
(* The limit. *)

CountedRuns == {r \in runs : Counted(r)}

\* The slots a dispatch has left are free of counted runs. Other runs may exceed the limit:
\* they are why this is not said of all runs.
SlotsFit ==
  turn.jobs # <<>> =>
    turn.slots >= 1 /\ Cardinality(CountedRuns) + turn.slots <= limit

\* A counted run has its key, so the keys bound the counted runs.
LEMMA CountedHaveKeys ==
  ASSUME Tracked
  PROVE  /\ IsFiniteSet(CountedRuns)
         /\ Cardinality(CountedRuns) \in Nat
         /\ Cardinality(CountedRuns) <= Cardinality(keys)
  <1>1. CountedRuns \subseteq keys
    BY KeyOfSingle DEF CountedRuns, Counted, Tracked, KeysMatchRuns
  <1>2. IsFiniteSet(keys)
    BY DEF Tracked, Types
  <1>3. IsFiniteSet(CountedRuns) /\ Cardinality(CountedRuns) <= Cardinality(keys)
    BY <1>1, <1>2, FS_Subset
  <1> QED
    BY <1>3, FS_CardinalityType

\* A start adds at most one counted run, and none if the schedule has no next occurrence.
LEMMA StartRunCounts ==
  ASSUME Tracked, NEW s \in Schedules, StartRun(s)
  PROVE  /\ Cardinality(CountedRuns') \in Nat
         /\ Cardinality(CountedRuns') <= Cardinality(CountedRuns) + 1
         /\ s \in Finite => CountedRuns' = CountedRuns
  <1>1. PICK n \in 1 .. MaxRuns : runs' = runs \cup {<<s, n>>}
    BY DEF StartRun
  <1>2. IsFiniteSet(CountedRuns) /\ Cardinality(CountedRuns) \in Nat
    BY CountedHaveKeys
  <1>3. CASE Counted(<<s, n>>)
    <2>1. CountedRuns' = CountedRuns \cup {<<s, n>>}
      BY <1>1, <1>3 DEF CountedRuns, Counted
    <2>2. Cardinality(CountedRuns') = IF <<s, n>> \in CountedRuns
                                        THEN Cardinality(CountedRuns)
                                        ELSE Cardinality(CountedRuns) + 1
      BY <1>2, <2>1, FS_AddElement
    <2>3. s \notin Finite
      BY <1>3 DEF Counted
    <2> QED
      BY <1>2, <2>2, <2>3
  <1>4. CASE ~Counted(<<s, n>>)
    <2>1. CountedRuns' = CountedRuns
      BY <1>1, <1>4 DEF CountedRuns, Counted
    <2> QED
      BY <1>2, <2>1
  <1> QED
    BY <1>3, <1>4

LEMMA InitFits == Init => SlotsFit
  BY DEF Init, SlotsFit, NoTurn

LEMMA StepFits ==
  ASSUME Tracked, SlotsFit, [Next]_vars
  PROVE  SlotsFit'
  <1>0. /\ Cardinality(keys) \in Nat /\ limit \in Nat /\ turn.slots \in Nat
        /\ Cardinality(CountedRuns) \in Nat
        /\ Cardinality(CountedRuns) <= Cardinality(keys)
    BY CountedHaveKeys, FS_CardinalityType DEF Tracked, Types
  <1>1. ASSUME Idle, UNCHANGED turn
        PROVE  SlotsFit'
    BY <1>1 DEF SlotsFit, Idle, NoTurn
  <1>2. CASE Tick
    BY <1>0, <1>2 DEF Tick, SlotsFit, Slots, CountedRuns
  <1>3. ASSUME NEW s \in Schedules, DispatchOne(s)
        PROVE  SlotsFit'
    <2>0. turn.slots >= 1 /\ Cardinality(CountedRuns) + turn.slots <= limit
      BY <1>3 DEF DispatchOne, SkipMissing, Dispatch, DispatchWithoutNext, DispatchFails,
                  Looking, SlotsFit
    <2>1. CASE SkipMissing(s)
      <3>1. Types /\ Advance(0) /\ CountedRuns' = CountedRuns /\ limit' = limit
        BY <2>1 DEF SkipMissing, Tracked, CountedRuns
      <3>2. turn'.jobs # <<>> => turn'.slots = turn.slots - 0 /\ turn'.slots >= 1
        BY <2>0, <3>1, AdvanceTurn
      <3> QED
        BY <1>0, <2>0, <3>1, <3>2 DEF SlotsFit
    <2>2. CASE Dispatch(s)
      <3>1. /\ Cardinality(CountedRuns') \in Nat
            /\ Cardinality(CountedRuns') <= Cardinality(CountedRuns) + 1
        BY <2>2, StartRunCounts DEF Dispatch
      <3>2. turn'.jobs # <<>> => turn'.slots = turn.slots - 1 /\ turn'.slots >= 1
        BY <2>0, <2>2, AdvanceTurn DEF Dispatch, Tracked
      <3> QED
        BY <1>0, <2>0, <2>2, <3>1, <3>2 DEF Dispatch, SlotsFit
    <2>3. CASE DispatchWithoutNext(s)
      <3>1. CountedRuns' = CountedRuns
        BY <2>3, StartRunCounts DEF DispatchWithoutNext
      <3>2. turn'.jobs # <<>> => turn'.slots = turn.slots - 0 /\ turn'.slots >= 1
        BY <2>0, <2>3, AdvanceTurn DEF DispatchWithoutNext, Tracked
      <3> QED
        BY <1>0, <2>0, <2>3, <3>1, <3>2 DEF DispatchWithoutNext, SlotsFit
    <2>4. CASE DispatchFails(s)
      BY <2>4 DEF DispatchFails, SlotsFit, NoTurn
    <2> QED
      BY <1>3, <2>1, <2>2, <2>3, <2>4 DEF DispatchOne
  <1>4. CASE Crash
    BY <1>4 DEF Crash, SlotsFit, NoTurn
  <1>5. CASE Restart \/ UNCHANGED vars
    BY <1>5 DEF Restart, vars, SlotsFit, CountedRuns
  <1> QED
    BY <1>1, <1>2, <1>3, <1>4, <1>5
    DEF Next, BecomesDue, Enable, Disable, RunEnds, SetLimit

\* A started run finds a slot.
LEMMA StepWithinCapacity ==
  ASSUME Tracked, SlotsFit, [Next]_vars, runs' \ runs # {}
  PROVE  Cardinality(CountedRuns') <= limit
  <1>1. PICK s \in Schedules : StartRun(s) /\ turn.jobs # <<>>
    BY DEF Next, BecomesDue, Enable, Disable, DispatchOne, SkipMissing, Dispatch,
           DispatchWithoutNext, DispatchFails, RunEnds, SetLimit, Tick, Crash, Restart,
           vars, Looking
  <1>2. turn.slots >= 1 /\ Cardinality(CountedRuns) + turn.slots <= limit
    BY <1>1 DEF SlotsFit
  <1>3. /\ Cardinality(CountedRuns') \in Nat
        /\ Cardinality(CountedRuns') <= Cardinality(CountedRuns) + 1
    BY <1>1, StartRunCounts
  <1>4. Cardinality(CountedRuns) \in Nat /\ turn.slots \in Nat /\ limit \in Nat
    BY CountedHaveKeys DEF Tracked, Types
  <1> QED
    BY <1>2, <1>3, <1>4

\* dispatch_due_scheduled_backups respects the limit for every run it counts, whatever the
\* other schedules do.
THEOREM CapacityRespected == Spec => DispatchWithinCapacity
  <1> DEFINE Inv == Tracked /\ SlotsFit
             Within == runs' \ runs # {} => Cardinality(CountedRuns') <= limit
  <1>1. Init => Inv
    BY InitTracked, InitFits
  <1>2. Inv /\ [Next]_vars => Inv'
    BY StepTracked, StepFits DEF SlotsFit
  <1>3. Inv /\ [Next]_vars => [Within]_vars
    BY StepWithinCapacity
  <1>4. Within <=> (runs' \ runs # {} => Cardinality({r \in runs' : Counted(r)}) <= limit)
    BY DEF CountedRuns, Counted
  <1> QED
    BY <1>1, <1>2, <1>3, <1>4, PTL DEF Spec, DispatchWithinCapacity

-----------------------------------------------------------------------------
(* The order of starts. *)

Distinct(seq) == \A i, k \in DOMAIN seq : seq[i] = seq[k] => i = k

\* What Without does to a sequence of different elements.
LEMMA WithoutOne ==
  ASSUME NEW S, NEW seq \in Seq(S), Distinct(seq), NEW i \in DOMAIN seq
  PROVE  /\ Without(seq, seq[i]) \in Seq(S)
         /\ Len(Without(seq, seq[i])) = Len(seq) - 1
         /\ \A k \in 1 .. Len(seq) - 1 : Without(seq, seq[i])[k] = seq[IF k < i THEN k ELSE k + 1]
  <1>1. (CHOOSE j \in DOMAIN seq : seq[j] = seq[i]) = i
    BY DEF Distinct
  <1>2. Without(seq, seq[i]) = [k \in 1 .. Len(seq) - 1 |-> seq[IF k < i THEN k ELSE k + 1]]
    BY <1>1 DEF Without
  <1>3. Len(seq) \in Nat /\ i \in 1 .. Len(seq) /\ Len(seq) - 1 \in Nat
    OBVIOUS
  <1>4. ASSUME NEW k \in 1 .. Len(seq) - 1
        PROVE  seq[IF k < i THEN k ELSE k + 1] \in S
    BY <1>3
  <1> QED
    BY <1>2, <1>3, <1>4

\* Without keeps different what was different, and takes away what it should.
LEMMA WithoutType ==
  ASSUME NEW S, NEW seq \in Seq(S), Distinct(seq), NEW s
  PROVE  Without(seq, s) \in Seq(S \ {s}) /\ Distinct(Without(seq, s))
  <1>1. CASE \E i \in DOMAIN seq : seq[i] = s
    <2>1. PICK i \in DOMAIN seq : seq[i] = s
      BY <1>1
    <2> DEFINE w == Without(seq, s)
    <2>2. /\ w \in Seq(S) /\ Len(w) = Len(seq) - 1
          /\ \A k \in 1 .. Len(seq) - 1 : w[k] = seq[IF k < i THEN k ELSE k + 1]
      BY <2>1, WithoutOne
    <2> HIDE DEF w
    <2>3. Len(seq) \in Nat /\ i \in 1 .. Len(seq) /\ DOMAIN w = 1 .. Len(seq) - 1
      BY <2>2
    <2>4. \A k \in 1 .. Len(seq) - 1 :
             (IF k < i THEN k ELSE k + 1) \in DOMAIN seq /\ (IF k < i THEN k ELSE k + 1) # i
      BY <2>3
    <2>5. \A k \in 1 .. Len(seq) - 1 : w[k] # s
      BY <2>1, <2>2, <2>4 DEF Distinct
    <2>6. Distinct(w)
      <3> SUFFICES ASSUME NEW k \in 1 .. Len(seq) - 1, NEW l \in 1 .. Len(seq) - 1, w[k] = w[l]
                   PROVE  k = l
        BY <2>3 DEF Distinct
      <3>1. (IF k < i THEN k ELSE k + 1) = (IF l < i THEN l ELSE l + 1)
        BY <2>2, <2>4 DEF Distinct
      <3> QED
        BY <2>3, <3>1
    <2>7. w \in Seq(S \ {s})
      BY <2>2, <2>3, <2>5
    <2> QED
      BY <2>6, <2>7 DEF w
  <1>2. CASE ~\E i \in DOMAIN seq : seq[i] = s
    <2>1. Without(seq, s) = seq
      BY <1>2 DEF Without
    <2> QED
      BY <1>2, <2>1
  <1> QED
    BY <1>1, <1>2

\* What a dispatch has yet to look at are the schedules at the end of the list; those before
\* them could not start, or were started and could not be moved on.
LookedAt == Len(due) - Len(turn.jobs)

Ordered ==
  /\ Distinct(due)
  /\ turn.jobs # <<>> =>
       /\ LookedAt >= 0
       /\ \A k \in 1 .. Len(turn.jobs) : turn.jobs[k] = due[LookedAt + k]
       /\ \A i \in 1 .. LookedAt : due[i] \in Missing \cup Finite

TypedOrder == TypeOK /\ Ordered

LEMMA InitOrder == Init => TypedOrder
  BY BoundsAssumption DEF Init, TypedOrder, TypeOK, Ordered, Distinct, NoTurn

\* The loop goes on to the rest of its list.
LEMMA AdvanceJobs ==
  ASSUME TypeOK, turn.jobs # <<>>, turn.slots >= 1, NEW used \in {0, 1}, Advance(used)
  PROVE  /\ turn' \in [jobs : Seq(Schedules), slots : Nat]
         /\ turn'.jobs # <<>> => turn'.jobs = Tail(turn.jobs)
  <1>1. turn.jobs \in Seq(Schedules) /\ turn.slots \in Nat
    BY DEF TypeOK
  <1>2. CASE turn' = NoTurn
    BY <1>2 DEF NoTurn
  <1>3. CASE turn' = [jobs |-> Tail(turn.jobs), slots |-> turn.slots - used]
    BY <1>1, <1>3
  <1> QED
    BY <1>2, <1>3 DEF Advance

LEMMA StartRunType ==
  ASSUME TypeOK, NEW s \in Schedules, StartRun(s)
  PROVE  runs' \subseteq Run /\ keys' \subseteq Schedules \X (0 .. MaxRuns)
  <1>1. PICK n \in 1 .. MaxRuns : /\ runs' = runs \cup {<<s, n>>}
                                  /\ keys' = keys \cup {Key(<<s, n>>)}
    BY DEF StartRun
  <1>2. n \in 0 .. MaxRuns /\ 0 \in 0 .. MaxRuns
    BY BoundsAssumption
  <1>3. Key(<<s, n>>) \in Schedules \X (0 .. MaxRuns)
    BY <1>2 DEF Key
  <1>4. keys' \subseteq Schedules \X (0 .. MaxRuns)
    BY <1>1, <1>3 DEF TypeOK
  <1>5. runs' \subseteq Run
    BY <1>1 DEF TypeOK, Run
  <1> QED
    BY <1>4, <1>5

\* The schedule that is looked at is the first after those that were.
LEMMA LookingAt ==
  ASSUME TypedOrder, NEW s \in Schedules, Looking(s)
  PROVE  /\ LookedAt \in Nat /\ LookedAt + 1 \in DOMAIN due /\ due[LookedAt + 1] = s
         /\ Len(turn.jobs) \in Nat \ {0} /\ Len(due) \in Nat /\ Len(due) = LookedAt + Len(turn.jobs)
         /\ \A k \in 1 .. Len(turn.jobs) - 1 : Tail(turn.jobs)[k] = due[LookedAt + 1 + k]
         /\ Len(Tail(turn.jobs)) = Len(turn.jobs) - 1
         /\ \A i \in DOMAIN due : due[i] = s => i = LookedAt + 1
  <1>1. turn.jobs \in Seq(Schedules) /\ due \in Seq(enabled) /\ turn.jobs # <<>>
    BY DEF TypedOrder, TypeOK, Looking
  <1>2. Len(turn.jobs) \in Nat \ {0} /\ Len(due) \in Nat /\ LookedAt >= 0
    BY <1>1 DEF TypedOrder, Ordered
  <1>3. LookedAt \in Nat /\ Len(due) = LookedAt + Len(turn.jobs)
    BY <1>2 DEF LookedAt
  <1>4. turn.jobs[1] = s /\ \A k \in 1 .. Len(turn.jobs) : turn.jobs[k] = due[LookedAt + k]
    BY <1>1 DEF Looking, TypedOrder, Ordered
  <1>5. due[LookedAt + 1] = s /\ LookedAt + 1 \in DOMAIN due
    BY <1>1, <1>2, <1>3, <1>4
  <1>6. /\ Len(Tail(turn.jobs)) = Len(turn.jobs) - 1
        /\ \A k \in 1 .. Len(turn.jobs) - 1 : Tail(turn.jobs)[k] = turn.jobs[k + 1]
    BY <1>1
  <1>7. ASSUME NEW k \in 1 .. Len(turn.jobs) - 1
        PROVE  Tail(turn.jobs)[k] = due[LookedAt + 1 + k]
    <2>1. k + 1 \in 1 .. Len(turn.jobs) /\ LookedAt + (k + 1) = LookedAt + 1 + k
      BY <1>2, <1>3
    <2> QED
      BY <1>4, <1>6, <2>1
  <1>8. \A i \in DOMAIN due : due[i] = s => i = LookedAt + 1
    BY <1>5 DEF TypedOrder, Ordered, Distinct
  <1> QED
    BY <1>2, <1>3, <1>5, <1>6, <1>7, <1>8

\* A step of the dispatch: the rest of the list has been looked at, and what was started and
\* moved on is no longer there.
LEMMA DispatchOrder ==
  ASSUME TypedOrder, turn.slots >= 1, NEW s \in Schedules, DispatchOne(s)
  PROVE  TypedOrder'
  <1>1. Looking(s) /\ turn.jobs # <<>> /\ TypeOK /\ Distinct(due)
    BY DEF DispatchOne, SkipMissing, Dispatch, DispatchWithoutNext, DispatchFails, Looking,
           TypedOrder, Ordered
  <1>2. /\ LookedAt \in Nat /\ LookedAt + 1 \in DOMAIN due /\ due[LookedAt + 1] = s
        /\ Len(turn.jobs) \in Nat \ {0} /\ Len(due) \in Nat /\ Len(due) = LookedAt + Len(turn.jobs)
        /\ \A k \in 1 .. Len(turn.jobs) - 1 : Tail(turn.jobs)[k] = due[LookedAt + 1 + k]
        /\ Len(Tail(turn.jobs)) = Len(turn.jobs) - 1
    BY <1>1, LookingAt
  <1>3. \A i \in 1 .. LookedAt : due[i] \in Missing \cup Finite
    BY <1>1 DEF TypedOrder, Ordered
  <1>4. UNCHANGED <<up, enabled, limit>> /\ faults' \in 0 .. MaxFaults
    BY <1>1, BoundsAssumption
    DEF DispatchOne, SkipMissing, Dispatch, DispatchWithoutNext, DispatchFails, TypeOK
  <1>5. runs' \subseteq Run /\ keys' \subseteq Schedules \X (0 .. MaxRuns)
    <2>1. StartRun(s) \/ UNCHANGED <<runs, keys>>
      BY DEF DispatchOne, SkipMissing, Dispatch, DispatchWithoutNext, DispatchFails
    <2> QED
      BY <1>1, <2>1, StartRunType DEF TypeOK
  <1>6. ASSUME due' \in Seq(enabled), turn' \in [jobs : Seq(Schedules), slots : Nat]
        PROVE  TypeOK'
    BY <1>1, <1>4, <1>5, <1>6 DEF TypeOK
  <1>7. CASE UNCHANGED due /\ Advance(0) /\ s \in Missing \cup Finite
    <2>1. /\ turn' \in [jobs : Seq(Schedules), slots : Nat]
          /\ turn'.jobs # <<>> => turn'.jobs = Tail(turn.jobs)
      BY <1>1, <1>7, AdvanceJobs
    <2>2. TypeOK'
      BY <1>1, <1>6, <1>7, <2>1 DEF TypeOK
    <2>3. ASSUME turn'.jobs # <<>>
          PROVE  /\ LookedAt' >= 0
                 /\ \A k \in 1 .. Len(turn'.jobs) : turn'.jobs[k] = due'[LookedAt' + k]
                 /\ \A i \in 1 .. LookedAt' : due'[i] \in Missing \cup Finite
      <3>0. LookedAt' = Len(due) - Len(Tail(turn.jobs))
        BY <1>7, <2>1, <2>3 DEF LookedAt
      <3>1. Len(turn'.jobs) = Len(turn.jobs) - 1
        BY <1>2, <2>1, <2>3
      <3>2. /\ LookedAt \in Nat /\ Len(turn.jobs) \in Nat /\ Len(due) = LookedAt + Len(turn.jobs)
            /\ Len(Tail(turn.jobs)) = Len(turn.jobs) - 1
        BY <1>2
      <3>3. LookedAt' = LookedAt + 1
        <4> DEFINE all == Len(due)
                   left == Len(turn.jobs)
                   rest == Len(Tail(turn.jobs))
        <4>1. /\ all = LookedAt + left /\ rest = left - 1 /\ left \in Nat /\ LookedAt \in Nat
              /\ LookedAt' = all - rest
          BY <3>0, <3>2
        <4> HIDE DEF all, left, rest
        <4> QED
          BY <4>1
      <3>4. \A i \in 1 .. LookedAt + 1 : due[i] \in Missing \cup Finite
        BY <1>2, <1>3, <1>7
      <3> QED
        <4>1. LookedAt + 1 >= 0
          BY <1>2
        <4> QED
          BY <1>2, <1>7, <2>1, <2>3, <3>1, <3>3, <3>4, <4>1
    <2> QED
      BY <1>1, <1>7, <2>2, <2>3 DEF TypedOrder, Ordered
  <1>8. CASE due' = Without(due, s) /\ Advance(1)
    <2>1. /\ turn' \in [jobs : Seq(Schedules), slots : Nat]
          /\ turn'.jobs # <<>> => turn'.jobs = Tail(turn.jobs)
      BY <1>1, <1>8, AdvanceJobs
    <2>2. due \in Seq(enabled)
      BY <1>1 DEF TypeOK
    <2>3. /\ due' \in Seq(enabled) /\ Len(due') = Len(due) - 1
          /\ \A k \in 1 .. Len(due) - 1 : due'[k] = due[IF k < LookedAt + 1 THEN k ELSE k + 1]
      BY <1>1, <1>2, <1>8, <2>2, WithoutOne
    <2>4. Distinct(due')
      BY <1>1, <1>8, <2>2, WithoutType
    <2>5. TypeOK'
      BY <1>6, <2>1, <2>3
    <2>6. ASSUME turn'.jobs # <<>>
          PROVE  /\ LookedAt' >= 0
                 /\ \A k \in 1 .. Len(turn'.jobs) : turn'.jobs[k] = due'[LookedAt' + k]
                 /\ \A i \in 1 .. LookedAt' : due'[i] \in Missing \cup Finite
      <3>0. LookedAt' = Len(due') - Len(Tail(turn.jobs))
        BY <2>1, <2>6 DEF LookedAt
      <3>1. LookedAt' = LookedAt /\ Len(turn'.jobs) = Len(turn.jobs) - 1
        <4> DEFINE all == Len(due)
                   left == Len(turn.jobs)
                   rest == Len(Tail(turn.jobs))
                   here == LookedAt
        <4>1. /\ all = here + left /\ rest = left - 1 /\ left \in Nat /\ here \in Nat
              /\ LookedAt' = (all - 1) - rest
          BY <1>2, <2>3, <3>0
        <4>2. Len(turn'.jobs) = rest
          BY <2>1, <2>6
        <4> HIDE DEF all, left, rest, here
        <4>3. LookedAt' = here
          BY <4>1
        <4> QED
          BY <4>1, <4>2, <4>3 DEF left, rest, here
      <3>2. ASSUME NEW k \in 1 .. Len(turn.jobs) - 1
            PROVE  turn'.jobs[k] = due'[LookedAt + k]
        <4>1. LookedAt + k \in 1 .. Len(due) - 1 /\ ~(LookedAt + k < LookedAt + 1)
              /\ LookedAt + k + 1 = LookedAt + 1 + k
          <5> DEFINE all == Len(due)
                     left == Len(turn.jobs)
                     here == LookedAt
          <5>1. /\ all = here + left /\ left \in Nat /\ here \in Nat /\ all \in Nat
                /\ k \in 1 .. left - 1
            BY <1>2
          <5> HIDE DEF all, left, here
          <5>2. here + k \in 1 .. all - 1 /\ ~(here + k < here + 1) /\ here + k + 1 = here + 1 + k
            BY <5>1
          <5> QED
            BY <5>2 DEF all, here
        <4>2. due'[LookedAt + k] = due[LookedAt + 1 + k]
          BY <2>3, <4>1
        <4> QED
          BY <1>2, <2>1, <2>6, <4>2
      <3>3. ASSUME NEW i \in 1 .. LookedAt
            PROVE  due'[i] \in Missing \cup Finite
        <4>1. i \in 1 .. Len(due) - 1 /\ i < LookedAt + 1
          BY <1>2
        <4> QED
          BY <1>3, <2>3, <4>1
      <3> QED
        BY <1>2, <3>1, <3>2, <3>3
    <2> QED
      BY <2>4, <2>5, <2>6 DEF TypedOrder, Ordered
  <1>9. CASE UNCHANGED due /\ turn' = NoTurn
    <2>1. turn' \in [jobs : Seq(Schedules), slots : Nat] /\ turn'.jobs = <<>>
      BY <1>9 DEF NoTurn
    <2>2. TypeOK'
      BY <1>1, <1>6, <1>9, <2>1 DEF TypeOK
    <2> QED
      BY <1>1, <1>9, <2>1, <2>2 DEF TypedOrder, Ordered
  <1> QED
    BY <1>7, <1>8, <1>9 DEF DispatchOne, SkipMissing, Dispatch, DispatchWithoutNext, DispatchFails

LEMMA StepOrder ==
  ASSUME TypedOrder, IsFiniteSet(keys), turn.jobs # <<>> => turn.slots >= 1, [Next]_vars
  PROVE  TypedOrder'
  <1> USE DEF TypedOrder
  <1>1. ASSUME Idle, UNCHANGED <<up, limit, turn, runs, keys, faults>>, enabled' \subseteq Schedules,
               due' \in Seq(enabled'), Distinct(due')
        PROVE  TypedOrder'
    <2>1. turn'.jobs = <<>>
      BY <1>1 DEF Idle, NoTurn
    <2> QED
      BY <1>1, <2>1 DEF TypeOK, Ordered
  <1>2. due \in Seq(enabled) /\ Distinct(due) /\ enabled \subseteq Schedules
    BY DEF TypeOK, Ordered
  <1>3. ASSUME NEW s \in Schedules, BecomesDue(s)
        PROVE  TypedOrder'
    <2>1. due' = Append(due, s) /\ s \in enabled /\ \A i \in DOMAIN due : due[i] # s
      BY <1>3 DEF BecomesDue, Listed
    <2>2. due' \in Seq(enabled) /\ DOMAIN due' = 1 .. Len(due) + 1
          /\ due'[Len(due) + 1] = s /\ \A i \in 1 .. Len(due) : due'[i] = due[i]
      BY <1>2, <2>1
    <2>3. Distinct(due')
      BY <1>2, <2>1, <2>2 DEF Distinct
    <2> QED
      BY <1>1, <1>2, <1>3, <2>2, <2>3 DEF BecomesDue
  <1>4. ASSUME NEW s \in Schedules, Enable(s) \/ Disable(s)
        PROVE  TypedOrder'
    <2>1. due' \in Seq(enabled \ {s}) /\ Distinct(due')
      BY <1>2, <1>4, WithoutType DEF Enable, Disable
    <2>2. enabled \ {s} \subseteq enabled' /\ enabled' \subseteq Schedules
      BY <1>2, <1>4 DEF Enable, Disable
    <2>3. due' \in Seq(enabled')
      BY <2>1, <2>2
    <2> QED
      BY <1>1, <1>4, <2>1, <2>2, <2>3 DEF Enable, Disable
  <1>5. ASSUME NEW s \in Schedules, DispatchOne(s)
        PROVE  TypedOrder'
    <2>1. turn.jobs # <<>>
      BY <1>5 DEF DispatchOne, SkipMissing, Dispatch, DispatchWithoutNext, DispatchFails, Looking
    <2> QED
      BY <1>5, <2>1, DispatchOrder
  <1>6. ASSUME NEW r \in Run, RunEnds(r)
        PROVE  TypedOrder'
    BY <1>6 DEF RunEnds, TypeOK, Ordered, LookedAt
  <1>7. CASE SetLimit
    BY <1>7 DEF SetLimit, TypeOK, Ordered, LookedAt
  <1>8. CASE Tick
    <2>1. turn' = [jobs |-> due, slots |-> Slots] /\ Slots > 0
          /\ UNCHANGED <<up, enabled, due, limit, runs, keys, faults>>
      BY <1>8 DEF Tick
    <2>2. Slots \in Nat
      <3>1. limit \in Nat /\ Cardinality(keys) \in Nat
        BY BoundsAssumption, FS_CardinalityType DEF TypeOK
      <3> QED
        BY <2>1, <3>1 DEF Slots
    <2>3. due \in Seq(Schedules)
      BY <1>2
    <2>4. TypeOK'
      BY <2>1, <2>2, <2>3 DEF TypeOK
    <2>5. LookedAt' = 0 /\ turn'.jobs = due'
      BY <2>1, <2>3 DEF LookedAt
    <2>6. Ordered'
      BY <1>2, <2>1, <2>3, <2>5 DEF Ordered
    <2> QED
      BY <2>4, <2>6
  <1>9. CASE Crash
    <2>1. turn' = NoTurn /\ UNCHANGED <<enabled, due, limit>> /\ runs' = {} /\ keys' = {}
      BY <1>9 DEF Crash
    <2>2. up' = FALSE /\ faults < MaxFaults /\ faults' = faults + 1 /\ faults \in 0 .. MaxFaults
      BY <1>9 DEF Crash, TypeOK
    <2>3. faults' \in 0 .. MaxFaults
      BY <2>2, BoundsAssumption
    <2>4. turn' \in [jobs : Seq(Schedules), slots : Nat] /\ turn'.jobs = <<>>
      BY <2>1 DEF NoTurn
    <2>5. TypeOK'
      BY <2>1, <2>2, <2>3, <2>4 DEF TypeOK
    <2> QED
      BY <1>2, <2>1, <2>4, <2>5 DEF Ordered
  <1>10. CASE Restart \/ UNCHANGED vars
    BY <1>10 DEF Restart, vars, TypeOK, Ordered, LookedAt
  <1> QED
    BY <1>3, <1>4, <1>5, <1>6, <1>7, <1>8, <1>9, <1>10 DEF Next

\* Both invariants together.
LEMMA OrderInvariant == Spec => [](TypedOrder /\ Tracked /\ (turn.jobs # <<>> => turn.slots >= 1))
  <1> DEFINE Inv == TypedOrder /\ Tracked /\ (turn.jobs # <<>> => turn.slots >= 1)
  <1>1. Init => Inv
    BY InitOrder, InitTracked DEF Init, NoTurn
  <1>2. Inv /\ [Next]_vars => Inv'
    BY StepOrder, StepTracked DEF Tracked, Types
  <1> QED
    BY <1>1, <1>2, PTL DEF Spec

\* The schedules, the list of due ones and the dispatch in progress are what they can be; the
\* list of due schedules has enabled ones only, whoever disables them meanwhile.
THEOREM TypeCorrect == Spec => []TypeOK
  <1>1. TypedOrder => TypeOK
    BY DEF TypedOrder
  <1> QED
    BY <1>1, OrderInvariant, PTL

\* check_scheduled_jobs starts no schedule before those that became due earlier were looked
\* at: they are gone from the list, could not start, or could not be moved on.
THEOREM StartsInOrder == Spec => OldestFirst
  <1> DEFINE InOrder == \A s \in Schedules :
                          (\E n \in 1 .. MaxRuns : <<s, n>> \in runs' \ runs)
                            => \A i, k \in DOMAIN due :
                                 (due[k] = s /\ i < k) => due[i] \in Missing \cup Finite
  <1>1. ASSUME TypedOrder, [Next]_vars
        PROVE  [InOrder]_vars
    <2> SUFFICES ASSUME NEW s \in Schedules, NEW n \in 1 .. MaxRuns, <<s, n>> \in runs' \ runs,
                        NEW i \in DOMAIN due, NEW k \in DOMAIN due, due[k] = s, i < k
                 PROVE  due[i] \in Missing \cup Finite
      OBVIOUS
    <2>1. PICK t \in Schedules : Looking(t) /\ StartRun(t)
      BY <1>1 DEF Next, BecomesDue, Enable, Disable, DispatchOne, SkipMissing, Dispatch,
             DispatchWithoutNext, DispatchFails, RunEnds, SetLimit, Tick, Crash, Restart, vars
    <2>2. s = t
      BY <2>1 DEF StartRun
    <2>3. k = LookedAt + 1 /\ LookedAt \in Nat
      BY <1>1, <2>1, <2>2, LookingAt
    <2>4. i \in 1 .. LookedAt
      BY <1>1, <2>3 DEF TypedOrder, TypeOK
    <2> QED
      BY <1>1, <2>1, <2>4 DEF TypedOrder, Ordered, Looking
  <1> HIDE DEF InOrder
  <1>2. Spec => [][InOrder]_vars
    BY <1>1, OrderInvariant, PTL DEF Spec
  <1> QED
    BY <1>2 DEF InOrder, OldestFirst

-----------------------------------------------------------------------------
(***************************************************************************)
(* The run of a schedule with several repositories: whatever is edited and *)
(* deleted under it, it is complete and runs no script twice.              *)
(***************************************************************************)
\* Before the first turn, and in one.
Early == {"idle", "queued", "pre", "aborted"}
InTurn == {"turn", "repoPre", "backup", "borg", "afterBackup", "repoPost", "maintain",
           "prune", "afterPrune", "compact"}

\* The turn of a repository has not come.
NoneRan(count) == \A k \in Order : count[k] = 0
Untouched(q) ==
  row[q] = "none" /\ maint[q] = "none" /\ NoneRan(pres[q]) /\ NoneRan(posts[q])

\* Where the run is, and what it has not touched there.
Place ==
  /\ run.pc \in Early => p = 1
  /\ run.pc \in InTurn => p <= N
  /\ run.pc \in {"finish", "post"} => p = N + 1
  /\ run.pc = "ended" => p = N + 1 \/ job = Gone
  /\ \A q \in Repos : q > p \/ (q = p /\ run.pc \in Early \cup {"turn"}) => Untouched(q)
  /\ child # "none" => run.pc \in {"prune", "compact", "dead"}
  /\ run.pc # "ended" => postRan = 0

\* What the session holds is the schedule, as long as nobody edits it.
Session ==
  /\ run.seen = Stale \/ run.seen # Gone
  /\ edits = 0 /\ job # Gone =>
       /\ run.seen \in {Stale, job}
       /\ run.pc \in {"repoPost", "maintain"} => run.seen = job
       /\ run.pc \in {"repoPre", "backup", "borg", "afterBackup"} => run.skip = job.hooks
       /\ run.pc = "post" => job.post

\* The run and the backup do not both run the scripts.
OnceRan(count) == \A k \in Order : count[k] <= 1

Counts ==
  /\ \A q \in Repos : OnceRan(pres[q]) /\ (OnceRan(posts[q]) \/ edits > 0)
  /\ run.pc = "repoPre" => run.skip /\ NoneRan(pres[p])
  /\ run.pc = "backup" => run.skip \/ NoneRan(pres[p])
  /\ run.pc \in {"repoPre", "backup", "borg"} => NoneRan(posts[p])
  /\ run.pc = "afterBackup" =>
        /\ OnceRan(posts[p])
        /\ edits = 0 => NoneRan(posts[p]) \/ (run.seen = Stale /\ ~run.skip)
  /\ run.pc = "repoPost" => OnceRan(posts[p]) /\ (edits = 0 => NoneRan(posts[p]))

\* Nothing the run needs was deleted, but maybe the row of a prune or compact, which only
\* ends that.
Undeleted ==
  job # Gone /\ repos = Repos /\ failedCommits = 0 /\ \A q \in Repos : row[q] # "gone"

Maintains == job.prune \/ job.compact

\* A repository whose turn is over is backed up and maintained.
Served(q) ==
  /\ row[q] \in Results /\ maint[q] # "running"
  /\ edits = 0 =>
       maint[q] \in (IF row[q] \in Good /\ Maintains THEN {"done", "failed"} ELSE {"none"})

\* The one whose turn it is is on the way there.
Serving(q) ==
  /\ run.pc = "repoPre" => row[q] = "open"
  /\ run.pc \in {"backup", "borg"} => row[q] \in {"open", "failure"}
  /\ run.pc \in {"afterBackup", "repoPost", "maintain"} => row[q] \in Results
  /\ run.pc \in {"repoPre", "backup", "borg", "afterBackup", "repoPost", "maintain"} =>
        maint[q] = "none"
  /\ run.pc \in {"prune", "afterPrune", "compact"} =>
        row[q] \in Good /\ (edits = 0 => Maintains)
  /\ run.pc = "afterPrune" => maint[q] \in {"done", "failed"}

Progress ==
  Undeleted =>
    /\ run.pc = "dead" => child = "gone"
    /\ \A q \in Repos : (q < p => Served(q)) /\ (q = p => Serving(q))
    /\ run.pc = "ended" /\ edits = 0 => postRan = (IF job.post THEN 1 ELSE 0)

\* The scripts of a repository, when the backup is made, and when all is done.
PreRan(q) ==
  IF job.hooks THEN Done(pres[q]) \in Firsts(scripts[q].pre)
               ELSE Done(pres[q]) = scripts[q].pre
BackupRan(q) ==
  /\ job.hooks \/ row[q] \in Good => PreRan(q)
  /\ ~job.hooks /\ row[q] \in Good => Done(posts[q]) = Asking(scripts[q], row[q])
  /\ ~job.hooks /\ row[q] \notin Good =>
        \/ Done(posts[q]) = {}
        \/ \E how \in Results : Done(posts[q]) = Asking(scripts[q], how)
AllRan(q) == BackupRan(q) /\ (job.hooks => Done(posts[q]) \in Firsts(scripts[q].post))

\* The scripts of the one whose turn it is.
Running(q) ==
  /\ run.pc = "repoPre" => job.hooks /\ run.todo = scripts[q].pre /\ run.todo # {}
  /\ run.pc = "backup" /\ run.skip => PreRan(q)
  /\ run.pc = "borg" => PreRan(q)
  /\ run.pc \in {"afterBackup", "repoPost"} => BackupRan(q)
  /\ run.pc = "afterBackup" /\ run.skip => NoneRan(posts[q])
  /\ run.pc = "repoPost" => job.hooks /\ run.todo = scripts[q].post /\ run.todo # {}
  /\ run.pc \in {"maintain", "prune", "afterPrune", "compact"} => AllRan(q)

HooksRun ==
  Undeleted /\ edits = 0 =>
    \A q \in Repos : (q < p => AllRan(q)) /\ (q = p => Running(q))

RunInv == RunTypeOK /\ Place /\ Session /\ Counts /\ Progress /\ HooksRun

-----------------------------------------------------------------------------
(* How a step leaves the run. *)

Places == {"idle", "turn", "afterBackup", "maintain", "afterPrune", "finish"} \cup Awaiting
            \cup Over

RunType ==
  [pc: Places, at: 1..(N + 1), seen: Flags \cup {Stale}, skip: BOOLEAN, todo: SUBSET Order]

\* The run is at pc with the session holding seen, in the turn of the same repository.
At(pc, seen) ==
  run'.pc = pc /\ run'.seen = seen /\ run'.at = p /\ run'.skip = run.skip

\* The run goes on with the next repository, with the session holding seen.
OnTo(seen) ==
  /\ run'.pc = (IF p = N THEN "finish" ELSE "turn")
  /\ run'.seen = seen /\ run'.at = p + 1 /\ run'.skip = run.skip

LEMMA RunTyped == RunTypeOK => run \in RunType
  BY DEF RunTypeOK, RunType, Places

LEMMA Typed ==
  ASSUME RunTypeOK
  PROVE  /\ run.pc \in Places /\ p \in 1..(N + 1) /\ p \in Nat
         /\ run.seen \in Flags \cup {Stale} /\ run.skip \in BOOLEAN
         /\ N \in Nat \ {0}
  BY MultiRepoRunAssumption DEF RunTypeOK, RunType, Places, p

LEMMA Loads ==
  ASSUME RunTypeOK, NEW pc \in Places, NEW seen \in Flags \cup {Stale},
         NEW todo \in SUBSET Order, Load(pc, seen, todo)
  PROVE  At(pc, seen) /\ run'.todo = todo /\ run' \in RunType
<1>1. run \in RunType
  BY RunTyped
<1> QED
  BY <1>1 DEF RunType, At, Load, p

LEMMA Goes ==
  ASSUME RunTypeOK, NEW pc \in Places, NEW seen \in Flags \cup {Stale}, Goto(pc, seen)
  PROVE  At(pc, seen) /\ run' \in RunType
BY Loads DEF Goto

LEMMA Dies ==
  ASSUME RunTypeOK, Die
  PROVE  At("dead", run.seen) /\ run' \in RunType
<1>1. run \in RunType
  BY RunTyped
<1>2. "dead" \in Places
  BY DEF Places, Over
<1> QED
  BY <1>1, <1>2 DEF RunType, At, Die, p

LEMMA Turns ==
  ASSUME RunTypeOK, p <= N, NEW seen \in Flags \cup {Stale}, NextTurn(seen)
  PROVE  OnTo(seen) /\ run' \in RunType
<1>1. run \in RunType /\ p \in 1..(N + 1) /\ N \in Nat
  BY RunTyped, Typed
<1>2. {"turn", "finish"} \subseteq Places
  BY DEF Places
<1>3. p + 1 \in 1..(N + 1)
  BY <1>1
<1> QED
  BY <1>1, <1>2, <1>3 DEF RunType, OnTo, NextTurn, p

LEMMA Raises ==
  ASSUME RunTypeOK, p <= N, Raise
  PROVE  /\ run' \in RunType
         /\ \/ p \in repos /\ OnTo(run.seen)
            \/ p \notin repos /\ At("dead", run.seen)
  BY Typed, Turns, Dies DEF Raise

-----------------------------------------------------------------------------
(* What scripts that are run add to their counts. *)

LEMMA RanAdds ==
  ASSUME NEW counts \in [Repos -> [Order -> 0..2]], p \in Repos, OnceRan(counts[p]),
         NEW which \in SUBSET Order
  PROVE  /\ Ran(counts, which) \in [Repos -> [Order -> 0..2]]
         /\ \A q \in Repos : q # p => Ran(counts, which)[q] = counts[q]
         /\ NoneRan(counts[p]) =>
               OnceRan(Ran(counts, which)[p]) /\ Done(Ran(counts, which)[p]) = which
         /\ which = {} => Ran(counts, which)[p] = counts[p]
<1>1. counts[p] \in [Order -> 0..2]
  OBVIOUS
<1>2. Ran(counts, which)[p] = Add(counts[p], which)
  BY DEF Ran
<1>3. Add(counts[p], which) \in [Order -> 0..2]
  BY <1>1 DEF Add, OnceRan
<1>4. which = {} => Add(counts[p], which) = counts[p]
  BY <1>1 DEF Add
<1>5. NoneRan(counts[p]) =>
        OnceRan(Add(counts[p], which)) /\ Done(Add(counts[p], which)) = which
  BY DEF Add, OnceRan, NoneRan, Done
<1>6. Ran(counts, which) \in [Repos -> [Order -> 0..2]]
  BY <1>3 DEF Ran
<1>7. \A q \in Repos : q # p => Ran(counts, which)[q] = counts[q]
  BY DEF Ran
<1> QED
  BY <1>2, <1>4, <1>5, <1>6, <1>7

LEMMA NoneDone ==
  ASSUME NEW count, NoneRan(count)
  PROVE  OnceRan(count) /\ Done(count) = {}
BY DEF NoneRan, OnceRan, Done

LEMMA ScriptsTyped ==
  ASSUME RunTypeOK, NEW q \in Repos
  PROVE  /\ scripts[q] \in Scripts /\ scripts[q].pre \in SUBSET Order
         /\ scripts[q].post \in SUBSET Order
<1>1. scripts[q] \in Scripts
  BY MultiRepoRunAssumption DEF RunTypeOK
<1> QED
  BY <1>1 DEF Scripts

LEMMA EnabledTyped ==
  ASSUME RunTypeOK, p \in Repos, NEW kind \in {"pre", "post"}
  PROVE  Enabled(kind) \in SUBSET Order
BY ScriptsTyped DEF Enabled

\* A step that leaves a repository's rows and scripts alone.
LEMMA AllRanStays ==
  ASSUME job' = job, NEW q, scripts'[q] = scripts[q], row'[q] = row[q],
         pres'[q] = pres[q], posts'[q] = posts[q]
  PROVE  (AllRan(q)' <=> AllRan(q)) /\ (BackupRan(q)' <=> BackupRan(q))
<1>1. PreRan(q)' <=> PreRan(q)
  BY DEF PreRan
<1>2. BackupRan(q)' <=> BackupRan(q)
  BY <1>1 DEF BackupRan
<1> QED
  BY <1>2 DEF AllRan

\* What the run tries of its scripts, if none of them was deleted.
LEMMA TriesFirsts ==
  ASSUME RunTypeOK, NEW kind, NEW which \in Tried(kind)
  PROVE  /\ which \in SUBSET Order
         /\ run.todo \subseteq Enabled(kind) => which \in Firsts(run.todo)
<1>1. run.todo \in SUBSET Order
  BY RunTyped DEF RunType
<1>2. PICK last \in run.todo, lost \in SUBSET (run.todo \ Enabled(kind)) :
         which = {k \in run.todo : k <= last} \ lost
  BY DEF Tried
<1>3. run.todo \subseteq Enabled(kind) => which = {k \in run.todo : k <= last}
  BY <1>2
<1> QED
  BY <1>1, <1>2, <1>3 DEF Firsts

-----------------------------------------------------------------------------
(* What each step keeps. *)

LEMMA EarlyKeeps ==
  ASSUME RunInv, RunNow \/ Start \/ PreScript
  PROVE  RunInv'
<1> USE DEF RunInv
<1>1. /\ run.pc \in Early /\ p = 1 /\ run'.at = p /\ run'.skip = run.skip /\ run' \in RunType
      /\ \/ run'.pc \in {"queued", "turn", "pre", "aborted"}
         \/ run'.pc = "ended" /\ job = Gone
      /\ run'.seen = Stale \/ (run'.seen = job /\ job # Gone) \/ run'.seen = run.seen
  <2>1. CASE RunNow
    BY <2>1, Goes DEF RunNow, At, Places, Place, Early, Awaiting
  <2>2. CASE Start
    <3>1. job = Gone \/ job \in Flags
      BY DEF RunTypeOK
    <3>2. CASE job = Gone
      BY <2>2, <3>2, Goes DEF Start, At, Places, Place, Early, Awaiting, Over
    <3>3. CASE job # Gone
      BY <2>2, <3>1, <3>3, Goes DEF Start, At, Places, Place, Early, Awaiting, Over
    <3> QED
      BY <3>2, <3>3
  <2>3. CASE PreScript
    BY <2>3, Goes, Typed DEF PreScript, At, Places, Place, Early, Awaiting, Over
  <2> QED
    BY <2>1, <2>2, <2>3
<1>2. /\ job' = job /\ repos' = repos /\ scripts' = scripts /\ row' = row /\ child' = child
      /\ maint' = maint /\ pres' = pres /\ posts' = posts /\ postRan' = postRan
      /\ edits' = edits /\ failedCommits' = failedCommits
  BY DEF RunNow, Start, PreScript, Others
<1>3. RunTypeOK'
  BY <1>1, <1>2 DEF RunTypeOK, RunType, Places
<1>4. Place'
  BY <1>1, <1>2, Typed DEF Place, Early, InTurn, p, Untouched
<1>5. Session'
  BY <1>1, <1>2 DEF Session, Early
<1>6. Counts'
  BY <1>1, <1>2 DEF Counts, p
<1>7. Progress'
  BY <1>1, <1>2, Typed DEF Progress, Undeleted, Served, Serving, Early, p, Repos, Place
<1>8. HooksRun'
  BY <1>1, <1>2, Typed DEF HooksRun, Undeleted, Running, Early, p, Repos
<1> QED
  BY <1>3, <1>4, <1>5, <1>6, <1>7, <1>8

LEMMA TurnsLeft ==
  ASSUME RunInv, TurnWithoutSchedule \/ TurnWithoutRepository \/ TurnFails
  PROVE  RunInv'
<1> USE DEF RunInv
<1>1. /\ run.pc = "turn" /\ p \in Repos /\ p <= N
      /\ run'.seen = run.seen /\ run'.skip = run.skip /\ run' \in RunType
      /\ OnTo(run.seen) \/ At("dead", run.seen)
  <2>1. run.pc = "turn" /\ (Raise \/ Die)
    BY DEF TurnWithoutSchedule, TurnWithoutRepository, TurnFails
  <2>2. p \in Repos /\ p <= N
    BY <2>1, Typed DEF Place, InTurn, Repos
  <2> QED
    BY <2>1, <2>2, Raises, Dies DEF OnTo, At
<1>2. /\ job' = job /\ repos' = repos /\ scripts' = scripts /\ child' = child
      /\ maint' = maint /\ pres' = pres /\ posts' = posts /\ postRan' = postRan
      /\ edits' = edits
  BY DEF TurnWithoutSchedule, TurnWithoutRepository, TurnFails, Others
<1>3. /\ failedCommits \in Nat /\ failedCommits' \in 0..MaxFailedCommits
      /\ job = Gone \/ p \notin repos \/ failedCommits' = failedCommits + 1
      /\ row' = row \/ (row' = [row EXCEPT ![p] = "open"] /\ At("dead", run.seen))
  BY MultiRepoRunAssumption, Dies
  DEF TurnWithoutSchedule, TurnWithoutRepository, TurnFails, RunTypeOK, CommitFails
<1>4. RunTypeOK'
  BY <1>1, <1>2, <1>3 DEF RunTypeOK, RunType, Places
<1>5. ~Undeleted'
  BY <1>1, <1>2, <1>3 DEF Undeleted
<1>6. Place'
  BY <1>1, <1>2, <1>3, Typed DEF Place, Early, InTurn, p, Untouched, OnTo, At, RunTypeOK, Repos
<1>7. Session'
  BY <1>1, <1>2 DEF Session, OnTo, At
<1>8. Counts'
  BY <1>1, <1>2 DEF Counts, OnTo, At
<1>9. Progress' /\ HooksRun'
  BY <1>5 DEF Progress, HooksRun
<1> QED
  BY <1>4, <1>6, <1>7, <1>8, <1>9

LEMMA TurnKeeps ==
  ASSUME RunInv, Turn
  PROVE  RunInv'
<1> USE DEF RunInv
<1>1. /\ run.pc = "turn" /\ p \in Repos /\ p <= N /\ job # Gone /\ p \in repos
      /\ job \in Flags /\ job.hooks \in BOOLEAN
  BY Typed DEF Turn, Place, InTurn, Repos, RunTypeOK, Flags
<1>2. /\ run'.todo = (IF job.hooks THEN scripts[p].pre ELSE {})
      /\ run'.pc = (IF run'.todo # {} THEN "repoPre" ELSE "backup")
      /\ run'.seen = job /\ run'.at = p /\ run'.skip = job.hooks /\ run' \in RunType
  <2>1. run \in RunType /\ {"repoPre", "backup"} \subseteq Places
    BY RunTyped DEF Places, Awaiting
  <2>2. Enabled("pre") = scripts[p].pre /\ scripts[p].pre \in SUBSET Order
    BY <1>1, ScriptsTyped DEF Enabled
  <2> QED
    BY <1>1, <2>1, <2>2 DEF Turn, RunType, p
<1>3. /\ job' = job /\ repos' = repos /\ scripts' = scripts /\ child' = child
      /\ maint' = maint /\ pres' = pres /\ posts' = posts /\ postRan' = postRan
      /\ edits' = edits /\ failedCommits' = failedCommits
      /\ row' = [row EXCEPT ![p] = "open"]
  BY DEF Turn, Others
<1>4. RunTypeOK'
  BY <1>2, <1>3 DEF RunTypeOK, RunType, Places
<1>5. row'[p] = "open" /\ \A q \in Repos : q # p => row'[q] = row[q]
  BY <1>1, <1>3 DEF RunTypeOK
<1>6. Untouched(p) /\ \A q \in Repos : q > p => Untouched(q)
  BY <1>1 DEF Place
<1>7. Place'
  BY <1>1, <1>2, <1>3, <1>5, <1>6, Typed DEF Place, Early, InTurn, p, Untouched, Repos
<1>8. Session'
  BY <1>1, <1>2, <1>3 DEF Session
<1>9. Counts'
  BY <1>1, <1>2, <1>3, <1>6 DEF Counts, p, Untouched
<1>10. Undeleted' => Undeleted
  BY <1>1, <1>3, <1>5, <1>6 DEF Undeleted, Untouched
<1>11. Progress'
  BY <1>1, <1>2, <1>3, <1>5, <1>6, <1>10, Typed
  DEF Progress, Served, Serving, Maintains, p, Repos, Untouched
<1>12. HooksRun'
  <2>1. SUFFICES ASSUME Undeleted, edits = 0, NEW q \in Repos
                 PROVE  (q < p => AllRan(q)') /\ (q = p => Running(q)')
    BY <1>2, <1>3, <1>10 DEF HooksRun, p
  <2>2. q < p => AllRan(q)'
    BY <2>1, <1>1, <1>3, <1>5, Typed, AllRanStays DEF HooksRun, Repos
  <2>3. Done(pres[p]) = {}
    BY <1>6, NoneDone DEF Untouched
  <2>4. job.hooks /\ scripts[p].pre = {} => Done(pres[p]) \in Firsts(scripts[p].pre)
    BY <2>3 DEF Firsts
  <2>5. q = p => Running(q)'
    BY <2>4, <1>1, <1>2, <1>3 DEF Running, PreRan
  <2> QED
    BY <2>2, <2>5
<1> QED
  BY <1>4, <1>7, <1>8, <1>9, <1>11, <1>12

\* A step in the turn of a repository whose place is known.
LEMMA Here ==
  ASSUME RunInv, run.pc \in InTurn
  PROVE  /\ p \in Repos /\ p <= N /\ run \in RunType
         /\ run.seen \in Flags \cup {Stale} /\ run.skip \in BOOLEAN
         /\ \A q \in Repos : q > p => Untouched(q)
         /\ postRan = 0
  BY Typed, RunTyped DEF RunInv, Place, Repos, InTurn

LEMMA RepoPreKeeps ==
  ASSUME RunInv, RepoPre
  PROVE  RunInv'
<1> USE DEF RunInv
<1>1. run.pc = "repoPre" /\ run.pc \in InTurn
  BY DEF RepoPre, InTurn
<1>2. /\ At(IF row[p] = "gone" THEN "afterBackup" ELSE "backup", run.seen) /\ run' \in RunType
  BY <1>1, Here, Goes DEF RepoPre, Places, Awaiting
<1>3. /\ job' = job /\ repos' = repos /\ scripts' = scripts /\ child' = child
      /\ maint' = maint /\ row' = row /\ posts' = posts /\ postRan' = postRan
      /\ edits' = edits /\ failedCommits' = failedCommits
  BY DEF RepoPre, Others
<1>4. NoneRan(pres[p]) /\ run.skip /\ NoneRan(posts[p])
  BY <1>1 DEF Counts
<1>5. /\ pres' \in [Repos -> [Order -> 0..2]] /\ OnceRan(pres'[p])
      /\ \A q \in Repos : q # p => pres'[q] = pres[q]
      /\ run.todo \subseteq Enabled("pre") => Done(pres'[p]) \in Firsts(run.todo)
  <2>1. PICK which \in Tried("pre") : pres' = Ran(pres, which)
    BY DEF RepoPre
  <2>2. which \in SUBSET Order /\ pres \in [Repos -> [Order -> 0..2]] /\ p \in Repos
    BY <1>1, Here, TriesFirsts DEF RunTypeOK
  <2>3. OnceRan(pres[p])
    BY <1>4, NoneDone
  <2> QED
    BY <1>4, <2>1, <2>2, <2>3, RanAdds, TriesFirsts
<1>6. RunTypeOK'
  BY <1>2, <1>3, <1>5 DEF RunTypeOK, RunType, Places
<1>7. Place'
  BY <1>1, <1>2, <1>3, <1>5, Here DEF Place, Early, InTurn, p, Untouched, At, Repos
<1>8. Session'
  BY <1>1, <1>2, <1>3 DEF Session, At
<1>9. Counts'
  BY <1>1, <1>2, <1>3, <1>4, <1>5, Here, NoneDone DEF Counts, At, p
<1>10. Undeleted' => Undeleted
  BY <1>3 DEF Undeleted
<1>11. Progress'
  BY <1>1, <1>2, <1>3, <1>10, Here DEF Progress, Served, Serving, Maintains, At, p, Undeleted
<1>12. HooksRun'
  <2>1. SUFFICES ASSUME Undeleted, edits = 0, NEW q \in Repos
                 PROVE  (q < p => AllRan(q)') /\ (q = p => Running(q)')
    BY <1>2, <1>3, <1>10 DEF HooksRun, At, p
  <2>2. q < p => AllRan(q)'
    BY <2>1, <1>1, <1>3, <1>5, Here, Typed, AllRanStays DEF HooksRun, Repos
  <2>3. job.hooks /\ run.todo = scripts[p].pre /\ p \in repos
    BY <2>1, <1>1, Here DEF HooksRun, Running, Undeleted
  <2>4. Done(pres'[p]) \in Firsts(scripts[p].pre)
    BY <2>3, <1>5 DEF Enabled
  <2>5. row[p] # "gone"
    BY <2>1, <1>1, Here DEF Undeleted
  <2>6. q = p => Running(q)'
    BY <2>3, <2>4, <2>5, <1>2, <1>3 DEF Running, PreRan, At
  <2> QED
    BY <2>2, <2>6
<1> QED
  BY <1>6, <1>7, <1>8, <1>9, <1>11, <1>12

LEMMA BackupKeeps ==
  ASSUME RunInv, HooksBefore \/ BackupRefused
  PROVE  RunInv'
<1> USE DEF RunInv
<1>1. /\ run.pc = "backup" /\ run.pc \in InTurn /\ row[p] \in {"open", "failure"}
      /\ run.skip \/ NoneRan(pres[p])
      /\ NoneRan(posts[p])
  BY DEF HooksBefore, BackupRefused, InTurn, Counts
<1>2. /\ \/ At("borg", Stale) /\ HooksBefore /\ row' = row
         \/ At("afterBackup", Stale) /\ row' = [row EXCEPT ![p] = "failure"]
      /\ run' \in RunType
  BY <1>1, Here, Goes DEF HooksBefore, BackupRefused, Places, Awaiting
<1>3. /\ job' = job /\ repos' = repos /\ scripts' = scripts /\ child' = child
      /\ maint' = maint /\ posts' = posts /\ postRan' = postRan
      /\ edits' = edits /\ failedCommits' = failedCommits
  BY DEF HooksBefore, BackupRefused, Others
<1>4. /\ pres' \in [Repos -> [Order -> 0..2]] /\ OnceRan(pres'[p])
      /\ \A q \in Repos : q # p => pres'[q] = pres[q]
      /\ run.skip => pres'[p] = pres[p]
      /\ run'.pc = "borg" /\ p \in repos /\ ~run.skip => Done(pres'[p]) = scripts[p].pre
  <2>1. /\ pres \in [Repos -> [Order -> 0..2]] /\ p \in Repos /\ OnceRan(pres[p])
        /\ run.skip \in BOOLEAN
    BY <1>1, Here DEF RunTypeOK, Counts
  <2>2. CASE UNCHANGED pres /\ run'.pc # "borg"
    BY <2>1, <2>2
  <2>3. CASE pres' = Ran(pres, RunsHooks("pre"))
    <3>1. RunsHooks("pre") = (IF run.skip THEN {} ELSE Enabled("pre"))
      BY DEF RunsHooks
    <3>2. RunsHooks("pre") \in SUBSET Order
      BY <2>1, <3>1, EnabledTyped
    <3>3. p \in repos => Enabled("pre") = scripts[p].pre
      BY DEF Enabled
    <3>4. /\ Ran(pres, RunsHooks("pre")) \in [Repos -> [Order -> 0..2]]
          /\ \A q \in Repos : q # p => Ran(pres, RunsHooks("pre"))[q] = pres[q]
          /\ NoneRan(pres[p]) =>
               /\ OnceRan(Ran(pres, RunsHooks("pre"))[p])
               /\ Done(Ran(pres, RunsHooks("pre"))[p]) = RunsHooks("pre")
          /\ RunsHooks("pre") = {} => Ran(pres, RunsHooks("pre"))[p] = pres[p]
      BY <2>1, <3>2, RanAdds
    <3>5. CASE run.skip
      BY <2>1, <2>3, <3>1, <3>4, <3>5
    <3>6. CASE ~run.skip
      BY <1>1, <2>3, <3>1, <3>3, <3>4, <3>6
    <3> QED
      BY <3>5, <3>6
  <2> QED
    BY <1>2, <2>2, <2>3 DEF HooksBefore, BackupRefused, At
<1>6. /\ row'[p] \in {"open", "failure"} /\ (run'.pc = "afterBackup" => row'[p] = "failure")
      /\ row' \in [Repos -> {"none", "open", "gone"} \cup Results]
      /\ \A q \in Repos : q # p => row'[q] = row[q]
  BY <1>1, <1>2, Here DEF At, RunTypeOK, Results
<1>5. RunTypeOK'
  BY <1>2, <1>3, <1>4, <1>6 DEF RunTypeOK, RunType, Places
<1>7. Place'
  BY <1>1, <1>2, <1>3, <1>4, <1>6, Here DEF Place, Early, InTurn, p, Untouched, At, Repos
<1>8. Session'
  BY <1>1, <1>2, <1>3 DEF Session, At
<1>9. Counts'
  BY <1>1, <1>2, <1>3, <1>4, <1>6, Here, NoneDone DEF Counts, At, p
<1>10. Undeleted' => Undeleted
  BY <1>1, <1>3, <1>6, Here DEF Undeleted
<1>11. Progress'
  BY <1>1, <1>2, <1>3, <1>6, <1>10, Here
  DEF Progress, Served, Serving, Maintains, At, p, Repos, Results
<1>12. HooksRun'
  <2>1. SUFFICES ASSUME Undeleted, edits = 0, NEW q \in Repos
                 PROVE  (q < p => AllRan(q)') /\ (q = p => Running(q)')
    BY <1>2, <1>3, <1>10 DEF HooksRun, At, p
  <2>2. q < p => AllRan(q)'
    BY <2>1, <1>1, <1>3, <1>4, <1>6, Here, AllRanStays DEF HooksRun, Repos
  <2>3. p \in repos /\ run.skip = job.hooks /\ (run.skip => PreRan(p))
    BY <2>1, <1>1, Here DEF Undeleted, Session, HooksRun, Running
  <2>4. run'.pc = "borg" \/ job.hooks => PreRan(p)'
    <3>1. p' = p
      BY <1>2 DEF At, p
    <3>2. CASE job.hooks
      BY <2>3, <3>1, <3>2, <1>3, <1>4 DEF PreRan
    <3>3. CASE ~job.hooks
      BY <2>3, <3>1, <3>3, <1>3, <1>4 DEF PreRan
    <3> QED
      BY <3>2, <3>3
  <2>5. Done(posts[p]) = {} /\ posts'[p] = posts[p] /\ "failure" \notin Good
    BY <1>1, <1>3, NoneDone DEF Good
  <2>6. run'.pc = "afterBackup" => BackupRan(p)'
    BY <2>4, <2>5, <1>2, <1>3, <1>6 DEF BackupRan, At, p
  <2>7. q = p => Running(q)'
    BY <2>4, <2>5, <2>6, <1>1, <1>2, <1>3 DEF Running, At, p
  <2> QED
    BY <2>2, <2>7
<1> QED
  BY <1>5, <1>7, <1>8, <1>9, <1>11, <1>12

LEMMA BackupLostKeeps ==
  ASSUME RunInv, BackupLost
  PROVE  RunInv'
<1> USE DEF RunInv
<1>1. /\ run.pc \in {"backup", "borg"} /\ run.pc \in InTurn /\ row[p] = "gone" /\ NoneRan(posts[p])
  BY DEF BackupLost, InTurn, Counts
<1>2. At("afterBackup", Stale) /\ run' \in RunType
  BY <1>1, Here, Goes DEF BackupLost, Places
<1>3. /\ job' = job /\ repos' = repos /\ scripts' = scripts /\ row' = row /\ child' = child
      /\ maint' = maint /\ pres' = pres /\ posts' = posts /\ postRan' = postRan
      /\ edits' = edits /\ failedCommits' = failedCommits
  BY DEF BackupLost, Others
<1>4. RunTypeOK'
  BY <1>2, <1>3 DEF RunTypeOK, RunType, Places
<1>5. Place'
  BY <1>1, <1>2, <1>3, Here DEF Place, Early, InTurn, p, Untouched, At, Repos
<1>6. Session'
  BY <1>1, <1>2, <1>3 DEF Session, At
<1>7. Counts'
  BY <1>1, <1>2, <1>3, NoneDone DEF Counts, At, p
<1>8. ~Undeleted'
  BY <1>1, <1>3, Here DEF Undeleted
<1>9. Progress' /\ HooksRun'
  BY <1>8 DEF Progress, HooksRun
<1> QED
  BY <1>4, <1>5, <1>6, <1>7, <1>9

LEMMA BackupDoneKeeps ==
  ASSUME RunInv, BackupDone
  PROVE  RunInv'
<1> USE DEF RunInv
<1>1. /\ run.pc = "borg" /\ run.pc \in InTurn /\ row[p] \in {"open", "failure"}
      /\ NoneRan(posts[p])
  BY DEF BackupDone, InTurn, Counts
<1>2. At("afterBackup", Stale) /\ run' \in RunType
  BY <1>1, Here, Goes DEF BackupDone, Places
<1>3. /\ job' = job /\ repos' = repos /\ scripts' = scripts /\ child' = child
      /\ maint' = maint /\ pres' = pres /\ postRan' = postRan
      /\ edits' = edits /\ failedCommits' = failedCommits
  BY DEF BackupDone, Others
<1>4. PICK how \in Results :
          LET which == {k \in RunsHooks("post") : ShouldRun(scripts[p].runOn[k], how)}
          IN  /\ posts' = Ran(posts, which) \/ (how = "failure" /\ UNCHANGED posts)
              /\ \E end \in {how} \cup (IF which = {} THEN {} ELSE {"failure"}) :
                    row' = [row EXCEPT ![p] = end]
  BY DEF BackupDone
<1> DEFINE which == {k \in RunsHooks("post") : ShouldRun(scripts[p].runOn[k], how)}
<1>5. PICK end \in {how, "failure"} : row' = [row EXCEPT ![p] = end]
  BY <1>4
<1>6. /\ row' \in [Repos -> {"none", "open", "gone"} \cup Results] /\ row'[p] = end
      /\ end \in Results /\ \A q \in Repos : q # p => row'[q] = row[q]
  BY <1>1, <1>5, Here DEF RunTypeOK, Results
<1>7. /\ which \in SUBSET Order /\ (run.skip => which = {})
      /\ ~run.skip /\ p \in repos => which = Asking(scripts[p], how)
  <2>1. p \in Repos
    BY <1>1, Here
  <2>2. RunsHooks("post") = (IF run.skip THEN {} ELSE Enabled("post"))
    BY DEF RunsHooks
  <2>3. p \in repos => Enabled("post") = scripts[p].post
    BY DEF Enabled
  <2>4. RunsHooks("post") \in SUBSET Order
    BY <2>1, <2>2, EnabledTyped
  <2> QED
    BY <2>2, <2>3, <2>4 DEF ShouldRun, Asking
<1>8. /\ posts' \in [Repos -> [Order -> 0..2]] /\ OnceRan(posts'[p])
      /\ run.skip => NoneRan(posts'[p])
      /\ \A q \in Repos : q # p => posts'[q] = posts[q]
      /\ Done(posts'[p]) = which \/ (how = "failure" /\ Done(posts'[p]) = {})
  <2>1. posts \in [Repos -> [Order -> 0..2]] /\ p \in Repos
    BY <1>1, Here DEF RunTypeOK
  <2>2. OnceRan(posts[p]) /\ Done(posts[p]) = {}
    BY <1>1, NoneDone
  <2>3. CASE UNCHANGED posts /\ how = "failure"
    BY <1>1, <2>1, <2>2, <2>3
  <2>4. CASE posts' = Ran(posts, which)
    <3> HIDE DEF which
    <3> QED
      BY <1>1, <1>7, <2>1, <2>2, <2>4, RanAdds
  <2> QED
    BY <1>4, <2>3, <2>4
<1> HIDE DEF which
<1>9. RunTypeOK'
  BY <1>2, <1>3, <1>6, <1>8 DEF RunTypeOK, RunType, Places
<1>10. Place'
  BY <1>1, <1>2, <1>3, <1>6, <1>8, Here DEF Place, Early, InTurn, p, Untouched, At, Repos
<1>11. Session'
  BY <1>1, <1>2, <1>3 DEF Session, At
<1>12. Counts'
  BY <1>1, <1>2, <1>3, <1>8, Here DEF Counts, At, p
<1>13. Undeleted' => Undeleted
  BY <1>1, <1>3, <1>6, Here DEF Undeleted
<1>14. Progress'
  BY <1>1, <1>2, <1>3, <1>6, <1>13, Here
  DEF Progress, Served, Serving, Maintains, At, p, Repos
<1>15. HooksRun'
  <2>1. SUFFICES ASSUME Undeleted, edits = 0, NEW q \in Repos
                 PROVE  (q < p => AllRan(q)') /\ (q = p => Running(q)')
    BY <1>2, <1>3, <1>13 DEF HooksRun, At, p
  <2>2. q < p => AllRan(q)'
    BY <2>1, <1>1, <1>3, <1>6, <1>8, Here, AllRanStays DEF HooksRun, Repos
  <2>3. p \in repos /\ run.skip = job.hooks /\ PreRan(p)
    BY <2>1, <1>1, Here DEF Undeleted, Session, HooksRun, Running
  <2>4. BackupRan(p)' /\ (run.skip => NoneRan(posts'[p]))
    <3>1. p' = p /\ job' = job /\ scripts' = scripts /\ row'[p] = end
      BY <1>2, <1>3, <1>6 DEF At, p
    <3>2. PreRan(p)'
      BY <2>3, <3>1, <1>3 DEF PreRan
    <3>3. ASSUME ~job.hooks
          PROVE  Done(posts'[p]) = Asking(scripts[p], how) \/ (how = "failure" /\ Done(posts'[p]) = {})
      BY <1>7, <1>8, <2>3, <3>3
    <3>4. end \in Good => end = how /\ how # "failure"
      BY <1>5 DEF Good
    <3> QED
      BY <3>1, <3>2, <3>3, <3>4, <1>8 DEF BackupRan
  <2>5. q = p => Running(q)'
    BY <2>4, <1>2 DEF Running, At, p
  <2> QED
    BY <2>2, <2>5
<1> QED
  BY <1>9, <1>10, <1>11, <1>12, <1>14, <1>15

\* What the session holds when it reads the schedule.
LEMMA HeldNow ==
  ASSUME RunInv
  PROVE  /\ Held = Gone \/ Held \in Flags
         /\ job # Gone => Held # Gone
         /\ edits = 0 /\ job # Gone => Held = job
         /\ Held # Gone => Held.hooks \in BOOLEAN /\ Held.post \in BOOLEAN
                             /\ Held.prune \in BOOLEAN /\ Held.compact \in BOOLEAN
<1>1. Held = Gone \/ Held \in Flags
  BY DEF Held, RunInv, RunTypeOK
<1>2. Held # Gone => Held.hooks \in BOOLEAN /\ Held.post \in BOOLEAN
                       /\ Held.prune \in BOOLEAN /\ Held.compact \in BOOLEAN
  BY <1>1 DEF Flags
<1> QED
  BY <1>1, <1>2 DEF Held, RunInv, Session

LEMMA AfterBackupKeeps ==
  ASSUME RunInv, AfterBackup
  PROVE  RunInv'
<1> USE DEF RunInv
<1>1. /\ run.pc = "afterBackup" /\ run.pc \in InTurn
      /\ OnceRan(posts[p])
      /\ edits = 0 => NoneRan(posts[p]) \/ (run.seen = Stale /\ ~run.skip)
  BY DEF AfterBackup, InTurn, Counts
<1>2. /\ job' = job /\ repos' = repos /\ scripts' = scripts /\ row' = row /\ child' = child
      /\ maint' = maint /\ pres' = pres /\ posts' = posts /\ postRan' = postRan
      /\ edits' = edits /\ failedCommits' = failedCommits
  BY DEF AfterBackup, Others
<1>3. Undeleted' <=> Undeleted
  BY <1>2 DEF Undeleted
<1>4. CASE /\ Held # Gone /\ Held \in Flags
           /\ IF Held.hooks /\ Enabled("post") # {}
              THEN Load("repoPost", Held, Enabled("post")) ELSE Goto("maintain", Held)
  <2>1. /\ IF Held.hooks /\ Enabled("post") # {}
           THEN At("repoPost", Held) /\ run'.todo = Enabled("post") ELSE At("maintain", Held)
        /\ run' \in RunType
    <3>1. Enabled("post") \in SUBSET Order /\ {"repoPost", "maintain"} \subseteq Places
      BY <1>1, Here, EnabledTyped DEF Places, Awaiting
    <3> QED
      BY <1>4, <3>1, Goes, Loads
  <2>2. RunTypeOK'
    BY <1>2, <2>1 DEF RunTypeOK, RunType, Places
  <2>3. Place'
    BY <1>1, <1>2, <2>1, Here DEF Place, Early, InTurn, p, Untouched, At, Repos
  <2>4. Session'
    BY <1>1, <1>2, <1>4, <2>1, HeldNow DEF Session, At
  <2>5. Counts'
    <3>1. edits = 0 /\ run'.pc = "repoPost" => NoneRan(posts[p])
      BY <1>1, <1>4, <2>1, HeldNow DEF Session, At, Held
    <3> QED
      BY <1>1, <1>2, <2>1, <3>1 DEF Counts, At, p
  <2>6. Progress'
    BY <1>1, <1>2, <1>3, <2>1, Here DEF Progress, Served, Serving, Maintains, At, p, Repos
  <2>7. HooksRun'
    <3>1. SUFFICES ASSUME Undeleted, edits = 0, NEW q \in Repos
                   PROVE  (q < p => AllRan(q)') /\ (q = p => Running(q)')
      BY <2>1, <1>2, <1>3 DEF HooksRun, At, p
    <3>2. q < p => AllRan(q)'
      BY <3>1, <1>2, AllRanStays DEF HooksRun
    <3>3. job # Gone /\ Held = job /\ run.skip = job.hooks
      BY <3>1, <1>1, HeldNow DEF Undeleted, Session
    <3>4. Enabled("post") = scripts[p].post
      BY <3>1, <1>1, Here DEF Enabled, Undeleted
    <3>5. BackupRan(p) /\ (run.skip => NoneRan(posts[p]))
      BY <3>1, <1>1, Here DEF HooksRun, Running
    <3>6. BackupRan(p)' /\ p' = p
      BY <3>5, <2>1, <1>2, AllRanStays DEF At, p
    <3>7. job.hooks /\ scripts[p].post = {} => Done(posts[p]) \in Firsts(scripts[p].post)
      BY <3>3, <3>5, NoneDone DEF Firsts
    <3>8. q = p => Running(q)'
      BY <3>3, <3>4, <3>6, <3>7, <2>1, <1>2 DEF Running, AllRan, At
    <3> QED
      BY <3>2, <3>8
  <2> QED
    BY <2>2, <2>3, <2>4, <2>5, <2>6, <2>7
<1>5. CASE ~(/\ Held # Gone /\ Held \in Flags
             /\ IF Held.hooks /\ Enabled("post") # {}
                THEN Load("repoPost", Held, Enabled("post")) ELSE Goto("maintain", Held))
  <2>1. \/ Die /\ p \notin repos
        \/ Raise /\ Held = Gone
        \/ NextTurn(Held) /\ row[p] = "gone" /\ Held # Gone /\ Held \in Flags
    BY <1>5, HeldNow DEF AfterBackup
  <2>2. ~Undeleted'
    BY <1>1, <1>3, <2>1, Here, HeldNow DEF Undeleted
  <2>3. run' \in RunType /\ (OnTo(run.seen) \/ At("dead", run.seen) \/ (OnTo(Held) /\ Held # Gone))
    BY <1>1, <2>1, Here, Dies, Raises, Turns
  <2>4. RunTypeOK'
    BY <1>2, <2>3 DEF RunTypeOK, RunType, Places
  <2>5. Place'
    BY <1>1, <1>2, <2>3, Here, Typed DEF Place, Early, InTurn, p, Untouched, At, OnTo, Repos
  <2>6. Session'
    BY <1>1, <1>2, <2>3, HeldNow DEF Session, At, OnTo
  <2>7. Counts'
    BY <1>1, <1>2, <2>3 DEF Counts, At, OnTo
  <2> QED
    BY <2>2, <2>4, <2>5, <2>6, <2>7 DEF Progress, HooksRun
<1> QED
  BY <1>4, <1>5

LEMMA RepoPostKeeps ==
  ASSUME RunInv, RepoPost
  PROVE  RunInv'
<1> USE DEF RunInv
<1>1. /\ run.pc = "repoPost" /\ run.pc \in InTurn
      /\ OnceRan(posts[p]) /\ (edits = 0 => NoneRan(posts[p]))
  BY DEF RepoPost, InTurn, Counts
<1>2. /\ run' \in RunType
      /\ \/ OnTo(run.seen) /\ row[p] = "gone"
         \/ At("maintain", run.seen)
  BY <1>1, Here, Goes, Turns DEF RepoPost, Places
<1>3. /\ job' = job /\ repos' = repos /\ scripts' = scripts /\ row' = row /\ child' = child
      /\ maint' = maint /\ pres' = pres /\ postRan' = postRan
      /\ edits' = edits /\ failedCommits' = failedCommits
  BY DEF RepoPost, Others
<1>4. /\ posts' \in [Repos -> [Order -> 0..2]]
      /\ \A q \in Repos : q # p => posts'[q] = posts[q]
      /\ edits = 0 => OnceRan(posts'[p])
      /\ edits = 0 /\ run.todo \subseteq Enabled("post") => Done(posts'[p]) \in Firsts(run.todo)
  <2>1. PICK which \in Tried("post") : posts' = Ran(posts, which)
    BY DEF RepoPost
  <2>2. which \in SUBSET Order /\ posts \in [Repos -> [Order -> 0..2]] /\ p \in Repos
    BY <1>1, Here, TriesFirsts DEF RunTypeOK
  <2> QED
    BY <1>1, <2>1, <2>2, RanAdds, TriesFirsts
<1>5. edits \in Nat
  BY MultiRepoRunAssumption DEF RunTypeOK
<1>6. RunTypeOK'
  BY <1>2, <1>3, <1>4 DEF RunTypeOK, RunType, Places
<1>7. Place'
  BY <1>1, <1>2, <1>3, <1>4, Here, Typed DEF Place, Early, InTurn, p, Untouched, At, OnTo, Repos
<1>8. Session'
  BY <1>1, <1>2, <1>3 DEF Session, At, OnTo
<1>9. Counts'
  BY <1>1, <1>2, <1>3, <1>4, <1>5 DEF Counts, At, OnTo
<1>10. Undeleted' => Undeleted /\ At("maintain", run.seen)
  BY <1>1, <1>2, <1>3, Here DEF Undeleted
<1>11. Progress'
  BY <1>1, <1>2, <1>3, <1>10, Here DEF Progress, Served, Serving, Maintains, At, p, Repos
<1>12. HooksRun'
  <2>1. SUFFICES ASSUME Undeleted, edits = 0, At("maintain", run.seen), NEW q \in Repos
                 PROVE  (q < p => AllRan(q)') /\ (q = p => Running(q)')
    BY <1>3, <1>10 DEF HooksRun, At, p
  <2>2. q < p => AllRan(q)'
    BY <2>1, <1>1, <1>3, <1>4, Here, AllRanStays DEF HooksRun, Repos
  <2>3. BackupRan(p) /\ job.hooks /\ run.todo = scripts[p].post /\ p \in repos
    BY <2>1, <1>1, Here DEF HooksRun, Running, Undeleted
  <2>4. Done(posts'[p]) \in Firsts(scripts[p].post)
    BY <2>1, <2>3, <1>4 DEF Enabled
  <2>5. BackupRan(p)' /\ p' = p
    BY <2>1, <2>3, <1>3 DEF BackupRan, PreRan, At, p
  <2>6. q = p => Running(q)'
    BY <2>1, <2>4, <2>5, <1>3 DEF Running, AllRan, At
  <2> QED
    BY <2>2, <2>6
<1> QED
  BY <1>6, <1>7, <1>8, <1>9, <1>11, <1>12

\* A step of the prunes and compacts of repository u.
Maintaining == {"maintain", "prune", "afterPrune", "compact"}

LEMMA MaintenanceKeeps ==
  ASSUME RunInv, run.pc \in Maintaining, NEW u \in Repos, u = p,
         UNCHANGED <<Others, row, pres, posts, postRan>>,
         failedCommits' \in 0..MaxFailedCommits,
         failedCommits' = failedCommits \/ failedCommits' = failedCommits + 1,
         child' \in {"none", "open", "gone"},
         maint' \in [Repos -> {"none", "running", "done", "failed"}],
         \A q \in Repos : q # p => maint'[q] = maint[q],
         NEW seen, seen = Stale \/ seen # Gone,
         edits = 0 /\ job # Gone => seen \in {Stale, job},
         run' \in RunType,
         \/ OnTo(seen) /\ child' = "none" /\ (Undeleted' => Served(u)')
         \/ /\ At(run'.pc, seen) /\ run'.pc \in {"prune", "compact", "afterPrune"}
            /\ child' = "none" \/ run'.pc # "afterPrune"
            /\ Undeleted' => Serving(u)'
         \/ At("dead", seen) /\ (Undeleted' => child' = "gone")
  PROVE  RunInv'
<1> USE DEF RunInv
<1>1. run.pc \in InTurn
  BY DEF Maintaining, InTurn
<1>2. /\ job' = job /\ repos' = repos /\ scripts' = scripts /\ edits' = edits
      /\ row' = row /\ pres' = pres /\ posts' = posts /\ postRan' = postRan
  BY DEF Others
<1>3. RunTypeOK'
  BY <1>2 DEF RunTypeOK, RunType, Places
<1>4. Place'
  BY <1>1, <1>2, Here, Typed DEF Place, Early, InTurn, p, Untouched, At, OnTo, Repos
<1>5. Session'
  BY <1>1, <1>2 DEF Session, At, OnTo
<1>6. Counts'
  BY <1>1, <1>2 DEF Counts, At, OnTo
<1>7. Undeleted' => Undeleted
  BY <1>2 DEF Undeleted, RunTypeOK
<1>8. Progress'
  <2>1. SUFFICES ASSUME Undeleted, Undeleted'
                 PROVE  /\ run'.pc = "dead" => child' = "gone"
                        /\ \A q \in Repos : (q < p' => Served(q)') /\ (q = p' => Serving(q)')
                        /\ run'.pc # "ended"
    BY <1>7 DEF Progress
  <2>2. \A q \in Repos : q < p => Served(q)'
    BY <2>1, <1>1, <1>2, Here DEF Progress, Served, Maintains, Repos
  <2>3. CASE OnTo(seen)
    <3>1. run'.pc \in {"finish", "turn"} /\ p' = p + 1
      BY <2>3 DEF OnTo, p
    <3>2. \A q \in Repos : q = p' => Serving(q)'
      BY <3>1 DEF Serving
    <3>3. \A q \in Repos : q < p' => q < p \/ q = u
      BY <3>1, <1>1, Here DEF Repos
    <3>4. Served(u)'
      BY <2>1, <2>3, <3>1 DEF At
    <3> QED
      BY <2>2, <3>1, <3>2, <3>3, <3>4
  <2>4. CASE At(run'.pc, seen)
    <3>1. p' = p
      BY <2>4 DEF At, p
    <3>2. CASE run'.pc = "dead"
      BY <2>1, <2>2, <2>4, <3>1, <3>2, <1>1, Here, Typed DEF OnTo, At, Serving, Repos
    <3>3. CASE run'.pc # "dead"
      BY <2>1, <2>2, <2>4, <3>1, <3>3, <1>1, Here, Typed DEF OnTo, At, Repos
    <3> QED
      BY <3>2, <3>3
  <2> QED
    BY <2>3, <2>4 DEF At
<1>9. HooksRun'
  <2>1. SUFFICES ASSUME Undeleted, edits = 0, NEW q \in Repos
                 PROVE  (q < p' => AllRan(q)') /\ (q = p' => Running(q)')
    BY <1>2, <1>7 DEF HooksRun
  <2>2. q <= p => AllRan(q)
    BY <2>1, <1>1, Here DEF HooksRun, Running, Maintaining, Repos
  <2>3. AllRan(q)' <=> AllRan(q)
    BY <1>2, AllRanStays
  <2>4. q < p' => q <= p
    BY <1>1, Here DEF OnTo, At, p, Repos
  <2>5. run'.pc \in {"prune", "compact", "afterPrune"} => p' = p
    BY DEF At, OnTo, p
  <2>6. q = p' => Running(q)'
    BY <2>2, <2>3, <2>5, <1>1, Here DEF At, OnTo, Running, Repos
  <2> QED
    BY <2>2, <2>3, <2>4, <2>6
<1> QED
  BY <1>3, <1>4, <1>5, <1>6, <1>8, <1>9

\* The schedule that is held at such a step.
LEMMA SeenNow ==
  ASSUME RunInv
  PROVE  /\ run.seen = Stale \/ run.seen # Gone
         /\ edits = 0 /\ job # Gone => run.seen \in {Stale, job}
  BY DEF RunInv, Session

LEMMA Settled ==
  ASSUME RunTypeOK, NEW u \in Repos, u = p, NEW how \in {"running", "done", "failed"},
         Settle(how)
  PROVE  /\ maint' \in [Repos -> {"none", "running", "done", "failed"}] /\ maint'[u] = how
         /\ \A q \in Repos : q # p => maint'[q] = maint[q]
  BY DEF RunTypeOK, Settle

LEMMA GoesOn ==
  ASSUME RunTypeOK, p <= N, NEW pc, GoOn(pc)
  PROVE  /\ run' \in RunType
         /\ (pc = "prune" /\ At("afterPrune", Stale)) \/ (pc # "prune" /\ OnTo(Stale))
  BY Goes, Turns DEF GoOn, Places

LEMMA FailsKeeps ==
  ASSUME RunInv, run.pc \in Maintaining, NEW u \in Repos, u = p, NEW pc, Fails(pc),
         UNCHANGED <<Others, row, pres, posts, postRan>>, child' = "none"
  PROVE  RunInv'
<1> USE DEF RunInv
<1>1. p <= N
  BY Here DEF Maintaining, InTurn
<1>2. failedCommits' = failedCommits + 1 /\ failedCommits' \in 0..MaxFailedCommits
  BY MultiRepoRunAssumption DEF Fails, CommitFails, RunTypeOK
<1>3. ~Undeleted'
  BY <1>2 DEF Undeleted, RunTypeOK
<1>4. CASE Die /\ UNCHANGED maint
  BY <1>2, <1>3, <1>4, Dies, SeenNow, MaintenanceKeeps DEF RunTypeOK
<1>5. CASE Settle("failed") /\ GoOn(pc)
  <2>1. /\ run' \in RunType
        /\ OnTo(Stale) \/ At("afterPrune", Stale)
    BY <1>1, <1>5, GoesOn
  <2>2. /\ maint' \in [Repos -> {"none", "running", "done", "failed"}]
        /\ \A q \in Repos : q # p => maint'[q] = maint[q]
    BY <1>5, Settled
  <2>3. CASE OnTo(Stale)
    BY <1>2, <1>3, <2>1, <2>2, <2>3, MaintenanceKeeps
  <2>4. CASE At("afterPrune", Stale)
    <3>1. run'.pc = "afterPrune"
      BY <2>4 DEF At
    <3> QED
      BY <1>2, <1>3, <2>1, <2>2, <2>4, <3>1, MaintenanceKeeps
  <2> QED
    BY <2>1, <2>3, <2>4
<1> QED
  BY <1>4, <1>5 DEF Fails

LEMMA StartChildKeeps ==
  ASSUME RunInv, run.pc \in Maintaining, NEW u \in Repos, u = p,
         NEW pc \in {"prune", "compact"}, StartChild(pc),
         UNCHANGED <<Others, row, pres, posts, postRan>>, child = "none",
         Undeleted => row[u] \in Good /\ (edits = 0 => Maintains)
  PROVE  RunInv'
<1>1. CASE Fails(pc) /\ UNCHANGED child
  BY <1>1, FailsKeeps
<1>2. CASE child' = "open" /\ Settle("running") /\ Goto(pc, Stale) /\ UNCHANGED failedCommits
  <2> USE DEF RunInv
  <2>1. At(pc, Stale) /\ run' \in RunType /\ run'.pc = pc
    BY <1>2, Goes DEF Places, Awaiting, At
  <2>2. /\ maint' \in [Repos -> {"none", "running", "done", "failed"}]
        /\ \A q \in Repos : q # p => maint'[q] = maint[q]
    BY <1>2, Settled
  <2>3. failedCommits' \in 0..MaxFailedCommits /\ failedCommits' = failedCommits
    BY <1>2 DEF RunTypeOK
  <2>4. Undeleted' => Serving(u)'
    BY <1>2, <2>1 DEF Undeleted, Serving, Others, Maintains
  <2> QED
    BY <1>2, <2>1, <2>2, <2>3, <2>4, MaintenanceKeeps
<1> QED
  BY <1>1, <1>2 DEF StartChild

LEMMA MaintainKeeps ==
  ASSUME RunInv, Maintain
  PROVE  RunInv'
<1> USE DEF RunInv
<1>1. PICK u \in Repos : u = p
  BY Here DEF Maintain, InTurn
<1>2. /\ run.pc = "maintain" /\ run.pc \in Maintaining /\ run.pc \in InTurn
      /\ UNCHANGED <<Others, row, pres, posts, postRan>>
      /\ child = "none"
      /\ edits = 0 /\ job # Gone => run.seen = job
      /\ Undeleted => Serving(u)
  BY <1>1, Here DEF Maintain, Maintaining, InTurn, Place, Session, Progress
<1>3. CASE row[p] \notin Good \/ ~(run.seen.prune \/ run.seen.compact)
  <2>1. OnTo(run.seen) /\ run' \in RunType /\ UNCHANGED <<child, maint, failedCommits>>
    BY <1>2, <1>3, Here, Turns DEF Maintain
  <2>2. Undeleted' => Undeleted
    BY <1>2, <2>1 DEF Undeleted, Others
  <2>3. Undeleted' => Served(u)'
    BY <1>1, <1>2, <1>3, <2>1, <2>2 DEF Served, Serving, Maintains, Undeleted, Others
  <2> QED
    BY <1>1, <1>2, <2>1, <2>3, SeenNow, MaintenanceKeeps DEF RunTypeOK
<1>4. CASE /\ ~(row[p] \notin Good \/ ~(run.seen.prune \/ run.seen.compact))
           /\ p \notin repos
  <2>1. At("dead", run.seen) /\ run' \in RunType /\ UNCHANGED <<child, maint, failedCommits>>
    BY <1>4, Dies DEF Maintain
  <2>2. ~Undeleted'
    BY <1>1, <1>2, <1>4 DEF Undeleted, Others
  <2> QED
    BY <1>1, <1>2, <2>1, <2>2, SeenNow, MaintenanceKeeps DEF RunTypeOK
<1>5. CASE /\ ~(row[p] \notin Good \/ ~(run.seen.prune \/ run.seen.compact))
           /\ p \in repos
  <2>1. StartChild(IF run.seen.prune THEN "prune" ELSE "compact")
    BY <1>5 DEF Maintain
  <2>2. Undeleted => row[u] \in Good /\ (edits = 0 => Maintains)
    BY <1>1, <1>2, <1>5 DEF Undeleted, Maintains
  <2> QED
    BY <1>1, <1>2, <2>1, <2>2, StartChildKeeps
<1> QED
  BY <1>3, <1>4, <1>5

LEMMA PruneEndsKeeps ==
  ASSUME RunInv, PruneEnds
  PROVE  RunInv'
<1> USE DEF RunInv
<1>1. PICK u \in Repos : u = p
  BY Here DEF PruneEnds, InTurn
<1>2. /\ run.pc = "prune" /\ run.pc \in Maintaining /\ run.pc \in InTurn
      /\ UNCHANGED <<Others, row, pres, posts, postRan, failedCommits>>
      /\ Undeleted => Serving(u)
  BY <1>1, Here DEF PruneEnds, Maintaining, InTurn, Progress
<1>3. Undeleted' => Undeleted
  BY <1>2 DEF Undeleted, Others
<1>4. PICK how \in {"done", "failed"} :
          IF "gone" \in {row[p], child} \/ (how = "done" /\ job = Gone)
          THEN Die /\ UNCHANGED <<child, maint>>
          ELSE Settle(how) /\ GoOn("prune") /\ child' = "none"
  BY DEF PruneEnds
<1>5. CASE "gone" \in {row[p], child} \/ (how = "done" /\ job = Gone)
  <2>1. At("dead", run.seen) /\ run' \in RunType /\ UNCHANGED <<child, maint>>
    BY <1>4, <1>5, Dies
  <2>2. Undeleted' => child' = "gone"
    BY <1>1, <1>3, <1>5, <2>1 DEF Undeleted
  <2> QED
    BY <1>1, <1>2, <2>1, <2>2, SeenNow, MaintenanceKeeps DEF RunTypeOK
<1>6. CASE ~("gone" \in {row[p], child} \/ (how = "done" /\ job = Gone))
  <2>1. At("afterPrune", Stale) /\ run' \in RunType /\ run'.pc = "afterPrune"
    BY <1>2, <1>4, <1>6, Here, GoesOn DEF At
  <2>2. /\ maint' \in [Repos -> {"none", "running", "done", "failed"}] /\ maint'[u] = how
        /\ \A q \in Repos : q # p => maint'[q] = maint[q]
    BY <1>1, <1>4, <1>6, Settled
  <2>3. Undeleted' => Serving(u)'
    BY <1>2, <1>3, <2>1, <2>2 DEF Serving, Maintains, Others
  <2> QED
    BY <1>1, <1>2, <1>4, <1>6, <2>1, <2>2, <2>3, MaintenanceKeeps DEF RunTypeOK
<1> QED
  BY <1>5, <1>6

LEMMA AfterPruneKeeps ==
  ASSUME RunInv, AfterPrune
  PROVE  RunInv'
<1> USE DEF RunInv
<1>1. PICK u \in Repos : u = p
  BY Here DEF AfterPrune, InTurn
<1>2. /\ run.pc = "afterPrune" /\ run.pc \in Maintaining /\ run.pc \in InTurn
      /\ UNCHANGED <<Others, row, pres, posts, postRan>>
      /\ child = "none"
      /\ Undeleted => Serving(u)
  BY <1>1, Here DEF AfterPrune, Maintaining, InTurn, Place, Progress
<1>3. CASE Held = Gone
  <2>1. /\ OnTo(run.seen) \/ At("dead", run.seen)
        /\ run' \in RunType /\ UNCHANGED <<child, maint, failedCommits>>
    BY <1>2, <1>3, Here, Raises DEF AfterPrune
  <2>2. ~Undeleted'
    BY <1>2, <1>3, HeldNow DEF Undeleted, Others
  <2> QED
    BY <1>1, <1>2, <2>1, <2>2, SeenNow, MaintenanceKeeps DEF RunTypeOK
<1>4. CASE Held # Gone /\ Held.compact
  <2>1. StartChild("compact")
    BY <1>4 DEF AfterPrune
  <2>2. Undeleted => row[u] \in Good /\ (edits = 0 => Maintains)
    BY <1>2 DEF Serving
  <2> QED
    BY <1>1, <1>2, <2>1, <2>2, StartChildKeeps
<1>5. CASE Held # Gone /\ ~Held.compact
  <2>1. OnTo(Held) /\ run' \in RunType /\ UNCHANGED <<child, maint, failedCommits>>
    BY <1>2, <1>5, Here, HeldNow, Turns DEF AfterPrune
  <2>2. Undeleted' => Undeleted
    BY <1>2, <2>1 DEF Undeleted, Others
  <2>3. Undeleted' => Served(u)'
    BY <1>2, <2>1, <2>2 DEF Served, Serving, Maintains, Others, Good, Results
  <2> QED
    BY <1>1, <1>2, <1>5, <2>1, <2>3, HeldNow, MaintenanceKeeps DEF RunTypeOK
<1> QED
  BY <1>3, <1>4, <1>5

LEMMA CompactEndsKeeps ==
  ASSUME RunInv, CompactEnds
  PROVE  RunInv'
<1> USE DEF RunInv
<1>1. PICK u \in Repos : u = p
  BY Here DEF CompactEnds, InTurn
<1>2. /\ run.pc = "compact" /\ run.pc \in Maintaining /\ run.pc \in InTurn
      /\ UNCHANGED <<Others, row, pres, posts, postRan, failedCommits>>
      /\ child' = "none"
      /\ Undeleted => Serving(u)
  BY <1>1, Here DEF CompactEnds, Maintaining, InTurn, Progress
<1>3. Undeleted' => Undeleted
  BY <1>2 DEF Undeleted, Others
<1>4. PICK how \in {"done", "failed"} :
          IF row[p] = "gone" \/ (how = "done" /\ job = Gone) \/ p \notin repos
          THEN Die /\ UNCHANGED maint
          ELSE Settle(how) /\ GoOn("compact")
  BY DEF CompactEnds
<1>5. CASE row[p] = "gone" \/ (how = "done" /\ job = Gone) \/ p \notin repos
  <2>1. At("dead", run.seen) /\ run' \in RunType /\ UNCHANGED maint
    BY <1>4, <1>5, Dies
  <2>2. ~Undeleted'
    BY <1>1, <1>3, <1>5 DEF Undeleted
  <2> QED
    BY <1>1, <1>2, <2>1, <2>2, SeenNow, MaintenanceKeeps DEF RunTypeOK
<1>6. CASE ~(row[p] = "gone" \/ (how = "done" /\ job = Gone) \/ p \notin repos)
  <2>1. OnTo(Stale) /\ run' \in RunType
    BY <1>2, <1>4, <1>6, Here, GoesOn
  <2>2. /\ maint' \in [Repos -> {"none", "running", "done", "failed"}] /\ maint'[u] = how
        /\ \A q \in Repos : q # p => maint'[q] = maint[q]
    BY <1>1, <1>4, <1>6, Settled
  <2>3. Undeleted' => Served(u)'
    BY <1>2, <1>3, <2>2 DEF Served, Serving, Maintains, Others, Good, Results
  <2> QED
    BY <1>1, <1>2, <2>1, <2>2, <2>3, MaintenanceKeeps DEF RunTypeOK
<1> QED
  BY <1>5, <1>6

LEMMA SettleFailsKeeps ==
  ASSUME RunInv, SettleFails
  PROVE  RunInv'
<1>1. run.pc \in Maintaining /\ run.pc \in InTurn
  BY DEF SettleFails, Maintaining, InTurn
<1>2. PICK u \in Repos : u = p
  BY <1>1, Here
<1> QED
  BY <1>1, <1>2, FailsKeeps DEF SettleFails

LEMMA FinishKeeps ==
  ASSUME RunInv, Finish \/ PostScript
  PROVE  RunInv'
<1> USE DEF RunInv
<1>1. run.pc \in {"finish", "post"} /\ p = N + 1 /\ postRan = 0 /\ N \in Nat
  BY Typed DEF Finish, PostScript, Place
<1>2. /\ job' = job /\ repos' = repos /\ scripts' = scripts /\ row' = row /\ child' = child
      /\ maint' = maint /\ pres' = pres /\ posts' = posts
      /\ edits' = edits /\ failedCommits' = failedCommits
  BY DEF Finish, PostScript, Others
<1>3. /\ run' \in RunType
      /\ \/ At("dead", run.seen) /\ Held = Gone /\ postRan' = 0
         \/ At(IF Held.post THEN "post" ELSE "ended", Held) /\ Held # Gone /\ postRan' = 0
               /\ run.pc = "finish"
         \/ At("ended", run.seen) /\ postRan' \in 0..1 /\ (edits = 0 => postRan' = 1)
               /\ run.pc = "post"
  <2>1. CASE Finish
    <3>1. postRan' = 0 /\ run.pc = "finish"
      BY <1>1, <2>1 DEF Finish
    <3>2. CASE Held = Gone
      BY <2>1, <3>1, <3>2, Dies DEF Finish
    <3>3. CASE Held # Gone
      BY <2>1, <3>1, <3>3, Goes, HeldNow DEF Finish, Places, Awaiting, Over
    <3> QED
      BY <3>2, <3>3
  <2>2. CASE PostScript
    <3>1. edits \in Nat
      BY MultiRepoRunAssumption DEF RunTypeOK
    <3> QED
      BY <2>2, <3>1, Goes, Typed DEF PostScript, Places, Awaiting, Over
  <2> QED
    BY <2>1, <2>2
<1>4. RunTypeOK'
  BY <1>2, <1>3 DEF RunTypeOK, RunType, Places
<1>5. Place'
  BY <1>1, <1>2, <1>3 DEF Place, Early, InTurn, p, Untouched, At, Repos
<1>6. Session'
  BY <1>1, <1>2, <1>3, HeldNow DEF Session, At
<1>7. Counts'
  BY <1>1, <1>2, <1>3 DEF Counts, At
<1>8. Undeleted' => Undeleted
  BY <1>2 DEF Undeleted
<1>9. Progress'
  <2>1. SUFFICES ASSUME Undeleted
                 PROVE  /\ run'.pc # "dead"
                        /\ \A q \in Repos : (q < p' => Served(q)') /\ (q = p' => Serving(q)')
                        /\ run'.pc = "ended" /\ edits = 0 =>
                              postRan' = (IF job.post THEN 1 ELSE 0)
    BY <1>2, <1>8 DEF Progress
  <2>2. p' = p
    BY <1>3 DEF At, p
  <2>3. \A q \in Repos : (q < p' => Served(q)') /\ (q = p' => Serving(q)')
    BY <2>1, <2>2, <1>1, <1>2 DEF Progress, Served, Maintains, Repos
  <2>4. run'.pc # "dead"
    BY <2>1, <1>3, HeldNow DEF Undeleted, At
  <2>5. job.post \in BOOLEAN
    BY <2>1 DEF Undeleted, RunTypeOK, Flags
  <2>6. run'.pc = "ended" /\ edits = 0 => postRan' = (IF job.post THEN 1 ELSE 0)
    BY <2>1, <2>4, <2>5, <1>3, HeldNow DEF Undeleted, At, Session
  <2> QED
    BY <2>3, <2>4, <2>6
<1>10. HooksRun'
  <2>1. SUFFICES ASSUME Undeleted, edits = 0, NEW q \in Repos
                 PROVE  AllRan(q)'
    BY <1>1, <1>2, <1>3, <1>8 DEF HooksRun, At, p, Repos
  <2>2. q < p
    BY <1>1 DEF Repos
  <2> QED
    BY <2>1, <2>2, <1>2, AllRanStays DEF HooksRun
<1> QED
  BY <1>4, <1>5, <1>6, <1>7, <1>9, <1>10

-----------------------------------------------------------------------------
(* What requests keep while the run awaits. *)

\* An edit changes the schedule or the scripts, and is counted.
LEMMA EditKeeps ==
  ASSUME RunInv, Edit, run.pc \in Awaiting, UNCHANGED <<repos, Mine>>,
         job' = job \/ (job # Gone /\ job' \in Flags),
         scripts' \in [Repos -> ScriptSets]
  PROVE  RunInv'
<1> USE DEF RunInv
<1>1. /\ repos' = repos /\ row' = row /\ child' = child /\ maint' = maint /\ run' = run
      /\ pres' = pres /\ posts' = posts /\ postRan' = postRan
      /\ failedCommits' = failedCommits
  BY DEF Mine
<1>2. edits' \in 0..MaxEdits /\ edits' > 0
  BY MultiRepoRunAssumption DEF Edit, RunTypeOK
<1>3. RunTypeOK'
  BY <1>1, <1>2 DEF RunTypeOK
<1>4. Place'
  BY <1>1 DEF Place, Awaiting, p, Untouched
<1>5. Session'
  BY <1>1, <1>2 DEF Session
<1>6. Counts'
  BY <1>1, <1>2 DEF Counts, p
<1>7. Undeleted' => Undeleted
  BY <1>1 DEF Undeleted
<1>8. Progress'
  BY <1>1, <1>2, <1>7 DEF Progress, Served, Serving, p
<1>9. HooksRun'
  BY <1>2 DEF HooksRun
<1> QED
  BY <1>3, <1>4, <1>5, <1>6, <1>8, <1>9

LEMMA EditsKeep ==
  ASSUME RunInv,
         \/ UpdateSchedule \/ DeleteScript
         \/ AssignScript \/ RemoveScript \/ UpdateAssignment \/ UpdateScript
  PROVE  RunInv'
<1>1. CASE UpdateSchedule \/ DeleteScript
  <2>1. job \in Flags \cup {Gone} /\ scripts \in [Repos -> ScriptSets] /\ FlagSets \subseteq Flags
    BY MultiRepoRunAssumption DEF RunInv, RunTypeOK
  <2>2. job' \in Flags
    BY <1>1, <2>1 DEF UpdateSchedule, DeleteScript, Flags
  <2> QED
    BY <1>1, <2>1, <2>2, EditKeeps DEF UpdateSchedule, DeleteScript
<1>2. CASE AssignScript \/ RemoveScript \/ UpdateAssignment
  <2>1. PICK q \in repos : Reassign(q)
    BY <1>2 DEF AssignScript, RemoveScript, UpdateAssignment
  <2>2. scripts' \in [Repos -> ScriptSets]
    BY <2>1 DEF Reassign, RunInv, RunTypeOK
  <2> QED
    BY <2>1, <2>2, EditKeeps DEF Reassign
<1>3. CASE UpdateScript
  BY <1>3, EditKeeps DEF UpdateScript
<1> QED
  BY <1>1, <1>2, <1>3

\* A deletion leaves the run without something it needs, or takes a child's row.
LEMMA DeletionKeeps ==
  ASSUME RunInv, DeleteSchedule \/ DeleteRepository \/ DeleteRow
  PROVE  RunInv'
<1> USE DEF RunInv
<1>1. /\ run.pc \in Awaiting /\ scripts' = scripts /\ edits' = edits
      /\ maint' = maint /\ run' = run
      /\ pres' = pres /\ posts' = posts /\ postRan' = postRan
      /\ failedCommits' = failedCommits
  BY DEF DeleteSchedule, DeleteRepository, DeleteRow, Mine, Others
<1>2. /\ job' = job \/ (job # Gone /\ job' = Gone)
      /\ repos' \subseteq repos
      /\ row' \in [Repos -> {"none", "open", "gone"} \cup Results]
      /\ \A q \in Repos : row'[q] = row[q] \/ (row[q] # "none" /\ row'[q] = "gone")
      /\ child' = child \/ (child = "open" /\ child' = "gone")
  <2>1. CASE DeleteSchedule
    BY <2>1 DEF DeleteSchedule, Mine, RunTypeOK
  <2>2. CASE DeleteRepository
    BY <2>2 DEF DeleteRepository, RunTypeOK
  <2>3. CASE DeleteRow
    <3>1. job' = job /\ repos' = repos
      BY <2>3 DEF DeleteRow, Others
    <3>2. CASE UNCHANGED row
      BY <2>3, <3>1, <3>2 DEF DeleteRow, RunTypeOK
    <3>3. CASE UNCHANGED child /\ \E q \in Repos :
                  /\ row[q] \in Results \/ (row[q] = "open" /\ run.pc = "repoPre")
                  /\ row' = [row EXCEPT ![q] = "gone"]
      BY <3>1, <3>3 DEF RunTypeOK, Results
    <3> QED
      BY <2>3, <3>2, <3>3 DEF DeleteRow
  <2> QED
    BY <2>1, <2>2, <2>3
<1>3. RunTypeOK'
  BY <1>1, <1>2 DEF RunTypeOK
<1>4. Place'
  BY <1>1, <1>2 DEF Place, Awaiting, p, Untouched
<1>5. Session'
  BY <1>1, <1>2 DEF Session
<1>6. Counts'
  BY <1>1 DEF Counts, p
<1>7. Undeleted' => Undeleted /\ row' = row /\ job' = job
  <2>1. Undeleted' => job' = job /\ \A q \in Repos : row'[q] = row[q]
    BY <1>2 DEF Undeleted
  <2>2. (\A q \in Repos : row'[q] = row[q]) => row' = row
    BY <1>2 DEF RunTypeOK
  <2> QED
    BY <1>1, <1>2, <2>1, <2>2 DEF Undeleted, RunTypeOK
<1>8. Progress'
  BY <1>1, <1>7 DEF Progress, Served, Serving, Maintains, Awaiting, p
<1>9. HooksRun'
  <2>1. SUFFICES ASSUME Undeleted, edits = 0, row' = row, job' = job, NEW q \in Repos
                 PROVE  (q < p => AllRan(q)') /\ (q = p => Running(q)')
    BY <1>1, <1>7 DEF HooksRun, p
  <2>2. (AllRan(q)' <=> AllRan(q)) /\ (BackupRan(q)' <=> BackupRan(q))
    BY <2>1, <1>1, AllRanStays
  <2> QED
    BY <2>1, <2>2, <1>1 DEF HooksRun, Running, PreRan, p
<1> QED
  BY <1>3, <1>4, <1>5, <1>6, <1>8, <1>9

LEMMA CancelKeeps ==
  ASSUME RunInv, CancelBackup
  PROVE  RunInv'
<1> USE DEF RunInv
<1>1. /\ run.pc \in {"backup", "borg"} /\ run.pc \in InTurn /\ row[p] = "open"
      /\ row' = [row EXCEPT ![p] = "failure"]
      /\ job' = job /\ repos' = repos /\ scripts' = scripts /\ edits' = edits
      /\ child' = child /\ maint' = maint /\ run' = run
      /\ pres' = pres /\ posts' = posts /\ postRan' = postRan
      /\ failedCommits' = failedCommits
  BY DEF CancelBackup, Others, InTurn
<1>2. row'[p] = "failure" /\ \A q \in Repos : q # p => row'[q] = row[q]
  BY <1>1, Here DEF RunTypeOK
<1>3. RunTypeOK'
  BY <1>1 DEF RunTypeOK, Results
<1>4. Place'
  BY <1>1, <1>2, Here DEF Place, Early, p, Untouched, Repos
<1>5. Session'
  BY <1>1 DEF Session
<1>6. Counts'
  BY <1>1 DEF Counts, p
<1>7. Undeleted' => Undeleted
  BY <1>1, <1>2 DEF Undeleted
<1>8. Progress'
  BY <1>1, <1>2, <1>7, Here DEF Progress, Served, Serving, Maintains, p, Repos
<1>9. HooksRun'
  <2>1. SUFFICES ASSUME Undeleted, edits = 0, NEW q \in Repos
                 PROVE  (q < p => AllRan(q)') /\ (q = p => Running(q)')
    BY <1>1, <1>7 DEF HooksRun, p
  <2>2. q < p => AllRan(q)'
    BY <2>1, <1>1, <1>2, Here, AllRanStays DEF HooksRun, Repos
  <2> QED
    BY <2>1, <2>2, <1>1 DEF HooksRun, Running, PreRan, p
<1> QED
  BY <1>3, <1>4, <1>5, <1>6, <1>8, <1>9

-----------------------------------------------------------------------------
LEMMA RunStarts == RunInit => RunInv
<1> SUFFICES ASSUME RunInit
             PROVE  RunInv
  OBVIOUS
<1>1. run = [pc |-> "idle", at |-> 1, seen |-> Stale, skip |-> FALSE, todo |-> {}] /\ p = 1
  BY DEF RunInit, p
<1>2. /\ {pres, posts} \subseteq [Repos -> [Order -> 0..2]]
      /\ \A q \in Repos : NoneRan(pres[q]) /\ NoneRan(posts[q])
      /\ \A q \in Repos : OnceRan(pres[q]) /\ OnceRan(posts[q])
  BY DEF RunInit, NoneRan, OnceRan
<1>3. 1 \in 1..(N + 1)
  BY MultiRepoRunAssumption
<1>4. RunTypeOK
  BY <1>1, <1>2, <1>3, MultiRepoRunAssumption DEF RunInit, RunTypeOK
<1>5. Place /\ Session /\ Counts
  <2>1. Place
    BY <1>1, <1>2, MultiRepoRunAssumption DEF RunInit, Place, Early, InTurn, Untouched
  <2>2. Session /\ Counts
    BY <1>1, <1>2 DEF RunInit, Session, Counts
  <2> QED
    BY <2>1, <2>2
<1>6. Progress /\ HooksRun
  BY <1>1 DEF Progress, Serving, HooksRun, Running, Repos
<1> QED
  BY <1>4, <1>5, <1>6 DEF RunInv

LEMMA RunStutters ==
  ASSUME RunInv, UNCHANGED runVars
  PROVE  RunInv'
<1>1. RunTypeOK'
  BY DEF RunInv, RunTypeOK, runVars
<1>2. Place' /\ Session' /\ Counts'
  BY DEF RunInv, Place, Untouched, Session, Counts, runVars, p
<1>3. Progress'
  BY DEF RunInv, Progress, Undeleted, Served, Serving, Maintains, runVars, p
<1>4. HooksRun'
  BY AllRanStays DEF RunInv, HooksRun, Undeleted, PreRan, Running, runVars, p
<1> QED
  BY <1>1, <1>2, <1>3, <1>4 DEF RunInv

\* execute_multi_repo_schedule, whatever is edited, cancelled and deleted at its awaits and
\* whichever of its commits fail, keeps what RunInv says of its session, its place, its
\* rows and its scripts.
THEOREM RunInvariant == RunSpec => []RunInv
<1>1. RunInv /\ [RunNext]_runVars => RunInv'
  <2> SUFFICES ASSUME RunInv, [RunNext]_runVars
               PROVE  RunInv'
    OBVIOUS
  <2> QED
    BY EarlyKeeps, TurnsLeft, TurnKeeps, RepoPreKeeps, BackupKeeps, BackupDoneKeeps,
       BackupLostKeeps, AfterBackupKeeps, RepoPostKeeps, MaintainKeeps, PruneEndsKeeps,
       AfterPruneKeeps, CompactEndsKeeps, SettleFailsKeeps, FinishKeeps, EditsKeep,
       DeletionKeeps, CancelKeeps, RunStutters
    DEF RunNext
<1> QED
  BY <1>1, RunStarts, PTL DEF RunSpec

\* For any number of repositories: a run that nothing was deleted under, and whose commits
\* went through, has backed every one of them up, marked what it maintained with how that
\* ended, and run the schedule's post script.
THEOREM CompleteRuns == RunSpec => []RunIsComplete
<1>1. RunInv => RunIsComplete
  <2> SUFFICES ASSUME RunInv, run.pc \in Over, run.pc # "aborted", Undisturbed
               PROVE  /\ run.pc = "ended"
                      /\ \A q \in Repos : Served(q)
                      /\ edits = 0 => postRan = (IF job.post THEN 1 ELSE 0)
    BY DEF RunIsComplete, Served, Maintains
  <2>1. Undeleted /\ child # "gone"
    BY DEF Undisturbed, Undeleted
  <2>2. run.pc = "ended" /\ p = N + 1
    BY <2>1 DEF RunInv, Progress, Place, Over, Undeleted
  <2>3. \A q \in Repos : q < p
    BY <2>2, MultiRepoRunAssumption DEF Repos
  <2> QED
    BY <2>1, <2>2, <2>3 DEF RunInv, Progress
<1> QED
  BY <1>1, RunInvariant, PTL

\* For any number of repositories and of scripts of theirs: the run and the backup never both
\* run the scripts of a repository that nobody edits meanwhile, and in an undisturbed run
\* one of them does, the run up to one that fails, the backup by their conditions.
THEOREM HooksRunOnce == RunSpec => []HooksOnce
<1>1. RunInv => HooksOnce
  <2> SUFFICES ASSUME RunInv
               PROVE  HooksOnce
    OBVIOUS
  <2>1. \A q \in Repos, k \in Order : pres[q][k] <= 1 /\ (posts[q][k] <= 1 \/ edits > 0)
    BY DEF RunInv, Counts, OnceRan
  <2>2. ASSUME run.pc = "ended", Undisturbed, edits = 0, NEW q \in Repos
        PROVE  AllRan(q)
    <3>1. Undeleted
      BY <2>2 DEF Undisturbed, Undeleted
    <3>2. q < p
      BY <2>2, <3>1, MultiRepoRunAssumption DEF RunInv, Place, Undeleted, Repos
    <3> QED
      BY <2>2, <3>1, <3>2 DEF RunInv, HooksRun
  <2> QED
    BY <2>1, <2>2 DEF HooksOnce, AllRan, BackupRan, PreRan, Good
<1> QED
  BY <1>1, RunInvariant, PTL
=============================================================================
