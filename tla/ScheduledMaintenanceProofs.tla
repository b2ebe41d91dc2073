---------------------- MODULE ScheduledMaintenanceProofs ----------------------
(***************************************************************************)
(* For any number of chains, any plans, deletions and locked commits:      *)
(* what the backup row says of its maintenance, and that a child row keeps *)
(* the promises of JobLifecycle.                                           *)
(*                                                                         *)
(* HonestMaintenance is not inductive: a stage starts its child whatever   *)
(* the backup row says of that kind, and Finish trusts whatever Settle has *)
(* left there. One must know which rows a chain can have made by the stage *)
(* it is in, that only its own chain touches a row between two awaits, and *)
(* that a cancel request waits for a child that was running.               *)
(***************************************************************************)
EXTENDS ScheduledMaintenance, FiniteSetTheorems, WellFoundedInduction, TLAPS

Over      == EndedStatus \cup {"deleted"}
Positive  == {"completed", "cancelled", "deleted"}
Begun(s)  == s \notin {"absent", "pending"}
Lost(c, k) == <<c, k>> \in lost

\* What the rows of kind k say, by the place of their chain.
ChildInv(c, k) ==
  /\ pc[c].stage = "backup" => child[c][k] = "absent"
  /\ pc[c].stage = k =>
       /\ k \in plan[c]
       /\ maint[c] # "maintenance_completed"
       /\ pc[c].at = "create" => child[c][k] = "absent"
       /\ pc[c].at \in {"mark", "start"} => child[c][k] = "pending"
       /\ pc[c].at = "retry" => child[c][k] \in {"pending", "deleted"}
       /\ pc[c].at \in {"spawn", "wait"} => child[c][k] \in {"pending", "running"} \cup Over
       /\ pc[c].at = "settle" => child[c][k] \in Over \/ Lost(c, k)
       /\ pc[c].at \in {"start", "retry", "spawn", "wait", "settle"} => maint[c] # Completed(k)
  /\ up /\ child[c][k] = "running" =>
       Lost(c, k) \/ (pc[c].stage = k /\ pc[c].at \in {"spawn", "wait"})
  /\ maint[c] = Completed(k) => child[c][k] \in Positive

ChainInv(c) ==
  /\ pc[c].stage = "backup" => maint[c] = "none"
  /\ pc[c].stage = "prune" => child[c]["compact"] = "absent"
  /\ pc[c].stage = "finish" => maint[c] \in {"none", Failed(LastKind(c)), Completed(LastKind(c))}
  /\ maint[c] = "maintenance_completed" =>
       pc[c].stage = "done" /\ child[c][LastKind(c)] \in Positive
  /\ ~up => pc[c].stage = "done"
  /\ canceller[c] # Nowhere => pc[c].stage # "backup"
  /\ \A k \in Kinds : ChildInv(c, k)

\* A request waits for a child that was running when it came.
Awaited ==
  \A c \in Chains : canceller[c] # Nowhere =>
    /\ canceller[c].target \in Chains
    /\ Begun(child[canceller[c].target][canceller[c].kind])

Inv == TypeOK /\ Awaited /\ \A c \in Chains : ChainInv(c)

-----------------------------------------------------------------------------
(* Names, and what a commit does. *)

LEMMA Names ==
  ASSUME NEW k \in Kinds
  PROVE  /\ {Running(k), Completed(k), Failed(k)} \subseteq MaintStatus
         /\ \A m \in {Running(k), Completed(k), Failed(k)} :
              m # "none" /\ m # "maintenance_completed"
         /\ \A l \in Kinds : /\ Running(k) # Completed(l) /\ Running(k) # Failed(l)
                             /\ Failed(k) # Completed(l)
                             /\ Completed(k) = Completed(l) => k = l
                             /\ Running(k) = Running(l) => k = l
  BY DEF Kinds, Running, Completed, Failed, MaintStatus

ChildStatus == {"absent", "deleted", "pending", "running"} \cup EndedStatus

LEMMA SetMaintAt ==
  ASSUME TypeOK, NEW c \in Chains, NEW m \in MaintStatus, SetMaint(c, m)
  PROVE  /\ maint' \in [Chains -> MaintStatus]
         /\ maint'[c] = IF backup[c] = "deleted" THEN maint[c] ELSE m
         /\ \A d \in Chains \ {c} : maint'[d] = maint[d]
  BY DEF TypeOK, SetMaint

LEMMA SetChildAt ==
  ASSUME TypeOK, NEW c \in Chains, NEW k \in Kinds, NEW s \in ChildStatus,
         child' = [child EXCEPT ![c][k] = s]
  PROVE  /\ child' \in [Chains -> [Kinds -> ChildStatus]]
         /\ child'[c][k] = s
         /\ \A l \in Kinds \ {k} : child'[c][l] = child[c][l]
         /\ \A d \in Chains \ {c} : child'[d] = child[d]
  BY DEF TypeOK, ChildStatus

LEMMA SetsChildAt ==
  ASSUME TypeOK, NEW c \in Chains, NEW k \in Kinds, NEW s \in ChildStatus, SetChild(c, k, s)
  PROVE  /\ child' \in [Chains -> [Kinds -> ChildStatus]]
         /\ child'[c][k] = IF child[c][k] = "deleted" THEN "deleted" ELSE s
         /\ \A l \in Kinds \ {k} : child'[c][l] = child[c][l]
         /\ \A d \in Chains \ {c} : child'[d] = child[d]
  BY DEF TypeOK, ChildStatus, SetChild

Stages == {"backup", "finish", "done"} \cup Kinds

LEMMA GoToAt ==
  ASSUME TypeOK, NEW c \in Chains, NEW s \in Stages, NEW p \in Position, GoTo(c, s, p)
  PROVE  /\ pc' \in [Chains -> [stage : Stages, at : Position]]
         /\ pc'[c].stage = s /\ pc'[c].at = p
         /\ \A d \in Chains \ {c} : pc'[d] = pc[d]
  BY DEF TypeOK, Stages, GoTo

\* Only the chain that is in a segment runs.
LEMMA AloneInSegment ==
  ASSUME NEW c \in Chains, NEW d \in Chains \ {c}, MayStep(c) \/ LoopFree
  PROVE  ~InSegment(d)
  BY DEF MayStep, LoopFree

LEMMA NextStageFits ==
  ASSUME TypeOK, NEW c \in Chains, NEW s \in {"backup", "prune", "compact"}
  PROVE  /\ NextStage(c, s) \in {"prune", "compact", "finish"}
         /\ NextStage(c, s) \in Kinds => NextStage(c, s) \in plan[c]
         /\ s = "prune" => NextStage(c, s) # "prune"
         /\ s = "compact" => NextStage(c, s) = "finish"
         /\ NextStage(c, s) = "finish" /\ s \in plan[c] => s = LastKind(c)
         /\ LastKind(c) \in Kinds
  <1>1. plan[c] \in SUBSET {"prune", "compact"}
    BY SetupsAssumption DEF TypeOK, plan
  <1> QED
    BY <1>1 DEF NextStage, LastKind, Kinds

-----------------------------------------------------------------------------
(* The abstract lifecycle. *)

PhaseAt(c, k) == PhaseOf(child[c][k])
Holds(c, k)   == pc[c].stage = k /\ pc[c].at # "create"

\* The moves of one row that JobLifecycle knows.
AbstractMove(c, k) ==
  \/ /\ UNCHANGED lost
     /\ \/ PhaseAt(c, k)' = PhaseAt(c, k) /\ (Holds(c, k)' <=> Holds(c, k))
        \/ PhaseAt(c, k) = "absent" /\ PhaseAt(c, k)' = "queued" /\ Holds(c, k)'
        \/ /\ PhaseAt(c, k) = "queued" /\ PhaseAt(c, k)' = "active"
           /\ Holds(c, k) /\ Holds(c, k)'
        \/ /\ PhaseAt(c, k) \in {"queued", "active"} /\ PhaseAt(c, k)' = "ended"
           /\ Holds(c, k) \/ Lost(c, k)
           /\ Holds(c, k)' <=> Holds(c, k)
        \/ /\ PhaseAt(c, k) \in {"ended", "removed"} /\ PhaseAt(c, k)' = PhaseAt(c, k)
           /\ Holds(c, k) /\ ~Holds(c, k)'
        \/ /\ PhaseAt(c, k) \in {"queued", "ended"} /\ PhaseAt(c, k)' = "removed"
           /\ (Holds(c, k)' <=> Holds(c, k))
  \/ /\ lost' = lost \cup {<<c, k>>}
     /\ Holds(c, k) /\ PhaseAt(c, k)' = PhaseAt(c, k)

\* Nothing that the lifecycle sees of another row changes.
OnlyRow(c, k) ==
  \A d \in Chains, l \in Kinds : <<d, l>> # <<c, k>> =>
    PhaseAt(d, l)' = PhaseAt(d, l) /\ (Holds(d, l)' <=> Holds(d, l))

LEMMA MoveIsAbstract ==
  ASSUME NEW c \in Chains, NEW k \in Kinds, up, up', OnlyRow(c, k), AbstractMove(c, k)
  PROVE  [Lifecycle!AbsNext]_(Lifecycle!avars)
  <1> DEFINE Rows == Chains \X Kinds
             j == <<c, k>>
             phaseBar == [i \in Rows |-> PhaseOf(child[i[1]][i[2]])]
             heldBar  == {i \in Rows : pc[i[1]].stage = i[2] /\ pc[i[1]].at # "create"}
  <1>1. j \in Rows /\ phaseBar[j] = PhaseAt(c, k) /\ (j \in heldBar <=> Holds(c, k))
    BY DEF PhaseAt, Holds
  <1>2. \A i \in Rows \ {j} : phaseBar'[i] = phaseBar[i] /\ (i \in heldBar' <=> i \in heldBar)
    BY DEF OnlyRow, PhaseAt, Holds
  <1>3. phaseBar'[j] = PhaseAt(c, k)' /\ (j \in heldBar' <=> Holds(c, k)')
    BY DEF PhaseAt, Holds
  <1>4. /\ DOMAIN phaseBar = Rows /\ DOMAIN phaseBar' = Rows
        /\ phaseBar = [i \in Rows |-> phaseBar[i]] /\ phaseBar' = [i \in Rows |-> phaseBar'[i]]
        /\ heldBar \subseteq Rows /\ heldBar' \subseteq Rows
    OBVIOUS
  <1> HIDE DEF phaseBar, heldBar, j, Rows
  <1>5. phaseBar' = [phaseBar EXCEPT ![j] = PhaseAt(c, k)']
    BY <1>1, <1>2, <1>3, <1>4
  <1>6. heldBar' = IF Holds(c, k)' THEN heldBar \cup {j} ELSE heldBar \ {j}
    BY <1>1, <1>2, <1>3, <1>4
  <1>7. CASE UNCHANGED lost /\ PhaseAt(c, k)' = PhaseAt(c, k) /\ (Holds(c, k)' <=> Holds(c, k))
    <2>1. phaseBar' = phaseBar /\ heldBar' = heldBar
      BY <1>1, <1>4, <1>5, <1>6, <1>7
    <2> QED
      BY <1>7, <2>1 DEF Lifecycle!avars, phaseBar, heldBar, Rows
  <1>8. CASE /\ UNCHANGED lost
             /\ PhaseAt(c, k) = "absent" /\ PhaseAt(c, k)' = "queued" /\ Holds(c, k)'
    <2>1. Lifecycle!AbsSubmit(j)
      BY <1>1, <1>5, <1>6, <1>8
      DEF Lifecycle!AbsSubmit, Lifecycle!MovePhase, phaseBar, heldBar, Rows
    <2> QED
      BY <1>1, <2>1 DEF Lifecycle!AbsNext, Rows
  <1>9. CASE /\ UNCHANGED lost
             /\ PhaseAt(c, k) = "queued" /\ PhaseAt(c, k)' = "active"
             /\ Holds(c, k) /\ Holds(c, k)'
    <2>1. j \in heldBar /\ heldBar' = heldBar
      BY <1>1, <1>6, <1>9
    <2>2. Lifecycle!AbsStart(j)
      BY <1>1, <1>5, <1>9, <2>1
      DEF Lifecycle!AbsStart, Lifecycle!MovePhase, phaseBar, heldBar, Rows
    <2> QED
      BY <1>1, <2>2 DEF Lifecycle!AbsNext, Rows
  <1>10. CASE /\ UNCHANGED lost
              /\ PhaseAt(c, k) \in {"queued", "active"} /\ PhaseAt(c, k)' = "ended"
              /\ Holds(c, k) \/ Lost(c, k)
              /\ Holds(c, k)' <=> Holds(c, k)
    <2>1. heldBar' = heldBar /\ j \in heldBar \cup lost
      BY <1>1, <1>6, <1>10 DEF Lost, j
    <2>2. Lifecycle!AbsEnd(j)
      BY <1>1, <1>5, <1>10, <2>1
      DEF Lifecycle!AbsEnd, Lifecycle!MovePhase, phaseBar, heldBar, Rows
    <2> QED
      BY <1>1, <2>2 DEF Lifecycle!AbsNext, Rows
  <1>11. CASE /\ UNCHANGED lost
              /\ PhaseAt(c, k) \in {"ended", "removed"} /\ PhaseAt(c, k)' = PhaseAt(c, k)
              /\ Holds(c, k) /\ ~Holds(c, k)'
    <2>1. j \in heldBar /\ heldBar' = heldBar \ {j} /\ phaseBar' = phaseBar
      BY <1>1, <1>4, <1>5, <1>6, <1>11
    <2>2. Lifecycle!AbsRelease(j)
      BY <1>1, <1>11, <2>1 DEF Lifecycle!AbsRelease, phaseBar, heldBar, Rows
    <2> QED
      BY <1>1, <2>2 DEF Lifecycle!AbsNext, Rows
  <1>12. CASE /\ UNCHANGED lost
              /\ PhaseAt(c, k) \in {"queued", "ended"} /\ PhaseAt(c, k)' = "removed"
              /\ (Holds(c, k)' <=> Holds(c, k))
    <2>1. heldBar' = heldBar
      BY <1>1, <1>6, <1>12
    <2>2. Lifecycle!AbsRemove(j)
      BY <1>1, <1>5, <1>12, <2>1
      DEF Lifecycle!AbsRemove, Lifecycle!MovePhase, phaseBar, heldBar, Rows
    <2> QED
      BY <1>1, <2>2 DEF Lifecycle!AbsNext, Rows
  <1>13. CASE /\ lost' = lost \cup {<<c, k>>}
              /\ Holds(c, k) /\ PhaseAt(c, k)' = PhaseAt(c, k)
    <2>1. /\ j \in heldBar /\ heldBar' \in {heldBar, heldBar \ {j}} /\ phaseBar' = phaseBar
          /\ lost' = lost \cup {j}
      BY <1>1, <1>4, <1>5, <1>6, <1>13 DEF j
    <2>2. Lifecycle!AbsLose(j)
      BY <2>1 DEF Lifecycle!AbsLose, phaseBar, heldBar, Rows
    <2> QED
      BY <1>1, <2>2 DEF Lifecycle!AbsNext, Rows
  <1> QED
    BY <1>7, <1>8, <1>9, <1>10, <1>11, <1>12, <1>13 DEF AbstractMove

-----------------------------------------------------------------------------
(* A step of one chain. *)

ClearsAt(c, k) ==
  LeavesStage(c, k) /\ c \notin cut'
    /\ backup[c] # "deleted" /\ child[c][k] # "deleted"
    /\ (c \in dropped => child[c][k] # "completed")
    => maint'[c] # Running(k)

Clears == \A c \in Chains, k \in Kinds : ClearsAt(c, k)

Good == Inv' /\ [Lifecycle!AbsNext]_(Lifecycle!avars) /\ Clears

\* Nothing of another chain changes, and rows do not go back to where they began.
OnlyChain(c) ==
  /\ up /\ up' /\ UNCHANGED <<setup, plan>>
  /\ \A d \in Chains \ {c} :
       /\ maint'[d] = maint[d] /\ child'[d] = child[d] /\ pc'[d] = pc[d]
       /\ canceller'[d] = canceller[d]
       /\ \A l \in Kinds : Lost(d, l)' <=> Lost(d, l)

\* The place of a chain, its child of one kind, and what the backup row says.
LEMMA TypesAt ==
  ASSUME TypeOK, NEW c \in Chains, NEW k \in Kinds
  PROVE  /\ child[c][k] \in ChildStatus /\ maint[c] \in MaintStatus
         /\ pc[c].stage \in Stages /\ pc[c].at \in Position
         /\ pc[c] = [stage |-> pc[c].stage, at |-> pc[c].at]
  BY DEF TypeOK, ChildStatus, Stages

LEMMA OthersKeep ==
  ASSUME Inv, NEW c \in Chains, OnlyChain(c), NEW d \in Chains \ {c}
  PROVE  ChainInv(d)'
  BY DEF OnlyChain, Inv, ChainInv, ChildInv, LastKind, Lost

LEMMA AwaitedStays ==
  ASSUME Inv, UNCHANGED canceller,
         \A d \in Chains, l \in Kinds : Begun(child[d][l]) => Begun(child'[d][l])
  PROVE  Awaited'
  <1>1. \A d \in Chains : canceller[d].kind \in Kinds
    BY DEF Inv, TypeOK
  <1> QED
    BY <1>1 DEF Inv, Awaited

\* One row of one chain.
LEMMA ChainStep ==
  ASSUME Inv, NEW c \in Chains, NEW k \in Kinds, OnlyChain(c), TypeOK', ChainInv(c)', Awaited',
         AbstractMove(c, k), \A l \in Kinds \ {k} : child'[c][l] = child[c][l],
         \A l \in Kinds \ {k} : Holds(c, l)' <=> Holds(c, l),
         \A l \in Kinds : ClearsAt(c, l)
  PROVE  Good
  <1>1. Inv'
    BY OthersKeep DEF Inv
  <1>2. OnlyRow(c, k)
    BY DEF OnlyChain, OnlyRow, PhaseAt, Holds
  <1>3. [Lifecycle!AbsNext]_(Lifecycle!avars)
    BY <1>2, MoveIsAbstract DEF OnlyChain
  <1>4. Clears
    BY DEF Clears, ClearsAt, OnlyChain, LeavesStage
  <1> QED
    BY <1>1, <1>3, <1>4 DEF Good

LEMMA BackupEndsStep ==
  ASSUME Inv, NEW c \in Chains, BackupEnds(c)
  PROVE  Good
  <1>1. PICK s \in EndedStatus :
          /\ backup' = [backup EXCEPT ![c] = s]
          /\ GoTo(c, IF s \in {"completed", "completed_with_warnings"} /\ c \notin dropped
                     THEN NextStage(c, "backup") ELSE "done", "create")
    BY DEF BackupEnds
  <1> DEFINE next == IF s \in {"completed", "completed_with_warnings"} /\ c \notin dropped
                     THEN NextStage(c, "backup") ELSE "done"
  <1>2. /\ next \in {"prune", "compact", "finish", "done"}
        /\ next \in Kinds => next \in plan[c]
    BY NextStageFits DEF Inv, Kinds
  <1>3. /\ pc[c].stage = "backup" /\ up /\ UNCHANGED <<up, setup, plan, dropped, cut, lost, maint, child, made, proc, canceller>>
        /\ GoTo(c, next, "create")
    BY <1>1 DEF BackupEnds, MayStep, faults, plan
  <1> HIDE DEF next
  <1>4. /\ pc' \in [Chains -> [stage : Stages, at : Position]]
        /\ pc'[c].stage = next /\ pc'[c].at = "create"
        /\ \A d \in Chains \ {c} : pc'[d] = pc[d]
    BY <1>2, <1>3, GoToAt DEF Inv, Position, Stages, Kinds
  <1>5. TypeOK'
    BY <1>1, <1>3, <1>4 DEF Inv, TypeOK, Stages
  <1>6. /\ maint[c] = "none" /\ \A k \in Kinds : child[c][k] = "absent" /\ ~Holds(c, k)
    BY <1>3 DEF Inv, ChainInv, ChildInv, Holds, Kinds
  <1>7. ChainInv(c)'
    <2>1. ASSUME NEW k \in Kinds PROVE ChildInv(c, k)'
      BY <1>2, <1>3, <1>4, <1>6, Names DEF ChildInv
    <2> QED
      BY <1>2, <1>3, <1>4, <1>6, <2>1 DEF ChainInv, Kinds
  <1>8. OnlyChain(c) /\ Awaited'
    BY <1>3, <1>4, AwaitedStays DEF OnlyChain, Lost
  <1>9. \A l \in Kinds : Holds(c, l)' <=> Holds(c, l)
    BY <1>4, <1>6 DEF Holds
  <1>10. AbstractMove(c, "prune")
    BY <1>3, <1>9 DEF AbstractMove, PhaseAt, Kinds
  <1>11. \A l \in Kinds : ClearsAt(c, l)
    BY <1>3 DEF ClearsAt, LeavesStage, Kinds
  <1> QED
    BY <1>3, <1>5, <1>7, <1>8, <1>9, <1>10, <1>11, ChainStep DEF Kinds

\* The chain is within stage k, and its step leaves the row behind as the place asks.
LEMMA StageStep ==
  ASSUME Inv, NEW c \in Chains, NEW k \in Kinds, pc[c].stage = k, up,
         UNCHANGED <<up, setup, plan, backup, canceller>>, TypeOK',
         lost' \in {lost, lost \cup {<<c, k>>}},
         \A d \in Chains \ {c} : maint'[d] = maint[d] /\ child'[d] = child[d] /\ pc'[d] = pc[d],
         \A l \in Kinds \ {k} : child'[c][l] = child[c][l],
         pc'[c].stage = k, ChildInv(c, k)', AbstractMove(c, k),
         Begun(child[c][k]) => Begun(child'[c][k]),
         maint'[c] \in {maint[c], Running(k)}
  PROVE  Good
  <1>1. OnlyChain(c)
    BY DEF OnlyChain, Lost
  <1>2. Awaited'
    BY <1>1, AwaitedStays DEF OnlyChain
  <1>3. ASSUME NEW l \in Kinds \ {k} PROVE ChildInv(c, l)'
    <2>1. ChildInv(c, l) /\ child'[c][l] = child[c][l] /\ (Lost(c, l)' <=> Lost(c, l))
      BY DEF Inv, ChainInv, Lost
    <2>2. maint'[c] = Completed(l) => maint[c] = Completed(l)
      BY Names
    <2> QED
      BY <2>1, <2>2 DEF ChildInv, Kinds
  <1>4. ChainInv(c)'
    <2>1. maint'[c] # "maintenance_completed"
      BY Names DEF Inv, ChainInv, ChildInv
    <2>2. pc'[c].stage \in Kinds
      OBVIOUS
    <2> QED
      BY <1>3, <2>1, <2>2 DEF Inv, ChainInv, Kinds
  <1>5. \A l \in Kinds \ {k} : Holds(c, l)' <=> Holds(c, l)
    BY DEF Holds
  <1>6. \A l \in Kinds : ClearsAt(c, l)
    BY DEF ClearsAt, LeavesStage
  <1> QED
    BY <1>1, <1>2, <1>4, <1>5, <1>6, ChainStep

LEMMA AtPlace ==
  ASSUME NEW c \in Chains, NEW k, NEW p, At(c, k, p)
  PROVE  pc[c].stage = k /\ pc[c].at = p
  BY DEF At

LEMMA CreateChildStep ==
  ASSUME Inv, NEW c \in Chains, NEW k \in Kinds, CreateChild(c, k)
  PROVE  Good
  <1>1. /\ pc[c].stage = k /\ pc[c].at = "create" /\ up
        /\ UNCHANGED <<up, setup, plan, dropped, cut, lost, backup, maint, proc, canceller>>
        /\ GoTo(c, k, "mark") /\ child' = [child EXCEPT ![c][k] = "pending"]
    BY AtPlace DEF CreateChild, MayStep, faults, plan
  <1>2. /\ child[c][k] = "absent" /\ k \in plan[c] /\ maint[c] # "maintenance_completed"
        /\ maint[c] # Completed(k)
    BY <1>1 DEF Inv, ChainInv, ChildInv, Positive
  <1>3. /\ pc' \in [Chains -> [stage : Stages, at : Position]]
        /\ pc'[c].stage = k /\ pc'[c].at = "mark"
        /\ \A d \in Chains \ {c} : pc'[d] = pc[d]
    BY <1>1, GoToAt DEF Inv, Position, Stages
  <1>4. /\ child' \in [Chains -> [Kinds -> ChildStatus]]
        /\ child'[c][k] = "pending"
        /\ \A l \in Kinds \ {k} : child'[c][l] = child[c][l]
        /\ \A d \in Chains \ {c} : child'[d] = child[d]
    BY <1>1, SetChildAt DEF Inv, ChildStatus
  <1>5. made' \in [Kinds -> Seq(Chains)]
    BY DEF CreateChild, Inv, TypeOK
  <1>6. TypeOK'
    BY <1>1, <1>3, <1>4, <1>5 DEF Inv, TypeOK, Stages, ChildStatus
  <1>7. ChildInv(c, k)'
    BY <1>1, <1>2, <1>3, <1>4 DEF ChildInv, Kinds
  <1>8. AbstractMove(c, k)
    BY <1>1, <1>2, <1>3, <1>4 DEF AbstractMove, PhaseAt, PhaseOf, Holds
  <1> QED
    BY <1>1, <1>2, <1>3, <1>4, <1>6, <1>7, <1>8, StageStep DEF Begun

LEMMA MarkBackupStep ==
  ASSUME Inv, NEW c \in Chains, NEW k \in Kinds, MarkBackup(c, k)
  PROVE  Good
  <1>1. /\ pc[c].stage = k /\ pc[c].at = "mark" /\ up
        /\ UNCHANGED <<up, setup, plan, dropped, cut, lost, backup, child, made, proc, canceller>>
        /\ GoTo(c, k, "start") /\ maint' = [maint EXCEPT ![c] = Running(k)]
    BY AtPlace DEF MarkBackup, MayStep, faults, plan
  <1>2. child[c][k] = "pending" /\ k \in plan[c]
    BY <1>1 DEF Inv, ChainInv, ChildInv
  <1>3. /\ pc' \in [Chains -> [stage : Stages, at : Position]]
        /\ pc'[c].stage = k /\ pc'[c].at = "start"
        /\ \A d \in Chains \ {c} : pc'[d] = pc[d]
    BY <1>1, GoToAt DEF Inv, Position, Stages
  <1>4. /\ maint' \in [Chains -> MaintStatus] /\ maint'[c] = Running(k)
        /\ \A d \in Chains \ {c} : maint'[d] = maint[d]
    BY <1>1, Names DEF Inv, TypeOK
  <1>5. TypeOK'
    BY <1>1, <1>3, <1>4 DEF Inv, TypeOK, Stages
  <1>6. ChildInv(c, k)'
    BY <1>1, <1>2, <1>3, <1>4, Names DEF ChildInv, Kinds
  <1>7. AbstractMove(c, k)
    BY <1>1, <1>3 DEF AbstractMove, PhaseAt, Holds
  <1> QED
    BY <1>1, <1>3, <1>4, <1>5, <1>6, <1>7, StageStep DEF Begun

\* The service moves on: it writes nothing, starts the child, ends it, or gives it up.
LEMMA WorkedStep ==
  ASSUME Inv, NEW c \in Chains, NEW k \in Kinds, pc[c].stage = k,
         pc[c].at \in {"start", "retry", "spawn", "wait"}, up,
         NEW p \in {"retry", "spawn", "wait", "settle"}, GoTo(c, k, p),
         UNCHANGED <<up, setup, plan, dropped, cut, backup, maint, made, canceller>>,
         proc' \in [Chains -> {"none", "alive", "terminated", "gone"}],
         \/ /\ <<pc[c].at, p>> \in {<<"start", "retry">>, <<"start", "spawn">>, <<"spawn", "wait">>}
            /\ UNCHANGED <<child, lost>>
         \/ /\ p = "spawn" /\ pc[c].at \in {"start", "retry"}
            /\ SetChild(c, k, "running") /\ UNCHANGED lost
         \/ p = "settle" /\ UNCHANGED lost /\ \E s \in EndedStatus : SetChild(c, k, s)
         \/ p = "settle" /\ UNCHANGED child /\ lost' = lost \cup {<<c, k>>}
  PROVE  Good
  <1>1. /\ child[c][k] \in {"pending", "running"} \cup Over /\ k \in plan[c]
        /\ pc[c].at \in {"start", "retry"} => child[c][k] \in {"pending", "deleted"}
        /\ pc[c].at = "start" => child[c][k] = "pending"
        /\ maint[c] # "maintenance_completed" /\ maint[c] # Completed(k)
    BY DEF Inv, ChainInv, ChildInv, Over
  <1>2. /\ pc' \in [Chains -> [stage : Stages, at : Position]]
        /\ pc'[c].stage = k /\ pc'[c].at = p
        /\ \A d \in Chains \ {c} : pc'[d] = pc[d]
    BY GoToAt DEF Inv, Position, Stages
  <1>3. /\ child' \in [Chains -> [Kinds -> ChildStatus]]
        /\ \/ /\ <<pc[c].at, p>> \in {<<"start", "retry">>, <<"start", "spawn">>, <<"spawn", "wait">>}
              /\ child'[c][k] = child[c][k] /\ UNCHANGED lost
           \/ /\ p = "spawn" /\ pc[c].at \in {"start", "retry"} /\ UNCHANGED lost
              /\ child'[c][k] = IF child[c][k] = "deleted" THEN "deleted" ELSE "running"
           \/ /\ p = "settle" /\ UNCHANGED lost
              /\ \/ child'[c][k] \in EndedStatus /\ child[c][k] # "deleted"
                 \/ child'[c][k] = "deleted" /\ child[c][k] = "deleted"
           \/ /\ p = "settle" /\ child'[c][k] = child[c][k] /\ lost' = lost \cup {<<c, k>>}
        /\ \A l \in Kinds \ {k} : child'[c][l] = child[c][l]
        /\ \A d \in Chains \ {c} : child'[d] = child[d]
    <2>1. CASE /\ <<pc[c].at, p>> \in {<<"start", "retry">>, <<"start", "spawn">>, <<"spawn", "wait">>}
               /\ UNCHANGED <<child, lost>>
      BY <2>1 DEF Inv, TypeOK, ChildStatus
    <2>2. CASE /\ p = "spawn" /\ pc[c].at \in {"start", "retry"}
               /\ SetChild(c, k, "running") /\ UNCHANGED lost
      BY <2>2, SetsChildAt DEF Inv, ChildStatus
    <2>3. CASE p = "settle" /\ UNCHANGED lost /\ \E s \in EndedStatus : SetChild(c, k, s)
      <3>1. PICK s \in EndedStatus : SetChild(c, k, s)
        BY <2>3
      <3>2. s \in ChildStatus
        BY DEF ChildStatus
      <3> QED
        BY <2>3, <3>1, <3>2, SetsChildAt DEF Inv
    <2>4. CASE p = "settle" /\ UNCHANGED child /\ lost' = lost \cup {<<c, k>>}
      BY <2>4 DEF Inv, TypeOK, ChildStatus
    <2> QED
      BY <2>1, <2>2, <2>3, <2>4
  <1>4. lost' \in {lost, lost \cup {<<c, k>>}} /\ lost' \subseteq Chains \X Kinds
    BY <1>3 DEF Inv, TypeOK
  <1>5. TypeOK'
    BY <1>2, <1>3, <1>4 DEF Inv, TypeOK, Stages, ChildStatus
  <1>6. ChildInv(c, k)'
    BY <1>1, <1>2, <1>3 DEF ChildInv, Kinds, Over, EndedStatus, Lost
  <1>7. AbstractMove(c, k)
    BY <1>1, <1>2, <1>3 DEF AbstractMove, PhaseAt, PhaseOf, Holds, Over, EndedStatus
  <1>8. Begun(child[c][k]) => Begun(child'[c][k])
    BY <1>1, <1>3 DEF Begun, Over, EndedStatus
  <1> QED
    BY <1>1, <1>2, <1>3, <1>4, <1>5, <1>6, <1>7, <1>8, StageStep

LEMMA SameProc ==
  ASSUME Inv, UNCHANGED proc
  PROVE  proc' \in [Chains -> {"none", "alive", "terminated", "gone"}]
  BY DEF Inv, TypeOK

LEMMA StartChildStep ==
  ASSUME Inv, NEW c \in Chains, NEW k \in Kinds, StartChild(c, k)
  PROVE  Good
  <1>1. /\ pc[c].stage = k /\ pc[c].at = "start" /\ up
        /\ UNCHANGED <<up, setup, plan, dropped, cut, lost, backup, maint, made, proc, canceller>>
    BY AtPlace DEF StartChild, MayStep, faults, plan
  <1>2. child[c][k] = "pending"
    BY <1>1 DEF Inv, ChainInv, ChildInv
  <1>3. CASE SetChild(c, k, "running") /\ GoTo(c, k, "spawn")
    BY <1>1, <1>3, SameProc, WorkedStep
  <1>4. CASE SetChild(c, k, "pending") /\ GoTo(c, k, "spawn")
    <2>1. UNCHANGED child
      BY <1>2, <1>4 DEF SetChild, Inv, TypeOK
    <2> QED
      BY <1>1, <1>4, <2>1, SameProc, WorkedStep
  <1>5. CASE SetChild(c, k, "failed") /\ GoTo(c, k, "settle")
    <2>1. "failed" \in EndedStatus
      BY DEF EndedStatus
    <2> QED
      BY <1>1, <1>5, <2>1, SameProc, WorkedStep
  <1>6. CASE GoTo(c, k, "retry") /\ UNCHANGED child
    BY <1>1, <1>6, SameProc, WorkedStep
  <1> QED
    BY <1>3, <1>4, <1>5, <1>6 DEF StartChild

LEMMA RetryStartStep ==
  ASSUME Inv, NEW c \in Chains, NEW k \in Kinds, RetryStart(c, k)
  PROVE  Good
  <1>1. /\ pc[c].stage = k /\ pc[c].at = "retry" /\ up
        /\ UNCHANGED <<up, setup, plan, dropped, cut, backup, maint, made, proc, canceller>>
    BY AtPlace DEF RetryStart, MayStep, plan
  <1>2. CASE SetChild(c, k, "running") /\ GoTo(c, k, "spawn") /\ UNCHANGED lost
    BY <1>1, <1>2, SameProc, WorkedStep
  <1>3. CASE SetChild(c, k, "failed") /\ GoTo(c, k, "settle") /\ UNCHANGED lost
    <2>1. "failed" \in EndedStatus
      BY DEF EndedStatus
    <2> QED
      BY <1>1, <1>3, <2>1, SameProc, WorkedStep
  <1>4. CASE GiveUp(c, k) /\ GoTo(c, k, "settle")
    BY <1>1, <1>4, SameProc, WorkedStep DEF GiveUp
  <1> QED
    BY <1>2, <1>3, <1>4 DEF RetryStart

LEMMA SpawnedStep ==
  ASSUME Inv, NEW c \in Chains, NEW k \in Kinds, Spawned(c, k)
  PROVE  Good
  <1>1. /\ pc[c].stage = k /\ pc[c].at = "spawn" /\ up
        /\ UNCHANGED <<up, setup, plan, dropped, cut, backup, maint, made, canceller>>
    BY AtPlace DEF Spawned, MayStep, plan
  <1>2. CASE proc' = [proc EXCEPT ![c] = "alive"] /\ GoTo(c, k, "wait") /\ UNCHANGED <<child, lost>>
    <2>1. proc' \in [Chains -> {"none", "alive", "terminated", "gone"}]
      BY <1>2 DEF Inv, TypeOK
    <2> QED
      BY <1>1, <1>2, <2>1, WorkedStep
  <1>3. CASE SetChild(c, k, "failed") /\ UNCHANGED lost /\ GoTo(c, k, "settle") /\ UNCHANGED proc
    <2>1. "failed" \in EndedStatus
      BY DEF EndedStatus
    <2> QED
      BY <1>1, <1>3, <2>1, SameProc, WorkedStep
  <1>4. CASE GiveUp(c, k) /\ GoTo(c, k, "settle") /\ UNCHANGED proc
    BY <1>1, <1>4, SameProc, WorkedStep DEF GiveUp
  <1> QED
    BY <1>2, <1>3, <1>4 DEF Spawned

LEMMA ServiceEndStep ==
  ASSUME Inv, NEW c \in Chains, NEW k \in Kinds, ServiceEnd(c, k)
  PROVE  Good
  <1>1. /\ pc[c].stage = k /\ pc[c].at = "wait" /\ up
        /\ UNCHANGED <<up, setup, plan, dropped, cut, backup, maint, made, canceller>>
        /\ GoTo(c, k, "settle")
    BY AtPlace DEF ServiceEnd, MayStep, plan
  <1>2. proc' \in [Chains -> {"none", "alive", "terminated", "gone"}]
    BY DEF ServiceEnd, Inv, TypeOK
  <1>3. CASE UNCHANGED lost /\ \E s \in EndedStatus : SetChild(c, k, s)
    BY <1>1, <1>2, <1>3, WorkedStep
  <1>4. CASE GiveUp(c, k)
    BY <1>1, <1>2, <1>4, WorkedStep DEF GiveUp
  <1> QED
    BY <1>3, <1>4 DEF ServiceEnd

\* The chain leaves its stage, or its last stage: the row has ended, is lost, or was not
\* made yet.
LEMMA LeavesStep ==
  ASSUME Inv, NEW c \in Chains, NEW k \in Kinds, up,
         UNCHANGED <<up, setup, plan, backup, child, canceller>>, TypeOK', ChainInv(c)',
         \A d \in Chains \ {c} : maint'[d] = maint[d] /\ pc'[d] = pc[d],
         \/ pc[c].stage = k /\ pc[c].at = "create" /\ UNCHANGED lost
         \/ pc[c].stage = k /\ pc[c].at \in {"mark", "settle"} /\ lost' = lost \cup {<<c, k>>}
         \/ pc[c].stage = k /\ pc[c].at = "settle" /\ child[c][k] \in Over /\ UNCHANGED lost
         \/ pc[c].stage = "finish" /\ UNCHANGED lost,
         ClearsAt(c, k),
         pc'[c].at = "create"
  PROVE  Good
  <1>1. OnlyChain(c) /\ Awaited'
    BY AwaitedStays DEF OnlyChain, Lost
  <1>2. \A l \in Kinds : ~Holds(c, l)'
    BY DEF Holds
  <1>3. \A l \in Kinds \ {k} : Holds(c, l)' <=> Holds(c, l)
    BY <1>2 DEF Holds, Kinds
  <1>4. AbstractMove(c, k)
    <2>1. PhaseAt(c, k)' = PhaseAt(c, k)
      BY DEF PhaseAt
    <2>2. CASE pc[c].stage = k /\ pc[c].at = "create" /\ UNCHANGED lost
      BY <1>2, <2>1, <2>2 DEF AbstractMove, Holds
    <2>3. CASE pc[c].stage = k /\ pc[c].at \in {"mark", "settle"} /\ lost' = lost \cup {<<c, k>>}
      BY <1>2, <2>1, <2>3 DEF AbstractMove, Holds
    <2>4. CASE pc[c].stage = k /\ pc[c].at = "settle" /\ child[c][k] \in Over /\ UNCHANGED lost
      <3>1. PhaseAt(c, k) \in {"ended", "removed"}
        BY <2>4 DEF PhaseAt, PhaseOf, Over, EndedStatus
      <3> QED
        BY <1>2, <2>1, <2>4, <3>1 DEF AbstractMove, Holds
    <2>5. CASE pc[c].stage = "finish" /\ UNCHANGED lost
      BY <1>2, <2>1, <2>5 DEF AbstractMove, Holds, Kinds
    <2> QED
      BY <2>2, <2>3, <2>4, <2>5
  <1>5. \A l \in Kinds : ClearsAt(c, l)
    BY DEF ClearsAt, LeavesStage, Kinds
  <1> QED
    BY <1>1, <1>3, <1>4, <1>5, ChainStep

LEMMA CommitLockedStep ==
  ASSUME Inv, NEW c \in Chains, NEW k \in Kinds, CommitLocked(c, k)
  PROVE  Good
  <1>1. /\ pc[c].stage = k /\ pc[c].at \in {"create", "mark", "settle"} /\ up
        /\ UNCHANGED <<up, setup, plan, dropped, backup, maint, child, made, proc, canceller>>
        /\ GoTo(c, "done", "create") /\ cut' = cut \cup {c}
    BY DEF CommitLocked, MayStep, plan
  <1>2. \/ pc[c].at = "create" /\ UNCHANGED lost
        \/ pc[c].at \in {"mark", "settle"} /\ lost' = lost \cup {<<c, k>>}
    BY <1>1 DEF CommitLocked
  <1>3. /\ pc' \in [Chains -> [stage : Stages, at : Position]]
        /\ pc'[c].stage = "done" /\ pc'[c].at = "create"
        /\ \A d \in Chains \ {c} : pc'[d] = pc[d]
    BY <1>1, GoToAt DEF Inv, Position, Stages
  <1>4. cut' \subseteq Chains /\ lost' \subseteq Chains \X Kinds
    BY <1>1, <1>2 DEF Inv, TypeOK
  <1>5. TypeOK'
    BY <1>1, <1>3, <1>4 DEF Inv, TypeOK, Stages
  <1>6. ASSUME NEW l \in Kinds PROVE ChildInv(c, l)'
    <2>1. child[c][l] = "running" => Lost(c, l)'
      BY <1>1, <1>2 DEF Inv, ChainInv, ChildInv, Lost, Over, EndedStatus
    <2> QED
      BY <1>1, <1>3, <2>1 DEF Inv, ChainInv, ChildInv, Kinds
  <1>7. maint[c] # "maintenance_completed"
    BY <1>1 DEF Inv, ChainInv, ChildInv
  <1>8. ChainInv(c)'
    BY <1>1, <1>3, <1>6, <1>7 DEF ChainInv
  <1>9. ClearsAt(c, k)
    BY <1>1 DEF ClearsAt
  <1> QED
    BY <1>1, <1>2, <1>3, <1>5, <1>8, <1>9, LeavesStep

LEMMA SettleStep ==
  ASSUME Inv, NEW c \in Chains, NEW k \in Kinds, Settle(c, k)
  PROVE  Good
  <1> DEFINE over == Abandoned(c, k)
             result == IF child[c][k] = "completed" THEN Completed(k) ELSE Failed(k)
             next == IF over \/ (k = "prune" /\ c \in dropped) THEN "done" ELSE NextStage(c, k)
  <1>1. /\ pc[c].stage = k /\ pc[c].at = "settle" /\ up
        /\ UNCHANGED <<up, setup, plan, dropped, cut, lost, backup, child, made, proc, canceller>>
    BY AtPlace DEF Settle, MayStep, faults, plan
  <1>2. /\ GoTo(c, next, "create")
        /\ IF over THEN UNCHANGED maint ELSE SetMaint(c, result)
    BY DEF Settle
  <1>3. /\ result \in {Completed(k), Failed(k)} /\ result \in MaintStatus
        /\ result = Completed(k) => child[c][k] = "completed"
    BY Names
  <1>4. /\ next \in {"done", "compact", "finish"}
        /\ next = "compact" => k = "prune" /\ "compact" \in plan[c]
        /\ next = "finish" => ~over /\ k = LastKind(c)
    <2>1. k \in plan[c]
      BY <1>1 DEF Inv, ChainInv, ChildInv
    <2> HIDE DEF over
    <2> QED
      BY <2>1, NextStageFits DEF Inv, Kinds
  <1>5. over \in BOOLEAN /\ (backup[c] = "deleted" => over)
    BY DEF Abandoned
  <1>6. child[c][k] # "deleted" /\ backup[c] # "deleted" /\ (c \in dropped => child[c][k] # "completed")
           => ~over
    BY DEF Abandoned
  <1> HIDE DEF over, result, next
  <1>7. /\ pc' \in [Chains -> [stage : Stages, at : Position]]
        /\ pc'[c].stage = next /\ pc'[c].at = "create"
        /\ \A d \in Chains \ {c} : pc'[d] = pc[d]
    BY <1>2, <1>4, GoToAt DEF Inv, Position, Stages, Kinds
  <1>8. /\ maint' \in [Chains -> MaintStatus]
        /\ maint'[c] = IF over THEN maint[c] ELSE result
        /\ \A d \in Chains \ {c} : maint'[d] = maint[d]
    <2>1. CASE over
      BY <1>2, <2>1 DEF Inv, TypeOK
    <2>2. CASE ~over
      BY <1>2, <1>3, <1>5, <2>2, SetMaintAt DEF Inv
    <2> QED
      BY <2>1, <2>2
  <1>9. TypeOK'
    BY <1>1, <1>7, <1>8 DEF Inv, TypeOK, Stages
  <1>10. maint[c] # "maintenance_completed" /\ maint'[c] # "maintenance_completed"
    BY <1>1, <1>3, <1>8, Names DEF Inv, ChainInv, ChildInv
  <1>11. ASSUME NEW l \in Kinds PROVE ChildInv(c, l)'
    <2>1. maint'[c] = Completed(l) => child[c][l] \in Positive
      BY <1>3, <1>8, Names DEF Inv, ChainInv, ChildInv, Positive
    <2>2. next = l => l \in plan[c] /\ child[c][l] = "absent"
      BY <1>1, <1>4 DEF Inv, ChainInv, ChildInv, Kinds
    <2>3. child[c][l] = "running" => Lost(c, l) /\ Lost(c, l)'
      BY <1>1 DEF Inv, ChainInv, ChildInv, Lost
    <2> QED
      BY <1>1, <1>4, <1>7, <1>10, <2>1, <2>2, <2>3 DEF ChildInv, Kinds
  <1>12. ChainInv(c)'
    <2>1. next = "finish" => maint'[c] \in {Failed(LastKind(c)), Completed(LastKind(c))}
      BY <1>3, <1>4, <1>8
    <2>2. LastKind(c)' = LastKind(c)
      BY <1>1 DEF LastKind
    <2> QED
      BY <1>1, <1>4, <1>7, <1>10, <1>11, <2>1, <2>2 DEF ChainInv
  <1>13. ClearsAt(c, k)
    BY <1>3, <1>6, <1>8, Names DEF ClearsAt
  <1>14. (child[c][k] \in Over /\ UNCHANGED lost) \/ lost' = lost \cup {<<c, k>>}
    BY <1>1 DEF Inv, ChainInv, ChildInv, Lost
  <1> QED
    BY <1>1, <1>7, <1>8, <1>9, <1>12, <1>13, <1>14, LeavesStep

LEMMA FinishStep ==
  ASSUME Inv, NEW c \in Chains, Finish(c)
  PROVE  Good
  <1>1. /\ pc[c].stage = "finish" /\ up /\ GoTo(c, "done", "create")
        /\ UNCHANGED <<up, setup, plan, dropped, cut, lost, backup, child, made, proc, canceller>>
    BY DEF Finish, MayStep, faults, plan
  <1>2. /\ pc' \in [Chains -> [stage : Stages, at : Position]]
        /\ pc'[c].stage = "done" /\ pc'[c].at = "create"
        /\ \A d \in Chains \ {c} : pc'[d] = pc[d]
    BY <1>1, GoToAt DEF Inv, Position, Stages
  <1>3. LastKind(c) \in Kinds /\ LastKind(c)' = LastKind(c)
    BY <1>1 DEF LastKind, Kinds
  <1>4. /\ maint' \in [Chains -> MaintStatus]
        /\ \/ maint'[c] = maint[c]
           \/ /\ maint'[c] = "maintenance_completed"
              /\ maint[c] \notin {"none", Failed("prune"), Failed("compact")}
        /\ \A d \in Chains \ {c} : maint'[d] = maint[d]
    <2>1. CASE UNCHANGED maint
      BY <2>1 DEF Inv, TypeOK
    <2>2. CASE /\ SetMaint(c, "maintenance_completed")
               /\ maint[c] \notin {"none", Failed("prune"), Failed("compact")}
      BY <2>2, SetMaintAt DEF Inv, MaintStatus
    <2> QED
      BY <2>1, <2>2 DEF Finish
  <1>5. TypeOK'
    BY <1>1, <1>2, <1>4 DEF Inv, TypeOK, Stages
  <1>6. maint[c] \notin {"none", Failed("prune"), Failed("compact")}
           => child[c][LastKind(c)] \in Positive
    BY <1>1, <1>3 DEF Inv, ChainInv, ChildInv, Kinds
  <1>7. ASSUME NEW l \in Kinds PROVE ChildInv(c, l)'
    <2>1. maint'[c] = Completed(l) => maint[c] = Completed(l)
      BY <1>4, Names
    <2> QED
      BY <1>1, <1>2, <2>1 DEF Inv, ChainInv, ChildInv, Kinds, Lost
  <1>8. ChainInv(c)'
    <2>1. maint'[c] = "maintenance_completed" => child'[c][LastKind(c)'] \in Positive
      BY <1>1, <1>3, <1>4, <1>6 DEF Inv, ChainInv
    <2> QED
      BY <1>1, <1>2, <1>7, <2>1 DEF ChainInv
  <1> QED
    BY <1>1, <1>2, <1>4, <1>5, <1>8, LeavesStep DEF ClearsAt, LeavesStage, Kinds

-----------------------------------------------------------------------------
(* Processes, requests, restarts. *)

\* A step that neither the row nor the place of any chain shows.
LEMMA UnseenStep ==
  ASSUME Inv, TypeOK', UNCHANGED <<up, setup, plan, lost, maint, child, pc>>,
         \A d \in Chains : canceller'[d] # Nowhere => pc[d].stage # "backup",
         Awaited'
  PROVE  Good
  <1>1. \A d \in Chains : ChainInv(d)'
    BY DEF Inv, ChainInv, ChildInv, LastKind, Lost
  <1>2. UNCHANGED Lifecycle!avars
    BY DEF Lifecycle!avars
  <1>3. Clears
    BY DEF Clears, ClearsAt, LeavesStage
  <1> QED
    BY <1>1, <1>2, <1>3 DEF Good, Inv

LEMMA ProcStep ==
  ASSUME Inv, UNCHANGED <<up, setup, plan, dropped, cut, lost, backup, maint, child, made, pc, canceller>>,
         NEW c \in Chains, NEW s \in {"terminated", "gone"}, proc' = [proc EXCEPT ![c] = s]
  PROVE  Good
  <1>1. TypeOK'
    BY DEF Inv, TypeOK
  <1>2. Awaited'
    BY DEF Inv, Awaited
  <1>3. \A d \in Chains : canceller'[d] # Nowhere => pc[d].stage # "backup"
    BY DEF Inv, ChainInv
  <1> QED
    BY <1>1, <1>2, <1>3, UnseenStep

\* A set of natural numbers with a bound has a greatest element.
LEMMA HasGreatest ==
  ASSUME NEW n \in Nat, NEW S \in SUBSET (0 .. n), S # {}
  PROVE  \E x \in S : \A y \in S : x >= y
  <1> DEFINE Above(x) == {y \in S : y > x}
             T == {Above(x) : x \in S}
             R == StrictSubsetOrdering(Nat)
  <1>0. \A y \in S : y \in Nat /\ y <= n
    OBVIOUS
  <1>1. ASSUME NEW x \in S
        PROVE  /\ Above(x) \in SUBSET Nat /\ Above(x) \in FiniteSubsetsOf(Nat)
               /\ \A y \in S : y \in Above(x) <=> y > x
    <2>1. Above(x) \in SUBSET Nat /\ \A y \in Above(x) : y <= n
      BY <1>0
    <2>2. \A y \in S : y \in Above(x) <=> y > x
      OBVIOUS
    <2> HIDE DEF Above
    <2> QED
      BY <2>1, <2>2, FS_BoundedSetOfNaturals DEF FiniteSubsetsOf
  <1>2. \A x \in S : Above(x) \subseteq S
    OBVIOUS
  <1> HIDE DEF Above
  <1>3. T \subseteq FiniteSubsetsOf(Nat) /\ T # {}
    BY <1>1
  <1>4. PICK A \in T : \A B \in T : ~(<<B, A>> \in R)
    <2>1. IsWellFoundedOn(R, FiniteSubsetsOf(Nat))
      BY FS_StrictSubsetOrderingWellFounded
    <2> HIDE DEF T, R
    <2> QED
      BY <1>3, <2>1, WFMin
  <1>5. PICK x \in S : A = Above(x)
    BY <1>4
  <1>6. ASSUME NEW y \in S, y > x
        PROVE  FALSE
    <2>1. Above(y) \subseteq Above(x)
      BY <1>0, <1>1, <1>2, <1>6
    <2>2. y \in Above(x) /\ y \notin Above(y)
      BY <1>0, <1>1, <1>6
    <2>3. <<Above(y), Above(x)>> \in R
      BY <1>1, <2>1, <2>2 DEF StrictSubsetOrdering
    <2> QED
      BY <1>4, <1>5, <2>3
  <1> QED
    BY <1>0, <1>6

\* The newest running row of a kind.
LEMMA NewestRuns ==
  ASSUME TypeOK, NEW k \in Kinds, RunningChildren(k) # {}
  PROVE  Newest(k) \in Chains /\ child[Newest(k)][k] = "running"
  <1> DEFINE S == RunningChildren(k)
             n == Len(made[k])
  <1>1. n \in Nat /\ S \in SUBSET (0 .. n) /\ S # {} /\ made[k] \in Seq(Chains)
    BY DEF TypeOK, RunningChildren
  <1>2. \A i \in S : i \in DOMAIN made[k] /\ child[made[k][i]][k] = "running"
    BY DEF RunningChildren
  <1>3. PICK g \in S : \A m \in S : m <= g
    <2> HIDE DEF S, n
    <2> QED
      BY <1>1, HasGreatest
  <1> DEFINE newest == CHOOSE i \in S : \A m \in S : m <= i
  <1>4. Newest(k) = made[k][newest]
    BY DEF Newest
  <1> HIDE DEF S, n
  <1>5. newest \in S
    BY <1>3
  <1> HIDE DEF newest
  <1>6. newest \in DOMAIN made[k] /\ child[made[k][newest]][k] = "running"
    BY <1>2, <1>5
  <1> QED
    BY <1>1, <1>4, <1>6

\* A request for c cancels the row of t: both commits, or none.
LEMMA CommitCancelStep ==
  ASSUME Inv, NEW c \in Chains, NEW t \in Chains, NEW k \in Kinds, CommitCancel(c, t, k),
         LoopFree, Begun(child[t][k]), pc[c].stage # "backup",
         UNCHANGED <<up, setup, plan, dropped, cut, lost, backup, made, pc, proc>>,
         canceller' \in {canceller, [canceller EXCEPT ![c] = Nowhere]}
  PROVE  Good
  <1>1. up /\ up' /\ \A d \in Chains : ~InSegment(d)
    BY DEF LoopFree
  <1>2. /\ maint' \in [Chains -> MaintStatus]
        /\ maint'[c] \in {maint[c], Failed(k)}
        /\ \A d \in Chains \ {c} : maint'[d] = maint[d]
    <2>1. CASE UNCHANGED maint
      BY <2>1 DEF Inv, TypeOK
    <2>2. CASE SetMaint(c, Failed(k))
      BY <2>2, SetMaintAt, Names DEF Inv
    <2> QED
      BY <2>1, <2>2 DEF CommitCancel
  <1>3. /\ child' \in [Chains -> [Kinds -> ChildStatus]]
        /\ child'[t][k] = child[t][k] \/ (child'[t][k] = "cancelled" /\ child[t][k] # "deleted")
        /\ \A l \in Kinds \ {k} : child'[t][l] = child[t][l]
        /\ \A d \in Chains \ {t} : child'[d] = child[d]
    <2>1. CASE UNCHANGED child
      BY <2>1 DEF Inv, TypeOK, ChildStatus
    <2>2. CASE SetChild(t, k, "cancelled")
      BY <2>2, SetsChildAt DEF Inv, ChildStatus, EndedStatus
    <2> QED
      BY <2>1, <2>2 DEF CommitCancel
  <1>4. \A d \in Chains, l \in Kinds :
          \/ child'[d][l] = child[d][l]
          \/ d = t /\ l = k /\ child'[d][l] = "cancelled" /\ child[d][l] \notin {"absent", "deleted", "pending"}
    BY <1>3 DEF Begun
  <1>5. TypeOK'
    <2>1. canceller' \in [Chains -> [target : {"none"} \cup Chains, kind : Kinds]]
      BY DEF Inv, TypeOK, Nowhere, Kinds
    <2> QED
      BY <1>2, <1>3, <2>1 DEF Inv, TypeOK, ChildStatus
  <1>6. Awaited'
    <2>1. \A d \in Chains : canceller[d].kind \in Kinds /\ canceller'[d] \in {canceller[d], Nowhere}
      BY DEF Inv, TypeOK
    <2>2. \A d \in Chains, l \in Kinds : Begun(child[d][l]) => Begun(child'[d][l])
      BY <1>4 DEF Begun
    <2> QED
      BY <2>1, <2>2 DEF Inv, Awaited
  <1>7. ASSUME NEW d \in Chains PROVE ChainInv(d)'
    <2>1. /\ pc[d].stage # "finish"
          /\ pc[d].stage \in Kinds => pc[d].at \in {"retry", "spawn", "wait"}
      BY <1>1 DEF InSegment, Inv, TypeOK, Position
    <2>2. \/ maint'[d] = maint[d]
          \/ maint'[d] = Failed(k) /\ pc[d].stage # "backup"
      BY <1>2
    <2>3. ASSUME NEW l \in Kinds PROVE ChildInv(d, l)'
      BY <1>4, <2>1, <2>2, Names
      DEF Inv, ChainInv, ChildInv, Positive, Over, EndedStatus, Lost
    <2>4. LastKind(d)' = LastKind(d) /\ LastKind(d) \in Kinds
      BY DEF LastKind, Kinds
    <2>5. maint'[d] = "maintenance_completed" =>
            pc[d].stage = "done" /\ child'[d][LastKind(d)] \in Positive
      BY <1>4, <2>2, <2>4, Names DEF Inv, ChainInv, Positive
    <2>6. canceller'[d] # Nowhere => pc[d].stage # "backup"
      BY DEF Inv, ChainInv, TypeOK
    <2>7. pc[d].stage = "prune" => child'[d]["compact"] = "absent"
      BY <1>4 DEF Inv, ChainInv, Kinds
    <2> QED
      BY <1>1, <2>1, <2>2, <2>3, <2>4, <2>5, <2>6, <2>7 DEF Inv, ChainInv
  <1>8. AbstractMove(t, k) /\ OnlyRow(t, k)
    <2>1. \A d \in Chains, l \in Kinds : Holds(d, l)' <=> Holds(d, l)
      BY DEF Holds
    <2>2. OnlyRow(t, k)
      BY <1>4, <2>1 DEF OnlyRow, PhaseAt
    <2>3. CASE child'[t][k] = child[t][k]
      BY <2>1, <2>2, <2>3 DEF AbstractMove, PhaseAt, Holds
    <2>4. CASE child[t][k] = "running" /\ child'[t][k] = "cancelled"
      <3>1. Holds(t, k) \/ Lost(t, k)
        BY <1>1, <2>4 DEF Inv, ChainInv, ChildInv, Holds
      <3> QED
        BY <2>1, <2>2, <2>4, <3>1 DEF AbstractMove, PhaseAt, PhaseOf, Holds
    <2>5. CASE child[t][k] \in EndedStatus /\ child'[t][k] = "cancelled"
      BY <2>1, <2>2, <2>5 DEF AbstractMove, PhaseAt, PhaseOf, EndedStatus, Holds
    <2>6. child[t][k] \in ChildStatus
      BY TypesAt DEF Inv
    <2> QED
      BY <1>4, <2>2, <2>3, <2>4, <2>5, <2>6 DEF ChildStatus
  <1>9. Clears
    BY DEF Clears, ClearsAt, LeavesStage
  <1> QED
    BY <1>1, <1>5, <1>6, <1>7, <1>8, <1>9, MoveIsAbstract DEF Good, Inv

LEMMA CancelMaintenanceStep ==
  ASSUME Inv, NEW c \in Chains, NEW k \in Kinds, CancelMaintenance(c, k)
  PROVE  Good
  <1> DEFINE t == Newest(k)
  <1>1. /\ LoopFree /\ maint[c] = Running(k) /\ canceller[c] = Nowhere
        /\ UNCHANGED <<up, setup, plan, dropped, cut, lost, backup, made, pc>>
    BY DEF CancelMaintenance, faults, plan
  <1>2. t \in Chains /\ child[t][k] = "running"
    BY NewestRuns DEF CancelMaintenance, Inv
  <1>3. \/ /\ proc' = [proc EXCEPT ![t] = "terminated"]
           /\ canceller' = [canceller EXCEPT ![c] = [target |-> t, kind |-> k]]
           /\ UNCHANGED <<maint, child>>
        \/ CommitCancel(c, t, k) /\ UNCHANGED <<proc, canceller>>
    BY DEF CancelMaintenance
  <1>4. pc[c].stage # "backup"
    BY <1>1, Names DEF Inv, ChainInv
  <1>5. Begun(child[t][k])
    BY <1>2 DEF Begun
  <1> HIDE DEF t
  <1>6. CASE /\ proc' = [proc EXCEPT ![t] = "terminated"]
             /\ canceller' = [canceller EXCEPT ![c] = [target |-> t, kind |-> k]]
             /\ UNCHANGED <<maint, child>>
    <2>1. TypeOK'
      BY <1>1, <1>2, <1>6 DEF Inv, TypeOK
    <2>2. Awaited'
      BY <1>2, <1>5, <1>6 DEF Inv, Awaited, TypeOK
    <2>3. \A d \in Chains : canceller'[d] # Nowhere => pc[d].stage # "backup"
      BY <1>4, <1>6 DEF Inv, ChainInv, TypeOK
    <2> QED
      BY <1>1, <1>6, <2>1, <2>2, <2>3, UnseenStep
  <1>7. CASE CommitCancel(c, t, k) /\ UNCHANGED <<proc, canceller>>
    BY <1>1, <1>2, <1>4, <1>5, <1>7, CommitCancelStep
  <1> QED
    BY <1>3, <1>6, <1>7

LEMMA CancelDoneStep ==
  ASSUME Inv, NEW c \in Chains, CancelDone(c)
  PROVE  Good
  <1> DEFINE t == canceller[c].target
             k == canceller[c].kind
  <1>1. /\ LoopFree /\ canceller[c] # Nowhere
        /\ CommitCancel(c, t, k) \/ UNCHANGED <<maint, child>>
        /\ canceller' = [canceller EXCEPT ![c] = Nowhere]
        /\ UNCHANGED <<up, setup, plan, dropped, cut, lost, backup, made, pc, proc>>
    BY DEF CancelDone, faults, plan
  <1>2. t \in Chains /\ k \in Kinds /\ Begun(child[t][k]) /\ pc[c].stage # "backup"
    BY <1>1 DEF Inv, Awaited, ChainInv, TypeOK
  <1> HIDE DEF t, k
  <1>3. CASE CommitCancel(c, t, k)
    BY <1>1, <1>2, <1>3, CommitCancelStep
  <1>4. CASE UNCHANGED <<maint, child>>
    <2>1. TypeOK'
      BY <1>1, <1>4 DEF Inv, TypeOK, Nowhere, Kinds
    <2>2. Awaited'
      BY <1>1, <1>4 DEF Inv, Awaited, TypeOK
    <2>3. \A d \in Chains : canceller'[d] # Nowhere => pc[d].stage # "backup"
      BY <1>1 DEF Inv, ChainInv, TypeOK
    <2> QED
      BY <1>1, <1>4, <2>1, <2>2, <2>3, UnseenStep
  <1> QED
    BY <1>1, <1>3, <1>4

LEMMA DeleteBackupStep ==
  ASSUME Inv, NEW c \in Chains, DeleteBackup(c)
  PROVE  Good
  <1>1. /\ UNCHANGED <<up, setup, plan, dropped, cut, lost, maint, child, made, pc, proc, canceller>>
        /\ backup' = [backup EXCEPT ![c] = "deleted"]
    BY DEF DeleteBackup, faults, plan
  <1>2. TypeOK'
    BY <1>1 DEF Inv, TypeOK
  <1>3. Awaited'
    BY <1>1 DEF Inv, Awaited
  <1>4. \A d \in Chains : canceller'[d] # Nowhere => pc[d].stage # "backup"
    BY <1>1 DEF Inv, ChainInv
  <1> QED
    BY <1>1, <1>2, <1>3, <1>4, UnseenStep

LEMMA DeleteChildStep ==
  ASSUME Inv, NEW c \in Chains, NEW k \in Kinds, DeleteChild(c, k)
  PROVE  Good
  <1>1. /\ up /\ \A d \in Chains : ~InSegment(d)
        /\ child[c][k] \in {"pending"} \cup EndedStatus
        /\ child' = [child EXCEPT ![c][k] = "deleted"]
        /\ UNCHANGED <<up, setup, plan, dropped, cut, lost, backup, maint, made, pc, proc, canceller>>
    BY DEF DeleteChild, LoopFree, faults, plan
  <1>2. /\ child' \in [Chains -> [Kinds -> ChildStatus]]
        /\ child'[c][k] = "deleted"
        /\ \A l \in Kinds \ {k} : child'[c][l] = child[c][l]
        /\ \A d \in Chains \ {c} : child'[d] = child[d]
    BY <1>1, SetChildAt DEF Inv, ChildStatus
  <1>3. TypeOK'
    BY <1>1, <1>2 DEF Inv, TypeOK, ChildStatus
  <1>4. /\ pc[c].stage # "finish"
        /\ pc[c].stage \in Kinds => pc[c].at \in {"retry", "spawn", "wait"}
    BY <1>1 DEF InSegment
  <1>5. child[c][k] # "absent"
    BY <1>1 DEF EndedStatus
  <1>6. ASSUME NEW l \in Kinds PROVE ChildInv(c, l)'
    BY <1>1, <1>2, <1>4, <1>5 DEF Inv, ChainInv, ChildInv, Positive, Over, Lost
  <1>7. ChainInv(c)'
    <2>1. LastKind(c)' = LastKind(c) /\ LastKind(c) \in Kinds
      BY <1>1 DEF LastKind, Kinds
    <2>2. maint'[c] = "maintenance_completed" =>
            pc[c].stage = "done" /\ child'[c][LastKind(c)] \in Positive
      BY <1>1, <1>2, <2>1 DEF Inv, ChainInv, Positive
    <2>3. pc[c].stage = "prune" => child'[c]["compact"] = "absent"
      BY <1>2, <1>5 DEF Inv, ChainInv, Kinds
    <2> QED
      BY <1>1, <1>6, <2>1, <2>2, <2>3 DEF Inv, ChainInv
  <1>8. OnlyChain(c)
    BY <1>1, <1>2 DEF OnlyChain, Lost
  <1>9. \A d \in Chains, l \in Kinds : Begun(child[d][l]) => Begun(child'[d][l])
    BY <1>2 DEF Begun
  <1>10. Awaited'
    BY <1>1, <1>9, AwaitedStays
  <1>11. AbstractMove(c, k)
    BY <1>1, <1>2 DEF AbstractMove, PhaseAt, PhaseOf, Holds, EndedStatus
  <1>12. \A l \in Kinds \ {k} : Holds(c, l)' <=> Holds(c, l)
    BY <1>1 DEF Holds
  <1> QED
    BY <1>1, <1>2, <1>3, <1>7, <1>8, <1>10, <1>11, <1>12, ChainStep DEF ClearsAt, LeavesStage

LEMMA DeleteScheduleStep ==
  ASSUME Inv, NEW c \in Chains, DeleteSchedule(c)
  PROVE  Good
  <1>1. /\ UNCHANGED <<up, setup, plan, cut, lost, backup, maint, child, made, pc, proc, canceller>>
        /\ dropped' = dropped \cup {c}
    BY DEF DeleteSchedule, faults, plan
  <1>2. TypeOK'
    BY <1>1 DEF Inv, TypeOK
  <1>3. Awaited'
    BY <1>1 DEF Inv, Awaited
  <1>4. \A d \in Chains : canceller'[d] # Nowhere => pc[d].stage # "backup"
    BY <1>1 DEF Inv, ChainInv
  <1> QED
    BY <1>1, <1>2, <1>3, <1>4, UnseenStep

LEMMA CrashStep ==
  ASSUME Inv, Crash
  PROVE  Good
  <1>1. /\ up /\ up' = FALSE /\ UNCHANGED <<setup, plan, dropped, cut, lost, backup, maint, child, made>>
        /\ \A c \in Chains : pc'[c].stage = "done" /\ pc'[c].at = "create" /\ canceller'[c] = Nowhere
    BY DEF Crash, faults, plan
  <1>2. TypeOK'
    BY DEF Crash, faults, Inv, TypeOK, Position, Nowhere, Kinds
  <1>3. \A c \in Chains : ChainInv(c)'
    BY <1>1 DEF Inv, ChainInv, ChildInv, LastKind, Kinds, Lost
  <1>4. Awaited'
    BY <1>1 DEF Awaited
  <1>5. Lifecycle!AbsCrash
    BY <1>1 DEF Lifecycle!AbsCrash, Kinds
  <1>6. Clears
    BY <1>1 DEF Clears, ClearsAt, LeavesStage
  <1> QED
    BY <1>2, <1>3, <1>4, <1>5, <1>6 DEF Good, Inv, Lifecycle!AbsNext

LEMMA RecoverStep ==
  ASSUME Inv, Recover
  PROVE  Good
  <1>1. /\ ~up /\ up' = TRUE /\ UNCHANGED <<setup, plan, dropped, cut, lost, made, pc, proc, canceller>>
        /\ \A c \in Chains : pc[c].stage = "done"
    BY DEF Recover, faults, plan, Inv, ChainInv
  <1>2. \A c \in Chains : \A k \in Kinds :
          child'[c][k] = IF child[c][k] = "running" THEN "failed" ELSE child[c][k]
    BY DEF Recover
  <1>3. ASSUME NEW c \in Chains
        PROVE  maint'[c] = maint[c] \/ \E k \in Kinds : maint'[c] = Failed(k)
    BY DEF Recover
  <1>4. /\ backup' \in [Chains -> {"running", "deleted"} \cup EndedStatus]
        /\ child' \in [Chains -> [Kinds -> ChildStatus]]
    BY DEF Recover, Inv, TypeOK, ChildStatus, EndedStatus
  <1>5. maint' \in [Chains -> MaintStatus]
    <2>1. \A c \in Chains : maint'[c] \in MaintStatus
      BY <1>3, Names DEF Inv, TypeOK
    <2>2. DOMAIN maint' = Chains /\ maint' = [c \in Chains |-> maint'[c]]
      BY DEF Recover
    <2> QED
      BY <2>1, <2>2
  <1>6. TypeOK'
    BY <1>1, <1>4, <1>5 DEF Inv, TypeOK, ChildStatus
  <1>7. ASSUME NEW c \in Chains PROVE ChainInv(c)'
    <2>1. ASSUME NEW k \in Kinds PROVE ChildInv(c, k)'
      <3>1. maint'[c] = Completed(k) => maint[c] = Completed(k)
        BY <1>3, Names
      <3> QED
        BY <1>1, <1>2, <3>1 DEF Inv, ChainInv, ChildInv, Positive, Kinds
    <2>2. LastKind(c)' = LastKind(c) /\ LastKind(c) \in Kinds
      BY <1>1 DEF LastKind, Kinds
    <2>3. maint'[c] = "maintenance_completed" =>
            pc[c].stage = "done" /\ child'[c][LastKind(c)] \in Positive
      BY <1>1, <1>2, <1>3, <2>2, Names DEF Inv, ChainInv, Positive
    <2> QED
      BY <1>1, <2>1, <2>2, <2>3 DEF Inv, ChainInv
  <1>8. Awaited'
    <2>1. \A d \in Chains : \A k \in Kinds : Begun(child[d][k]) => Begun(child'[d][k])
      BY <1>2 DEF Begun
    <2> QED
      BY <1>1, <2>1, AwaitedStays
  <1>9. Lifecycle!AbsRecover
    <2>1. \A c \in Chains, k \in Kinds :
            PhaseOf(child'[c][k]) = IF PhaseOf(child[c][k]) = "active" THEN "ended"
                                    ELSE PhaseOf(child[c][k])
      BY <1>2 DEF PhaseOf
    <2> QED
      BY <1>1, <2>1 DEF Lifecycle!AbsRecover
  <1>10. Clears
    BY <1>1 DEF Clears, ClearsAt, LeavesStage
  <1> QED
    BY <1>6, <1>7, <1>8, <1>9, <1>10 DEF Good, Inv, Lifecycle!AbsNext

-----------------------------------------------------------------------------
(* The theorems. *)

LEMMA InitInv == Init => Inv
  <1> SUFFICES ASSUME Init PROVE Inv
    OBVIOUS
  <1>1. TypeOK
    BY DEF Init, TypeOK, MaintStatus, Position, Nowhere, Kinds
  <1>2. ASSUME NEW c \in Chains, NEW k \in Kinds PROVE ChildInv(c, k)
    BY Names DEF Init, ChildInv, Kinds
  <1>3. \A c \in Chains : ChainInv(c)
    BY <1>2 DEF Init, ChainInv
  <1> QED
    BY <1>1, <1>3 DEF Init, Inv, Awaited

LEMMA Step ==
  ASSUME Inv, [Next]_vars
  PROVE  Good
  <1>1. ASSUME NEW c \in Chains, NEW k \in Kinds,
               \/ Stage(c, k) \/ CommitLocked(c, k) \/ Heartbeat(c, k)
               \/ CancelMaintenance(c, k) \/ DeleteChild(c, k)
        PROVE  Good
    <2>1. CASE Heartbeat(c, k)
      BY <2>1, ProcStep DEF Heartbeat, faults, plan
    <2> QED
      BY <1>1, <2>1, CreateChildStep, MarkBackupStep, StartChildStep, RetryStartStep, SpawnedStep,
         ServiceEndStep, SettleStep, CommitLockedStep, CancelMaintenanceStep, DeleteChildStep DEF Stage
  <1>2. ASSUME NEW c \in Chains,
               \/ BackupEnds(c) \/ Finish(c) \/ ProcessExit(c) \/ CancelDone(c)
               \/ DeleteBackup(c) \/ DeleteSchedule(c)
        PROVE  Good
    <2>1. CASE ProcessExit(c)
      BY <2>1, ProcStep DEF ProcessExit, faults, plan
    <2> QED
      BY <1>2, <2>1, BackupEndsStep, FinishStep, CancelDoneStep, DeleteBackupStep,
         DeleteScheduleStep
  <1>3. CASE UNCHANGED vars
    <2>1. TypeOK' /\ Awaited' /\ \A d \in Chains : canceller'[d] # Nowhere => pc[d].stage # "backup"
      BY <1>3 DEF vars, faults, Inv, TypeOK, Awaited, ChainInv
    <2> QED
      BY <1>3, <2>1, UnseenStep DEF vars, faults, plan
  <1> QED
    BY <1>1, <1>2, <1>3, CrashStep, RecoverStep DEF Next

\* The invariant of the chains, their rows and cancel requests, which the theorems below
\* rest on.
THEOREM IndInv == Spec => []Inv
  <1>1. Inv /\ [Next]_vars => Inv'
    BY Step DEF Good
  <1> QED
    BY InitInv, <1>1, PTL DEF Spec

\* The chains, the cancel requests, deletions and a restart keep every variable in its type.
THEOREM TypeCorrect == Spec => []TypeOK
  <1>1. Inv => TypeOK
    BY DEF Inv
  <1> QED
    BY IndInv, <1>1, PTL

\* A backup row says that maintenance was completed only if the child row behind it was.
THEOREM MaintenanceIsHonest == Spec => []HonestMaintenance
  <1>1. Inv => HonestMaintenance
    BY DEF Inv, ChainInv, ChildInv, HonestMaintenance, Positive
  <1> QED
    BY IndInv, <1>1, PTL

\* A chain that leaves a stage takes the running status off the backup row, unless one of
\* the two rows was deleted, the schedule of completed maintenance was, or a commit of the
\* chain itself met a lock. That a service failed, was cancelled or gave up changes nothing.
THEOREM StagesClear == Spec => MaintenanceCleared
  <1>1. Inv /\ [Next]_vars => Clears
    BY Step DEF Good
  <1> QED
    BY IndInv, <1>1, PTL DEF Spec, MaintenanceCleared, Clears, ClearsAt

\* The child rows of scheduled maintenance implement the safety part of the lifecycle all
\* job rows are promised; the rows a service or a chain gave up because of a lock are lost
\* in it.
THEOREM ImplementsLifecycleSafety == Spec => Lifecycle!AbsSafety
  <1>1. Init => Lifecycle!AbsInit
    BY DEF Init, Lifecycle!AbsInit, PhaseOf, Kinds
  <1>2. Inv /\ [Next]_vars => [Lifecycle!AbsNext]_(Lifecycle!avars)
    BY Step DEF Good
  <1> QED
    BY <1>1, <1>2, IndInv, PTL DEF Spec, Lifecycle!AbsSafety
=============================================================================
