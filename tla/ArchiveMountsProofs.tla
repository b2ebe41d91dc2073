------------------------- MODULE ArchiveMountsProofs -------------------------
(***************************************************************************)
(* For every set of mounts, requests to unmount and directories: a mount   *)
(* that ended leaves nothing, and mounts in directories of the service do  *)
(* not take each other down.                                               *)
(***************************************************************************)
EXTENDS ArchiveMounts, ArchiveCache, FiniteSetTheorems, WellFoundedInduction, TLAPS, SequenceTheorems

\* What a request has, by what became of it.
RequestInv(i) ==
  /\ request[i] # "new" => point[i] \in Points
  /\ request[i] \in {"new", "failed", "unmounted"} => ~Alive(i)
  /\ i \in key => request[i] \in {"waiting", "mounted", "lost"}
  /\ i \in saved \cup tracked => request[i] \in {"mounted", "lost"}
  /\ request[i] = "waiting" => up = "up"

\* A mount is being unmounted by directory when its process has ended.
UnmountInv(i, u) ==
  unmount[<<i, u>>] = "umount" =>
    ~Alive(i) /\ up = "up" /\ request[i] \in {"mounted", "lost", "unmounted"}

\* What is on a directory was mounted there.
StackInv(p) ==
  \A k \in 1 .. Len(stack[p]) : point[stack[p][k]] = p /\ request[stack[p][k]] # "new"

\* The list of mounts and its file agree but for a moment of the start.
ListInv == tracked = IF up = "down" THEN {} ELSE saved

\* A mount that is being made or is known has its directory for itself.
Holds(i) == request[i] = "waiting" \/ i \in saved
NoError  == \A r \in Mounts \X Unmounts : unmount[r] # "error"
Apart(i) ==
  Holds(i) /\ point[i] \notin named =>
    /\ point[i] \in dirs
    /\ \A j \in Mounts : Holds(j) /\ point[j] = point[i] => j = i

MountsInv == \A i \in Mounts : RequestInv(i) /\ \A u \in Unmounts : UnmountInv(i, u)
StacksInv == \A p \in Points : StackInv(p)
ApartInv == NoError => \A i \in Mounts : Apart(i)
Inv == TypeOK /\ MountsInv /\ StacksInv /\ ListInv /\ ApartInv
-----------------------------------------------------------------------------
(* What is mounted on a directory. *)

\* What is left of some mounts when some are taken off.
Within(t, s) ==
  /\ t \in Seq(Mounts)
  /\ \A k \in 1 .. Len(t) : \E l \in 1 .. Len(s) : t[k] = s[l]
  /\ s = <<>> => t = <<>>

\* A set of natural numbers has a least element.
LEMMA HasLeast ==
  ASSUME NEW S \in SUBSET Nat, S # {}
  PROVE  \E x \in S : \A y \in S : x <= y
  <1> DEFINE Below(x) == {y \in S : y < x}
             T == {Below(x) : x \in S}
             R == StrictSubsetOrdering(Nat)
  <1>0. \A x \in S : x \in Nat
    OBVIOUS
  <1>1. ASSUME NEW x \in S
        PROVE  /\ Below(x) \in FiniteSubsetsOf(Nat) /\ \A y \in Below(x) : y \in S
               /\ \A y \in S : y \in Below(x) <=> y < x
    <2>1. \A y \in Below(x) : y \in Nat /\ y <= x
      BY <1>0
    <2>2. x \in Nat
      BY <1>0
    <2>3. \A y \in S : y \in Below(x) <=> y < x
      OBVIOUS
    <2>4. \A y \in Below(x) : y \in S
      OBVIOUS
    <2> HIDE DEF Below
    <2> QED
      BY <2>1, <2>2, <2>3, <2>4, FS_BoundedSetOfNaturals DEF FiniteSubsetsOf
  <1> HIDE DEF Below
  <1>2. T \subseteq FiniteSubsetsOf(Nat) /\ T # {}
    BY <1>1
  <1>3. PICK A \in T : \A B \in T : ~(<<B, A>> \in R)
    <2>1. IsWellFoundedOn(R, FiniteSubsetsOf(Nat))
      BY FS_StrictSubsetOrderingWellFounded
    <2> HIDE DEF T, R
    <2> QED
      BY <1>2, <2>1, WFMin
  <1>4. PICK x \in S : A = Below(x)
    BY <1>3
  <1>5. ASSUME NEW y \in S, y < x
        PROVE  FALSE
    <2>1. Below(y) \subseteq Below(x)
      <3>1. ASSUME NEW z \in Below(y)
            PROVE  z \in Below(x)
        <4>1. z \in S /\ z < y
          BY <1>1
        <4>2. z < x
          BY <1>0, <1>5, <4>1
        <4> QED
          BY <1>1, <4>1, <4>2
      <3> QED
        BY <3>1
    <2>2. y \in Below(x) /\ y \notin Below(y)
      BY <1>0, <1>1, <1>5
    <2>3. Below(x) \subseteq Nat
      BY <1>0, <1>1
    <2>4. <<Below(y), Below(x)>> \in R
      BY <2>1, <2>2, <2>3 DEF StrictSubsetOrdering
    <2> QED
      BY <1>3, <1>4, <2>4
  <1> QED
    BY <1>0, <1>5

\* What remains when the first of a mount's entries is taken off.
LEMMA RemoveFirstWithin ==
  ASSUME NEW s \in Seq(Mounts), NEW i
  PROVE  Within(RemoveFirst(s, i), s)
  <1>1. CASE \E k \in 1 .. Len(s) : s[k] = i
    <2> DEFINE S == {k \in 1 .. Len(s) : s[k] = i}
    <2>1. S \in SUBSET Nat /\ S # {}
      BY <1>1
    <2>2. PICK m \in S : \A l \in S : m <= l
      BY <2>1, HasLeast
    <2>3. Min(S) \in S
      BY <2>2 DEF Min
    <2>4. RemoveFirst(s, i) = SubSeq(s, 1, Min(S) - 1) \o SubSeq(s, Min(S) + 1, Len(s))
      BY <1>1, <2>1 DEF RemoveFirst, RemoveAt, SelectInSeq
    <2>5. PICK n \in 1 .. Len(s) : n = Min(S)
      BY <2>3
    <2> HIDE DEF S
    <2>6. RemoveFirst(s, i) = SubSeq(s, 1, n - 1) \o SubSeq(s, n + 1, Len(s))
      BY <2>4, <2>5
    <2> DEFINE a == SubSeq(s, 1, n - 1)
               b == SubSeq(s, n + 1, Len(s))
    <2>7. /\ a \in Seq(Mounts) /\ Len(a) = n - 1
          /\ \A k \in 1 .. n - 1 : a[k] = s[k]
      OBVIOUS
    <2>8. /\ b \in Seq(Mounts) /\ Len(b) = Len(s) - n
          /\ \A k \in 1 .. Len(s) - n : b[k] = s[n + k]
      OBVIOUS
    <2> HIDE DEF a, b
    <2>9. RemoveFirst(s, i) = a \o b
      BY <2>6 DEF a, b
    <2>10. a \o b \in Seq(Mounts) /\ Len(a \o b) = Len(s) - 1
      <3>1. Len(s) \in Nat /\ n - 1 \in Nat /\ Len(s) - n \in Nat
        OBVIOUS
      <3>2. a \o b \in Seq(Mounts) /\ Len(a \o b) = Len(a) + Len(b)
        <4>1. a \in Seq(Mounts) /\ b \in Seq(Mounts)
          BY <2>7, <2>8
        <4> QED
          BY <4>1
      <3> QED
        BY <2>7, <2>8, <3>1, <3>2
    <2>11. ASSUME NEW k \in 1 .. Len(a \o b)
           PROVE  \E l \in 1 .. Len(s) : (a \o b)[k] = s[l]
      <3>1. CASE k < n
        <4>1. (a \o b)[k] = a[k] /\ k \in 1 .. n - 1
          BY <2>7, <2>8, <2>10, <3>1
        <4> QED
          BY <2>7, <4>1
      <3>2. CASE k >= n
        <4>1. PICK l \in 1 .. Len(s) - n : l = k - (n - 1)
          BY <2>10, <3>2
        <4>2. (a \o b)[k] = b[l]
          BY <2>7, <2>8, <2>10, <3>2, <4>1
        <4>3. b[l] = s[n + l] /\ n + l \in 1 .. Len(s)
          BY <2>8
        <4> QED
          BY <4>2, <4>3
      <3> QED
        BY <2>10, <3>1, <3>2
    <2>12. s # <<>>
      BY <1>1
    <2> QED
      BY <2>9, <2>10, <2>11, <2>12 DEF Within
  <1>2. CASE ~\E k \in 1 .. Len(s) : s[k] = i
    BY <1>2 DEF RemoveFirst, Within
  <1> QED
    BY <1>1, <1>2
LEMMA FrontWithin ==
  ASSUME NEW s \in Seq(Mounts), s # <<>>
  PROVE  /\ Within(Front(s), s) /\ Last(s) \in Mounts
         /\ \E l \in 1 .. Len(s) : Last(s) = s[l]
  BY DEF Front, Last, Within

LEMMA SameWithin ==
  ASSUME NEW s \in Seq(Mounts)
  PROVE  Within(s, s)
  BY DEF Within

LEMMA StackShrinks ==
  ASSUME TypeOK, NEW q \in Points, NEW t, Within(t, stack[q]),
         stack' = [stack EXCEPT ![q] = t]
  PROVE  /\ stack' \in [Points -> Seq(Mounts)]
         /\ \A p \in Points : Within(stack'[p], stack[p])
  <1>1. stack \in [Points -> Seq(Mounts)] /\ t \in Seq(Mounts)
    BY DEF TypeOK, Within
  <1>2. stack' \in [Points -> Seq(Mounts)]
    BY <1>1
  <1>3. ASSUME NEW p \in Points
        PROVE  Within(stack'[p], stack[p])
    <2>1. Within(stack[p], stack[p])
      BY <1>1, SameWithin
    <2> QED
      BY <1>1, <2>1
  <1> QED
    BY <1>2, <1>3

\* Nothing that is mounted comes to be somewhere else.
LEMMA StacksStep ==
  ASSUME StacksInv, stack' \in [Points -> Seq(Mounts)],
         \A p \in Points : Within(stack'[p], stack[p]),
         \A i \in Mounts : request[i] # "new" => point'[i] = point[i] /\ request'[i] # "new",
         stack \in [Points -> Seq(Mounts)]
  PROVE  StacksInv'
  <1>1. ASSUME NEW p \in Points, NEW k \in 1 .. Len(stack'[p])
        PROVE  point'[stack'[p][k]] = p /\ request'[stack'[p][k]] # "new"
    <2>1. PICK l \in 1 .. Len(stack[p]) : stack'[p][k] = stack[p][l]
      BY DEF Within
    <2>2. point[stack[p][l]] = p /\ request[stack[p][l]] # "new"
      BY DEF StacksInv, StackInv
    <2>3. stack[p][l] \in Mounts
      OBVIOUS
    <2> QED
      BY <2>1, <2>2, <2>3
  <1> QED
    BY <1>1 DEF StacksInv, StackInv

\* The process of a mount ends.
LEMMA EndProcessStep ==
  ASSUME TypeOK, NEW i \in Mounts, point[i] \in Points, EndProcess(i)
  PROVE  /\ stack' \in [Points -> Seq(Mounts)]
         /\ \A p \in Points : Within(stack'[p], stack[p])
         /\ proc' = [proc EXCEPT ![i] = "ended"]
  <1>1. stack[point[i]] \in Seq(Mounts)
    BY DEF TypeOK
  <1>2. Within(RemoveFirst(stack[point[i]], i), stack[point[i]])
    BY <1>1, RemoveFirstWithin
  <1>3. stack' = [stack EXCEPT ![point[i]] = RemoveFirst(stack[point[i]], i)]
    BY DEF EndProcess, TypeOK
  <1> QED
    BY <1>2, <1>3, StackShrinks DEF EndProcess
\* What is visible on a directory is taken off.
LEMMA PopStep ==
  ASSUME TypeOK, StacksInv, NEW p \in Points, Mounted(p),
         stack' = [stack EXCEPT ![p] = Front(@)]
  PROVE  /\ stack' \in [Points -> Seq(Mounts)]
         /\ \A q \in Points : Within(stack'[q], stack[q])
         /\ Last(stack[p]) \in Mounts
         /\ point[Last(stack[p])] = p /\ request[Last(stack[p])] # "new"
  <1>1. stack[p] \in Seq(Mounts) /\ stack[p] # <<>>
    BY DEF TypeOK, Mounted
  <1>2. stack' = [stack EXCEPT ![p] = Front(stack[p])]
    BY DEF TypeOK
  <1>3. PICK l \in 1 .. Len(stack[p]) : Last(stack[p]) = stack[p][l]
    BY <1>1, FrontWithin
  <1>4. point[stack[p][l]] = p /\ request[stack[p][l]] # "new"
    BY DEF StacksInv, StackInv
  <1> QED
    BY <1>1, <1>2, <1>3, <1>4, FrontWithin, StackShrinks

-----------------------------------------------------------------------------
(* The initial states, and one lemma for each action. *)

LEMMA InitInv == Init => Inv
  <1> SUFFICES ASSUME Init
               PROVE  Inv
    OBVIOUS
  <1>1. TypeOK
    BY MaxFaultsAssumption DEF Init, TypeOK, Mounted, Points
  <1>2. MountsInv
    BY DEF Init, MountsInv, RequestInv, UnmountInv, Alive
  <1>3. StacksInv
    BY DEF Init, StacksInv, StackInv
  <1>4. ListInv /\ ApartInv
    BY DEF Init, ListInv, ApartInv, Apart, Holds
  <1> QED
    BY <1>1, <1>2, <1>3, <1>4 DEF Inv

LEMMA MountArchiveStep ==
  ASSUME Inv, NEW i \in Mounts, MountArchive(i)
  PROVE  Inv'
  <1>1. PICK p \in FreePoint : StartMount(i, p)
    BY DEF MountArchive
  <1>2. p \in Points /\ p \notin dirs
    BY DEF FreePoint, Points
  <1>3. TypeOK'
    BY <1>1, <1>2 DEF Inv, TypeOK, MountArchive, StartMount, Mounted
  <1>4. MountsInv'
    BY <1>1, <1>2 DEF Inv, TypeOK, MountsInv, RequestInv, UnmountInv, Alive,
                      MountArchive, StartMount
  <1>5. StacksInv'
    BY <1>1 DEF Inv, TypeOK, StacksInv, StackInv, MountArchive, StartMount
  <1>6. ListInv'
    BY DEF Inv, ListInv, MountArchive
  <1>7. ApartInv'
    BY <1>1, <1>2 DEF Inv, TypeOK, MountsInv, RequestInv, ApartInv, NoError, Apart, Holds,
                      MountArchive, StartMount
  <1> QED
    BY <1>3, <1>4, <1>5, <1>6, <1>7 DEF Inv

LEMMA MountNamedStep ==
  ASSUME Inv, NEW i \in Mounts, MountNamed(i)
  PROVE  Inv'
  <1> DEFINE old == Last(stack[Plain])
  <1>1. Plain \in Points
    BY DEF Points
  <1>2. /\ stack' \in [Points -> Seq(Mounts)]
        /\ \A q \in Points : Within(stack'[q], stack[q])
        /\ \/ proc' = [proc EXCEPT ![i] = "starting"]
           \/ /\ proc' = [proc EXCEPT ![old] = "ended", ![i] = "starting"]
              /\ old \in Mounts /\ request[old] # "new"
    <2>1. CASE /\ Mounted(Plain)
               /\ stack' = [stack EXCEPT ![Plain] = Front(@)]
               /\ proc' = [proc EXCEPT ![old] = "ended", ![i] = "starting"]
      BY <1>1, <2>1, PopStep DEF Inv
    <2>2. CASE UNCHANGED stack /\ proc' = [proc EXCEPT ![i] = "starting"]
      BY <2>2, SameWithin DEF Inv, TypeOK
    <2> QED
      BY <2>1, <2>2 DEF MountNamed
  <1> HIDE DEF old
  <1>3. /\ up = "up" /\ StartMount(i, Plain) /\ named' = named \cup {Plain}
        /\ UNCHANGED <<up, unmount, tracked, saved>>
    BY DEF MountNamed
  <1>4. \A p \in Points : stack'[p] # <<>> => stack[p] # <<>>
    BY <1>2 DEF Within
  <1>5. TypeOK'
    <2>1. faults' \in 0 .. MaxFaults
      BY MaxFaultsAssumption DEF Inv, TypeOK, MountNamed, Fault
    <2> QED
      BY <1>1, <1>2, <1>3, <1>4, <2>1 DEF Inv, TypeOK, StartMount, Mounted
  <1>6. MountsInv'
    <2>1. \A j \in Mounts : Alive(j)' => Alive(j) \/ j = i
      BY <1>2 DEF Inv, TypeOK, Alive
    <2>2. ASSUME NEW j \in Mounts
          PROVE  RequestInv(j)'
      BY <1>1, <1>3, <2>1 DEF Inv, TypeOK, MountsInv, RequestInv, StartMount
    <2>3. ASSUME NEW j \in Mounts, NEW u \in Unmounts
          PROVE  UnmountInv(j, u)'
      BY <1>3, <2>1 DEF Inv, TypeOK, MountsInv, UnmountInv, StartMount
    <2> QED
      BY <2>2, <2>3 DEF MountsInv
  <1>7. StacksInv'
    BY <1>2, <1>3, StacksStep DEF Inv, TypeOK, StartMount
  <1>8. ListInv'
    BY <1>3 DEF Inv, ListInv
  <1>9. ApartInv'
    BY <1>1, <1>3 DEF Inv, TypeOK, MountsInv, RequestInv, ApartInv, NoError, Apart, Holds,
                      StartMount
  <1> QED
    BY <1>5, <1>6, <1>7, <1>8, <1>9 DEF Inv

LEMMA ServeStep ==
  ASSUME Inv, NEW i \in Mounts, Serve(i)
  PROVE  Inv'
  <1>1. request[i] # "new" /\ point[i] \in Points
    BY DEF Inv, MountsInv, RequestInv, Serve, Alive
  <1>2. proc' \in [Mounts -> {"none", "starting", "serving", "ended"}]
        /\ \A j \in Mounts : Alive(j)' => Alive(j)
    BY DEF Inv, TypeOK, Serve, Alive
  <1>3. /\ stack' \in [Points -> Seq(Mounts)]
        /\ \A p \in Points : stack'[p] = stack[p]
             \/ (stack'[p] = Append(stack[p], i) /\ p = point[i] /\ p \in dirs)
    <2>1. stack \in [Points -> Seq(Mounts)]
      BY DEF Inv, TypeOK
    <2>2. CASE /\ point[i] \in dirs
               /\ stack' = [stack EXCEPT ![point[i]] = Append(stack[point[i]], i)]
      <3>1. Append(stack[point[i]], i) \in Seq(Mounts)
        BY <1>1, <2>1
      <3> QED
        BY <1>1, <2>1, <2>2, <3>1
    <2>3. CASE stack' = stack
      BY <2>1, <2>3
    <2> QED
      BY <1>1, <2>1, <2>2, <2>3 DEF Serve
  <1>4. TypeOK'
    <2>1. \A p \in Points : stack'[p] # <<>> => p \in dirs
      BY <1>3 DEF Inv, TypeOK, Mounted
    <2> QED
      BY <1>2, <1>3, <2>1 DEF Inv, TypeOK, Serve, Mounted
  <1>5. MountsInv'
    BY <1>2 DEF Inv, MountsInv, RequestInv, UnmountInv, Serve
  <1>6. ASSUME NEW p \in Points, NEW k \in 1 .. Len(stack'[p])
        PROVE  point[stack'[p][k]] = p /\ request[stack'[p][k]] # "new"
    <2>0. \A l \in 1 .. Len(stack[p]) : point[stack[p][l]] = p /\ request[stack[p][l]] # "new"
      BY DEF Inv, StacksInv, StackInv
    <2>1. CASE stack'[p] = stack[p]
      BY <2>0, <2>1
    <2>2. CASE stack'[p] = Append(stack[p], i) /\ p = point[i]
      <3>1. stack[p] \in Seq(Mounts)
        BY DEF Inv, TypeOK
      <3>2. (k \in 1 .. Len(stack[p]) /\ stack'[p][k] = stack[p][k]) \/ stack'[p][k] = i
        BY <2>2, <3>1
      <3> QED
        BY <1>1, <2>0, <2>2, <3>2
    <2> QED
      BY <1>3, <2>1, <2>2
  <1>7. StacksInv'
    BY <1>6 DEF StacksInv, StackInv, Serve
  <1>8. ListInv' /\ ApartInv'
    BY DEF Inv, ListInv, ApartInv, NoError, Apart, Holds, Serve
  <1> QED
    BY <1>4, <1>5, <1>7, <1>8 DEF Inv

\* A process ends, and takes its mount off.
LEMMA ProcessEndsStep ==
  ASSUME Inv, NEW i \in Mounts, ProcessEnds(i)
  PROVE  Inv'
  <1>1. point[i] \in Points /\ EndProcess(i)
    BY DEF Inv, MountsInv, RequestInv, ProcessEnds
  <1>2. /\ stack' \in [Points -> Seq(Mounts)]
        /\ \A p \in Points : Within(stack'[p], stack[p])
        /\ proc' = [proc EXCEPT ![i] = "ended"]
    BY <1>1, EndProcessStep DEF Inv
  <1>3. \A p \in Points : stack'[p] # <<>> => stack[p] # <<>>
    BY <1>2 DEF Within
  <1>4. faults' \in 0 .. MaxFaults
    BY MaxFaultsAssumption DEF Inv, TypeOK, ProcessEnds, Fault
  <1>5. TypeOK'
    BY <1>2, <1>3, <1>4 DEF Inv, TypeOK, ProcessEnds, Mounted
  <1>6. MountsInv'
    <2>1. \A j \in Mounts : Alive(j)' => Alive(j)
      BY <1>2 DEF Inv, TypeOK, Alive
    <2> QED
      BY <2>1 DEF Inv, MountsInv, RequestInv, UnmountInv, ProcessEnds
  <1>7. StacksInv'
    BY <1>2, StacksStep DEF Inv, TypeOK, ProcessEnds
  <1>8. ListInv' /\ ApartInv'
    BY DEF Inv, ListInv, ApartInv, NoError, Apart, Holds, ProcessEnds
  <1> QED
    BY <1>5, <1>6, <1>7, <1>8 DEF Inv

LEMMA VerifyMountStep ==
  ASSUME Inv, NEW i \in Mounts, VerifyMount(i)
  PROVE  Inv'
  <1>1. TypeOK'
    BY DEF Inv, TypeOK, VerifyMount, Mounted
  <1>2. MountsInv'
    BY DEF Inv, TypeOK, MountsInv, RequestInv, UnmountInv, VerifyMount, Alive
  <1>3. StacksInv'
    BY DEF Inv, TypeOK, StacksInv, StackInv, VerifyMount
  <1>4. ListInv'
    BY DEF Inv, TypeOK, ListInv, VerifyMount
  <1>5. ApartInv'
    <2>1. \A j \in Mounts : Holds(j)' => Holds(j)
      BY DEF Inv, TypeOK, ListInv, VerifyMount, Holds
    <2> QED
      BY <2>1 DEF Inv, ApartInv, NoError, Apart, VerifyMount
  <1> QED
    BY <1>1, <1>2, <1>3, <1>4, <1>5 DEF Inv

\* A request to mount that fails, whatever became of its process.
LEMMA MountFailsStep ==
  ASSUME Inv, NEW i \in Mounts, NEW outcome \in {"failed", "leaked"}, MountFails(i, outcome),
         stack' \in [Points -> Seq(Mounts)],
         \A p \in Points : Within(stack'[p], stack[p]),
         proc' \in [Mounts -> {"none", "starting", "serving", "ended"}],
         \A j \in Mounts : Alive(j)' => Alive(j),
         outcome = "failed" => ~Alive(i)',
         faults' \in 0 .. MaxFaults
  PROVE  Inv'
  <1>1. \A p \in Points : stack'[p] # <<>> => stack[p] # <<>>
    BY DEF Within
  <1>2. TypeOK'
    BY <1>1 DEF Inv, TypeOK, MountFails, Mounted
  <1>3. ASSUME NEW j \in Mounts
        PROVE  RequestInv(j)'
    BY DEF Inv, TypeOK, MountsInv, RequestInv, MountFails
  <1>4. ASSUME NEW j \in Mounts, NEW u \in Unmounts
        PROVE  UnmountInv(j, u)'
    BY DEF Inv, TypeOK, MountsInv, UnmountInv, MountFails
  <1>5. StacksInv'
    <2>1. \A j \in Mounts : request[j] # "new" => point'[j] = point[j] /\ request'[j] # "new"
      BY DEF Inv, TypeOK, MountFails
    <2> QED
      BY <2>1, StacksStep DEF Inv, TypeOK
  <1>6. ListInv'
    BY DEF Inv, ListInv, MountFails
  <1>7. ApartInv'
    <2>1. Holds(i) /\ i \notin saved
      BY DEF Inv, MountsInv, RequestInv, MountFails, Holds
    <2>2. \A j \in Mounts : Holds(j)' => Holds(j) /\ j # i
      BY <2>1 DEF Inv, TypeOK, MountFails, Holds
    <2>3. ASSUME NoError', NEW j \in Mounts, Holds(j)', point'[j] \notin named'
          PROVE  /\ point'[j] \in dirs'
                 /\ \A k \in Mounts : Holds(k)' /\ point'[k] = point'[j] => k = j
      <3>1. Apart(j) /\ Holds(j) /\ j # i
        BY <2>2, <2>3 DEF Inv, ApartInv, NoError, MountFails
      <3>2. point[j] \in dirs /\ point[j] # point[i]
        BY <2>1, <2>3, <3>1 DEF Apart, MountFails
      <3> QED
        BY <2>2, <2>3, <3>1, <3>2 DEF Apart, MountFails
    <2> QED
      BY <2>3 DEF ApartInv, Apart
  <1> QED
    BY <1>2, <1>3, <1>4, <1>5, <1>6, <1>7 DEF Inv, MountsInv

LEMMA ProcessExitedStep ==
  ASSUME Inv, NEW i \in Mounts, ProcessExited(i)
  PROVE  Inv'
  <1>1. \A p \in Points : Within(stack'[p], stack[p])
    BY SameWithin DEF Inv, TypeOK, ProcessExited
  <1> QED
    BY <1>1, MountFailsStep DEF ProcessExited, Inv, TypeOK, Alive

LEMMA MountTimeoutStep ==
  ASSUME Inv, NEW i \in Mounts, MountTimeout(i)
  PROVE  Inv'
  <1>1. point[i] \in Points /\ EndProcess(i) /\ MountFails(i, "failed")
    BY DEF Inv, MountsInv, RequestInv, MountTimeout, MountFails
  <1>2. /\ stack' \in [Points -> Seq(Mounts)]
        /\ \A p \in Points : Within(stack'[p], stack[p])
        /\ proc' = [proc EXCEPT ![i] = "ended"]
    BY <1>1, EndProcessStep DEF Inv
  <1>3. /\ proc' \in [Mounts -> {"none", "starting", "serving", "ended"}]
        /\ \A j \in Mounts : Alive(j)' => Alive(j)
        /\ ~Alive(i)'
    BY <1>2 DEF Inv, TypeOK, Alive
  <1>4. faults' \in 0 .. MaxFaults
    BY DEF Inv, TypeOK, MountTimeout
  <1> QED
    BY <1>1, <1>2, <1>3, <1>4, MountFailsStep

LEMMA ListFailsStep ==
  ASSUME Inv, NEW i \in Mounts, ListFails(i)
  PROVE  Inv'
  <1>1. \A p \in Points : Within(stack'[p], stack[p])
    BY SameWithin DEF Inv, TypeOK, ListFails
  <1>2. faults' \in 0 .. MaxFaults
    BY MaxFaultsAssumption DEF Inv, TypeOK, ListFails, Fault
  <1> QED
    BY <1>1, <1>2, MountFailsStep DEF ListFails, Inv, TypeOK, Alive

LEMMA StartUnmountStep ==
  ASSUME Inv, NEW i \in Mounts, NEW u \in Unmounts, StartUnmount(i, u)
  PROVE  Inv'
  <1>1. /\ request[i] \in {"mounted", "lost"} /\ point[i] \in Points
        /\ up = "up" /\ unmount' = [unmount EXCEPT ![<<i, u>>] = "umount"]
        /\ UNCHANGED <<up, dirs, request, point, named, key, tracked, saved>>
    BY DEF Inv, MountsInv, RequestInv, StartUnmount
  <1>2. /\ stack' \in [Points -> Seq(Mounts)]
        /\ \A p \in Points : Within(stack'[p], stack[p])
        /\ proc' = proc \/ proc' = [proc EXCEPT ![i] = "ended"]
        /\ ~Alive(i)'
    <2>1. CASE ~Alive(i) /\ UNCHANGED <<stack, proc>>
      BY <2>1, SameWithin DEF Inv, TypeOK, Alive
    <2>2. CASE EndProcess(i)
      BY <1>1, <2>2, EndProcessStep DEF Inv, TypeOK, Alive
    <2>3. CASE UNCHANGED stack /\ proc' = [proc EXCEPT ![i] = "ended"]
      BY <2>3, SameWithin DEF Inv, TypeOK, Alive
    <2> QED
      BY <2>1, <2>2, <2>3 DEF StartUnmount
  <1>3. /\ proc' \in [Mounts -> {"none", "starting", "serving", "ended"}]
        /\ \A j \in Mounts : Alive(j)' => Alive(j)
    BY <1>2 DEF Inv, TypeOK, Alive
  <1>4. faults' \in 0 .. MaxFaults
    BY MaxFaultsAssumption DEF Inv, TypeOK, StartUnmount, Fault
  <1>5. \A p \in Points : stack'[p] # <<>> => stack[p] # <<>>
    BY <1>2 DEF Within
  <1>6. TypeOK'
    BY <1>1, <1>2, <1>3, <1>4, <1>5 DEF Inv, TypeOK, Mounted
  <1>7. ASSUME NEW j \in Mounts
        PROVE  RequestInv(j)' /\ \A v \in Unmounts : UnmountInv(j, v)'
    BY <1>1, <1>2, <1>3 DEF Inv, TypeOK, MountsInv, RequestInv, UnmountInv
  <1>8. StacksInv'
    BY <1>1, <1>2, StacksStep DEF Inv, TypeOK
  <1>9. ListInv' /\ ApartInv'
    <2>1. NoError' => NoError
      <3>1. unmount[<<i, u>>] # "error" /\ unmount \in [Mounts \X Unmounts -> {"none", "umount", "done", "error"}]
        BY DEF Inv, TypeOK, StartUnmount
      <3>2. \A r \in Mounts \X Unmounts : r # <<i, u>> => unmount'[r] = unmount[r]
        BY <1>1, <3>1
      <3> QED
        BY <3>1, <3>2 DEF NoError
    <2> QED
      BY <1>1, <2>1 DEF Inv, ListInv, ApartInv, Apart, Holds
  <1> QED
    BY <1>6, <1>7, <1>8, <1>9 DEF Inv, MountsInv

LEMMA FinishUnmountStep ==
  ASSUME Inv, NEW i \in Mounts, NEW u \in Unmounts, FinishUnmount(i, u)
  PROVE  Inv'
  <1> DEFINE p == point[i]
             r == <<i, u>>
  <1>1. /\ up = "up" /\ request[i] \in {"mounted", "lost", "unmounted"} /\ ~Alive(i)
        /\ p \in Points /\ UnmountPoint(p)
        /\ r \in Mounts \X Unmounts
    BY DEF Inv, MountsInv, RequestInv, UnmountInv, FinishUnmount
  <1>2. /\ stack' \in [Points -> Seq(Mounts)]
        /\ \A q \in Points : Within(stack'[q], stack[q])
        /\ proc' = proc \/ \E top \in Mounts : proc' = [proc EXCEPT ![top] = "ended"]
    <2>1. CASE UNCHANGED <<stack, proc>>
      BY <2>1, SameWithin DEF Inv, TypeOK
    <2>2. CASE /\ Mounted(p)
               /\ stack' = [stack EXCEPT ![p] = Front(@)]
               /\ proc' = [proc EXCEPT ![Last(stack[p])] = "ended"]
      <3> HIDE DEF p
      <3> QED
        BY <1>1, <2>2, PopStep DEF Inv
    <2> QED
      BY <1>1, <2>1, <2>2 DEF UnmountPoint
  <1>3. /\ proc' \in [Mounts -> {"none", "starting", "serving", "ended"}]
        /\ \A j \in Mounts : Alive(j)' => Alive(j)
    BY <1>2 DEF Inv, TypeOK, Alive
  <1>4. faults' \in 0 .. MaxFaults
    BY <1>1, MaxFaultsAssumption DEF Inv, TypeOK, UnmountPoint, Fault
  <1>5. \A q \in Points : stack'[q] # <<>> => stack[q] # <<>>
    BY <1>2 DEF Within
  <1>6. \/ /\ i \in tracked /\ tracked' = tracked \ {i} /\ saved' = tracked'
           /\ unmount' = [unmount EXCEPT ![r] = "done"]
           /\ request' = [request EXCEPT ![i] = "unmounted"]
        \/ /\ i \notin tracked /\ unmount' = [unmount EXCEPT ![r] = "error"]
           /\ UNCHANGED <<tracked, saved, request>>
    BY DEF FinishUnmount
  <1>7. /\ key' = key \ {i} /\ UNCHANGED <<up, point, named>>
        /\ dirs' = IF stack'[p] = <<>> THEN dirs \ {p} ELSE dirs
    BY DEF FinishUnmount
  <1>8. tracked = saved
    BY <1>1 DEF Inv, ListInv
  <1> HIDE DEF p, r
  <1>9. TypeOK'
    <2>1. unmount' \in [Mounts \X Unmounts -> {"none", "umount", "done", "error"}]
      BY <1>1, <1>6 DEF Inv, TypeOK
    <2>2. \A q \in Points : stack'[q] # <<>> => q \in dirs'
      BY <1>5, <1>7 DEF Inv, TypeOK, Mounted
    <2> QED
      BY <1>2, <1>3, <1>4, <1>6, <1>7, <2>1, <2>2 DEF Inv, TypeOK, Mounted
  <1>10. ASSUME NEW j \in Mounts
         PROVE  RequestInv(j)'
    BY <1>1, <1>3, <1>6, <1>7, <1>8 DEF Inv, TypeOK, MountsInv, RequestInv
  <1>11. ASSUME NEW j \in Mounts, NEW v \in Unmounts
         PROVE  UnmountInv(j, v)'
    <2>1. unmount'[<<j, v>>] = "umount" => unmount[<<j, v>>] = "umount"
      BY <1>1, <1>6 DEF Inv, TypeOK
    <2> QED
      BY <1>3, <1>6, <1>7, <2>1 DEF Inv, TypeOK, MountsInv, UnmountInv
  <1>12. StacksInv'
    BY <1>1, <1>2, <1>6, <1>7, StacksStep DEF Inv, TypeOK
  <1>13. ListInv'
    BY <1>1, <1>6, <1>7, <1>8 DEF ListInv
  <1>14. ApartInv'
    <2>1. CASE i \notin tracked
      <3>1. unmount'[r] = "error"
        BY <1>1, <1>6, <2>1 DEF Inv, TypeOK
      <3> QED
        BY <1>1, <3>1 DEF ApartInv, NoError
    <2>2. CASE i \in tracked
      <3>1. NoError' => NoError
        <4>1. \A x \in Mounts \X Unmounts : x # r => unmount'[x] = unmount[x]
          BY <1>1, <1>6 DEF Inv, TypeOK
        <4>2. unmount[r] = "umount"
          BY DEF FinishUnmount, r
        <4> QED
          BY <4>1, <4>2 DEF NoError
      <3>2. Holds(i)
        BY <1>8, <2>2 DEF Holds
      <3>3. \A j \in Mounts : Holds(j)' => Holds(j) /\ j # i
        BY <1>6, <1>8, <2>2 DEF Inv, TypeOK, Holds
      <3>4. ASSUME NoError', NEW j \in Mounts, Holds(j)', point'[j] \notin named'
            PROVE  /\ point'[j] \in dirs'
                   /\ \A k \in Mounts : Holds(k)' /\ point'[k] = point'[j] => k = j
        <4>1. Apart(j) /\ Holds(j) /\ j # i
          BY <3>1, <3>3, <3>4 DEF Inv, ApartInv
        <4>2. point[j] \in dirs /\ point[j] # p
          BY <1>7, <3>2, <3>4, <4>1 DEF Apart, p
        <4> QED
          BY <1>7, <3>3, <3>4, <4>1, <4>2 DEF Apart
      <3> QED
        BY <3>4 DEF ApartInv, Apart
    <2> QED
      BY <2>1, <2>2
  <1> QED
    BY <1>9, <1>10, <1>11, <1>12, <1>13, <1>14 DEF Inv, MountsInv

LEMMA EmptyWithin ==
  ASSUME NEW s \in Seq(Mounts)
  PROVE  <<>> \in Seq(Mounts) /\ Within(<<>>, s)
  BY DEF Within

LEMMA CrashStep ==
  ASSUME Inv, Crash
  PROVE  Inv'
  <1>1. /\ stack' \in [Points -> Seq(Mounts)]
        /\ \A p \in Points : Within(stack'[p], stack[p])
        /\ proc' \in [Mounts -> {"none", "starting", "serving", "ended"}]
        /\ \A j \in Mounts : Alive(j)' => Alive(j)
    <2>1. CASE UNCHANGED <<stack, proc>>
      BY <2>1, SameWithin DEF Inv, TypeOK, Alive
    <2>2. CASE EndProcesses
      BY <2>2, EmptyWithin DEF EndProcesses, Inv, TypeOK, Alive
    <2> QED
      BY <2>1, <2>2 DEF Crash
  <1>2. \A p \in Points : stack'[p] # <<>> => stack[p] # <<>>
    BY <1>1 DEF Within
  <1>3. faults' \in 0 .. MaxFaults
    BY MaxFaultsAssumption DEF Inv, TypeOK, Crash, Fault
  <1>4. TypeOK'
    BY <1>1, <1>2, <1>3 DEF Inv, TypeOK, Crash, Mounted
  <1>5. ASSUME NEW j \in Mounts
        PROVE  RequestInv(j)'
    BY <1>1 DEF Inv, TypeOK, MountsInv, RequestInv, Crash
  <1>6. ASSUME NEW j \in Mounts, NEW u \in Unmounts
        PROVE  UnmountInv(j, u)'
    <2>1. unmount'[<<j, u>>] # "umount"
      BY DEF Inv, TypeOK, Crash
    <2> QED
      BY <2>1 DEF UnmountInv
  <1>7. StacksInv'
    <2>1. \A j \in Mounts : request[j] # "new" => point'[j] = point[j] /\ request'[j] # "new"
      BY DEF Inv, TypeOK, Crash
    <2> QED
      BY <1>1, <2>1, StacksStep DEF Inv, TypeOK
  <1>8. ListInv'
    BY DEF ListInv, Crash
  <1>9. ApartInv'
    <2>1. NoError' => NoError
      BY DEF NoError, Crash
    <2>2. \A j \in Mounts : Holds(j)' => Holds(j)
      BY DEF Inv, TypeOK, Holds, Crash
    <2> QED
      BY <2>1, <2>2 DEF Inv, ApartInv, Apart, Crash
  <1> QED
    BY <1>4, <1>5, <1>6, <1>7, <1>8, <1>9 DEF Inv, MountsInv

LEMMA ImportStep ==
  ASSUME Inv, Import
  PROVE  Inv'
  <1>1. TypeOK'
    BY DEF Inv, TypeOK, Import, Stale, OrphanedDirs, Mounted
  <1>2. MountsInv'
    BY DEF Inv, MountsInv, RequestInv, UnmountInv, Alive, Import, Stale
  <1>3. StacksInv' /\ ListInv'
    BY DEF Inv, StacksInv, StackInv, ListInv, Import
  <1>4. ApartInv'
    <2>1. NoError' => NoError
      BY DEF NoError, Import
    <2>2. \A j \in Mounts : Holds(j)' => Holds(j) /\ j \in tracked'
      BY DEF Inv, MountsInv, RequestInv, Import, Holds
    <2>3. \A j \in tracked' : point[j] \notin OrphanedDirs
      BY DEF OrphanedDirs
    <2> QED
      BY <2>1, <2>2, <2>3 DEF Inv, ApartInv, Apart, Import
  <1> QED
    BY <1>1, <1>2, <1>3, <1>4 DEF Inv

LEMMA StartupStep ==
  ASSUME Inv, Startup
  PROVE  Inv'
  <1>1. /\ proc' \in [Mounts -> {"none", "starting", "serving", "ended"}]
        /\ \A j \in Mounts : Alive(j)' => Alive(j)
    BY DEF Inv, TypeOK, Alive, Startup
  <1>2. TypeOK'
    BY <1>1, EmptyWithin DEF Inv, TypeOK, Startup, Mounted
  <1>3. MountsInv'
    BY <1>1 DEF Inv, MountsInv, RequestInv, UnmountInv, Startup
  <1>4. StacksInv'
    BY DEF StacksInv, StackInv, Startup
  <1>5. ListInv' /\ ApartInv'
    BY DEF Inv, ListInv, ApartInv, NoError, Apart, Holds, Startup
  <1> QED
    BY <1>2, <1>3, <1>4, <1>5 DEF Inv

-----------------------------------------------------------------------------
(* The inductive invariant, and what follows from it. *)

LEMMA StepInv ==
  ASSUME Inv, [Next]_vars
  PROVE  Inv'
  <1>1. CASE UNCHANGED vars
    BY <1>1 DEF vars, Inv, TypeOK, Mounted, MountsInv, RequestInv, UnmountInv, Alive,
                StacksInv, StackInv, ListInv, ApartInv, NoError, Apart, Holds
  <1>2. ASSUME NEW i \in Mounts,
               \/ MountArchive(i) \/ MountNamed(i) \/ Serve(i) \/ ProcessEnds(i)
               \/ VerifyMount(i) \/ ProcessExited(i) \/ MountTimeout(i) \/ ListFails(i)
               \/ \E u \in Unmounts : StartUnmount(i, u) \/ FinishUnmount(i, u)
        PROVE  Inv'
    BY <1>2, MountArchiveStep, MountNamedStep, ServeStep, ProcessEndsStep, VerifyMountStep,
       ProcessExitedStep, MountTimeoutStep, ListFailsStep, StartUnmountStep, FinishUnmountStep
  <1>3. CASE Crash \/ Import \/ Startup
    BY <1>3, CrashStep, ImportStep, StartupStep
  <1> QED
    BY <1>1, <1>2, <1>3 DEF Next

\* The inductive invariant: who may have a process, a key, an entry and a directory.
THEOREM IndInv == Spec => []Inv
  <1> QED
    BY InitInv, StepInv, PTL DEF Spec

\* The state of the mount service has its type; what is mounted, has its directory.
THEOREM TypeCorrect == Spec => []TypeOK
  <1>1. Inv => TypeOK
    BY DEF Inv
  <1> QED
    BY <1>1, IndInv, PTL

\* mount_borg_archive and unmount: a mount that failed or was unmounted leaves neither a
\* private key, nor an entry, nor a process, in whatever order the requests come; a process
\* only if the request could not list the mounts, which is the code's.
THEOREM EndsLeaveNothing == Spec => []EndedMountLeavesNothing
  <1>1. Inv => EndedMountLeavesNothing
    BY DEF Inv, MountsInv, RequestInv, EndedMountLeavesNothing
  <1> QED
    BY <1>1, IndInv, PTL

LEMMA ApartStep ==
  ASSUME Inv, [Next]_vars, NEW i \in tracked, Serving(i), ~Serving(i)'
  PROVE  \/ point[i] \in named'
         \/ faults' > faults
         \/ up = "importing"
         \/ \E u \in Unmounts : unmount[<<i, u>>] # unmount'[<<i, u>>]
         \/ \E r \in DOMAIN unmount : unmount'[r] = "error"
  <1>0. /\ i \in Mounts /\ request[i] \in {"mounted", "lost"} /\ proc[i] = "serving"
        /\ proc'[i] # "serving" /\ faults \in Nat
        /\ unmount \in [Mounts \X Unmounts -> {"none", "umount", "done", "error"}]
        /\ proc \in [Mounts -> {"none", "starting", "serving", "ended"}]
    BY DEF Inv, TypeOK, MountsInv, RequestInv, Serving
  <1>1. CASE UNCHANGED vars
    BY <1>0, <1>1 DEF vars
  <1>2. ASSUME NEW j \in Mounts, MountArchive(j)
        PROVE  FALSE
    BY <1>0, <1>2 DEF MountArchive, StartMount
  <1>3. ASSUME NEW j \in Mounts, MountNamed(j)
        PROVE  point[i] \in named'
    <2>1. j # i /\ named' = named \cup {Plain}
      BY <1>0, <1>3 DEF MountNamed, StartMount
    <2>2. /\ Mounted(Plain) /\ Last(stack[Plain]) = i
          /\ stack' = [stack EXCEPT ![Plain] = Front(@)]
      BY <1>0, <1>3, <2>1 DEF MountNamed
    <2>3. point[i] = Plain
      BY <2>2, PopStep DEF Inv, Points
    <2> QED
      BY <2>1, <2>3
  <1>4. ASSUME NEW j \in Mounts, Serve(j)
        PROVE  FALSE
    BY <1>0, <1>4 DEF Serve
  <1>5. ASSUME NEW j \in Mounts, ProcessEnds(j) \/ ListFails(j)
        PROVE  faults' > faults
    BY <1>0, <1>5 DEF ProcessEnds, ListFails, Fault
  <1>6. ASSUME NEW j \in Mounts, VerifyMount(j) \/ ProcessExited(j) \/ MountTimeout(j)
        PROVE  FALSE
    BY <1>0, <1>6 DEF VerifyMount, ProcessExited, MountTimeout, MountFails, EndProcess
  <1>7. ASSUME NEW j \in Mounts, NEW u \in Unmounts, StartUnmount(j, u)
        PROVE  unmount[<<i, u>>] # unmount'[<<i, u>>] \/ faults' > faults
    BY <1>0, <1>7 DEF StartUnmount, EndProcess, Fault
  <1>8. ASSUME NEW j \in Mounts, NEW u \in Unmounts, FinishUnmount(j, u)
        PROVE  \/ point[i] \in named'
               \/ unmount[<<i, u>>] # unmount'[<<i, u>>]
               \/ \E r \in DOMAIN unmount : unmount'[r] = "error"
    <2> DEFINE p == point[j]
    <2>1. p \in Points /\ UnmountPoint(p) /\ named' = named /\ up = "up"
      BY <1>8 DEF Inv, MountsInv, RequestInv, UnmountInv, FinishUnmount
    <2>2. /\ Mounted(p) /\ Last(stack[p]) = i
          /\ stack' = [stack EXCEPT ![p] = Front(@)]
      BY <1>0, <2>1 DEF UnmountPoint
    <2> HIDE DEF p
    <2>3. point[i] = p
      BY <2>1, <2>2, PopStep DEF Inv
    <2> USE DEF p
    <2>4. <<j, u>> \in DOMAIN unmount
      BY <1>0
    <2>5. CASE j \notin tracked
      <3>1. unmount'[<<j, u>>] = "error"
        BY <1>0, <1>8, <2>4, <2>5 DEF FinishUnmount
      <3> QED
        BY <2>4, <3>1
    <2>6. CASE j \in tracked /\ j = i
      <3>1. unmount[<<j, u>>] = "umount" /\ unmount'[<<j, u>>] = "done"
        BY <1>0, <1>8, <2>4, <2>6 DEF FinishUnmount
      <3> QED
        BY <2>6, <3>1
    <2>7. CASE j \in tracked /\ j # i /\ ~NoError
      <3>1. PICK r \in Mounts \X Unmounts : unmount[r] = "error"
        BY <2>7 DEF NoError
      <3>2. r # <<j, u>> /\ unmount' = [unmount EXCEPT ![<<j, u>>] = "done"]
        BY <1>8, <2>7, <3>1 DEF FinishUnmount
      <3>3. unmount'[r] = "error"
        BY <1>0, <3>1, <3>2
      <3> QED
        BY <1>0, <3>1, <3>3
    <2>8. CASE j \in tracked /\ j # i /\ NoError
      <3>1. Apart(i) /\ Holds(i) /\ Holds(j)
        BY <1>0, <2>1, <2>8 DEF Inv, ListInv, ApartInv, Holds
      <3> QED
        BY <2>1, <2>3, <2>8, <3>1 DEF Apart
    <2> QED
      BY <2>5, <2>6, <2>7, <2>8
  <1>9. CASE Crash
    BY <1>0, <1>9 DEF Crash, Fault
  <1>10. CASE Import
    BY <1>0, <1>10 DEF Import
  <1>11. CASE Startup
    BY <1>11 DEF Startup
  <1> QED
    BY <1>1, <1>2, <1>3, <1>4, <1>5, <1>6, <1>7, <1>8, <1>9, <1>10, <1>11 DEF Next

\* mount_borg_archive, unmount: what is mounted in a directory of the service is taken away
\* only by its own unmounting, by its end or a restart, unless a user named the directory or
\* a request to unmount found its mount gone.
THEOREM MountsStayApart == Spec => MountsAreApart
  <1>1. Inv /\ [Next]_vars =>
          [\A i \in tracked : Serving(i) /\ ~Serving(i)' =>
             \/ point[i] \in named'
             \/ faults' > faults
             \/ up = "importing"
             \/ \E u \in Unmounts : unmount[<<i, u>>] # unmount'[<<i, u>>]
             \/ \E r \in DOMAIN unmount : unmount'[r] = "error"]_vars
    BY ApartStep
  <1> QED
    BY <1>1, IndInv, PTL DEF Spec, MountsAreApart

-----------------------------------------------------------------------------
(***************************************************************************)
(* The cache of archive listings: for every set of archives, sizes and     *)
(* failures of Redis, its counts are true and its answers fresh.           *)
(***************************************************************************)
(***************************************************************************)
(* Sequences of entries.  What the recursive functions yield is shown by   *)
(* induction on the length; the induction takes a set, not an operator.    *)
(***************************************************************************)
LEMMA UpTo ==
  ASSUME NEW n \in Nat, NEW S, 0 \in S, \A i \in 0..(n - 1) : i \in S => i + 1 \in S
  PROVE  0..n \subseteq S
<1> DEFINE Left == (0..n) \ S
           Below(b) == 0..b
           T == {Below(b) : b \in Left}
           R == StrictSubsetOrdering(Nat)
<1>1. SUFFICES ASSUME Left # {}
               PROVE  FALSE
  OBVIOUS
<1>2. ASSUME NEW b \in Left
      PROVE  b \in Nat /\ b # 0 /\ Below(b) \in FiniteSubsetsOf(Nat)
  <2>1. b \in Nat /\ b # 0
    OBVIOUS
  <2>2. IsFiniteSet(0..b)
    BY <2>1, FS_Interval
  <2> QED
    BY <2>1, <2>2 DEF FiniteSubsetsOf
<1> HIDE DEF Below
<1>3. T \subseteq FiniteSubsetsOf(Nat) /\ T # {}
  BY <1>1, <1>2
<1>4. PICK A \in T : \A B \in T : ~(<<B, A>> \in R)
  <2>1. IsWellFoundedOn(R, FiniteSubsetsOf(Nat))
    BY FS_StrictSubsetOrderingWellFounded
  <2> HIDE DEF T, R
  <2> QED
    BY <1>3, <2>1, WFMin
<1>5. PICK b \in Left : A = Below(b)
  BY <1>4
<1>6. b - 1 \in Left
  BY <1>2, <1>5
<1>7. <<Below(b - 1), Below(b)>> \in R
  BY <1>2, <1>6 DEF StrictSubsetOrdering, FiniteSubsetsOf, Below
<1> QED
  BY <1>4, <1>5, <1>6, <1>7

LEMMA AtEnd ==
  ASSUME NEW n \in Nat, NEW S, 0 \in S, \A i \in 0..(n - 1) : i \in S => i + 1 \in S
  PROVE  n \in S
<1>1. 0..n \subseteq S /\ n \in 0..n
  BY UpTo
<1> QED
  BY <1>1

\* What each of the two functions is, up to each place of the sequence.
Grows(s, S, f, i) ==
  f[i] = (IF s[i] \in S THEN f[i - 1] + s[i].size ELSE f[i - 1])

Adds(s, S, f, i) ==
  f[i] = (IF s[i] \in S THEN Append(f[i - 1], s[i]) ELSE f[i - 1])

LEMMA Sizes == \A e \in Entry : e.size \in Nat
  BY ArchiveCacheAssumption DEF Entry

LEMMA SumIs ==
  ASSUME NEW s \in Seq(Entry), NEW S
  PROVE  \E f \in [0..Len(s) -> Nat] :
            /\ f[0] = 0 /\ f[Len(s)] = SizeIn(s, S)
            /\ \A i \in 1..Len(s) : Grows(s, S, f, i)
<1> DEFINE n == Len(s)
           P == {i \in 0..n : \E g \in [0..i -> Nat] :
                    g[0] = 0 /\ \A j \in 1..i : Grows(s, S, g, j)}
           F(f) == [i \in 0..n |-> IF i = 0 THEN 0
                                   ELSE IF s[i] \in S THEN f[i - 1] + s[i].size ELSE f[i - 1]]
           sum == CHOOSE f : f = F(f)
<1>1. n \in Nat /\ \A i \in 1..n : s[i].size \in Nat
  BY Sizes
<1> HIDE DEF n
<1>2. 0..n \subseteq P
  <2>1. 0 \in P
    <3> DEFINE g == [i \in 0..0 |-> 0]
    <3>1. g \in [0..0 -> Nat] /\ g[0] = 0 /\ 1..0 = {}
      OBVIOUS
    <3> HIDE DEF g
    <3> QED
      BY <1>1, <3>1
  <2>2. ASSUME NEW i \in 0..(n - 1), i \in P
        PROVE  i + 1 \in P
    <3>1. PICK g \in [0..i -> Nat] : g[0] = 0 /\ \A j \in 1..i : Grows(s, S, g, j)
      BY <2>2
    <3> DEFINE h == [j \in 0..(i + 1) |->
                        IF j = i + 1 THEN (IF s[j] \in S THEN g[i] + s[j].size ELSE g[i])
                        ELSE g[j]]
    <3>2. h \in [0..(i + 1) -> Nat] /\ h[0] = 0
      BY <1>1, <3>1
    <3>3. ASSUME NEW j \in 1..(i + 1)
          PROVE  Grows(s, S, h, j)
      <4>1. j \in 0..(i + 1) /\ j - 1 \in 0..i /\ j - 1 \in 0..(i + 1) /\ j - 1 # i + 1
        BY <1>1
      <4>2. h[j - 1] = g[j - 1]
        BY <4>1
      <4>3. CASE j = i + 1
        BY <1>1, <4>1, <4>2, <4>3 DEF Grows
      <4>4. CASE j # i + 1
        <5>1. j \in 1..i /\ h[j] = g[j]
          BY <1>1, <4>1, <4>4
        <5> QED
          BY <3>1, <4>2, <5>1 DEF Grows
      <4> QED
        BY <4>3, <4>4
    <3> HIDE DEF h
    <3> QED
      BY <1>1, <3>2, <3>3
  <2> HIDE DEF P
  <2> QED
    BY <1>1, <2>1, <2>2, UpTo
<1>3. PICK g \in [0..n -> Nat] : g[0] = 0 /\ \A j \in 1..n : Grows(s, S, g, j)
  <2>1. n \in P
    <3> HIDE DEF P
    <3> QED
      BY <1>1, <1>2
  <2> QED
    BY <2>1
<1>4. g = F(g)
  <2>1. g = [i \in 0..n |-> g[i]]
    OBVIOUS
  <2>2. ASSUME NEW i \in 0..n
        PROVE  g[i] = F(g)[i]
    <3>1. CASE i = 0
      BY <1>3, <3>1
    <3>2. CASE i # 0
      BY <1>1, <1>3, <3>2 DEF Grows
    <3> QED
      BY <3>1, <3>2
  <2> QED
    BY <2>1, <2>2
<1>5. sum = F(sum)
  <2> HIDE DEF F
  <2> QED
    BY <1>4
<1>6. SizeIn(s, S) = sum[n]
  BY DEF SizeIn, n
<1> HIDE DEF sum
<1>7. sum[0] = 0 /\ \A i \in 1..n : Grows(s, S, sum, i)
  <2>1. 0 \in 0..n /\ \A i \in 1..n : i \in 0..n /\ i # 0
    BY <1>1
  <2>2. sum[0] = 0
    BY <1>5, <2>1
  <2>3. ASSUME NEW i \in 1..n
        PROVE  Grows(s, S, sum, i)
    BY <1>5, <2>1 DEF Grows
  <2> QED
    BY <2>2, <2>3
<1>8. \A i \in 0..n : sum[i] = g[i]
  <2> DEFINE Q == {i \in 0..n : sum[i] = g[i]}
  <2>1. 0 \in Q
    BY <1>1, <1>3, <1>7
  <2>2. ASSUME NEW i \in 0..(n - 1), i \in Q
        PROVE  i + 1 \in Q
    <3>1. i + 1 \in 1..n /\ (i + 1) - 1 = i /\ i + 1 \in 0..n
      BY <1>1
    <3> QED
      BY <1>3, <1>7, <2>2, <3>1 DEF Grows
  <2>3. 0..n \subseteq Q
    <3> HIDE DEF Q
    <3> QED
      BY <1>1, <2>1, <2>2, UpTo
  <2> QED
    BY <2>3
<1> QED
  BY <1>1, <1>3, <1>6, <1>8 DEF n

LEMMA SizeInNat ==
  ASSUME NEW s \in Seq(Entry), NEW S
  PROVE  SizeIn(s, S) \in Nat
<1>1. PICK f \in [0..Len(s) -> Nat] : f[Len(s)] = SizeIn(s, S)
  BY SumIs
<1> QED
  BY <1>1

\* What is in one of two sets that have nothing in common takes what both take.
LEMMA Splits ==
  ASSUME NEW s \in Seq(Entry), NEW A, NEW B, NEW C,
         \A i \in 1..Len(s) : /\ s[i] \in C <=> s[i] \in A \/ s[i] \in B
                              /\ ~(s[i] \in A /\ s[i] \in B)
  PROVE  SizeIn(s, C) = SizeIn(s, A) + SizeIn(s, B)
<1> DEFINE n == Len(s)
<1>1. n \in Nat /\ \A i \in 1..n : s[i].size \in Nat
  BY Sizes
<1>2. PICK a \in [0..n -> Nat] :
         a[0] = 0 /\ a[n] = SizeIn(s, A) /\ \A i \in 1..n : Grows(s, A, a, i)
  BY SumIs
<1>3. PICK b \in [0..n -> Nat] :
         b[0] = 0 /\ b[n] = SizeIn(s, B) /\ \A i \in 1..n : Grows(s, B, b, i)
  BY SumIs
<1>4. PICK c \in [0..n -> Nat] :
         c[0] = 0 /\ c[n] = SizeIn(s, C) /\ \A i \in 1..n : Grows(s, C, c, i)
  BY SumIs
<1> DEFINE Q == {i \in 0..n : c[i] = a[i] + b[i]}
<1>5. 0 \in Q
  BY <1>1, <1>2, <1>3, <1>4
<1>6. ASSUME NEW i \in 0..(n - 1), i \in Q
      PROVE  i + 1 \in Q
  <2>1. i + 1 \in 1..n /\ (i + 1) - 1 = i /\ i + 1 \in 0..n /\ i \in 0..n
    BY <1>1
  <2> HIDE DEF n
  <2>2. Grows(s, A, a, i + 1) /\ Grows(s, B, b, i + 1) /\ Grows(s, C, c, i + 1)
    BY <1>2, <1>3, <1>4, <2>1
  <2>3. a[i] \in Nat /\ b[i] \in Nat /\ s[i + 1].size \in Nat
    BY <1>1, <2>1
  <2>4. /\ s[i + 1] \in C <=> s[i + 1] \in A \/ s[i + 1] \in B
        /\ ~(s[i + 1] \in A /\ s[i + 1] \in B)
    BY <2>1 DEF n
  <2>5. c[i] = a[i] + b[i]
    BY <1>6
  <2> QED
    BY <2>1, <2>2, <2>3, <2>4, <2>5 DEF Grows
<1>7. n \in Q
  <2>1. n \in Nat
    OBVIOUS
  <2> HIDE DEF Q, n
  <2> QED
    BY <1>5, <1>6, <2>1, AtEnd
<1> QED
  BY <1>2, <1>3, <1>4, <1>7

LEMMA Alike ==
  ASSUME NEW s \in Seq(Entry), NEW A, NEW B,
         \A i \in 1..Len(s) : s[i] \in A <=> s[i] \in B
  PROVE  SizeIn(s, A) = SizeIn(s, B)
<1>1. SizeIn(s, A) = SizeIn(s, B) + SizeIn(s, {})
  BY Splits
<1>2. SizeIn(s, {}) = SizeIn(s, {}) + SizeIn(s, {})
  BY Splits
<1> QED
  BY <1>1, <1>2, SizeInNat

LEMMA Joins ==
  ASSUME NEW s \in Seq(Entry), NEW t \in Seq(Entry), NEW S
  PROVE  SizeIn(s \o t, S) = SizeIn(s, S) + SizeIn(t, S)
<1> DEFINE st == s \o t
           n == Len(s)
           m == Len(t)
<1>1. /\ st \in Seq(Entry) /\ Len(st) = n + m /\ n \in Nat /\ m \in Nat
      /\ \A i \in 1..n : st[i] = s[i] /\ s[i].size \in Nat
      /\ \A i \in 1..m : st[n + i] = t[i] /\ t[i].size \in Nat
  BY Sizes
<1> HIDE DEF st
<1>2. PICK f \in [0..Len(st) -> Nat] :
         f[0] = 0 /\ f[Len(st)] = SizeIn(st, S) /\ \A i \in 1..Len(st) : Grows(st, S, f, i)
  BY <1>1, SumIs
<1>3. PICK g \in [0..n -> Nat] :
         g[0] = 0 /\ g[n] = SizeIn(s, S) /\ \A i \in 1..n : Grows(s, S, g, i)
  BY SumIs
<1>4. PICK h \in [0..m -> Nat] :
         h[0] = 0 /\ h[m] = SizeIn(t, S) /\ \A i \in 1..m : Grows(t, S, h, i)
  BY SumIs
<1>0. n \in Nat /\ m \in Nat /\ Len(st) = n + m
  BY <1>1
<1> HIDE DEF n, m
<1> DEFINE P == {i \in 0..n : f[i] = g[i]}
           Q == {i \in 0..m : f[n + i] = g[n] + h[i]}
<1>5. n \in P
  <2>1. 0 \in P
    BY <1>1, <1>2, <1>3
  <2>2. ASSUME NEW i \in 0..(n - 1), i \in P
        PROVE  i + 1 \in P
    <3>1. i + 1 \in 1..n /\ (i + 1) - 1 = i /\ i + 1 \in 0..n /\ i + 1 \in 1..Len(st)
      BY <1>0
    <3>2. Grows(st, S, f, i + 1) /\ Grows(s, S, g, i + 1) /\ st[i + 1] = s[i + 1]
      BY <1>1, <1>2, <1>3, <3>1
    <3> QED
      BY <2>2, <3>1, <3>2 DEF Grows
  <2>3. n \in Nat
    BY <1>0
  <2> HIDE DEF P
  <2> QED
    BY <2>1, <2>2, <2>3, AtEnd
<1>6. m \in Q
  <2>1. 0 \in Q
    BY <1>1, <1>4, <1>5, <1>3
  <2>2. ASSUME NEW i \in 0..(m - 1), i \in Q
        PROVE  i + 1 \in Q
    <3>1. /\ i + 1 \in 1..m /\ (i + 1) - 1 = i /\ i + 1 \in 0..m /\ i \in 0..m
          /\ n + (i + 1) \in 1..Len(st) /\ (n + (i + 1)) - 1 = n + i
      BY <1>0
    <3>2. Grows(st, S, f, n + (i + 1)) /\ Grows(t, S, h, i + 1) /\ st[n + (i + 1)] = t[i + 1]
      BY <1>1, <1>2, <1>4, <3>1
    <3>3. g[n] \in Nat /\ h[i] \in Nat /\ t[i + 1].size \in Nat /\ f[n + i] = g[n] + h[i]
      BY <1>1, <1>3, <1>4, <2>2, <3>1
    <3>4. /\ f[n + (i + 1)] = (IF t[i + 1] \in S THEN f[n + i] + t[i + 1].size ELSE f[n + i])
          /\ h[i + 1] = (IF t[i + 1] \in S THEN h[i] + t[i + 1].size ELSE h[i])
      BY <3>1, <3>2 DEF Grows
    <3>5. f[n + (i + 1)] = g[n] + h[i + 1]
      BY <3>3, <3>4
    <3> QED
      BY <3>1, <3>5
  <2>3. m \in Nat
    BY <1>0
  <2> HIDE DEF Q
  <2> QED
    BY <2>1, <2>2, <2>3, AtEnd
<1> QED
  BY <1>1, <1>2, <1>3, <1>4, <1>6 DEF st

LEMMA SizeOfAll ==
  ASSUME NEW s \in Seq(Entry)
  PROVE  /\ SizeOf(s) = SizeIn(s, Entry) /\ SizeOf(s) \in Nat
         /\ \A i \in 1..Len(s) : s[i] \in ToSet(s) /\ s[i] \in Entry
         /\ ToSet(s) \subseteq Entry
<1>1. \A i \in 1..Len(s) : s[i] \in ToSet(s) /\ s[i] \in Entry
  BY DEF ToSet
<1>2. ToSet(s) \subseteq Entry
  BY DEF ToSet
<1> QED
  BY <1>1, <1>2, Alike, SizeInNat DEF SizeOf

LEMMA Appended ==
  ASSUME NEW s \in Seq(Entry), NEW e \in Entry
  PROVE  /\ Append(s, e) \in Seq(Entry) /\ ToSet(Append(s, e)) = ToSet(s) \cup {e}
         /\ SizeIn(Append(s, e), Entry) = SizeIn(s, Entry) + e.size
<1> DEFINE one == <<e>>
<1>1. one \in Seq(Entry) /\ Len(one) = 1 /\ one[1] = e /\ Append(s, e) = s \o one
  OBVIOUS
<1> HIDE DEF one
<1>2. PICK f \in [0..1 -> Nat] :
         f[0] = 0 /\ f[1] = SizeIn(one, Entry) /\ \A i \in 1..1 : Grows(one, Entry, f, i)
  BY <1>1, SumIs
<1>3. SizeIn(one, Entry) = e.size
  <2>1. Grows(one, Entry, f, 1) /\ 1 - 1 = 0 /\ e.size \in Nat
    BY <1>2, Sizes
  <2> QED
    BY <1>1, <1>2, <2>1 DEF Grows
<1>4. ToSet(Append(s, e)) = ToSet(s) \cup {e}
  BY DEF ToSet
<1> QED
  BY <1>1, <1>3, <1>4, Joins

LEMMA OnlyIs ==
  ASSUME NEW s \in Seq(Entry), NEW S
  PROVE  \E f \in [0..Len(s) -> Seq(Entry)] :
            /\ f[0] = <<>> /\ f[Len(s)] = Only(s, S)
            /\ \A i \in 1..Len(s) : Adds(s, S, f, i)
<1> DEFINE n == Len(s)
           P == {i \in 0..n : \E g \in [0..i -> Seq(Entry)] :
                    g[0] = <<>> /\ \A j \in 1..i : Adds(s, S, g, j)}
           F(f) == [i \in 0..n |-> IF i = 0 THEN <<>>
                                   ELSE IF s[i] \in S THEN Append(f[i - 1], s[i]) ELSE f[i - 1]]
           these == CHOOSE f : f = F(f)
<1>1. n \in Nat /\ \A i \in 1..n : s[i] \in Entry
  OBVIOUS
<1> HIDE DEF n
<1>2. n \in P
  <2>1. 0 \in P
    <3> DEFINE g == [i \in 0..0 |-> <<>>]
    <3>1. g \in [0..0 -> Seq(Entry)] /\ g[0] = <<>> /\ 1..0 = {}
      OBVIOUS
    <3> HIDE DEF g
    <3> QED
      BY <1>1, <3>1
  <2>2. ASSUME NEW i \in 0..(n - 1), i \in P
        PROVE  i + 1 \in P
    <3>1. PICK g \in [0..i -> Seq(Entry)] : g[0] = <<>> /\ \A j \in 1..i : Adds(s, S, g, j)
      BY <2>2
    <3> DEFINE h == [j \in 0..(i + 1) |->
                        IF j = i + 1 THEN (IF s[j] \in S THEN Append(g[i], s[j]) ELSE g[i])
                        ELSE g[j]]
    <3>2. h \in [0..(i + 1) -> Seq(Entry)] /\ h[0] = <<>>
      <4>1. i + 1 \in 1..n /\ s[i + 1] \in Entry /\ g[i] \in Seq(Entry)
        BY <1>1, <3>1
      <4>2. Append(g[i], s[i + 1]) \in Seq(Entry)
        BY <4>1
      <4> QED
        BY <1>1, <3>1, <4>1, <4>2
    <3>3. ASSUME NEW j \in 1..(i + 1)
          PROVE  Adds(s, S, h, j)
      <4>1. j \in 0..(i + 1) /\ j - 1 \in 0..i /\ j - 1 \in 0..(i + 1) /\ j - 1 # i + 1
        BY <1>1
      <4>2. h[j - 1] = g[j - 1]
        BY <4>1
      <4>3. CASE j = i + 1
        BY <1>1, <4>1, <4>2, <4>3 DEF Adds
      <4>4. CASE j # i + 1
        <5>1. j \in 1..i /\ h[j] = g[j]
          BY <1>1, <4>1, <4>4
        <5> QED
          BY <3>1, <4>2, <5>1 DEF Adds
      <4> QED
        BY <4>3, <4>4
    <3> HIDE DEF h
    <3>4. i + 1 \in 0..n
      BY <1>1
    <3> QED
      BY <3>2, <3>3, <3>4
  <2>3. n \in Nat
    BY <1>1
  <2> HIDE DEF P
  <2> QED
    BY <2>1, <2>2, <2>3, AtEnd
<1>3. PICK g \in [0..n -> Seq(Entry)] : g[0] = <<>> /\ \A j \in 1..n : Adds(s, S, g, j)
  BY <1>2
<1>4. g = F(g)
  <2>1. g = [i \in 0..n |-> g[i]]
    OBVIOUS
  <2>2. ASSUME NEW i \in 0..n
        PROVE  g[i] = F(g)[i]
    <3>1. CASE i = 0
      BY <1>3, <3>1
    <3>2. CASE i # 0
      <4>1. i \in 1..n
        BY <1>1, <3>2
      <4>2. Adds(s, S, g, i)
        BY <1>3, <4>1
      <4>3. F(g)[i] = (IF s[i] \in S THEN Append(g[i - 1], s[i]) ELSE g[i - 1])
        BY <3>2
      <4> HIDE DEF F
      <4> QED
        BY <4>2, <4>3 DEF Adds
    <3> HIDE DEF F
    <3> QED
      BY <3>1, <3>2
  <2> QED
    BY <2>1, <2>2
<1>5. these = F(these)
  <2> HIDE DEF F
  <2> QED
    BY <1>4
<1>6. Only(s, S) = these[n]
  BY DEF Only, n
<1> HIDE DEF these
<1>7. these[0] = <<>> /\ \A i \in 1..n : Adds(s, S, these, i)
  <2>1. 0 \in 0..n /\ \A i \in 1..n : i \in 0..n /\ i # 0
    BY <1>1
  <2>2. these[0] = <<>>
    BY <1>5, <2>1
  <2>3. ASSUME NEW i \in 1..n
        PROVE  Adds(s, S, these, i)
    BY <1>5, <2>1 DEF Adds
  <2> QED
    BY <2>2, <2>3
<1> DEFINE Q == {i \in 0..n : these[i] = g[i]}
<1>8. n \in Q
  <2>1. 0 \in Q
    BY <1>1, <1>3, <1>7
  <2>2. ASSUME NEW i \in 0..(n - 1), i \in Q
        PROVE  i + 1 \in Q
    <3>1. i + 1 \in 1..n /\ (i + 1) - 1 = i /\ i + 1 \in 0..n
      BY <1>1
    <3> QED
      BY <1>3, <1>7, <2>2, <3>1 DEF Adds
  <2>3. n \in Nat
    BY <1>1
  <2> HIDE DEF Q
  <2> QED
    BY <2>1, <2>2, <2>3, AtEnd
<1> QED
  BY <1>3, <1>6, <1>8 DEF n

\* What is left of a sequence was there, is to be left, and takes what it took.
LEMMA OnlyHas ==
  ASSUME NEW s \in Seq(Entry), NEW S
  PROVE  /\ Only(s, S) \in Seq(Entry)
         /\ \A e \in ToSet(Only(s, S)) : e \in ToSet(s) /\ e \in S
         /\ SizeOf(Only(s, S)) = SizeIn(s, S)
<1> DEFINE n == Len(s)
<1>1. n \in Nat /\ \A i \in 1..n : s[i] \in Entry /\ s[i] \in ToSet(s)
  BY DEF ToSet
<1>2. PICK f \in [0..n -> Seq(Entry)] :
         f[0] = <<>> /\ f[n] = Only(s, S) /\ \A i \in 1..n : Adds(s, S, f, i)
  BY OnlyIs
<1>3. PICK g \in [0..n -> Nat] :
         g[0] = 0 /\ g[n] = SizeIn(s, S) /\ \A i \in 1..n : Grows(s, S, g, i)
  BY SumIs
<1> HIDE DEF n
<1> DEFINE Q == {i \in 0..n : /\ \A e \in ToSet(f[i]) : e \in ToSet(s) /\ e \in S
                              /\ SizeIn(f[i], Entry) = g[i]}
<1>4. n \in Q
  <2>1. 0 \in Q
    <3>1. <<>> \in Seq(Entry) /\ ToSet(<<>>) = {}
      BY DEF ToSet
    <3>2. SizeIn(<<>>, Entry) = 0
      <4>1. Len(<<>>) = 0
        OBVIOUS
      <4> QED
        BY <3>1, <4>1, SumIs
    <3> QED
      BY <1>1, <1>2, <1>3, <3>1, <3>2
  <2>2. ASSUME NEW i \in 0..(n - 1), i \in Q
        PROVE  i + 1 \in Q
    <3>1. i + 1 \in 1..n /\ (i + 1) - 1 = i /\ i + 1 \in 0..n /\ i \in 0..n
      BY <1>1
    <3>2. f[i] \in Seq(Entry) /\ Adds(s, S, f, i + 1) /\ Grows(s, S, g, i + 1)
      BY <1>2, <1>3, <3>1
    <3>3. /\ \A e \in ToSet(f[i]) : e \in ToSet(s) /\ e \in S
          /\ SizeIn(f[i], Entry) = g[i]
      BY <2>2
    <3>4. CASE s[i + 1] \in S
      <4>1. /\ f[i + 1] = Append(f[i], s[i + 1]) /\ g[i + 1] = g[i] + s[i + 1].size
            /\ s[i + 1] \in Entry /\ s[i + 1] \in ToSet(s)
        BY <1>1, <3>1, <3>2, <3>4 DEF Adds, Grows
      <4>2. /\ ToSet(f[i + 1]) = ToSet(f[i]) \cup {s[i + 1]}
            /\ SizeIn(f[i + 1], Entry) = SizeIn(f[i], Entry) + s[i + 1].size
        BY <3>2, <4>1, Appended
      <4> QED
        BY <3>1, <3>3, <3>4, <4>1, <4>2
    <3>5. CASE s[i + 1] \notin S
      BY <3>1, <3>2, <3>3, <3>5 DEF Adds, Grows
    <3> QED
      BY <3>4, <3>5
  <2>3. n \in Nat
    BY <1>1
  <2> HIDE DEF Q
  <2> QED
    BY <2>1, <2>2, <2>3, AtEnd
<1>5. Only(s, S) \in Seq(Entry)
  BY <1>1, <1>2
<1> QED
  BY <1>2, <1>3, <1>4, <1>5, SizeOfAll

\* The first entries and the others.
LEMMA Parts ==
  ASSUME NEW s \in Seq(Entry), NEW n \in 0..Len(s), NEW S
  PROVE  /\ SubSeq(s, 1, n) \in Seq(Entry) /\ SubSeq(s, n + 1, Len(s)) \in Seq(Entry)
         /\ s = SubSeq(s, 1, n) \o SubSeq(s, n + 1, Len(s))
         /\ SizeIn(s, S) = SizeIn(SubSeq(s, 1, n), S) + SizeIn(SubSeq(s, n + 1, Len(s)), S)
<1> DEFINE a == SubSeq(s, 1, n)
           b == SubSeq(s, n + 1, Len(s))
<1>1. a \in Seq(Entry) /\ b \in Seq(Entry)
  OBVIOUS
<1>2. s = a \o b
  <2>1. SubSeq(s, 1, Len(s)) = s
    BY SubSeqFull
  <2>2. 1 \in 1..(Len(s) + 1) /\ n \in (1 - 1)..Len(s) /\ Len(s) \in n..Len(s)
    OBVIOUS
  <2>3. SubSeq(s, 1, n) \o SubSeq(s, n + 1, Len(s)) = SubSeq(s, 1, Len(s))
    BY <2>2, ConcatAdjacentSubSeq
  <2> QED
    BY <2>1, <2>3
<1> HIDE DEF a, b
<1>3. SizeIn(s, S) = SizeIn(a, S) + SizeIn(b, S)
  BY <1>1, <1>2, Joins
<1> QED
  BY <1>1, <1>2, <1>3 DEF a, b

(***************************************************************************)
(* The invariant.  An entry is kept no longer than twice the time to live  *)
(* after borg listed it, and a raw listing, of which pages are made, no    *)
(* longer than once.                                                       *)
(***************************************************************************)
Kept(e, t) ==
    /\ e.since <= t /\ e.till <= e.since + 2 * TTL
    /\ e.key[2] = "raw" => e.till <= e.since + TTL

AllKept(c, t) == \A e \in ToSet(c.lru) \cup c.store : Kept(e, t)

CountsTrue(c) ==
    /\ c.size <= SizeOf(c.lru)
    /\ ~c.lost => c.size = SizeOf(c.lru) /\ c.size <= MaxSize

CacheRecord ==
    [lru: Seq(Entry), size: Int, store: SUBSET Entry,
     fails: 0..MaxRedisFailures, current: {"redis", "memory"}, lost: BOOLEAN]

GoodCache(c, t) == c \in CacheRecord /\ CountsTrue(c) /\ AllKept(c, t)

CacheInv == CacheTypeOK /\ GoodCache(cache, now) /\ AnswersAreFresh

LEMMA Constants ==
  /\ MaxSize \in Nat /\ TTL \in Nat /\ MaxTime \in Nat
  /\ MaxRedisFailures \in Nat /\ MaxOutages \in Nat
  /\ PageSize \in Nat
BY ArchiveCacheAssumption

\* Whatever changes in the memory, the cache stays one.
Remembers(c, l, z, b) == [c EXCEPT !.lru = l, !.size = z, !.lost = b]

LEMMA Memory ==
  ASSUME NEW c \in CacheRecord, NEW l \in Seq(Entry), NEW z \in Int, NEW b \in BOOLEAN,
         NEW d, d = Remembers(c, l, z, b)
  PROVE  /\ d \in CacheRecord /\ d.lru = l /\ d.size = z /\ d.lost = b
         /\ d.store = c.store /\ d.fails = c.fails /\ d.current = c.current
<1> DEFINE E == Seq(Entry)
           T == SUBSET Entry
           N == 0..MaxRedisFailures
<1>1. c \in [lru: E, size: Int, store: T, fails: N, current: {"redis", "memory"}, lost: BOOLEAN]
  BY DEF CacheRecord
<1>2. l \in E
  OBVIOUS
<1> HIDE DEF E, T, N
<1>3. /\ d \in [lru: E, size: Int, store: T, fails: N, current: {"redis", "memory"}, lost: BOOLEAN]
      /\ d.lru = l /\ d.size = z /\ d.lost = b
      /\ d.store = c.store /\ d.fails = c.fails /\ d.current = c.current
  BY <1>1, <1>2 DEF Remembers
<1> QED
  BY <1>3 DEF CacheRecord, E, T, N

\* A field that no part of the invariant is about may change.
LEMMA OtherFields ==
  ASSUME NEW c, NEW d, NEW t, GoodCache(c, t), d \in CacheRecord,
         d.lru = c.lru, d.size = c.size, d.lost = c.lost,
         \A e \in d.store : e \in c.store \/ Kept(e, t)
  PROVE  GoodCache(d, t)
BY DEF GoodCache, CountsTrue, AllKept

LEMMA Emptied ==
  ASSUME NEW c, NEW t, GoodCache(c, t)
  PROVE  GoodCache(Empty(c), t)
<1> DEFINE none == <<>>
<1>1. none \in Seq(Entry) /\ ToSet(none) = {} /\ Len(none) = 0
  BY DEF ToSet
<1>2. SizeOf(none) = 0
  <2>1. SizeIn(none, Entry) = 0
    BY <1>1, SumIs
  <2> QED
    BY <1>1, <2>1, SizeOfAll
<1>3. PICK l \in Seq(Entry) : l = none
  BY <1>1
<1>4. PICK z \in Int : z = 0
  OBVIOUS
<1>5. PICK b \in BOOLEAN : b = FALSE
  OBVIOUS
<1>6. PICK d : d = Empty(c)
  OBVIOUS
<1>7. d \in CacheRecord /\ d.lru = l /\ d.size = z /\ d.store = c.store
  <2>1. d = Remembers(c, l, z, b) /\ c \in CacheRecord
    BY <1>3, <1>4, <1>5, <1>6 DEF Empty, Remembers, GoodCache
  <2> QED
    BY <2>1, Memory
<1>8. /\ d \in CacheRecord /\ d.lru = none /\ d.size = 0 /\ d.store = c.store
  BY <1>3, <1>4, <1>7
<1> HIDE DEF none
<1>9. GoodCache(d, t)
  BY <1>1, <1>2, <1>8, Constants DEF GoodCache, CountsTrue, AllKept
<1> QED
  BY <1>6, <1>9

LEMMA Dropped ==
  ASSUME NEW c, NEW t, GoodCache(c, t), NEW gone
  PROVE  GoodCache(Drop(c, gone), t)
<1> DEFINE s == c.lru
           left == ToSet(s) \ gone
           d == Drop(c, gone)
<1>1. s \in Seq(Entry) /\ c \in CacheRecord /\ c.size \in Int
  BY DEF GoodCache, CacheRecord
<1>2. SizeIn(s, gone) \in Nat /\ SizeIn(s, left) \in Nat /\ SizeOf(s) \in Nat
  BY <1>1, SizeInNat, SizeOfAll
<1>3. SizeOf(s) = SizeIn(s, left) + SizeIn(s, gone)
  BY <1>1, SizeOfAll, Splits DEF SizeOf
<1>4. /\ Only(s, left) \in Seq(Entry)
      /\ \A e \in ToSet(Only(s, left)) : e \in ToSet(s)
      /\ SizeOf(Only(s, left)) = SizeIn(s, left)
  BY <1>1, OnlyHas
<1>5. /\ d \in CacheRecord /\ d.lru = Only(s, left) /\ d.size = c.size - SizeIn(s, gone)
      /\ d.store = c.store /\ d.lost = c.lost
  <2>1. d = [c EXCEPT !.lru = Only(s, left), !.size = c.size - SizeIn(s, gone)]
    BY DEF Drop
  <2>2. c.size - SizeIn(s, gone) \in Int /\ c.lost \in BOOLEAN
    BY <1>1, <1>2 DEF CacheRecord
  <2>3. d = Remembers(c, Only(s, left), c.size - SizeIn(s, gone), c.lost)
    BY <1>1, <2>1 DEF CacheRecord, Remembers
  <2> HIDE DEF d, s, left
  <2> QED
    BY <1>1, <1>4, <2>2, <2>3, Memory
<1>6. AllKept(d, t)
  BY <1>4, <1>5 DEF GoodCache, AllKept
<1>7. CountsTrue(d)
  <2> HIDE DEF d, left
  <2>1. CountsTrue(c) /\ c.lru = s
    BY DEF GoodCache
  <2> HIDE DEF s
  <2> QED
    BY <1>1, <1>2, <1>3, <1>4, <1>5, <2>1, Constants DEF CountsTrue
<1> QED
  BY <1>5, <1>6, <1>7 DEF GoodCache

LEMMA Touched ==
  ASSUME NEW c, NEW t, GoodCache(c, t), NEW k
  PROVE  GoodCache(Touch(c, k), t)
<1> DEFINE s == c.lru
           old == Without(s, k)
           new == Only(s, Of(s, k))
           d == Touch(c, k)
<1>1. s \in Seq(Entry) /\ c \in CacheRecord /\ c.size \in Int
  BY DEF GoodCache, CacheRecord
<1>2. /\ old \in Seq(Entry) /\ new \in Seq(Entry)
      /\ \A e \in ToSet(old) \cup ToSet(new) : e \in ToSet(s)
      /\ SizeOf(old) = SizeIn(s, ToSet(s) \ Of(s, k))
      /\ SizeOf(new) = SizeIn(s, Of(s, k))
  BY <1>1, OnlyHas DEF Without
<1>3. SizeOf(s) = SizeIn(s, ToSet(s) \ Of(s, k)) + SizeIn(s, Of(s, k))
  BY <1>1, SizeOfAll, Splits DEF SizeOf
<1> HIDE DEF old, new
<1>4. /\ old \o new \in Seq(Entry)
      /\ \A e \in ToSet(old \o new) : e \in ToSet(s)
  <2>1. old \o new \in Seq(Entry)
    BY <1>2
  <2>2. ASSUME NEW e \in ToSet(old \o new)
        PROVE  e \in ToSet(old) \/ e \in ToSet(new)
    <3>1. PICK i \in 1..Len(old \o new) : e = (old \o new)[i]
      BY DEF ToSet
    <3>2. CASE i <= Len(old)
      BY <1>2, <3>1, <3>2 DEF ToSet
    <3>3. CASE i > Len(old)
      <4>1. i - Len(old) \in 1..Len(new) /\ e = new[i - Len(old)]
        BY <1>2, <3>1, <3>3
      <4> QED
        BY <4>1 DEF ToSet
    <3> QED
      BY <1>2, <3>2, <3>3
  <2> QED
    BY <1>2, <2>1, <2>2
<1>5. SizeOf(old \o new) = SizeOf(s)
  <2>1. SizeIn(old \o new, Entry) = SizeIn(old, Entry) + SizeIn(new, Entry)
    BY <1>2, Joins
  <2> QED
    BY <1>2, <1>3, <1>4, <2>1, SizeOfAll
<1>6. /\ d \in CacheRecord /\ d.lru = old \o new /\ d.size = c.size
      /\ d.store = c.store /\ d.lost = c.lost
  <2>1. d = [c EXCEPT !.lru = old \o new]
    BY DEF Touch, old, new
  <2>2. d = Remembers(c, old \o new, c.size, c.lost)
    BY <1>1, <2>1 DEF CacheRecord, Remembers
  <2>3. c.lost \in BOOLEAN
    BY <1>1 DEF CacheRecord
  <2> DEFINE l == old \o new
  <2>4. d = Remembers(c, l, c.size, c.lost) /\ l \in Seq(Entry)
    BY <1>4, <2>2
  <2> HIDE DEF d, s, l
  <2>5. d \in CacheRecord /\ d.lru = l /\ d.size = c.size /\ d.store = c.store /\ d.lost = c.lost
    BY <1>1, <2>3, <2>4, Memory
  <2> QED
    BY <2>5 DEF l
<1>7. AllKept(d, t) /\ CountsTrue(d)
  <2> HIDE DEF d
  <2> QED
    BY <1>4, <1>5, <1>6 DEF GoodCache, AllKept, CountsTrue
<1> QED
  BY <1>6, <1>7 DEF GoodCache

(***************************************************************************)
(* What is put into the memory.                                            *)
(***************************************************************************)
\* There is a least number of entries to evict, and it is the one chosen.
LEMMA Least ==
  ASSUME NEW n \in Nat, NEW S, n \in S
  PROVE  \E i \in 0..n : i \in S /\ \A j \in 0..(i - 1) : j \notin S
<1> DEFINE Before == {i \in 0..n : \A j \in 0..i : j \notin S}
<1>1. SUFFICES ASSUME \A i \in 0..n : i \in S => \E j \in 0..(i - 1) : j \in S
               PROVE  FALSE
  OBVIOUS
<1>2. 0 \in Before
  <2>1. 0 \notin S
    BY <1>1
  <2> QED
    BY <2>1
<1>3. ASSUME NEW i \in 0..(n - 1), i \in Before
      PROVE  i + 1 \in Before
  <2>1. i + 1 \notin S
    BY <1>1, <1>3
  <2> QED
    BY <1>3, <2>1
<1>4. n \in Before
  <2> HIDE DEF Before
  <2> QED
    BY <1>2, <1>3, AtEnd
<1> QED
  BY <1>4

Fits(c, counted, size, n) == counted - SizeOf(SubSeq(c.lru, 1, n)) + size <= MaxSize

LEMMA Chosen ==
  ASSUME NEW c, c.lru \in Seq(Entry), NEW counted \in Int, NEW size \in Nat
  PROVE  LET n == Evicted(c, counted, size)
         IN n \in 0..Len(c.lru) /\ (n = Len(c.lru) \/ Fits(c, counted, size, n))
<1> DEFINE m == Len(c.lru)
           S == {i \in 0..m : i = m \/ Fits(c, counted, size, i)}
           Which(n) == /\ n = m \/ Fits(c, counted, size, n)
                       /\ \A i \in 0..(n - 1) :
                             counted - SizeOf(SubSeq(c.lru, 1, i)) + size > MaxSize
<1>1. m \in Nat
  OBVIOUS
<1>2. PICK n \in 0..m : n \in S /\ \A i \in 0..(n - 1) : i \notin S
  <2>1. m \in S
    BY <1>1
  <2> HIDE DEF S, m
  <2> QED
    BY <1>1, <2>1, Least
<1>3. Which(n)
  <2>1. n = m \/ Fits(c, counted, size, n)
    BY <1>2
  <2>2. ASSUME NEW i \in 0..(n - 1)
        PROVE  counted - SizeOf(SubSeq(c.lru, 1, i)) + size > MaxSize
    <3>1. i \in 0..m /\ ~Fits(c, counted, size, i)
      <4>1. i \in 0..m /\ i \notin S
        BY <1>1, <1>2
      <4> QED
        BY <4>1
    <3>2. SizeOf(SubSeq(c.lru, 1, i)) \in Nat
      BY <3>1, Parts, SizeOfAll
    <3> QED
      BY <3>1, <3>2, Constants DEF Fits
  <2> QED
    BY <2>1, <2>2
<1>4. Evicted(c, counted, size) = CHOOSE i \in 0..m : Which(i)
  BY DEF Evicted, Fits
<1> HIDE DEF Which
<1>5. Which(Evicted(c, counted, size)) /\ Evicted(c, counted, size) \in 0..m
  BY <1>3, <1>4
<1> QED
  BY <1>5 DEF Which

SameKey(k) == {x \in Entry : x.key = k}

LEMMA Others ==
  ASSUME NEW s \in Seq(Entry), NEW k
  PROVE  /\ SizeIn(s, Of(s, k)) = SizeIn(s, SameKey(k)) /\ SizeIn(s, SameKey(k)) \in Nat
         /\ SizeOf(s) = SizeIn(s, SameKey(k)) + SizeOf(Without(s, k))
         /\ SizeOf(Without(s, k)) \in Nat
         /\ Without(s, k) \in Seq(Entry) /\ ToSet(Without(s, k)) \subseteq ToSet(s)
         /\ Of(s, k) = {} => SizeIn(s, SameKey(k)) = 0
<1>1. \A i \in 1..Len(s) : s[i] \in Entry /\ s[i] \in ToSet(s)
  BY SizeOfAll
<1>2. SizeIn(s, Of(s, k)) = SizeIn(s, SameKey(k))
  BY <1>1, Alike DEF Of, SameKey
<1>3. SizeOf(s) = SizeIn(s, Of(s, k)) + SizeIn(s, ToSet(s) \ Of(s, k))
  BY <1>1, Splits DEF SizeOf
<1>4. /\ Without(s, k) \in Seq(Entry) /\ ToSet(Without(s, k)) \subseteq ToSet(s)
      /\ SizeOf(Without(s, k)) = SizeIn(s, ToSet(s) \ Of(s, k))
  BY OnlyHas DEF Without
<1>5. ASSUME Of(s, k) = {}
      PROVE  SizeIn(s, SameKey(k)) = 0
  <2>1. \A i \in 1..Len(s) : s[i] \in ToSet(s) <=> s[i] \in (ToSet(s) \ Of(s, k))
    BY <1>5
  <2>2. SizeOf(s) = SizeIn(s, ToSet(s) \ Of(s, k))
    BY <2>1, Alike DEF SizeOf
  <2> QED
    BY <1>2, <1>3, <2>2, SizeInNat
<1> QED
  BY <1>2, <1>3, <1>4, <1>5, SizeInNat

\* What is evicted and what stays, each with what it takes.
LEMMA Halves ==
  ASSUME NEW s \in Seq(Entry), NEW n \in 0..Len(s), NEW k
  PROVE  LET p == SubSeq(s, 1, n)
             q == SubSeq(s, n + 1, Len(s))
         IN /\ p \in Seq(Entry) /\ q \in Seq(Entry) /\ ToSet(q) \subseteq ToSet(s)
            /\ SizeOf(p) \in Nat /\ SizeOf(q) \in Nat
            /\ SizeOf(s) = SizeOf(p) + SizeOf(q)
            /\ SizeIn(s, SameKey(k)) = SizeIn(p, SameKey(k)) + SizeIn(q, SameKey(k))
            /\ n = 0 => SizeOf(p) = 0
            /\ n = Len(s) => SizeOf(q) = 0
<1> DEFINE p == SubSeq(s, 1, n)
           q == SubSeq(s, n + 1, Len(s))
<1>1. p \in Seq(Entry) /\ q \in Seq(Entry)
  BY Parts
<1>2. SizeIn(s, Entry) = SizeIn(p, Entry) + SizeIn(q, Entry)
  BY Parts
<1>3. SizeIn(s, SameKey(k)) = SizeIn(p, SameKey(k)) + SizeIn(q, SameKey(k))
  BY Parts
<1>4. ToSet(q) \subseteq ToSet(s)
  BY DEF ToSet
<1>5. n = 0 => Len(p) = 0
  OBVIOUS
<1>6. n = Len(s) => Len(q) = 0
  OBVIOUS
<1>7. \A r \in Seq(Entry) : Len(r) = 0 => SizeIn(r, Entry) = 0
  BY SumIs
<1> HIDE DEF p, q
<1>8. /\ SizeOf(p) \in Nat /\ SizeOf(q) \in Nat /\ SizeOf(s) = SizeOf(p) + SizeOf(q)
      /\ n = 0 => SizeOf(p) = 0
      /\ n = Len(s) => SizeOf(q) = 0
  BY <1>1, <1>2, <1>5, <1>6, <1>7, SizeOfAll
<1> QED
  BY <1>1, <1>3, <1>4, <1>8 DEF p, q

LEMMA PutIn ==
  ASSUME NEW c, NEW t, GoodCache(c, t), NEW e \in Entry, Kept(e, t)
  PROVE  GoodCache(Put(c, e), t)
<1> DEFINE s == c.lru
           k == e.key
           counted == c.size - SizeIn(s, Of(s, k))
           n == Evicted(c, counted, e.size)
           p == SubSeq(s, 1, n)
           q == SubSeq(s, n + 1, Len(s))
           lost == c.lost \/ (n > 0 /\ Of(s, k) # {})
           fewer == counted - SizeOf(p)
           left == Remembers(c, q, fewer, lost)
           rest == Without(q, k)
           all == Remembers(c, Append(rest, e), fewer + e.size, lost)
           x == SizeIn(p, SameKey(k))
           y == SizeIn(q, SameKey(k))
<1>1. s \in Seq(Entry) /\ c \in CacheRecord /\ c.size \in Int /\ c.lost \in BOOLEAN
  BY DEF GoodCache, CacheRecord
<1>2. e.size \in Nat /\ e.since \in Int
  BY Sizes DEF Entry
<1>3. /\ SizeIn(s, Of(s, k)) = SizeIn(s, SameKey(k)) /\ SizeIn(s, SameKey(k)) \in Nat
      /\ Of(s, k) = {} => SizeIn(s, SameKey(k)) = 0
  <2> HIDE DEF s, k
  <2> QED
    BY <1>1, Others
<1>4. counted \in Int
  BY <1>1, <1>3
<1>5. /\ n \in 0..Len(s) /\ Len(s) \in Nat
      /\ n = Len(s) \/ Fits(c, counted, e.size, n)
  <2> HIDE DEF counted
  <2> QED
    BY <1>1, <1>2, <1>4, Chosen
<1>6. /\ p \in Seq(Entry) /\ q \in Seq(Entry) /\ ToSet(q) \subseteq ToSet(s)
      /\ SizeOf(p) \in Nat /\ SizeOf(q) \in Nat
      /\ SizeOf(s) = SizeOf(p) + SizeOf(q)
      /\ SizeIn(s, SameKey(k)) = x + y
      /\ n = 0 => SizeOf(p) = 0
      /\ n = Len(s) => SizeOf(q) = 0
  <2> HIDE DEF s, n, k
  <2> QED
    BY <1>1, <1>5, Halves
<1> HIDE DEF s, n, k, p, q
<1>7. /\ x \in Nat /\ y \in Nat /\ SizeOf(rest) \in Nat /\ x <= SizeOf(p)
      /\ SizeOf(q) = y + SizeOf(rest)
      /\ rest \in Seq(Entry) /\ ToSet(rest) \subseteq ToSet(q)
  <2>1. /\ y \in Nat /\ SizeOf(rest) \in Nat
        /\ SizeOf(q) = y + SizeOf(rest)
        /\ rest \in Seq(Entry) /\ ToSet(rest) \subseteq ToSet(q)
    BY <1>6, Others
  <2>2. x \in Nat /\ SizeOf(p) = x + SizeOf(Without(p, k)) /\ SizeOf(Without(p, k)) \in Nat
    BY <1>6, Others
  <2> QED
    BY <2>1, <2>2
<1> HIDE DEF rest, x, y
<1>8. /\ Append(rest, e) \in Seq(Entry) /\ ToSet(Append(rest, e)) = ToSet(rest) \cup {e}
      /\ SizeOf(Append(rest, e)) = SizeOf(rest) + e.size
  BY <1>7, Appended, SizeOfAll
<1>9. /\ c.size <= SizeOf(s)
      /\ ~c.lost => c.size = SizeOf(s) /\ c.size <= MaxSize
      /\ \A f \in ToSet(s) \cup c.store : Kept(f, t)
  BY DEF GoodCache, CountsTrue, AllKept, s
<1>10. counted = c.size - (x + y) /\ fewer = counted - SizeOf(p)
  BY <1>3, <1>6
<1>11. n = Len(s) \/ fewer + e.size <= MaxSize
  BY <1>5 DEF Fits, p, s
<1>12. lost \in BOOLEAN /\ (~lost => ~c.lost /\ ~(n > 0 /\ Of(s, k) # {}))
  BY <1>1
<1> HIDE DEF counted, fewer, lost
<1>13. fewer \in Int /\ lost \in BOOLEAN /\ fewer + e.size \in Int
  <2>1. fewer \in Int
    BY <1>1, <1>6, <1>7, <1>10
  <2> QED
    BY <1>2, <1>12, <2>1
<1>14. fewer <= SizeOf(q) /\ fewer + e.size <= SizeOf(rest) + e.size
  <2>1. c.size <= SizeOf(p) + SizeOf(q)
    BY <1>6, <1>9
  <2>2. fewer = c.size - (x + y) - SizeOf(p)
    BY <1>10
  <2>3. fewer <= SizeOf(q) /\ fewer <= SizeOf(rest)
    BY <1>1, <1>6, <1>7, <2>1, <2>2
  <2> QED
    BY <1>2, <1>7, <1>13, <2>3
<1>15. ASSUME ~lost
       PROVE  /\ fewer + e.size = SizeOf(rest) + e.size
              /\ e.size <= MaxSize => fewer + e.size <= MaxSize
              /\ e.size > MaxSize => fewer = SizeOf(q) /\ fewer <= MaxSize
  <2>1. ~c.lost /\ (n = 0 \/ Of(s, k) = {})
    <3>1. ~c.lost /\ ~(n > 0 /\ Of(s, k) # {})
      BY <1>12, <1>15
    <3>2. n \in Nat
      BY <1>5
    <3> QED
      BY <3>1, <3>2
  <2>2. c.size = SizeOf(p) + SizeOf(q) /\ c.size <= MaxSize
    BY <1>6, <1>9, <2>1
  <2>3. CASE Of(s, k) = {}
    <3>1. x = 0 /\ y = 0
      BY <1>3, <1>6, <1>7, <2>3
    <3>2. fewer = SizeOf(q) /\ SizeOf(rest) = SizeOf(q)
      BY <1>6, <1>7, <1>10, <2>2, <3>1
    <3> QED
      BY <1>2, <1>6, <1>11, <2>2, <3>2, Constants
  <2>4. CASE n = 0 /\ Of(s, k) # {}
    <3>1. SizeOf(p) = 0 /\ x = 0
      BY <1>6, <1>7, <2>4
    <3>2. fewer = SizeOf(rest)
      BY <1>6, <1>7, <1>10, <2>2, <3>1
    <3>3. n # Len(s)
      <4>1. PICK f : f \in Of(s, k)
        BY <2>4
      <4>2. \E i \in 1..Len(s) : f = s[i]
        BY <4>1 DEF Of, ToSet
      <4> QED
        BY <1>5, <2>4, <4>2
    <3>4. fewer + e.size <= MaxSize
      BY <1>11, <3>3
    <3> QED
      BY <1>2, <1>7, <3>2, <3>4, Constants
  <2> QED
    BY <2>1, <2>3, <2>4
<1>16. /\ left \in CacheRecord /\ left.lru = q /\ left.size = fewer /\ left.lost = lost
       /\ left.store = c.store
  <2> HIDE DEF left
  <2>1. left = Remembers(c, q, fewer, lost)
    BY DEF left
  <2> QED
    BY <1>1, <1>6, <1>13, <2>1, Memory
<1>17. /\ all \in CacheRecord /\ all.lru = Append(rest, e) /\ all.size = fewer + e.size
       /\ all.lost = lost /\ all.store = c.store
  <2>1. PICK l \in Seq(Entry) : l = Append(rest, e)
    BY <1>8
  <2>2. PICK z \in Int : z = fewer + e.size
    BY <1>13
  <2>3. all = Remembers(c, l, z, lost)
    BY <2>1, <2>2
  <2> HIDE DEF all
  <2>4. /\ all \in CacheRecord /\ all.lru = l /\ all.size = z
        /\ all.lost = lost /\ all.store = c.store
    BY <1>1, <1>13, <2>3, Memory
  <2> QED
    BY <2>1, <2>2, <2>4
<1>18. Put(c, e) = (IF e.size > MaxSize THEN left ELSE all)
  <2>1. Put(c, e) = (IF e.size > MaxSize THEN left
                     ELSE [left EXCEPT !.lru = Append(Without(left.lru, e.key), e),
                                       !.size = left.size + e.size])
    BY DEF Put, Remembers, counted, fewer, lost, s, k, n, p, q
  <2>2. [left EXCEPT !.lru = Append(Without(left.lru, e.key), e),
                     !.size = left.size + e.size] = all
    <3>1. left.lru = q /\ left.size = fewer
      BY <1>16
    <3>2. Append(Without(left.lru, e.key), e) = Append(rest, e)
      BY <3>1 DEF rest, k
    <3> QED
      BY <1>1, <3>1, <3>2 DEF Remembers, CacheRecord
  <2> QED
    BY <2>1, <2>2
<1> HIDE DEF left, all
<1>19. CASE e.size > MaxSize
  <2>1. GoodCache(left, t)
    BY <1>6, <1>9, <1>14, <1>15, <1>16, <1>19 DEF GoodCache, CountsTrue, AllKept
  <2> QED
    BY <1>18, <1>19, <2>1
<1>20. CASE ~(e.size > MaxSize)
  <2>1. e.size <= MaxSize
    BY <1>2, <1>20, Constants
  <2>2. CountsTrue(all)
    BY <1>8, <1>14, <1>15, <1>17, <2>1 DEF CountsTrue
  <2>3. AllKept(all, t)
    BY <1>6, <1>7, <1>8, <1>9, <1>17 DEF AllKept
  <2> QED
    BY <1>17, <1>18, <1>20, <2>2, <2>3 DEF GoodCache
<1> QED
  BY <1>19, <1>20

(***************************************************************************)
(* The operations of the service.                                          *)
(***************************************************************************)
LEMMA FailedIn ==
  ASSUME NEW c, NEW t, GoodCache(c, t)
  PROVE  GoodCache(Failed(c), t)
<1> DEFINE E == Seq(Entry)
           T == SUBSET Entry
           d == Failed(c)
<1>1. /\ c \in [lru: E, size: Int, store: T, fails: 0..MaxRedisFailures,
                current: {"redis", "memory"}, lost: BOOLEAN]
      /\ MaxRedisFailures \in Nat
  BY Constants DEF GoodCache, CacheRecord
<1> HIDE DEF E, T
<1>2. c.fails \in 0..MaxRedisFailures
  BY <1>1
<1>3. /\ d \in [lru: E, size: Int, store: T, fails: 0..MaxRedisFailures,
                current: {"redis", "memory"}, lost: BOOLEAN]
      /\ d.lru = c.lru /\ d.size = c.size /\ d.store = c.store /\ d.lost = c.lost
  <2>1. CASE c.fails + 1 >= MaxRedisFailures
    <3>1. PICK f \in 0..MaxRedisFailures : f = MaxRedisFailures
      BY <1>1
    <3>2. d = [c EXCEPT !.fails = f, !.current = "memory"]
      BY <2>1, <3>1 DEF Failed
    <3> HIDE DEF d
    <3> QED
      BY <1>1, <3>2
  <2>2. CASE ~(c.fails + 1 >= MaxRedisFailures)
    <3>1. PICK f \in 0..MaxRedisFailures : f = c.fails + 1
      BY <1>1, <1>2, <2>2
    <3>2. d = [c EXCEPT !.fails = f]
      BY <2>2, <3>1 DEF Failed
    <3> HIDE DEF d
    <3> QED
      BY <1>1, <3>2
  <2> QED
    BY <2>1, <2>2
<1>4. d \in CacheRecord
  BY <1>3 DEF CacheRecord, E, T
<1> HIDE DEF d
<1>5. GoodCache(d, t)
  BY <1>3, <1>4, OtherFields
<1> QED
  BY <1>5 DEF d

\* The store of Redis and the count of the failures change, the memory does not.
LEMMA Stored ==
  ASSUME NEW c, NEW t, GoodCache(c, t), NEW S \in SUBSET Entry,
         \A e \in S : e \in c.store \/ Kept(e, t)
  PROVE  /\ GoodCache([c EXCEPT !.store = S], t)
         /\ GoodCache([c EXCEPT !.store = S, !.fails = 0], t)
<1> DEFINE E == Seq(Entry)
           T == SUBSET Entry
           N == 0..MaxRedisFailures
<1>1. /\ c \in [lru: E, size: Int, store: T, fails: N,
                current: {"redis", "memory"}, lost: BOOLEAN]
      /\ S \in T
  BY DEF GoodCache, CacheRecord
<1>2. PICK z \in N : z = 0
  BY Constants
<1> HIDE DEF E, T, N
<1>3. PICK d : d = [c EXCEPT !.store = S]
  OBVIOUS
<1>4. /\ d \in [lru: E, size: Int, store: T, fails: N,
                current: {"redis", "memory"}, lost: BOOLEAN]
      /\ d.lru = c.lru /\ d.size = c.size /\ d.store = S /\ d.lost = c.lost
  BY <1>1, <1>3
<1>5. PICK f : f = [c EXCEPT !.store = S, !.fails = z]
  OBVIOUS
<1>6. /\ f \in [lru: E, size: Int, store: T, fails: N,
                current: {"redis", "memory"}, lost: BOOLEAN]
      /\ f.lru = c.lru /\ f.size = c.size /\ f.store = S /\ f.lost = c.lost
  BY <1>1, <1>2, <1>5
<1>7. d \in CacheRecord /\ f \in CacheRecord
  BY <1>4, <1>6 DEF CacheRecord, E, T, N
<1>8. GoodCache(d, t)
  BY <1>4, <1>7, OtherFields
<1>9. GoodCache(f, t)
  BY <1>6, <1>7, OtherFields
<1> QED
  BY <1>2, <1>3, <1>5, <1>8, <1>9

LEMMA SetIn ==
  ASSUME NEW c, NEW t, GoodCache(c, t), NEW e \in Entry, Kept(e, t), NEW ok
  PROVE  GoodCache(Set(c, e, ok), t)
<1>1. GoodCache(Put(c, e), t)
  BY PutIn
<1>2. GoodCache(Failed(c), t)
  BY FailedIn
<1> DEFINE S == {f \in c.store : f.key # e.key} \cup {e}
<1>3. S \in SUBSET Entry /\ \A f \in S : f \in c.store \/ Kept(f, t)
  BY DEF GoodCache, CacheRecord
<1> HIDE DEF S
<1>4. GoodCache([c EXCEPT !.store = S, !.fails = 0], t)
  BY <1>3, Stored
<1>5. Set(c, e, ok) = (IF c.current = "memory" THEN Put(c, e)
                       ELSE IF ok THEN [c EXCEPT !.store = S, !.fails = 0]
                       ELSE Failed(c))
  BY DEF Set, S
<1> QED
  BY <1>1, <1>2, <1>4, <1>5

LEMMA ReadIn ==
  ASSUME NEW c, NEW t, GoodCache(c, t), NEW k, NEW ok
  PROVE  GoodCache(Read(c, k, ok), t)
<1>1. GoodCache(Expire(c), t)
  BY Dropped DEF Expire
<1>2. GoodCache(Touch(Expire(c), k), t)
  BY <1>1, Touched
<1>3. GoodCache([c EXCEPT !.fails = 0], t)
  <2>1. c.store \in SUBSET Entry
    BY DEF GoodCache, CacheRecord
  <2>2. GoodCache([c EXCEPT !.store = c.store, !.fails = 0], t)
    BY <2>1, Stored
  <2>3. [c EXCEPT !.store = c.store, !.fails = 0] = [c EXCEPT !.fails = 0]
    BY DEF GoodCache, CacheRecord
  <2> QED
    BY <2>2, <2>3
<1> QED
  BY <1>2, <1>3 DEF Read

\* New settings and a restart.
LEMMA Anew ==
  ASSUME NEW c, NEW t, GoodCache(c, t)
  PROVE  /\ GoodCache(Connected(Empty(c)), t)
         /\ GoodCache([Connected(Empty(c)) EXCEPT !.fails = 0], t)
<1>1. PICK d : d = Empty(c)
  OBVIOUS
<1>2. GoodCache(d, t)
  BY <1>1, Emptied
<1> DEFINE E == Seq(Entry)
           T == SUBSET Entry
           N == 0..MaxRedisFailures
<1>3. d \in [lru: E, size: Int, store: T, fails: N,
             current: {"redis", "memory"}, lost: BOOLEAN]
  BY <1>2 DEF GoodCache, CacheRecord
<1> HIDE DEF E, T, N
<1>4. PICK b \in {"redis", "memory"} : b = (IF redisUp THEN "redis" ELSE "memory")
  OBVIOUS
<1>5. PICK f : f = [d EXCEPT !.current = b]
  OBVIOUS
<1>6. /\ f \in [lru: E, size: Int, store: T, fails: N,
                current: {"redis", "memory"}, lost: BOOLEAN]
      /\ f.lru = d.lru /\ f.size = d.size /\ f.store = d.store /\ f.lost = d.lost
  BY <1>3, <1>5
<1>7. f \in CacheRecord
  BY <1>6 DEF CacheRecord, E, T, N
<1>8. GoodCache(f, t)
  BY <1>2, <1>6, <1>7, OtherFields
<1>9. GoodCache([f EXCEPT !.fails = 0], t)
  <2>1. f.store \in SUBSET Entry
    BY <1>7 DEF CacheRecord
  <2>2. GoodCache([f EXCEPT !.store = f.store, !.fails = 0], t)
    BY <1>8, <2>1, Stored
  <2>3. [f EXCEPT !.store = f.store, !.fails = 0] = [f EXCEPT !.fails = 0]
    BY <1>7 DEF CacheRecord
  <2> QED
    BY <2>2, <2>3
<1>10. f = Connected(Empty(c))
  BY <1>1, <1>4, <1>5 DEF Connected
<1> QED
  BY <1>8, <1>9, <1>10

(***************************************************************************)
(* The requests.                                                           *)
(***************************************************************************)
LEMMA FoundIs ==
  ASSUME NEW c, NEW k, NEW ok, NEW e \in Found(c, k, ok),
         now \in Int, GoodCache(c, now)
  PROVE  e \in Entry /\ e.key = k /\ Kept(e, now) /\ now <= e.till
<1>1. c.lru \in Seq(Entry) /\ c.store \subseteq Entry
  BY DEF GoodCache, CacheRecord
<1>2. ToSet(c.lru) \subseteq Entry
  BY <1>1, SizeOfAll
<1>3. e \in ToSet(c.lru) \cup c.store /\ e.key = k /\ (now <= e.till \/ now < e.till)
  BY DEF Found, Unexpired, Live
<1>4. e \in Entry
  BY <1>1, <1>2, <1>3
<1>5. e.till \in Int
  BY <1>4, Constants DEF Entry
<1>6. now <= e.till
  BY <1>3, <1>5
<1>7. Kept(e, now)
  BY <1>3 DEF GoodCache, AllKept
<1> QED
  BY <1>3, <1>4, <1>6, <1>7

LEMMA New ==
  ASSUME NEW k \in Keys, NEW size \in RawSizes \cup {PageSize}, NEW since \in 0..MaxTime,
         now \in 0..MaxTime, since <= now, now + TTL <= since + 2 * TTL,
         k[2] = "raw" => since = now
  PROVE  NewEntry(k, size, since) \in Entry /\ Kept(NewEntry(k, size, since), now)
<1>1. now + TTL \in 0..(MaxTime + TTL)
  BY Constants
<1>2. NewEntry(k, size, since) \in Entry
  BY <1>1 DEF NewEntry, Entry
<1>3. Kept(NewEntry(k, size, since), now)
  BY Constants DEF NewEntry, Kept
<1> QED
  BY <1>2, <1>3

\* The keys of a page and of the raw listing it is made of.
LEMMA KeysOf ==
  ASSUME NEW k \in Pages
  PROVE  k \in Keys /\ k[2] # "raw" /\ Raw(k) \in Keys /\ Raw(k)[2] = "raw"
<1>1. k[1] \in Archives /\ k[2] # "raw"
  BY ArchiveCacheAssumption
<1> QED
  BY <1>1 DEF Keys, Raw

\* What every action leaves to show.
LEMMA Rest ==
  ASSUME GoodCache(cache', now'), redisUp' \in BOOLEAN, known' \in BOOLEAN,
         req' \in [Requests -> Pages \cup {Idle}], now' \in 0..MaxTime,
         outages' \in 0..MaxOutages, age' \in Nat, age' <= 2 * TTL
  PROVE  CacheInv'
BY DEF CacheInv, CacheTypeOK, AnswersAreFresh, GoodCache, CacheRecord, CountsTrue, AllKept, Kept,
       Entry, Keys, SizeOf

LEMMA KnownAfter ==
  ASSUME NEW ok, Backend(ok), known \in BOOLEAN
  PROVE  known' \in BOOLEAN
BY DEF Backend, RedisDoes

LEMMA Zero == 0 \in Nat /\ 0 <= 2 * TTL
BY Constants

LEMMA BrowsePageKeeps ==
  ASSUME CacheInv, NEW k \in Pages, BrowsePage(k)
  PROVE  CacheInv'
<1>1. PICK ok \in BOOLEAN :
         Backend(ok) /\ \E e \in Found(cache, k, ok) :
                           cache' = Read(cache, k, ok) /\ age' = now - e.since
  BY DEF BrowsePage
<1>2. PICK e \in Found(cache, k, ok) : cache' = Read(cache, k, ok) /\ age' = now - e.since
  BY <1>1
<1>3. now \in 0..MaxTime /\ now \in Int /\ GoodCache(cache, now)
  BY Constants DEF CacheInv, CacheTypeOK
<1>4. e \in Entry /\ Kept(e, now) /\ now <= e.till
  BY <1>3, FoundIs
<1>5. e.since \in Int /\ e.till \in Int
  BY <1>4, Constants DEF Entry
<1>6. age' \in Nat /\ age' <= 2 * TTL
  BY <1>2, <1>3, <1>4, <1>5, Constants DEF Kept
<1>7. GoodCache(cache', now)
  BY <1>2, <1>3, ReadIn
<1>8. known' \in BOOLEAN
  BY <1>1, KnownAfter DEF CacheInv, CacheTypeOK
<1> QED
  BY <1>6, <1>7, <1>8, Rest DEF BrowsePage, CacheInv, CacheTypeOK

LEMMA BrowseRawKeeps ==
  ASSUME CacheInv, NEW k \in Pages, BrowseRaw(k)
  PROVE  CacheInv'
<1>1. PICK ok \in BOOLEAN :
         Backend(ok) /\ \E e \in Found(cache, Raw(k), ok) :
            /\ cache' = Set(Read(cache, Raw(k), ok), NewEntry(k, PageSize, e.since), ok)
            /\ age' = now - e.since
  BY DEF BrowseRaw
<1>2. PICK e \in Found(cache, Raw(k), ok) :
         /\ cache' = Set(Read(cache, Raw(k), ok), NewEntry(k, PageSize, e.since), ok)
         /\ age' = now - e.since
  BY <1>1
<1>3. now \in 0..MaxTime /\ now \in Int /\ GoodCache(cache, now)
  BY Constants DEF CacheInv, CacheTypeOK
<1>4. e \in Entry /\ e.key = Raw(k) /\ Kept(e, now) /\ now <= e.till
  BY <1>3, FoundIs
<1>5. e.since \in 0..MaxTime /\ e.since \in Int /\ e.till \in Int
  BY <1>4, Constants DEF Entry
<1>6. e.since <= now /\ now <= e.since + TTL
  BY <1>3, <1>4, <1>5, KeysOf, Constants DEF Kept
<1>7. age' \in Nat /\ age' <= 2 * TTL
  BY <1>2, <1>3, <1>5, <1>6, Constants
<1>8. GoodCache(Read(cache, Raw(k), ok), now)
  BY <1>3, ReadIn
<1>9. /\ NewEntry(k, PageSize, e.since) \in Entry
      /\ Kept(NewEntry(k, PageSize, e.since), now)
  <2>1. now + TTL <= e.since + 2 * TTL
    BY <1>3, <1>5, <1>6, Constants
  <2>2. k \in Keys /\ k[2] # "raw" /\ PageSize \in RawSizes \cup {PageSize}
    BY KeysOf
  <2> QED
    BY <1>3, <1>5, <1>6, <2>1, <2>2, New
<1>10. GoodCache(cache', now)
  BY <1>2, <1>8, <1>9, SetIn
<1>11. known' \in BOOLEAN
  BY <1>1, KnownAfter DEF CacheInv, CacheTypeOK
<1> QED
  BY <1>7, <1>10, <1>11, Rest DEF BrowseRaw, CacheInv, CacheTypeOK

LEMMA StartListingKeeps ==
  ASSUME CacheInv, NEW k \in Pages, NEW r \in Requests, StartListing(r, k)
  PROVE  CacheInv'
<1>1. PICK ok \in BOOLEAN :
         Backend(ok) /\ cache' = Read(Read(cache, k, ok), Raw(k), ok)
  BY DEF StartListing
<1>2. GoodCache(cache, now)
  BY DEF CacheInv
<1>3. GoodCache(cache', now)
  BY <1>1, <1>2, ReadIn
<1>4. known' \in BOOLEAN
  BY <1>1, KnownAfter DEF CacheInv, CacheTypeOK
<1>5. req' \in [Requests -> Pages \cup {Idle}]
  BY DEF StartListing, CacheInv, CacheTypeOK
<1> QED
  BY <1>3, <1>4, <1>5, Zero, Rest DEF StartListing, CacheInv, CacheTypeOK

\* What borg just listed.
LEMMA JustListed ==
  ASSUME CacheInv, NEW k \in Keys, NEW size \in RawSizes \cup {PageSize}
  PROVE  NewEntry(k, size, now) \in Entry /\ Kept(NewEntry(k, size, now), now)
<1>1. now \in 0..MaxTime /\ now <= now /\ now + TTL <= now + 2 * TTL
  BY Constants DEF CacheInv, CacheTypeOK
<1> QED
  BY <1>1, New

\* A request that waits, waits for a page.
LEMMA WaitsFor ==
  ASSUME CacheInv, NEW r \in Requests, req[r] # Idle
  PROVE  req[r] \in Pages /\ req[r] \in Keys /\ Raw(req[r]) \in Keys
<1>1. req[r] \in Pages
  BY DEF CacheInv, CacheTypeOK
<1> QED
  BY <1>1, KeysOf

LEMMA ListedKeeps ==
  ASSUME CacheInv, NEW r \in Requests, Listed(r)
  PROVE  CacheInv'
<1>1. PICK ok \in BOOLEAN :
         \E size \in RawSizes :
            Backend(ok) /\ cache' = Set(Set(cache, NewEntry(Raw(req[r]), size, now), ok),
                                        NewEntry(req[r], PageSize, now), ok)
  BY DEF Listed
<1>2. PICK size \in RawSizes :
            Backend(ok) /\ cache' = Set(Set(cache, NewEntry(Raw(req[r]), size, now), ok),
                                        NewEntry(req[r], PageSize, now), ok)
  BY <1>1
<1>3. req[r] \in Keys /\ Raw(req[r]) \in Keys
  BY WaitsFor DEF Listed
<1> DEFINE raw == NewEntry(Raw(req[r]), size, now)
           page == NewEntry(req[r], PageSize, now)
<1>4. raw \in Entry /\ Kept(raw, now)
  BY <1>3, JustListed
<1>5. page \in Entry /\ Kept(page, now)
  BY <1>3, JustListed
<1>6. cache' = Set(Set(cache, raw, ok), page, ok)
  BY <1>2
<1> HIDE DEF raw, page
<1>7. GoodCache(cache, now)
  BY DEF CacheInv
<1>8. GoodCache(Set(cache, raw, ok), now)
  BY <1>4, <1>7, SetIn
<1>9. GoodCache(cache', now)
  BY <1>5, <1>6, <1>8, SetIn
<1>10. known' \in BOOLEAN
  BY <1>2, KnownAfter DEF CacheInv, CacheTypeOK
<1>11. req' \in [Requests -> Pages \cup {Idle}]
  BY DEF Listed, CacheInv, CacheTypeOK
<1> QED
  BY <1>9, <1>10, <1>11, Zero, Rest DEF Listed, CacheInv, CacheTypeOK

LEMMA ListedPageKeeps ==
  ASSUME CacheInv, NEW r \in Requests, ListedPage(r)
  PROVE  CacheInv'
<1>1. PICK ok \in BOOLEAN :
         Backend(ok) /\ cache' = Set(cache, NewEntry(req[r], PageSize, now), ok)
  BY DEF ListedPage
<1>2. req[r] \in Keys
  BY WaitsFor DEF ListedPage
<1>3. /\ NewEntry(req[r], PageSize, now) \in Entry
      /\ Kept(NewEntry(req[r], PageSize, now), now)
  BY <1>2, JustListed
<1>4. GoodCache(cache, now)
  BY DEF CacheInv
<1>5. GoodCache(cache', now)
  BY <1>1, <1>3, <1>4, SetIn
<1>6. known' \in BOOLEAN
  BY <1>1, KnownAfter DEF CacheInv, CacheTypeOK
<1>7. req' \in [Requests -> Pages \cup {Idle}]
  BY DEF ListedPage, CacheInv, CacheTypeOK
<1> QED
  BY <1>5, <1>6, <1>7, Zero, Rest DEF ListedPage, CacheInv, CacheTypeOK

(***************************************************************************)
(* Clearing, settings and the world.                                       *)
(***************************************************************************)
LEMMA ListingRefusedKeeps ==
  ASSUME CacheInv, NEW r \in Requests, ListingRefused(r)
  PROVE  CacheInv'
<1>1. GoodCache(cache', now)
  BY DEF ListingRefused, CacheInv
<1>2. req' \in [Requests -> Pages \cup {Idle}]
  BY DEF ListingRefused, CacheInv, CacheTypeOK
<1> QED
  BY <1>1, <1>2, Zero, Rest DEF ListingRefused, CacheInv, CacheTypeOK

LEMMA ClearRepositoryKeeps ==
  ASSUME CacheInv, NEW p \in Repos, ClearRepository(p)
  PROVE  CacheInv'
<1> DEFINE gone == {e \in ToSet(cache.lru) : RepoOf[e.key[1]] = p}
           left == {e \in cache.store : RepoOf[e.key[1]] # p}
<1>1. PICK ok \in BOOLEAN :
         Backend(ok) /\ cache' = (IF cache.current = "memory" THEN Drop(Expire(cache), gone)
                                  ELSE IF ok THEN [cache EXCEPT !.store = left]
                                  ELSE cache)
  BY DEF ClearRepository
<1>2. GoodCache(cache, now)
  BY DEF CacheInv
<1>3. left \in SUBSET Entry /\ \A e \in left : e \in cache.store
  BY <1>2 DEF GoodCache, CacheRecord
<1> HIDE DEF gone, left
<1>4. GoodCache(Expire(cache), now)
  BY <1>2, Dropped DEF Expire
<1>5. GoodCache(Drop(Expire(cache), gone), now)
  BY <1>4, Dropped
<1>6. GoodCache([cache EXCEPT !.store = left], now)
  BY <1>2, <1>3, Stored
<1>7. GoodCache(cache', now)
  BY <1>1, <1>2, <1>5, <1>6
<1>8. known' \in BOOLEAN
  BY <1>1, KnownAfter DEF CacheInv, CacheTypeOK
<1> QED
  BY <1>7, <1>8, Zero, Rest DEF ClearRepository, CacheInv, CacheTypeOK

LEMMA ClearAllKeeps ==
  ASSUME CacheInv, ClearAll
  PROVE  CacheInv'
<1>1. PICK ok \in BOOLEAN :
         Backend(ok) /\ cache' = (IF cache.current = "memory" THEN Empty(cache)
                                  ELSE IF ok THEN [cache EXCEPT !.store = {}] ELSE cache)
  BY DEF ClearAll
<1>2. GoodCache(cache, now)
  BY DEF CacheInv
<1>3. PICK S \in SUBSET Entry : S = {}
  OBVIOUS
<1>4. GoodCache([cache EXCEPT !.store = S], now)
  BY <1>2, <1>3, Stored
<1>5. GoodCache(cache', now)
  BY <1>1, <1>2, <1>3, <1>4, Emptied
<1>6. known' \in BOOLEAN
  BY <1>1, KnownAfter DEF CacheInv, CacheTypeOK
<1> QED
  BY <1>5, <1>6, Zero, Rest DEF ClearAll, CacheInv, CacheTypeOK

LEMMA StatsKeep ==
  ASSUME CacheInv, Stats
  PROVE  CacheInv'
<1>1. GoodCache(cache', now)
  BY Dropped DEF Stats, Expire, CacheInv
<1> QED
  BY <1>1, Zero, Rest DEF Stats, CacheInv, CacheTypeOK

LEMMA ReconfigureKeeps ==
  ASSUME CacheInv, Reconfigure
  PROVE  CacheInv'
<1>1. GoodCache(cache', now)
  BY Anew DEF Reconfigure, CacheInv
<1> QED
  BY <1>1, Zero, Rest DEF Reconfigure, CacheInv, CacheTypeOK

LEMMA RestartKeeps ==
  ASSUME CacheInv, Restart
  PROVE  CacheInv'
<1>1. GoodCache(cache', now)
  BY Anew DEF Restart, CacheInv
<1> QED
  BY <1>1, Zero, Rest DEF Restart, CacheInv, CacheTypeOK

LEMMA RedisKeeps ==
  ASSUME CacheInv, RedisDown \/ RedisUp
  PROVE  CacheInv'
<1>1. GoodCache(cache', now)
  BY DEF RedisDown, RedisUp, CacheInv
<1>2. outages' \in 0..MaxOutages
  BY Constants DEF RedisDown, RedisUp, CacheInv, CacheTypeOK
<1> QED
  BY <1>1, <1>2, Zero, Rest DEF RedisDown, RedisUp, CacheInv, CacheTypeOK

LEMMA TickKeeps ==
  ASSUME CacheInv, Tick
  PROVE  CacheInv'
<1> DEFINE S == {e \in cache.store : now' < e.till}
<1>1. now \in 0..MaxTime /\ now' = now + 1 /\ now' \in 0..MaxTime
  BY Constants DEF Tick, CacheInv, CacheTypeOK
<1>2. cache.lru \in Seq(Entry) /\ cache.store \subseteq Entry /\ cache \in CacheRecord
  BY DEF CacheInv, GoodCache, CacheRecord
<1>3. GoodCache(cache, now')
  <2>1. ASSUME NEW e \in ToSet(cache.lru) \cup cache.store
        PROVE  Kept(e, now')
    <3>1. e \in Entry
      BY <1>2, SizeOfAll
    <3>2. e.since \in Int
      BY <3>1 DEF Entry
    <3>3. Kept(e, now)
      BY DEF CacheInv, GoodCache, AllKept
    <3> QED
      BY <1>1, <3>2, <3>3 DEF Kept
  <2> QED
    BY <2>1 DEF CacheInv, GoodCache, AllKept
<1>4. S \in SUBSET Entry /\ \A e \in S : e \in cache.store
  BY <1>2
<1>5. cache' = [cache EXCEPT !.store = S]
  BY DEF Tick
<1> HIDE DEF S
<1>6. GoodCache(cache', now')
  BY <1>3, <1>4, <1>5, Stored
<1> QED
  BY <1>1, <1>6, Zero, Rest DEF Tick, CacheInv, CacheTypeOK

LEMMA CacheInitInv == CacheInit => CacheInv
<1> SUFFICES ASSUME CacheInit
             PROVE  CacheInv
  OBVIOUS
<1> DEFINE none == <<>>
<1>0. none \in Seq(Entry)
  OBVIOUS
<1>1. PICK l \in Seq(Entry) : l = none
  BY <1>0
<1>2. PICK z \in Int : z = 0
  OBVIOUS
<1>3. PICK no \in BOOLEAN : no = FALSE
  OBVIOUS
<1>4. PICK f \in 0..MaxRedisFailures : f = 0
  BY Constants
<1>5. PICK b \in {"redis", "memory"} : b = (IF redisUp THEN "redis" ELSE "memory")
  OBVIOUS
<1>6. PICK S \in SUBSET Entry : S = {}
  OBVIOUS
<1>7. cache = [lru |-> l, size |-> z, store |-> S, fails |-> f, lost |-> no, current |-> b]
  BY <1>1, <1>2, <1>3, <1>4, <1>5, <1>6 DEF CacheInit
<1>8. /\ cache \in CacheRecord /\ cache.lru = l /\ cache.size = z /\ cache.store = S
      /\ cache.lost = no
  <2> DEFINE E == Seq(Entry)
             T == SUBSET Entry
             N == 0..MaxRedisFailures
  <2>1. l \in E /\ S \in T /\ f \in N
    OBVIOUS
  <2> HIDE DEF E, T, N
  <2>2. /\ cache \in [lru: E, size: Int, store: T, fails: N,
                      current: {"redis", "memory"}, lost: BOOLEAN]
        /\ cache.lru = l /\ cache.size = z /\ cache.store = S /\ cache.lost = no
    BY <1>7, <2>1
  <2> QED
    BY <2>2 DEF CacheRecord, E, T, N
<1>9. Len(l) = 0 /\ ToSet(l) = {}
  BY <1>1 DEF ToSet
<1>10. SizeOf(l) = 0
  <2>1. SizeIn(l, Entry) = 0
    BY <1>9, SumIs
  <2> QED
    BY <2>1, SizeOfAll
<1>11. GoodCache(cache, now)
  BY <1>2, <1>6, <1>8, <1>9, <1>10, Constants DEF GoodCache, CountsTrue, AllKept
<1>12. /\ redisUp \in BOOLEAN /\ known \in BOOLEAN /\ req \in [Requests -> Pages \cup {Idle}]
       /\ now \in 0..MaxTime /\ outages \in 0..MaxOutages /\ age \in Nat /\ age <= 2 * TTL
  <2>1. req \in [Requests -> Pages \cup {Idle}]
    BY DEF CacheInit
  <2>2. 0 \in 0..MaxTime /\ 0 \in 0..MaxOutages /\ 0 \in Nat /\ 0 <= 2 * TTL
    BY Constants
  <2>3. redisUp \in BOOLEAN /\ known \in BOOLEAN /\ now = 0 /\ outages = 0 /\ age = 0
    BY DEF CacheInit
  <2> QED
    BY <2>1, <2>2, <2>3
<1>13. CacheTypeOK
  BY <1>8, <1>12 DEF CacheTypeOK, CacheRecord
<1> QED
  BY <1>11, <1>12, <1>13 DEF CacheInv, AnswersAreFresh

LEMMA CacheStepInv == CacheInv /\ [CacheNext]_cacheVars => CacheInv'
<1> SUFFICES ASSUME CacheInv, [CacheNext]_cacheVars
             PROVE  CacheInv'
  OBVIOUS
<1>1. ASSUME NEW k \in Pages, BrowsePage(k) \/ BrowseRaw(k) \/ \E r \in Requests : StartListing(r, k)
      PROVE  CacheInv'
  BY <1>1, BrowsePageKeeps, BrowseRawKeeps, StartListingKeeps
<1>2. ASSUME NEW r \in Requests, Listed(r) \/ ListedPage(r) \/ ListingRefused(r)
      PROVE  CacheInv'
  BY <1>2, ListedKeeps, ListedPageKeeps, ListingRefusedKeeps
<1>3. ASSUME NEW p \in Repos, ClearRepository(p)
      PROVE  CacheInv'
  BY <1>3, ClearRepositoryKeeps
<1>4. CASE ClearAll \/ Stats \/ Reconfigure \/ Restart
  BY <1>4, ClearAllKeeps, StatsKeep, ReconfigureKeeps, RestartKeeps
<1>5. CASE RedisDown \/ RedisUp \/ Tick
  BY <1>5, RedisKeeps, TickKeeps
<1>6. CASE UNCHANGED cacheVars
  <2>1. GoodCache(cache', now')
    BY <1>6 DEF cacheVars, CacheInv
  <2> QED
    BY <1>6, <2>1, Rest DEF cacheVars, CacheInv, CacheTypeOK, AnswersAreFresh
<1> QED
  BY <1>1, <1>2, <1>3, <1>4, <1>5, <1>6 DEF CacheNext

\* Every entry is kept no longer than it may be, and the memory counts what it
\* holds (services/cache_service.py, api/browse.py).
THEOREM CacheInvariant == CacheSpec => []CacheInv
<1>1. CacheInit => CacheInv
  BY CacheInitInv
<1>2. CacheInv /\ [CacheNext]_cacheVars => CacheInv'
  BY CacheStepInv
<1> QED
  BY <1>1, <1>2, PTL DEF CacheSpec

\* The size that InMemoryBackend counts never exceeds what its entries take; it
\* is that, and within max_size_bytes, unless an eviction made room for a key
\* that was still there.
THEOREM SizesAreTrue == CacheSpec => []SizeIsTrue
<1>1. CacheInv => SizeIsTrue
  BY DEF CacheInv, GoodCache, CountsTrue, SizeIsTrue
<1> QED
  BY <1>1, CacheInvariant, PTL

\* Whatever the backends did in the meantime, nothing older than twice the time
\* to live is answered to a request that browses an archive.
THEOREM AnswersFresh == CacheSpec => []AnswersAreFresh
<1>1. CacheInv => AnswersAreFresh
  BY DEF CacheInv
<1> QED
  BY <1>1, CacheInvariant, PTL
=============================================================================
