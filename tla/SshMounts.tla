------------------------------ MODULE SshMounts ------------------------------
(***************************************************************************)
(* SSHFS mounts of backups and restores: MountService and its use by       *)
(* BackupService and RestoreService. A job mounts the directories of its   *)
(* remote paths below one temporary root, works, and unmounts them. The    *)
(* service keeps the mounts in memory and in a state file; what is really  *)
(* mounted is known to the kernel, which a restart of the server process   *)
(* does not touch. Removing a root that something is still mounted in      *)
(* removes the files of the remote host: wiped keeps the mounts that this  *)
(* happened to.                                                            *)
(*                                                                         *)
(* A step is what a coroutine does up to and including the result of its   *)
(* next external command. Names that Connections has too are prefixed, so  *)
(* that a module can extend both.                                          *)
(***************************************************************************)
EXTENDS Naturals, FiniteSets

CONSTANTS
  Jobs,        \* backups and restores with remote paths
  Paths,       \* remote paths
  Dir,         \* what to mount for a path, as it is written: the path, or the parent of a file
  Place,       \* the directory that this is
  Slashed,     \* those that are written with a slash at the end, as a chosen path may be
  Above,       \* the directories above a directory
  Depth,       \* the number of components of a path
  MaxMountFaults  \* bound: failed, late and busy mounts, and restarts

Dirs == {Dir[p] : p \in Paths}
Places == {Place[d] : d \in Dirs}

\* d lies below e; d and e are the same directory; d would be hidden by a mount on e.
Below(d, e) == Place[e] \in Above[Place[d]]
Same(d, e) == Place[d] = Place[e]
Under(d, e) == Same(d, e) \/ Below(d, e)

\* Apart from the slash each directory is written in one way. A path with the slash is
\* mounted itself, so that what lies below it is deeper.
ASSUME TreeAssumption ==
  /\ IsFiniteSet(Paths)
  /\ Dir \in [Paths -> Dirs] /\ Place \in [Dirs -> Places] /\ Slashed \subseteq Dirs
  /\ Above \in [Places -> SUBSET Places]
  /\ \A x \in Places : x \notin Above[x] /\ \A y \in Above[x] : Above[y] \subseteq Above[x]
  /\ \A d, e \in Dirs : Same(d, e) /\ (d \in Slashed <=> e \in Slashed) => d = e
  /\ Depth \in [Paths -> Nat]
  /\ \A p, q \in Paths :
       Dir[p] \in Slashed /\ Below(Dir[q], Dir[p]) => Depth[p] < Depth[q]
ASSUME MaxMountFaultsAssumption == MaxMountFaults \in Nat

VARIABLES
  up,       \* "down", "importing" or "up"
  job,      \* the coroutine of each job
  root,     \* jobs whose temporary root exists
  key,      \* jobs whose private key is in a temporary file
  live,     \* mounts the kernel has
  late,     \* mounts that were taken to be up while sshfs was connecting
  tracked,  \* MountService.active_mounts
  saved,    \* mount_state.json
  wiped,    \* mounts that were removed as if they were files
  covered,  \* mounts that a later one of the job was put over
  stuck,    \* mounts that were to be undone while another was mounted inside
  mountFaults  \* faults so far

sshVars == <<up, job, root, key, live, late, tracked, saved, wiped, covered, stuck, mountFaults>>

Mounts == Jobs \X Dirs
Of(j, set) == {m \in set : m[1] = j}

\* todo: paths to be mounted; path: the one in hand; dirs: mounted_dirs; info: the mount
\* that stands for each path.
NewJob == [pc |-> "new", todo |-> {}, path |-> {}, dirs |-> {}, info |-> {}]
At(j, pc) == up = "up" /\ job[j].pc = pc
Goto(j, pc) == job' = [job EXCEPT ![j].pc = pc]
JobOver(pc) == [NewJob EXCEPT !.pc = pc]

SshTypeOK ==
  /\ up \in {"down", "importing", "up"}
  /\ job \in [Jobs -> [pc : {"new", "next", "replacing", "mounting", "failing", "working",
                             "unmounting", "done", "lost"},
                       todo : SUBSET Paths, path : SUBSET Paths,
                       dirs : SUBSET Dirs, info : SUBSET (Dirs \X Paths)]]
  /\ root \subseteq Jobs /\ key \subseteq Jobs
  /\ live \subseteq Mounts /\ late \subseteq Mounts
  /\ tracked \subseteq Mounts /\ saved \subseteq Mounts /\ wiped \subseteq Mounts
  /\ covered \subseteq Mounts /\ stuck \subseteq Mounts
  /\ mountFaults \in 0 .. MaxMountFaults

SshInit ==
  /\ up = "up"
  /\ job = [j \in Jobs |-> NewJob]
  /\ root = {} /\ key = {}
  /\ live = {} /\ late = {}
  /\ tracked = {} /\ saved = {}
  /\ wiped = {} /\ covered = {} /\ stuck = {}
  /\ mountFaults = 0

\* A fault, or nothing.
MountFault == mountFaults < MaxMountFaults /\ mountFaults' = mountFaults + 1
NoFault == UNCHANGED mountFaults

\* shutil.rmtree of the roots of js, with all that is mounted in them. It ignores errors: a
\* root in which something is mounted loses its files and stays.
RemoveRoots(js) ==
  /\ root' = root \ {j \in js : Of(j, live') = {}}
  /\ wiped' = wiped \cup {m \in live' : m[1] \in js \cap root}

-----------------------------------------------------------------------------
(* mount_ssh_paths_shared. *)

\* The key is decrypted to a file and the shared root is made.
Prepare(j) ==
  /\ At(j, "new")
  /\ \E todo \in (SUBSET Paths) \ {{}} :
       job' = [job EXCEPT ![j].pc = "next", ![j].todo = todo]
  /\ root' = root \cup {j}
  /\ key' = key \cup {j}
  /\ UNCHANGED <<up, live, late, tracked, saved, wiped, covered, stuck, mountFaults>>

\* Whether a path is a file is asked over SSH, then over SFTP, and else it is taken for a
\* directory, which then cannot be mounted (MountFails).
MountDir(p) == Dir[p]

\* Paths are taken by depth, the shallowest first.
Shallowest(j) ==
  {p \in job[j].todo : \A q \in job[j].todo : Depth[p] <= Depth[q]}

\* As a string d starts with e and a separator: so does a directory below e, and e itself
\* with a slash at its end, but nothing does when it is e that has the slash.
StartsWith(d, e) ==
  /\ e \notin Slashed
  /\ Below(d, e) \/ (Same(d, e) /\ d \in Slashed)

\* The mounts that are found to show a directory.
Reusable(j, d) == {e \in job[j].dirs : e = d \/ StartsWith(d, e)}

\* The mounts that are found to be hidden when a directory is mounted.
Hidden(j, d) == {e \in job[j].dirs : StartsWith(e, d)}

\* They are undone in the order of their mounting: what is inside of one comes after it.
NextHidden(j, d) == {e \in Hidden(j, d) : \A f \in Hidden(j, d) : ~Below(e, f)}

ReuseMount(j) ==
  /\ At(j, "next")
  /\ \E p \in Shallowest(j) : \E e \in Reusable(j, MountDir(p)) :
       job' = [job EXCEPT ![j].todo = @ \ {p}, ![j].info = @ \cup {<<e, p>>}]
  /\ UNCHANGED <<up, root, key, live, late, tracked, saved, wiped, covered, stuck, mountFaults>>

TakePath(j) ==
  /\ At(j, "next")
  /\ \E p \in Shallowest(j) :
       /\ Reusable(j, MountDir(p)) = {}
       /\ job' = [job EXCEPT ![j].path = {p},
                             ![j].pc = IF Hidden(j, MountDir(p)) = {} THEN "mounting" ELSE "replacing"]
  /\ UNCHANGED <<up, root, key, live, late, tracked, saved, wiped, covered, stuck, mountFaults>>

Current(j) == CHOOSE p \in job[j].path : TRUE

\* What is mounted inside a mount.
Inside(m) == {n \in Of(m[1], live) \ covered : Below(n[2], m[2])}

\* fusermount -u: done, nothing mounted yet (which counts as done), or busy, as it always is
\* with a mount inside.
TryUnmount(m) ==
  IF m \in live /\ Inside(m) # {}
  THEN stuck' = stuck \cup {m} /\ UNCHANGED live /\ NoFault
  ELSE /\ UNCHANGED stuck
       /\ \/ live' = live \ {m} /\ NoFault
          \/ m \in live /\ UNCHANGED live /\ MountFault

\* A mount that would be hidden is unmounted, without cleaning up. Busy or not, it is
\* forgotten.
UnmountHidden(j) ==
  /\ At(j, "replacing")
  /\ \E e \in NextHidden(j, MountDir(Current(j))) :
       /\ TryUnmount(<<j, e>>)
       /\ tracked' = tracked \ {<<j, e>>}
       /\ saved' = tracked'
       /\ job' = [job EXCEPT ![j].dirs = @ \ {e},
                             ![j].pc = IF Hidden(j, MountDir(Current(j))) = {e} THEN "mounting" ELSE @]
  /\ UNCHANGED <<up, root, key, late, wiped, covered>>

\* Mutant of Shown: paths of a mount that was replaced keep it.
ShownAsBefore(j, d) == job[j].info \cup {<<d, Current(j)>>}

\* The mounts that stand for the paths, once d is mounted: those it replaced are it.
Shown(j, d) ==
  {<<IF StartsWith(i[1], d) THEN d ELSE i[1], i[2]>> : i \in job[j].info} \cup {<<d, Current(j)>>}

PathDone(j, d) ==
  [job[j] EXCEPT !.pc = "next", !.todo = @ \ job[j].path, !.path = {}, !.dirs = @ \cup {d},
                 !.info = Shown(j, d)]

\* sshfs that is still connecting after six seconds is taken to be in the background.
ComesUp(m) ==
  \/ live' = live \cup {m} /\ UNCHANGED late /\ NoFault
  \/ late' = late \cup {m} /\ UNCHANGED live /\ MountFault

\* The mount is verified by listing the directory (an ordinary one, if sshfs is late), and
\* is tracked, though not saved.
Mount(j) ==
  /\ At(j, "mounting")
  /\ LET d == MountDir(Current(j)) IN
     /\ ComesUp(<<j, d>>)
     /\ tracked' = tracked \cup {<<j, d>>}
     /\ covered' = covered \cup {m \in Of(j, live) : Under(m[2], d)}
     /\ job' = [job EXCEPT ![j] = PathDone(j, d)]
  /\ UNCHANGED <<up, root, key, saved, wiped, stuck>>

\* sshfs fails, or what it mounted cannot be listed for five seconds; that one is not among
\* the mounts to undo.
MountFails(j) ==
  /\ At(j, "mounting")
  /\ live' \in {live, live \cup {<<j, MountDir(Current(j))>>}}
  /\ MountFault
  /\ Goto(j, "failing")
  /\ UNCHANGED <<up, root, key, late, tracked, saved, wiped, covered, stuck>>

\* The mounts made so far are unmounted lazily, one after the other.
UndoMount(j) ==
  /\ At(j, "failing")
  /\ \E m \in Of(j, tracked) :
       /\ tracked' = tracked \ {m}
       /\ live' = live \ {m}
  /\ UNCHANGED <<up, job, root, key, late, saved, wiped, covered, stuck, mountFaults>>

\* Mutant of GiveUp: the private key stays.
GiveUpKeepsKey(j) ==
  /\ At(j, "failing")
  /\ Of(j, tracked) = {}
  /\ UNCHANGED <<live, late>>
  /\ RemoveRoots({j})
  /\ job' = [job EXCEPT ![j] = JobOver("done")]
  /\ UNCHANGED <<up, key, tracked, saved, covered, stuck, mountFaults>>

GiveUp(j) ==
  /\ At(j, "failing")
  /\ Of(j, tracked) = {}
  /\ UNCHANGED <<live, late>>
  /\ RemoveRoots({j})
  /\ key' = key \ {j}
  /\ job' = [job EXCEPT ![j] = JobOver("done")]
  /\ UNCHANGED <<up, tracked, saved, covered, stuck, mountFaults>>

\* The mounts are saved, and the job starts to work.
Mounted(j) ==
  /\ At(j, "next")
  /\ job[j].todo = {}
  /\ saved' = tracked
  /\ Goto(j, "working")
  /\ UNCHANGED <<up, root, key, live, late, tracked, wiped, covered, stuck, mountFaults>>

\* sshfs connects after all, if the directory is still there.
LateMount(m) ==
  /\ m \in late /\ m[1] \in root
  /\ late' = late \ {m}
  /\ live' = live \cup {m}
  /\ UNCHANGED <<up, job, root, key, tracked, saved, wiped, covered, stuck, mountFaults>>

-----------------------------------------------------------------------------
(* The end of the job: _cleanup_ssh_mounts and MountService.unmount. *)

Finish(j) ==
  /\ At(j, "working")
  /\ Goto(j, "unmounting")
  /\ UNCHANGED <<up, root, key, live, late, tracked, saved, wiped, covered, stuck, mountFaults>>

\* The deepest of the mounts that stand for the paths of the job.
Deepest(j) ==
  LET mine == {i[1] : i \in job[j].info} \cap {m[2] : m \in Of(j, tracked)}
  IN  {d \in mine : \A e \in mine : ~Below(e, d)}

\* Mutant of KeepsRoot: the first mount to go takes the root with it.
NothingKeepsRoot(m) == FALSE

\* Another mount uses the root.
KeepsRoot(m) == Of(m[1], tracked) # {m}

\* The mount is forgotten whether it is gone or busy, and the last one takes the root and
\* the key with it.
Unmount(j) ==
  /\ At(j, "unmounting")
  /\ \E d \in Deepest(j) :
       /\ TryUnmount(<<j, d>>)
       /\ IF KeepsRoot(<<j, d>>) THEN UNCHANGED <<root, key, wiped>>
          ELSE RemoveRoots({j}) /\ key' = key \ {j}
       /\ tracked' = tracked \ {<<j, d>>}
       /\ saved' = tracked'
  /\ UNCHANGED <<up, job, late, covered>>

Unmounted(j) ==
  /\ At(j, "unmounting")
  /\ Deepest(j) = {}
  /\ job' = [job EXCEPT ![j] = JobOver("done")]
  /\ UNCHANGED <<up, root, key, live, late, tracked, saved, wiped, covered, stuck, mountFaults>>

-----------------------------------------------------------------------------
(* Restarts. *)

\* The server process stops. With the container, all mounts are gone as well.
Crash ==
  /\ up # "down"
  /\ MountFault
  /\ up' = "down"
  /\ job' = [j \in Jobs |-> IF job[j].pc = "new" THEN job[j] ELSE JobOver("lost")]
  /\ tracked' = {}
  /\ UNCHANGED <<live, late>> \/ (live' = {} /\ late' = {})
  /\ UNCHANGED <<root, key, saved, wiped, covered, stuck>>

\* MountService.__init__: the saved mounts that the system does not list are stale, and it
\* lists them without a slash at the end. If it cannot list any, none is.
StillMounted == {saved, {m \in saved \cap live : m[2] \notin Slashed}}
StaleRoots == {m[1] : m \in saved \ tracked'}

\* Roots without a tracked mount are left from a process that crashed.
OrphanedRoots == root \ {m[1] : m \in tracked'}

Import ==
  /\ up = "down"
  /\ up' = "importing"
  /\ UNCHANGED <<live, late>>
  /\ tracked' \in StillMounted
  /\ saved' = tracked'
  /\ RemoveRoots(StaleRoots \cup OrphanedRoots)
  /\ key' = key \ StaleRoots
  /\ UNCHANGED <<job, covered, stuck, mountFaults>>

\* cleanup_orphaned_mounts unmounts all that is left, if it can. Nothing is forgotten.
Startup ==
  /\ up = "importing"
  /\ up' = "up"
  /\ live' \in {live, {}}
  /\ UNCHANGED <<job, root, key, late, tracked, saved, wiped, covered, stuck, mountFaults>>

JobStep(j) ==
  \/ ReuseMount(j) \/ TakePath(j) \/ UnmountHidden(j) \/ Mount(j) \/ MountFails(j)
  \/ UndoMount(j) \/ GiveUp(j) \/ Mounted(j) \/ Unmount(j) \/ Unmounted(j)

SshNext ==
  \/ \E j \in Jobs : Prepare(j) \/ JobStep(j) \/ Finish(j)
  \/ \E m \in Mounts : LateMount(m)
  \/ Crash \/ Import \/ Startup

SshSpec == SshInit /\ [][SshNext]_sshVars
-----------------------------------------------------------------------------
(* Properties. *)

\* The paths a job works on are all there (mount_ssh_paths_shared): each is shown by a mount
\* that is tracked and that no other path of the job undid or was mounted over, unless sshfs
\* was late. None is mounted inside another, but in one that was written with a slash at the
\* end, which the comparison of strings does not find.
SourcesAreMounted ==
  \A j \in Jobs : At(j, "working") =>
    /\ \A i \in job[j].info :
         /\ Under(Dir[i[2]], i[1])
         /\ <<j, i[1]>> \in (tracked \cap (live \cup late)) \ covered
    /\ \A m, n \in Of(j, tracked) : m # n =>
         ~Same(m[2], n[2]) /\ (Below(m[2], n[2]) => n[2] \in Slashed)

\* Without a fault nothing is removed that is mounted, however the mounts of a job share
\* their root (MountService.unmount), but for what could not be undone because of a mount
\* inside, by a job that this happened to with a directory written with a slash at the end.
OnlyFaultsWipe ==
  mountFaults = 0 =>
    \A m \in wiped : m \in stuck /\ \E n \in stuck : n[1] = m[1] /\ n[2] \in Slashed

\* A job that came to its end left no private key and no tracked mount, even when mounting or
\* unmounting failed, and no root but one in which something is still mounted. Without a
\* fault that is only what could not be undone because of a mount inside.
EndedJobLeavesNothing ==
  \A j \in Jobs : job[j].pc = "done" =>
    /\ j \notin key
    /\ Of(j, tracked) = {}
    /\ j \in root => Of(j, live) # {}
    /\ mountFaults = 0 => Of(j, live) \subseteq stuck
=============================================================================
