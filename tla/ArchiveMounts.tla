---------------------------- MODULE ArchiveMounts ----------------------------
(***************************************************************************)
(* Archives mounted for browsing: MountService.mount_borg_archive and      *)
(* unmount, api/mounts.py, and the two clean-ups at startup. A mount has a *)
(* directory, a borg process that serves it, an entry in the kernel's list *)
(* and one in the service's. The directory is derived from the name of the *)
(* archive, made unique if it exists, or is named by the user, and is then *)
(* taken whatever is there.                                                *)
(*                                                                         *)
(* A step ends where the coroutine awaits: a request to mount waits and    *)
(* looks at the list of mounts every five seconds, one to unmount waits    *)
(* for the process to end and then for borg umount.                        *)
(***************************************************************************)
EXTENDS Naturals, Sequences, SequencesExt

CONSTANTS
  Mounts,      \* requests to mount, and the ids of what they mount
  Unmounts,    \* requests to unmount one mount, at most
  Plain,       \* the directory of an archive
  Suffixed,    \* unique directories: the name of Plain with a suffix
  MaxFaults    \* bound: processes that die, commands that fail, restarts

Points == {Plain} \cup Suffixed
NoPoint == "no point"

ASSUME PointsAssumption == Plain \notin Suffixed /\ NoPoint \notin Points
ASSUME MaxFaultsAssumption == MaxFaults \in Nat

VARIABLES
  up,        \* "down", "importing" or "up"
  dirs,      \* directories that exist
  stack,     \* the mounts on each directory, the visible one last
  proc,      \* the process of each mount
  request,   \* the request to mount, and what became of it
  point,     \* the directory it was given
  named,     \* directories that a user named
  unmount,   \* the requests to unmount
  key,       \* mounts with a private key in a temporary file
  tracked,   \* MountService.active_mounts
  saved,     \* mount_state.json
  faults     \* faults so far

vars == <<up, dirs, stack, proc, request, point, named, unmount, key, tracked, saved, faults>>

Alive(i)   == proc[i] \in {"starting", "serving"}
Mounted(p) == stack[p] # <<>>
Dead(p)    == Mounted(p) /\ ~Alive(Last(stack[p]))
Fault      == faults < MaxFaults /\ faults' = faults + 1

TypeOK ==
  /\ up \in {"down", "importing", "up"}
  /\ dirs \subseteq Points /\ named \subseteq Points
  /\ stack \in [Points -> Seq(Mounts)]
  /\ proc \in [Mounts -> {"none", "starting", "serving", "ended"}]
  /\ request \in [Mounts -> {"new", "waiting", "mounted", "failed", "leaked", "unmounted", "lost"}]
  /\ point \in [Mounts -> Points \cup {NoPoint}]
  /\ unmount \in [Mounts \X Unmounts -> {"none", "umount", "done", "error"}]
  /\ key \subseteq Mounts /\ tracked \subseteq Mounts /\ saved \subseteq Mounts
  /\ \A p \in Points : Mounted(p) => p \in dirs
  /\ faults \in 0 .. MaxFaults

Init ==
  /\ up = "up"
  /\ dirs = {} /\ named = {}
  /\ stack = [p \in Points |-> <<>>]
  /\ proc = [i \in Mounts |-> "none"]
  /\ request = [i \in Mounts |-> "new"]
  /\ point = [i \in Mounts |-> NoPoint]
  /\ unmount = [r \in Mounts \X Unmounts |-> "none"]
  /\ key = {} /\ tracked = {} /\ saved = {}
  /\ faults = 0

\* The process takes off what it has mounted, and ends.
EndProcess(i) ==
  /\ stack' = [stack EXCEPT ![point[i]] = RemoveFirst(@, i)]
  /\ proc' = [proc EXCEPT ![i] = "ended"]

\* All end, with the container.
EndProcesses ==
  /\ stack' = [p \in Points |-> <<>>]
  /\ proc' = [i \in Mounts |-> IF Alive(i) THEN "ended" ELSE proc[i]]

-----------------------------------------------------------------------------
(* mount_borg_archive. *)

\* Mutant of FreePoint: the name is taken as it is.
PlainPoint == {Plain}

FreePoint == IF Plain \in dirs THEN Suffixed \ dirs ELSE {Plain}

\* The key is written to a file and borg mount is started in the directory.
StartMount(i, p) ==
  /\ request[i] = "new"
  /\ request' = [request EXCEPT ![i] = "waiting"]
  /\ point' = [point EXCEPT ![i] = p]
  /\ dirs' = dirs \cup {p}
  /\ key' = key \cup {i}

MountArchive(i) ==
  /\ up = "up"
  /\ \E p \in FreePoint : ~Dead(p) /\ StartMount(i, p)
  /\ proc' = [proc EXCEPT ![i] = "starting"]
  /\ UNCHANGED <<up, stack, named, unmount, tracked, saved, faults>>

\* A directory with content is taken for a stale mount, and unmounted, if possible.
MountNamed(i) ==
  /\ up = "up"
  /\ ~Dead(Plain)
  /\ StartMount(i, Plain)
  /\ named' = named \cup {Plain}
  /\ \/ /\ Mounted(Plain)
        /\ LET old == Last(stack[Plain]) IN
             /\ stack' = [stack EXCEPT ![Plain] = Front(@)]
             /\ proc' = [proc EXCEPT ![old] = "ended", ![i] = "starting"]
        /\ UNCHANGED faults
     \/ /\ Mounted(Plain) => Fault
        /\ ~Mounted(Plain) => UNCHANGED faults
        /\ proc' = [proc EXCEPT ![i] = "starting"]
        /\ UNCHANGED stack
  /\ UNCHANGED <<up, unmount, tracked, saved>>

\* borg mounts the archive, if the directory is still there.
Serve(i) ==
  /\ proc[i] = "starting"
  /\ IF point[i] \in dirs
     THEN /\ proc' = [proc EXCEPT ![i] = "serving"]
          /\ stack' = [stack EXCEPT ![point[i]] = Append(@, i)]
     ELSE /\ proc' = [proc EXCEPT ![i] = "ended"]
          /\ UNCHANGED stack
  /\ UNCHANGED <<up, dirs, request, point, named, unmount, key, tracked, saved, faults>>

ProcessEnds(i) ==
  /\ Alive(i)
  /\ EndProcess(i)
  /\ Fault
  /\ UNCHANGED <<up, dirs, request, point, named, unmount, key, tracked, saved>>

\* The directory is looked for in the text of the list, where it is also a part of the
\* longer ones.
Verified(i) == \E p \in Points : Mounted(p) /\ (p = point[i] \/ point[i] = Plain)

VerifyMount(i) ==
  /\ up = "up" /\ request[i] = "waiting"
  /\ Alive(i) /\ Verified(i)
  /\ request' = [request EXCEPT ![i] = "mounted"]
  /\ tracked' = tracked \cup {i}
  /\ saved' = tracked'
  /\ UNCHANGED <<up, dirs, stack, proc, point, named, unmount, key, faults>>

\* The key is removed, and the directory if there is nothing in it.
MountFails(i, outcome) ==
  /\ up = "up" /\ request[i] = "waiting"
  /\ request' = [request EXCEPT ![i] = outcome]
  /\ key' = key \ {i}
  /\ dirs' = IF Mounted(point[i]) THEN dirs ELSE dirs \ {point[i]}
  /\ UNCHANGED <<up, point, named, unmount, tracked, saved>>

ProcessExited(i) ==
  /\ ~Alive(i)
  /\ MountFails(i, "failed")
  /\ UNCHANGED <<stack, proc, faults>>

\* Mutant of MountTimeout: the process is left to itself.
MountTimeoutLeaves(i) ==
  /\ Alive(i) /\ ~Verified(i)
  /\ MountFails(i, "failed")
  /\ UNCHANGED <<stack, proc, faults>>

MountTimeout(i) ==
  /\ Alive(i) /\ ~Verified(i)
  /\ MountFails(i, "failed")
  /\ EndProcess(i)
  /\ UNCHANGED faults

\* The list of mounts is not to be had: the request fails as well, but nobody ends the
\* process, which may still mount, and no unmount request will ever find it.
ListFails(i) ==
  /\ Alive(i)
  /\ MountFails(i, "leaked")
  /\ Fault
  /\ UNCHANGED <<stack, proc>>

-----------------------------------------------------------------------------
(* unmount. *)

\* The process is terminated and unmounts, or it has to be killed and its mount stays. One
\* that has ended is not found.
StartUnmount(i, u) ==
  /\ up = "up"
  /\ i \in tracked
  /\ unmount[<<i, u>>] = "none"
  /\ unmount' = [unmount EXCEPT ![<<i, u>>] = "umount"]
  /\ \/ /\ ~Alive(i)
        /\ UNCHANGED <<stack, proc, faults>>
     \/ /\ Alive(i)
        /\ EndProcess(i)
        /\ UNCHANGED faults
     \/ /\ proc[i] = "serving"
        /\ proc' = [proc EXCEPT ![i] = "ended"]
        /\ UNCHANGED stack
        /\ Fault
  /\ UNCHANGED <<up, dirs, request, point, named, key, tracked, saved>>

\* borg umount, then fusermount, by directory: whatever is visible there, or nothing.
UnmountPoint(p) ==
  \/ /\ ~Mounted(p)
     /\ UNCHANGED <<stack, proc, faults>>
  \/ /\ Mounted(p)
     /\ LET top == Last(stack[p]) IN
          /\ stack' = [stack EXCEPT ![p] = Front(@)]
          /\ proc' = [proc EXCEPT ![top] = "ended"]
     /\ UNCHANGED faults
  \/ /\ Mounted(p)
     /\ Fault
     /\ UNCHANGED <<stack, proc>>

\* The key and the empty directory are removed and the mount is forgotten, also if it is
\* still there. A second request finds it forgotten, which is an error.
FinishUnmount(i, u) ==
  /\ up = "up"
  /\ unmount[<<i, u>>] = "umount"
  /\ UnmountPoint(point[i])
  /\ key' = key \ {i}
  /\ dirs' = IF stack'[point[i]] = <<>> THEN dirs \ {point[i]} ELSE dirs
  /\ IF i \in tracked
     THEN /\ tracked' = tracked \ {i}
          /\ saved' = tracked'
          /\ unmount' = [unmount EXCEPT ![<<i, u>>] = "done"]
          /\ request' = [request EXCEPT ![i] = "unmounted"]
     ELSE /\ unmount' = [unmount EXCEPT ![<<i, u>>] = "error"]
          /\ UNCHANGED <<tracked, saved, request>>
  /\ UNCHANGED <<up, point, named>>

-----------------------------------------------------------------------------
(* Restarts. *)

\* The server process stops; with the container, the mounts and their processes as well.
Crash ==
  /\ up # "down"
  /\ Fault
  /\ up' = "down"
  /\ tracked' = {}
  /\ request' = [i \in Mounts |-> IF request[i] \in {"waiting", "mounted"} THEN "lost"
                                  ELSE request[i]]
  /\ unmount' = [r \in Mounts \X Unmounts |-> IF unmount[r] = "umount" THEN "none" ELSE unmount[r]]
  /\ EndProcesses \/ UNCHANGED <<stack, proc>>
  /\ UNCHANGED <<dirs, point, named, key, saved>>

\* MountService.__init__: saved mounts whose directory is not listed are stale.
Stale == {i \in saved : ~Mounted(point[i])}

\* Empty directories that nothing is mounted on and no mount is tracked for.
OrphanedDirs == {p \in dirs : ~Mounted(p) /\ \A i \in tracked' : point[i] # p}

Import ==
  /\ up = "down"
  /\ up' = "importing"
  /\ tracked' = saved \ Stale
  /\ saved' = tracked'
  /\ key' = key \ Stale
  /\ dirs' = dirs \ OrphanedDirs
  /\ UNCHANGED <<stack, proc, request, point, named, unmount, faults>>

\* cleanup_orphaned_mounts: everything below the managed directory is unmounted, what was
\* tracked a moment ago as well.
Startup ==
  /\ up = "importing"
  /\ up' = "up"
  /\ stack' = [p \in Points |-> <<>>]
  /\ proc' = [i \in Mounts |-> IF proc[i] = "serving" THEN "ended" ELSE proc[i]]
  /\ UNCHANGED <<dirs, request, point, named, unmount, key, tracked, saved, faults>>

Next ==
  \/ \E i \in Mounts :
       \/ MountArchive(i) \/ MountNamed(i) \/ Serve(i) \/ ProcessEnds(i)
       \/ VerifyMount(i) \/ ProcessExited(i) \/ MountTimeout(i) \/ ListFails(i)
       \/ \E u \in Unmounts : StartUnmount(i, u) \/ FinishUnmount(i, u)
  \/ Crash \/ Import \/ Startup

Spec == Init /\ [][Next]_vars
-----------------------------------------------------------------------------
(* Properties. *)

Serving(i) == proc[i] = "serving"

\* As long as users leave the directory to the service, what is mounted for one of them is
\* taken away only by unmounting that mount, by the end of its process or by a restart, as
\* long as no request to unmount finds its mount gone: that one works on a directory that
\* may be another's by then.
MountsAreApart ==
  [][\A i \in tracked : Serving(i) /\ ~Serving(i)' =>
       \/ point[i] \in named'
       \/ faults' > faults
       \/ up = "importing"
       \/ \E u \in Unmounts : unmount[<<i, u>>] # unmount'[<<i, u>>]
       \/ \E r \in DOMAIN unmount : unmount'[r] = "error"]_vars

\* A mount that failed or was unmounted leaves neither a process, nor a private key, nor
\* an entry, in memory or in the file, however often and in whatever order it was requested.
\* The one process that stays is that of a request which could not list the mounts: the
\* handler ("Cleanup on failure", mount_service.py:1110) removes the key, and forgets borg.
EndedMountLeavesNothing ==
  \A i \in Mounts : request[i] \in {"failed", "leaked", "unmounted"} =>
    /\ i \notin key \cup tracked \cup saved
    /\ Alive(i) => request[i] = "leaked"
=============================================================================
