--------------------------- MODULE MultiRepoRun ---------------------------
(***************************************************************************)
(* A run of a schedule with several repositories (api/schedule.py): the    *)
(* schedule's pre script, then for one repository after the other its      *)
(* scripts, its backup, prune and compact, then the schedule's post        *)
(* script.  All of it shares one database session, which forgets what it   *)
(* read at every commit and is of no use after a failed one; meanwhile the *)
(* schedule, the repositories and the rows may be edited and deleted.  The *)
(* names that the dispatcher's module has too begin with Run or run here:  *)
(* one module proves theorems about both.                                  *)
(***************************************************************************)
EXTENDS Naturals

CONSTANTS N,                 \* the repositories of the schedule, in their order
          MaxScripts,        \* bounds the scripts of one hook of a repository
          ScriptSets,        \* the scripts a repository may be given
          FlagSets,          \* what a schedule may be told to do
          MaxFailedCommits,  \* bounds the commits that fail
          MaxEdits,          \* bounds the edits of schedule and scripts during the run
          Gone, Stale

Repos == 1..N
Order == 1..MaxScripts   \* execution_order
Results == {"success", "warning", "failure"}
RunOn == Results \cup {"always"}

\* The enabled scripts of a repository, and when those after the backup are to run.  One
\* without assignments has the script in its own row, which always runs, or none.
Scripts == [pre: SUBSET Order, post: SUBSET Order, runOn: [Order -> RunOn]]

Flags == [pre: BOOLEAN, post: BOOLEAN,      \* the schedule has these scripts
          hooks: BOOLEAN,                   \* run_repository_scripts
          prune: BOOLEAN, compact: BOOLEAN] \* run_prune_after, run_compact_after

ASSUME MultiRepoRunAssumption ==
    /\ N \in Nat \ {0} /\ {MaxScripts, MaxFailedCommits, MaxEdits} \subseteq Nat
    /\ ScriptSets \subseteq Scripts /\ FlagSets \subseteq Flags

VARIABLES job,      \* the schedule's row
          repos,    \* the repositories that exist
          scripts,  \* repository -> its scripts
          row,      \* repository -> its backup row in this run
          child,    \* the row of the prune or compact in progress
          maint,    \* repository -> maintenance_status of that row
          run,      \* the run: where it is, and what its session holds
          pres, posts,  \* repository -> how often each of its scripts was run
          postRan,      \* how often the schedule's post script was run
          edits,        \* how often schedule or scripts were edited during the run
          failedCommits
runVars ==
    <<job, repos, scripts, row, child, maint, run, pres, posts, postRan, edits, failedCommits>>

Awaiting == {"queued", "pre", "repoPre", "backup", "borg", "repoPost", "prune",
             "compact", "post"}
Over == {"ended", "aborted", "dead"}

RunTypeOK ==
    /\ job \in Flags \cup {Gone} /\ repos \subseteq Repos
    /\ scripts \in [Repos -> ScriptSets]
    /\ row \in [Repos -> {"none", "open", "gone"} \cup Results]   \* cancelled: a failure
    /\ child \in {"none", "open", "gone"}
    /\ maint \in [Repos -> {"none", "running", "done", "failed"}]
    /\ run \in [pc: {"idle", "turn", "afterBackup", "maintain", "afterPrune", "finish"}
                      \cup Awaiting \cup Over,
                at: 1..(N + 1),
                seen: Flags \cup {Stale},   \* the schedule as the session holds it
                skip: BOOLEAN,              \* skip_hooks of the backup
                todo: SUBSET Order]         \* the scripts it has loaded, to run them
    /\ {pres, posts} \subseteq [Repos -> [Order -> 0..2]] /\ postRan \in 0..1
    /\ edits \in 0..MaxEdits /\ failedCommits \in 0..MaxFailedCommits

RunInit ==
    /\ job \in FlagSets /\ repos = Repos
    /\ scripts \in [Repos -> ScriptSets]
    /\ row = [p \in Repos |-> "none"] /\ child = "none"
    /\ maint = [p \in Repos |-> "none"]
    /\ run = [pc |-> "idle", at |-> 1, seen |-> Stale, skip |-> FALSE, todo |-> {}]
    /\ pres = [p \in Repos |-> [k \in Order |-> 0]] /\ posts = pres
    /\ postRan = 0 /\ edits = 0 /\ failedCommits = 0

(***************************************************************************)
(* The session.  A row that was read stays as it was read until a commit;  *)
(* reading one again that is gone raises.                                  *)
(***************************************************************************)
Held == IF run.seen = Stale THEN job ELSE run.seen
p == run.at

Load(pc, seen, todo) == run' = [run EXCEPT !.pc = pc, !.seen = seen, !.todo = todo]
Goto(pc, seen) == Load(pc, seen, {})

\* What the handler of the loop reads is gone, or its session is unusable: it
\* raises, and the run ends there.
Die == run' = [run EXCEPT !.pc = "dead"]

\* The handler of the loop logs the error and goes on with the next one.
NextTurn(seen) ==
    run' = [run EXCEPT !.pc = IF p = N THEN "finish" ELSE "turn",
                       !.at = @ + 1, !.seen = seen, !.todo = {}]

Raise == IF p \in repos THEN NextTurn(run.seen) ELSE Die

\* The session is rolled back and can be used again only if it was the commit
\* itself that failed, and not what had to be written before it.
CommitFails == failedCommits < MaxFailedCommits /\ failedCommits' = failedCommits + 1

-----------------------------------------------------------------------------
(***************************************************************************)
(* The schedule's pre script.                                              *)
(***************************************************************************)
Others == <<job, repos, scripts, edits>>

\* The dispatcher or POST /schedule/{id}/run creates the task.
RunNow ==
    /\ run.pc = "idle" /\ job # Gone
    /\ Goto("queued", Stale)
    /\ UNCHANGED <<Others, row, child, maint, pres, posts, postRan, failedCommits>>

Start ==
    /\ run.pc = "queued"
    /\ IF job = Gone THEN Goto("ended", Stale)
       ELSE Goto(IF job.pre THEN "pre" ELSE "turn", job)
    /\ UNCHANGED <<Others, row, child, maint, pres, posts, postRan, failedCommits>>

\* A pre script that fails aborts the schedule; one that is not found does not.
PreScript ==
    /\ run.pc = "pre"
    /\ \E pc \in {"turn", "aborted"} : Goto(pc, run.seen)
    /\ UNCHANGED <<Others, row, child, maint, pres, posts, postRan, failedCommits>>

(***************************************************************************)
(* A turn: the row, the repository's pre scripts, the backup.              *)
(***************************************************************************)
\* The schedule is gone: before anything was read the turn is left, and when
\* it is still held the row breaks the foreign key.
TurnWithoutSchedule ==
    /\ run.pc = "turn" /\ job = Gone
    /\ IF run.seen = Stale THEN Raise ELSE Die
    /\ UNCHANGED <<Others, row, child, maint, pres, posts, postRan, failedCommits>>

\* The repository is gone.  Only the first one is still held by the session
\* when its turn begins, and noticed to be gone after its row was made.
TurnWithoutRepository ==
    /\ run.pc = "turn" /\ job # Gone /\ p \notin repos
    /\ row' = IF p > 1 THEN row ELSE [row EXCEPT ![p] = "open"]
    /\ Die
    /\ UNCHANGED <<Others, child, maint, pres, posts, postRan, failedCommits>>

TurnFails ==
    /\ run.pc = "turn" /\ CommitFails /\ (Die \/ Raise)
    /\ UNCHANGED <<Others, row, child, maint, pres, posts, postRan>>

\* execute_hooks and the run find the enabled scripts.
Enabled(kind) == IF p \in repos THEN scripts[p][kind] ELSE {}

Turn ==
    /\ run.pc = "turn" /\ job # Gone /\ p \in repos
    /\ row' = [row EXCEPT ![p] = "open"]
    /\ LET todo == IF job.hooks THEN Enabled("pre") ELSE {}
       IN  run' = [run EXCEPT !.seen = job, !.skip = job.hooks, !.todo = todo,
                              !.pc = IF todo # {} THEN "repoPre" ELSE "backup"]
    /\ UNCHANGED <<Others, child, maint, pres, posts, postRan, failedCommits>>

\* Scripts were run: each executed under its time limit, its failure recorded.
Add(count, which) == [k \in Order |-> IF k \in which THEN count[k] + 1 ELSE count[k]]
Ran(counts, which) == [counts EXCEPT ![p] = Add(@, which)]

\* The run goes through what it has loaded up to the first that fails; a script
\* deleted meanwhile is passed over.
Tried(kind) ==
    {{k \in run.todo : k <= last} \ lost :
        last \in run.todo, lost \in SUBSET (run.todo \ Enabled(kind))}

\* Mutant: a pre script that fails leaves the turn.
RepoPreStrict ==
    /\ run.pc = "repoPre"
    /\ \E which \in Tried("pre") : pres' = Ran(pres, which)
    /\ Goto("backup", run.seen) \/ Raise
    /\ UNCHANGED <<Others, row, child, maint, posts, postRan, failedCommits>>

\* The backup is made whether they fail or not, unless its row is gone.
RepoPre ==
    /\ run.pc = "repoPre"
    /\ \E which \in Tried("pre") : pres' = Ran(pres, which)
    /\ Goto(IF row[p] = "gone" THEN "afterBackup" ELSE "backup", run.seen)
    /\ UNCHANGED <<Others, row, child, maint, posts, postRan, failedCommits>>

\* Mutant: the backup is not told to skip the scripts.
RunsHooksAlways(kind) == Enabled(kind)

\* The backup runs the repository's scripts itself unless it is told not to, and goes
\* on after one that fails.
RunsHooks(kind) == IF run.skip THEN {} ELSE Enabled(kind)

\* The scripts before the backup are run whatever their condition says.  One that fails
\* fails the backup, unless it may go on.
HooksBefore ==
    /\ run.pc = "backup" /\ row[p] \in {"open", "failure"}
    /\ pres' = Ran(pres, RunsHooks("pre"))
    /\ \/ Goto("borg", Stale) /\ UNCHANGED row
       \/ row' = [row EXCEPT ![p] = "failure"] /\ Goto("afterBackup", Stale)
    /\ UNCHANGED <<Others, child, maint, posts, postRan, failedCommits>>

\* Nothing else is looked at before the scripts: the repository cannot be used.
BackupRefused ==
    /\ run.pc = "backup" /\ row[p] \in {"open", "failure"}
    /\ row' = [row EXCEPT ![p] = "failure"] /\ Goto("afterBackup", Stale)
    /\ UNCHANGED <<Others, child, maint, pres, posts, postRan, failedCommits>>

\* _should_run_script: the condition of a script that follows the backup.
ShouldRun(on, how) == on \in {"always", how}

\* Ends the backup's row and runs the scripts after it, one of which may turn a success
\* into a failure; a backup that failed before borg ended runs none.
BackupDone ==
    /\ run.pc = "borg" /\ row[p] \in {"open", "failure"}
    /\ \E how \in Results :
          LET which == {k \in RunsHooks("post") : ShouldRun(scripts[p].runOn[k], how)}
          IN  /\ posts' = Ran(posts, which) \/ (how = "failure" /\ UNCHANGED posts)
              /\ \E end \in {how} \cup (IF which = {} THEN {} ELSE {"failure"}) :
                    row' = [row EXCEPT ![p] = end]
    /\ Goto("afterBackup", Stale)
    /\ UNCHANGED <<Others, child, maint, pres, postRan, failedCommits>>

\* The row was cancelled and deleted: nothing can be saved.
BackupLost ==
    /\ run.pc \in {"backup", "borg"} /\ row[p] = "gone"
    /\ Goto("afterBackup", Stale)
    /\ UNCHANGED <<Others, row, child, maint, pres, posts, postRan, failedCommits>>

\* The schedule is read again: the scripts after the backup are run by what it
\* says now.
AfterBackup ==
    /\ run.pc = "afterBackup"
    /\ IF p \notin repos /\ run.seen = Stale THEN Die
       ELSE IF Held = Gone THEN Raise
       ELSE IF row[p] = "gone" THEN NextTurn(Held)
       ELSE IF Held.hooks /\ Enabled("post") # {}
            THEN Load("repoPost", Held, Enabled("post"))
            ELSE Goto("maintain", Held)
    /\ UNCHANGED <<Others, row, child, maint, pres, posts, postRan, failedCommits>>

\* The run does not ask whether a script wants to run after what has happened.
RepoPost ==
    /\ run.pc = "repoPost"
    /\ \E which \in Tried("post") : posts' = Ran(posts, which)
    /\ IF row[p] = "gone" THEN NextTurn(run.seen) ELSE Goto("maintain", run.seen)
    /\ UNCHANGED <<Others, row, child, maint, pres, postRan, failedCommits>>

(***************************************************************************)
(* Prune and compact, after a backup that succeeded.  Each row is made,    *)
(* then the backup is marked, in two commits without an await in between.  *)
(***************************************************************************)
Good == {"success", "warning"}   \* completed, completed_with_warnings
Settle(how) == maint' = [maint EXCEPT ![p] = how]

GoOn(pc) == IF pc = "prune" THEN Goto("afterPrune", Stale) ELSE NextTurn(Stale)

\* The handler of the prune or compact marks it failed, with the same session.
Fails(pc) ==
    /\ CommitFails
    /\ \/ Die /\ UNCHANGED maint
       \/ Settle("failed") /\ GoOn(pc)

StartChild(pc) ==
    \/ child' = "open" /\ Settle("running") /\ Goto(pc, Stale) /\ UNCHANGED failedCommits
    \/ Fails(pc) /\ UNCHANGED child

\* After the repository's scripts the session still holds the repository: a
\* job for one that is gone breaks the foreign key.
Maintain ==
    /\ run.pc = "maintain"
    /\ IF row[p] \notin Good \/ ~(run.seen.prune \/ run.seen.compact)
       THEN NextTurn(run.seen) /\ UNCHANGED <<child, maint, failedCommits>>
       ELSE IF p \notin repos THEN Die /\ UNCHANGED <<child, maint, failedCommits>>
       ELSE StartChild(IF run.seen.prune THEN "prune" ELSE "compact")
    /\ UNCHANGED <<Others, row, pres, posts, postRan>>

\* The row of the backup or of the prune is gone, or of the schedule whose
\* last_prune is to be set: the commit breaks the session, and with it the run.
PruneEnds ==
    /\ run.pc = "prune"
    /\ \E how \in {"done", "failed"} :
          IF "gone" \in {row[p], child} \/ (how = "done" /\ job = Gone)
          THEN Die /\ UNCHANGED <<child, maint>>
          ELSE Settle(how) /\ GoOn("prune") /\ child' = "none"
    /\ UNCHANGED <<Others, row, pres, posts, postRan, failedCommits>>

AfterPrune ==
    /\ run.pc = "afterPrune"
    /\ IF Held = Gone THEN Raise /\ UNCHANGED <<child, maint, failedCommits>>
       ELSE IF Held.compact THEN StartChild("compact")
       ELSE NextTurn(Held) /\ UNCHANGED <<child, maint, failedCommits>>
    /\ UNCHANGED <<Others, row, pres, posts, postRan>>

\* A compact row that is gone is passed over.
CompactEnds ==
    /\ run.pc = "compact"
    /\ \E how \in {"done", "failed"} :
          /\ child = "gone" => how = "failed"
          /\ IF row[p] = "gone" \/ (how = "done" /\ job = Gone) \/ p \notin repos
             THEN Die /\ UNCHANGED maint
             ELSE Settle(how) /\ GoOn("compact")
    /\ child' = "none"
    /\ UNCHANGED <<Others, row, pres, posts, postRan, failedCommits>>

SettleFails ==
    /\ run.pc \in {"prune", "compact"} /\ Fails(run.pc)
    /\ child' = "none"
    /\ UNCHANGED <<Others, row, pres, posts, postRan>>

(***************************************************************************)
(* The schedule's post script.                                             *)
(***************************************************************************)
Finish ==
    /\ run.pc = "finish"
    /\ IF Held = Gone THEN Die ELSE Goto(IF Held.post THEN "post" ELSE "ended", Held)
    /\ UNCHANGED <<Others, row, child, maint, pres, posts, postRan, failedCommits>>

\* Whether it fails or not.  A script that was deleted meanwhile is not found.
PostScript ==
    /\ run.pc = "post"
    /\ postRan' \in IF edits > 0 THEN 0..1 ELSE {1}
    /\ Goto("ended", run.seen)
    /\ UNCHANGED <<Others, row, child, maint, pres, posts, failedCommits>>

-----------------------------------------------------------------------------
(***************************************************************************)
(* Requests, while the run awaits.                                         *)
(***************************************************************************)
Edit == edits < MaxEdits /\ edits' = edits + 1

Mine == <<row, child, maint, run, pres, posts, postRan, failedCommits>>

UpdateSchedule ==
    /\ run.pc \in Awaiting /\ job # Gone
    /\ job' \in FlagSets \ {job}
    /\ Edit
    /\ UNCHANGED <<repos, scripts, Mine>>

\* A script that schedules use is taken from them.
DeleteScript ==
    /\ run.pc \in Awaiting /\ job # Gone
    /\ \E f \in {"pre", "post"} : job[f] /\ job' = [job EXCEPT ![f] = FALSE]
    /\ Edit
    /\ UNCHANGED <<repos, scripts, Mine>>

\* The assignments of one repository: more of them, fewer, or others, in another order
\* or with conditions of their own.  A step is one request or several.
Assigned(q) == {<<"pre", k>> : k \in scripts[q].pre} \cup {<<"post", k>> : k \in scripts[q].post}

Reassign(q) ==
    /\ run.pc \in Awaiting /\ Edit
    /\ \E s \in ScriptSets \ {scripts[q]} : scripts' = [scripts EXCEPT ![q] = s]
    /\ UNCHANGED <<job, repos, Mine>>

AssignScript == \E q \in repos : Reassign(q) /\ Assigned(q) \subseteq Assigned(q)'

RemoveScript == \E q \in repos : Reassign(q) /\ Assigned(q)' \subseteq Assigned(q)

UpdateAssignment == \E q \in repos : Reassign(q)

\* The condition of a script itself, which every repository of it has.
UpdateScript ==
    /\ run.pc \in Awaiting /\ Edit
    /\ scripts' \in [Repos -> ScriptSets]
    /\ \A q \in Repos : Assigned(q)' = Assigned(q)
    /\ UNCHANGED <<job, repos, Mine>>

\* The backups of the schedule are unlinked from it.
DeleteSchedule ==
    /\ run.pc \in Awaiting /\ job # Gone
    /\ job' = Gone
    /\ UNCHANGED <<repos, scripts, edits, Mine>>

\* Its prune and compact rows go with it.
DeleteRepository ==
    /\ run.pc \in Awaiting
    /\ \E q \in repos :
          /\ repos' = repos \ {q}
          /\ child' = IF child = "open" /\ q = p THEN "gone" ELSE child
    /\ UNCHANGED <<job, scripts, edits, row, maint, run, pres, posts, postRan, failedCommits>>

\* A row that waits for its scripts, or that has ended; the prune's row when it
\* has ended and the run has not looked yet.
DeleteRow ==
    /\ run.pc \in Awaiting
    /\ \/ /\ \E q \in Repos :
                /\ row[q] \in Results \/ (row[q] = "open" /\ run.pc = "repoPre")
                /\ row' = [row EXCEPT ![q] = "gone"]
          /\ UNCHANGED child
       \/ child = "open" /\ child' = "gone" /\ UNCHANGED row
    /\ UNCHANGED <<Others, maint, run, pres, posts, postRan, failedCommits>>

\* The row reads cancelled while borg is still running.
CancelBackup ==
    /\ run.pc \in {"backup", "borg"} /\ row[p] = "open"
    /\ row' = [row EXCEPT ![p] = "failure"]
    /\ UNCHANGED <<Others, child, maint, run, pres, posts, postRan, failedCommits>>

RunNext ==
    \/ RunNow \/ Start \/ PreScript
    \/ TurnWithoutSchedule \/ TurnWithoutRepository \/ TurnFails \/ Turn \/ RepoPre
    \/ HooksBefore \/ BackupRefused \/ BackupDone \/ BackupLost \/ AfterBackup \/ RepoPost
    \/ Maintain \/ PruneEnds \/ AfterPrune \/ CompactEnds \/ SettleFails
    \/ Finish \/ PostScript
    \/ AssignScript \/ RemoveScript \/ UpdateAssignment \/ UpdateScript
    \/ UpdateSchedule \/ DeleteScript \/ DeleteSchedule \/ DeleteRepository
    \/ DeleteRow \/ CancelBackup

RunSpec == RunInit /\ [][RunNext]_runVars

-----------------------------------------------------------------------------
(***************************************************************************)
(* Safety.                                                                 *)
(***************************************************************************)
\* Nothing was deleted under the run and every commit went through.
Undisturbed ==
    job # Gone /\ repos = Repos /\ failedCommits = 0 /\ child # "gone"
    /\ \A q \in Repos : row[q] # "gone"

\* Whatever backups, scripts, prunes and compacts do, a run that nothing was
\* deleted under backs every repository up, marks what it maintained with how
\* that ended, and runs the post script, unless the pre script aborted it.
RunIsComplete ==
    run.pc \in Over /\ run.pc # "aborted" /\ Undisturbed =>
       /\ run.pc = "ended"
       /\ \A q \in Repos : row[q] \in Results /\ maint[q] # "running"
       /\ edits = 0 =>
             /\ postRan = (IF job.post THEN 1 ELSE 0)
             /\ \A q \in Repos :
                   maint[q] \in (IF row[q] \in Good /\ (job.prune \/ job.compact)
                                 THEN {"done", "failed"} ELSE {"none"})

\* What was run of a repository's scripts, what may be of those a failure cuts off, and
\* which of those after the backup ask for its result.
Done(count) == {k \in Order : count[k] > 0}
Firsts(which) ==
    {{k \in which : k <= last} : last \in which} \cup (IF which = {} THEN {{}} ELSE {})
Asking(of, how) == {k \in of.post : of.runOn[k] \in {"always", how}}

\* Each script that a repository has is run at most once for its backup, either by the run
\* or by the backup; an edit in between alone makes the later ones run twice.  The run goes
\* from the first to one that fails and asks for no condition; a backup that went well has
\* run all scripts before it and exactly those after it that ask for its result.
HooksOnce ==
    /\ \A q \in Repos, k \in Order : pres[q][k] <= 1 /\ (posts[q][k] <= 1 \/ edits > 0)
    /\ run.pc = "ended" /\ Undisturbed /\ edits = 0 =>
          \A q \in Repos :
             /\ job.hooks => /\ Done(pres[q]) \in Firsts(scripts[q].pre)
                             /\ Done(posts[q]) \in Firsts(scripts[q].post)
             /\ ~job.hooks /\ row[q] \in Good =>
                   Done(pres[q]) = scripts[q].pre /\ Done(posts[q]) = Asking(scripts[q], row[q])
             /\ ~job.hooks /\ row[q] = "failure" =>
                   \/ Done(posts[q]) = {}
                   \/ \E how \in Results : Done(posts[q]) = Asking(scripts[q], how)
===========================================================================
