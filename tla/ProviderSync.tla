---------------------------- MODULE ProviderSync ----------------------------
(***************************************************************************)
(* Provider sync makes every stored conversation of Codex belong to one    *)
(* provider: it rewrites the session files (rollouts), the rows of Codex's *)
(* databases and the global state file, after a backup, under a lock that  *)
(* is a directory.  The launcher runs it before it starts Codex, the       *)
(* manager when the user asks, and Codex may be writing its files then.    *)
(*                                                                         *)
(* One action is one file operation.  A session file is written in place,  *)
(* so a write that fails may leave it empty; each database is updated in   *)
(* one transaction of its own.                                             *)
(***************************************************************************)
EXTENDS Naturals, FiniteSets

CONSTANTS
  Syncs,       \* processes that run a sync
  Files,       \* session files, each of a thread of its own
  Dbs,         \* databases that may hold rows of the threads
  Providers,
  Homes,       \* the Codex homes to start from
  None,
  KeepCount,   \* BACKUP_KEEP_COUNT
  MaxEvents,   \* bound on what Codex appends to a session file
  MaxRuns,     \* bound on the syncs
  MaxFaults,   \* bound on the file operations that fail
  MaxCrashes

(* meta: the providers named in the file's session_meta lines; events: its  *)
(* user events; a file without session_meta is not a session.              *)
Rollout == [meta : SUBSET Providers, events : 0 .. MaxEvents]
Empty == [meta |-> {}, events |-> 0]

(* own: the row has the working directory of its session file. *)
Row == [provider : Providers, seen : BOOLEAN, own : BOOLEAN]

(* raw: some path in the state file is not in the form of the desktop. *)
GlobalState == [raw : BOOLEAN, broken : BOOLEAN, projectless : SUBSET Files]

Home == [roll : [Files -> Rollout], db : [Dbs -> [Files -> Row \cup {None}]],
         state : GlobalState]

(* The session_meta lines of the files that are rewritten. *)
Manifest == [Files -> SUBSET Providers]

(* Backups are ordered by name, which is the time: n stands for it.  One    *)
(* that was not finished has no metadata that says who manages it.         *)
Backup == [n : 1 .. MaxRuns, managed : BOOLEAN, manifest : Manifest,
           db : [Dbs -> [Files -> Row \cup {None}]], state : GlobalState]

ASSUME HomesAssumption == Homes \subseteq Home /\ Dbs # {}
ASSUME KeepAssumption == KeepCount \in Nat \ {0}
ASSUME NoneAssumption == None \notin Syncs \cup Rollout \cup Row
ASSUME BoundAssumption ==
  /\ MaxEvents \in Nat /\ MaxRuns \in Nat
  /\ MaxFaults \in Nat /\ MaxCrashes \in Nat

VARIABLES
  home,      \* what is on disk in the Codex home
  backups,   \* backups_state/provider-sync
  lock,      \* the process that made the lock directory, or None
  pc, job,   \* the step and the locals of each process
  runs, faults, crashes,
  foreign    \* history: the session files Codex wrote since the lock was taken

vars == <<home, backups, lock, pc, job, runs, faults, crashes, foreign>>

NoJob == [backup |-> 0]

Init ==
  /\ home \in Homes
  /\ backups = {} /\ lock = None
  /\ pc = [s \in Syncs |-> "idle"]
  /\ job = [s \in Syncs |-> NoJob]
  /\ runs = 0 /\ faults = 0 /\ crashes = 0
  /\ foreign = {}

Fault == faults < MaxFaults /\ faults' = faults + 1
NoFault == UNCHANGED faults

Goto(s, step, locals) ==
  /\ pc' = [pc EXCEPT ![s] = step]
  /\ job' = [job EXCEPT ![s] = locals]

(* The closure of the sync returns; the lock directory is removed next. *)
Return(s, locals, status) == Goto(s, "release", [locals EXCEPT !.status = status])

(* An error after the session files were rewritten. *)
RollBack(s) ==
  IF job[s].applied = {} THEN Return(s, [job[s] EXCEPT !.rollback = "done"], "skipped")
  ELSE Goto(s, "restore", [job[s] EXCEPT !.rollback = "done", !.todo = job[s].applied])

-----------------------------------------------------------------------------
(* The lock *)

NewJob(target) ==
  [target |-> target, run |-> runs + 1, before |-> home, backup |-> 0,
   read |-> [f \in Files |-> None], todo |-> Files, dbs |-> Dbs, projectless |-> {},
   applied |-> {}, skipped |-> {}, rollback |-> "none", status |-> "none"]

(* Mutant: the directory is used whether or not it was there. *)
RunUnlocked(s, target) ==
  /\ pc[s] = "idle" /\ runs < MaxRuns
  /\ runs' = runs + 1
  /\ lock' = s /\ foreign' = {}
  /\ Goto(s, "owner", NewJob(target))
  /\ UNCHANGED <<home, backups, faults, crashes>>

(* run_provider_sync_with_target, up to create_dir of acquire_lock; if that  *)
(* fails the sync is reported skipped at once.                             *)
RunProviderSync(s, target) ==
  /\ pc[s] = "idle" /\ runs < MaxRuns
  /\ runs' = runs + 1
  /\ \/ /\ lock = None /\ NoFault
        /\ lock' = s /\ foreign' = {}
        /\ Goto(s, "owner", NewJob(target))
     \/ /\ \/ lock # None /\ NoFault
           \/ Fault
        /\ UNCHANGED <<lock, pc, job, foreign>>
  /\ UNCHANGED <<home, backups, crashes>>

(* The owner's file in the directory; nobody removes the directory if it    *)
(* cannot be written.                                                      *)
WriteOwner(s) ==
  /\ pc[s] = "owner"
  /\ \/ NoFault /\ Goto(s, "collect", job[s])
     \/ Fault /\ Goto(s, "idle", NoJob)
  /\ UNCHANGED <<home, backups, lock, runs, crashes, foreign>>

(* release_lock, whose failure is ignored. *)
ReleaseLock(s) ==
  /\ pc[s] = "release"
  /\ \/ NoFault /\ lock' = None
     \/ Fault /\ UNCHANGED lock
  /\ Goto(s, "idle", NoJob)
  /\ UNCHANGED <<home, backups, runs, crashes, foreign>>

-----------------------------------------------------------------------------
(* Reading *)

(* collect_session_changes, for one file: it may be locked, and a file that *)
(* is no session is passed over.                                           *)
CollectSessionChange(s) ==
  /\ pc[s] = "collect"
  /\ \E f \in job[s].todo :
       LET rest == [job[s] EXCEPT !.todo = @ \ {f}]
       IN  \/ /\ NoFault
              /\ Goto(s, "collect",
                   [rest EXCEPT !.read[f] = IF home.roll[f].meta = {} THEN None ELSE home.roll[f]])
           \/ NoFault /\ Goto(s, "collect", [rest EXCEPT !.skipped = @ \cup {f}])
           \/ Fault /\ Return(s, rest, "skipped")
  /\ UNCHANGED <<home, backups, lock, runs, crashes, foreign>>

Sessions(j) == {f \in Files : j.read[f] # None}

(* The files that name another provider (rewrite_needed). *)
Rewrites(j) == {f \in Sessions(j) : j.read[f].meta # {j.target}}

(* apply_sqlite_update, for one database. *)
UpdatedRow(j, f, row) ==
  [provider |-> j.target,
   seen |-> row.seen \/ (f \in Sessions(j) /\ j.read[f].events > 0),
   own  |-> row.own \/ (f \in Sessions(j) /\ f \notin j.projectless)]

UpdatedTable(j, table) ==
  [f \in Files |-> IF table[f] = None THEN None ELSE UpdatedRow(j, f, table[f])]

Considering(j) == [j EXCEPT !.projectless = home.state.projectless]

UpToDate(j) ==
  /\ Rewrites(j) = {}
  /\ \A d \in Dbs : home.db[d] = UpdatedTable(j, home.db[d])
  /\ ~home.state.raw

(* Mutant: with nothing to do, the function returns before the release. *)
PlanReturningEarly(s) ==
  LET j == Considering(job[s])
  IN /\ pc[s] = "collect" /\ j.todo = {}
     /\ \/ /\ \/ home.state.broken /\ NoFault
              \/ Fault
           /\ Return(s, j, "skipped")
        \/ /\ ~home.state.broken /\ NoFault
           /\ IF UpToDate(j) THEN Goto(s, "idle", NoJob)
              ELSE Goto(s, "backup", [j EXCEPT !.todo = Rewrites(j)])
     /\ UNCHANGED <<home, backups, lock, runs, crashes, foreign>>

(* The global state is loaded and the updates of the databases counted;     *)
(* nothing is written when there is nothing to do.                         *)
PlanUpdates(s) ==
  LET j == Considering(job[s])
  IN /\ pc[s] = "collect" /\ j.todo = {}
     /\ \/ /\ \/ home.state.broken /\ NoFault
              \/ Fault
           /\ Return(s, j, "skipped")
        \/ /\ ~home.state.broken /\ NoFault
           /\ IF UpToDate(j) THEN Return(s, j, "synced")
              ELSE Goto(s, "backup", [j EXCEPT !.todo = Rewrites(j)])
     /\ UNCHANGED <<home, backups, lock, runs, crashes, foreign>>

BackupOf(j, managed) ==
  [n |-> j.run, managed |-> managed, db |-> home.db, state |-> home.state,
   manifest |-> [f \in Files |-> IF f \in Rewrites(j) THEN j.read[f].meta ELSE {}]]

(* create_backup: the metadata that make it a backup are written last. *)
CreateBackup(s) ==
  /\ pc[s] = "backup"
  /\ \/ /\ NoFault
        /\ backups' = backups \cup {BackupOf(job[s], TRUE)}
        /\ Goto(s, IF job[s].todo = {} THEN "sqlite" ELSE "apply",
                [job[s] EXCEPT !.backup = job[s].run])
     \/ /\ Fault
        /\ backups' = backups \cup {BackupOf(job[s], FALSE)}
        /\ Return(s, job[s], "skipped")
  /\ UNCHANGED <<home, lock, runs, crashes, foreign>>

-----------------------------------------------------------------------------
(* Writing *)

Written(f, content) == home' = [home EXCEPT !.roll[f] = content]

(* fs::write empties the file before it writes. *)
NotWritten(f) == home' \in {home, [home EXCEPT !.roll[f] = Empty]}

Rewritten(j, f) == [j.read[f] EXCEPT !.meta = {j.target}]

(* apply_session_changes, for one file: the text read before the backup is  *)
(* written with the target's name.  A locked file is passed over; any other *)
(* error returns at once, and the files already rewritten stay so.         *)
ApplySessionChange(s) ==
  /\ pc[s] = "apply"
  /\ \E f \in job[s].todo :
       LET rest == [job[s] EXCEPT !.todo = @ \ {f}]
           step == IF rest.todo = {} THEN "sqlite" ELSE "apply"
       IN  \/ /\ NoFault /\ Written(f, Rewritten(job[s], f))
              /\ Goto(s, step, [rest EXCEPT !.applied = @ \cup {f}])
           \/ /\ NoFault /\ UNCHANGED home
              /\ Goto(s, step, [rest EXCEPT !.skipped = @ \cup {f}])
           \/ Fault /\ NotWritten(f) /\ Return(s, rest, "skipped")
  /\ UNCHANGED <<backups, lock, runs, crashes, foreign>>

(* Mutant: the databases after the first are left out. *)
ApplyFirstDatabase(s) ==
  /\ pc[s] = "sqlite"
  /\ \E d \in job[s].dbs :
       \/ /\ NoFault
          /\ home' = [home EXCEPT !.db[d] = UpdatedTable(job[s], @)]
          /\ Goto(s, "state", [job[s] EXCEPT !.dbs = @ \ {d}])
       \/ Fault /\ RollBack(s) /\ UNCHANGED home
  /\ UNCHANGED <<backups, lock, runs, crashes, foreign>>

(* apply_sqlite_update, a transaction; one that fails (a busy database)      *)
(* leaves those that were committed before it.                             *)
ApplySqliteUpdate(s) ==
  /\ pc[s] = "sqlite"
  /\ \E d \in job[s].dbs :
       \/ /\ NoFault
          /\ home' = [home EXCEPT !.db[d] = UpdatedTable(job[s], @)]
          /\ Goto(s, IF job[s].dbs = {d} THEN "state" ELSE "sqlite",
                  [job[s] EXCEPT !.dbs = @ \ {d}])
       \/ Fault /\ RollBack(s) /\ UNCHANGED home
  /\ UNCHANGED <<backups, lock, runs, crashes, foreign>>

(* apply_global_state_update: nothing is written when all paths are in      *)
(* form.  The write may fail before it begins, in the middle, or after it,  *)
(* at the copy (.bak).                                                     *)
Normal == [home EXCEPT !.state.raw = FALSE]
Broken == [home EXCEPT !.state.broken = TRUE]

ApplyGlobalStateUpdate(s) ==
  /\ pc[s] = "state"
  /\ \/ NoFault /\ home' = Normal /\ Goto(s, "prune", job[s])
     \/ /\ Fault /\ RollBack(s)
        /\ home' \in IF home.state.raw THEN {home, Normal, Broken} ELSE {home}
  /\ UNCHANGED <<backups, lock, runs, crashes, foreign>>

(* Mutant: the oldest backups are kept. *)
KeepOldest ==
  {b \in backups : ~b.managed \/ Cardinality({c \in backups : c.managed /\ c.n < b.n}) < KeepCount}

Kept ==
  {b \in backups : ~b.managed \/ Cardinality({c \in backups : c.managed /\ c.n > b.n}) < KeepCount}

(* prune_backups: a backup that cannot be removed is left. *)
PruneBackups(s) ==
  /\ pc[s] = "prune"
  /\ \/ NoFault /\ backups' = Kept /\ Return(s, job[s], "synced")
     \/ Fault /\ backups' = backups /\ Return(s, job[s], "synced")
     \/ Fault /\ backups' = backups /\ RollBack(s)
  /\ UNCHANGED <<home, lock, runs, crashes, foreign>>

(* Mutant: what is written back is the new text. *)
RestoreNewText(s) ==
  /\ pc[s] = "restore"
  /\ \E f \in job[s].todo :
       LET rest == [job[s] EXCEPT !.todo = @ \ {f}]
       IN  /\ NoFault /\ Written(f, Rewritten(job[s], f))
           /\ IF rest.todo = {} THEN Return(s, rest, "skipped") ELSE Goto(s, "restore", rest)
  /\ UNCHANGED <<backups, lock, runs, crashes, foreign>>

(* Mutant: the loop does not come to the next file. *)
RestoreFirst(s) ==
  /\ pc[s] = "restore"
  /\ \E f \in job[s].todo :
       \/ NoFault /\ Written(f, job[s].read[f]) /\ UNCHANGED <<pc, job>>
       \/ /\ Fault /\ NotWritten(f)
          /\ Return(s, [job[s] EXCEPT !.rollback = "failed"], "skipped")
  /\ UNCHANGED <<backups, lock, runs, crashes, foreign>>

(* restore_session_changes: the text that was read is written back, as far  *)
(* as the first file that cannot be written; the error is ignored.  It is   *)
(* free of the bound on faults, for one has led here.                      *)
RestoreSessionChange(s) ==
  /\ pc[s] = "restore"
  /\ \E f \in job[s].todo :
       LET rest == [job[s] EXCEPT !.todo = @ \ {f}]
       IN  \/ /\ NoFault /\ Written(f, job[s].read[f])
              /\ IF rest.todo = {} THEN Return(s, rest, "skipped") ELSE Goto(s, "restore", rest)
           \/ /\ NoFault /\ NotWritten(f)
              /\ Return(s, [rest EXCEPT !.rollback = "failed"], "skipped")
  /\ UNCHANGED <<backups, lock, runs, crashes, foreign>>

-----------------------------------------------------------------------------
(* Crashes, and Codex, which asks for no lock. *)

(* The process dies, maybe in the middle of a write; nobody removes the     *)
(* directory, nor continues.                                               *)
Crash(s) ==
  /\ pc[s] # "idle" /\ crashes < MaxCrashes
  /\ crashes' = crashes + 1
  /\ pc' = [pc EXCEPT ![s] = "idle"]
  /\ \/ UNCHANGED home
     \/ pc[s] \in {"apply", "restore"} /\ \E f \in job[s].todo : NotWritten(f)
     \/ pc[s] = "state" /\ home.state.raw /\ home' = Broken
  /\ \/ UNCHANGED backups
     \/ pc[s] = "backup" /\ backups' = backups \cup {BackupOf(job[s], FALSE)}
  /\ UNCHANGED <<lock, job, runs, faults, foreign>>

(* A conversation goes on. *)
CodexAppends(f) ==
  /\ home.roll[f].events < MaxEvents
  /\ home' = [home EXCEPT !.roll[f].events = @ + 1]
  /\ foreign' = foreign \cup {f}
  /\ UNCHANGED <<backups, lock, pc, job, runs, faults, crashes>>

Step(s) ==
  \/ WriteOwner(s) \/ CollectSessionChange(s) \/ PlanUpdates(s) \/ CreateBackup(s)
  \/ ApplySessionChange(s) \/ ApplySqliteUpdate(s) \/ ApplyGlobalStateUpdate(s)
  \/ PruneBackups(s) \/ RestoreSessionChange(s) \/ ReleaseLock(s)

Next ==
  \/ \E s \in Syncs :
       \/ \E target \in Providers : RunProviderSync(s, target)
       \/ Step(s) \/ Crash(s)
  \/ \E f \in Files : CodexAppends(f)

(* A sync runs on a thread of its own and waits for nothing but files. *)
Spec == Init /\ [][Next]_vars /\ \A s \in Syncs : WF_vars(Step(s))

-----------------------------------------------------------------------------
(* Properties *)

Writing == {"apply", "sqlite", "state", "prune", "restore"}
Locked == Writing \cup {"owner", "collect", "backup", "release"}

Job ==
  [target : Providers, run : 1 .. MaxRuns, before : Home, backup : 0 .. MaxRuns,
   read : [Files -> Rollout \cup {None}], todo : SUBSET Files, dbs : SUBSET Dbs,
   projectless : SUBSET Files, applied : SUBSET Files, skipped : SUBSET Files,
   rollback : {"none", "done", "failed"}, status : {"none", "synced", "skipped"}]

(* The shape of the disk and of every process's locals. *)
TypeOK ==
  /\ home \in Home
  /\ backups \subseteq Backup
  /\ lock \in Syncs \cup {None}
  /\ pc \in [Syncs -> Locked \cup {"idle"}]
  /\ job \in [Syncs -> Job \cup {NoJob}]
  /\ runs \in 0 .. MaxRuns /\ faults \in 0 .. MaxFaults /\ crashes \in 0 .. MaxCrashes
  /\ foreign \subseteq Files

(* Syncs exclude each other: only the process whose directory it is works   *)
(* on the home, and the locals of one that died belong to the directory it  *)
(* left.                                                                   *)
OneSyncAtATime ==
  \A s \in Syncs : /\ pc[s] \in Locked => job[s] # NoJob
                   /\ job[s] # NoJob => lock = s

(* Whatever a sync has changed in the home can be found in a finished       *)
(* backup: the providers of each session file it rewrote and the databases, *)
(* also when it failed or died since.                                      *)
ChangesAreBackedUp ==
  \A s \in Syncs : job[s] # NoJob /\ (job[s].applied # {} \/ home.db # job[s].before.db) =>
    \E b \in backups :
      /\ b.managed /\ b.db = job[s].before.db
      /\ \A f \in job[s].applied : b.manifest[f] = job[s].before.roll[f].meta

(* The directory is left behind only by a process that died or that could   *)
(* not write or remove it: no other path skips the release.                *)
LockLeftByFailure ==
  faults = 0 /\ crashes = 0 /\ lock # None => pc[lock] # "idle"

(* Why changes are backed up: nothing is changed before the backup, which   *)
(* has the providers of every file that is rewritten, and it is the newest. *)
Before == {"owner", "collect", "backup"}

HasBackup(j) ==
  \E b \in backups :
    /\ b.managed /\ b.n = j.run /\ b.db = j.before.db
    /\ \A f \in Rewrites(j) : b.manifest[f] = j.before.roll[f].meta

Untouched(j) ==
  /\ j.applied = {} /\ home.db = j.before.db
  /\ \A f \in Files : home.roll[f].meta = j.before.roll[f].meta

BackupOK(s) ==
  LET j == job[s]
  IN  j # NoJob =>
        /\ j.run <= runs /\ \A b \in backups : b.n <= j.run
        /\ pc[s] \in Before => j.backup = 0
        /\ j.backup = 0 => pc[s] \notin Writing
        /\ j.backup = 0 /\ pc[s] # "idle" => Untouched(j)
        /\ j.backup = 0 => j.applied = {} /\ home.db = j.before.db
        /\ j.backup # 0 => HasBackup(j)
        /\ \A f \in Sessions(j) : j.read[f].meta = j.before.roll[f].meta
        /\ j.applied \subseteq Rewrites(j)
        /\ pc[s] \in {"backup", "apply"} => j.todo \subseteq Rewrites(j)

(* Why a failure restores: the files in `at risk' are those Codex wrote, and *)
(* those the sync rewrote and has not yet written back.                    *)
AtRisk(s) ==
  CASE pc[s] \in Before -> foreign
    [] pc[s] \in Writing \ {"restore"} -> foreign \cup job[s].applied
    [] pc[s] = "restore" -> foreign \cup job[s].todo
    [] OTHER -> IF job[s].rollback = "done" THEN foreign ELSE Files

RestoreOK(s) ==
  LET j == job[s]
  IN  pc[s] \in Locked =>
        /\ \A f \in Sessions(j) \ foreign : j.read[f] = j.before.roll[f]
        /\ \A f \in Files \ AtRisk(s) : home.roll[f] = j.before.roll[f]
        /\ pc[s] \notin {"restore", "release"} => j.rollback = "none"
        /\ pc[s] = "restore" => j.todo \subseteq j.applied /\ j.rollback = "done"

IInv ==
  /\ TypeOK /\ OneSyncAtATime
  /\ \A b \in backups : b.n <= runs
  /\ \A s \in Syncs : BackupOK(s) /\ RestoreOK(s)

(* Why a sync that is done has done it, for a process at step p with locals *)
(* j, a home h and the files in `theirs' written by Codex.  A file that was *)
(* not opened as a session was locked or is none; the others name the target *)
(* once they were applied.                                                 *)
PassedOver(j, others) ==
  \A f \in Files \ others : j.read[f] = None => j.before.roll[f].meta = {}

OnCourse(j, h, theirs) ==
  /\ PassedOver(j, j.skipped)
  /\ \A f \in Files :
       h.roll[f].meta = IF f \in j.applied THEN {j.target} ELSE j.before.roll[f].meta
  /\ \A f \in Files \ theirs : h.roll[f].events = j.before.roll[f].events
  /\ h.state.projectless = j.projectless /\ ~h.state.broken

Planned(p, j) ==
  p \in {"backup", "apply", "sqlite", "state", "prune"} \/ (p = "release" /\ j.status = "synced")

(* The files to rewrite are still to come, applied or locked; a database    *)
(* not in j.dbs is as an update leaves it.                                  *)
Aligned(p, j, h, theirs) ==
  /\ p \in {"owner", "collect"} => PassedOver(j, j.todo \cup j.skipped)
  /\ p \in {"owner", "collect", "backup", "apply"} => j.dbs = Dbs
  /\ Planned(p, j) =>
       /\ OnCourse(j, h, theirs)
       /\ \A f \in Rewrites(j) \ (j.applied \cup j.skipped) :
            p \in {"backup", "apply"} /\ f \in j.todo
       /\ \A d \in Dbs : \/ h.db[d] = UpdatedTable(j, h.db[d])
                          \/ (p \in {"backup", "apply", "sqlite"} /\ d \in j.dbs)
       /\ p \in {"prune", "release"} => ~h.state.raw

(* IInv, and that the sync under way is on course. *)
SyncInv == IInv /\ \A s \in Syncs : Aligned(pc[s], job[s], home, foreign)

EndsWith(s, status) ==
  pc[s] = "release" /\ pc'[s] = "idle" /\ crashes' = crashes /\ job[s].status = status

(* When a step after the session files fails, they are put back, those that *)
(* Codex did not write meanwhile.                                          *)
LaterFailureRestores ==
  [][\A s \in Syncs : EndsWith(s, "skipped") /\ job[s].rollback = "done" =>
       \A f \in Files \ foreign : home'.roll[f] = job[s].before.roll[f]]_vars

(* A sync that says it is done has done it: every session file that could   *)
(* be opened, every row of every database and the state file.              *)
SyncedMeansAligned ==
  [][\A s \in Syncs : EndsWith(s, "synced") =>
       LET j == job[s]
           open == {f \in Files \ j.skipped : home'.roll[f].meta # {}}
       IN /\ \A f \in open : home'.roll[f].meta = {j.target}
          /\ \A d \in Dbs, f \in Files :
               LET row == home'.db[d][f]
               IN  row # None =>
                     /\ row.provider = j.target
                     /\ f \in open \ foreign =>
                          /\ home'.roll[f].events > 0 => row.seen
                          /\ row.own \/ f \in home'.state.projectless
          /\ ~home'.state.raw /\ ~home'.state.broken]_vars

(* A sync that was started ends, or its process dies. *)
SyncEnds == \A s \in Syncs : pc[s] # "idle" ~> pc[s] = "idle"

=============================================================================
