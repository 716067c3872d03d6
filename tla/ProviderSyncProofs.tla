------------------------- MODULE ProviderSyncProofs -------------------------
(***************************************************************************)
(* Proofs about ProviderSync, for any number of syncs, session files and    *)
(* databases, and any bounds.                                               *)
(***************************************************************************)
EXTENDS ProviderSync, FiniteSetTheorems, TLAPS

Shared == <<lock, runs, crashes, foreign>>

-----------------------------------------------------------------------------
(* The locals *)

LEMMA JobIsNotNoJob == \A j \in Job : j # NoJob
<1> SUFFICES ASSUME NEW j \in Job, j = NoJob PROVE FALSE
  OBVIOUS
<1>1. DOMAIN j = DOMAIN [backup |-> 0]
  BY DEF NoJob
<1>2. "target" \in DOMAIN j
  BY DEF Job
<1>3. DOMAIN [backup |-> 0] = {"backup"}
  OBVIOUS
<1> QED BY <1>1, <1>2, <1>3

(* What a job leads to depends on what it read and on its target. *)
LEMMA SameSessions ==
  ASSUME NEW j, NEW l, l.read = j.read, l.target = j.target
  PROVE  Sessions(l) = Sessions(j) /\ Rewrites(l) = Rewrites(j)
BY DEF Sessions, Rewrites

LEMMA FaultBound ==
  ASSUME IInv, Fault \/ NoFault
  PROVE  faults' \in 0 .. MaxFaults
BY BoundAssumption DEF IInv, TypeOK, Fault, NoFault

LEMMA ActorType ==
  ASSUME IInv, NEW s \in Syncs, pc[s] # "idle"
  PROVE  /\ job[s] \in Job /\ lock = s
         /\ \A t \in Syncs \ {s} : job[t] = NoJob /\ pc[t] = "idle"
<1>1. pc[s] \in Locked
  BY DEF IInv, TypeOK
<1>2. job[s] # NoJob /\ lock = s
  BY <1>1 DEF IInv, OneSyncAtATime
<1>3. job[s] \in Job
  BY <1>2 DEF IInv, TypeOK
<1>4. ASSUME NEW t \in Syncs \ {s} PROVE job[t] = NoJob /\ pc[t] = "idle"
  <2>1. job[t] = NoJob
    BY <1>2 DEF IInv, OneSyncAtATime
  <2>2. pc[t] \notin Locked
    BY <2>1 DEF IInv, OneSyncAtATime
  <2> QED BY <2>1, <2>2 DEF IInv, TypeOK
<1> QED BY <1>2, <1>3, <1>4

(* A step of the process that has the lock keeps the invariant if it keeps  *)
(* that process's part of it: the others are idle.                         *)
LEMMA ActorStep ==
  ASSUME IInv, NEW s \in Syncs, pc[s] # "idle",
         NEW p \in Locked, NEW l \in Job, Goto(s, p, l),
         home' \in Home, backups' \subseteq Backup,
         \A b \in backups' : b.n <= runs,
         faults' \in 0 .. MaxFaults, UNCHANGED Shared,
         BackupOK(s)', RestoreOK(s)'
  PROVE  IInv'
<1>1. /\ lock = s
      /\ \A t \in Syncs \ {s} : job[t] = NoJob /\ pc[t] = "idle"
  BY ActorType
<1>2. /\ pc \in [Syncs -> Locked \cup {"idle"}] /\ job \in [Syncs -> Job \cup {NoJob}]
      /\ pc' = [pc EXCEPT ![s] = p] /\ job' = [job EXCEPT ![s] = l]
  BY DEF IInv, TypeOK, Goto
<1>3. /\ pc'[s] = p /\ job'[s] = l
      /\ \A t \in Syncs \ {s} : job'[t] = NoJob /\ pc'[t] = "idle"
  BY <1>1, <1>2
<1>4. pc' \in [Syncs -> Locked \cup {"idle"}] /\ job' \in [Syncs -> Job \cup {NoJob}]
  BY <1>2
<1>5. TypeOK'
  BY <1>4 DEF IInv, TypeOK, Shared
<1>6. "idle" \notin Locked
  BY DEF Locked, Writing
<1>7. OneSyncAtATime'
  BY <1>1, <1>3, <1>6, JobIsNotNoJob DEF OneSyncAtATime, Shared
<1>8. \A b \in backups' : b.n <= runs'
  BY DEF Shared
<1>9. ASSUME NEW t \in Syncs PROVE BackupOK(t)' /\ RestoreOK(t)'
  <2>1. CASE t = s
    BY <2>1
  <2>2. CASE t # s
    BY <2>2, <1>3, <1>6 DEF BackupOK, RestoreOK
  <2> QED BY <2>1, <2>2
<1> QED BY <1>5, <1>7, <1>8, <1>9 DEF IInv

LEMMA JobFields ==
  ASSUME NEW j \in Job
  PROVE  /\ j.target \in Providers /\ j.run \in 1 .. MaxRuns /\ j.before \in Home
         /\ j.backup \in 0 .. MaxRuns /\ j.read \in [Files -> Rollout \cup {None}]
         /\ j.todo \in SUBSET Files /\ j.dbs \in SUBSET Dbs
         /\ j.projectless \in SUBSET Files /\ j.applied \in SUBSET Files
         /\ j.skipped \in SUBSET Files /\ j.rollback \in {"none", "done", "failed"}
         /\ j.status \in {"none", "synced", "skipped"}
BY DEF Job

(* The locals a step leaves alone. *)
SameReading(j, l) ==
  /\ l.target = j.target /\ l.run = j.run /\ l.before = j.before /\ l.read = j.read

LEMMA WithTodo ==
  ASSUME NEW j \in Job, NEW t \in SUBSET Files
  PROVE  LET l == [j EXCEPT !.todo = t]
         IN  /\ l \in Job /\ SameReading(j, l) /\ l.todo = t
             /\ l.backup = j.backup /\ l.applied = j.applied /\ l.rollback = j.rollback
BY DEF Job, SameReading

LEMMA WithStatus ==
  ASSUME NEW j \in Job, NEW t \in {"synced", "skipped"}
  PROVE  LET l == [j EXCEPT !.status = t]
         IN  /\ l \in Job /\ SameReading(j, l) /\ l.todo = j.todo /\ l.status = t
             /\ l.backup = j.backup /\ l.applied = j.applied /\ l.rollback = j.rollback
BY DEF Job, SameReading

LEMMA WithRead ==
  ASSUME NEW j \in Job, NEW f \in Files, NEW r \in Rollout \cup {None}
  PROVE  LET l == [j EXCEPT !.read[f] = r]
         IN  /\ l \in Job /\ l.read = [j.read EXCEPT ![f] = r] /\ l.target = j.target
             /\ l.run = j.run /\ l.before = j.before /\ l.todo = j.todo
             /\ l.backup = j.backup /\ l.applied = j.applied /\ l.rollback = j.rollback
BY DEF Job

-----------------------------------------------------------------------------
(* The backup's part of the invariant *)

(* A step that makes no backup, and changes the home only when there is one. *)
LEMMA BackupKept ==
  ASSUME IInv, NEW s \in Syncs, pc[s] # "idle",
         NEW p \in Locked, NEW l \in Job, Goto(s, p, l), SameReading(job[s], l),
         l.backup = job[s].backup, UNCHANGED <<backups, runs>>,
         l.backup = 0 => home' = home /\ l.applied = job[s].applied /\ p \notin Writing,
         l.applied \subseteq Rewrites(l),
         p \in Before => l.backup = 0,
         p \in {"backup", "apply"} => l.todo \subseteq Rewrites(l)
  PROVE  BackupOK(s)'
<1> DEFINE j == job[s]
<1>1. j \in Job /\ j # NoJob
  BY ActorType, JobIsNotNoJob
<1>2. pc'[s] = p /\ job'[s] = l
  BY DEF Goto, IInv, TypeOK
<1>3. /\ j.run <= runs /\ \A b \in backups : b.n <= j.run
      /\ j.backup = 0 => Untouched(j)
      /\ j.backup # 0 => HasBackup(j)
      /\ \A f \in Sessions(j) : j.read[f].meta = j.before.roll[f].meta
  BY <1>1 DEF IInv, BackupOK
<1>4. /\ Sessions(l) = Sessions(j) /\ Rewrites(l) = Rewrites(j)
      /\ l.read = j.read /\ l.before = j.before /\ l.run = j.run
  BY SameSessions DEF SameReading
<1>5. l.backup = 0 => Untouched(l)'
  BY <1>3, <1>4 DEF Untouched
<1>6. l.backup # 0 => HasBackup(l)'
  <2>1. HasBackup(l) = HasBackup(j)
    BY <1>4 DEF HasBackup
  <2>2. HasBackup(l)' = HasBackup(l)
    BY DEF HasBackup, Rewrites, Sessions
  <2> QED BY <2>1, <2>2, <1>3
<1>7. /\ l.run <= runs' /\ \A b \in backups' : b.n <= l.run
      /\ \A f \in Sessions(l) : l.read[f].meta = l.before.roll[f].meta
  BY <1>3, <1>4
<1>8. l.backup = 0 => l.applied = {} /\ home'.db = l.before.db
  BY <1>5 DEF Untouched
<1>9. Untouched(job[s])' <=> Untouched(l)'
  BY <1>2 DEF Untouched
<1>10. HasBackup(job[s])' <=> HasBackup(l)'
  BY <1>2 DEF HasBackup, Rewrites, Sessions
<1>11. Sessions(job[s])' = Sessions(l) /\ Rewrites(job[s])' = Rewrites(l)
  BY <1>2 DEF Sessions, Rewrites
<1> QED BY <1>2, <1>5, <1>6, <1>7, <1>8, <1>9, <1>10, <1>11 DEF BackupOK

(* The session files' part, for a step that leaves the home alone and goes   *)
(* on, or returns without having restored.                                 *)
LEMMA RestoreKept ==
  ASSUME IInv, NEW s \in Syncs, pc[s] # "idle", pc[s] \notin {"restore", "release"},
         NEW p \in Locked, NEW l \in Job, Goto(s, p, l), SameReading(job[s], l),
         UNCHANGED foreign, home'.roll = home.roll, l.rollback = "none",
         p # "restore",
         p \in Before => pc[s] \in Before,
         p \in Writing => pc[s] \in Before \/ l.applied = job[s].applied
  PROVE  RestoreOK(s)'
<1> DEFINE j == job[s]
<1>1. pc'[s] = p /\ job'[s] = l /\ pc[s] \in Locked
  BY DEF Goto, IInv, TypeOK
<1>2. /\ \A f \in Sessions(j) \ foreign : j.read[f] = j.before.roll[f]
      /\ \A f \in Files \ AtRisk(s) : home.roll[f] = j.before.roll[f]
  BY <1>1 DEF IInv, RestoreOK
<1>3. l.read = j.read /\ l.before = j.before /\ Sessions(l) = Sessions(j)
  BY SameSessions DEF SameReading
<1>4. \A f \in Sessions(l) \ foreign : l.read[f] = l.before.roll[f]
  BY <1>2, <1>3
<1>5. Files \ AtRisk(s)' \subseteq Files \ AtRisk(s)
  BY <1>1 DEF AtRisk, Before, Writing, Locked
<1> QED
  <2>1. Sessions(job[s])' = Sessions(l)
    BY <1>1 DEF Sessions
  <2>2. \A f \in Files \ AtRisk(s)' : home'.roll[f] = l.before.roll[f]
    BY <1>2, <1>3, <1>5
  <2> QED BY <1>1, <1>4, <2>1, <2>2 DEF RestoreOK

-----------------------------------------------------------------------------
(* The actions *)

LEMMA ActorFacts ==
  ASSUME IInv, NEW s \in Syncs, pc[s] # "idle"
  PROVE  LET j == job[s]
         IN  /\ j \in Job /\ pc[s] \in Locked /\ j.applied \subseteq Rewrites(j)
             /\ pc[s] \in Before => j.backup = 0
             /\ j.backup = 0 => pc[s] \notin Writing
             /\ j.backup = 0 => Untouched(j)
             /\ j.backup # 0 => HasBackup(j)
             /\ \A b \in backups : b.n <= j.run
             /\ pc[s] \in {"backup", "apply"} => j.todo \subseteq Rewrites(j)
             /\ \A f \in Sessions(j) : j.read[f].meta = j.before.roll[f].meta
             /\ \A f \in Sessions(j) \ foreign : j.read[f] = j.before.roll[f]
             /\ \A f \in Files \ AtRisk(s) : home.roll[f] = j.before.roll[f]
             /\ pc[s] \notin {"restore", "release"} => j.rollback = "none"
             /\ pc[s] = "restore" => j.todo \subseteq j.applied /\ j.rollback = "done"
<1>1. job[s] \in Job /\ job[s] # NoJob /\ pc[s] \in Locked
  BY ActorType, JobIsNotNoJob DEF IInv, TypeOK
<1>2. BackupOK(s) /\ RestoreOK(s)
  BY DEF IInv
<1> QED BY <1>1, <1>2 DEF BackupOK, RestoreOK

LEMMA HomeType ==
  ASSUME IInv
  PROVE  /\ home \in Home /\ backups \subseteq Backup
         /\ \A b \in backups : b.n <= runs
BY DEF IInv, TypeOK

(* The process puts its locals away, with the directory or without. *)
LEMMA PutAway ==
  ASSUME IInv, NEW s \in Syncs, pc[s] # "idle", Goto(s, "idle", NoJob),
         lock' \in {lock, None},
         faults' \in 0 .. MaxFaults, UNCHANGED <<home, backups, runs, crashes, foreign>>
  PROVE  IInv'
<1>1. \A t \in Syncs \ {s} : job[t] = NoJob /\ pc[t] = "idle"
  BY ActorType
<1>2. \A t \in Syncs : job'[t] = NoJob /\ pc'[t] = "idle"
  BY <1>1 DEF Goto, IInv, TypeOK
<1>3. "idle" \notin Locked
  BY DEF Locked, Writing
<1>4. TypeOK'
  BY DEF Goto, IInv, TypeOK
<1>5. OneSyncAtATime'
  BY <1>2, <1>3 DEF OneSyncAtATime
<1>6. \A t \in Syncs : BackupOK(t)' /\ RestoreOK(t)'
  BY <1>2, <1>3 DEF BackupOK, RestoreOK
<1> QED BY <1>4, <1>5, <1>6 DEF IInv

LEMMA RunProviderSyncStep ==
  ASSUME IInv, NEW s \in Syncs, NEW target \in Providers, RunProviderSync(s, target)
  PROVE  IInv'
<1>0. faults' \in 0 .. MaxFaults /\ runs + 1 \in 1 .. MaxRuns /\ runs \in Nat
  BY FaultBound, BoundAssumption DEF RunProviderSync, IInv, TypeOK
<1>1. CASE lock = None /\ Goto(s, "owner", NewJob(target)) /\ lock' = s /\ foreign' = {}
  <2> DEFINE l == NewJob(target)
  <2>1. l \in Job
    <3>1. [f \in Files |-> None] \in [Files -> Rollout \cup {None}]
      OBVIOUS
    <3>2. runs + 1 \in 1 .. MaxRuns /\ home \in Home /\ 0 \in 0 .. MaxRuns
      BY <1>0, HomeType, BoundAssumption
    <3> QED BY <3>1, <3>2 DEF NewJob, Job
  <2>2. \A t \in Syncs : job[t] = NoJob /\ pc[t] = "idle"
    BY <1>1, NoneAssumption DEF IInv, OneSyncAtATime, TypeOK
  <2>3. pc'[s] = "owner" /\ job'[s] = l
    BY <1>1 DEF Goto, IInv, TypeOK
  <2>4. \A t \in Syncs \ {s} : job'[t] = NoJob /\ pc'[t] = "idle"
    BY <1>1, <2>2 DEF Goto, IInv, TypeOK
  <2>5. "idle" \notin Locked /\ "owner" \in Locked /\ "owner" \in Before
        /\ "owner" \notin Writing
    BY DEF Locked, Writing, Before
  <2>6. /\ l.run = runs + 1 /\ l.before = home /\ l.backup = 0 /\ l.applied = {}
        /\ l.rollback = "none" /\ l.read = [f \in Files |-> None]
    BY DEF NewJob
  <2>7. Sessions(l) = {}
    BY <2>6 DEF Sessions
  <2>7a. /\ pc \in [Syncs -> Locked \cup {"idle"}] /\ job \in [Syncs -> Job \cup {NoJob}]
         /\ pc' = [pc EXCEPT ![s] = "owner"] /\ job' = [job EXCEPT ![s] = l]
    BY <1>1 DEF Goto, IInv, TypeOK
  <2> HIDE DEF l
  <2>8. TypeOK'
    <3>1. pc' \in [Syncs -> Locked \cup {"idle"}] /\ job' \in [Syncs -> Job \cup {NoJob}]
      BY <2>1, <2>5, <2>7a
    <3>2. runs' \in 0 .. MaxRuns /\ lock' \in Syncs \cup {None} /\ foreign' \subseteq Files
      BY <1>0, <1>1 DEF RunProviderSync
    <3> QED BY <1>0, <1>1, <3>1, <3>2 DEF IInv, TypeOK, RunProviderSync
  <2>9. OneSyncAtATime'
    BY <1>1, <2>1, <2>3, <2>4, <2>5, JobIsNotNoJob DEF OneSyncAtATime
  <2>10. home' = home /\ backups' = backups /\ runs' = runs + 1
    BY DEF RunProviderSync
  <2>11. \A b \in backups' : b.n <= runs /\ b.n <= runs'
    <3>1. \A b \in backups : b.n \in Nat
      BY HomeType, BoundAssumption DEF Backup
    <3> QED BY <1>0, <2>10, <3>1, HomeType
  <2>12. BackupOK(s)'
    <3>1. \A b \in backups' : b.n <= l.run
      BY <2>6, <2>10, <2>11
    <3>2. Untouched(job[s])'
      BY <2>3, <2>6, <2>10 DEF Untouched
    <3>3. Sessions(job[s])' = {}
      BY <2>3, <2>7 DEF Sessions
    <3>4. l.run <= runs'
      BY <1>0, <2>6, <2>10
    <3>5. home'.db = l.before.db
      BY <2>6, <2>10
    <3> QED BY <2>3, <2>5, <2>6, <3>1, <3>2, <3>3, <3>4, <3>5 DEF BackupOK
  <2>13. RestoreOK(s)'
    <3>1. Sessions(job[s])' = {}
      BY <2>3, <2>7 DEF Sessions
    <3> QED BY <2>3, <2>6, <2>10, <3>1 DEF RestoreOK
  <2>14. \A t \in Syncs \ {s} : BackupOK(t)' /\ RestoreOK(t)'
    BY <2>4, <2>5 DEF BackupOK, RestoreOK
  <2> QED BY <2>8, <2>9, <2>11, <2>12, <2>13, <2>14 DEF IInv
<1>2. CASE UNCHANGED <<lock, pc, job, foreign>>
  <2>1. home' = home /\ backups' = backups /\ runs' = runs + 1 /\ crashes' = crashes
    BY DEF RunProviderSync
  <2>2. TypeOK' /\ OneSyncAtATime'
    BY <1>0, <1>2, <2>1 DEF IInv, TypeOK, OneSyncAtATime
  <2>3. \A b \in backups' : b.n <= runs'
    <3>1. \A b \in backups : b.n \in Nat
      BY HomeType, BoundAssumption DEF Backup
    <3> QED BY <1>0, <2>1, <3>1, HomeType
  <2>4. ASSUME NEW t \in Syncs PROVE BackupOK(t)' /\ RestoreOK(t)'
    <3>1. BackupOK(t) /\ RestoreOK(t)
      BY DEF IInv
    <3>2. RestoreOK(t)'
      BY <3>1, <1>2, <2>1 DEF RestoreOK, AtRisk, Sessions
    <3>3. BackupOK(t)'
      <4>1. CASE job[t] = NoJob
        BY <4>1, <1>2 DEF BackupOK
      <4>2. CASE job[t] # NoJob
        <5>1. job[t].run \in Nat /\ job[t].run <= runs
          BY <3>1, <4>2, BoundAssumption DEF BackupOK, IInv, TypeOK, Job
        <5>2. job'[t].run <= runs'
          BY <5>1, <1>0, <1>2, <2>1
        <5> QED BY <3>1, <4>2, <5>2, <1>2, <2>1
                DEF BackupOK, Untouched, HasBackup, Rewrites, Sessions
      <4> QED BY <4>1, <4>2
    <3> QED BY <3>2, <3>3
  <2> QED BY <2>2, <2>3, <2>4 DEF IInv
<1> QED BY <1>1, <1>2 DEF RunProviderSync

LEMMA Steps ==
  /\ "idle" \notin Locked /\ Before \subseteq Locked /\ Writing \subseteq Locked
  /\ "release" \in Locked /\ "release" \notin Before /\ "release" \notin Writing
  /\ {"owner", "collect", "backup"} \subseteq Before
  /\ {"apply", "sqlite", "state", "prune", "restore"} \subseteq Writing
  /\ \A p \in Before : p \notin Writing
BY DEF Locked, Writing, Before

(* A step that changes nothing on disk, and goes on or returns an error. *)
LEMMA QuietStep ==
  ASSUME IInv, NEW s \in Syncs, pc[s] # "idle", pc[s] \notin {"restore", "release"},
         NEW p \in Locked, NEW l \in Job, Goto(s, p, l), SameReading(job[s], l),
         l.backup = job[s].backup, l.applied = job[s].applied, l.rollback = "none",
         UNCHANGED <<home, backups>>, UNCHANGED Shared, faults' \in 0 .. MaxFaults,
         p # "restore",
         p \in Before => pc[s] \in Before,
         p \in Writing => pc[s] \in Writing,
         p \in {"backup", "apply"} => l.todo \subseteq Rewrites(l)
  PROVE  IInv'
<1>1. /\ job[s].applied \subseteq Rewrites(job[s])
      /\ pc[s] \in Before => job[s].backup = 0
      /\ job[s].backup = 0 => pc[s] \notin Writing
  BY ActorFacts
<1>2. Rewrites(l) = Rewrites(job[s])
  BY SameSessions DEF SameReading
<1>3. BackupOK(s)'
  <2>1. l.backup = 0 => home' = home /\ l.applied = job[s].applied /\ p \notin Writing
    BY <1>1
  <2>2. l.applied \subseteq Rewrites(l) /\ (p \in Before => l.backup = 0)
    BY <1>1, <1>2
  <2>3. UNCHANGED <<backups, runs>>
    BY DEF Shared
  <2> QED BY <2>1, <2>2, <2>3, BackupKept
<1>4. RestoreOK(s)'
  <2>1. UNCHANGED foreign /\ home'.roll = home.roll
    BY DEF Shared
  <2> QED BY <2>1, RestoreKept
<1>5. home' \in Home /\ backups' \subseteq Backup /\ \A b \in backups' : b.n <= runs
  BY HomeType
<1> QED BY <1>3, <1>4, <1>5, ActorStep

LEMMA WriteOwnerStep ==
  ASSUME IInv, NEW s \in Syncs, WriteOwner(s)
  PROVE  IInv'
<1>1. /\ pc[s] = "owner" /\ pc[s] # "idle" /\ pc[s] \in Before
      /\ faults' \in 0 .. MaxFaults
  BY FaultBound, Steps DEF WriteOwner
<1>2. CASE Goto(s, "collect", job[s])
  <2>1. job[s] \in Job /\ job[s].rollback = "none"
    BY <1>1, ActorFacts
  <2>2. UNCHANGED <<home, backups>> /\ UNCHANGED Shared
    BY <1>2 DEF WriteOwner, Shared
  <2>3. SameReading(job[s], job[s])
    BY DEF SameReading
  <2> DEFINE l == job[s]
             p == "collect"
  <2>4. /\ p \in Locked /\ p \in Before /\ p \notin Writing
        /\ p # "restore" /\ p \notin {"backup", "apply"}
    BY Steps
  <2>5. l \in Job /\ Goto(s, p, l) /\ SameReading(job[s], l) /\ l.backup = job[s].backup
        /\ l.applied = job[s].applied /\ l.rollback = "none"
    BY <1>2, <2>1, <2>3
  <2>6. pc[s] \notin {"restore", "release"}
    BY <1>1
  <2> HIDE DEF l, p
  <2> QED BY <1>1, <2>2, <2>4, <2>5, <2>6, QuietStep
<1>3. CASE Goto(s, "idle", NoJob)
  BY <1>1, <1>3, PutAway DEF WriteOwner
<1> QED BY <1>2, <1>3 DEF WriteOwner

LEMMA ReleaseLockStep ==
  ASSUME IInv, NEW s \in Syncs, ReleaseLock(s)
  PROVE  IInv'
<1>1. pc[s] # "idle" /\ job[s] \in Job /\ faults' \in 0 .. MaxFaults
  BY FaultBound, ActorType DEF ReleaseLock
<1>2. Goto(s, "idle", NoJob) /\ lock' \in {lock, None}
      /\ UNCHANGED <<home, backups, runs, crashes, foreign>>
  BY DEF ReleaseLock
<1> QED BY <1>1, <1>2, PutAway

(* An error before anything was rewritten, or while files are: it is returned. *)
LEMMA ErrorStep ==
  ASSUME IInv, NEW s \in Syncs, pc[s] # "idle", pc[s] \notin {"restore", "release"},
         NEW k \in Job, SameReading(job[s], k), k.backup = job[s].backup,
         k.applied = job[s].applied, k.rollback = "none",
         NEW status \in {"synced", "skipped"}, Return(s, k, status),
         UNCHANGED <<home, backups>>, UNCHANGED Shared, faults' \in 0 .. MaxFaults
  PROVE  IInv'
<1> DEFINE l == [k EXCEPT !.status = status]
           p == "release"
<1>1. /\ l \in Job /\ SameReading(k, l) /\ l.backup = k.backup
      /\ l.applied = k.applied /\ l.rollback = k.rollback
  BY WithStatus
<1>2. /\ p \in Locked /\ p \notin Before /\ p \notin Writing
      /\ p # "restore" /\ p \notin {"backup", "apply"}
  BY Steps
<1>3. Goto(s, p, l)
  BY DEF Return
<1> HIDE DEF l, p
<1>4. SameReading(job[s], l) /\ l.backup = job[s].backup
      /\ l.applied = job[s].applied /\ l.rollback = "none"
  BY <1>1 DEF SameReading
<1> QED BY <1>1, <1>2, <1>3, <1>4, QuietStep

LEMMA PlanUpdatesStep ==
  ASSUME IInv, NEW s \in Syncs, PlanUpdates(s)
  PROVE  IInv'
<1> DEFINE j == Considering(job[s])
<1>1. /\ pc[s] = "collect" /\ pc[s] # "idle" /\ pc[s] \in Before
      /\ pc[s] \notin {"restore", "release"}
      /\ faults' \in 0 .. MaxFaults /\ UNCHANGED <<home, backups>> /\ UNCHANGED Shared
  BY FaultBound, Steps DEF PlanUpdates, Shared
<1>2. job[s] \in Job /\ job[s].rollback = "none"
  BY <1>1, ActorFacts
<1>3. /\ j \in Job /\ SameReading(job[s], j) /\ j.backup = job[s].backup
      /\ j.applied = job[s].applied /\ j.rollback = "none"
  <2>1. home.state.projectless \in SUBSET Files
    BY HomeType DEF Home, GlobalState
  <2> QED BY <1>2, <2>1 DEF Considering, Job, SameReading
<1>4. \/ Return(s, j, "skipped") \/ Return(s, j, "synced")
      \/ Goto(s, "backup", [j EXCEPT !.todo = Rewrites(j)])
  BY DEF PlanUpdates
<1> HIDE DEF j
<1>5. CASE Return(s, j, "skipped") \/ Return(s, j, "synced")
  BY <1>1, <1>3, <1>5, ErrorStep
<1>6. CASE Goto(s, "backup", [j EXCEPT !.todo = Rewrites(j)])
  <2> DEFINE l == [j EXCEPT !.todo = Rewrites(j)]
             p == "backup"
  <2>1. Rewrites(j) \in SUBSET Files
    BY DEF Rewrites, Sessions
  <2>2. /\ l \in Job /\ SameReading(j, l) /\ l.todo = Rewrites(j) /\ l.backup = j.backup
        /\ l.applied = j.applied /\ l.rollback = j.rollback
    BY <1>3, <2>1, WithTodo
  <2>3. /\ p \in Locked /\ p \in Before /\ p \notin Writing /\ p # "restore"
    BY Steps
  <2>4. Goto(s, p, l)
    BY <1>6
  <2> HIDE DEF l, p
  <2>5. l.todo \subseteq Rewrites(l)
    BY <2>2, SameSessions DEF SameReading
  <2>6. SameReading(job[s], l) /\ l.backup = job[s].backup
        /\ l.applied = job[s].applied /\ l.rollback = "none"
    BY <1>3, <2>2 DEF SameReading
  <2> QED BY <1>1, <2>2, <2>3, <2>4, <2>5, <2>6, QuietStep
<1> QED BY <1>4, <1>5, <1>6

LEMMA CollectSessionChangeStep ==
  ASSUME IInv, NEW s \in Syncs, CollectSessionChange(s)
  PROVE  IInv'
<1> DEFINE j == job[s]
<1>1. /\ pc[s] = "collect" /\ pc[s] # "idle" /\ pc[s] \in Before
      /\ pc[s] \notin {"restore", "release"}
      /\ faults' \in 0 .. MaxFaults /\ UNCHANGED <<home, backups>> /\ UNCHANGED Shared
  <2>1. Fault \/ NoFault
    BY DEF CollectSessionChange
  <2>2. pc[s] = "collect" /\ pc[s] \in Before
    BY Steps DEF CollectSessionChange
  <2>3. UNCHANGED <<home, backups>> /\ UNCHANGED Shared
    BY DEF CollectSessionChange, Shared
  <2> QED BY <2>1, <2>2, <2>3, FaultBound
<1>2. /\ j \in Job /\ j.rollback = "none" /\ j.backup = 0 /\ Untouched(j)
      /\ \A g \in Sessions(j) : j.read[g].meta = j.before.roll[g].meta
      /\ \A g \in Sessions(j) \ foreign : j.read[g] = j.before.roll[g]
      /\ \A g \in Files \ AtRisk(s) : home.roll[g] = j.before.roll[g]
      /\ \A b \in backups : b.n <= j.run
  BY <1>1, ActorFacts
<1>3. AtRisk(s) = foreign
  BY <1>1 DEF AtRisk, Before, Writing
<1> DEFINE rest(f) == [j EXCEPT !.todo = @ \ {f}]
           r(f) == IF home.roll[f].meta = {} THEN None ELSE home.roll[f]
           p == "collect"
<1>4. PICK f \in j.todo :
        \/ Goto(s, p, [rest(f) EXCEPT !.read[f] = r(f)])
        \/ Goto(s, p, [rest(f) EXCEPT !.skipped = @ \cup {f}])
        \/ Return(s, rest(f), "skipped")
  BY DEF CollectSessionChange
<1>5. f \in Files
  BY <1>2, JobFields
<1>6. /\ p \in Locked /\ p \in Before /\ p \notin Writing
      /\ p # "restore" /\ p \notin {"backup", "apply"}
  BY Steps
<1> DEFINE k == rest(f)
<1>7. /\ k \in Job /\ SameReading(j, k) /\ k.backup = j.backup
      /\ k.applied = j.applied /\ k.rollback = "none"
  <2>1. j.todo \ {f} \in SUBSET Files
    BY <1>2, JobFields
  <2> QED BY <1>2, <2>1, WithTodo
<1> HIDE DEF k, p
<1>8. CASE Goto(s, p, [k EXCEPT !.read[f] = r(f)])
  <2> DEFINE l == [k EXCEPT !.read[f] = r(f)]
  <2>1. home.roll[f] \in Rollout
    BY <1>5, HomeType DEF Home
  <2>2. r(f) \in Rollout \cup {None}
    BY <2>1
  <2> HIDE DEF r
  <2>3. /\ l \in Job /\ l.read = [k.read EXCEPT ![f] = r(f)] /\ l.run = k.run
        /\ l.before = k.before /\ l.backup = k.backup /\ l.applied = k.applied
        /\ l.rollback = k.rollback
    BY <1>5, <1>7, <2>2, WithRead
  <2>4. Goto(s, p, l)
    BY <1>8
  <2> HIDE DEF l
  <2>5. pc'[s] = p /\ job'[s] = l
    BY <2>4 DEF Goto, IInv, TypeOK
  <2>6. /\ l.read = [j.read EXCEPT ![f] = r(f)] /\ l.run = j.run /\ l.before = j.before
        /\ l.backup = 0 /\ l.applied = {} /\ l.rollback = "none"
        /\ j.read \in [Files -> Rollout \cup {None}]
    BY <1>2, <1>7, <2>3, JobFields DEF SameReading, Untouched
  <2>7. \A g \in Sessions(l) : \/ g \in Sessions(j) /\ l.read[g] = j.read[g]
                               \/ g = f /\ l.read[g] = home.roll[f]
    BY <1>5, <2>6 DEF Sessions, r
  <2>8. \A g \in Files : home.roll[g].meta = j.before.roll[g].meta
    BY <1>2 DEF Untouched
  <2>9. /\ \A g \in Sessions(l) : l.read[g].meta = l.before.roll[g].meta
        /\ \A g \in Sessions(l) \ foreign : l.read[g] = l.before.roll[g]
    BY <1>2, <1>3, <1>5, <2>6, <2>7, <2>8
  <2>10. BackupOK(s)'
    <3>1. Untouched(job[s])'
      BY <1>1, <1>2, <2>5, <2>6 DEF Untouched
    <3>2. Sessions(job[s])' = Sessions(l)
      BY <2>5 DEF Sessions
    <3>3. l.run <= runs' /\ \A b \in backups' : b.n <= l.run
      BY <1>1, <1>2, <2>6, JobIsNotNoJob DEF IInv, BackupOK, Shared
    <3>4. home'.db = l.before.db
      BY <3>1, <2>5 DEF Untouched
    <3> QED BY <1>6, <2>5, <2>6, <2>9, <3>1, <3>2, <3>3, <3>4 DEF BackupOK
  <2>11. RestoreOK(s)'
    <3>1. AtRisk(s)' = foreign /\ Sessions(job[s])' = Sessions(l)
      BY <1>1, <1>6, <2>5 DEF AtRisk, Sessions, Shared
    <3>2. \A g \in Files \ AtRisk(s)' : home'.roll[g] = l.before.roll[g]
      BY <1>1, <1>2, <1>3, <2>6, <3>1
    <3> QED BY <1>1, <1>6, <2>5, <2>6, <2>9, <3>1, <3>2 DEF RestoreOK, Shared
  <2>12. home' \in Home /\ backups' \subseteq Backup /\ \A b \in backups' : b.n <= runs
    BY <1>1, HomeType
  <2> QED BY <1>1, <1>6, <2>3, <2>4, <2>10, <2>11, <2>12, ActorStep
<1>9. CASE Goto(s, p, [k EXCEPT !.skipped = @ \cup {f}])
  <2> DEFINE l == [k EXCEPT !.skipped = @ \cup {f}]
  <2>1. /\ l \in Job /\ SameReading(k, l) /\ l.backup = k.backup
        /\ l.applied = k.applied /\ l.rollback = k.rollback
    BY <1>5, <1>7 DEF Job, SameReading
  <2>2. Goto(s, p, l)
    BY <1>9
  <2> HIDE DEF l
  <2>3. SameReading(job[s], l) /\ l.backup = job[s].backup
        /\ l.applied = job[s].applied /\ l.rollback = "none"
    BY <1>7, <2>1 DEF SameReading
  <2> QED BY <1>1, <1>6, <2>1, <2>2, <2>3, QuietStep
<1>10. CASE Return(s, k, "skipped")
  BY <1>1, <1>7, <1>10, ErrorStep
<1> QED BY <1>4, <1>8, <1>9, <1>10 DEF k

LEMMA CreateBackupStep ==
  ASSUME IInv, NEW s \in Syncs, CreateBackup(s)
  PROVE  IInv'
<1> DEFINE j == job[s]
<1>1. /\ pc[s] = "backup" /\ pc[s] # "idle" /\ pc[s] \in Before
      /\ pc[s] \notin {"restore", "release"}
      /\ faults' \in 0 .. MaxFaults /\ home' = home /\ UNCHANGED Shared
  BY FaultBound, Steps DEF CreateBackup, Shared
<1>2. /\ j \in Job /\ j.rollback = "none" /\ j.backup = 0 /\ Untouched(j)
      /\ j.todo \subseteq Rewrites(j) /\ j.applied = {}
      /\ \A g \in Sessions(j) : j.read[g].meta = j.before.roll[g].meta
      /\ \A b \in backups : b.n <= j.run
  BY <1>1, ActorFacts DEF Untouched
<1>3. j.run \in 1 .. MaxRuns /\ j.run <= runs
  BY <1>2, JobFields, JobIsNotNoJob DEF IInv, BackupOK
<1>4. Rewrites(j) \subseteq Sessions(j) /\ Sessions(j) \subseteq Files
      /\ \A g \in Sessions(j) : j.read[g] \in Rollout
  BY <1>2, JobFields DEF Rewrites, Sessions
<1>5. ASSUME NEW m \in BOOLEAN
      PROVE  LET b == BackupOf(j, m)
             IN  /\ b \in Backup /\ b.n = j.run /\ b.managed = m /\ b.db = home.db
                 /\ \A f \in Rewrites(j) : b.manifest[f] = j.read[f].meta
  <2> DEFINE manifest == [f \in Files |-> IF f \in Rewrites(j) THEN j.read[f].meta ELSE {}]
  <2>1. \A f \in Rewrites(j) : j.read[f].meta \in SUBSET Providers
    BY <1>4 DEF Rollout
  <2>2. manifest \in Manifest
    BY <2>1 DEF Manifest
  <2>3. /\ home.db \in [Dbs -> [Files -> Row \cup {None}]] /\ home.state \in GlobalState
    BY HomeType DEF Home
  <2>4. \A f \in Rewrites(j) : manifest[f] = j.read[f].meta
    BY <1>4
  <2>5. BackupOf(j, m) = [n |-> j.run, managed |-> m, db |-> home.db, state |-> home.state,
                          manifest |-> manifest]
    BY DEF BackupOf
  <2> HIDE DEF manifest
  <2> QED BY <1>3, <2>2, <2>3, <2>4, <2>5 DEF Backup
<1>6. ASSUME NEW m \in BOOLEAN, backups' = backups \cup {BackupOf(j, m)}
      PROVE  backups' \subseteq Backup /\ \A b \in backups' : b.n <= runs /\ b.n <= j.run
  BY <1>2, <1>3, <1>5, <1>6, HomeType
<1>7. ASSUME NEW p \in Locked, NEW l \in Job, Goto(s, p, l), SameReading(j, l), l.applied = {},
             NEW m \in BOOLEAN, backups' = backups \cup {BackupOf(j, m)},
             l.backup # 0 => m = TRUE, l.backup = 0 => p \notin Writing,
             p \notin Before, p = "apply" => l.todo \subseteq Rewrites(l)
      PROVE  BackupOK(s)'
  <2>1. pc'[s] = p /\ job'[s] = l
    BY <1>7 DEF Goto, IInv, TypeOK
  <2>2. /\ l.read = j.read /\ l.before = j.before /\ l.run = j.run
        /\ Sessions(l) = Sessions(j) /\ Rewrites(l) = Rewrites(j)
    BY <1>7, SameSessions DEF SameReading
  <2>3. Untouched(job[s])'
    BY <1>1, <1>2, <1>7, <2>1, <2>2 DEF Untouched
  <2>4. l.backup # 0 => HasBackup(job[s])'
    <3>1. ASSUME l.backup # 0 PROVE HasBackup(l)'
      <4> DEFINE b == BackupOf(j, TRUE)
      <4>1. b \in backups' /\ b.managed /\ b.n = l.run
        BY <1>5, <1>7, <2>2, <3>1
      <4>2. b.db = l.before.db
        BY <1>2, <1>5, <2>2 DEF Untouched
      <4>3. \A f \in Rewrites(l) : b.manifest[f] = l.before.roll[f].meta
        BY <1>2, <1>4, <1>5, <2>2
      <4> HIDE DEF b
      <4>4. Rewrites(l)' = Rewrites(l)
        BY DEF Rewrites, Sessions
      <4> QED BY <4>1, <4>2, <4>3, <4>4 DEF HasBackup
    <3>2. HasBackup(job[s])' <=> HasBackup(l)'
      BY <2>1 DEF HasBackup, Rewrites, Sessions
    <3> QED BY <3>1, <3>2
  <2>5. Sessions(job[s])' = Sessions(l) /\ Rewrites(job[s])' = Rewrites(l)
    BY <2>1 DEF Sessions, Rewrites
  <2>6. l.run <= runs' /\ \A b \in backups' : b.n <= l.run
    BY <1>1, <1>3, <1>6, <1>7, <2>2 DEF Shared
  <2>7. home'.db = l.before.db
    BY <1>1, <1>2, <2>2 DEF Untouched
  <2>8. "backup" \in Before
    BY Steps
  <2> QED BY <1>2, <1>7, <2>1, <2>2, <2>3, <2>4, <2>5, <2>6, <2>7, <2>8 DEF BackupOK
<1>8. ASSUME NEW p \in Locked, NEW l \in Job, Goto(s, p, l), SameReading(j, l),
             l.rollback = "none", p # "restore", p \notin Before
      PROVE  RestoreOK(s)'
  <2>1. UNCHANGED foreign /\ home'.roll = home.roll
    BY <1>1 DEF Shared
  <2> QED BY <1>1, <1>8, <2>1, RestoreKept
<1>9. CASE /\ backups' = backups \cup {BackupOf(j, TRUE)}
           /\ Goto(s, IF j.todo = {} THEN "sqlite" ELSE "apply", [j EXCEPT !.backup = j.run])
  <2> DEFINE l == [j EXCEPT !.backup = j.run]
             p == IF j.todo = {} THEN "sqlite" ELSE "apply"
  <2>1. /\ l \in Job /\ SameReading(j, l) /\ l.backup # 0 /\ l.todo = j.todo
        /\ l.applied = {} /\ l.rollback = "none"
    BY <1>2, <1>3 DEF Job, SameReading
  <2>2. p \in Locked /\ p # "restore" /\ p \notin Before
    BY Steps
  <2>3. Goto(s, p, l) /\ backups' = backups \cup {BackupOf(j, TRUE)}
    BY <1>9
  <2> HIDE DEF l, p
  <2>4. l.todo \subseteq Rewrites(l)
    BY <1>2, <2>1, SameSessions DEF SameReading
  <2>5. BackupOK(s)'
    BY <1>7, <2>1, <2>2, <2>3, <2>4
  <2>6. RestoreOK(s)'
    BY <1>8, <2>1, <2>2, <2>3
  <2>7. home' \in Home /\ backups' \subseteq Backup /\ \A b \in backups' : b.n <= runs
    BY <1>1, <1>6, <2>3, HomeType
  <2> QED BY <1>1, <2>1, <2>2, <2>3, <2>5, <2>6, <2>7, ActorStep
<1>10. CASE backups' = backups \cup {BackupOf(j, FALSE)} /\ Return(s, j, "skipped")
  <2> DEFINE l == [j EXCEPT !.status = "skipped"]
             p == "release"
  <2>1. /\ l \in Job /\ SameReading(j, l) /\ l.backup = 0 /\ l.applied = {}
        /\ l.rollback = "none"
    BY <1>2, WithStatus
  <2>2. p \in Locked /\ p # "restore" /\ p # "apply" /\ p \notin Before /\ p \notin Writing
    BY Steps
  <2>3. Goto(s, p, l) /\ backups' = backups \cup {BackupOf(j, FALSE)}
    BY <1>10 DEF Return
  <2> HIDE DEF l, p
  <2>5. BackupOK(s)'
    BY <1>7, <2>1, <2>2, <2>3
  <2>6. RestoreOK(s)'
    BY <1>8, <2>1, <2>2, <2>3
  <2>7. home' \in Home /\ backups' \subseteq Backup /\ \A b \in backups' : b.n <= runs
    BY <1>1, <1>6, <2>3, HomeType
  <2> QED BY <1>1, <2>1, <2>2, <2>3, <2>5, <2>6, <2>7, ActorStep
<1> QED BY <1>9, <1>10 DEF CreateBackup

(* One session file is written, or emptied by a write that fails. *)
LEMMA WriteType ==
  ASSUME IInv, NEW f \in Files, NEW r \in Rollout
  PROVE  LET h == [home EXCEPT !.roll[f] = r]
         IN  /\ h \in Home /\ h.roll[f] = r
             /\ \A g \in Files \ {f} : h.roll[g] = home.roll[g]
<1>1. home \in Home
  BY HomeType
<1> QED BY <1>1 DEF Home

LEMMA EmptyType == Empty \in Rollout
<1>1. 0 \in 0 .. MaxEvents
  BY BoundAssumption
<1> QED BY <1>1 DEF Empty, Rollout

LEMMA NotWrittenType ==
  ASSUME IInv, NEW f \in Files, NotWritten(f)
  PROVE  /\ home' \in Home
         /\ \A g \in Files \ {f} : home'.roll[g] = home.roll[g]
<1> DEFINE h == [home EXCEPT !.roll[f] = Empty]
<1>1. h \in Home /\ \A g \in Files \ {f} : h.roll[g] = home.roll[g]
  BY WriteType, EmptyType
<1>2. home' = home \/ home' = h
  BY DEF NotWritten
<1> HIDE DEF h
<1> QED BY <1>1, <1>2, HomeType

LEMMA RestoreWritten ==
  ASSUME IInv, NEW s \in Syncs, pc[s] \in Writing, pc[s] # "restore",
         NEW p \in Locked, NEW l \in Job, Goto(s, p, l), SameReading(job[s], l),
         UNCHANGED foreign, l.rollback = "none", NEW f \in Files,
         \A g \in Files \ {f} : home'.roll[g] = home.roll[g],
         p # "restore", p \notin Before,
         p \in Writing => l.applied = job[s].applied \cup {f}
  PROVE  RestoreOK(s)'
<1> DEFINE j == job[s]
<1>1. pc[s] # "idle"
  BY Steps
<1>2. pc'[s] = p /\ job'[s] = l
  BY DEF Goto, IInv, TypeOK
<1>3. /\ \A g \in Sessions(j) \ foreign : j.read[g] = j.before.roll[g]
      /\ \A g \in Files \ AtRisk(s) : home.roll[g] = j.before.roll[g]
  BY <1>1, ActorFacts
<1>4. l.read = j.read /\ l.before = j.before /\ Sessions(l) = Sessions(j)
  BY SameSessions DEF SameReading
<1>5. Sessions(job[s])' = Sessions(l)
  BY <1>2 DEF Sessions
<1>6. AtRisk(s) = foreign \cup j.applied
  BY DEF AtRisk, Before, Writing
<1>7. AtRisk(s)' = IF p \in Writing THEN foreign \cup l.applied ELSE Files
  BY <1>2 DEF AtRisk, Before, Writing
<1>8. \A g \in Files \ AtRisk(s)' : home'.roll[g] = l.before.roll[g]
  BY <1>3, <1>4, <1>6, <1>7
<1> QED BY <1>2, <1>3, <1>4, <1>5, <1>8 DEF RestoreOK

(* What a session's file becomes is a session. *)
LEMMA SessionType ==
  ASSUME NEW j \in Job, NEW f \in Rewrites(j)
  PROVE  f \in Files /\ f \in Sessions(j) /\ j.read[f] \in Rollout /\ Rewritten(j, f) \in Rollout
<1>1. f \in Files /\ f \in Sessions(j) /\ j.read[f] # None
  BY DEF Rewrites, Sessions
<1>2. j.read[f] \in Rollout
  BY <1>1, JobFields
<1>3. Rewritten(j, f) \in Rollout
  BY <1>2, JobFields DEF Rewritten, Rollout
<1> QED BY <1>1, <1>2, <1>3

LEMMA ApplySessionChangeStep ==
  ASSUME IInv, NEW s \in Syncs, ApplySessionChange(s)
  PROVE  IInv'
<1> DEFINE j == job[s]
<1>1. /\ pc[s] = "apply" /\ pc[s] # "idle" /\ pc[s] \in Writing
      /\ pc[s] \notin {"restore", "release"}
      /\ faults' \in 0 .. MaxFaults /\ backups' = backups /\ UNCHANGED Shared
  <2>1. Fault \/ NoFault
    BY DEF ApplySessionChange
  <2>2. pc[s] = "apply" /\ pc[s] \in Writing
    BY Steps DEF ApplySessionChange
  <2>3. backups' = backups /\ UNCHANGED Shared
    BY DEF ApplySessionChange, Shared
  <2> QED BY <2>1, <2>2, <2>3, FaultBound
<1>2. /\ j \in Job /\ j.rollback = "none" /\ j.backup # 0
      /\ j.applied \subseteq Rewrites(j) /\ j.todo \subseteq Rewrites(j)
  BY <1>1, ActorFacts
<1> DEFINE rest(f) == [j EXCEPT !.todo = @ \ {f}]
           step(f) == IF rest(f).todo = {} THEN "sqlite" ELSE "apply"
<1>3. PICK f \in j.todo :
        \/ /\ Written(f, Rewritten(j, f))
           /\ Goto(s, step(f), [rest(f) EXCEPT !.applied = @ \cup {f}])
        \/ /\ UNCHANGED home
           /\ Goto(s, step(f), [rest(f) EXCEPT !.skipped = @ \cup {f}])
        \/ NotWritten(f) /\ Return(s, rest(f), "skipped")
  BY DEF ApplySessionChange
<1>4. f \in Rewrites(j) /\ f \in Files /\ Rewritten(j, f) \in Rollout
  BY <1>2, SessionType
<1> DEFINE k == rest(f)
           p == step(f)
<1>5. /\ k \in Job /\ SameReading(j, k) /\ k.backup = j.backup /\ k.todo = j.todo \ {f}
      /\ k.applied = j.applied /\ k.rollback = "none"
  <2>1. j.todo \ {f} \in SUBSET Files
    BY <1>2, JobFields
  <2> QED BY <1>2, <2>1, WithTodo
<1>6. p \in Locked /\ p \in Writing /\ p # "restore" /\ p \notin Before
  BY Steps
<1> HIDE DEF k, p
<1>7. Rewrites(k) = Rewrites(j)
  BY <1>5, SameSessions DEF SameReading
<1>8. UNCHANGED foreign /\ UNCHANGED <<backups, runs>>
  BY <1>1 DEF Shared
<1>9. backups' \subseteq Backup /\ \A b \in backups' : b.n <= runs
  BY <1>1, HomeType
<1>10. CASE Written(f, Rewritten(j, f)) /\ Goto(s, p, [k EXCEPT !.applied = @ \cup {f}])
  <2> DEFINE l == [k EXCEPT !.applied = @ \cup {f}]
  <2>1. /\ l \in Job /\ SameReading(k, l) /\ l.backup = k.backup /\ l.todo = k.todo
        /\ l.applied = k.applied \cup {f} /\ l.rollback = k.rollback
    BY <1>4, <1>5 DEF Job, SameReading
  <2>2. Goto(s, p, l)
    BY <1>10
  <2> HIDE DEF l
  <2>3. SameReading(j, l) /\ l.backup = j.backup /\ l.rollback = "none"
        /\ l.applied = j.applied \cup {f}
    BY <1>5, <2>1 DEF SameReading
  <2>4. l.applied \subseteq Rewrites(l) /\ l.todo \subseteq Rewrites(l)
    BY <1>2, <1>4, <1>5, <2>1, <2>3, SameSessions DEF SameReading
  <2>5. BackupOK(s)'
    BY <1>1, <1>2, <1>6, <1>8, <2>1, <2>2, <2>3, <2>4, BackupKept
  <2>6. home' \in Home /\ \A g \in Files \ {f} : home'.roll[g] = home.roll[g]
    BY <1>4, <1>10, WriteType DEF Written
  <2>7. RestoreOK(s)'
    BY <1>1, <1>4, <1>6, <1>8, <2>1, <2>2, <2>3, <2>6, RestoreWritten
  <2> QED BY <1>1, <1>6, <1>9, <2>1, <2>2, <2>5, <2>6, <2>7, ActorStep
<1>11. CASE UNCHANGED home /\ Goto(s, p, [k EXCEPT !.skipped = @ \cup {f}])
  <2> DEFINE l == [k EXCEPT !.skipped = @ \cup {f}]
  <2>1. /\ l \in Job /\ SameReading(k, l) /\ l.backup = k.backup /\ l.todo = k.todo
        /\ l.applied = k.applied /\ l.rollback = k.rollback
    BY <1>4, <1>5 DEF Job, SameReading
  <2>2. Goto(s, p, l)
    BY <1>11
  <2> HIDE DEF l
  <2>3. SameReading(j, l) /\ l.backup = j.backup /\ l.rollback = "none"
        /\ l.applied = j.applied
    BY <1>5, <2>1 DEF SameReading
  <2>4. l.todo \subseteq Rewrites(l)
    BY <1>2, <1>5, <2>1, <2>3, SameSessions DEF SameReading
  <2>5. UNCHANGED <<home, backups>>
    BY <1>1, <1>11
  <2> QED BY <1>1, <1>6, <2>1, <2>2, <2>3, <2>4, <2>5, QuietStep
<1>12. CASE NotWritten(f) /\ Return(s, k, "skipped")
  <2> DEFINE l == [k EXCEPT !.status = "skipped"]
             q == "release"
  <2>1. /\ l \in Job /\ SameReading(k, l) /\ l.backup = k.backup
        /\ l.applied = k.applied /\ l.rollback = k.rollback
    BY <1>5, WithStatus
  <2>2. q \in Locked /\ q \notin Writing /\ q # "restore" /\ q \notin Before
        /\ q \notin {"backup", "apply"}
    BY Steps
  <2>3. Goto(s, q, l)
    BY <1>12 DEF Return
  <2> HIDE DEF l, q
  <2>4. SameReading(j, l) /\ l.backup = j.backup /\ l.rollback = "none"
        /\ l.applied = j.applied
    BY <1>5, <2>1 DEF SameReading
  <2>5. l.applied \subseteq Rewrites(l)
    BY <1>2, <2>4, SameSessions DEF SameReading
  <2>6. BackupOK(s)'
    BY <1>1, <1>2, <1>8, <2>1, <2>2, <2>3, <2>4, <2>5, BackupKept
  <2>7. home' \in Home /\ \A g \in Files \ {f} : home'.roll[g] = home.roll[g]
    BY <1>4, <1>12, NotWrittenType
  <2>8. RestoreOK(s)'
    BY <1>1, <1>4, <1>8, <2>1, <2>2, <2>3, <2>4, <2>7, RestoreWritten
  <2> QED BY <1>1, <1>9, <2>1, <2>2, <2>3, <2>6, <2>7, <2>8, ActorStep
<1> QED BY <1>3, <1>10, <1>11, <1>12 DEF k, p

LEMMA WithRollback ==
  ASSUME NEW j \in Job, NEW r \in {"done", "failed"}
  PROVE  LET l == [j EXCEPT !.rollback = r]
         IN  /\ l \in Job /\ SameReading(j, l) /\ l.todo = j.todo
             /\ l.backup = j.backup /\ l.applied = j.applied /\ l.rollback = r
BY DEF Job, SameReading

(* The roll-back begins, or there is nothing to put back. *)
LEMMA RollBackStep ==
  ASSUME IInv, NEW s \in Syncs, pc[s] \in {"sqlite", "state", "prune"}, RollBack(s),
         home' \in Home, home'.roll = home.roll, backups' = backups,
         UNCHANGED Shared, faults' \in 0 .. MaxFaults
  PROVE  IInv'
<1> DEFINE j == job[s]
<1>1. /\ pc[s] # "idle" /\ pc[s] \in Writing /\ pc[s] # "restore"
      /\ pc[s] \notin {"restore", "release"} /\ pc[s] \in Writing \ {"restore"}
  BY Steps
<1>2. /\ j \in Job /\ j.backup # 0 /\ j.applied \subseteq Rewrites(j)
      /\ \A g \in Sessions(j) \ foreign : j.read[g] = j.before.roll[g]
      /\ \A g \in Files \ AtRisk(s) : home.roll[g] = j.before.roll[g]
  BY <1>1, ActorFacts
<1>3. AtRisk(s) = foreign \cup j.applied
  BY <1>1 DEF AtRisk, Before, Writing
<1>4. UNCHANGED foreign /\ UNCHANGED <<backups, runs>>
  BY DEF Shared
<1>5. backups' \subseteq Backup /\ \A b \in backups' : b.n <= runs
  BY HomeType
<1>6. ASSUME NEW p \in {"release", "restore"}, NEW l \in Job, Goto(s, p, l),
             SameReading(j, l), l.backup = j.backup, l.applied = j.applied,
             l.rollback = "done",
             p = "release" => j.applied = {}, p = "restore" => l.todo = j.applied
      PROVE  IInv'
  <2>1. p \in Locked /\ p \notin Before /\ p \notin {"backup", "apply"}
    BY Steps
  <2>2. l.applied \subseteq Rewrites(l)
    BY <1>2, <1>6, SameSessions DEF SameReading
  <2>3. BackupOK(s)'
    BY <1>1, <1>2, <1>4, <1>6, <2>1, <2>2, BackupKept
  <2>4. RestoreOK(s)'
    <3>1. pc'[s] = p /\ job'[s] = l
      BY <1>6 DEF Goto, IInv, TypeOK
    <3>2. l.read = j.read /\ l.before = j.before /\ Sessions(job[s])' = Sessions(j)
      BY <1>6, <3>1, SameSessions DEF SameReading, Sessions
    <3>3. AtRisk(s)' = foreign \cup j.applied
      BY <1>4, <1>6, <3>1 DEF AtRisk, Before, Writing
    <3>4. \A g \in Files \ AtRisk(s)' : home'.roll[g] = l.before.roll[g]
      BY <1>2, <1>3, <3>2, <3>3
    <3> QED BY <1>2, <1>4, <1>6, <3>1, <3>2, <3>4 DEF RestoreOK
  <2> QED BY <1>1, <1>5, <1>6, <2>1, <2>3, <2>4, ActorStep
<1> DEFINE k == [j EXCEPT !.rollback = "done"]
<1>7. /\ k \in Job /\ SameReading(j, k) /\ k.backup = j.backup
      /\ k.applied = j.applied /\ k.rollback = "done"
  BY <1>2, WithRollback
<1>8. CASE j.applied = {}
  <2> DEFINE l == [k EXCEPT !.status = "skipped"]
  <2>1. Goto(s, "release", l)
    BY <1>8 DEF RollBack, Return
  <2> HIDE DEF k
  <2>2. /\ l \in Job /\ SameReading(k, l) /\ l.backup = k.backup
        /\ l.applied = k.applied /\ l.rollback = k.rollback
    BY <1>7, WithStatus
  <2> HIDE DEF l
  <2>3. SameReading(j, l)
    BY <1>7, <2>2 DEF SameReading
  <2> QED BY <1>6, <1>7, <1>8, <2>1, <2>2, <2>3
<1>9. CASE j.applied # {}
  <2> DEFINE l == [k EXCEPT !.todo = j.applied]
  <2>1. Goto(s, "restore", l)
    <3>1. l = [j EXCEPT !.rollback = "done", !.todo = j.applied]
      BY <1>2 DEF Job
    <3> QED BY <1>9, <3>1 DEF RollBack
  <2> HIDE DEF k
  <2>2. j.applied \in SUBSET Files
    BY <1>2, JobFields
  <2>3. /\ l \in Job /\ SameReading(k, l) /\ l.todo = j.applied /\ l.backup = k.backup
        /\ l.applied = k.applied /\ l.rollback = k.rollback
    BY <1>7, <2>2, WithTodo
  <2> HIDE DEF l
  <2>4. SameReading(j, l)
    BY <1>7, <2>3 DEF SameReading
  <2> QED BY <1>6, <1>7, <1>9, <2>1, <2>3, <2>4
<1> QED BY <1>8, <1>9

(* After the session files, a step that leaves them alone. *)
LEMMA LaterStep ==
  ASSUME IInv, NEW s \in Syncs, pc[s] \in {"sqlite", "state"},
         NEW p \in {"sqlite", "state", "prune"}, NEW l \in Job, Goto(s, p, l),
         SameReading(job[s], l), l.backup = job[s].backup, l.applied = job[s].applied,
         l.rollback = job[s].rollback,
         home' \in Home, home'.roll = home.roll, backups' = backups,
         UNCHANGED Shared, faults' \in 0 .. MaxFaults
  PROVE  IInv'
<1>1. pc[s] # "idle" /\ pc[s] \in Writing /\ pc[s] \notin {"restore", "release"}
  BY Steps
<1>2. job[s].backup # 0 /\ job[s].applied \subseteq Rewrites(job[s]) /\ job[s].rollback = "none"
  BY <1>1, ActorFacts
<1>3. /\ p \in Locked /\ p \notin Before /\ p \notin {"backup", "apply"} /\ p # "restore"
  BY Steps
<1>4. UNCHANGED foreign /\ UNCHANGED <<backups, runs>>
  BY DEF Shared
<1>5. l.applied \subseteq Rewrites(l)
  BY <1>2, SameSessions DEF SameReading
<1>6. BackupOK(s)'
  BY <1>1, <1>2, <1>3, <1>4, <1>5, BackupKept
<1>7. RestoreOK(s)'
  BY <1>1, <1>2, <1>3, <1>4, RestoreKept
<1>8. backups' \subseteq Backup /\ \A b \in backups' : b.n <= runs
  BY HomeType
<1> QED BY <1>1, <1>3, <1>6, <1>7, <1>8, ActorStep

LEMMA ApplySqliteUpdateStep ==
  ASSUME IInv, NEW s \in Syncs, ApplySqliteUpdate(s)
  PROVE  IInv'
<1> DEFINE j == job[s]
<1>1. /\ pc[s] = "sqlite" /\ backups' = backups /\ UNCHANGED Shared
      /\ faults' \in 0 .. MaxFaults
  <2>1. Fault \/ NoFault
    BY DEF ApplySqliteUpdate
  <2> QED BY <2>1, FaultBound DEF ApplySqliteUpdate, Shared
<1>2. j \in Job
  BY <1>1, ActorType
<1> DEFINE p(d) == IF j.dbs = {d} THEN "state" ELSE "sqlite"
<1>3. PICK d \in j.dbs :
        \/ /\ home' = [home EXCEPT !.db[d] = UpdatedTable(j, @)]
           /\ Goto(s, p(d), [j EXCEPT !.dbs = @ \ {d}])
        \/ RollBack(s) /\ UNCHANGED home
  BY DEF ApplySqliteUpdate
<1>4. d \in Dbs /\ home \in Home
  BY <1>2, JobFields, HomeType
<1>5. CASE /\ home' = [home EXCEPT !.db[d] = UpdatedTable(j, @)]
           /\ Goto(s, p(d), [j EXCEPT !.dbs = @ \ {d}])
  <2>1. home.db[d] \in [Files -> Row \cup {None}]
    BY <1>4 DEF Home
  <2>2. ASSUME NEW f \in Files, home.db[d][f] # None
        PROVE  UpdatedRow(j, f, home.db[d][f]) \in Row
    <3>1. home.db[d][f] \in Row
      BY <2>1, <2>2
    <3> DEFINE seen == home.db[d][f].seen \/ (f \in Sessions(j) /\ j.read[f].events > 0)
               own == home.db[d][f].own \/ (f \in Sessions(j) /\ f \notin j.projectless)
    <3>2. seen \in BOOLEAN /\ own \in BOOLEAN
      OBVIOUS
    <3>3. UpdatedRow(j, f, home.db[d][f]) = [provider |-> j.target, seen |-> seen, own |-> own]
      BY DEF UpdatedRow
    <3>4. j.target \in Providers
      BY <1>2, JobFields
    <3> HIDE DEF seen, own
    <3> QED BY <3>2, <3>3, <3>4 DEF Row
  <2>3. UpdatedTable(j, home.db[d]) \in [Files -> Row \cup {None}]
    BY <2>1, <2>2 DEF UpdatedTable
  <2>4. home' \in Home /\ home'.roll = home.roll
    BY <1>4, <1>5, <2>3 DEF Home
  <2> DEFINE l == [j EXCEPT !.dbs = @ \ {d}]
             q == p(d)
  <2>5. /\ l \in Job /\ SameReading(j, l) /\ l.backup = j.backup
        /\ l.applied = j.applied /\ l.rollback = j.rollback
    BY <1>2 DEF Job, SameReading
  <2>6. q \in {"sqlite", "state", "prune"} /\ Goto(s, q, l)
    BY <1>5
  <2> HIDE DEF l, q, p
  <2> QED BY <1>1, <2>4, <2>5, <2>6, LaterStep
<1>6. CASE RollBack(s) /\ UNCHANGED home
  BY <1>1, <1>4, <1>6, RollBackStep
<1> QED BY <1>3, <1>5, <1>6

LEMMA ApplyGlobalStateUpdateStep ==
  ASSUME IInv, NEW s \in Syncs, ApplyGlobalStateUpdate(s)
  PROVE  IInv'
<1>1. /\ pc[s] = "state" /\ backups' = backups /\ UNCHANGED Shared
      /\ faults' \in 0 .. MaxFaults
  BY FaultBound DEF ApplyGlobalStateUpdate, Shared
<1>2. /\ Normal \in Home /\ Normal.roll = home.roll
      /\ Broken \in Home /\ Broken.roll = home.roll
  BY HomeType DEF Normal, Broken, Home, GlobalState
<1>3. home' \in {home, Normal, Broken}
  BY DEF ApplyGlobalStateUpdate
<1>4. home' \in Home /\ home'.roll = home.roll
  BY <1>2, <1>3, HomeType
<1>5. CASE Goto(s, "prune", job[s])
  <2>1. job[s] \in Job /\ SameReading(job[s], job[s])
    BY <1>1, ActorType DEF SameReading
  <2> DEFINE l == job[s]
             p == "prune"
  <2>2. Goto(s, p, l) /\ p \in {"sqlite", "state", "prune"} /\ l \in Job
        /\ SameReading(job[s], l) /\ l.backup = job[s].backup
        /\ l.applied = job[s].applied /\ l.rollback = job[s].rollback
    BY <1>5, <2>1
  <2> HIDE DEF l, p
  <2> QED BY <1>1, <1>4, <2>2, LaterStep
<1>6. CASE RollBack(s)
  BY <1>1, <1>4, <1>6, RollBackStep
<1> QED BY <1>5, <1>6 DEF ApplyGlobalStateUpdate

(* The backup of the sync that prunes is the newest, so it is kept. *)
LEMMA OwnBackupKept ==
  ASSUME IInv, NEW s \in Syncs, pc[s] = "prune"
  PROVE  /\ Kept \subseteq backups
         /\ \A b \in backups : b.n = job[s].run => b \in Kept
<1>1. /\ job[s] \in Job /\ \A b \in backups : b.n <= job[s].run
  BY ActorFacts
<1>2. ASSUME NEW b \in backups, b.n = job[s].run PROVE b \in Kept
  <2> DEFINE newer == {c \in backups : c.managed /\ c.n > b.n}
  <2>1. \A c \in backups : c.n \in Nat
    BY HomeType, BoundAssumption DEF Backup
  <2>2. newer = {}
    BY <1>1, <1>2, <2>1
  <2>3. Cardinality(newer) < KeepCount
    <3> HIDE DEF newer
    <3>1. Cardinality(newer) = 0
      BY <2>2, FS_EmptySet
    <3>2. 0 < KeepCount
      BY KeepAssumption
    <3> QED BY <3>1, <3>2
  <2> QED BY <2>3 DEF Kept
<1> QED BY <1>2 DEF Kept

LEMMA PruneBackupsStep ==
  ASSUME IInv, NEW s \in Syncs, PruneBackups(s)
  PROVE  IInv'
<1> DEFINE j == job[s]
<1>1. /\ pc[s] = "prune" /\ home' = home /\ UNCHANGED Shared
      /\ faults' \in 0 .. MaxFaults
  BY FaultBound DEF PruneBackups, Shared
<1>2. /\ pc[s] # "idle" /\ pc[s] \in Writing /\ pc[s] \notin {"restore", "release"}
  BY <1>1, Steps
<1>3. /\ j \in Job /\ j.rollback = "none" /\ j.backup # 0 /\ HasBackup(j)
      /\ j.applied \subseteq Rewrites(j)
      /\ \A b \in backups : b.n <= j.run
      /\ \A f \in Sessions(j) : j.read[f].meta = j.before.roll[f].meta
  BY <1>1, <1>2, ActorFacts
<1>4. home' \in Home /\ home'.roll = home.roll
  BY <1>1, HomeType
<1>5. CASE backups' \in {Kept, backups} /\ Return(s, j, "synced")
  <2> DEFINE l == [j EXCEPT !.status = "synced"]
             p == "release"
  <2>1. /\ l \in Job /\ SameReading(j, l) /\ l.backup = j.backup
        /\ l.applied = j.applied /\ l.rollback = "none"
    BY <1>3, WithStatus
  <2>2. /\ p \in Locked /\ p \notin Before /\ p \notin Writing /\ p # "restore"
        /\ p \notin {"backup", "apply"}
    BY Steps
  <2>3. Goto(s, p, l)
    BY <1>5 DEF Return
  <2> HIDE DEF l, p
  <2>4. pc'[s] = p /\ job'[s] = l
    BY <2>3 DEF Goto, IInv, TypeOK
  <2>5. backups' \subseteq backups /\ \A b \in backups : b.n = j.run => b \in backups'
    BY <1>1, <1>5, OwnBackupKept
  <2>6. /\ l.read = j.read /\ l.before = j.before /\ l.run = j.run
        /\ Sessions(l) = Sessions(j) /\ Rewrites(l) = Rewrites(j)
    BY <2>1, SameSessions DEF SameReading
  <2>7. Sessions(job[s])' = Sessions(l) /\ Rewrites(job[s])' = Rewrites(l)
    BY <2>4 DEF Sessions, Rewrites
  <2>8. HasBackup(job[s])'
    BY <1>3, <2>4, <2>5, <2>6, <2>7 DEF HasBackup
  <2>9. l.run <= runs' /\ \A b \in backups' : b.n <= l.run
    <3>1. j.run <= runs
      BY <1>3, JobIsNotNoJob DEF IInv, BackupOK
    <3> QED BY <1>1, <1>3, <2>5, <2>6, <3>1 DEF Shared
  <2>10. BackupOK(s)'
    <3>1. l.backup # 0 /\ l.applied \subseteq Rewrites(l)
          /\ \A f \in Sessions(l) : l.read[f].meta = l.before.roll[f].meta
      BY <1>3, <2>1, <2>6
    <3> QED BY <2>2, <2>4, <2>7, <2>8, <2>9, <3>1 DEF BackupOK
  <2>11. RestoreOK(s)'
    <3>1. UNCHANGED foreign
      BY <1>1 DEF Shared
    <3> QED BY <1>2, <1>4, <2>1, <2>2, <2>3, <3>1, RestoreKept
  <2>12. backups' \subseteq Backup /\ \A b \in backups' : b.n <= runs
    BY <2>5, HomeType
  <2> QED BY <1>1, <1>2, <1>4, <2>1, <2>2, <2>3, <2>10, <2>11, <2>12, ActorStep
<1>6. CASE RollBack(s) /\ backups' = backups
  BY <1>1, <1>4, <1>6, RollBackStep
<1> QED BY <1>5, <1>6 DEF PruneBackups

LEMMA RestoreSessionChangeStep ==
  ASSUME IInv, NEW s \in Syncs, RestoreSessionChange(s)
  PROVE  IInv'
<1> DEFINE j == job[s]
<1>1. /\ pc[s] = "restore" /\ backups' = backups /\ UNCHANGED Shared
      /\ faults' \in 0 .. MaxFaults
  <2>1. Fault \/ NoFault
    BY DEF RestoreSessionChange
  <2> QED BY <2>1, FaultBound DEF RestoreSessionChange, Shared
<1>2. /\ pc[s] # "idle" /\ pc[s] \in Writing
  BY <1>1, Steps
<1>3. /\ j \in Job /\ j.rollback = "done" /\ j.backup # 0
      /\ j.applied \subseteq Rewrites(j) /\ j.todo \subseteq j.applied
      /\ \A g \in Sessions(j) \ foreign : j.read[g] = j.before.roll[g]
      /\ \A g \in Files \ AtRisk(s) : home.roll[g] = j.before.roll[g]
  BY <1>1, <1>2, ActorFacts
<1>4. AtRisk(s) = foreign \cup j.todo
  BY <1>1 DEF AtRisk, Before, Writing
<1> DEFINE rest(f) == [j EXCEPT !.todo = @ \ {f}]
<1>5. PICK f \in j.todo :
        \/ /\ Written(f, j.read[f])
           /\ IF rest(f).todo = {} THEN Return(s, rest(f), "skipped")
              ELSE Goto(s, "restore", rest(f))
        \/ NotWritten(f) /\ Return(s, [rest(f) EXCEPT !.rollback = "failed"], "skipped")
  BY DEF RestoreSessionChange
<1>6. f \in Files /\ f \in Sessions(j) /\ j.read[f] \in Rollout
  BY <1>3, SessionType
<1> DEFINE k == rest(f)
<1>7. /\ k \in Job /\ SameReading(j, k) /\ k.backup = j.backup /\ k.todo = j.todo \ {f}
      /\ k.applied = j.applied /\ k.rollback = "done"
  <2>1. j.todo \ {f} \in SUBSET Files
    BY <1>3, JobFields
  <2> QED BY <1>3, <2>1, WithTodo
<1> HIDE DEF k
<1>8. ASSUME NEW p \in {"release", "restore"}, NEW l \in Job, Goto(s, p, l), SameReading(j, l),
             l.backup = j.backup, l.applied = j.applied, l.rollback \in {"done", "failed"},
             home' \in Home,
             p = "release" => l.rollback = "failed" \/ k.todo = {},
             p = "restore" => l.todo = k.todo /\ l.rollback = "done",
             l.rollback = "done" => Written(f, j.read[f])
      PROVE  IInv'
  <2>1. p \in Locked /\ p \notin Before /\ p \notin {"backup", "apply"}
    BY Steps
  <2>2. l.applied \subseteq Rewrites(l)
    BY <1>3, <1>8, SameSessions DEF SameReading
  <2>3. UNCHANGED <<backups, runs>> /\ UNCHANGED foreign
    BY <1>1 DEF Shared
  <2>4. BackupOK(s)'
    BY <1>2, <1>3, <1>8, <2>1, <2>2, <2>3, BackupKept
  <2>5. RestoreOK(s)'
    <3>1. pc'[s] = p /\ job'[s] = l
      BY <1>8 DEF Goto, IInv, TypeOK
    <3>2. l.read = j.read /\ l.before = j.before /\ Sessions(job[s])' = Sessions(j)
      BY <1>8, <3>1, SameSessions DEF SameReading, Sessions
    <3>3. CASE l.rollback = "failed"
      <4>1. AtRisk(s)' = Files
        BY <1>8, <3>1, <3>3 DEF AtRisk, Before, Writing
      <4>2. p = "release"
        BY <1>8, <3>3
      <4>3. \A g \in Sessions(j) \ foreign : l.read[g] = l.before.roll[g]
        BY <1>3, <3>2
      <4>4. \A g \in Files \ AtRisk(s)' : home'.roll[g] = l.before.roll[g]
        BY <4>1
      <4> QED BY <2>3, <3>1, <3>2, <4>2, <4>3, <4>4 DEF RestoreOK
    <3>4. CASE l.rollback = "done"
      <4>1. AtRisk(s)' = foreign \cup k.todo
        BY <1>8, <2>3, <3>1, <3>4 DEF AtRisk, Before, Writing
      <4>2. home'.roll[f] = j.read[f] /\ \A g \in Files \ {f} : home'.roll[g] = home.roll[g]
        <5>1. Written(f, j.read[f])
          BY <1>8, <3>4
        <5> QED BY <1>6, <5>1, WriteType DEF Written
      <4>3. \A g \in Files \ AtRisk(s)' : home'.roll[g] = l.before.roll[g]
        <5>1. ASSUME f \notin foreign
              PROVE  home'.roll[f] = l.before.roll[f]
          BY <1>3, <1>6, <3>2, <4>2, <5>1
        <5>2. ASSUME NEW g \in Files \ (foreign \cup j.todo), g # f
              PROVE  home'.roll[g] = l.before.roll[g]
          BY <1>3, <1>4, <3>2, <4>2, <5>2
        <5> QED BY <1>7, <4>1, <5>1, <5>2
      <4>4. p = "restore" => l.todo \subseteq l.applied
        BY <1>3, <1>7, <1>8
      <4> QED BY <1>3, <1>8, <2>3, <3>1, <3>2, <3>4, <4>3, <4>4 DEF RestoreOK
    <3> QED BY <1>8, <3>3, <3>4
  <2>6. backups' \subseteq Backup /\ \A b \in backups' : b.n <= runs
    BY <1>1, HomeType
  <2> QED BY <1>1, <1>2, <1>8, <2>1, <2>4, <2>5, <2>6, ActorStep
<1>9. CASE Written(f, j.read[f]) /\ k.todo = {} /\ Return(s, k, "skipped")
  <2> DEFINE l == [k EXCEPT !.status = "skipped"]
  <2>1. /\ l \in Job /\ SameReading(k, l) /\ l.backup = k.backup
        /\ l.applied = k.applied /\ l.rollback = k.rollback
    BY <1>7, WithStatus
  <2>2. Goto(s, "release", l)
    BY <1>9 DEF Return
  <2> HIDE DEF l
  <2>3. SameReading(j, l)
    BY <1>7, <2>1 DEF SameReading
  <2>4. home' \in Home
    BY <1>6, <1>9, WriteType DEF Written
  <2> QED BY <1>7, <1>8, <1>9, <2>1, <2>2, <2>3, <2>4
<1>10. CASE Written(f, j.read[f]) /\ Goto(s, "restore", k)
  <2>1. home' \in Home
    BY <1>6, <1>10, WriteType DEF Written
  <2> QED BY <1>7, <1>8, <1>10, <2>1
<1>11. CASE NotWritten(f) /\ Return(s, [k EXCEPT !.rollback = "failed"], "skipped")
  <2> DEFINE m == [k EXCEPT !.rollback = "failed"]
             l == [m EXCEPT !.status = "skipped"]
  <2>1. /\ m \in Job /\ SameReading(k, m) /\ m.backup = k.backup
        /\ m.applied = k.applied /\ m.rollback = "failed"
    BY <1>7, WithRollback
  <2>2. Goto(s, "release", l)
    BY <1>11 DEF Return
  <2> HIDE DEF m
  <2>3. /\ l \in Job /\ SameReading(m, l) /\ l.backup = m.backup
        /\ l.applied = m.applied /\ l.rollback = m.rollback
    BY <2>1, WithStatus
  <2> HIDE DEF l
  <2>4. SameReading(j, l)
    BY <1>7, <2>1, <2>3 DEF SameReading
  <2>5. home' \in Home
    BY <1>6, <1>11, NotWrittenType
  <2> QED BY <1>7, <1>8, <2>1, <2>2, <2>3, <2>4, <2>5
<1> QED BY <1>5, <1>9, <1>10, <1>11 DEF k

LEMMA CrashStep ==
  ASSUME IInv, NEW s \in Syncs, Crash(s)
  PROVE  IInv'
<1> DEFINE j == job[s]
<1>1. /\ pc[s] # "idle" /\ pc' = [pc EXCEPT ![s] = "idle"] /\ crashes' \in 0 .. MaxCrashes
      /\ UNCHANGED <<lock, job, runs, faults, foreign>>
  BY BoundAssumption DEF Crash, IInv, TypeOK
<1>2. /\ j \in Job /\ lock = s
      /\ \A t \in Syncs \ {s} : job[t] = NoJob /\ pc[t] = "idle"
  BY <1>1, ActorType
<1>3. j # NoJob
  BY <1>2, JobIsNotNoJob
<1>4. /\ j.applied \subseteq Rewrites(j)
      /\ j.backup = 0 => pc[s] \notin Writing
      /\ j.backup = 0 => Untouched(j)
      /\ j.backup # 0 => HasBackup(j)
      /\ pc[s] \in Before => j.backup = 0
      /\ \A b \in backups : b.n <= j.run
      /\ \A f \in Sessions(j) : j.read[f].meta = j.before.roll[f].meta
  BY <1>1, ActorFacts
<1>5. j.run <= runs /\ j.run \in 1 .. MaxRuns
  BY <1>2, <1>3, JobFields DEF IInv, BackupOK
<1>6. /\ home' \in Home
      /\ pc[s] \notin Writing => home' = home
  <2>1. CASE UNCHANGED home
    BY <2>1, HomeType
  <2>2. CASE pc[s] \in {"apply", "restore"} /\ \E f \in j.todo : NotWritten(f)
    <3>1. PICK f \in j.todo : NotWritten(f)
      BY <2>2
    <3>2. f \in Files
      BY <1>2, JobFields
    <3> QED BY <2>2, <3>1, <3>2, NotWrittenType, Steps
  <2>3. CASE pc[s] = "state" /\ home' = Broken
    <3>1. Broken \in Home
      BY HomeType DEF Broken, Home, GlobalState
    <3> QED BY <2>3, <3>1, Steps
  <2> QED BY <2>1, <2>2, <2>3 DEF Crash
<1>7. /\ backups \subseteq backups' /\ backups' \subseteq Backup
      /\ \A b \in backups' : b.n <= runs /\ b.n <= j.run
  <2>1. CASE UNCHANGED backups
    BY <1>4, <2>1, HomeType
  <2>2. CASE pc[s] = "backup" /\ backups' = backups \cup {BackupOf(j, FALSE)}
    <3> DEFINE manifest == [f \in Files |-> IF f \in Rewrites(j) THEN j.read[f].meta ELSE {}]
               b == BackupOf(j, FALSE)
    <3>1. \A f \in Rewrites(j) : j.read[f].meta \in SUBSET Providers
      BY <1>2, SessionType DEF Rollout
    <3>2. manifest \in Manifest
      BY <3>1 DEF Manifest
    <3>3. home.db \in [Dbs -> [Files -> Row \cup {None}]] /\ home.state \in GlobalState
      BY HomeType DEF Home
    <3>4. b = [n |-> j.run, managed |-> FALSE, db |-> home.db, state |-> home.state,
               manifest |-> manifest]
      BY DEF BackupOf
    <3>5. backups' = backups \cup {b}
      BY <2>2
    <3> HIDE DEF manifest, b
    <3>6. b \in Backup /\ b.n = j.run
      BY <1>5, <3>2, <3>3, <3>4 DEF Backup
    <3> QED BY <1>4, <1>5, <3>5, <3>6, HomeType
  <2> QED BY <2>1, <2>2 DEF Crash
<1>8. pc'[s] = "idle" /\ \A t \in Syncs : pc'[t] = "idle"
  BY <1>1, <1>2 DEF IInv, TypeOK
<1>9. TypeOK'
  <2>1. pc' \in [Syncs -> Locked \cup {"idle"}]
    BY <1>1 DEF IInv, TypeOK
  <2> QED BY <1>1, <1>6, <1>7, <2>1 DEF IInv, TypeOK
<1>10. OneSyncAtATime'
  BY <1>1, <1>8, Steps DEF IInv, OneSyncAtATime
<1>11. ASSUME NEW t \in Syncs PROVE RestoreOK(t)'
  BY <1>8, Steps DEF RestoreOK
<1>12. BackupOK(s)'
  <2>1. Sessions(job[s])' = Sessions(j) /\ Rewrites(job[s])' = Rewrites(j)
    BY <1>1 DEF Sessions, Rewrites
  <2>2. j.backup # 0 => HasBackup(job[s])'
    BY <1>1, <1>4, <1>7, <2>1 DEF HasBackup
  <2>3. j.backup = 0 => j.applied = {} /\ home'.db = j.before.db
    BY <1>4, <1>6 DEF Untouched
  <2>4. job'[s] = j /\ runs' = runs
    BY <1>1
  <2>5. "idle" \notin Before /\ "idle" \notin Writing
    BY Steps
  <2> QED BY <1>4, <1>5, <1>7, <1>8, <2>1, <2>2, <2>3, <2>4, <2>5 DEF BackupOK
<1>13. ASSUME NEW t \in Syncs PROVE BackupOK(t)'
  <2>1. CASE t = s
    BY <1>12, <2>1
  <2>2. CASE t # s
    BY <1>1, <1>2, <2>2 DEF BackupOK
  <2> QED BY <2>1, <2>2
<1>14. \A b \in backups' : b.n <= runs'
  BY <1>1, <1>7
<1> QED BY <1>9, <1>10, <1>11, <1>13, <1>14 DEF IInv

LEMMA CodexAppendsStep ==
  ASSUME IInv, NEW f \in Files, CodexAppends(f)
  PROVE  IInv'
<1>1. /\ foreign' = foreign \cup {f} /\ home.roll[f].events < MaxEvents
      /\ home' = [home EXCEPT !.roll[f].events = @ + 1]
      /\ UNCHANGED <<backups, lock, pc, job, runs, faults, crashes>>
  BY DEF CodexAppends
<1>2. /\ home' \in Home /\ home'.db = home.db
      /\ \A g \in Files : home'.roll[g].meta = home.roll[g].meta
      /\ \A g \in Files \ {f} : home'.roll[g] = home.roll[g]
  <2>1. home \in Home /\ home.roll[f] \in Rollout
    BY HomeType DEF Home
  <2> DEFINE r == [home.roll[f] EXCEPT !.events = @ + 1]
             h == [home EXCEPT !.roll[f] = r]
  <2>2. r \in Rollout /\ r.meta = home.roll[f].meta
    BY <1>1, <2>1, BoundAssumption DEF Rollout
  <2>3. home' = h
    BY <1>1
  <2> HIDE DEF r
  <2>4. /\ h \in Home /\ h.roll[f] = r /\ \A g \in Files \ {f} : h.roll[g] = home.roll[g]
    BY <2>2, WriteType
  <2>5. h.db = home.db
    BY <2>1 DEF Home
  <2> HIDE DEF h
  <2> QED BY <2>2, <2>3, <2>4, <2>5
<1>3. TypeOK' /\ OneSyncAtATime' /\ \A b \in backups' : b.n <= runs'
  <2>1. foreign' \subseteq Files
    BY <1>1 DEF IInv, TypeOK
  <2> QED BY <1>1, <1>2, <2>1 DEF IInv, TypeOK, OneSyncAtATime
<1>4. ASSUME NEW t \in Syncs PROVE BackupOK(t)' /\ RestoreOK(t)'
  <2>1. BackupOK(t) /\ RestoreOK(t)
    BY DEF IInv
  <2>2. Sessions(job[t])' = Sessions(job[t]) /\ Rewrites(job[t])' = Rewrites(job[t])
    BY <1>1 DEF Sessions, Rewrites
  <2>3. (Untouched(job[t]) => Untouched(job[t])') /\ (HasBackup(job[t]) => HasBackup(job[t])')
    BY <1>1, <1>2, <2>2 DEF Untouched, HasBackup
  <2>4. BackupOK(t)'
    BY <1>1, <1>2, <2>1, <2>2, <2>3 DEF BackupOK
  <2>5. CASE pc[t] \in Locked
    <3>1. Files \ AtRisk(t)' \subseteq (Files \ AtRisk(t)) \ {f}
      BY <1>1, <2>5 DEF AtRisk, Before, Writing, Locked
    <3>2. \A g \in Files \ AtRisk(t)' : home'.roll[g] = job[t].before.roll[g]
      BY <1>2, <2>1, <2>5, <3>1 DEF RestoreOK
    <3>3. \A g \in Sessions(job[t])' \ foreign' : job[t].read[g] = job[t].before.roll[g]
      BY <1>1, <2>1, <2>2, <2>5 DEF RestoreOK
    <3> QED BY <1>1, <2>1, <2>4, <2>5, <3>2, <3>3 DEF RestoreOK
  <2>6. CASE pc[t] \notin Locked
    BY <1>1, <2>4, <2>6 DEF RestoreOK
  <2> QED BY <2>5, <2>6
<1> QED BY <1>3, <1>4 DEF IInv

-----------------------------------------------------------------------------
(* The theorems *)

LEMMA InitEstablishes ==
  ASSUME Init
  PROVE  IInv
<1>1. TypeOK
  BY HomesAssumption, BoundAssumption DEF Init, TypeOK
<1>2. \A s \in Syncs : pc[s] = "idle" /\ job[s] = NoJob
  BY DEF Init
<1>3. OneSyncAtATime
  BY <1>2, Steps DEF OneSyncAtATime
<1>4. \A s \in Syncs : BackupOK(s) /\ RestoreOK(s)
  BY <1>2, Steps DEF BackupOK, RestoreOK
<1> QED BY <1>1, <1>3, <1>4 DEF IInv, Init

LEMMA StutterKeeps ==
  ASSUME IInv, UNCHANGED vars
  PROVE  IInv'
<1>1. TypeOK' /\ OneSyncAtATime' /\ \A b \in backups' : b.n <= runs'
  BY DEF IInv, vars, TypeOK, OneSyncAtATime
<1>2. ASSUME NEW s \in Syncs PROVE BackupOK(s)' /\ RestoreOK(s)'
  <2>1. BackupOK(s) /\ RestoreOK(s)
    BY DEF IInv
  <2>2. BackupOK(s)'
    BY <2>1 DEF vars, BackupOK, Untouched, HasBackup, Rewrites, Sessions
  <2>3. RestoreOK(s)'
    BY <2>1 DEF vars, RestoreOK, AtRisk, Sessions
  <2> QED BY <2>2, <2>3
<1> QED BY <1>1, <1>2 DEF IInv

LEMMA NextKeeps ==
  ASSUME IInv, [Next]_vars
  PROVE  IInv'
<1>1. CASE UNCHANGED vars
  BY <1>1, StutterKeeps
<1>2. ASSUME NEW s \in Syncs, NEW target \in Providers, RunProviderSync(s, target) PROVE IInv'
  BY <1>2, RunProviderSyncStep
<1>3. ASSUME NEW s \in Syncs, Step(s) PROVE IInv'
  BY <1>3, WriteOwnerStep, CollectSessionChangeStep, PlanUpdatesStep, CreateBackupStep,
     ApplySessionChangeStep, ApplySqliteUpdateStep, ApplyGlobalStateUpdateStep,
     PruneBackupsStep, RestoreSessionChangeStep, ReleaseLockStep DEF Step
<1>4. ASSUME NEW s \in Syncs, Crash(s) PROVE IInv'
  BY <1>4, CrashStep
<1>5. ASSUME NEW f \in Files, CodexAppends(f) PROVE IInv'
  BY <1>5, CodexAppendsStep
<1> QED BY <1>1, <1>2, <1>3, <1>4, <1>5 DEF Next

(* The disk and the locals stay well formed, one process at a time works on  *)
(* the home (acquire_lock), nothing is written before the backup is there,  *)
(* and what is needed for the roll-back is remembered: the inductive         *)
(* invariant.                                                              *)
THEOREM Invariance == Spec => []IInv
<1>1. Init => IInv
  BY InitEstablishes
<1>2. IInv /\ [Next]_vars => IInv'
  BY NextKeeps
<1> QED BY <1>1, <1>2, PTL DEF Spec

(* The shared state and the locals are well formed.                         *)
THEOREM TypeCorrectness == Spec => []TypeOK
<1>1. IInv => TypeOK
  BY DEF IInv
<1> QED BY <1>1, Invariance, PTL

(* Two syncs never work on the home at once, also after a crash.            *)
THEOREM MutualExclusion == Spec => []OneSyncAtATime
<1>1. IInv => OneSyncAtATime
  BY DEF IInv
<1> QED BY <1>1, Invariance, PTL

(* What create_backup saved is enough to undo whatever the sync changed,    *)
(* whether it ended, failed or died, and prune_backups does not remove it.  *)
THEOREM BackedUp == Spec => []ChangesAreBackedUp
<1>1. ASSUME IInv PROVE ChangesAreBackedUp
  <2>1. SUFFICES ASSUME NEW s \in Syncs, job[s] # NoJob,
                        job[s].applied # {} \/ home.db # job[s].before.db
                 PROVE  \E b \in backups :
                          /\ b.managed /\ b.db = job[s].before.db
                          /\ \A f \in job[s].applied :
                               b.manifest[f] = job[s].before.roll[f].meta
    BY DEF ChangesAreBackedUp
  <2>2. BackupOK(s)
    BY <1>1 DEF IInv
  <2>3. HasBackup(job[s]) /\ job[s].applied \subseteq Rewrites(job[s])
    BY <2>1, <2>2 DEF BackupOK
  <2> QED BY <2>3 DEF HasBackup
<1> QED BY <1>1, Invariance, PTL

(* The step that ends a sync leaves the home alone. *)
LEMMA EndLeavesHome ==
  ASSUME IInv, NEW s \in Syncs, pc[s] = "release", pc'[s] = "idle", crashes' = crashes, Next
  PROVE  home' = home
<1>1. pc[s] # "idle"
  OBVIOUS
<1>2. ASSUME NEW t \in Syncs, Step(t) PROVE home' = home
  <2>1. t = s
    BY <1>1, <1>2, ActorType DEF Step, WriteOwner, CollectSessionChange, PlanUpdates,
       CreateBackup, ApplySessionChange, ApplySqliteUpdate, ApplyGlobalStateUpdate,
       PruneBackups, RestoreSessionChange, ReleaseLock
  <2> QED BY <1>2, <2>1 DEF Step, WriteOwner, CollectSessionChange, PlanUpdates,
       CreateBackup, ApplySessionChange, ApplySqliteUpdate, ApplyGlobalStateUpdate,
       PruneBackups, RestoreSessionChange, ReleaseLock
<1>3. ASSUME NEW t \in Syncs, NEW target \in Providers, RunProviderSync(t, target)
      PROVE  home' = home
  BY <1>3 DEF RunProviderSync
<1>4. ASSUME NEW t \in Syncs, Crash(t) PROVE FALSE
  BY <1>4 DEF Crash, IInv, TypeOK
<1>5. ASSUME NEW f \in Files, CodexAppends(f) PROVE FALSE
  BY <1>5 DEF CodexAppends
<1> QED BY <1>2, <1>3, <1>4, <1>5 DEF Next

(* A sync that fails after the session files were rewritten, and could      *)
(* restore them (restore_session_changes), leaves every file that Codex did  *)
(* not write as it was before the sync.                                    *)
THEOREM FailureRestores == Spec => LaterFailureRestores
<1> DEFINE Restored ==
      \A s \in Syncs : EndsWith(s, "skipped") /\ job[s].rollback = "done" =>
        \A f \in Files \ foreign : home'.roll[f] = job[s].before.roll[f]
<1>1. ASSUME IInv, [Next]_vars PROVE [Restored]_vars
  <2>1. SUFFICES ASSUME NEW s \in Syncs, EndsWith(s, "skipped"), job[s].rollback = "done", Next
                 PROVE  \A f \in Files \ foreign : home'.roll[f] = job[s].before.roll[f]
    BY <1>1
  <2>2. pc[s] = "release" /\ pc'[s] = "idle" /\ crashes' = crashes
    BY <2>1 DEF EndsWith
  <2>3. \A f \in Files \ AtRisk(s) : home.roll[f] = job[s].before.roll[f]
    BY <1>1, <2>2, ActorFacts
  <2>4. AtRisk(s) = foreign
    BY <2>1, <2>2 DEF AtRisk, Before, Writing
  <2>5. home' = home
    BY <1>1, <2>1, <2>2, EndLeavesHome
  <2> QED BY <2>3, <2>4, <2>5
<1> QED BY <1>1, Invariance, PTL DEF Spec, LaterFailureRestores

(* A step of a sync without a fault goes on to another step, unless it       *)
(* removes the directory.                                                  *)
LEMMA StepKeepsLock ==
  ASSUME IInv, NEW s \in Syncs, Step(s), faults' = 0
  PROVE  /\ faults = 0 /\ UNCHANGED crashes
         /\ lock' = None \/ (lock' = s /\ pc'[s] # "idle")
<1>1. faults \in Nat /\ pc \in [Syncs -> Locked \cup {"idle"}]
  BY BoundAssumption DEF IInv, TypeOK
<1>2. ~Fault
  BY <1>1 DEF Fault
<1>3. NoFault => faults = 0
  BY DEF NoFault
<1>4. ASSUME pc[s] # "idle" PROVE lock = s
  BY <1>4, ActorType
<1>5. ASSUME NEW p, p # "idle", NEW l, Goto(s, p, l) PROVE pc'[s] # "idle"
  BY <1>1, <1>5 DEF Goto
<1>6. ASSUME NEW l, NEW status, Return(s, l, status) PROVE pc'[s] # "idle"
  BY <1>5, <1>6 DEF Return
<1>7. CASE WriteOwner(s)
  BY <1>2, <1>3, <1>4, <1>5, <1>7 DEF WriteOwner
<1>8. CASE CollectSessionChange(s)
  <2>1. pc'[s] # "idle"
    BY <1>2, <1>5, <1>8 DEF CollectSessionChange
  <2> QED BY <1>2, <1>3, <1>4, <1>8, <2>1 DEF CollectSessionChange
<1>9. CASE PlanUpdates(s)
  <2>1. pc'[s] # "idle"
    BY <1>2, <1>5, <1>6, <1>9 DEF PlanUpdates
  <2> QED BY <1>2, <1>3, <1>4, <1>9, <2>1 DEF PlanUpdates
<1>10. CASE CreateBackup(s)
  <2>1. pc'[s] # "idle"
    BY <1>2, <1>5, <1>10 DEF CreateBackup
  <2> QED BY <1>2, <1>3, <1>4, <1>10, <2>1 DEF CreateBackup
<1>11. CASE ApplySessionChange(s)
  <2>1. pc'[s] # "idle"
    BY <1>2, <1>5, <1>11 DEF ApplySessionChange
  <2> QED BY <1>2, <1>3, <1>4, <1>11, <2>1 DEF ApplySessionChange
<1>12. CASE ApplySqliteUpdate(s)
  <2>1. pc'[s] # "idle"
    BY <1>2, <1>5, <1>12 DEF ApplySqliteUpdate
  <2> QED BY <1>2, <1>3, <1>4, <1>12, <2>1 DEF ApplySqliteUpdate
<1>13. CASE ApplyGlobalStateUpdate(s)
  BY <1>2, <1>3, <1>4, <1>5, <1>13 DEF ApplyGlobalStateUpdate
<1>14. CASE PruneBackups(s)
  BY <1>2, <1>3, <1>4, <1>6, <1>14 DEF PruneBackups
<1>15. CASE RestoreSessionChange(s)
  <2>1. pc'[s] # "idle"
    BY <1>5, <1>6, <1>15 DEF RestoreSessionChange
  <2> QED BY <1>3, <1>4, <1>15, <2>1 DEF RestoreSessionChange
<1>16. CASE ReleaseLock(s)
  BY <1>2, <1>3, <1>16 DEF ReleaseLock
<1> QED BY <1>7, <1>8, <1>9, <1>10, <1>11, <1>12, <1>13, <1>14, <1>15, <1>16 DEF Step

(* Every path of the sync from acquire_lock comes to release_lock: the       *)
(* directory is left only by a process that died or met a failing file.    *)
THEOREM LockReleased == Spec => []LockLeftByFailure
<1>1. Init => LockLeftByFailure
  BY DEF Init, LockLeftByFailure
<1>2. ASSUME IInv, LockLeftByFailure, [Next]_vars PROVE LockLeftByFailure'
  <2>1. SUFFICES ASSUME faults' = 0, crashes' = 0, lock' # None PROVE pc'[lock'] # "idle"
    BY DEF LockLeftByFailure
  <2>2. faults \in Nat /\ crashes \in Nat /\ pc \in [Syncs -> Locked \cup {"idle"}]
    BY <1>2, BoundAssumption DEF IInv, TypeOK
  <2>3. CASE UNCHANGED vars
    BY <1>2, <2>1, <2>3 DEF LockLeftByFailure, vars
  <2>4. ASSUME NEW s \in Syncs, Step(s) PROVE pc'[lock'] # "idle"
    BY <1>2, <2>1, <2>4, StepKeepsLock
  <2>5. ASSUME NEW s \in Syncs, NEW target \in Providers, RunProviderSync(s, target)
        PROVE  pc'[lock'] # "idle"
    <3>1. ~Fault
      BY <2>1, <2>2 DEF Fault
    <3>2. CASE lock = None
      BY <2>1, <2>2, <2>5, <3>1, <3>2 DEF RunProviderSync, Goto
    <3>3. CASE lock # None
      BY <1>2, <2>1, <2>5, <3>1, <3>3 DEF RunProviderSync, NoFault, LockLeftByFailure
    <3> QED BY <3>2, <3>3
  <2>6. ASSUME NEW s \in Syncs, Crash(s) PROVE FALSE
    BY <2>1, <2>2, <2>6 DEF Crash
  <2>7. ASSUME NEW f \in Files, CodexAppends(f) PROVE pc'[lock'] # "idle"
    BY <1>2, <2>1, <2>7 DEF CodexAppends, LockLeftByFailure
  <2> QED BY <1>2, <2>3, <2>4, <2>5, <2>6, <2>7 DEF Next
<1> QED BY <1>1, <1>2, Invariance, PTL DEF Spec

-----------------------------------------------------------------------------
(* A sync that is done *)

AllAligned == \A s \in Syncs : Aligned(pc[s], job[s], home, foreign)

LEMMA NothingPlanned ==
  ASSUME NEW p, NEW l, NEW h, NEW x,
         p \in {"idle", "restore"} \/ (p = "release" /\ l.status = "skipped")
  PROVE  Aligned(p, l, h, x)
BY DEF Aligned, Planned

(* What a database becomes depends on what was read, and an update of one    *)
(* that is up to date changes nothing.                                      *)
LEMMA SameTables ==
  ASSUME NEW j, NEW l, l.read = j.read, l.target = j.target, l.projectless = j.projectless, NEW t
  PROVE  UpdatedTable(l, t) = UpdatedTable(j, t)
BY DEF UpdatedTable, UpdatedRow, Sessions

LEMMA UpdatedTwice ==
  ASSUME NEW j \in Job, NEW t \in [Files -> Row \cup {None}]
  PROVE  UpdatedTable(j, UpdatedTable(j, t)) = UpdatedTable(j, t)
<1> DEFINE u == UpdatedTable(j, t)
<1>1. ASSUME NEW f \in Files, t[f] # None
      PROVE  u[f] # None /\ UpdatedRow(j, f, u[f]) = u[f]
  <2>1. t[f] \in Row /\ u[f] = UpdatedRow(j, f, t[f])
    BY <1>1 DEF UpdatedTable
  <2>2. u[f] \in Row
    BY <2>1, JobFields DEF Row, UpdatedRow
  <2>3. /\ u[f].provider = j.target
        /\ u[f].seen = (t[f].seen \/ (f \in Sessions(j) /\ j.read[f].events > 0))
        /\ u[f].own = (t[f].own \/ (f \in Sessions(j) /\ f \notin j.projectless))
    BY <2>1 DEF UpdatedRow
  <2>4. /\ (u[f].seen \/ (f \in Sessions(j) /\ j.read[f].events > 0)) = u[f].seen
        /\ (u[f].own \/ (f \in Sessions(j) /\ f \notin j.projectless)) = u[f].own
    BY <2>3
  <2>5. UpdatedRow(j, f, u[f])
          = [provider |-> u[f].provider, seen |-> u[f].seen, own |-> u[f].own]
    BY <2>3, <2>4 DEF UpdatedRow
  <2> HIDE DEF u
  <2> QED BY <2>2, <2>5, NoneAssumption DEF Row
<1>2. ASSUME NEW f \in Files, t[f] = None PROVE u[f] = None
  BY <1>2 DEF UpdatedTable
<1>3. UpdatedTable(j, u) = [f \in Files |-> IF u[f] = None THEN None ELSE UpdatedRow(j, f, u[f])]
  BY DEF UpdatedTable
<1>4. u = [f \in Files |-> u[f]]
  BY DEF UpdatedTable
<1> HIDE DEF u
<1>5. \A f \in Files : (IF u[f] = None THEN None ELSE UpdatedRow(j, f, u[f])) = u[f]
  BY <1>1, <1>2
<1>6. UpdatedTable(j, u) = u
  BY <1>3, <1>4, <1>5
<1> QED BY <1>6 DEF u

(* The process that works is the only one that is not idle. *)
LEMMA OnlyActor ==
  ASSUME IInv, NEW s \in Syncs, pc[s] # "idle", NEW p, NEW l, Goto(s, p, l),
         Aligned(p, l, home', foreign')
  PROVE  AllAligned'
<1>1. \A t \in Syncs \ {s} : pc[t] = "idle"
  BY ActorType
<1>2. /\ pc'[s] = p /\ job'[s] = l
      /\ \A t \in Syncs \ {s} : pc'[t] = "idle"
  BY <1>1 DEF Goto, IInv, TypeOK
<1>3. ASSUME NEW t \in Syncs PROVE Aligned(pc'[t], job'[t], home', foreign')
  <2>1. CASE t = s
    BY <1>2, <2>1
  <2>2. CASE t # s
    BY <1>2, <2>2, NothingPlanned
  <2> QED BY <2>1, <2>2
<1> QED BY <1>3 DEF AllAligned

LEMMA SkippedStep ==
  ASSUME IInv, NEW s \in Syncs, pc[s] # "idle", NEW k \in Job, Return(s, k, "skipped")
  PROVE  AllAligned'
<1> DEFINE l == [k EXCEPT !.status = "skipped"]
<1>1. l.status = "skipped"
  BY WithStatus
<1>2. Goto(s, "release", l)
  BY DEF Return
<1> HIDE DEF l
<1>3. Aligned("release", l, home', foreign')
  BY <1>1, NothingPlanned
<1> QED BY <1>2, <1>3, OnlyActor

LEMMA RolledBackStep ==
  ASSUME IInv, NEW s \in Syncs, pc[s] # "idle", RollBack(s)
  PROVE  AllAligned'
<1> DEFINE k == [job[s] EXCEPT !.rollback = "done"]
           l == [job[s] EXCEPT !.rollback = "done", !.todo = job[s].applied]
<1>1. k \in Job
  BY ActorType DEF Job
<1>2. Return(s, k, "skipped") \/ Goto(s, "restore", l)
  BY DEF RollBack
<1>3. CASE Return(s, k, "skipped")
  <2> HIDE DEF k
  <2> QED BY <1>1, <1>3, SkippedStep
<1>4. CASE Goto(s, "restore", l)
  <2> HIDE DEF l
  <2>1. Aligned("restore", l, home', foreign')
    BY NothingPlanned
  <2> QED BY <1>4, <2>1, OnlyActor
<1> QED BY <1>2, <1>3, <1>4

LEMMA WriteOwnerAligned ==
  ASSUME IInv, AllAligned, NEW s \in Syncs, WriteOwner(s)
  PROVE  AllAligned'
<1>1. /\ pc[s] = "owner" /\ pc[s] # "idle" /\ home' = home /\ foreign' = foreign
      /\ Aligned(pc[s], job[s], home, foreign)
  BY DEF WriteOwner, AllAligned
<1>2. CASE Goto(s, "collect", job[s])
  <2>1. Aligned("collect", job[s], home', foreign')
    BY <1>1 DEF Aligned, Planned
  <2> QED BY <1>1, <1>2, <2>1, OnlyActor
<1>3. CASE Goto(s, "idle", NoJob)
  <2>1. Aligned("idle", NoJob, home', foreign')
    BY NothingPlanned
  <2> QED BY <1>1, <1>3, <2>1, OnlyActor
<1> QED BY <1>2, <1>3 DEF WriteOwner

LEMMA ReleaseLockAligned ==
  ASSUME IInv, AllAligned, NEW s \in Syncs, ReleaseLock(s)
  PROVE  AllAligned'
<1>1. pc[s] # "idle" /\ Goto(s, "idle", NoJob)
  BY DEF ReleaseLock
<1>2. Aligned("idle", NoJob, home', foreign')
  BY NothingPlanned
<1> QED BY <1>1, <1>2, OnlyActor

LEMMA CollectSessionChangeAligned ==
  ASSUME IInv, AllAligned, NEW s \in Syncs, CollectSessionChange(s)
  PROVE  AllAligned'
<1> DEFINE j == job[s]
<1>1. /\ pc[s] = "collect" /\ pc[s] # "idle" /\ pc[s] \in Before
      /\ home' = home /\ foreign' = foreign
  BY Steps DEF CollectSessionChange
<1>2. j \in Job /\ \A g \in Files : home.roll[g].meta = j.before.roll[g].meta
  BY <1>1, ActorFacts DEF Untouched
<1>3. PassedOver(j, j.todo \cup j.skipped) /\ j.dbs = Dbs
  BY <1>1 DEF AllAligned, Aligned
<1>4. PICK f \in j.todo :
        LET k == [j EXCEPT !.todo = @ \ {f}]
        IN  \/ Goto(s, "collect",
                 [k EXCEPT !.read[f] = IF home.roll[f].meta = {} THEN None ELSE home.roll[f]])
            \/ Goto(s, "collect", [k EXCEPT !.skipped = @ \cup {f}])
            \/ Return(s, k, "skipped")
  BY DEF CollectSessionChange
<1> DEFINE k == [j EXCEPT !.todo = @ \ {f}]
           r == IF home.roll[f].meta = {} THEN None ELSE home.roll[f]
           l == [k EXCEPT !.read[f] = r]
           m == [k EXCEPT !.skipped = @ \cup {f}]
<1>5. /\ k \in Job /\ k.todo = j.todo \ {f} /\ k.dbs = j.dbs /\ k.skipped = j.skipped
      /\ k.read = j.read /\ k.before = j.before
  BY <1>2 DEF Job
<1>6. f \in Files /\ j.read \in [Files -> Rollout \cup {None}]
  BY <1>2, JobFields
<1>7. Goto(s, "collect", l) \/ Goto(s, "collect", m) \/ Return(s, k, "skipped")
  BY <1>4
<1>8. home.roll[f] \in Rollout
  BY <1>6, HomeType DEF Home
<1>9. CASE Goto(s, "collect", l)
  <2>1. /\ l.todo = k.todo /\ l.dbs = k.dbs /\ l.skipped = k.skipped /\ l.before = k.before
        /\ l.read = [k.read EXCEPT ![f] = r]
    BY <1>5 DEF Job
  <2>2. l.read[f] = r /\ \A g \in Files \ {f} : l.read[g] = j.read[g]
    BY <1>5, <1>6, <2>1
  <2>3. r = None => home.roll[f].meta = {}
    BY <1>8, NoneAssumption
  <2> HIDE DEF l, k, r
  <2>4. PassedOver(l, l.todo \cup l.skipped)
    <3>1. SUFFICES ASSUME NEW g \in Files \ (l.todo \cup l.skipped), l.read[g] = None
                   PROVE  l.before.roll[g].meta = {}
      BY DEF PassedOver
    <3>2. CASE g = f
      BY <1>2, <1>5, <1>6, <2>1, <2>2, <2>3, <3>1, <3>2
    <3>3. CASE g # f
      BY <1>3, <1>5, <2>1, <2>2, <3>1, <3>3 DEF PassedOver
    <3> QED BY <3>2, <3>3
  <2>5. Aligned("collect", l, home', foreign')
    BY <1>3, <1>5, <2>1, <2>4 DEF Aligned, Planned
  <2> QED BY <1>1, <1>9, <2>5, OnlyActor
<1>10. CASE Goto(s, "collect", m)
  <2>1. /\ m.todo = k.todo /\ m.dbs = k.dbs /\ m.skipped = k.skipped \cup {f}
        /\ m.before = k.before /\ m.read = k.read
    BY <1>5 DEF Job
  <2> HIDE DEF m, k
  <2>2. PassedOver(m, m.todo \cup m.skipped)
    BY <1>3, <1>5, <2>1 DEF PassedOver
  <2>3. Aligned("collect", m, home', foreign')
    BY <1>3, <1>5, <2>1, <2>2 DEF Aligned, Planned
  <2> QED BY <1>1, <1>10, <2>3, OnlyActor
<1>11. CASE Return(s, k, "skipped")
  <2> HIDE DEF k
  <2> QED BY <1>1, <1>5, <1>11, SkippedStep
<1> QED BY <1>7, <1>9, <1>10, <1>11

LEMMA PlanUpdatesAligned ==
  ASSUME IInv, AllAligned, NEW s \in Syncs, PlanUpdates(s)
  PROVE  AllAligned'
<1> DEFINE j == Considering(job[s])
           l == [j EXCEPT !.todo = Rewrites(j)]
           m == [j EXCEPT !.status = "synced"]
<1>1. /\ pc[s] = "collect" /\ pc[s] # "idle" /\ pc[s] \in Before /\ job[s].todo = {}
      /\ home' = home /\ foreign' = foreign
  BY Steps DEF PlanUpdates, Considering
<1>2. /\ job[s] \in Job /\ Untouched(job[s])
      /\ \A f \in Files \ foreign : home.roll[f] = job[s].before.roll[f]
  BY <1>1, ActorFacts DEF AtRisk
<1>3. PassedOver(job[s], job[s].skipped) /\ job[s].dbs = Dbs
  BY <1>1 DEF AllAligned, Aligned
<1>4. /\ j \in Job /\ j.read = job[s].read /\ j.before = job[s].before
      /\ j.applied = {} /\ j.skipped = job[s].skipped /\ j.dbs = Dbs
      /\ j.projectless = home.state.projectless
  <2>1. home.state.projectless \in SUBSET Files
    BY HomeType DEF Home, GlobalState
  <2> QED BY <1>2, <1>3, <2>1 DEF Considering, Job, Untouched
<1>5. \/ Return(s, j, "skipped")
      \/ ~home.state.broken /\ UpToDate(j) /\ Return(s, j, "synced")
      \/ ~home.state.broken /\ Goto(s, "backup", l)
  BY DEF PlanUpdates
<1> HIDE DEF j
<1>6. ASSUME NEW i, i.read = j.read, i.before = j.before, i.applied = j.applied,
             i.skipped = j.skipped, i.projectless = j.projectless, ~home.state.broken
      PROVE  OnCourse(i, home', foreign')
  <2>1. \A f \in Files : home.roll[f].meta = i.before.roll[f].meta
    BY <1>2, <1>4, <1>6 DEF Untouched
  <2>2. PassedOver(i, i.skipped)
    BY <1>3, <1>4, <1>6 DEF PassedOver
  <2> QED BY <1>1, <1>2, <1>4, <1>6, <2>1, <2>2 DEF OnCourse
<1>7. CASE Return(s, j, "skipped")
  BY <1>1, <1>4, <1>7, SkippedStep
<1>8. CASE ~home.state.broken /\ UpToDate(j) /\ Return(s, j, "synced")
  <2>1. /\ m.read = j.read /\ m.before = j.before /\ m.applied = j.applied /\ m.target = j.target
        /\ m.skipped = j.skipped /\ m.projectless = j.projectless
    BY <1>4 DEF Job
  <2>2. Goto(s, "release", m)
    BY <1>8 DEF Return
  <2> HIDE DEF m
  <2>3. OnCourse(m, home', foreign') /\ Rewrites(m) = Rewrites(j)
    BY <1>6, <1>8, <2>1, SameSessions
  <2>4. \A d \in Dbs : home.db[d] = UpdatedTable(m, home.db[d])
    BY <1>8, <2>1, SameTables DEF UpToDate
  <2>5. Aligned("release", m, home', foreign')
    BY <1>1, <1>8, <2>3, <2>4 DEF Aligned, UpToDate
  <2> QED BY <1>1, <2>2, <2>5, OnlyActor
<1>9. CASE ~home.state.broken /\ Goto(s, "backup", l)
  <2>0. Rewrites(j) \in SUBSET Files
    BY DEF Rewrites, Sessions
  <2>1. /\ l.read = j.read /\ l.before = j.before /\ l.applied = j.applied /\ l.target = j.target
        /\ l.skipped = j.skipped /\ l.projectless = j.projectless
        /\ l.dbs = j.dbs /\ l.todo = Rewrites(j)
    BY <1>4, <2>0 DEF Job
  <2> HIDE DEF l
  <2>2. OnCourse(l, home', foreign') /\ Rewrites(l) = Rewrites(j)
    BY <1>6, <1>9, <2>1, SameSessions
  <2>3. Aligned("backup", l, home', foreign')
    BY <1>4, <2>1, <2>2 DEF Aligned
  <2> QED BY <1>1, <1>9, <2>3, OnlyActor
<1> QED BY <1>5, <1>7, <1>8, <1>9

(* A step that leaves the sync on course, with the locals it has planned with. *)
SamePlan(j, l) ==
  /\ l.target = j.target /\ l.before = j.before /\ l.read = j.read
  /\ l.projectless = j.projectless /\ l.status = j.status

LEMMA StillOnCourse ==
  ASSUME NEW j, NEW l, NEW h, NEW x, SamePlan(j, l), OnCourse(j, h, x),
         l.applied = j.applied, j.skipped \subseteq l.skipped
  PROVE  OnCourse(l, h, x)
<1>1. l.before = j.before /\ l.read = j.read /\ l.projectless = j.projectless
      /\ l.target = j.target
  BY DEF SamePlan
<1>2. PassedOver(l, l.skipped)
  BY <1>1 DEF OnCourse, PassedOver
<1> QED BY <1>1, <1>2 DEF OnCourse

LEMMA PlanFacts ==
  ASSUME AllAligned, NEW s \in Syncs, Planned(pc[s], job[s])
  PROVE  LET j == job[s]
         IN  /\ OnCourse(j, home, foreign)
             /\ \A f \in Rewrites(j) \ (j.applied \cup j.skipped) :
                  pc[s] \in {"backup", "apply"} /\ f \in j.todo
             /\ \A d \in Dbs : \/ home.db[d] = UpdatedTable(j, home.db[d])
                               \/ (pc[s] \in {"backup", "apply", "sqlite"} /\ d \in j.dbs)
             /\ pc[s] \in {"prune", "release"} => ~home.state.raw
             /\ pc[s] \in {"owner", "collect", "backup", "apply"} => j.dbs = Dbs
<1>1. Aligned(pc[s], job[s], home, foreign)
  BY DEF AllAligned
<1> QED BY <1>1 DEF Aligned

LEMMA CreateBackupAligned ==
  ASSUME IInv, AllAligned, NEW s \in Syncs, CreateBackup(s)
  PROVE  AllAligned'
<1> DEFINE j == job[s]
           l == [j EXCEPT !.backup = j.run]
           p == IF j.todo = {} THEN "sqlite" ELSE "apply"
<1>1. /\ pc[s] = "backup" /\ pc[s] # "idle" /\ Planned(pc[s], j)
      /\ home' = home /\ foreign' = foreign
  BY DEF CreateBackup, Planned
<1>2. j \in Job
  BY <1>1, ActorType
<1>3. Goto(s, p, l) \/ Return(s, j, "skipped")
  BY DEF CreateBackup
<1>4. CASE Goto(s, p, l)
  <2>1. /\ SamePlan(j, l) /\ l.applied = j.applied /\ l.skipped = j.skipped
        /\ l.todo = j.todo /\ l.dbs = j.dbs
    BY <1>2 DEF Job, SamePlan
  <2>2. p \in {"apply", "sqlite"} /\ (p = "sqlite" => j.todo = {})
    OBVIOUS
  <2>3. Goto(s, p, l)
    BY <1>4
  <2> HIDE DEF l, p
  <2>4. OnCourse(l, home', foreign')
    BY <1>1, <2>1, PlanFacts, StillOnCourse
  <2>5. Rewrites(l) = Rewrites(j)
    BY <2>1, SameSessions DEF SamePlan
  <2>6. \A f \in Rewrites(l) \ (l.applied \cup l.skipped) : p \in {"backup", "apply"} /\ f \in l.todo
    BY <1>1, <2>1, <2>2, <2>5, PlanFacts
  <2>7. l.dbs = Dbs
    BY <1>1, <2>1, PlanFacts
  <2>8. Aligned(p, l, home', foreign')
    BY <2>2, <2>4, <2>6, <2>7 DEF Aligned
  <2> QED BY <1>1, <2>3, <2>8, OnlyActor
<1>5. CASE Return(s, j, "skipped")
  BY <1>1, <1>2, <1>5, SkippedStep
<1> QED BY <1>3, <1>4, <1>5

LEMMA ApplySessionChangeAligned ==
  ASSUME IInv, AllAligned, NEW s \in Syncs, ApplySessionChange(s)
  PROVE  AllAligned'
<1> DEFINE j == job[s]
<1>1. /\ pc[s] = "apply" /\ pc[s] # "idle" /\ Planned(pc[s], j) /\ foreign' = foreign
  BY DEF ApplySessionChange, Planned
<1>2. /\ j \in Job /\ j.todo \subseteq Rewrites(j)
      /\ \A g \in Sessions(j) \ foreign : j.read[g] = j.before.roll[g]
  BY <1>1, ActorFacts
<1>3. /\ OnCourse(j, home, foreign) /\ j.dbs = Dbs
      /\ \A g \in Rewrites(j) \ (j.applied \cup j.skipped) : g \in j.todo
  BY <1>1, PlanFacts
<1>4. PICK f \in j.todo :
        LET k == [j EXCEPT !.todo = @ \ {f}]
            step == IF k.todo = {} THEN "sqlite" ELSE "apply"
        IN  \/ /\ Written(f, Rewritten(j, f))
               /\ Goto(s, step, [k EXCEPT !.applied = @ \cup {f}])
            \/ home' = home /\ Goto(s, step, [k EXCEPT !.skipped = @ \cup {f}])
            \/ Return(s, k, "skipped")
  BY DEF ApplySessionChange
<1> DEFINE k == [j EXCEPT !.todo = @ \ {f}]
           p == IF k.todo = {} THEN "sqlite" ELSE "apply"
           l == [k EXCEPT !.applied = @ \cup {f}]
           m == [k EXCEPT !.skipped = @ \cup {f}]
           r == Rewritten(j, f)
<1>5. /\ k \in Job /\ SamePlan(j, k) /\ k.todo = j.todo \ {f} /\ k.dbs = j.dbs
      /\ k.skipped = j.skipped /\ k.applied = j.applied
  BY <1>2 DEF Job, SamePlan
<1>6. f \in Rewrites(j) /\ f \in Sessions(j) /\ f \in Files
  BY <1>2 DEF Rewrites, Sessions
<1>7. p \in {"apply", "sqlite"} /\ (p = "sqlite" => k.todo = {})
  OBVIOUS
<1>8. \/ Written(f, r) /\ Goto(s, p, l)
      \/ home' = home /\ Goto(s, p, m)
      \/ Return(s, k, "skipped")
  BY <1>4
<1>9. r \in Rollout /\ r.meta = {j.target} /\ r.events = j.read[f].events
  <2>1. j.read[f] \in Rollout /\ j.target \in Providers
    BY <1>2, <1>6, JobFields, SessionType
  <2> QED BY <2>1 DEF Rewritten, Rollout
<1> HIDE DEF p, r
<1>10. CASE Written(f, r) /\ Goto(s, p, l)
  <2>1. /\ SamePlan(k, l) /\ l.applied = k.applied \cup {f} /\ l.skipped = k.skipped
        /\ l.todo = k.todo /\ l.dbs = k.dbs
    BY <1>5 DEF Job, SamePlan
  <2> HIDE DEF k, l
  <2>2. /\ home' = [home EXCEPT !.roll[f] = r] /\ home \in Home
        /\ home'.roll[f] = r /\ \A g \in Files \ {f} : home'.roll[g] = home.roll[g]
    BY <1>6, <1>9, <1>10, WriteType, HomeType DEF Written
  <2>3. home'.state = home.state
    BY <2>2 DEF Home
  <2>4. PassedOver(l, l.skipped)
    BY <1>3, <1>5, <2>1 DEF OnCourse, PassedOver, SamePlan
  <2>5. ASSUME NEW g \in Files
        PROVE  home'.roll[g].meta = IF g \in l.applied THEN {l.target} ELSE l.before.roll[g].meta
    <3>1. l.target = j.target /\ l.before = j.before
      BY <1>5, <2>1 DEF SamePlan
    <3>2. CASE g = f
      BY <1>9, <2>1, <2>2, <3>1, <3>2
    <3>3. CASE g # f
      BY <1>3, <1>5, <2>1, <2>2, <3>1, <3>3 DEF OnCourse
    <3> QED BY <3>2, <3>3
  <2>6. ASSUME NEW g \in Files \ foreign PROVE home'.roll[g].events = l.before.roll[g].events
    <3>1. l.before = j.before
      BY <1>5, <2>1 DEF SamePlan
    <3>2. CASE g = f
      BY <1>2, <1>6, <1>9, <2>2, <3>1, <3>2
    <3>3. CASE g # f
      BY <1>3, <2>2, <3>1, <3>3 DEF OnCourse
    <3> QED BY <3>2, <3>3
  <2>7. OnCourse(l, home', foreign')
    BY <1>1, <1>3, <1>5, <2>1, <2>3, <2>4, <2>5, <2>6 DEF OnCourse, SamePlan
  <2>8. Rewrites(l) = Rewrites(j)
    BY <1>5, <2>1, SameSessions DEF SamePlan
  <2>9. \A g \in Rewrites(l) \ (l.applied \cup l.skipped) : p \in {"backup", "apply"} /\ g \in l.todo
    BY <1>3, <1>5, <1>7, <2>1, <2>8
  <2>10. Aligned(p, l, home', foreign')
    BY <1>3, <1>5, <1>7, <2>1, <2>7, <2>9 DEF Aligned
  <2> QED BY <1>1, <1>10, <2>10, OnlyActor
<1>11. CASE home' = home /\ Goto(s, p, m)
  <2>1. /\ SamePlan(k, m) /\ m.applied = k.applied /\ m.skipped = k.skipped \cup {f}
        /\ m.todo = k.todo /\ m.dbs = k.dbs
    BY <1>5 DEF Job, SamePlan
  <2> HIDE DEF k, m
  <2>2. SamePlan(j, m)
    BY <1>5, <2>1 DEF SamePlan
  <2>3. OnCourse(m, home', foreign')
    BY <1>1, <1>3, <1>5, <1>11, <2>1, <2>2, StillOnCourse
  <2>4. Rewrites(m) = Rewrites(j)
    BY <2>2, SameSessions DEF SamePlan
  <2>5. \A g \in Rewrites(m) \ (m.applied \cup m.skipped) : p \in {"backup", "apply"} /\ g \in m.todo
    BY <1>3, <1>5, <1>7, <2>1, <2>4
  <2>6. Aligned(p, m, home', foreign')
    BY <1>3, <1>5, <1>7, <2>1, <2>3, <2>5 DEF Aligned
  <2> QED BY <1>1, <1>11, <2>6, OnlyActor
<1>12. CASE Return(s, k, "skipped")
  <2> HIDE DEF k
  <2> QED BY <1>1, <1>5, <1>12, SkippedStep
<1> QED BY <1>8, <1>10, <1>11, <1>12

LEMMA ApplySqliteUpdateAligned ==
  ASSUME IInv, AllAligned, NEW s \in Syncs, ApplySqliteUpdate(s)
  PROVE  AllAligned'
<1> DEFINE j == job[s]
<1>1. /\ pc[s] = "sqlite" /\ pc[s] # "idle" /\ Planned(pc[s], j) /\ foreign' = foreign
  BY DEF ApplySqliteUpdate, Planned
<1>2. j \in Job
  BY <1>1, ActorType
<1>3. /\ OnCourse(j, home, foreign)
      /\ Rewrites(j) \subseteq j.applied \cup j.skipped
      /\ \A d \in Dbs : home.db[d] = UpdatedTable(j, home.db[d]) \/ d \in j.dbs
  BY <1>1, PlanFacts
<1>4. PICK d \in j.dbs :
        \/ /\ home' = [home EXCEPT !.db[d] = UpdatedTable(j, @)]
           /\ Goto(s, IF j.dbs = {d} THEN "state" ELSE "sqlite", [j EXCEPT !.dbs = @ \ {d}])
        \/ RollBack(s)
  BY DEF ApplySqliteUpdate
<1> DEFINE l == [j EXCEPT !.dbs = @ \ {d}]
           p == IF j.dbs = {d} THEN "state" ELSE "sqlite"
<1>5. CASE home' = [home EXCEPT !.db[d] = UpdatedTable(j, @)] /\ Goto(s, p, l)
  <2>1. /\ SamePlan(j, l) /\ l.applied = j.applied /\ l.skipped = j.skipped
        /\ l.dbs = j.dbs \ {d}
    BY <1>2 DEF Job, SamePlan
  <2>2. p \in {"sqlite", "state"} /\ (p = "state" => j.dbs = {d})
    OBVIOUS
  <2>3. Goto(s, p, l)
    BY <1>5
  <2> HIDE DEF l, p
  <2>4. /\ home \in Home /\ d \in Dbs /\ home.db[d] \in [Files -> Row \cup {None}]
    BY <1>2, JobFields, HomeType DEF Home
  <2>5. /\ home'.roll = home.roll /\ home'.state = home.state
        /\ home'.db[d] = UpdatedTable(j, home.db[d])
        /\ \A e \in Dbs \ {d} : home'.db[e] = home.db[e]
    BY <1>5, <2>4 DEF Home
  <2>6. OnCourse(j, home', foreign')
    BY <1>1, <1>3, <2>5 DEF OnCourse
  <2>7. OnCourse(l, home', foreign')
    BY <2>1, <2>6, StillOnCourse
  <2>8. Rewrites(l) = Rewrites(j) /\ \A t : UpdatedTable(l, t) = UpdatedTable(j, t)
    BY <2>1, SameSessions, SameTables DEF SamePlan
  <2>9. \A e \in Dbs : \/ home'.db[e] = UpdatedTable(l, home'.db[e])
                       \/ (p \in {"backup", "apply", "sqlite"} /\ e \in l.dbs)
    <3>1. SUFFICES ASSUME NEW e \in Dbs
                   PROVE  \/ home'.db[e] = UpdatedTable(j, home'.db[e])
                          \/ (p \in {"backup", "apply", "sqlite"} /\ e \in l.dbs)
      BY <2>8
    <3>2. CASE e = d
      <4>1. UpdatedTable(j, UpdatedTable(j, home.db[d])) = UpdatedTable(j, home.db[d])
        BY <1>2, <2>4, UpdatedTwice
      <4> QED BY <2>5, <3>2, <4>1
    <3>3. CASE e # d
      BY <1>3, <2>1, <2>2, <2>5, <3>1, <3>3
    <3> QED BY <3>2, <3>3
  <2>10. Aligned(p, l, home', foreign')
    BY <1>3, <2>1, <2>2, <2>7, <2>8, <2>9 DEF Aligned
  <2> QED BY <1>1, <2>3, <2>10, OnlyActor
<1>6. CASE RollBack(s)
  BY <1>1, <1>6, RolledBackStep
<1> QED BY <1>4, <1>5, <1>6

LEMMA ApplyGlobalStateUpdateAligned ==
  ASSUME IInv, AllAligned, NEW s \in Syncs, ApplyGlobalStateUpdate(s)
  PROVE  AllAligned'
<1> DEFINE j == job[s]
<1>1. /\ pc[s] = "state" /\ pc[s] # "idle" /\ Planned(pc[s], j) /\ foreign' = foreign
  BY DEF ApplyGlobalStateUpdate, Planned
<1>2. /\ OnCourse(j, home, foreign)
      /\ Rewrites(j) \subseteq j.applied \cup j.skipped
      /\ \A d \in Dbs : home.db[d] = UpdatedTable(j, home.db[d])
  BY <1>1, PlanFacts
<1>3. CASE home' = Normal /\ Goto(s, "prune", j)
  <2>1. /\ home'.roll = home.roll /\ home'.db = home.db /\ ~home'.state.raw
        /\ home'.state.projectless = home.state.projectless
        /\ home'.state.broken = home.state.broken
    BY <1>3, HomeType DEF Normal, Home, GlobalState
  <2>2. OnCourse(j, home', foreign')
    BY <1>1, <1>2, <2>1 DEF OnCourse
  <2>3. Aligned("prune", j, home', foreign')
    BY <1>2, <2>1, <2>2 DEF Aligned
  <2> QED BY <1>1, <1>3, <2>3, OnlyActor
<1>4. CASE RollBack(s)
  BY <1>1, <1>4, RolledBackStep
<1> QED BY <1>3, <1>4 DEF ApplyGlobalStateUpdate

LEMMA PruneBackupsAligned ==
  ASSUME IInv, AllAligned, NEW s \in Syncs, PruneBackups(s)
  PROVE  AllAligned'
<1> DEFINE j == job[s]
           l == [j EXCEPT !.status = "synced"]
<1>1. /\ pc[s] = "prune" /\ pc[s] # "idle" /\ Planned(pc[s], j)
      /\ foreign' = foreign /\ home' = home
  BY DEF PruneBackups, Planned
<1>2. /\ OnCourse(j, home, foreign) /\ ~home.state.raw
      /\ Rewrites(j) \subseteq j.applied \cup j.skipped
      /\ \A d \in Dbs : home.db[d] = UpdatedTable(j, home.db[d])
  BY <1>1, PlanFacts
<1>3. CASE Return(s, j, "synced")
  <2>1. /\ l.target = j.target /\ l.before = j.before /\ l.read = j.read
        /\ l.applied = j.applied /\ l.skipped = j.skipped /\ l.projectless = j.projectless
    BY <1>1, ActorType DEF Job
  <2>2. Goto(s, "release", l)
    BY <1>3 DEF Return
  <2> HIDE DEF l
  <2>3. OnCourse(l, home', foreign')
    BY <1>1, <1>2, <2>1 DEF OnCourse, PassedOver
  <2>4. Rewrites(l) = Rewrites(j) /\ \A t : UpdatedTable(l, t) = UpdatedTable(j, t)
    BY <2>1, SameSessions, SameTables
  <2>5. Aligned("release", l, home', foreign')
    BY <1>1, <1>2, <2>1, <2>3, <2>4 DEF Aligned
  <2> QED BY <1>1, <2>2, <2>5, OnlyActor
<1>4. CASE RollBack(s)
  BY <1>1, <1>4, RolledBackStep
<1> QED BY <1>3, <1>4 DEF PruneBackups

LEMMA RestoreSessionChangeAligned ==
  ASSUME IInv, AllAligned, NEW s \in Syncs, RestoreSessionChange(s)
  PROVE  AllAligned'
<1>1. pc[s] = "restore" /\ pc[s] # "idle" /\ job[s] \in Job
  BY ActorType DEF RestoreSessionChange
<1>2. PICK f \in job[s].todo :
        LET k == [job[s] EXCEPT !.todo = @ \ {f}]
        IN  \/ Return(s, k, "skipped")
            \/ Goto(s, "restore", k)
            \/ Return(s, [k EXCEPT !.rollback = "failed"], "skipped")
  BY DEF RestoreSessionChange
<1> DEFINE k == [job[s] EXCEPT !.todo = @ \ {f}]
           m == [k EXCEPT !.rollback = "failed"]
<1>3. k \in Job /\ m \in Job
  BY <1>1 DEF Job
<1>4. Return(s, k, "skipped") \/ Goto(s, "restore", k) \/ Return(s, m, "skipped")
  BY <1>2
<1> HIDE DEF k, m
<1>5. Aligned("restore", k, home', foreign')
  BY NothingPlanned
<1> QED BY <1>1, <1>3, <1>4, <1>5, SkippedStep, OnlyActor

LEMMA RunProviderSyncAligned ==
  ASSUME IInv, AllAligned, NEW s \in Syncs, NEW target \in Providers, RunProviderSync(s, target)
  PROVE  AllAligned'
<1> DEFINE l == NewJob(target)
<1>1. CASE UNCHANGED <<pc, job, foreign>>
  BY <1>1 DEF AllAligned, RunProviderSync
<1>2. CASE lock = None /\ Goto(s, "owner", l)
  <2>1. \A t \in Syncs : pc[t] = "idle"
    BY <1>2, NoneAssumption DEF IInv, OneSyncAtATime, TypeOK
  <2>2. l.todo = Files /\ l.dbs = Dbs
    BY DEF NewJob
  <2> HIDE DEF l
  <2>3. Aligned("owner", l, home', foreign')
    BY <2>2 DEF Aligned, Planned, PassedOver
  <2>4. /\ pc'[s] = "owner" /\ job'[s] = l
        /\ \A t \in Syncs \ {s} : pc'[t] = "idle"
    BY <1>2, <2>1 DEF Goto, IInv, TypeOK
  <2>5. ASSUME NEW t \in Syncs PROVE Aligned(pc'[t], job'[t], home', foreign')
    <3>1. CASE t = s
      BY <2>3, <2>4, <3>1
    <3>2. CASE t # s
      BY <2>4, <3>2, NothingPlanned
    <3> QED BY <3>1, <3>2
  <2> QED BY <2>5 DEF AllAligned
<1> QED BY <1>1, <1>2 DEF RunProviderSync

LEMMA CrashAligned ==
  ASSUME IInv, AllAligned, NEW s \in Syncs, Crash(s)
  PROVE  AllAligned'
<1>1. pc[s] # "idle" /\ pc' = [pc EXCEPT ![s] = "idle"]
  BY DEF Crash
<1>2. \A t \in Syncs \ {s} : pc[t] = "idle"
  BY <1>1, ActorType
<1>3. \A t \in Syncs : pc'[t] = "idle"
  BY <1>1, <1>2 DEF IInv, TypeOK
<1>4. ASSUME NEW t \in Syncs PROVE Aligned(pc'[t], job'[t], home', foreign')
  BY <1>3, NothingPlanned
<1> QED BY <1>4 DEF AllAligned

(* What Codex appends changes the events of a file that it wrote. *)
LEMMA CodexAppendsAligned ==
  ASSUME IInv, AllAligned, NEW f \in Files, CodexAppends(f)
  PROVE  AllAligned'
<1>1. /\ foreign' = foreign \cup {f} /\ UNCHANGED <<pc, job>>
      /\ home' = [home EXCEPT !.roll[f].events = @ + 1]
  BY DEF CodexAppends
<1>2. /\ home'.db = home.db /\ home'.state = home.state
      /\ \A g \in Files : home'.roll[g].meta = home.roll[g].meta
      /\ \A g \in Files \ {f} : home'.roll[g] = home.roll[g]
  <2>1. home \in Home /\ home.roll \in [Files -> Rollout]
    BY HomeType DEF Home
  <2> DEFINE r == [home.roll[f] EXCEPT !.events = @ + 1]
             q == [home.roll EXCEPT ![f] = r]
  <2>2. r.meta = home.roll[f].meta
    BY <2>1 DEF Rollout
  <2>3. home' = [home EXCEPT !.roll = q]
    BY <1>1
  <2> HIDE DEF r
  <2>4. q[f] = r /\ \A g \in Files \ {f} : q[g] = home.roll[g]
    BY <2>1
  <2> HIDE DEF q
  <2>5. home'.roll = q /\ home'.db = home.db /\ home'.state = home.state
    BY <2>1, <2>3 DEF Home
  <2> QED BY <2>2, <2>4, <2>5
<1>3. ASSUME NEW j, OnCourse(j, home, foreign) PROVE OnCourse(j, home', foreign')
  <2>1. \A g \in Files : home'.roll[g].meta
                           = IF g \in j.applied THEN {j.target} ELSE j.before.roll[g].meta
    BY <1>2, <1>3 DEF OnCourse
  <2>2. \A g \in Files \ foreign' : home'.roll[g].events = j.before.roll[g].events
    BY <1>1, <1>2, <1>3 DEF OnCourse
  <2> QED BY <1>2, <1>3, <2>1, <2>2 DEF OnCourse
<1>4. ASSUME NEW t \in Syncs PROVE Aligned(pc[t], job[t], home', foreign')
  <2>1. Aligned(pc[t], job[t], home, foreign)
    BY DEF AllAligned
  <2> QED BY <1>2, <1>3, <2>1 DEF Aligned
<1> QED BY <1>1, <1>4 DEF AllAligned

LEMMA NextAligned ==
  ASSUME IInv, AllAligned, [Next]_vars
  PROVE  AllAligned'
<1>1. CASE UNCHANGED vars
  BY <1>1 DEF vars, AllAligned
<1>2. ASSUME NEW s \in Syncs, NEW target \in Providers, RunProviderSync(s, target)
      PROVE  AllAligned'
  BY <1>2, RunProviderSyncAligned
<1>3. ASSUME NEW s \in Syncs, Step(s) PROVE AllAligned'
  BY <1>3, WriteOwnerAligned, CollectSessionChangeAligned, PlanUpdatesAligned,
     CreateBackupAligned, ApplySessionChangeAligned, ApplySqliteUpdateAligned,
     ApplyGlobalStateUpdateAligned, PruneBackupsAligned, RestoreSessionChangeAligned,
     ReleaseLockAligned DEF Step
<1>4. ASSUME NEW s \in Syncs, Crash(s) PROVE AllAligned'
  BY <1>4, CrashAligned
<1>5. ASSUME NEW f \in Files, CodexAppends(f) PROVE AllAligned'
  BY <1>5, CodexAppendsAligned
<1> QED BY <1>1, <1>2, <1>3, <1>4, <1>5 DEF Next

(* The sync under way is on course: each session file, database and the      *)
(* global state is as it was, or as this step of it left it.                *)
THEOREM CourseKept == Spec => []SyncInv
<1>1. Init => AllAligned
  <2>1. SUFFICES ASSUME Init, NEW s \in Syncs PROVE Aligned(pc[s], job[s], home, foreign)
    BY DEF AllAligned
  <2>2. pc[s] = "idle"
    BY <2>1 DEF Init
  <2> QED BY <2>2, NothingPlanned
<1>2. IInv /\ AllAligned /\ [Next]_vars => AllAligned'
  BY NextAligned
<1>3. IInv /\ AllAligned => SyncInv
  BY DEF SyncInv, AllAligned
<1> QED BY <1>1, <1>2, <1>3, Invariance, PTL DEF Spec

(* run_provider_sync_with_target that reports that it is done has done it:   *)
(* the session files it could open name the target, every row of every      *)
(* database too, and what it says of the conversation is in the file; the   *)
(* global state is written and in form.                                    *)
THEOREM SyncedIsAligned == Spec => SyncedMeansAligned
<1> DEFINE Reached(s) ==
      LET j == job[s]
          open == {f \in Files \ j.skipped : home'.roll[f].meta # {}}
      IN /\ \A f \in open : home'.roll[f].meta = {j.target}
         /\ \A d \in Dbs, f \in Files :
              LET row == home'.db[d][f]
              IN  row # None =>
                    /\ row.provider = j.target
                    /\ f \in open \ foreign =>
                         /\ home'.roll[f].events > 0 => row.seen
                         /\ row.own \/ f \in home'.state.projectless
         /\ ~home'.state.raw /\ ~home'.state.broken
    AlignedAtEnd == \A s \in Syncs : EndsWith(s, "synced") => Reached(s)
<1>1. ASSUME SyncInv, [Next]_vars PROVE [AlignedAtEnd]_vars
  <2>1. SUFFICES ASSUME NEW s \in Syncs, EndsWith(s, "synced"), Next PROVE Reached(s)
    BY <1>1
  <2> DEFINE j == job[s]
             open == {f \in Files \ j.skipped : home'.roll[f].meta # {}}
  <2>2. /\ pc[s] = "release" /\ pc[s] # "idle" /\ j.status = "synced" /\ IInv
        /\ pc'[s] = "idle" /\ crashes' = crashes
    BY <1>1, <2>1 DEF EndsWith, SyncInv
  <2>3. home' = home
    BY <2>1, <2>2, EndLeavesHome
  <2>4. Planned(pc[s], j) /\ AllAligned
    BY <1>1, <2>2 DEF Planned, SyncInv, AllAligned
  <2>5. /\ OnCourse(j, home, foreign) /\ ~home.state.raw
        /\ Rewrites(j) \subseteq j.applied \cup j.skipped
        /\ \A d \in Dbs : home.db[d] = UpdatedTable(j, home.db[d])
    BY <2>2, <2>4, PlanFacts
  <2>6. /\ j \in Job /\ j.applied \subseteq Rewrites(j)
        /\ \A f \in Sessions(j) : j.read[f].meta = j.before.roll[f].meta
        /\ \A f \in Sessions(j) \ foreign : j.read[f] = j.before.roll[f]
    BY <2>2, ActorFacts
  <2>7. ASSUME NEW f \in open PROVE f \in Sessions(j) /\ home'.roll[f].meta = {j.target}
    <3>1. CASE f \in j.applied
      BY <2>3, <2>5, <2>6, <3>1 DEF OnCourse, Rewrites
    <3>2. CASE f \notin j.applied
      <4>1. home.roll[f].meta = j.before.roll[f].meta /\ j.before.roll[f].meta # {}
        BY <2>3, <2>5, <3>2 DEF OnCourse
      <4>2. f \in Sessions(j)
        BY <2>5, <4>1 DEF OnCourse, PassedOver, Sessions
      <4>3. f \notin Rewrites(j)
        BY <2>5, <3>2
      <4> QED BY <2>3, <2>6, <4>1, <4>2, <4>3 DEF Rewrites
    <3> QED BY <3>1, <3>2
  <2>8. ASSUME NEW d \in Dbs, NEW f \in Files, home'.db[d][f] # None
        PROVE  LET row == home'.db[d][f]
               IN  /\ row.provider = j.target
                   /\ f \in open \ foreign =>
                        /\ home'.roll[f].events > 0 => row.seen
                        /\ row.own \/ f \in home'.state.projectless
    <3> DEFINE row == home.db[d][f]
    <3>1. row = UpdatedRow(j, f, row)
      BY <2>3, <2>5, <2>8 DEF UpdatedTable
    <3>1a. row \in Row
      BY <2>2, <2>3, <2>8, HomeType DEF Home
    <3> HIDE DEF row
    <3>2. /\ row.provider = j.target
          /\ f \in Sessions(j) /\ j.read[f].events > 0 => row.seen
          /\ f \in Sessions(j) /\ f \notin j.projectless => row.own
      <4> DEFINE u == UpdatedRow(j, f, row)
      <4>1. /\ u.provider = j.target
            /\ u.seen = (row.seen \/ (f \in Sessions(j) /\ j.read[f].events > 0))
            /\ u.own = (row.own \/ (f \in Sessions(j) /\ f \notin j.projectless))
        BY DEF UpdatedRow
      <4>2. u = row
        BY <3>1
      <4> HIDE DEF u
      <4> QED BY <3>1a, <4>1, <4>2 DEF Row
    <3>3. ASSUME f \in open \ foreign
          PROVE  /\ home.roll[f].events > 0 => row.seen
                 /\ row.own \/ f \in home.state.projectless
      <4>1. f \in Sessions(j)
        BY <2>7, <3>3
      <4>2. j.read[f].events = home.roll[f].events /\ home.state.projectless = j.projectless
        BY <2>5, <2>6, <3>3, <4>1 DEF OnCourse
      <4> QED BY <3>2, <4>1, <4>2
    <3> QED BY <2>3, <3>2, <3>3 DEF row
  <2>9. ~home'.state.raw /\ ~home'.state.broken
    BY <2>3, <2>5 DEF OnCourse
  <2> QED BY <2>7, <2>8, <2>9
<1> QED BY <1>1, CourseKept, PTL DEF Spec, SyncedMeansAligned

=============================================================================
