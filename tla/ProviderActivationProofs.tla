----------------------- MODULE ProviderActivationProofs -----------------------
(***************************************************************************)
(* Theorems about ProviderActivation, for any number of managers, profiles, *)
(* faults and crashes and for every set of operations: its state is well    *)
(* formed, and an operation that fails leaves no trace; then what a switch   *)
(* keeps of the files it found, whose the profiles and the live files are,  *)
(* and that its operations are those of AtomicActivation.                   *)
(***************************************************************************)
EXTENDS ProviderActivation, TLAPS

USE ModeAssumption, InstalledAssumption, TextAssumption, TagAssumption,
    OpsAssumption, ManagerAssumption, BudgetAssumption

-----------------------------------------------------------------------------
(* What the conversions of RelayProfiles return. *)

LEMMA EmptyConfigType == EmptyConfig \in ConfigText
BY DEF EmptyConfig, ConfigText

LEMMA NewProfileType == ASSUME NEW p \in Profiles PROVE NewProfile(p) \in RelayProfile
BY EmptyConfigType DEF NewProfile, RelayProfile, ConfigText, AuthText, Modes

LEMMA WithoutKeyType == ASSUME NEW auth \in AuthText PROVE WithoutKey(auth) \in AuthText
BY DEF WithoutKey, AuthText

LEMMA BackfilledType ==
  ASSUME NEW prof \in RelayProfile, NEW files \in LiveFiles
  PROVE  Backfilled(prof, files) \in RelayProfile
BY WithoutKeyType DEF Backfilled, RelayProfile, LiveFiles, ConfigText, AuthText, Modes

LEMMA ClearedFilesType ==
  ASSUME NEW prof \in RelayProfile, NEW files \in LiveFiles
  PROVE  ClearedFiles(prof, files) \in Texts
BY DEF ClearedFiles, ClearedAuth, WithoutProvider, RelayProfile, LiveFiles, ConfigText,
       AuthText, Texts

LEMMA EndpointType ==
  ASSUME NEW p \in Profiles, NEW prof \in RelayProfile
  PROVE  /\ Endpoint(p, prof) \in Profiles \cup {None}
         /\ ApiKey(p, prof) \in Profiles \cup {None}
BY DEF Endpoint, ApiKey, RelayProfile, ConfigText

LEMMA AppliedFilesType ==
  ASSUME NEW p \in Profiles, NEW prof \in RelayProfile, NEW files \in LiveFiles
  PROVE  AppliedFiles(p, prof, files) \in LiveFiles
<1> DEFINE auth == IF prof.auth = NoAuth THEN files.auth ELSE prof.auth
<1>1. auth \in AuthText /\ prof.auth \in AuthText /\ prof.cfg.tag \in 0..MaxTag
  BY DEF RelayProfile, LiveFiles, ConfigText
<1>2. WithoutKey(auth) \in AuthText
  BY <1>1, WithoutKeyType
<1> QED
  BY <1>1, <1>2, EndpointType DEF AppliedFiles, LiveFiles, ConfigText

LEMMA SelectedFilesType ==
  ASSUME NEW p \in Profiles, NEW prof \in RelayProfile, NEW files \in LiveFiles
  PROVE  SelectedFiles(p, prof, files) \in Texts
BY ClearedFilesType, AppliedFilesType DEF SelectedFiles, LiveFiles, Texts

LEMMA RevisionType == ASSUME NEW s \in Settings PROVE ProviderRevision(s) \in ProviderDocument
BY DEF ProviderRevision, ProviderDocument, Settings

LEMMA WithoutType ==
  ASSUME NEW doc \in ProviderDocument, NEW p \in Profiles
  PROVE  Without(doc, p) \in ProviderDocument
BY NewProfileType DEF Without, ProviderDocument

LEMMA EditsType ==
  ASSUME NEW doc \in ProviderDocument, NEW edit \in EditsOf(doc)
  PROVE  edit \in ProviderDocument
<1>1. PICK p \in doc.present : /\ doc.profiles[p].cfg.tag < MaxTag
                               /\ edit = [doc EXCEPT !.profiles[p].cfg.tag = @ + 1]
  BY DEF EditsOf
<1>2. p \in Profiles /\ doc.profiles[p] \in RelayProfile
  BY DEF ProviderDocument
<1>3. [doc.profiles[p] EXCEPT !.cfg.tag = @ + 1] \in RelayProfile
  BY <1>1, <1>2 DEF RelayProfile, ConfigText
<1> QED
  BY <1>1, <1>2, <1>3 DEF ProviderDocument

-----------------------------------------------------------------------------
(* The state is well formed. *)

LEMMA InitialType ==
  ASSUME NEW a \in Installed
  PROVE  InitialSettings(a) \in Settings /\ InitialLive(a) \in LiveFiles
<1> DEFINE empty == [config |-> EmptyConfig, auth |-> NoAuth]
           files == SelectedFiles(a, NewProfile(a), empty)
<1>1. a \in Profiles /\ NewProfile(a) \in RelayProfile
  BY NewProfileType
<1>2. empty \in LiveFiles
  BY EmptyConfigType DEF LiveFiles, AuthText
<1>3. files \in Texts /\ files.config # None
  <2>1. files \in Texts
    BY <1>1, <1>2, SelectedFilesType
  <2>2. files.config # None
    <3>1. CASE NewProfile(a).mode = "official"
      <4>1. files.config = WithoutProvider(EmptyConfig)
        BY <3>1 DEF SelectedFiles, ClearedFiles
      <4>2. files.config = EmptyConfig
        BY <4>1 DEF WithoutProvider, EmptyConfig
      <4>3. EmptyConfig # None
        BY EmptyConfigType
      <4> QED BY <4>2, <4>3
    <3>2. CASE NewProfile(a).mode # "official"
      <4>1. files \in LiveFiles
        BY <1>1, <1>2, <3>2, AppliedFilesType DEF SelectedFiles
      <4> QED BY <4>1 DEF LiveFiles
    <3> QED BY <3>1, <3>2
  <2> QED BY <2>1, <2>2
<1>4. InitialLive(a) \in LiveFiles
  BY <1>2, <1>3 DEF InitialLive, Texts, LiveFiles, AuthText
<1>5. InitialSettings(a) \in Settings
  BY <1>1, NewProfileType DEF InitialSettings, Settings
<1> QED BY <1>4, <1>5

LEMMA InitInv == Init => IInv
<1> SUFFICES ASSUME Init PROVE IInv
  OBVIOUS
<1>1. settings \in Settings /\ live \in LiveFiles
  BY InitialType DEF Init
<1>2. TypeOK
  BY <1>1, RevisionType DEF Init, TypeOK, FreeSteps, Outcomes
<1>3. \A m \in Managers : pc[m] = "idle" /\ lock # m
  BY DEF Init
<1> QED
  BY <1>2, <1>3 DEF IInv, LockOK, JobOK, TraceOK, LockedSteps, WriteSteps, RollbackSteps

(* The two shapes of a step of a manager: its operation ends, and it goes   *)
(* on to another step of the lock's holder.  The other managers are at a    *)
(* free step, of which the invariant says nothing about the files.          *)
Calm == UNCHANGED <<guard, crashes, foreign>> /\ faults' \in Nat /\ tainted' \in BOOLEAN

LEMMA OthersFree ==
  ASSUME IInv, NEW m \in Managers, lock \in {m, None}
  PROVE  \A n \in Managers \ {m} : pc[n] \in FreeSteps
<1> SUFFICES ASSUME NEW n \in Managers \ {m} PROVE pc[n] \in FreeSteps
  OBVIOUS
<1>1. lock # n
  OBVIOUS
<1>2. pc[n] \notin LockedSteps /\ pc[n] \in FreeSteps \cup LockedSteps
  BY <1>1 DEF IInv, LockOK, TypeOK
<1> QED BY <1>2

LEMMA DoneInv ==
  ASSUME IInv, NEW m \in Managers, lock \in {m, None}, NEW outcome \in Outcomes,
         Done(m, outcome), Calm, settings' \in Settings, live' \in LiveFiles
  PROVE  IInv'
<1>1. TypeOK'
  BY DEF Done, Calm, IInv, TypeOK, FreeSteps
<1>2. \A n \in Managers : pc'[n] \in FreeSteps
  BY OthersFree DEF Done, IInv, TypeOK, FreeSteps
<1>3. \A n \in Managers : pc'[n] \notin LockedSteps
  BY <1>2 DEF FreeSteps, LockedSteps, WriteSteps, RollbackSteps
<1>4. LockOK'
  BY <1>3 DEF LockOK, Done
<1>5. ASSUME NEW n \in Managers PROVE JobOK(n)' /\ TraceOK(n)'
  <2>1. pc'[n] = "document" => job'[n] \in DocumentJob
    BY DEF Done, IInv, TypeOK, JobOK
  <2> QED
    BY <1>3, <2>1 DEF JobOK, TraceOK, LockedSteps, WriteSteps, RollbackSteps
<1> QED
  BY <1>1, <1>4, <1>5 DEF IInv

LEMMA GotoInv ==
  ASSUME IInv, NEW m \in Managers, lock = m, NEW step \in LockedSteps, Goto(m, step), Calm,
         settings' \in Settings, live' \in LiveFiles,
         NEW j \in Job, job' = [job EXCEPT ![m] = j],
         JobOK(m)', TraceOK(m)'
  PROVE  IInv'
<1>1. TypeOK'
  BY DEF Goto, Calm, IInv, TypeOK
<1>2. LockOK'
  BY DEF Goto, IInv, TypeOK, LockOK
<1>3. ASSUME NEW n \in Managers \ {m} PROVE JobOK(n)' /\ TraceOK(n)'
  <2>1. pc'[n] \in FreeSteps /\ pc'[n] = pc[n] /\ job'[n] = job[n]
    BY OthersFree DEF Goto, IInv, TypeOK
  <2>2. pc'[n] \notin LockedSteps
    BY <2>1 DEF FreeSteps, LockedSteps, WriteSteps, RollbackSteps
  <2>3. pc'[n] = "document" => job'[n] \in DocumentJob
    BY <2>1 DEF IInv, JobOK
  <2> QED
    BY <2>2, <2>3 DEF JobOK, TraceOK, LockedSteps, WriteSteps, RollbackSteps
<1> QED
  BY <1>1, <1>2, <1>3 DEF IInv

(* A step that leaves the locals alone. *)
LEMMA ContinueInv ==
  ASSUME IInv, NEW m \in Managers, lock = m, NEW step \in LockedSteps, Continue(m, step), Calm,
         settings' \in Settings, live' \in LiveFiles, JobOK(m)', TraceOK(m)'
  PROVE  IInv'
<1>1. job[m] \in Job /\ job' = [job EXCEPT ![m] = job[m]]
  BY DEF Continue, IInv, TypeOK, LockOK, JobOK
<1> QED
  BY <1>1, GotoInv DEF Continue

-----------------------------------------------------------------------------
(* Every action preserves the invariant. *)

LEMMA Holder ==
  ASSUME IInv, NEW m \in Managers, pc[m] \in LockedSteps
  PROVE  /\ lock = m /\ job[m] \in Job /\ settings \in Settings /\ live \in LiveFiles
         /\ JobOK(m) /\ TraceOK(m) /\ faults \in Nat /\ tainted \in BOOLEAN
BY DEF IInv, TypeOK, LockOK, JobOK

LEMMA SnapshotInv ==
  ASSUME IInv, NEW m \in Managers, SnapshotAndBackfill(m) PROVE IInv'
<1> DEFINE prev == job[m].start.settings.active
           sel  == job[m].sel
           left == IF prev = job[m].target \/ sel.profiles[prev].mode = "aggregate" THEN sel
                   ELSE [sel EXCEPT !.profiles[prev] = Backfilled(@, live)]
           now  == [settings |-> settings, live |-> live]
           j    == [job[m] EXCEPT !.orig = now, !.sel = left]
<1>1. pc[m] = "snapshot" /\ pc[m] \in LockedSteps
  BY DEF SnapshotAndBackfill, LockedSteps
<1>2. Calm /\ settings' \in Settings /\ live' \in LiveFiles /\ UNCHANGED <<settings, live>>
  BY <1>1, Holder DEF SnapshotAndBackfill, Calm
<1>3. CASE Done(m, "unchanged")
  BY <1>1, <1>2, <1>3, Holder, DoneInv DEF Outcomes
<1>4. CASE Goto(m, "save") /\ job' = [job EXCEPT ![m].orig = now, ![m].sel = left]
  <2>1. left \in Settings
    <3>1. prev \in Profiles /\ sel \in Settings
      BY <1>1, Holder DEF Job, Snapshot, Settings
    <3>2. Backfilled(sel.profiles[prev], live) \in RelayProfile
      BY <1>1, <3>1, Holder, BackfilledType DEF Settings
    <3> QED BY <3>1, <3>2 DEF Settings
  <2>2. j \in Job
    BY <1>1, <2>1, Holder DEF Job, Snapshot
  <2>3. job' = [job EXCEPT ![m] = j] /\ job'[m] = j
    BY <1>4 DEF IInv, TypeOK
  <2>4. pc'[m] = "save"
    BY <1>4 DEF Goto, IInv, TypeOK
  <2>5. j.kind = job[m].kind /\ j.orig = now /\ j.start = job[m].start
    BY <1>1, Holder DEF Job
  <2>6. JobOK(m)' /\ TraceOK(m)'
    <3>1. JobOK(m)'
      BY <1>1, <2>2, <2>3, <2>4, <2>5, Holder
         DEF JobOK, IsSwitch, LockedSteps, WriteSteps, RollbackSteps
    <3>2. ASSUME foreign = {}
          PROVE  settings = j.start.settings /\ live = j.start.live /\ j.orig = j.start
      <4>1. settings = job[m].start.settings /\ live = job[m].start.live
        BY <1>1, <3>2, Holder DEF TraceOK
      <4> QED
        BY <1>1, <2>5, <4>1, Holder DEF Job, Snapshot
    <3>3. TraceOK(m)'
      <4>1. foreign' = foreign /\ settings' = settings /\ live' = live /\ IsSwitch(m)'
        BY <1>2, <2>4, <3>1 DEF Calm, JobOK
      <4> QED
        BY <2>3, <2>4, <3>2, <4>1 DEF TraceOK
    <3> QED BY <3>1, <3>3
  <2>7. "save" \in LockedSteps
    BY DEF LockedSteps
  <2> QED
    BY <1>1, <1>2, <1>4, <2>2, <2>3, <2>6, <2>7, Holder, GotoInv
<1> QED
  BY <1>3, <1>4 DEF SnapshotAndBackfill

LEMMA SaveInv ==
  ASSUME IInv, NEW m \in Managers, SaveSelection(m) PROVE IInv'
<1>1. pc[m] = "save" /\ pc[m] \in LockedSteps /\ "select" \in LockedSteps
  BY DEF SaveSelection, LockedSteps
<1>2. Calm /\ settings' \in Settings /\ live' \in LiveFiles
  BY <1>1, Holder DEF SaveSelection, Calm, NoFault, Fault, Job
<1>3. CASE Done(m, "unchanged")
  BY <1>1, <1>2, <1>3, Holder, DoneInv DEF Outcomes
<1>4. CASE Continue(m, "select")
  <2>1. pc'[m] = "select" /\ job'[m] = job[m]
    BY <1>4 DEF Continue, Goto, IInv, TypeOK
  <2>2. JobOK(m)' /\ TraceOK(m)'
    BY <1>1, <1>2, <2>1, Holder
       DEF JobOK, TraceOK, IsSwitch, Calm, LockedSteps, WriteSteps, RollbackSteps
  <2> QED
    BY <1>1, <1>2, <1>4, <2>2, Holder, ContinueInv
<1> QED
  BY <1>3, <1>4 DEF SaveSelection

LEMMA SelectInv ==
  ASSUME IInv, NEW m \in Managers, SelectFiles(m) PROVE IInv'
<1> DEFINE p     == settings.active
           files == SelectedFiles(p, settings.profiles[p], live)
           j     == [job[m] EXCEPT !.sel = settings, !.new = files]
<1>1. pc[m] = "select" /\ {pc[m], "writeAuth", "rbSettings"} \subseteq LockedSteps
  BY DEF SelectFiles, LockedSteps, WriteSteps, RollbackSteps
<1>2. /\ Calm /\ settings' \in Settings /\ live' \in LiveFiles
      /\ UNCHANGED <<settings, live>>
  BY <1>1, Holder DEF SelectFiles, Calm, NoFault, Fault
<1>3. CASE Continue(m, "rbSettings")
  <2>1. pc'[m] = "rbSettings" /\ job'[m] = job[m]
    BY <1>3 DEF Continue, Goto, IInv, TypeOK
  <2>2. JobOK(m)' /\ TraceOK(m)'
    BY <1>1, <1>2, <2>1, Holder
       DEF JobOK, TraceOK, IsSwitch, Calm, LockedSteps, WriteSteps, RollbackSteps
  <2> QED
    BY <1>1, <1>2, <1>3, <2>2, Holder, ContinueInv
<1>4. CASE Goto(m, "writeAuth") /\ job' = [job EXCEPT ![m].sel = settings, ![m].new = files]
  <2>1. files \in Texts
    BY <1>1, Holder, SelectedFilesType DEF Settings
  <2>2. j \in Job
    BY <1>1, <2>1, Holder DEF Job
  <2>3. job' = [job EXCEPT ![m] = j] /\ job'[m] = j
    BY <1>4 DEF IInv, TypeOK
  <2>4. pc'[m] = "writeAuth"
    BY <1>4 DEF Goto, IInv, TypeOK
  <2>5. /\ j.kind = job[m].kind /\ j.orig = job[m].orig /\ j.start = job[m].start
    BY <1>1, Holder DEF Job
  <2>6. JobOK(m)'
    BY <1>1, <2>2, <2>3, <2>4, <2>5, Holder
       DEF JobOK, IsSwitch, LockedSteps, WriteSteps, RollbackSteps
  <2>7. TraceOK(m)'
    BY <1>1, <1>2, <2>3, <2>4, <2>5, Holder
       DEF TraceOK, JobOK, IsSwitch, Calm, LockedSteps, WriteSteps, RollbackSteps
  <2> QED
    BY <1>1, <1>2, <1>4, <2>2, <2>3, <2>6, <2>7, Holder, GotoInv
<1> QED
  BY <1>3, <1>4 DEF SelectFiles

(* A step that leaves the locals alone, and the settings of an operation    *)
(* that is not a switch, keeps the history conjuncts of a write or of a     *)
(* rollback.                                                                *)
LEMMA OnwardInv ==
  ASSUME IInv, NEW m \in Managers,
         pc[m] \in {"select"} \cup WriteSteps \cup RollbackSteps,
         NEW step \in {"compare"} \cup WriteSteps \cup RollbackSteps,
         step \in RollbackSteps => IsSwitch(m), step = "compare" => ~IsSwitch(m),
         Continue(m, step), Calm, settings' \in Settings, live' \in LiveFiles,
         IsSwitch(m) \/ UNCHANGED settings
  PROVE  IInv'
<1>1. pc[m] \in LockedSteps /\ step \in LockedSteps
  BY DEF LockedSteps
<1>2. pc'[m] = step /\ job'[m] = job[m] /\ (IsSwitch(m)' <=> IsSwitch(m))
  BY DEF Continue, Goto, IInv, TypeOK, IsSwitch
<1>3. JobOK(m)'
  BY <1>1, <1>2, Holder DEF JobOK, LockedSteps, WriteSteps, RollbackSteps
<1>4. TraceOK(m)'
  BY <1>1, <1>2, Holder DEF TraceOK, Calm, LockedSteps, WriteSteps, RollbackSteps
<1> QED
  BY <1>1, <1>3, <1>4, Holder, ContinueInv

LEMMA AfterFailedWriteStep ==
  ASSUME NEW m \in Managers
  PROVE  LET step == AfterFailedWrite(m)
         IN  /\ step \in {"compare"} \cup WriteSteps \cup RollbackSteps
             /\ step \in RollbackSteps => IsSwitch(m)
             /\ step = "compare" => ~IsSwitch(m)
BY DEF AfterFailedWrite, WriteSteps, RollbackSteps

LEMMA WriteAuthInv ==
  ASSUME IInv, NEW m \in Managers, WriteAuth(m) PROVE IInv'
<1> DEFINE j == [job[m] EXCEPT !.old = live]
<1>1. pc[m] = "writeAuth" /\ pc[m] \in LockedSteps /\ "writeConfig" \in LockedSteps
  BY DEF WriteAuth, LockedSteps, WriteSteps
<1>2. Calm /\ settings' \in Settings /\ UNCHANGED settings
  BY <1>1, Holder DEF WriteAuth, Calm, NoFault, Fault
<1>3. live' \in LiveFiles
  BY <1>1, Holder DEF WriteAuth, LiveFiles, Job, Texts
<1>4. CASE Continue(m, AfterFailedWrite(m))
  BY <1>1, <1>2, <1>3, <1>4, AfterFailedWriteStep, OnwardInv DEF WriteSteps
<1>5. CASE job' = [job EXCEPT ![m].old = live] /\ Goto(m, "writeConfig")
  <2>1. j \in Job /\ j.kind = job[m].kind /\ j.orig = job[m].orig /\ j.start = job[m].start
    BY <1>1, Holder DEF Job
  <2>2. job' = [job EXCEPT ![m] = j] /\ job'[m] = j
    BY <1>5 DEF IInv, TypeOK
  <2>3. pc'[m] = "writeConfig"
    BY <1>5 DEF Goto, IInv, TypeOK
  <2>4. JobOK(m)' /\ (IsSwitch(m)' <=> IsSwitch(m))
    BY <2>1, <2>2, <2>3 DEF JobOK, IsSwitch, RollbackSteps
  <2>5. TraceOK(m)'
    BY <1>1, <1>2, <2>1, <2>2, <2>3, <2>4, Holder
       DEF TraceOK, Calm, LockedSteps, WriteSteps, RollbackSteps
  <2> QED
    BY <1>1, <1>2, <1>3, <1>5, <2>1, <2>2, <2>4, <2>5, Holder, GotoInv
<1> QED
  BY <1>4, <1>5 DEF WriteAuth

LEMMA WriteConfigInv ==
  ASSUME IInv, NEW m \in Managers, WriteConfig(m) PROVE IInv'
<1>1. pc[m] = "writeConfig" /\ pc[m] \in LockedSteps
  BY DEF WriteConfig, LockedSteps, WriteSteps
<1>2. Calm /\ settings' \in Settings /\ UNCHANGED settings
  BY <1>1, Holder DEF WriteConfig, Calm, NoFault, Fault
<1>3. live' \in LiveFiles
  BY <1>1, Holder DEF WriteConfig, LiveFiles, Job, Texts
<1> QED
  BY <1>1, <1>2, <1>3, OnwardInv DEF WriteConfig, WriteSteps, RollbackSteps

LEMMA UndoInv ==
  ASSUME IInv, NEW m \in Managers, UndoWrite(m) PROVE IInv'
<1>1. pc[m] = "undo" /\ pc[m] \in LockedSteps
  BY DEF UndoWrite, LockedSteps, WriteSteps
<1>2. Calm /\ settings' \in Settings /\ UNCHANGED settings
  BY <1>1, Holder DEF UndoWrite, Calm, NoFault, Fault
<1>3. live' \in LiveFiles
  BY <1>1, Holder DEF UndoWrite, LiveFiles, Job, Texts
<1>4. Continue(m, AfterFailedWrite(m))
  BY DEF UndoWrite
<1> QED
  BY <1>1, <1>2, <1>3, <1>4, AfterFailedWriteStep, OnwardInv DEF WriteSteps

LEMMA CheckInv ==
  ASSUME IInv, NEW m \in Managers, CheckWritten(m) PROVE IInv'
<1>1. pc[m] = "check" /\ pc[m] \in LockedSteps
  BY DEF CheckWritten, LockedSteps, WriteSteps
<1>2. Calm /\ settings' \in Settings /\ live' \in LiveFiles /\ UNCHANGED settings
  BY <1>1, Holder DEF CheckWritten, Calm, NoFault, Fault
<1>3. CASE IsSwitch(m) /\ Continue(m, "rbSettings")
  BY <1>1, <1>2, <1>3, OnwardInv DEF WriteSteps, RollbackSteps
<1>4. CASE Done(m, "ok") \/ Done(m, "unread")
  BY <1>1, <1>2, <1>4, Holder, DoneInv DEF Outcomes
<1> QED
  BY <1>3, <1>4 DEF CheckWritten

(* A rollback goes on, whether or not the restore it tried succeeded. *)
LEMMA RollbackInv ==
  ASSUME IInv, NEW m \in Managers, pc[m] \in RollbackSteps, NEW step \in RollbackSteps,
         Goto(m, step), job' = job \/ job' = Unrestored(m), Calm,
         settings' \in Settings, live' \in LiveFiles
  PROVE  IInv'
<1> DEFINE j == [job[m] EXCEPT !.restored = FALSE]
<1>1. pc[m] \in LockedSteps /\ step \in LockedSteps /\ IsSwitch(m)
  BY DEF LockedSteps, RollbackSteps, IInv, JobOK
<1>2. CASE job' = job
  <2>1. Continue(m, step) /\ step # "compare"
    BY <1>2 DEF Continue, RollbackSteps
  <2> QED
    BY <1>1, <2>1, OnwardInv
<1>3. CASE job' = Unrestored(m)
  <2>1. j \in Job /\ j.kind = job[m].kind /\ j.orig = job[m].orig /\ j.start = job[m].start
    BY <1>1, Holder DEF Job
  <2>2. job' = [job EXCEPT ![m] = j] /\ job'[m] = j
    BY <1>3 DEF Unrestored, IInv, TypeOK
  <2>3. pc'[m] = step
    BY DEF Goto, IInv, TypeOK
  <2>4. JobOK(m)' /\ IsSwitch(m)'
    BY <1>1, <2>1, <2>2, <2>3, Holder DEF JobOK, IsSwitch, RollbackSteps
  <2>5. TraceOK(m)'
    BY <1>1, <2>1, <2>2, <2>3, <2>4, Holder
       DEF TraceOK, Calm, LockedSteps, WriteSteps, RollbackSteps
  <2> QED
    BY <1>1, <2>1, <2>2, <2>4, <2>5, Holder, GotoInv
<1> QED
  BY <1>2, <1>3

LEMMA RestoreInv ==
  ASSUME IInv, NEW m \in Managers,
         RestoreSettings(m) \/ RestoreAuth(m) \/ RestoreConfig(m)
  PROVE  IInv'
<1>1. pc[m] \in RollbackSteps /\ pc[m] \in LockedSteps
  BY DEF RestoreSettings, RestoreAuth, RestoreConfig, RollbackSteps, LockedSteps
<1>2. job[m].orig.settings \in Settings /\ job[m].orig.live \in LiveFiles
  BY <1>1, Holder DEF Job, Snapshot
<1>3. CASE RestoreSettings(m)
  BY <1>1, <1>2, <1>3, Holder, RollbackInv
     DEF RestoreSettings, Calm, NoFault, Fault, RollbackSteps
<1>4. CASE RestoreAuth(m)
  <2>1. live' \in LiveFiles
    BY <1>1, <1>2, <1>4, Holder DEF RestoreAuth, LiveFiles
  <2> QED
    BY <1>1, <1>2, <1>4, <2>1, Holder, RollbackInv
       DEF RestoreAuth, Calm, NoFault, Fault, RollbackSteps
<1>5. CASE RestoreConfig(m)
  <2>1. live' \in LiveFiles
    BY <1>1, <1>2, <1>5, Holder DEF RestoreConfig, LiveFiles
  <2> QED
    BY <1>1, <1>2, <1>5, <2>1, Holder, RollbackInv
       DEF RestoreConfig, Calm, NoFault, Fault, RollbackSteps
<1> QED
  BY <1>3, <1>4, <1>5

LEMMA EndInv ==
  ASSUME IInv, NEW m \in Managers, VerifyRollback(m) \/ CompareLive(m) PROVE IInv'
<1>1. pc[m] \in LockedSteps
  BY DEF VerifyRollback, CompareLive, LockedSteps, RollbackSteps
<1>2. Calm /\ settings' \in Settings /\ live' \in LiveFiles
  BY <1>1, Holder DEF VerifyRollback, CompareLive, Calm
<1>3. Done(m, "verified") \/ Done(m, "failed")
  BY DEF VerifyRollback, CompareLive
<1> QED
  BY <1>1, <1>2, <1>3, Holder, DoneInv DEF Outcomes

LEMMA StoreInv ==
  ASSUME IInv, NEW m \in Managers, StoreBackfill(m) \/ SaveProviderSyncTarget(m) PROVE IInv'
<1>1. pc[m] \in LockedSteps
  BY DEF StoreBackfill, SaveProviderSyncTarget, LockedSteps
<1>2. job[m].sel \in Settings
  BY <1>1, Holder DEF Job
<1>3. Calm /\ settings' \in Settings /\ live' \in LiveFiles
  BY <1>1, <1>2, Holder
     DEF StoreBackfill, SaveProviderSyncTarget, Calm, NoFault, Fault, Settings
<1>4. \E outcome \in Outcomes : Done(m, outcome)
  BY DEF StoreBackfill, SaveProviderSyncTarget, Outcomes
<1> QED
  BY <1>1, <1>3, <1>4, Holder, DoneInv

LEMMA StoreDocumentInv ==
  ASSUME IInv, NEW m \in Managers, StoreDocument(m) PROVE IInv'
<1> DEFINE d == job[m]
<1>1. /\ d.doc \in ProviderDocument /\ d.active \in Profiles \cup {None}
      /\ lock = None /\ settings \in Settings
  BY DEF StoreDocument, IInv, TypeOK, JobOK, DocumentJob
<1>2. Calm /\ live' \in LiveFiles
  <2>1. tainted' \in BOOLEAN
    <3>1. tainted \in BOOLEAN
      BY DEF IInv, TypeOK
    <3>2. tainted' = tainted \/ tainted' = (tainted \/ d.kind = "import")
      BY Zenon DEF StoreDocument
    <3> QED BY <3>1, <3>2
  <2>2. faults' \in Nat /\ UNCHANGED <<live, guard, crashes, foreign>>
    BY DEF StoreDocument, NoFault, Fault, IInv, TypeOK
  <2> QED
    BY <2>1, <2>2 DEF Calm, IInv, TypeOK
<1>3. d.doc.present \in SUBSET Profiles /\ d.doc.profiles \in [Profiles -> RelayProfile]
  BY <1>1 DEF ProviderDocument
<1>4. (IF d.active = None THEN settings.active ELSE d.active) \in Profiles
  BY <1>1 DEF Settings
<1>5. settings' \in Settings
  BY <1>1, <1>3, <1>4 DEF StoreDocument, Settings
<1>6. \E outcome \in Outcomes : Done(m, outcome)
  BY DEF StoreDocument, Outcomes
<1> QED
  BY <1>1, <1>2, <1>5, <1>6, DoneInv

LEMMA StepInv == ASSUME IInv, NEW m \in Managers, Step(m) PROVE IInv'
BY SnapshotInv, SaveInv, SelectInv, WriteAuthInv, WriteConfigInv, UndoInv, CheckInv,
   RestoreInv, EndInv, StoreInv, StoreDocumentInv DEF Step

LEMMA BeginInv ==
  ASSUME IInv, NEW m \in Managers, NEW kind \in AllOps, NEW target \in Profiles,
         NEW sel \in Settings, NEW new \in Texts,
         NEW step \in {"snapshot", "writeAuth", "storeBackfill", "saveTarget"},
         step = "snapshot" => kind \in {"switch", "apply"},
         step # "snapshot" => kind \notin {"switch", "apply"},
         Begin(m, kind, target, sel, new, step)
  PROVE  IInv'
<1> DEFINE now == [settings |-> settings, live |-> live]
           j   == [kind |-> kind, target |-> target, sel |-> sel, new |-> new, old |-> live,
                   orig |-> now, start |-> now, restored |-> TRUE]
<1>1. settings \in Settings /\ live \in LiveFiles /\ lock = None /\ pc[m] = "idle"
  BY DEF Begin, IInv, TypeOK
<1>2. j \in Job /\ j.kind = kind /\ j.orig = now /\ j.start = now
  BY <1>1 DEF Job, Snapshot
<1>3. /\ job' = [job EXCEPT ![m] = j] /\ job'[m] = j
  BY DEF Begin, IInv, TypeOK
<1>4. pc' = [pc EXCEPT ![m] = step] /\ pc'[m] = step /\ lock' = m
  BY DEF Begin, IInv, TypeOK
<1>5. step \in LockedSteps /\ step \notin RollbackSteps
  BY DEF LockedSteps, WriteSteps, RollbackSteps
<1>6. TypeOK'
  BY <1>2, <1>3, <1>4, <1>5 DEF Begin, IInv, TypeOK
<1>7. LockOK'
  BY <1>1, <1>4, <1>5, OthersFree
     DEF LockOK, IInv, TypeOK, FreeSteps, LockedSteps, WriteSteps, RollbackSteps
<1>8. JobOK(m)' /\ (IsSwitch(m)' <=> step = "snapshot")
  BY <1>2, <1>3, <1>4, <1>5 DEF JobOK, IsSwitch
<1>9. TraceOK(m)'
  BY <1>2, <1>3, <1>4, <1>8 DEF TraceOK, Begin
<1>10. ASSUME NEW n \in Managers \ {m} PROVE JobOK(n)' /\ TraceOK(n)'
  <2>1. pc'[n] \in FreeSteps /\ pc'[n] = pc[n] /\ job'[n] = job[n]
    BY <1>1, <1>3, <1>4, OthersFree DEF IInv, TypeOK
  <2>2. pc'[n] = "document" => job'[n] \in DocumentJob
    BY <2>1 DEF IInv, JobOK
  <2> QED
    BY <2>1, <2>2 DEF JobOK, TraceOK, FreeSteps, LockedSteps, WriteSteps, RollbackSteps
<1> QED
  BY <1>6, <1>7, <1>8, <1>9, <1>10 DEF IInv

LEMMA AdmissionInv ==
  ASSUME IInv, NEW m \in Managers,
         \/ \E p \in Profiles : SwitchProvider(m, p)
         \/ ApplyActiveProvider(m) \/ ClearLiveProvider(m) \/ SaveLiveFile(m)
         \/ BackfillActiveProvider(m) \/ LoadForTarget(m)
  PROVE  IInv'
<1>1. /\ settings \in Settings /\ live \in LiveFiles /\ settings.active \in Profiles
      /\ settings.profiles[settings.active] \in RelayProfile /\ live \in Texts
  BY DEF IInv, TypeOK, Settings, LiveFiles, Texts
<1>2. CASE \E p \in Profiles : SwitchProvider(m, p)
  <2>1. PICK p \in Profiles : SwitchProvider(m, p)
    BY <1>2
  <2>2. Selecting(p) \in Settings
    BY <1>1 DEF Selecting, Settings
  <2>3. Begin(m, "switch", p, Selecting(p), live, "snapshot")
    BY <2>1 DEF SwitchProvider, Admit
  <2> QED
    BY <1>1, <2>2, <2>3, BeginInv DEF AllOps
<1>3. CASE ApplyActiveProvider(m)
  BY <1>1, <1>3, BeginInv DEF ApplyActiveProvider, Admit, AllOps
<1>4. CASE ClearLiveProvider(m)
  BY <1>1, <1>4, ClearedFilesType, BeginInv DEF ClearLiveProvider, Admit, AllOps
<1>5. CASE SaveLiveFile(m)
  <2>1. /\ live.config.tag < MaxTag =>
             [config |-> [live.config EXCEPT !.tag = @ + 1], auth |-> None] \in Texts
        /\ [config |-> None, auth |-> Login] \in Texts
    BY <1>1 DEF LiveFiles, Texts, ConfigText, AuthText
  <2> QED
    BY <1>1, <1>5, <2>1, BeginInv DEF SaveLiveFile, Admit, AllOps
<1>6. CASE BackfillActiveProvider(m)
  <2>1. Backfilled(settings.profiles[settings.active], live) \in RelayProfile
    BY <1>1, BackfilledType
  <2>2. [settings EXCEPT !.profiles[settings.active] = Backfilled(@, live)] \in Settings
    BY <1>1, <2>1 DEF Settings
  <2> QED
    BY <1>1, <1>6, <2>2, BeginInv DEF BackfillActiveProvider, Admit, AllOps
<1>7. CASE LoadForTarget(m)
  BY <1>1, <1>7, BeginInv DEF LoadForTarget, AllOps
<1> QED
  BY <1>2, <1>3, <1>4, <1>5, <1>6, <1>7

(* A thread that reads a document stays at a free step. *)
LEMMA DocumentInv ==
  ASSUME IInv, NEW m \in Managers, NEW d \in DocumentJob, job' = [job EXCEPT ![m] = d],
         pc' = [pc EXCEPT ![m] = "document"], pc[m] = "idle",
         UNCHANGED <<settings, live, lock, guard, last, faults, crashes, foreign, tainted>>
  PROVE  IInv'
<1>1. TypeOK'
  BY DEF IInv, TypeOK, FreeSteps
<1>2. \A n \in Managers \ {m} : pc'[n] = pc[n] /\ job'[n] = job[n]
  BY DEF IInv, TypeOK
<1>3. pc'[m] = "document" /\ job'[m] \in DocumentJob
  BY DEF IInv, TypeOK
<1>4. {"idle", "document"} \cap LockedSteps = {} /\ RollbackSteps \subseteq LockedSteps
      /\ WriteSteps \subseteq LockedSteps
  BY DEF LockedSteps, WriteSteps, RollbackSteps
<1>5. LockOK'
  BY <1>2, <1>3, <1>4 DEF IInv, LockOK
<1>6. ASSUME NEW n \in Managers PROVE JobOK(n)' /\ TraceOK(n)'
  <2>1. CASE n = m
    BY <1>3, <1>4, <2>1 DEF JobOK, TraceOK, LockedSteps
  <2>2. CASE n # m
    BY <1>2, <2>2 DEF IInv, JobOK, TraceOK, IsSwitch
  <2> QED BY <2>1, <2>2
<1> QED
  BY <1>1, <1>5, <1>6 DEF IInv

LEMMA RequestInv ==
  ASSUME IInv, NEW m \in Managers, Request(m) PROVE IInv'
<1> USE DEF IInv, LockOK, JobOK, TraceOK, IsSwitch
<1>1. CASE LoadLiveWorkspace(m)
  <2>1. ProviderRevision(settings) \in ProviderDocument
    BY RevisionType DEF TypeOK
  <2>2. TypeOK'
    BY <1>1, <2>1 DEF LoadLiveWorkspace, TypeOK
  <2> QED
    BY <1>1, <2>2 DEF LoadLiveWorkspace
<1>2. CASE \/ \E p \in Profiles : Reject(m, "switch", p)
           \/ \E kind \in {"apply", "clear", "saveLive", "backfill"} :
                Reject(m, kind, settings.active)
  <2>1. PICK kind, target : Reject(m, kind, target)
    BY <1>2
  <2>2. TypeOK'
    BY <2>1 DEF Reject, TypeOK, Outcomes
  <2> QED
    BY <2>1, <2>2 DEF Reject
<1>3. CASE ValidateWorkspace(m)
  <2> DEFINE view == guard[m].provider
             docs == EditsOf(view) \cup {Without(view, p) : p \in view.present}
  <2>1. view \in ProviderDocument
    BY DEF TypeOK
  <2>2. PICK doc \in docs :
          job' = [job EXCEPT ![m] = [kind |-> "saveWorkspace", doc |-> doc, active |-> None]]
    BY <1>3 DEF ValidateWorkspace
  <2>3. doc \in ProviderDocument
    <3>1. CASE doc \in EditsOf(view)
      BY <2>1, <3>1, EditsType
    <3>2. CASE \E p \in view.present : doc = Without(view, p)
      BY <2>1, <3>2, WithoutType DEF ProviderDocument
    <3> QED BY <3>1, <3>2
  <2>4. [kind |-> "saveWorkspace", doc |-> doc, active |-> None] \in DocumentJob
    BY <2>3 DEF DocumentJob
  <2> QED
    BY <1>3, <2>2, <2>4, DocumentInv DEF ValidateWorkspace
<1>4. CASE \E p \in Profiles, kind \in {"import", "importCcs"} : ReadForImport(m, kind, p)
  <2>1. PICK p \in Profiles, kind \in {"import", "importCcs"} : ReadForImport(m, kind, p)
    BY <1>4
  <2> DEFINE doc == [guard[m].provider EXCEPT !.present = @ \cup {p},
                                              !.profiles[p] = NewProfile(p)]
             d   == [kind |-> kind, active |-> IF kind = "import" THEN p ELSE settings.active,
                     doc |-> doc]
  <2>2. doc \in ProviderDocument
    <3>1. guard[m].provider \in ProviderDocument
      BY DEF TypeOK
    <3> QED
      BY <3>1, NewProfileType DEF ProviderDocument
  <2>3. d \in DocumentJob
    <3>1. (IF kind = "import" THEN p ELSE settings.active) \in Profiles
      BY DEF TypeOK, Settings
    <3>2. kind \in {"saveWorkspace", "import", "importCcs"}
      BY <2>1
    <3> HIDE DEF doc
    <3> QED
      BY <2>2, <3>1, <3>2 DEF DocumentJob
  <2>4. /\ job' = [job EXCEPT ![m] = d]
        /\ pc' = [pc EXCEPT ![m] = "document"] /\ pc[m] = "idle"
        /\ UNCHANGED <<settings, live, lock, guard, last, faults, crashes, foreign, tainted>>
    BY <2>1 DEF ReadForImport
  <2> HIDE DEF d
  <2> QED
    BY <2>3, <2>4, DocumentInv
<1>5. CASE \/ \E p \in Profiles : SwitchProvider(m, p)
           \/ ApplyActiveProvider(m) \/ ClearLiveProvider(m) \/ SaveLiveFile(m)
           \/ BackfillActiveProvider(m) \/ LoadForTarget(m)
  BY <1>5, AdmissionInv
<1> QED
  BY <1>1, <1>2, <1>3, <1>4, <1>5 DEF Request

(* The writers that take no lock are on record, and a crash frees it. *)
LEMMA QuietInv ==
  ASSUME IInv, settings' \in Settings, live' \in LiveFiles,
         foreign' \subseteq {"settings", "live"}, foreign' # {},
         UNCHANGED <<lock, pc, job, guard, last, faults, crashes, tainted>>
  PROVE  IInv'
<1>1. TypeOK'
  BY DEF IInv, TypeOK
<1>2. LockOK'
  BY DEF IInv, LockOK
<1>3. ASSUME NEW m \in Managers PROVE JobOK(m)' /\ TraceOK(m)'
  BY DEF IInv, JobOK, TraceOK, IsSwitch
<1> QED
  BY <1>1, <1>2, <1>3 DEF IInv

LEMMA ForeignInv ==
  ASSUME IInv, BridgeSetSettings \/ CodexWritesLive PROVE IInv'
<1>1. /\ foreign' \subseteq {"settings", "live"} /\ foreign' # {}
      /\ UNCHANGED <<lock, pc, job, guard, last, faults, crashes, tainted>>
  BY DEF BridgeSetSettings, CodexWritesLive, IInv, TypeOK
<1>2. settings \in Settings /\ live \in LiveFiles /\ TypeOK
  BY DEF IInv, TypeOK
<1>3. CASE BridgeSetSettings
  <2>1. live' \in LiveFiles
    BY <1>2, <1>3 DEF BridgeSetSettings
  <2>2. settings' \in Settings
    <3>1. CASE /\ settings.testModel < MaxModel
               /\ settings' = [settings EXCEPT !.testModel = @ + 1]
      BY <1>2, <3>1 DEF Settings
    <3>2. CASE \E on \in BOOLEAN : settings' = [settings EXCEPT !.enabled = on]
      BY <1>2, <3>2 DEF Settings
    <3> QED BY <1>3, <3>1, <3>2 DEF BridgeSetSettings
  <2> QED
    BY <1>1, <1>2, <2>1, <2>2, QuietInv
<1>4. CASE CodexWritesLive
  <2>1. settings' \in Settings
    BY <1>2, <1>4 DEF CodexWritesLive
  <2>2. live' \in LiveFiles
    <3>1. CASE live.config.tag < MaxTag /\ live' = [live EXCEPT !.config.tag = @ + 1]
      <4>1. [live.config EXCEPT !.tag = @ + 1] \in ConfigText
        BY <1>2, <3>1 DEF LiveFiles, ConfigText
      <4> QED
        BY <1>2, <3>1, <4>1 DEF LiveFiles
    <3>2. CASE live' = [live EXCEPT !.auth = Login]
      BY <1>2, <3>2 DEF LiveFiles, AuthText
    <3> QED BY <1>4, <3>1, <3>2 DEF CodexWritesLive
  <2> QED
    BY <1>1, <1>2, <2>1, <2>2, QuietInv
<1> QED
  BY <1>3, <1>4

LEMMA CrashInv == ASSUME IInv, Crash PROVE IInv'
<1>1. TypeOK'
  BY DEF Crash, IInv, TypeOK, FreeSteps, Outcomes
<1>2. \A m \in Managers : pc'[m] = "idle" /\ lock' # m
  BY DEF Crash
<1> QED
  BY <1>1, <1>2 DEF IInv, LockOK, JobOK, TraceOK, LockedSteps, WriteSteps, RollbackSteps

LEMMA NextInv == ASSUME IInv, [Next]_vars PROVE IInv'
<1>1. CASE UNCHANGED vars
  <2>1. TypeOK'
    BY <1>1 DEF vars, IInv, TypeOK
  <2>2. LockOK'
    BY <1>1 DEF vars, IInv, LockOK
  <2>3. ASSUME NEW m \in Managers PROVE JobOK(m)' /\ TraceOK(m)'
    BY <1>1 DEF vars, IInv, JobOK, TraceOK, IsSwitch
  <2> QED
    BY <2>1, <2>2, <2>3 DEF IInv
<1>2. CASE \E m \in Managers : Step(m) \/ Request(m)
  BY <1>2, StepInv, RequestInv
<1>3. CASE BridgeSetSettings \/ CodexWritesLive \/ Crash
  BY <1>3, ForeignInv, CrashInv
<1> QED
  BY <1>1, <1>2, <1>3 DEF Next

(* The invariant, and with it the shape of the shared state and of the      *)
(* locals of every provider operation, holds in every reachable state.      *)
THEOREM Invariance == Spec => []IInv
BY InitInv, NextInv, PTL DEF Spec

THEOREM TypeCorrectness == Spec => []TypeOK
<1>1. IInv => TypeOK
  BY DEF IInv
<1> QED
  BY <1>1, Invariance, PTL

-----------------------------------------------------------------------------
(* A failure leaves no trace. *)

(* Only a step of the holder of the lock ends its operation and reports an  *)
(* outcome; the requests find the lock taken or leave the holder alone.     *)
LEMMA OnlyHolderEnds ==
  ASSUME IInv, [Next]_vars, NEW m \in Managers, lock = m,
         EndsWith(m, {"rejected", "unchanged", "verified"})
  PROVE  Step(m)
<1>1. m # None /\ pc[m] \in LockedSteps /\ pc[m] # "idle"
  BY DEF IInv, LockOK, EndsWith
<1>2. ~(BridgeSetSettings \/ CodexWritesLive \/ Crash \/ UNCHANGED vars)
  BY DEF EndsWith, BridgeSetSettings, CodexWritesLive, Crash, vars
<1>3. ASSUME NEW n \in Managers, Request(n) PROVE FALSE
  <2>1. CASE \/ ValidateWorkspace(n)
             \/ \E p \in Profiles, kind \in {"import", "importCcs"} : ReadForImport(n, kind, p)
    <3>1. n # m /\ pc' = [pc EXCEPT ![n] = "document"]
      BY <1>1, <2>1 DEF ValidateWorkspace, ReadForImport
    <3>2. pc'[m] = pc[m]
      BY <3>1 DEF IInv, TypeOK
    <3> QED BY <1>1, <3>2 DEF EndsWith
  <2>2. CASE lock = None
    BY <1>1, <2>2
  <2> QED
    BY <1>3, <2>1, <2>2
       DEF Request, LoadLiveWorkspace, SwitchProvider, Reject, ApplyActiveProvider,
           ClearLiveProvider, SaveLiveFile, BackfillActiveProvider, LoadForTarget,
           Admit, Begin
<1>4. ASSUME NEW n \in Managers, Step(n) PROVE n = m
  <2>1. pc[n] \in LockedSteps \/ lock = None
    BY <1>4
       DEF Step, SnapshotAndBackfill, SaveSelection, SelectFiles, WriteAuth, WriteConfig,
           UndoWrite, CheckWritten, RestoreSettings, RestoreAuth, RestoreConfig,
           VerifyRollback, CompareLive, StoreBackfill, StoreDocument,
           SaveProviderSyncTarget, LockedSteps, WriteSteps, RollbackSteps
  <2> QED
    BY <1>1, <2>1 DEF IInv, LockOK
<1> QED
  BY <1>2, <1>3, <1>4 DEF Next

LEMMA TraceStep ==
  ASSUME IInv, NEW m \in Managers, Step(m), foreign = {}, lock = m,
         EndsWith(m, {"rejected", "unchanged", "verified"})
  PROVE  settings' = job[m].start.settings /\ live' = job[m].start.live
<1>1. m # None /\ TraceOK(m) /\ JobOK(m) /\ pc[m] \in LockedSteps
  BY DEF IInv, LockOK
<1>2. ASSUME NEW step, Goto(m, step), step # "idle" PROVE FALSE
  BY <1>2 DEF Goto, EndsWith, IInv, TypeOK
<1>3. ASSUME NEW outcome, Done(m, outcome)
      PROVE  outcome \in {"rejected", "unchanged", "verified"}
  BY <1>3 DEF Done, EndsWith
<1>4. CASE SnapshotAndBackfill(m)
  BY <1>1, <1>2, <1>4 DEF SnapshotAndBackfill, TraceOK
<1>5. CASE SaveSelection(m)
  BY <1>1, <1>2, <1>5 DEF SaveSelection, Continue, TraceOK
<1>6. CASE SelectFiles(m)
  BY <1>2, <1>6 DEF SelectFiles, Continue
<1>7. CASE WriteAuth(m) \/ WriteConfig(m) \/ UndoWrite(m)
  BY <1>2, <1>7 DEF WriteAuth, WriteConfig, UndoWrite, Continue, AfterFailedWrite
<1>8. CASE CheckWritten(m)
  BY <1>2, <1>3, <1>8 DEF CheckWritten, Continue
<1>9. CASE RestoreSettings(m) \/ RestoreAuth(m) \/ RestoreConfig(m)
  BY <1>2, <1>9 DEF RestoreSettings, RestoreAuth, RestoreConfig
<1>10. CASE VerifyRollback(m)
  <2>1. settings = job[m].orig.settings /\ live = job[m].orig.live
    BY <1>3, <1>10 DEF VerifyRollback
  <2>2. job[m].orig = job[m].start
    BY <1>1, <1>10 DEF VerifyRollback, TraceOK, JobOK, RollbackSteps
  <2> QED
    BY <1>10, <2>1, <2>2 DEF VerifyRollback
<1>11. CASE CompareLive(m)
  <2>1. live = job[m].start.live
    BY <1>3, <1>11 DEF CompareLive
  <2>2. settings = job[m].start.settings
    BY <1>1, <1>11 DEF CompareLive, TraceOK, JobOK
  <2> QED
    BY <1>11, <2>1, <2>2 DEF CompareLive
<1>12. CASE StoreBackfill(m) \/ SaveProviderSyncTarget(m)
  BY <1>1, <1>3, <1>12 DEF StoreBackfill, SaveProviderSyncTarget, TraceOK
<1>13. CASE StoreDocument(m)
  BY <1>1, <1>13 DEF StoreDocument
<1> QED
  BY <1>4, <1>5, <1>6, <1>7, <1>8, <1>9, <1>10, <1>11, <1>12, <1>13 DEF Step

(* An operation that holds the lock and ends without success has put back   *)
(* the settings and both live files, unless it says that it could not.      *)
THEOREM NoTraceOfFailure == Spec => FailureLeavesNoTrace
<1> DEFINE Trace ==
      \A m \in Managers :
        EndsWith(m, {"rejected", "unchanged", "verified"}) /\ lock = m /\ foreign = {} =>
          settings' = job[m].start.settings /\ live' = job[m].start.live
<1>1. ASSUME IInv, [Next]_vars PROVE [Trace]_vars
  BY <1>1, OnlyHolderEnds, TraceStep
<1>2. IInv /\ [Next]_vars => [Trace]_vars
  BY <1>1
<1> QED
  BY <1>2, Invariance, PTL DEF Spec, FailureLeavesNoTrace

-----------------------------------------------------------------------------
(* What the conversions keep. *)

LEMMA NewProfileKept ==
  ASSUME NEW p \in Profiles PROVE KeepsKind(p, NewProfile(p))
BY DEF NewProfile, KeepsKind, Modes

LEMMA BackfilledKept ==
  ASSUME NEW p \in Profiles, NEW prof \in RelayProfile, NEW files \in LiveFiles,
         KeepsKind(p, prof), prof.mode # "aggregate"
  PROVE  KeepsKind(p, Backfilled(prof, files))
<1> DEFINE b == Backfilled(prof, files)
<1>1. b.apiKey = IF files.config.tok = None THEN prof.apiKey ELSE files.config.tok
  BY DEF Backfilled
<1>2. b.mode = IF prof.mode = "official" THEN "official"
               ELSE IF b.auth \in Profiles THEN "pure"
               ELSE IF b.cfg.ep # None \/ b.apiKey # None THEN "mixed" ELSE prof.mode
  BY DEF Backfilled
<1>3. prof.mode \in {"official", "mixed", "pure"}
  BY DEF RelayProfile, Modes
<1> SUFFICES KeepsKind(p, b)
  OBVIOUS
<1> HIDE DEF b
<1>4. CASE prof.mode = "official"
  BY <1>2, <1>4 DEF KeepsKind
<1>5. CASE prof.mode # "official"
  <2>1. b.apiKey # None
    BY <1>1, <1>3, <1>5 DEF KeepsKind
  <2>2. b.mode = IF b.auth \in Profiles THEN "pure" ELSE "mixed"
    BY <1>2, <1>5, <2>1
  <2>3. Mode[p] # "official" /\ Mode[p] # "aggregate"
    BY <1>3, <1>5 DEF KeepsKind
  <2> QED
    BY <2>1, <2>2, <2>3 DEF KeepsKind
<1> QED BY <1>4, <1>5

LEMMA LeavingKept ==
  ASSUME NEW s \in Settings, NEW p \in Profiles, NEW files \in LiveFiles, Kept(s.profiles)
  PROVE  Kept(Leaving(s, p, files).profiles)
<1>1. s.active \in Profiles /\ s.profiles \in [Profiles -> RelayProfile]
  BY DEF Settings
<1>2. CASE s.active = p \/ s.profiles[s.active].mode = "aggregate"
  <2>1. Leaving(s, p, files).profiles = s.profiles
    BY <1>2 DEF Leaving, Settings
  <2> QED BY <2>1
<1>3. CASE ~(s.active = p \/ s.profiles[s.active].mode = "aggregate")
  <2>1. Leaving(s, p, files).profiles
          = [s.profiles EXCEPT ![s.active] = Backfilled(s.profiles[s.active], files)]
    BY <1>3 DEF Leaving, Settings
  <2>2. KeepsKind(s.active, Backfilled(s.profiles[s.active], files))
    BY <1>1, <1>3, BackfilledKept DEF Kept
  <2> QED
    BY <1>1, <2>1, <2>2 DEF Kept
<1> QED BY <1>2, <1>3

LEMMA KeptWithNew ==
  ASSUME NEW f \in [Profiles -> RelayProfile], NEW p \in Profiles, Kept(f)
  PROVE  Kept([f EXCEPT ![p] = NewProfile(p)])
BY NewProfileKept DEF Kept

LEMMA EditsKept ==
  ASSUME NEW doc \in ProviderDocument, Kept(doc.profiles), NEW edit \in EditsOf(doc)
  PROVE  Kept(edit.profiles)
<1>1. PICK p \in doc.present : edit = [doc EXCEPT !.profiles[p].cfg.tag = @ + 1]
  BY DEF EditsOf
<1>2. p \in Profiles /\ doc.profiles \in [Profiles -> RelayProfile]
  BY DEF ProviderDocument
<1>3. ASSUME NEW q \in Profiles
      PROVE  /\ edit.profiles[q].mode = doc.profiles[q].mode
             /\ edit.profiles[q].apiKey = doc.profiles[q].apiKey
             /\ edit.profiles[q].auth = doc.profiles[q].auth
  BY <1>1, <1>2 DEF ProviderDocument, RelayProfile
<1> QED
  BY <1>3 DEF Kept, KeepsKind

(* A switch to a profile that keeps its kind leaves the live files serving  *)
(* it, so that the last check of a switch never fails.                      *)
LEMMA SelectedServes ==
  ASSUME NEW p \in Profiles, NEW prof \in RelayProfile, NEW files \in LiveFiles,
         KeepsKind(p, prof), prof.mode = "official" => prof.auth \notin Profiles
  PROVE  Serves(p, prof, Overwritten(files, SelectedFiles(p, prof, files)))
<1> DEFINE texts == SelectedFiles(p, prof, files)
           new   == Overwritten(files, texts)
<1>1. CASE prof.mode = "official"
  <2>1. texts = [config |-> WithoutProvider(files.config), auth |-> ClearedAuth(prof, files)]
    BY <1>1 DEF SelectedFiles, ClearedFiles
  <2>2. WithoutProvider(files.config) \in ConfigText
    BY DEF WithoutProvider, LiveFiles, ConfigText
  <2>3. new.config = WithoutProvider(files.config)
    BY <2>1, <2>2 DEF Overwritten
  <2>4. new.auth \notin Profiles
    <3>1. new.auth = IF ClearedAuth(prof, files) = None THEN files.auth ELSE ClearedAuth(prof, files)
      BY <2>1 DEF Overwritten
    <3>2. prof.auth \in AuthText /\ files.auth \in AuthText
      BY DEF RelayProfile, LiveFiles
    <3> QED
      BY <1>1, <3>1, <3>2 DEF ClearedAuth, AuthText
  <2> QED
    BY <1>1, <2>3, <2>4 DEF Serves, WithoutProvider
<1>2. CASE prof.mode # "official"
  <2>1. texts = AppliedFiles(p, prof, files) /\ texts \in LiveFiles
    BY <1>2, AppliedFilesType DEF SelectedFiles
  <2>2. new = texts
    BY <2>1 DEF Overwritten, LiveFiles, AuthText
  <2>3. /\ texts.config.ep = Endpoint(p, prof)
        /\ texts.auth = IF prof.mode = "pure" THEN prof.auth
                        ELSE WithoutKey(IF prof.auth = NoAuth THEN files.auth ELSE prof.auth)
    BY <2>1 DEF AppliedFiles
  <2>4. CASE prof.mode = "pure"
    <3>1. Endpoint(p, prof) # None /\ prof.auth \in Profiles
      BY <1>2, <2>4 DEF Endpoint, KeepsKind
    <3> QED
      BY <2>2, <2>3, <2>4, <3>1 DEF Serves, Configured
  <2>5. CASE prof.mode # "pure"
    <3>1. WithoutKey(IF prof.auth = NoAuth THEN files.auth ELSE prof.auth) \notin Profiles
      BY DEF WithoutKey
    <3> QED
      BY <1>2, <2>2, <2>3, <2>5, <3>1 DEF Serves
  <2> QED BY <2>4, <2>5
<1> QED BY <1>1, <1>2

-----------------------------------------------------------------------------
(* The way of an operation. *)

(* The copies of the holder m, and its place on the way, after a step.      *)
Along(m) ==
  /\ Kept(settings'.profiles)
  /\ pc'[m] \in LockedSteps =>
       /\ Kept(job'[m].sel.profiles) /\ Kept(job'[m].orig.settings.profiles)
       /\ Kept(job'[m].start.settings.profiles)
       /\ SettingsPath(pc'[m], job'[m], settings', foreign')
       /\ LivePath(pc'[m], job'[m], live', foreign')

LEMMA StepsApart ==
  /\ LockedSteps \cap FreeSteps = {} /\ "idle" \in FreeSteps /\ "document" \in FreeSteps
  /\ WriteSteps \subseteq LockedSteps /\ RollbackSteps \subseteq LockedSteps
  /\ BeforeWrites \subseteq LockedSteps /\ WriteSteps \cap RollbackSteps = {}
BY DEF LockedSteps, FreeSteps, WriteSteps, RollbackSteps, BeforeWrites

(* What PathInv says of the holder. *)
LEMMA HolderPath ==
  ASSUME PathInv, NEW m \in Managers, pc[m] \in LockedSteps
  PROVE  /\ lock = m /\ job[m] \in Job /\ settings \in Settings /\ live \in LiveFiles
         /\ Kept(settings.profiles) /\ Kept(job[m].sel.profiles)
         /\ Kept(job[m].orig.settings.profiles) /\ Kept(job[m].start.settings.profiles)
         /\ SettingsPath(pc[m], job[m], settings, foreign)
         /\ LivePath(pc[m], job[m], live, foreign)
         /\ JobOK(m) /\ (IsSwitch(m) <=> Switching(job[m]))
BY Holder DEF PathInv, KeptCopies, IsSwitch, Switching

(* The fields of the locals, which the steps rely on. *)
LEMMA JobFields ==
  ASSUME NEW j \in Job
  PROVE  /\ j.start \in Snapshot /\ j.orig \in Snapshot /\ j.sel \in Settings
         /\ j.target \in Profiles /\ j.new \in Texts /\ j.old \in LiveFiles
         /\ j.start.settings \in Settings /\ j.start.live \in LiveFiles
         /\ j.orig.settings \in Settings /\ j.orig.live \in LiveFiles
         /\ j.start.settings.active \in Profiles
BY DEF Job, Snapshot, Settings

(* A step of the holder touches its own locals only. *)
LEMMA StepShape ==
  ASSUME IInv, NEW m \in Managers, pc[m] \in LockedSteps, Step(m)
  PROVE  /\ UNCHANGED <<guard, foreign>>
         /\ \A n \in Managers \ {m} : pc'[n] = pc[n] /\ job'[n] = job[n]
<1>1. ~StoreDocument(m)
  BY StepsApart DEF StoreDocument
<1>2. /\ UNCHANGED <<guard, foreign>>
      /\ (\E o : Done(m, o)) \/ (\E step : Goto(m, step))
  BY <1>1
     DEF Step, SnapshotAndBackfill, SaveSelection, SelectFiles, WriteAuth, WriteConfig,
         UndoWrite, CheckWritten, RestoreSettings, RestoreAuth, RestoreConfig,
         VerifyRollback, CompareLive, StoreBackfill, SaveProviderSyncTarget, Continue
<1>3. \A n \in Managers \ {m} : pc'[n] = pc[n]
  BY <1>2 DEF Done, Goto, IInv, TypeOK
<1>4. \A n \in Managers \ {m} : job'[n] = job[n]
  BY <1>1
     DEF Step, SnapshotAndBackfill, SaveSelection, SelectFiles, WriteAuth, WriteConfig,
         UndoWrite, CheckWritten, RestoreSettings, RestoreAuth, RestoreConfig,
         VerifyRollback, CompareLive, StoreBackfill, SaveProviderSyncTarget, Continue,
         Done, Unrestored, IInv, TypeOK
<1> QED
  BY <1>2, <1>3, <1>4

LEMMA StepPath ==
  ASSUME PathInv, NEW m \in Managers, pc[m] \in LockedSteps, Step(m), Along(m)
  PROVE  PathInv'
<1>1. IInv /\ IInv'
  BY StepInv DEF PathInv
<1>2. /\ UNCHANGED <<guard, foreign>>
      /\ \A n \in Managers \ {m} : pc'[n] = pc[n] /\ job'[n] = job[n]
  BY <1>1, StepShape
<1>3. \A n \in Managers \ {m} : pc[n] \notin LockedSteps
  BY <1>1, Holder
<1>4. pc'[m] # "document"
  BY <1>1, StepsApart
     DEF Step, SnapshotAndBackfill, SaveSelection, SelectFiles, WriteAuth, WriteConfig,
         UndoWrite, CheckWritten, RestoreSettings, RestoreAuth, RestoreConfig,
         VerifyRollback, CompareLive, StoreBackfill, SaveProviderSyncTarget, StoreDocument,
         Continue, Done, Goto, AfterFailedWrite, IInv, TypeOK
<1>5. KeptCopies'
  BY <1>2, <1>3, <1>4 DEF PathInv, KeptCopies, Along
<1>6. \A n \in Managers : pc'[n] \in LockedSteps =>
        /\ SettingsPath(pc'[n], job'[n], settings', foreign')
        /\ LivePath(pc'[n], job'[n], live', foreign')
  BY <1>2, <1>3 DEF Along
<1> QED
  BY <1>1, <1>5, <1>6 DEF PathInv

LEMMA DoneAlong ==
  ASSUME IInv, NEW m \in Managers, NEW outcome, Done(m, outcome), Kept(settings'.profiles)
  PROVE  Along(m)
<1>1. pc'[m] = "idle"
  BY DEF Done, IInv, TypeOK
<1> QED
  BY <1>1, StepsApart DEF Along

(* A step that leaves the locals and the settings alone. *)
LEMMA ContinueAlong ==
  ASSUME PathInv, NEW m \in Managers, pc[m] \in LockedSteps,
         NEW step \in LockedSteps, Continue(m, step), UNCHANGED <<settings, foreign>>,
         SettingsPath(step, job[m], settings, foreign),
         LivePath(step, job[m], live', foreign)
  PROVE  Along(m)
<1>1. pc'[m] = step
  BY DEF Continue, Goto, PathInv, IInv, TypeOK
<1> QED
  BY <1>1, HolderPath DEF Along, Continue

(* A switch that goes on to its rollback. *)
LEMMA ToRollback ==
  ASSUME NEW j, NEW step \in LockedSteps \ {"snapshot"}, NEW next \in RollbackSteps, NEW now, NEW files,
         NEW new, NEW writers, Switching(j), SettingsPath(step, j, now, writers),
         LivePath(step, j, files, writers),
         "live" \notin writers => new.config = j.start.live.config
  PROVE  SettingsPath(next, j, now, writers) /\ LivePath(next, j, new, writers)
<1>1. /\ next \notin WriteSteps /\ next \notin BeforeWrites
      /\ next \notin {"snapshot", "save", "select", "writeConfig", "undo", "check",
                       "storeBackfill", "saveTarget"}
  BY DEF RollbackSteps, WriteSteps, BeforeWrites
<1>2. SettingsPath(next, j, now, writers)
  BY <1>1 DEF SettingsPath
<1>3. LivePath(next, j, new, writers)
  BY <1>1 DEF LivePath
<1> QED BY <1>2, <1>3

LEMMA SnapshotAlong ==
  ASSUME PathInv, NEW m \in Managers, SnapshotAndBackfill(m) PROVE Along(m)
<1> DEFINE j    == job[m]
           s    == j.start.settings
           left == IF s.active = j.target \/ j.sel.profiles[s.active].mode = "aggregate" THEN j.sel
                   ELSE [j.sel EXCEPT !.profiles[s.active] = Backfilled(@, live)]
           now  == [settings |-> settings, live |-> live]
           k    == [j EXCEPT !.orig = now, !.sel = left]
<1>1. pc[m] = "snapshot" /\ pc[m] \in LockedSteps /\ IInv
  BY DEF SnapshotAndBackfill, LockedSteps, PathInv
<1>2. /\ j \in Job /\ settings \in Settings /\ live \in LiveFiles /\ s \in Settings
      /\ UNCHANGED <<settings, live, foreign>>
  BY <1>1, HolderPath, JobFields DEF SnapshotAndBackfill
<1>3. CASE Done(m, "unchanged")
  BY <1>1, <1>2, <1>3, HolderPath, DoneAlong
<1>4. CASE /\ s.active \in j.sel.present \/ s.active = j.target
           /\ job' = [job EXCEPT ![m].orig = now, ![m].sel = left]
           /\ Goto(m, "save")
  <2>1. job'[m] = k /\ pc'[m] = "save"
    BY <1>1, <1>4 DEF Goto, IInv, TypeOK
  <2>2. /\ k.orig = now /\ k.sel = left /\ k.start = j.start /\ k.target = j.target
        /\ k.kind = j.kind
    BY <1>2 DEF Job
  <2>3. Switching(j) /\ SettingsPath("snapshot", j, settings, foreign)
    BY <1>1, HolderPath DEF JobOK
  <2>4. j.sel = [s EXCEPT !.active = j.target] /\ SameProvider(settings, s)
    BY <2>3 DEF SettingsPath
  <2>5. j.target \in Profiles /\ s.active \in Profiles
    BY <1>2, JobFields
  <2>6. j.sel.profiles = s.profiles /\ j.sel.present = s.present
    BY <1>2, <2>4 DEF Settings
  <2>7. left = Leaving(s, j.target, live)
    BY <1>2, <2>4, <2>5, <2>6 DEF Leaving, Settings
  <2>8. Kept(left.profiles)
    BY <1>1, <1>2, <2>5, <2>7, HolderPath, LeavingKept
  <2> HIDE DEF left, j, k
  <2>9. SettingsPath("save", k, settings, foreign)
    <3>1. s.active \in s.present \/ s.active = j.target
      BY <1>4, <2>6 DEF j
    <3>2. s.enabled /\ j.target \in s.present
      BY <2>3 DEF SettingsPath
    <3>3. Switching(k)
      BY <2>2, <2>3 DEF Switching
    <3> QED
      BY <2>2, <2>4, <2>7, <3>1, <3>2, <3>3 DEF SettingsPath, WriteSteps
  <2>10. LivePath("save", k, live, foreign)
    <3>1. "live" \notin foreign => live = j.start.live
      BY <1>1, HolderPath DEF LivePath, BeforeWrites, j
    <3> QED
      BY <2>2, <3>1 DEF LivePath, WriteSteps, RollbackSteps
  <2> QED
    BY <1>1, <1>2, <2>1, <2>2, <2>8, <2>9, <2>10, HolderPath DEF Along, j
<1> QED
  BY <1>3, <1>4 DEF SnapshotAndBackfill

LEMMA SaveAlong ==
  ASSUME PathInv, NEW m \in Managers, SaveSelection(m) PROVE Along(m)
<1> DEFINE j == job[m]
<1>1. pc[m] = "save" /\ pc[m] \in LockedSteps /\ IInv /\ UNCHANGED <<live, foreign>>
  BY DEF SaveSelection, LockedSteps, PathInv
<1>2. CASE settings' = j.sel /\ Continue(m, "select")
  <2>1. pc'[m] = "select" /\ job'[m] = j
    BY <1>1, <1>2 DEF Continue, Goto, IInv, TypeOK
  <2>2. Switching(j) /\ SettingsPath("save", j, settings, foreign)
        /\ LivePath("save", j, live, foreign)
    BY <1>1, HolderPath DEF JobOK
  <2>3. j.sel = Leaving(j.start.settings, j.target, j.orig.live)
    BY <2>2 DEF SettingsPath
  <2>4. SettingsPath("select", j, j.sel, foreign)
    BY <2>2, <2>3 DEF SettingsPath, SameProvider, WriteSteps
  <2>5. LivePath("select", j, live, foreign)
    BY <2>2 DEF LivePath, BeforeWrites, WriteSteps, RollbackSteps
  <2> QED
    BY <1>1, <1>2, <2>1, <2>4, <2>5, HolderPath DEF Along
<1>3. CASE Done(m, "unchanged") /\ UNCHANGED settings
  BY <1>1, <1>3, HolderPath, DoneAlong
<1> QED
  BY <1>2, <1>3 DEF SaveSelection

LEMMA SelectAlong ==
  ASSUME PathInv, NEW m \in Managers, SelectFiles(m) PROVE Along(m)
<1> DEFINE j    == job[m]
           p    == settings.active
           new  == SelectedFiles(p, settings.profiles[p], live)
           k    == [j EXCEPT !.sel = settings, !.new = new]
<1>1. pc[m] = "select" /\ pc[m] \in LockedSteps \ {"snapshot"} /\ IInv
      /\ UNCHANGED <<settings, live, foreign>>
  BY DEF SelectFiles, LockedSteps, PathInv
<1>2. Switching(j) /\ SettingsPath("select", j, settings, foreign)
      /\ LivePath("select", j, live, foreign) /\ j \in Job
  BY <1>1, HolderPath DEF JobOK
<1>3. "live" \notin foreign => live = j.start.live
  BY <1>2 DEF LivePath, BeforeWrites
<1>4. CASE /\ Selectable(settings.profiles[p])
           /\ job' = [job EXCEPT ![m].sel = settings, ![m].new = new]
           /\ Goto(m, "writeAuth")
  <2>1. job'[m] = k /\ pc'[m] = "writeAuth"
    BY <1>1, <1>4 DEF Goto, IInv, TypeOK
  <2>2. /\ k.orig = j.orig /\ k.sel = settings /\ k.start = j.start /\ k.target = j.target
        /\ k.kind = j.kind /\ k.new = new
    BY <1>2 DEF Job
  <2>3. p = j.target
    <3>1. p = Leaving(j.start.settings, j.target, j.orig.live).active
      BY <1>2 DEF SettingsPath, SameProvider
    <3> QED
      BY <1>2, <3>1, JobFields DEF Leaving, Settings
  <2>4. Switching(k)
    BY <1>2, <2>2 DEF Switching
  <2> HIDE DEF j, k, new
  <2>5. SettingsPath("writeAuth", k, settings, foreign)
    BY <1>2, <1>4, <2>2, <2>3, <2>4 DEF SettingsPath, SameProvider, WriteSteps
  <2>6. LivePath("writeAuth", k, live, foreign)
    <3>1. "live" \notin foreign => new = SelectedFiles(k.target, k.sel.profiles[k.target], j.start.live)
      BY <1>3, <2>2, <2>3 DEF new
    <3> QED
      BY <1>2, <1>3, <2>2, <2>4, <3>1 DEF LivePath, RollbackSteps
  <2> QED
    BY <1>1, <2>1, <2>2, <2>5, <2>6, HolderPath DEF Along, j
<1>5. CASE Continue(m, "rbSettings")
  <2>1. SettingsPath("rbSettings", j, settings, foreign) /\ LivePath("rbSettings", j, live, foreign)
    BY <1>1, <1>2, <1>3, ToRollback DEF RollbackSteps
  <2> QED
    BY <1>1, <1>5, <2>1, ContinueAlong DEF LockedSteps, RollbackSteps
<1> QED
  BY <1>4, <1>5 DEF SelectFiles

(* A write failed, and what Codex did not write of config.toml is as it was. *)
LEMMA FailedWriteAlong ==
  ASSUME PathInv, NEW m \in Managers, pc[m] \in WriteSteps,
         Continue(m, AfterFailedWrite(m)), UNCHANGED <<settings, foreign>>,
         "live" \notin foreign => live'.config = job[m].start.live.config
  PROVE  Along(m)
<1> DEFINE j == job[m]
<1>1. pc[m] \in LockedSteps \ {"snapshot"} /\ PathInv
  BY StepsApart DEF WriteSteps
<1>2. /\ SettingsPath(pc[m], j, settings, foreign) /\ LivePath(pc[m], j, live, foreign)
      /\ (IsSwitch(m) <=> Switching(j))
  BY <1>1, HolderPath
<1>3. CASE Switching(j)
  <2>1. AfterFailedWrite(m) = "rbSettings"
    BY <1>2, <1>3 DEF AfterFailedWrite
  <2>2. /\ SettingsPath("rbSettings", j, settings, foreign)
        /\ LivePath("rbSettings", j, live', foreign)
    BY <1>1, <1>2, <1>3, ToRollback DEF RollbackSteps
  <2> QED
    BY <1>1, <2>1, <2>2, ContinueAlong DEF LockedSteps, RollbackSteps
<1>4. CASE ~Switching(j)
  <2>1. AfterFailedWrite(m) = "compare"
    BY <1>2, <1>4 DEF AfterFailedWrite
  <2>2. /\ SettingsPath("compare", j, settings, foreign)
        /\ LivePath("compare", j, live', foreign)
    BY <1>2, <1>4
       DEF SettingsPath, LivePath, WriteSteps, RollbackSteps, BeforeWrites
  <2> QED
    BY <1>1, <2>1, <2>2, ContinueAlong DEF LockedSteps
<1> QED BY <1>3, <1>4

LEMMA WriteAuthAlong ==
  ASSUME PathInv, NEW m \in Managers, WriteAuth(m) PROVE Along(m)
<1> DEFINE j == job[m]
           k == [j EXCEPT !.old = live]
<1>1. /\ pc[m] = "writeAuth" /\ pc[m] \in LockedSteps /\ pc[m] \in WriteSteps /\ IInv
      /\ UNCHANGED <<settings, foreign>>
  BY DEF WriteAuth, LockedSteps, WriteSteps, PathInv
<1>2. /\ SettingsPath("writeAuth", j, settings, foreign)
      /\ LivePath("writeAuth", j, live, foreign) /\ j \in Job /\ live \in LiveFiles
  BY <1>1, HolderPath
<1>3. "live" \notin foreign => live = j.start.live
  BY <1>2 DEF LivePath, BeforeWrites
<1>4. CASE /\ live' = IF j.new.auth = None THEN live ELSE [live EXCEPT !.auth = j.new.auth]
           /\ job' = [job EXCEPT ![m].old = live]
           /\ Goto(m, "writeConfig")
  <2>1. job'[m] = k /\ pc'[m] = "writeConfig"
    BY <1>1, <1>4 DEF Goto, IInv, TypeOK
  <2>2. /\ k.orig = j.orig /\ k.sel = j.sel /\ k.start = j.start /\ k.target = j.target
        /\ k.kind = j.kind /\ k.new = j.new /\ k.old = live
    BY <1>2 DEF Job
  <2>3. live' = [Overwritten(live, j.new) EXCEPT !.config = live.config]
    BY <1>2, <1>4 DEF Overwritten, LiveFiles
  <2>4. Switching(k) <=> Switching(j)
    BY <2>2 DEF Switching
  <2> HIDE DEF j, k
  <2>5. SettingsPath("writeConfig", k, settings, foreign)
    BY <1>2, <2>2, <2>4 DEF SettingsPath, WriteSteps
  <2>6. LivePath("writeConfig", k, live', foreign)
    BY <1>2, <1>3, <2>2, <2>3, <2>4 DEF LivePath, WriteSteps, RollbackSteps, BeforeWrites
  <2> QED
    BY <1>1, <2>1, <2>2, <2>5, <2>6, HolderPath DEF Along, j
<1>5. CASE Continue(m, AfterFailedWrite(m)) /\ UNCHANGED live
  BY <1>1, <1>3, <1>5, FailedWriteAlong
<1> QED
  BY <1>4, <1>5 DEF WriteAuth

LEMMA WriteConfigAlong ==
  ASSUME PathInv, NEW m \in Managers, WriteConfig(m) PROVE Along(m)
<1> DEFINE j == job[m]
<1>1. /\ pc[m] = "writeConfig" /\ pc[m] \in LockedSteps /\ UNCHANGED <<settings, foreign>>
      /\ {"check", "undo"} \subseteq LockedSteps
  BY DEF WriteConfig, LockedSteps, WriteSteps
<1>2. /\ SettingsPath("writeConfig", j, settings, foreign)
      /\ LivePath("writeConfig", j, live, foreign) /\ j \in Job /\ live \in LiveFiles
  BY <1>1, HolderPath
<1>3. SettingsPath("check", j, settings, foreign) /\ SettingsPath("undo", j, settings, foreign)
  BY <1>2 DEF SettingsPath, WriteSteps
<1>4. CASE /\ live' = IF j.new.config = None THEN live ELSE [live EXCEPT !.config = j.new.config]
           /\ Continue(m, "check")
  <2>1. "live" \notin foreign => live' = Overwritten(j.start.live, j.new)
    BY <1>2, <1>4, JobFields DEF LivePath, Overwritten, LiveFiles
  <2>2. LivePath("check", j, live', foreign)
    BY <1>2, <2>1 DEF LivePath, WriteSteps, RollbackSteps, BeforeWrites
  <2> QED
    BY <1>1, <1>3, <1>4, <2>2, ContinueAlong
<1>5. CASE Continue(m, "undo") /\ UNCHANGED live
  <2>1. LivePath("undo", j, live, foreign)
    BY <1>2 DEF LivePath, WriteSteps, RollbackSteps, BeforeWrites
  <2> QED
    BY <1>1, <1>3, <1>5, <2>1, ContinueAlong
<1> QED
  BY <1>4, <1>5 DEF WriteConfig

LEMMA UndoAlong ==
  ASSUME PathInv, NEW m \in Managers, UndoWrite(m) PROVE Along(m)
<1> DEFINE j == job[m]
<1>1. /\ pc[m] = "undo" /\ pc[m] \in LockedSteps /\ pc[m] \in WriteSteps
      /\ UNCHANGED <<settings, foreign>> /\ Continue(m, AfterFailedWrite(m))
  BY DEF UndoWrite, LockedSteps, WriteSteps
<1>2. LivePath("undo", j, live, foreign) /\ live \in LiveFiles
  BY <1>1, HolderPath
<1>3. "live" \notin foreign => j.old.config = j.start.live.config /\ live.config = j.start.live.config
  BY <1>2 DEF LivePath, Overwritten
<1>4. live'.config \in {j.old.config, live.config}
  BY <1>2 DEF UndoWrite, LiveFiles
<1> QED
  BY <1>1, <1>3, <1>4, FailedWriteAlong

(* The check of a pure API profile fails only if Codex interfered. *)
LEMMA CheckAlong ==
  ASSUME PathInv, NEW m \in Managers, CheckWritten(m) PROVE Along(m)
<1> DEFINE j   == job[m]
           sel == j.sel
<1>1. /\ pc[m] = "check" /\ pc[m] \in LockedSteps \ {"snapshot"} /\ pc[m] \in WriteSteps
      /\ UNCHANGED <<settings, live, foreign>> /\ IInv
  BY DEF CheckWritten, LockedSteps, WriteSteps, PathInv
<1>2. /\ SettingsPath("check", j, settings, foreign) /\ LivePath("check", j, live, foreign)
      /\ j \in Job /\ (IsSwitch(m) <=> Switching(j)) /\ Kept(sel.profiles)
  BY <1>1, HolderPath
<1>3. CASE Done(m, "ok") \/ Done(m, "unread")
  BY <1>1, <1>3, HolderPath, DoneAlong
<1>4. CASE /\ IsSwitch(m) /\ sel.profiles[sel.active].mode = "pure" /\ ~Configured(live)
           /\ Continue(m, "rbSettings")
  <2>1. sel.active = j.target
    <3>1. sel.active = Leaving(j.start.settings, j.target, j.orig.live).active
      BY <1>1, <1>2, <1>4 DEF SettingsPath, SameProvider
    <3> QED
      BY <1>2, <3>1, JobFields DEF Leaving, Settings
  <2>2. sel.profiles[j.target] \in RelayProfile /\ KeepsKind(j.target, sel.profiles[j.target])
    BY <1>2, JobFields DEF Settings, Kept
  <2>3. ASSUME "live" \notin foreign PROVE FALSE
    <3>1. live = Overwritten(j.start.live, SelectedFiles(j.target, sel.profiles[j.target], j.start.live))
      BY <1>1, <1>2, <1>4, <2>3 DEF LivePath
    <3>2. Serves(j.target, sel.profiles[j.target], live)
      BY <1>2, <1>4, <2>1, <2>2, <3>1, JobFields, SelectedServes
    <3> QED
      BY <1>4, <2>1, <3>2 DEF Serves
  <2>4. /\ SettingsPath("rbSettings", j, settings, foreign)
        /\ LivePath("rbSettings", j, live, foreign)
    BY <1>1, <1>2, <1>4, <2>3, ToRollback DEF RollbackSteps
  <2> QED
    BY <1>1, <1>4, <2>4, ContinueAlong DEF LockedSteps, RollbackSteps
<1> QED
  BY <1>3, <1>4 DEF CheckWritten

LEMMA RestoreAlong ==
  ASSUME PathInv, NEW m \in Managers,
         RestoreSettings(m) \/ RestoreAuth(m) \/ RestoreConfig(m)
  PROVE  Along(m)
<1> DEFINE j == job[m]
           k == job'[m]
<1>1. /\ pc[m] \in RollbackSteps /\ pc[m] \in LockedSteps /\ UNCHANGED foreign
      /\ Goto(m, "rbAuth") \/ Goto(m, "rbConfig") \/ Goto(m, "verify")
  BY DEF RestoreSettings, RestoreAuth, RestoreConfig, RollbackSteps, LockedSteps
<1>2. pc'[m] \in RollbackSteps
  BY <1>1 DEF Goto, PathInv, IInv, TypeOK, RollbackSteps
<1>3. /\ Switching(j) /\ SettingsPath(pc[m], j, settings, foreign)
      /\ LivePath(pc[m], j, live, foreign) /\ j \in Job /\ live \in LiveFiles
  BY <1>1, HolderPath DEF JobOK
<1>4. /\ k.orig = j.orig /\ k.sel = j.sel /\ k.start = j.start /\ k.target = j.target
      /\ k.kind = j.kind
  <2>1. k \in {j, [j EXCEPT !.restored = FALSE]}
    BY DEF RestoreSettings, RestoreAuth, RestoreConfig, Unrestored, PathInv, IInv, TypeOK
  <2> QED
    BY <1>3, <2>1 DEF Job
<1>5. settings' \in {settings, j.orig.settings}
  BY DEF RestoreSettings, RestoreAuth, RestoreConfig
<1>6. live'.config \in {live.config, j.orig.live.config}
  BY <1>3 DEF RestoreSettings, RestoreAuth, RestoreConfig, LiveFiles
<1>7. /\ j.orig.live = j.start.live \/ "live" \in foreign
      /\ live.config = j.start.live.config \/ "live" \in foreign
  BY <1>1, <1>3 DEF LivePath
<1>8. "live" \notin foreign => live'.config = k.start.live.config
  BY <1>4, <1>6, <1>7
<1>9. Switching(k)
  BY <1>3, <1>4 DEF Switching
<1> HIDE DEF j, k
<1>10. SettingsPath(pc'[m], k, settings', foreign)
  BY <1>1, <1>2, <1>3, <1>4, <1>9 DEF SettingsPath, RollbackSteps, WriteSteps
<1>11. LivePath(pc'[m], k, live', foreign)
  BY <1>2, <1>4, <1>7, <1>8 DEF LivePath, RollbackSteps, WriteSteps, BeforeWrites
<1> QED
  BY <1>1, <1>4, <1>5, <1>10, <1>11, HolderPath DEF Along, j, k

LEMMA EndAlong ==
  ASSUME PathInv, NEW m \in Managers, pc[m] \in LockedSteps,
         \/ VerifyRollback(m) \/ CompareLive(m) \/ StoreBackfill(m) \/ SaveProviderSyncTarget(m)
  PROVE  Along(m)
<1>1. \E outcome : Done(m, outcome)
  BY DEF VerifyRollback, CompareLive, StoreBackfill, SaveProviderSyncTarget
<1>2. settings'.profiles \in {settings.profiles, job[m].sel.profiles}
  BY HolderPath DEF VerifyRollback, CompareLive, StoreBackfill, SaveProviderSyncTarget, Settings
<1> QED
  BY <1>1, <1>2, HolderPath, DoneAlong DEF PathInv

LEMMA LockedStepPath ==
  ASSUME PathInv, NEW m \in Managers, pc[m] \in LockedSteps, Step(m) PROVE PathInv'
<1>1. ~StoreDocument(m)
  BY StepsApart DEF StoreDocument
<1>2. Along(m)
  BY <1>1, SnapshotAlong, SaveAlong, SelectAlong, WriteAuthAlong, WriteConfigAlong, UndoAlong,
     CheckAlong, RestoreAlong, EndAlong DEF Step
<1> QED
  BY <1>2, StepPath

LEMMA StoreDocumentPath ==
  ASSUME PathInv, NEW m \in Managers, StoreDocument(m) PROVE PathInv'
<1>1. /\ IInv /\ IInv' /\ lock = None /\ pc[m] = "document"
      /\ UNCHANGED guard
  BY StepInv DEF PathInv, StoreDocument, Step
<1>2. Kept(settings'.profiles)
  <2>1. Kept(settings.profiles) /\ Kept(job[m].doc.profiles) /\ settings \in Settings
    BY <1>1 DEF PathInv, KeptCopies, IInv, TypeOK
  <2> QED
    BY <2>1 DEF StoreDocument, Settings
<1>3. \A n \in Managers : pc'[n] \notin LockedSteps
  <2>1. lock' = None
    BY DEF StoreDocument, Done
  <2> QED
    BY <1>1, <2>1 DEF IInv, LockOK
<1>4. \A n \in Managers : pc'[n] = "document" => pc[n] = "document" /\ job'[n] = job[n]
  BY <1>1 DEF StoreDocument, Done, IInv, TypeOK
<1>5. KeptCopies'
  BY <1>1, <1>2, <1>3, <1>4 DEF PathInv, KeptCopies
<1> QED
  BY <1>1, <1>3, <1>5 DEF PathInv

(* An operation takes the lock. *)
LEMMA BeginPath ==
  ASSUME PathInv, NEW m \in Managers, NEW kind \in AllOps, NEW target \in Profiles,
         NEW sel \in Settings, NEW new \in Texts,
         NEW step \in {"snapshot", "writeAuth", "storeBackfill", "saveTarget"},
         IF step = "snapshot"
           THEN /\ kind \in {"switch", "apply"} /\ sel = [settings EXCEPT !.active = target]
                /\ settings.enabled /\ target \in settings.present
           ELSE kind \notin {"switch", "apply"} /\ target = settings.active /\ Kept(sel.profiles),
         step = "saveTarget" => sel = settings,
         step = "storeBackfill" =>
           /\ settings.profiles[settings.active].mode # "aggregate"
           /\ sel = [settings EXCEPT !.profiles[settings.active] = Backfilled(@, live)],
         step = "writeAuth" => Requested(settings, live, new),
         Begin(m, kind, target, sel, new, step)
  PROVE  PathInv'
<1> DEFINE now == [settings |-> settings, live |-> live]
           j   == [kind |-> kind, target |-> target, sel |-> sel, new |-> new, old |-> live,
                   orig |-> now, start |-> now, restored |-> TRUE]
<1>1. IInv /\ IInv'
  BY BeginInv DEF PathInv
<1>2. /\ UNCHANGED <<settings, live, guard>> /\ foreign' = {} /\ lock = None /\ lock' = m
      /\ pc'[m] = step /\ job'[m] = j /\ settings \in Settings
  BY <1>1 DEF Begin, IInv, TypeOK
<1>3. \A n \in Managers \ {m} : pc'[n] = pc[n] /\ job'[n] = job[n] /\ pc'[n] \notin LockedSteps
  BY <1>1, <1>2 DEF Begin, IInv, TypeOK, LockOK
<1>4. step \in LockedSteps /\ step # "document" /\ step \in BeforeWrites
  BY DEF LockedSteps, WriteSteps, BeforeWrites
<1>5. Kept(settings.profiles)
  BY DEF PathInv, KeptCopies
<1>6. Kept(sel.profiles)
  BY <1>2, <1>5 DEF Settings
<1>7. KeptCopies'
  BY <1>2, <1>3, <1>4, <1>5, <1>6 DEF PathInv, KeptCopies
<1>8. SettingsPath(step, j, settings, {})
  BY DEF SettingsPath, SameProvider, Switching, WriteSteps
<1>9. LivePath(step, j, live, {})
  BY DEF LivePath, Switching, WriteSteps, RollbackSteps
<1> HIDE DEF j
<1>10. \A n \in Managers : pc'[n] \in LockedSteps =>
         /\ SettingsPath(pc'[n], job'[n], settings', foreign')
         /\ LivePath(pc'[n], job'[n], live', foreign')
  BY <1>2, <1>3, <1>8, <1>9
<1> QED
  BY <1>1, <1>7, <1>10 DEF PathInv

LEMMA AdmissionPath ==
  ASSUME PathInv, NEW m \in Managers,
         \/ \E p \in Profiles : SwitchProvider(m, p)
         \/ ApplyActiveProvider(m) \/ ClearLiveProvider(m) \/ SaveLiveFile(m)
         \/ BackfillActiveProvider(m) \/ LoadForTarget(m)
  PROVE  PathInv'
<1> DEFINE a == settings.active
<1>1. /\ settings \in Settings /\ live \in LiveFiles /\ a \in Profiles
      /\ settings.profiles[a] \in RelayProfile /\ live \in Texts /\ Kept(settings.profiles)
  BY DEF PathInv, KeptCopies, IInv, TypeOK, Settings, LiveFiles, Texts
<1>2. CASE \E p \in Profiles : SwitchProvider(m, p)
  <2>1. PICK p \in Profiles : SwitchProvider(m, p)
    BY <1>2
  <2>2. Selecting(p) \in Settings /\ Selecting(p) = [settings EXCEPT !.active = p]
    BY <1>1 DEF Selecting, Settings
  <2>3. /\ Begin(m, "switch", p, Selecting(p), live, "snapshot")
        /\ settings.enabled /\ p \in settings.present
    BY <2>1 DEF SwitchProvider, Admit, Refused
  <2> QED
    BY <1>1, <2>2, <2>3, BeginPath DEF AllOps
<1>3. CASE ApplyActiveProvider(m)
  <2>1. settings = [settings EXCEPT !.active = a]
    BY <1>1 DEF Settings
  <2>2. /\ Begin(m, "apply", a, settings, live, "snapshot")
        /\ settings.enabled /\ a \in settings.present
    BY <1>3 DEF ApplyActiveProvider, Admit, Refused
  <2> QED
    BY <1>1, <2>1, <2>2, BeginPath DEF AllOps
<1>4. CASE ClearLiveProvider(m)
  <2> DEFINE new == ClearedFiles(settings.profiles[a], live)
  <2>1. Begin(m, "clear", a, settings, new, "writeAuth") /\ a \in settings.present
    BY <1>4 DEF ClearLiveProvider, Admit, Refused
  <2>2. new \in Texts /\ Requested(settings, live, new)
    BY <1>1, <2>1, ClearedFilesType DEF Requested
  <2> HIDE DEF new
  <2> QED
    BY <1>1, <2>1, <2>2, BeginPath DEF AllOps
<1>5. CASE SaveLiveFile(m)
  <2>1. /\ live.config.tag < MaxTag =>
             [config |-> [live.config EXCEPT !.tag = @ + 1], auth |-> None] \in Texts
        /\ [config |-> None, auth |-> Login] \in Texts
    BY <1>1 DEF LiveFiles, Texts, ConfigText, AuthText
  <2>2. PICK new \in Texts : /\ Requested(settings, live, new)
                             /\ Begin(m, "saveLive", a, settings, new, "writeAuth")
    BY <1>5, <2>1 DEF SaveLiveFile, Admit, Requested
  <2> QED
    BY <1>1, <2>2, BeginPath DEF AllOps
<1>6. CASE BackfillActiveProvider(m)
  <2> DEFINE sel == [settings EXCEPT !.profiles[a] = Backfilled(@, live)]
  <2>1. /\ Begin(m, "backfill", a, sel, live, "storeBackfill")
        /\ settings.profiles[a].mode # "aggregate"
    BY <1>6 DEF BackfillActiveProvider, Admit, Refused
  <2>2. Backfilled(settings.profiles[a], live) \in RelayProfile
        /\ KeepsKind(a, Backfilled(settings.profiles[a], live))
    BY <1>1, <2>1, BackfilledType, BackfilledKept DEF Kept
  <2>3. sel \in Settings /\ Kept(sel.profiles)
    BY <1>1, <2>2 DEF Settings, Kept
  <2>4. sel = [settings EXCEPT !.profiles[a] = Backfilled(@, live)]
    OBVIOUS
  <2> HIDE DEF sel
  <2> QED
    BY <1>1, <2>1, <2>3, <2>4, BeginPath DEF AllOps
<1>7. CASE LoadForTarget(m)
  BY <1>1, <1>7, BeginPath DEF LoadForTarget, AllOps
<1> QED
  BY <1>2, <1>3, <1>4, <1>5, <1>6, <1>7

(* A thread that loads a view or reads a document is at a free step; nobody *)
(* else's place changes.                                                    *)
LEMMA FreePath ==
  ASSUME PathInv, IInv', NEW m \in Managers, pc'[m] \in FreeSteps,
         UNCHANGED <<settings, live, foreign>>,
         \A n \in Managers \ {m} : pc'[n] = pc[n] /\ job'[n] = job[n] /\ guard'[n] = guard[n],
         Kept(guard'[m].provider.profiles),
         pc'[m] = "document" => Kept(job'[m].doc.profiles)
  PROVE  PathInv'
<1>1. pc'[m] \notin LockedSteps
  BY StepsApart
<1>2. KeptCopies'
  BY <1>1 DEF PathInv, KeptCopies
<1> QED
  BY <1>1, <1>2 DEF PathInv

LEMMA RequestPath ==
  ASSUME PathInv, NEW m \in Managers, Request(m) PROVE PathInv'
<1>1. IInv /\ IInv' /\ Kept(guard[m].provider.profiles) /\ Kept(settings.profiles)
      /\ guard[m].provider \in ProviderDocument
  BY RequestInv DEF PathInv, KeptCopies, IInv, TypeOK
<1>2. CASE LoadLiveWorkspace(m)
  <2>1. guard'[m].provider.profiles = settings.profiles
    BY <1>1, <1>2 DEF LoadLiveWorkspace, ProviderRevision, IInv, TypeOK
  <2>2. /\ pc'[m] = "idle" /\ UNCHANGED <<settings, live, foreign>>
        /\ \A n \in Managers \ {m} :
             pc'[n] = pc[n] /\ job'[n] = job[n] /\ guard'[n] = guard[n]
    BY <1>1, <1>2 DEF LoadLiveWorkspace, IInv, TypeOK
  <2> QED
    BY <1>1, <2>1, <2>2, FreePath, StepsApart
<1>3. CASE \/ \E p \in Profiles : Reject(m, "switch", p)
           \/ \E kind \in {"apply", "clear", "saveLive", "backfill"} :
                Reject(m, kind, settings.active)
  BY <1>1, <1>3, FreePath, StepsApart DEF Reject
<1>4. CASE ValidateWorkspace(m)
  <2> DEFINE view == guard[m].provider
  <2>1. PICK doc \in EditsOf(view) \cup {Without(view, p) : p \in view.present} :
          job' = [job EXCEPT ![m] = [kind |-> "saveWorkspace", doc |-> doc, active |-> None]]
    BY <1>4 DEF ValidateWorkspace
  <2>2. Kept(doc.profiles)
    <3>1. CASE doc \in EditsOf(view)
      BY <1>1, <3>1, EditsKept
    <3>2. CASE \E p \in view.present : doc = Without(view, p)
      <4>1. PICK p \in view.present : doc = Without(view, p)
        BY <3>2
      <4>2. p \in Profiles /\ doc.profiles = [view.profiles EXCEPT ![p] = NewProfile(p)]
        BY <1>1, <4>1 DEF Without, ProviderDocument
      <4> QED
        BY <1>1, <4>2, KeptWithNew DEF ProviderDocument
    <3> QED BY <3>1, <3>2
  <2>3. /\ pc'[m] = "document" /\ job'[m].doc = doc
        /\ UNCHANGED <<settings, live, foreign, guard>>
        /\ \A n \in Managers \ {m} : pc'[n] = pc[n] /\ job'[n] = job[n]
    BY <1>1, <1>4, <2>1 DEF ValidateWorkspace, IInv, TypeOK
  <2> QED
    BY <1>1, <2>2, <2>3, FreePath, StepsApart
<1>5. CASE \E p \in Profiles, kind \in {"import", "importCcs"} : ReadForImport(m, kind, p)
  <2>1. PICK p \in Profiles, kind \in {"import", "importCcs"} : ReadForImport(m, kind, p)
    BY <1>5
  <2>2. job'[m].doc = [guard[m].provider EXCEPT !.present = @ \cup {p},
                                                !.profiles[p] = NewProfile(p)]
    BY <1>1, <2>1 DEF ReadForImport, IInv, TypeOK
  <2>3. Kept(job'[m].doc.profiles)
    BY <1>1, <2>2, KeptWithNew DEF ProviderDocument
  <2>4. /\ pc'[m] = "document" /\ UNCHANGED <<settings, live, foreign, guard>>
        /\ \A n \in Managers \ {m} : pc'[n] = pc[n] /\ job'[n] = job[n]
    BY <1>1, <2>1 DEF ReadForImport, IInv, TypeOK
  <2> QED
    BY <1>1, <2>3, <2>4, FreePath, StepsApart
<1>6. CASE \/ \E p \in Profiles : SwitchProvider(m, p)
           \/ ApplyActiveProvider(m) \/ ClearLiveProvider(m) \/ SaveLiveFile(m)
           \/ BackfillActiveProvider(m) \/ LoadForTarget(m)
  BY <1>6, AdmissionPath
<1> QED
  BY <1>2, <1>3, <1>4, <1>5, <1>6 DEF Request

(* The bridge and Codex are on record, and leave alone what is not theirs.  *)
LEMMA ForeignPath ==
  ASSUME PathInv, BridgeSetSettings \/ CodexWritesLive PROVE PathInv'
<1>1. /\ IInv /\ IInv' /\ settings \in Settings /\ UNCHANGED <<pc, job, guard>>
  BY ForeignInv DEF PathInv, IInv, TypeOK, BridgeSetSettings, CodexWritesLive
<1>2. SameProvider(settings', settings) /\ settings'.profiles = settings.profiles
  BY <1>1 DEF BridgeSetSettings, CodexWritesLive, SameProvider, Settings
<1>3. KeptCopies'
  BY <1>1, <1>2 DEF PathInv, KeptCopies
<1>4. /\ foreign' # {}
      /\ \/ live' = live /\ foreign' = foreign \cup {"settings"}
         \/ "live" \in foreign'
  BY DEF BridgeSetSettings, CodexWritesLive
<1>5. ASSUME NEW m \in Managers, pc'[m] \in LockedSteps
      PROVE  /\ SettingsPath(pc'[m], job'[m], settings', foreign')
             /\ LivePath(pc'[m], job'[m], live', foreign')
  <2>1. /\ SettingsPath(pc[m], job[m], settings, foreign)
        /\ LivePath(pc[m], job[m], live, foreign)
    BY <1>1, <1>5, HolderPath
  <2>2. SettingsPath(pc[m], job[m], settings', foreign')
    BY <1>2, <1>4, <2>1 DEF SettingsPath, SameProvider
  <2>3. LivePath(pc[m], job[m], live', foreign')
    BY <1>4, <2>1 DEF LivePath
  <2> QED
    BY <1>1, <2>2, <2>3
<1> QED
  BY <1>1, <1>3, <1>5 DEF PathInv

LEMMA CrashPath == ASSUME PathInv, Crash PROVE PathInv'
<1>1. IInv' /\ \A m \in Managers : pc'[m] = "idle"
  BY CrashInv DEF PathInv, Crash
<1>2. UNCHANGED <<settings, guard>>
  BY DEF Crash
<1>3. "idle" \notin LockedSteps
  BY StepsApart
<1> QED
  BY <1>1, <1>2, <1>3 DEF PathInv, KeptCopies

LEMMA NextPath == ASSUME PathInv, [Next]_vars PROVE PathInv'
<1>1. CASE UNCHANGED vars
  <2>1. IInv'
    BY <1>1, NextInv DEF PathInv
  <2>2. KeptCopies'
    BY <1>1 DEF PathInv, KeptCopies, vars
  <2> QED
    BY <1>1, <2>1, <2>2 DEF PathInv, vars
<1>2. ASSUME NEW m \in Managers, Step(m) PROVE PathInv'
  <2>1. CASE pc[m] \in LockedSteps
    BY <1>2, <2>1, LockedStepPath
  <2>2. CASE pc[m] \notin LockedSteps
    <3>1. StoreDocument(m)
      BY <1>2, <2>2
         DEF Step, SnapshotAndBackfill, SaveSelection, SelectFiles, WriteAuth, WriteConfig,
             UndoWrite, CheckWritten, RestoreSettings, RestoreAuth, RestoreConfig,
             VerifyRollback, CompareLive, StoreBackfill, SaveProviderSyncTarget,
             LockedSteps, WriteSteps, RollbackSteps
    <3> QED
      BY <3>1, StoreDocumentPath
  <2> QED BY <2>1, <2>2
<1>3. CASE BridgeSetSettings \/ CodexWritesLive \/ Crash
  BY <1>3, ForeignPath, CrashPath
<1> QED
  BY <1>1, <1>2, <1>3, RequestPath DEF Next

LEMMA InitPath == Init => PathInv
<1> SUFFICES ASSUME Init PROVE PathInv
  OBVIOUS
<1>1. IInv /\ \A m \in Managers : pc[m] = "idle"
  BY InitInv DEF Init
<1>2. settings.profiles = [p \in Profiles |-> NewProfile(p)]
  <2>1. PICK a \in Installed : settings = InitialSettings(a)
    BY DEF Init
  <2> QED
    BY <2>1 DEF InitialSettings
<1>3. \A m \in Managers : guard[m].provider.profiles = settings.profiles
  BY DEF Init, ProviderRevision
<1>4. Kept(settings.profiles)
  BY <1>2, NewProfileKept DEF Kept
<1> QED
  BY <1>1, <1>3, <1>4, StepsApart DEF PathInv, KeptCopies

(* Where an operation has brought the files at each of its steps.           *)
THEOREM Waypoints == Spec => []PathInv
BY InitPath, NextPath, PTL DEF Spec

-----------------------------------------------------------------------------
(* What the user wrote into config.toml. *)

(* The profile left behind has the lines of the user. *)
LEMMA LeavingTag ==
  ASSUME NEW s \in Settings, NEW p \in Profiles, NEW files \in LiveFiles,
         s.active # p, s.profiles[s.active].mode # "aggregate"
  PROVE  /\ Leaving(s, p, files).profiles[s.active].cfg.tag = files.config.tag
         /\ \A q \in Profiles \ {s.active} : Leaving(s, p, files).profiles[q] = s.profiles[q]
<1>1. Leaving(s, p, files).profiles
        = [s.profiles EXCEPT ![s.active] = Backfilled(s.profiles[s.active], files)]
  BY DEF Leaving, Settings
<1>2. s.active \in Profiles /\ s.profiles \in [Profiles -> RelayProfile]
  BY DEF Settings
<1>3. Backfilled(s.profiles[s.active], files).cfg.tag = files.config.tag
  BY DEF Backfilled, LiveFiles, ConfigText
<1> QED
  BY <1>1, <1>2, <1>3

(* A running switch has the lines of config.toml in that file or in the     *)
(* stored profile it leaves, at every step, so that a crash loses none.     *)
THEOREM EditsSurvive == Spec => []EditsAlwaysStored
<1>1. ASSUME PathInv PROVE EditsAlwaysStored
  <2> SUFFICES ASSUME NEW m \in Managers, lock = m, job[m].kind = "switch", foreign = {},
                      job[m].start.settings.active # job[m].target,
                      job[m].start.settings.profiles[job[m].start.settings.active].mode # "aggregate",
                      live.config # job[m].start.live.config
               PROVE  settings.profiles[job[m].start.settings.active].cfg.tag
                        = job[m].start.live.config.tag
    BY DEF EditsAlwaysStored
  <2> DEFINE j == job[m]
             s == j.start.settings
  <2>1. pc[m] \in LockedSteps
    BY <1>1 DEF PathInv, IInv, LockOK
  <2>2. /\ SettingsPath(pc[m], j, settings, foreign) /\ LivePath(pc[m], j, live, foreign)
        /\ j \in Job /\ JobOK(m) /\ Switching(j) /\ (IsSwitch(m) <=> Switching(j))
    BY <1>1, <2>1, HolderPath DEF Switching
  <2>3. pc[m] = "check"
    BY <2>1, <2>2
       DEF LivePath, JobOK, LockedSteps, WriteSteps, RollbackSteps, BeforeWrites, Overwritten
  <2>4. /\ settings.profiles = Leaving(s, j.target, j.orig.live).profiles
        /\ j.orig.live = j.start.live
    BY <2>2, <2>3 DEF SettingsPath, LivePath, SameProvider, WriteSteps
  <2>5. s \in Settings /\ j.target \in Profiles /\ j.start.live \in LiveFiles
    BY <2>2, JobFields
  <2>6. Leaving(s, j.target, j.start.live).profiles[s.active].cfg.tag = j.start.live.config.tag
    BY <2>5, LeavingTag
  <2> QED
    BY <2>4, <2>6
<1>2. PathInv => EditsAlwaysStored
  BY <1>1
<1> QED
  BY <1>2, Waypoints, PTL

(* An operation that reports success has come through the check, or it is   *)
(* not a switch.                                                            *)
LEMMA SuccessChecked ==
  ASSUME PathInv, [Next]_vars, NEW m \in Managers, EndsWith(m, {"ok"}), IsSwitch(m)
  PROVE  /\ pc[m] = "check" /\ pc[m] \in LockedSteps /\ CheckWritten(m)
         /\ UNCHANGED <<settings, live>>
<1>1. IInv /\ pc[m] # "idle" /\ pc'[m] = "idle" /\ last' = "ok"
  BY DEF PathInv, EndsWith
<1>2. ~(BridgeSetSettings \/ CodexWritesLive \/ Crash \/ UNCHANGED vars)
  BY <1>1 DEF BridgeSetSettings, CodexWritesLive, Crash, vars
<1>3. pc[m] \in LockedSteps
  <2>1. CASE pc[m] = "document"
    BY <1>1, <2>1 DEF IInv, JobOK, DocumentJob, IsSwitch
  <2> QED
    BY <1>1, <2>1 DEF IInv, TypeOK, FreeSteps
<1>4. ASSUME NEW n \in Managers, Request(n) PROVE FALSE
  <2>1. lock # None
    BY <1>1, <1>3, Holder
  <2>2. n # m
    BY <1>1, <1>4, <2>1
       DEF Request, LoadLiveWorkspace, SwitchProvider, Reject, ApplyActiveProvider,
           ClearLiveProvider, SaveLiveFile, BackfillActiveProvider, LoadForTarget,
           ValidateWorkspace, ReadForImport, Admit, Begin
  <2>3. pc' = [pc EXCEPT ![n] = "document"]
    BY <1>1, <1>4, <2>1
       DEF Request, LoadLiveWorkspace, SwitchProvider, Reject, ApplyActiveProvider,
           ClearLiveProvider, SaveLiveFile, BackfillActiveProvider, LoadForTarget,
           ValidateWorkspace, ReadForImport, Admit, Begin
  <2> QED
    BY <1>1, <2>2, <2>3 DEF IInv, TypeOK
<1>5. PICK n \in Managers : Step(n)
  BY <1>2, <1>4 DEF Next
<1>6. n = m
  <2>1. lock = m /\ m # None
    BY <1>1, <1>3, Holder
  <2>2. CASE pc[n] \in LockedSteps
    BY <1>1, <2>1, <2>2, Holder
  <2>3. CASE pc[n] \notin LockedSteps
    BY <1>5, <2>1, <2>3
       DEF Step, SnapshotAndBackfill, SaveSelection, SelectFiles, WriteAuth, WriteConfig,
           UndoWrite, CheckWritten, RestoreSettings, RestoreAuth, RestoreConfig, StoreDocument,
           VerifyRollback, CompareLive, StoreBackfill, SaveProviderSyncTarget,
           LockedSteps, WriteSteps, RollbackSteps
  <2> QED BY <2>2, <2>3
<1>7. ASSUME NEW step, Goto(m, step) PROVE step = "idle" /\ last = "ok"
  BY <1>1, <1>7 DEF Goto, IInv, TypeOK
<1>8. CheckWritten(m)
  <2>1. ~(StoreBackfill(m) \/ SaveProviderSyncTarget(m) \/ CompareLive(m) \/ StoreDocument(m))
    BY <1>1, <1>3, StepsApart
       DEF StoreBackfill, SaveProviderSyncTarget, CompareLive, StoreDocument, IInv, JobOK
  <2>2. ~(SnapshotAndBackfill(m) \/ SaveSelection(m) \/ VerifyRollback(m))
    BY <1>1, <1>7 DEF SnapshotAndBackfill, SaveSelection, VerifyRollback, Done, Continue
  <2>3. ~(SelectFiles(m) \/ WriteAuth(m) \/ WriteConfig(m) \/ UndoWrite(m))
    BY <1>7 DEF SelectFiles, WriteAuth, WriteConfig, UndoWrite, Continue, AfterFailedWrite
  <2>4. ~(RestoreSettings(m) \/ RestoreAuth(m) \/ RestoreConfig(m))
    BY <1>7 DEF RestoreSettings, RestoreAuth, RestoreConfig
  <2> QED
    BY <1>5, <1>6, <2>1, <2>2, <2>3, <2>4 DEF Step
<1> QED
  BY <1>3, <1>8 DEF CheckWritten

(* A switch that reports success changed only the profile it left, and that *)
(* one now has the lines config.toml had.                                   *)
THEOREM EditsAreKept == Spec => SwitchKeepsLiveEdits
<1> DEFINE Keeps ==
      \A m \in Managers :
        EndsWith(m, {"ok"}) /\ job[m].kind = "switch" /\ foreign = {} =>
          LET s    == job[m].start.settings
              prev == s.active
          IN /\ \A q \in Profiles \ {prev} : settings'.profiles[q] = s.profiles[q]
             /\ prev # job[m].target /\ s.profiles[prev].mode # "aggregate" =>
                  settings'.profiles[prev].cfg.tag = job[m].start.live.config.tag
<1>1. ASSUME PathInv, [Next]_vars PROVE [Keeps]_vars
  <2> SUFFICES ASSUME NEW m \in Managers, EndsWith(m, {"ok"}), job[m].kind = "switch", foreign = {}
               PROVE  LET s    == job[m].start.settings
                          prev == s.active
                      IN /\ \A q \in Profiles \ {prev} : settings'.profiles[q] = s.profiles[q]
                         /\ prev # job[m].target /\ s.profiles[prev].mode # "aggregate" =>
                              settings'.profiles[prev].cfg.tag = job[m].start.live.config.tag
    OBVIOUS
  <2> DEFINE j == job[m]
             s == j.start.settings
  <2>1. IsSwitch(m) /\ Switching(j)
    BY DEF IsSwitch, Switching
  <2>2. pc[m] = "check" /\ pc[m] \in LockedSteps /\ UNCHANGED <<settings, live>>
    BY <1>1, <2>1, SuccessChecked
  <2>3. /\ SettingsPath("check", j, settings, foreign) /\ LivePath("check", j, live, foreign)
        /\ j \in Job
    BY <1>1, <2>2, HolderPath
  <2>4. /\ settings.profiles = Leaving(s, j.target, j.start.live).profiles
    BY <2>1, <2>3 DEF SettingsPath, LivePath, SameProvider, WriteSteps
  <2>5. CASE s.active = j.target \/ s.profiles[s.active].mode = "aggregate"
    <3>1. settings.profiles = s.profiles
      BY <2>3, <2>4, <2>5, JobFields DEF Leaving, Settings
    <3> QED BY <2>2, <2>5, <3>1
  <2>6. CASE ~(s.active = j.target \/ s.profiles[s.active].mode = "aggregate")
    <3>1. s \in Settings /\ j.target \in Profiles /\ j.start.live \in LiveFiles
      BY <2>3, JobFields
    <3>2. /\ settings.profiles[s.active].cfg.tag = j.start.live.config.tag
          /\ \A q \in Profiles \ {s.active} : settings.profiles[q] = s.profiles[q]
      <4>1. /\ Leaving(s, j.target, j.start.live).profiles[s.active].cfg.tag
                 = j.start.live.config.tag
            /\ \A q \in Profiles \ {s.active} :
                 Leaving(s, j.target, j.start.live).profiles[q] = s.profiles[q]
        BY <2>6, <3>1, LeavingTag
      <4> HIDE DEF s, j
      <4> QED BY <2>4, <4>1
    <3> QED
      BY <2>2, <3>2
  <2> QED BY <2>5, <2>6
<1>2. PathInv /\ [Next]_vars => [Keeps]_vars
  BY <1>1
<1> QED
  BY <1>2, Waypoints, PTL DEF Spec, SwitchKeepsLiveEdits

-----------------------------------------------------------------------------
(* Whose the profiles and the live files are.  One thing is assumed: while  *)
(* a thread holds a document imported from cc-switch, which names the       *)
(* active profile it saw, no other thread changes that profile.             *)
ImportsAlone == "importCcs" \in Ops => \A m, n \in Managers : m = n

LEMMA NewProfileUnmixed ==
  ASSUME NEW p \in Profiles
  PROVE  Owned(p, NewProfile(p)) /\ (Mode[p] = "official" => NewProfile(p).auth \notin Profiles)
BY DEF NewProfile, Owned, Modes, EmptyConfig

LEMMA UnmixedWithNew ==
  ASSUME NEW f \in [Profiles -> RelayProfile], NEW p \in Profiles, Unmixed(f)
  PROVE  Unmixed([f EXCEPT ![p] = NewProfile(p)])
BY NewProfileUnmixed DEF Unmixed

LEMMA BackfilledUnmixed ==
  ASSUME NEW p \in Profiles, NEW prof \in RelayProfile, NEW files \in LiveFiles,
         Owned(p, prof), LiveFits(p, files)
  PROVE  /\ Owned(p, Backfilled(prof, files))
         /\ Mode[p] = "official" => Backfilled(prof, files).auth \notin Profiles
<1> DEFINE b == Backfilled(prof, files)
<1>1. /\ b.cfg = files.config \/ b.cfg = [files.config EXCEPT !.tok = None]
      /\ b.apiKey \in {prof.apiKey, files.config.tok}
      /\ b.auth \in {files.auth, NoAuth, files.config.tok}
      /\ files.config.tok = None => b.auth = files.auth
      /\ b.auth = files.config.tok => b.auth = files.auth \/ files.config.tok # None
  BY DEF Backfilled, WithoutKey
<1>2. b.cfg.ep = files.config.ep /\ b.cfg.tok \in {files.config.tok, None}
  BY <1>1 DEF LiveFiles, ConfigText
<1>3. files.auth \in AuthText
  BY DEF LiveFiles
<1> SUFFICES Owned(p, b) /\ (Mode[p] = "official" => b.auth \notin Profiles)
  OBVIOUS
<1> HIDE DEF b
<1> QED
  BY <1>1, <1>2, <1>3 DEF LiveFits, ConfigFits, AuthFits, Owned, AuthText

LEMMA LeavingUnmixed ==
  ASSUME NEW s \in Settings, NEW p \in Profiles, NEW files \in LiveFiles, Unmixed(s.profiles),
         LiveFits(s.active, files)
  PROVE  Unmixed(Leaving(s, p, files).profiles)
<1>1. s.active \in Profiles /\ s.profiles \in [Profiles -> RelayProfile]
  BY DEF Settings
<1>2. CASE s.active = p \/ s.profiles[s.active].mode = "aggregate"
  <2>1. Leaving(s, p, files).profiles = s.profiles
    BY <1>2 DEF Leaving, Settings
  <2> QED BY <2>1
<1>3. CASE ~(s.active = p \/ s.profiles[s.active].mode = "aggregate")
  <2> DEFINE b == Backfilled(s.profiles[s.active], files)
  <2>1. Leaving(s, p, files).profiles = [s.profiles EXCEPT ![s.active] = b]
    BY <1>3 DEF Leaving, Settings
  <2>2. Owned(s.active, b) /\ (Mode[s.active] = "official" => b.auth \notin Profiles)
    <3>1. s.profiles[s.active] \in RelayProfile /\ Owned(s.active, s.profiles[s.active])
      BY <1>1 DEF Unmixed
    <3> QED
      BY <1>1, <3>1, BackfilledUnmixed
  <2> HIDE DEF b
  <2> QED
    BY <1>1, <2>1, <2>2 DEF Unmixed
<1> QED BY <1>2, <1>3

LEMMA EditsUnmixed ==
  ASSUME NEW doc \in ProviderDocument, Unmixed(doc.profiles), NEW edit \in EditsOf(doc)
  PROVE  Unmixed(edit.profiles)
<1>1. PICK p \in doc.present : edit = [doc EXCEPT !.profiles[p].cfg.tag = @ + 1]
  BY DEF EditsOf
<1>2. p \in Profiles /\ doc.profiles \in [Profiles -> RelayProfile]
  BY DEF ProviderDocument
<1>3. ASSUME NEW q \in Profiles
      PROVE  /\ edit.profiles[q].cfg.ep = doc.profiles[q].cfg.ep
             /\ edit.profiles[q].cfg.tok = doc.profiles[q].cfg.tok
             /\ edit.profiles[q].apiKey = doc.profiles[q].apiKey
             /\ edit.profiles[q].auth = doc.profiles[q].auth
  BY <1>1, <1>2 DEF ProviderDocument, RelayProfile, ConfigText
<1> QED
  BY <1>3 DEF Unmixed, Owned

(* What is written for a profile is its own, wherever it is written. *)
LEMMA SelectedFits ==
  ASSUME NEW p \in Profiles, NEW prof \in RelayProfile, NEW files \in LiveFiles,
         KeepsKind(p, prof), Owned(p, prof), Mode[p] = "official" => prof.auth \notin Profiles
  PROVE  LET texts == SelectedFiles(p, prof, files)
         IN  /\ texts.config # None /\ ConfigFits(p, texts.config)
             /\ AuthFits(p, IF texts.auth = None THEN files.auth ELSE texts.auth)
<1> DEFINE texts == SelectedFiles(p, prof, files)
<1>0. prof.auth \in AuthText /\ files.auth \in AuthText
  BY DEF RelayProfile, LiveFiles
<1>1. CASE prof.mode = "official"
  <2>1. /\ texts.config = WithoutProvider(files.config) /\ texts.auth = ClearedAuth(prof, files)
    BY <1>1 DEF SelectedFiles, ClearedFiles
  <2>2. texts.config # None
    BY <2>1 DEF WithoutProvider, LiveFiles, ConfigText
  <2>3. ConfigFits(p, texts.config)
    BY <2>1 DEF ConfigFits, WithoutProvider
  <2>4. AuthFits(p, IF texts.auth = None THEN files.auth ELSE texts.auth)
    BY <1>0, <1>1, <2>1 DEF ClearedAuth, AuthFits, AuthText, Owned, KeepsKind
  <2> QED
    BY <2>2, <2>3, <2>4
<1>2. CASE prof.mode # "official"
  <2>1. texts = AppliedFiles(p, prof, files) /\ texts \in LiveFiles
    BY <1>2, AppliedFilesType DEF SelectedFiles
  <2>2. /\ texts.config.ep = Endpoint(p, prof)
        /\ texts.config.tok = IF prof.mode = "pure" THEN None ELSE ApiKey(p, prof)
        /\ texts.auth = IF prof.mode = "pure" THEN prof.auth
                        ELSE WithoutKey(IF prof.auth = NoAuth THEN files.auth ELSE prof.auth)
    BY <2>1 DEF AppliedFiles
  <2>3. texts.config # None /\ texts.auth # None
    BY <2>1 DEF LiveFiles, AuthText
  <2>4. Mode[p] # "official"
    BY <1>2 DEF KeepsKind
  <2>5. Endpoint(p, prof) \in {p, None} /\ ApiKey(p, prof) \in {p, None}
    BY DEF Endpoint, ApiKey, Owned
  <2>6. ConfigFits(p, texts.config)
    BY <2>2, <2>4, <2>5 DEF ConfigFits
  <2>7. texts.auth \in {p, Login, NoAuth}
    BY <1>0, <2>2 DEF WithoutKey, Owned, AuthText
  <2> QED
    BY <2>3, <2>4, <2>6, <2>7 DEF AuthFits
<1> QED BY <1>1, <1>2

(* So is what an operation on the live files of the active profile writes.  *)
LEMMA RequestedFits ==
  ASSUME NEW s \in Settings, NEW files \in LiveFiles, NEW new, Requested(s, files, new),
         Unmixed(s.profiles), LiveFits(s.active, files)
  PROVE  /\ new.config # None => ConfigFits(s.active, new.config)
         /\ AuthFits(s.active, IF new.auth = None THEN files.auth ELSE new.auth)
<1> DEFINE a    == s.active
           prof == s.profiles[a]
<1>1. /\ a \in Profiles /\ prof \in RelayProfile /\ Owned(a, prof)
      /\ Mode[a] = "official" => prof.auth \notin Profiles
  BY DEF Settings, Unmixed
<1>2. CASE new = ClearedFiles(prof, files)
  <2>1. new.config = WithoutProvider(files.config) /\ new.auth = ClearedAuth(prof, files)
    BY <1>2 DEF ClearedFiles
  <2>2. ConfigFits(a, new.config)
    BY <2>1 DEF ConfigFits, WithoutProvider
  <2>3. new.auth \in {prof.auth, NoAuth, None}
    BY <2>1 DEF ClearedAuth
  <2> QED
    BY <1>1, <2>2, <2>3 DEF LiveFits, AuthFits, Owned
<1>3. CASE new = [config |-> [files.config EXCEPT !.tag = @ + 1], auth |-> None]
  <2>1. ConfigFits(a, new.config)
    BY <1>3 DEF LiveFits, ConfigFits, LiveFiles, ConfigText
  <2> QED
    BY <1>3, <2>1 DEF LiveFits
<1>4. CASE new = [config |-> None, auth |-> Login]
  BY <1>1, <1>4 DEF AuthFits
<1> QED
  BY <1>2, <1>3, <1>4 DEF Requested

(* Nothing takes a taint back. *)
LEMMA TaintStays == ASSUME IInv, [Next]_vars, tainted PROVE tainted'
<1>1. ASSUME NEW m \in Managers, Step(m) PROVE tainted'
  <2>1. CASE VerifyRollback(m) \/ CompareLive(m)
    BY <2>1, Zenon DEF VerifyRollback, CompareLive
  <2>2. CASE StoreDocument(m)
    BY <2>2, Zenon DEF StoreDocument
  <2>3. CASE ~(VerifyRollback(m) \/ CompareLive(m) \/ StoreDocument(m))
    BY <1>1, <2>3
       DEF Step, SnapshotAndBackfill, SaveSelection, SelectFiles, WriteAuth, WriteConfig,
           UndoWrite, CheckWritten, RestoreSettings, RestoreAuth, RestoreConfig,
           StoreBackfill, SaveProviderSyncTarget
  <2> QED BY <2>1, <2>2, <2>3
<1>2. ASSUME NEW m \in Managers, Request(m) PROVE tainted'
  BY <1>2
     DEF Request, LoadLiveWorkspace, SwitchProvider, Reject, ApplyActiveProvider,
         ClearLiveProvider, SaveLiveFile, BackfillActiveProvider, LoadForTarget,
         ValidateWorkspace, ReadForImport, Admit, Begin
<1>3. CASE BridgeSetSettings \/ CodexWritesLive \/ Crash
  BY <1>3 DEF BridgeSetSettings, CodexWritesLive, Crash
<1> QED
  BY <1>1, <1>2, <1>3 DEF Next, vars

(* What OwnerInv says of the holder, and what a step of its must keep.      *)
OwnerAlong(m) ==
  ~tainted' =>
    /\ Unmixed(settings'.profiles)
    /\ pc'[m] \notin LockedSteps => LiveFits(settings'.active, live')
    /\ pc'[m] \in LockedSteps =>
         /\ Unmixed(job'[m].sel.profiles) /\ Unmixed(job'[m].orig.settings.profiles)
         /\ Unmixed(job'[m].start.settings.profiles)
         /\ OwnerPath(pc'[m], job'[m], live')

LEMMA HolderOwner ==
  ASSUME PathInv, OwnerInv, ~tainted, NEW m \in Managers, pc[m] \in LockedSteps
  PROVE  /\ Unmixed(settings.profiles) /\ Unmixed(job[m].sel.profiles)
         /\ Unmixed(job[m].orig.settings.profiles) /\ Unmixed(job[m].start.settings.profiles)
         /\ OwnerPath(pc[m], job[m], live)
BY DEF OwnerInv, UnmixedCopies

LEMMA OwnerStep ==
  ASSUME PathInv, OwnerInv, ImportsAlone, NEW m \in Managers, pc[m] \in LockedSteps, Step(m),
         OwnerAlong(m)
  PROVE  OwnerInv'
<1>1. IInv /\ IInv' /\ lock = m /\ m # None
  BY StepInv, Holder DEF PathInv
<1>2. /\ UNCHANGED <<guard, foreign>>
      /\ \A n \in Managers \ {m} : pc'[n] = pc[n] /\ job'[n] = job[n]
  BY <1>1, StepShape
<1>3. \A n \in Managers \ {m} : pc[n] \notin LockedSteps
  BY <1>1, Holder
<1>4. pc'[m] # "document"
  BY <1>1, StepsApart
     DEF Step, SnapshotAndBackfill, SaveSelection, SelectFiles, WriteAuth, WriteConfig,
         UndoWrite, CheckWritten, RestoreSettings, RestoreAuth, RestoreConfig,
         VerifyRollback, CompareLive, StoreBackfill, SaveProviderSyncTarget, StoreDocument,
         Continue, Done, Goto, AfterFailedWrite, IInv, TypeOK
<1>5. ASSUME NEW n \in Managers PROVE ImportOK(n)'
  <2>1. CASE n = m
    BY <1>4, <2>1 DEF ImportOK
  <2>2. CASE n # m
    <3>1. "importCcs" \notin Ops
      BY <2>2 DEF ImportsAlone
    <3>2. ImportOK(n) /\ pc'[n] = pc[n] /\ job'[n] = job[n]
      BY <1>2, <2>2 DEF OwnerInv
    <3> QED
      BY <3>1, <3>2 DEF ImportOK
  <2> QED BY <2>1, <2>2
<1>6. ASSUME ~tainted'
      PROVE  /\ UnmixedCopies'
             /\ lock' = None => LiveFits(settings'.active, live')
             /\ \A n \in Managers : pc'[n] \in LockedSteps => OwnerPath(pc'[n], job'[n], live')
  <2>1. ~tainted
    BY <1>1, <1>6, TaintStays DEF Next
  <2>2. UnmixedCopies
    BY <2>1 DEF OwnerInv
  <2>3. UnmixedCopies'
    BY <1>2, <1>3, <1>4, <1>6, <2>2 DEF UnmixedCopies, OwnerAlong
  <2>4. lock' = None => pc'[m] \notin LockedSteps
    BY <1>1 DEF IInv, LockOK
  <2> QED
    BY <1>2, <1>3, <1>6, <2>3, <2>4 DEF OwnerAlong
<1> QED
  BY <1>5, <1>6 DEF OwnerInv

(* Most steps only go on, and the next one makes fewer claims. *)
LEMMA OnwardOwner ==
  ASSUME PathInv, OwnerInv, NEW m \in Managers, pc[m] \in LockedSteps,
         NEW step \in LockedSteps, Continue(m, step), UNCHANGED tainted,
         settings'.profiles \in {settings.profiles, job[m].sel.profiles},
         ~tainted => OwnerPath(step, job[m], live')
  PROVE  OwnerAlong(m)
<1>1. pc'[m] = step /\ job' = job
  BY DEF Continue, Goto, PathInv, IInv, TypeOK
<1> QED
  BY <1>1, HolderOwner DEF OwnerAlong

LEMMA LateOwner ==
  ASSUME NEW step, NEW next \in RollbackSteps \cup {"compare", "undo"}, NEW j, NEW files, NEW new,
         OwnerPath(step, j, files)
  PROVE  OwnerPath(next, j, new)
<1>1. next \notin BeforeWrites /\ next \notin {"writeAuth", "writeConfig", "check"}
  BY DEF BeforeWrites, RollbackSteps
<1> QED
  BY <1>1 DEF OwnerPath

(* An operation that ends before any of its writes leaves the active        *)
(* profile as it was, and the live files its own.                           *)
LEMMA UnwrittenOwner ==
  ASSUME PathInv, OwnerInv, NEW m \in Managers, pc[m] \in {"snapshot", "save", "storeBackfill", "saveTarget"},
         NEW outcome, Done(m, outcome), UNCHANGED <<live, tainted>>,
         settings'.profiles \in {settings.profiles, job[m].sel.profiles},
         settings'.active = settings.active
  PROVE  OwnerAlong(m)
<1>1. pc[m] \in LockedSteps /\ pc'[m] \notin LockedSteps /\ pc[m] \in BeforeWrites
  BY StepsApart DEF Done, LockedSteps, BeforeWrites, PathInv, IInv, TypeOK
<1>2. settings.active = job[m].start.settings.active
  BY <1>1, HolderPath DEF SettingsPath, SameProvider, JobOK
<1>3. ~tainted => LiveFits(settings.active, live)
  BY <1>1, <1>2, HolderOwner DEF OwnerPath
<1> QED
  BY <1>1, <1>3, HolderOwner DEF OwnerAlong

LEMMA SnapshotOwner ==
  ASSUME PathInv, OwnerInv, NEW m \in Managers, SnapshotAndBackfill(m) PROVE OwnerAlong(m)
<1> DEFINE j == job[m]
           s == j.start.settings
<1>1. pc[m] = "snapshot" /\ pc[m] \in LockedSteps /\ UNCHANGED <<settings, live, tainted>>
      /\ IInv
  BY DEF SnapshotAndBackfill, LockedSteps, PathInv
<1>2. CASE Done(m, "unchanged")
  BY <1>1, <1>2, UnwrittenOwner
<1>3. CASE Goto(m, "save")
  <2>1. pc'[m] = "save" /\ "save" \in LockedSteps
    BY <1>1, <1>3 DEF Goto, IInv, TypeOK, LockedSteps
  <2>2. Along(m) /\ j \in Job /\ live \in LiveFiles
    BY <1>1, SnapshotAlong, HolderPath
  <2>3. /\ job'[m].start = j.start /\ job'[m].target = j.target
        /\ job'[m].orig = [settings |-> settings, live |-> live]
    BY <1>1, <1>3, <2>2 DEF SnapshotAndBackfill, Goto, Done, IInv, TypeOK, Job
  <2>4. job'[m].sel = Leaving(s, j.target, live)
    BY <2>1, <2>2, <2>3 DEF Along, SettingsPath
  <2>5. ASSUME ~tainted'
        PROVE  /\ Unmixed(job'[m].sel.profiles) /\ OwnerPath("save", job'[m], live')
               /\ Unmixed(settings.profiles) /\ Unmixed(s.profiles)
    <3>1. /\ Unmixed(settings.profiles) /\ Unmixed(s.profiles) /\ OwnerPath("snapshot", j, live)
      BY <1>1, <2>5, HolderOwner
    <3>2. LiveFits(s.active, live) /\ LiveFits(s.active, j.start.live)
      BY <3>1 DEF OwnerPath, BeforeWrites
    <3>3. Unmixed(job'[m].sel.profiles)
      BY <2>2, <2>4, <3>1, <3>2, JobFields, LeavingUnmixed
    <3>4. OwnerPath("save", job'[m], live')
      BY <1>1, <2>3, <3>2 DEF OwnerPath
    <3> QED BY <3>1, <3>3, <3>4
  <2> QED
    BY <1>1, <2>1, <2>3, <2>5 DEF OwnerAlong
<1> QED
  BY <1>2, <1>3 DEF SnapshotAndBackfill

LEMMA SaveOwner ==
  ASSUME PathInv, OwnerInv, NEW m \in Managers, SaveSelection(m) PROVE OwnerAlong(m)
<1>1. pc[m] = "save" /\ pc[m] \in LockedSteps /\ UNCHANGED <<live, tainted>>
  BY DEF SaveSelection, LockedSteps
<1>2. CASE settings' = job[m].sel /\ Continue(m, "select")
  <2>1. ~tainted => OwnerPath("select", job[m], live)
    BY <1>1, HolderOwner DEF OwnerPath, BeforeWrites
  <2> QED
    BY <1>1, <1>2, <2>1, OnwardOwner DEF LockedSteps
<1>3. CASE Done(m, "unchanged") /\ UNCHANGED settings
  BY <1>1, <1>3, UnwrittenOwner
<1> QED
  BY <1>2, <1>3 DEF SaveSelection

LEMMA SelectOwner ==
  ASSUME PathInv, OwnerInv, NEW m \in Managers, SelectFiles(m) PROVE OwnerAlong(m)
<1> DEFINE j   == job[m]
           p   == settings.active
           new == SelectedFiles(p, settings.profiles[p], live)
<1>1. pc[m] = "select" /\ pc[m] \in LockedSteps /\ UNCHANGED <<settings, live, tainted>> /\ IInv
  BY DEF SelectFiles, LockedSteps, PathInv
<1>2. /\ Switching(j) /\ SettingsPath("select", j, settings, foreign) /\ j \in Job
      /\ live \in LiveFiles /\ settings \in Settings /\ Kept(settings.profiles)
  BY <1>1, HolderPath DEF JobOK
<1>3. CASE /\ job' = [job EXCEPT ![m].sel = settings, ![m].new = new]
           /\ Goto(m, "writeAuth")
  <2>1. /\ pc'[m] = "writeAuth" /\ job'[m].sel = settings /\ job'[m].new = new
        /\ job'[m].start = j.start /\ job'[m].orig = j.orig /\ job'[m].target = j.target
        /\ job'[m].kind = j.kind
    BY <1>1, <1>2, <1>3 DEF Goto, IInv, TypeOK, Job
  <2>2. p = j.target /\ p \in Profiles
    <3>1. p = Leaving(j.start.settings, j.target, j.orig.live).active
      BY <1>2 DEF SettingsPath, SameProvider
    <3> QED
      BY <1>2, <3>1, JobFields DEF Leaving, Settings
  <2>3. ASSUME ~tainted'
        PROVE  /\ OwnerPath("writeAuth", job'[m], live) /\ Unmixed(settings.profiles)
               /\ Unmixed(j.orig.settings.profiles) /\ Unmixed(j.start.settings.profiles)
    <3>1. /\ Unmixed(settings.profiles) /\ OwnerPath("select", j, live)
          /\ Unmixed(j.orig.settings.profiles) /\ Unmixed(j.start.settings.profiles)
      BY <1>1, <2>3, HolderOwner
    <3>2. /\ new.config # None /\ ConfigFits(p, new.config)
          /\ AuthFits(p, IF new.auth = None THEN live.auth ELSE new.auth)
      <4>1. /\ KeepsKind(p, settings.profiles[p]) /\ Owned(p, settings.profiles[p])
            /\ Mode[p] = "official" => settings.profiles[p].auth \notin Profiles
            /\ settings.profiles[p] \in RelayProfile
        BY <1>2, <2>2, <3>1 DEF Kept, Unmixed, Settings
      <4> QED
        BY <1>2, <2>2, <4>1, SelectedFits
    <3> HIDE DEF new, p
    <3>3. LiveFits(j.start.settings.active, live)
      BY <3>1 DEF OwnerPath, BeforeWrites
    <3> QED
      BY <2>1, <2>2, <3>1, <3>2, <3>3 DEF OwnerPath, LiveFits
  <2>4. "writeAuth" \in LockedSteps
    BY DEF LockedSteps, WriteSteps
  <2> QED
    BY <1>1, <2>1, <2>3, <2>4 DEF OwnerAlong
<1>4. CASE Continue(m, "rbSettings")
  <2>1. ~tainted => OwnerPath("rbSettings", j, live)
    BY <1>1, HolderOwner, LateOwner DEF RollbackSteps
  <2> QED
    BY <1>1, <1>4, <2>1, OnwardOwner DEF LockedSteps, RollbackSteps
<1> QED
  BY <1>3, <1>4 DEF SelectFiles

(* A write that failed. *)
LEMMA FailedWriteOwner ==
  ASSUME PathInv, OwnerInv, NEW m \in Managers, pc[m] \in WriteSteps,
         Continue(m, AfterFailedWrite(m)), UNCHANGED <<settings, tainted>>
  PROVE  OwnerAlong(m)
<1>1. pc[m] \in LockedSteps
  BY StepsApart
<1>2. AfterFailedWrite(m) \in {"rbSettings", "compare"}
  BY DEF AfterFailedWrite
<1>3. AfterFailedWrite(m) \in LockedSteps /\ AfterFailedWrite(m) \in RollbackSteps \cup {"compare"}
  BY <1>2 DEF LockedSteps, RollbackSteps
<1>4. ~tainted => OwnerPath(AfterFailedWrite(m), job[m], live')
  BY <1>1, <1>3, HolderOwner, LateOwner
<1> QED
  BY <1>1, <1>3, <1>4, OnwardOwner

LEMMA WriteAuthOwner ==
  ASSUME PathInv, OwnerInv, NEW m \in Managers, WriteAuth(m) PROVE OwnerAlong(m)
<1> DEFINE j == job[m]
           k == job'[m]
<1>1. /\ pc[m] = "writeAuth" /\ pc[m] \in LockedSteps /\ pc[m] \in WriteSteps /\ IInv
      /\ UNCHANGED <<settings, tainted>>
  BY DEF WriteAuth, LockedSteps, WriteSteps, PathInv
<1>2. j \in Job /\ live \in LiveFiles
  BY <1>1, HolderPath
<1>3. CASE /\ live' = IF j.new.auth = None THEN live ELSE [live EXCEPT !.auth = j.new.auth]
           /\ job' = [job EXCEPT ![m].old = live]
           /\ Goto(m, "writeConfig")
  <2>1. /\ pc'[m] = "writeConfig" /\ k.sel = j.sel /\ k.start = j.start /\ k.orig = j.orig
        /\ k.new = j.new /\ k.target = j.target /\ k.kind = j.kind
    BY <1>1, <1>2, <1>3 DEF Goto, IInv, TypeOK, Job
  <2>2. /\ live'.config = live.config
        /\ live'.auth = IF j.new.auth = None THEN live.auth ELSE j.new.auth
    BY <1>2, <1>3 DEF LiveFiles
  <2>3. "writeConfig" \in LockedSteps /\ "writeConfig" \notin BeforeWrites
    BY DEF LockedSteps, WriteSteps, BeforeWrites
  <2>4. (Switching(k) <=> Switching(j))
    BY <2>1 DEF Switching
  <2> HIDE DEF j, k
  <2>5. OwnerPath("writeAuth", j, live) => OwnerPath("writeConfig", k, live')
    BY <2>1, <2>2, <2>3, <2>4 DEF OwnerPath
  <2> QED
    BY <1>1, <2>1, <2>3, <2>5, HolderOwner DEF OwnerAlong, j, k
<1>4. CASE Continue(m, AfterFailedWrite(m))
  BY <1>1, <1>4, FailedWriteOwner
<1> QED
  BY <1>3, <1>4 DEF WriteAuth

LEMMA WriteConfigOwner ==
  ASSUME PathInv, OwnerInv, NEW m \in Managers, WriteConfig(m) PROVE OwnerAlong(m)
<1> DEFINE j == job[m]
<1>1. /\ pc[m] = "writeConfig" /\ pc[m] \in LockedSteps /\ UNCHANGED <<settings, tainted>>
      /\ {"check", "undo"} \subseteq LockedSteps
  BY DEF WriteConfig, LockedSteps, WriteSteps
<1>2. j \in Job /\ live \in LiveFiles /\ SettingsPath("writeConfig", j, settings, foreign)
  BY <1>1, HolderPath
<1>3. CASE /\ live' = IF j.new.config = None THEN live ELSE [live EXCEPT !.config = j.new.config]
           /\ Continue(m, "check")
  <2>1. /\ live'.auth = live.auth
        /\ live'.config = IF j.new.config = None THEN live.config ELSE j.new.config
    BY <1>2, <1>3 DEF LiveFiles
  <2>2. ~Switching(j) => j.target = j.start.settings.active
    BY <1>2 DEF SettingsPath
  <2>3. ~tainted => OwnerPath("check", j, live')
    <3>1. ASSUME OwnerPath("writeConfig", j, live) PROVE LiveFits(j.target, live')
      BY <2>1, <2>2, <3>1 DEF OwnerPath, LiveFits
    <3> QED
      BY <1>1, <3>1, HolderOwner DEF OwnerPath, BeforeWrites
  <2> QED
    BY <1>1, <1>3, <2>3, OnwardOwner
<1>4. CASE Continue(m, "undo")
  <2>1. ~tainted => OwnerPath("undo", j, live')
    BY <1>1, HolderOwner, LateOwner
  <2> QED
    BY <1>1, <1>4, <2>1, OnwardOwner
<1> QED
  BY <1>3, <1>4 DEF WriteConfig

LEMMA CheckOwner ==
  ASSUME PathInv, OwnerInv, NEW m \in Managers, CheckWritten(m) PROVE OwnerAlong(m)
<1> DEFINE j == job[m]
<1>1. /\ pc[m] = "check" /\ pc[m] \in LockedSteps /\ IInv
      /\ UNCHANGED <<settings, live, tainted>> /\ "rbSettings" \in LockedSteps
  BY DEF CheckWritten, LockedSteps, WriteSteps, RollbackSteps, PathInv
<1>2. CASE Done(m, "ok") \/ Done(m, "unread")
  <2>1. j \in Job /\ SettingsPath("check", j, settings, foreign)
    BY <1>1, HolderPath
  <2>2. settings.active = j.target
    <3>1. CASE Switching(j)
      <4>1. settings.active = Leaving(j.start.settings, j.target, j.orig.live).active
        BY <2>1, <3>1 DEF SettingsPath, SameProvider, WriteSteps
      <4> QED
        BY <2>1, <4>1, JobFields DEF Leaving, Settings
    <3>2. CASE ~Switching(j)
      BY <2>1, <3>2 DEF SettingsPath, SameProvider
    <3> QED BY <3>1, <3>2
  <2>3. ~tainted => LiveFits(settings.active, live)
    BY <1>1, <2>2, HolderOwner DEF OwnerPath
  <2>4. pc'[m] \notin LockedSteps
    BY <1>1, <1>2, StepsApart DEF Done, IInv, TypeOK
  <2> QED
    BY <1>1, <2>3, <2>4, HolderOwner DEF OwnerAlong
<1>3. CASE Continue(m, "rbSettings")
  <2>1. ~tainted => OwnerPath("rbSettings", j, live)
    BY <1>1, HolderOwner, LateOwner DEF RollbackSteps
  <2> QED
    BY <1>1, <1>3, <2>1, OnwardOwner
<1> QED
  BY <1>2, <1>3 DEF CheckWritten

LEMMA RestoreOwner ==
  ASSUME PathInv, OwnerInv, NEW m \in Managers,
         RestoreSettings(m) \/ RestoreAuth(m) \/ RestoreConfig(m)
  PROVE  OwnerAlong(m)
<1> DEFINE j == job[m]
           k == job'[m]
<1>1. /\ pc[m] \in RollbackSteps /\ pc[m] \in LockedSteps /\ UNCHANGED tainted
      /\ Goto(m, "rbAuth") \/ Goto(m, "rbConfig") \/ Goto(m, "verify")
  BY DEF RestoreSettings, RestoreAuth, RestoreConfig, RollbackSteps, LockedSteps
<1>2. pc'[m] \in RollbackSteps /\ pc'[m] \in LockedSteps
  BY <1>1, StepsApart DEF Goto, PathInv, IInv, TypeOK, RollbackSteps
<1>3. j \in Job
  BY <1>1, HolderPath
<1>4. k.orig = j.orig /\ k.sel = j.sel /\ k.start = j.start /\ k.target = j.target
  <2>1. k \in {j, [j EXCEPT !.restored = FALSE]}
    BY DEF RestoreSettings, RestoreAuth, RestoreConfig, Unrestored, PathInv, IInv, TypeOK
  <2> QED
    BY <1>3, <2>1 DEF Job
<1>5. settings' \in {settings, j.orig.settings}
  BY DEF RestoreSettings, RestoreAuth, RestoreConfig
<1> HIDE DEF j, k
<1>6. ASSUME ~tainted PROVE OwnerPath(pc'[m], k, live')
  <2>1. OwnerPath(pc[m], j, live)
    BY <1>1, <1>6, HolderOwner DEF j
  <2>2. /\ pc'[m] \notin BeforeWrites /\ pc'[m] \notin {"writeAuth", "writeConfig", "check"}
    BY <1>2 DEF BeforeWrites, RollbackSteps
  <2> QED
    BY <1>4, <2>1, <2>2 DEF OwnerPath
<1> QED
  BY <1>1, <1>2, <1>4, <1>5, <1>6, HolderOwner DEF OwnerAlong, j, k

(* A failure that was verified has put back what the operation found.       *)
LEMMA VerifiedOwner ==
  ASSUME PathInv, OwnerInv, NEW m \in Managers, VerifyRollback(m) \/ CompareLive(m)
  PROVE  OwnerAlong(m)
<1> DEFINE j == job[m]
<1>1. /\ pc[m] \in {"verify", "compare"} /\ pc[m] \in LockedSteps /\ IInv
      /\ UNCHANGED <<settings, live>> /\ \E outcome : Done(m, outcome)
  BY DEF VerifyRollback, CompareLive, LockedSteps, RollbackSteps, PathInv
<1>2. pc'[m] \notin LockedSteps
  BY <1>1, StepsApart DEF Done, IInv, TypeOK
<1>3. SettingsPath(pc[m], j, settings, foreign) /\ JobOK(m) /\ (IsSwitch(m) <=> Switching(j))
  BY <1>1, HolderPath
<1>4. ~tainted' => /\ ~tainted
                   /\ \/ live = j.orig.live /\ settings = j.orig.settings
                      \/ live = j.start.live /\ pc[m] = "compare"
  <2>1. CASE VerifyRollback(m)
    <3> DEFINE verified == /\ job[m].restored
                           /\ settings = job[m].orig.settings
                           /\ live = job[m].orig.live
    <3>1. tainted' = (tainted \/ ~verified)
      BY <2>1, Zenon DEF VerifyRollback
    <3>2. ~tainted' => ~tainted /\ verified
      BY <3>1, Zenon
    <3> QED
      BY <3>2
  <2>2. CASE CompareLive(m)
    BY <2>2, Zenon DEF CompareLive
  <2> QED BY <2>1, <2>2
<1>5. ~tainted' => settings.active = j.start.settings.active
  <2>1. CASE Switching(j)
    <3>1. pc[m] # "compare"
      BY <1>3, <2>1 DEF JobOK
    <3> QED
      BY <1>3, <1>4, <2>1, <3>1 DEF SettingsPath, SameProvider
  <2>2. CASE ~Switching(j)
    BY <1>3, <2>2 DEF SettingsPath, SameProvider
  <2> QED BY <2>1, <2>2
<1>6. ASSUME ~tainted' PROVE LiveFits(settings.active, live) /\ Unmixed(settings.profiles)
  <2>1. OwnerPath(pc[m], j, live) /\ Unmixed(settings.profiles)
    BY <1>1, <1>4, <1>6, HolderOwner
  <2> QED
    BY <1>4, <1>5, <1>6, <2>1 DEF OwnerPath
<1> QED
  BY <1>1, <1>2, <1>6 DEF OwnerAlong

LEMMA StoreOwner ==
  ASSUME PathInv, OwnerInv, NEW m \in Managers, pc[m] \in LockedSteps,
         StoreBackfill(m) \/ SaveProviderSyncTarget(m)
  PROVE  OwnerAlong(m)
<1> DEFINE j == job[m]
<1>1. /\ pc[m] \in {"storeBackfill", "saveTarget"} /\ UNCHANGED <<live, tainted>>
      /\ \E outcome : Done(m, outcome)
  BY DEF StoreBackfill, SaveProviderSyncTarget
<1>2. /\ SettingsPath(pc[m], j, settings, foreign) /\ ~Switching(j) /\ settings \in Settings
      /\ j \in Job
  BY <1>1, HolderPath DEF JobOK
<1>3. settings'.profiles \in {settings.profiles, j.sel.profiles}
  BY <1>2 DEF StoreBackfill, SaveProviderSyncTarget, Settings
<1>4. settings'.active = settings.active
  BY <1>2 DEF StoreBackfill, SaveProviderSyncTarget, Settings, SettingsPath, SameProvider
<1> QED
  BY <1>1, <1>3, <1>4, UnwrittenOwner

LEMMA LockedStepOwner ==
  ASSUME PathInv, OwnerInv, ImportsAlone, NEW m \in Managers, pc[m] \in LockedSteps, Step(m)
  PROVE  OwnerInv'
<1>1. ~StoreDocument(m)
  BY StepsApart DEF StoreDocument
<1>2. UndoWrite(m) => OwnerAlong(m)
  BY FailedWriteOwner DEF UndoWrite, WriteSteps
<1>3. OwnerAlong(m)
  BY <1>1, <1>2, SnapshotOwner, SaveOwner, SelectOwner, WriteAuthOwner, WriteConfigOwner,
     CheckOwner, RestoreOwner, VerifiedOwner, StoreOwner DEF Step
<1> QED
  BY <1>3, OwnerStep

LEMMA StoreDocumentOwner ==
  ASSUME PathInv, OwnerInv, ImportsAlone, NEW m \in Managers, StoreDocument(m) PROVE OwnerInv'
<1> DEFINE d == job[m]
<1>1. /\ IInv /\ IInv' /\ lock = None /\ pc[m] = "document" /\ lock' = None
      /\ UNCHANGED <<live, guard>> /\ settings \in Settings /\ d \in DocumentJob
  BY StepInv DEF PathInv, StoreDocument, Step, Done, IInv, TypeOK, JobOK
<1>2. \A n \in Managers : pc'[n] \notin LockedSteps
  BY <1>1 DEF IInv, LockOK
<1>3. /\ pc'[m] = "idle"
      /\ \A n \in Managers \ {m} : pc'[n] = pc[n] /\ job'[n] = job[n]
  BY <1>1 DEF StoreDocument, Done, IInv, TypeOK
<1>4. ASSUME NEW n \in Managers PROVE ImportOK(n)'
  <2>1. CASE n = m
    BY <1>3, <2>1 DEF ImportOK
  <2>2. CASE n # m
    <3>1. "importCcs" \notin Ops
      BY <2>2 DEF ImportsAlone
    <3>2. ImportOK(n) /\ pc'[n] = pc[n] /\ job'[n] = job[n]
      BY <1>3, <2>2 DEF OwnerInv
    <3> QED
      BY <3>1, <3>2 DEF ImportOK
  <2> QED BY <2>1, <2>2
<1>5. ASSUME ~tainted'
      PROVE  /\ UnmixedCopies' /\ LiveFits(settings'.active, live')
             /\ \A n \in Managers : pc'[n] \in LockedSteps => OwnerPath(pc'[n], job'[n], live')
  <2>1. ~tainted
    BY <1>1, <1>5, TaintStays DEF Next, Step
  <2>2. d.kind = "import" => UNCHANGED settings
    BY <1>5, Zenon DEF StoreDocument
  <2>3. /\ UnmixedCopies /\ LiveFits(settings.active, live) /\ ImportOK(m)
    BY <1>1, <2>1 DEF OwnerInv
  <2>4. settings'.active = settings.active
    <3>1. UNCHANGED settings \/ settings'.active = IF d.active = None THEN settings.active ELSE d.active
      BY <1>1 DEF StoreDocument, Settings
    <3>2. d.kind # "import" => d.active \in {None, settings.active}
      BY <1>1, <2>3 DEF ImportOK, DocumentJob
    <3> QED
      BY <2>2, <3>1, <3>2
  <2>5. settings'.profiles \in {settings.profiles, d.doc.profiles}
    BY <1>1 DEF StoreDocument, Settings
  <2>6. Unmixed(settings'.profiles)
    BY <1>1, <2>3, <2>5 DEF UnmixedCopies
  <2>7. UnmixedCopies'
    BY <1>1, <1>2, <1>3, <2>3, <2>6 DEF UnmixedCopies
  <2> QED
    BY <1>1, <1>2, <2>3, <2>4, <2>7
<1> QED
  BY <1>4, <1>5 DEF OwnerInv

(* A step that leaves the files alone and takes no lock. *)
LEMMA FreeOwner ==
  ASSUME PathInv, OwnerInv, IInv', NEW m \in Managers, pc'[m] \in FreeSteps,
         UNCHANGED <<settings, live, lock, tainted>>,
         \A n \in Managers \ {m} : pc'[n] = pc[n] /\ job'[n] = job[n] /\ guard'[n] = guard[n],
         ~tainted => Unmixed(guard'[m].provider.profiles),
         pc'[m] = "document" =>
           /\ ~tainted => Unmixed(job'[m].doc.profiles)
           /\ ImportOK(m)'
  PROVE  OwnerInv'
<1>1. pc'[m] \notin LockedSteps
  BY StepsApart
<1>2. \A n \in Managers : ImportOK(n)'
  BY DEF OwnerInv, ImportOK
<1>3. ~tainted => UnmixedCopies'
  BY <1>1 DEF OwnerInv, UnmixedCopies
<1> QED
  BY <1>1, <1>2, <1>3 DEF OwnerInv

LEMMA BeginOwner ==
  ASSUME PathInv, OwnerInv, NEW m \in Managers, NEW kind \in AllOps, NEW target \in Profiles,
         NEW sel \in Settings, NEW new \in Texts,
         NEW step \in {"snapshot", "writeAuth", "storeBackfill", "saveTarget"},
         step = "writeAuth" =>
           /\ Requested(settings, live, new) /\ target = settings.active
           /\ kind \notin {"switch", "apply"},
         ~tainted => Unmixed(sel.profiles),
         Begin(m, kind, target, sel, new, step), IInv'
  PROVE  OwnerInv'
<1> DEFINE now == [settings |-> settings, live |-> live]
           j   == [kind |-> kind, target |-> target, sel |-> sel, new |-> new, old |-> live,
                   orig |-> now, start |-> now, restored |-> TRUE]
<1>1. IInv
  BY DEF PathInv
<1>2. /\ UNCHANGED <<settings, live, guard, tainted>> /\ lock = None /\ lock' = m /\ m # None
      /\ pc'[m] = step /\ job'[m] = j /\ settings \in Settings /\ live \in LiveFiles
  BY <1>1 DEF Begin, IInv, TypeOK
<1>3. \A n \in Managers \ {m} : pc'[n] = pc[n] /\ job'[n] = job[n] /\ pc'[n] \notin LockedSteps
  BY <1>1, <1>2 DEF Begin, IInv, TypeOK, LockOK
<1>4. step \in LockedSteps /\ step # "document" /\ step \in BeforeWrites
  BY DEF LockedSteps, WriteSteps, BeforeWrites
<1>5. \A n \in Managers : ImportOK(n)'
  BY <1>2, <1>3, <1>4 DEF OwnerInv, ImportOK
<1>6. ASSUME ~tainted PROVE UnmixedCopies' /\ OwnerPath(step, j, live)
  <2>1. UnmixedCopies /\ LiveFits(settings.active, live) /\ Unmixed(settings.profiles)
        /\ Unmixed(sel.profiles)
    BY <1>2, <1>6 DEF OwnerInv, UnmixedCopies
  <2>2. UnmixedCopies'
    BY <1>2, <1>3, <1>4, <2>1 DEF UnmixedCopies
  <2>3. step = "writeAuth" =>
          /\ ~Switching(j)
          /\ new.config # None => ConfigFits(target, new.config)
          /\ AuthFits(target, IF new.auth = None THEN live.auth ELSE new.auth)
    BY <1>2, <2>1, RequestedFits DEF Switching
  <2>4. OwnerPath(step, j, live)
    <3>1. j.start = now /\ j.orig = now /\ j.new = new /\ j.target = target
      OBVIOUS
    <3> HIDE DEF j
    <3> QED
      BY <2>1, <2>3, <3>1 DEF OwnerPath, LiveFits
  <2> QED BY <2>2, <2>4
<1> HIDE DEF j
<1> QED
  BY <1>2, <1>3, <1>4, <1>5, <1>6 DEF OwnerInv

LEMMA AdmissionOwner ==
  ASSUME PathInv, OwnerInv, NEW m \in Managers,
         \/ \E p \in Profiles : SwitchProvider(m, p)
         \/ ApplyActiveProvider(m) \/ ClearLiveProvider(m) \/ SaveLiveFile(m)
         \/ BackfillActiveProvider(m) \/ LoadForTarget(m)
  PROVE  OwnerInv'
<1> DEFINE a == settings.active
<1>1. /\ settings \in Settings /\ live \in LiveFiles /\ a \in Profiles
      /\ settings.profiles[a] \in RelayProfile /\ live \in Texts /\ IInv'
  BY AdmissionInv DEF PathInv, IInv, TypeOK, Settings, LiveFiles, Texts
<1>2. ~tainted => Unmixed(settings.profiles)
  BY DEF OwnerInv, UnmixedCopies
<1>3. CASE \E p \in Profiles : SwitchProvider(m, p)
  <2>1. PICK p \in Profiles : SwitchProvider(m, p)
    BY <1>3
  <2>2. Selecting(p) \in Settings /\ Selecting(p).profiles = settings.profiles
    BY <1>1 DEF Selecting, Settings
  <2>3. Begin(m, "switch", p, Selecting(p), live, "snapshot")
    BY <2>1 DEF SwitchProvider, Admit
  <2> QED
    BY <1>1, <1>2, <2>2, <2>3, BeginOwner DEF AllOps
<1>4. CASE ApplyActiveProvider(m)
  BY <1>1, <1>2, <1>4, BeginOwner DEF ApplyActiveProvider, Admit, AllOps
<1>5. CASE ClearLiveProvider(m)
  <2> DEFINE new == ClearedFiles(settings.profiles[a], live)
  <2>1. Begin(m, "clear", a, settings, new, "writeAuth") /\ a \in settings.present
    BY <1>5 DEF ClearLiveProvider, Admit, Refused
  <2>2. new \in Texts /\ Requested(settings, live, new)
    BY <1>1, <2>1, ClearedFilesType DEF Requested
  <2> HIDE DEF new
  <2> QED
    BY <1>1, <1>2, <2>1, <2>2, BeginOwner DEF AllOps
<1>6. CASE SaveLiveFile(m)
  <2>1. /\ live.config.tag < MaxTag =>
             [config |-> [live.config EXCEPT !.tag = @ + 1], auth |-> None] \in Texts
        /\ [config |-> None, auth |-> Login] \in Texts
    BY <1>1 DEF LiveFiles, Texts, ConfigText, AuthText
  <2>2. PICK new \in Texts : /\ Requested(settings, live, new)
                             /\ Begin(m, "saveLive", a, settings, new, "writeAuth")
    BY <1>6, <2>1 DEF SaveLiveFile, Admit, Requested
  <2> QED
    BY <1>1, <1>2, <2>2, BeginOwner DEF AllOps
<1>7. CASE BackfillActiveProvider(m)
  <2> DEFINE sel == [settings EXCEPT !.profiles[a] = Backfilled(@, live)]
             b   == Backfilled(settings.profiles[a], live)
  <2>1. Begin(m, "backfill", a, sel, live, "storeBackfill")
    BY <1>7 DEF BackfillActiveProvider, Admit
  <2>2. b \in RelayProfile
    BY <1>1, BackfilledType
  <2>3. ~tainted => Owned(a, b) /\ (Mode[a] = "official" => b.auth \notin Profiles)
    <3>1. ~tainted => LiveFits(a, live)
      BY <2>1 DEF OwnerInv, Begin
    <3>2. ~tainted => Owned(a, settings.profiles[a])
      BY <1>1, <1>2 DEF Unmixed
    <3> QED
      BY <1>1, <3>1, <3>2, BackfilledUnmixed
  <2>4. sel \in Settings /\ sel.profiles = [settings.profiles EXCEPT ![a] = b]
    BY <1>1, <2>2 DEF Settings
  <2> HIDE DEF sel, b
  <2>5. ~tainted => Unmixed(sel.profiles)
    BY <1>1, <1>2, <2>3, <2>4 DEF Unmixed, Settings
  <2> QED
    BY <1>1, <2>1, <2>4, <2>5, BeginOwner DEF AllOps
<1>8. CASE LoadForTarget(m)
  BY <1>1, <1>2, <1>8, BeginOwner DEF LoadForTarget, AllOps
<1> QED
  BY <1>3, <1>4, <1>5, <1>6, <1>7, <1>8

LEMMA RequestOwner ==
  ASSUME PathInv, OwnerInv, NEW m \in Managers, Request(m) PROVE OwnerInv'
<1>1. /\ IInv /\ IInv' /\ guard[m].provider \in ProviderDocument
      /\ ~tainted => Unmixed(settings.profiles) /\ Unmixed(guard[m].provider.profiles)
  BY RequestInv DEF PathInv, IInv, TypeOK, OwnerInv, UnmixedCopies
<1>2. CASE LoadLiveWorkspace(m)
  <2>1. guard'[m].provider.profiles = settings.profiles
    BY <1>1, <1>2 DEF LoadLiveWorkspace, ProviderRevision, IInv, TypeOK
  <2>2. /\ pc'[m] = "idle" /\ UNCHANGED <<settings, live, lock, tainted>>
        /\ \A n \in Managers \ {m} :
             pc'[n] = pc[n] /\ job'[n] = job[n] /\ guard'[n] = guard[n]
    BY <1>1, <1>2 DEF LoadLiveWorkspace, IInv, TypeOK
  <2> QED
    BY <1>1, <2>1, <2>2, FreeOwner, StepsApart
<1>3. CASE \/ \E p \in Profiles : Reject(m, "switch", p)
           \/ \E kind \in {"apply", "clear", "saveLive", "backfill"} :
                Reject(m, kind, settings.active)
  BY <1>1, <1>3, FreeOwner, StepsApart DEF Reject
<1>4. CASE ValidateWorkspace(m)
  <2> DEFINE view == guard[m].provider
  <2>1. PICK doc \in EditsOf(view) \cup {Without(view, p) : p \in view.present} :
          job' = [job EXCEPT ![m] = [kind |-> "saveWorkspace", doc |-> doc, active |-> None]]
    BY <1>4 DEF ValidateWorkspace
  <2>2. ~tainted => Unmixed(doc.profiles)
    <3>1. CASE doc \in EditsOf(view)
      BY <1>1, <3>1, EditsUnmixed
    <3>2. CASE \E p \in view.present : doc = Without(view, p)
      <4>1. PICK p \in view.present : doc = Without(view, p)
        BY <3>2
      <4>2. p \in Profiles /\ doc.profiles = [view.profiles EXCEPT ![p] = NewProfile(p)]
        BY <1>1, <4>1 DEF Without, ProviderDocument
      <4> QED
        BY <1>1, <4>2, UnmixedWithNew DEF ProviderDocument
    <3> QED BY <3>1, <3>2
  <2>3. /\ pc'[m] = "document" /\ job'[m].doc = doc
        /\ job'[m].kind = "saveWorkspace" /\ job'[m].active = None
        /\ UNCHANGED <<settings, live, lock, tainted, guard>>
        /\ \A n \in Managers \ {m} : pc'[n] = pc[n] /\ job'[n] = job[n]
    BY <1>1, <1>4, <2>1 DEF ValidateWorkspace, IInv, TypeOK
  <2> QED
    BY <1>1, <2>2, <2>3, FreeOwner, StepsApart DEF ImportOK
<1>5. CASE \E p \in Profiles, kind \in {"import", "importCcs"} : ReadForImport(m, kind, p)
  <2>1. PICK p \in Profiles, kind \in {"import", "importCcs"} : ReadForImport(m, kind, p)
    BY <1>5
  <2>2. /\ job'[m].doc = [guard[m].provider EXCEPT !.present = @ \cup {p},
                                                   !.profiles[p] = NewProfile(p)]
        /\ job'[m].kind = kind /\ kind \in Ops
        /\ job'[m].active = IF kind = "import" THEN p ELSE settings.active
    BY <1>1, <2>1 DEF ReadForImport, IInv, TypeOK
  <2>3. ~tainted => Unmixed(job'[m].doc.profiles)
    BY <1>1, <2>2, UnmixedWithNew DEF ProviderDocument
  <2>4. /\ pc'[m] = "document" /\ UNCHANGED <<settings, live, lock, tainted, guard>>
        /\ \A n \in Managers \ {m} : pc'[n] = pc[n] /\ job'[n] = job[n]
    BY <1>1, <2>1 DEF ReadForImport, IInv, TypeOK
  <2>5. ImportOK(m)'
    BY <2>2, <2>4 DEF ImportOK
  <2> QED
    BY <1>1, <2>3, <2>4, <2>5, FreeOwner, StepsApart
<1>6. CASE \/ \E p \in Profiles : SwitchProvider(m, p)
           \/ ApplyActiveProvider(m) \/ ClearLiveProvider(m) \/ SaveLiveFile(m)
           \/ BackfillActiveProvider(m) \/ LoadForTarget(m)
  BY <1>6, AdmissionOwner
<1> QED
  BY <1>2, <1>3, <1>4, <1>5, <1>6 DEF Request

(* Codex edits its own lines or logs in; neither brings another provider.   *)
LEMMA ForeignOwner ==
  ASSUME PathInv, OwnerInv, BridgeSetSettings \/ CodexWritesLive PROVE OwnerInv'
<1>1. /\ IInv /\ IInv' /\ settings \in Settings /\ live \in LiveFiles
      /\ UNCHANGED <<pc, job, guard, lock, tainted>>
  BY ForeignInv DEF PathInv, IInv, TypeOK, BridgeSetSettings, CodexWritesLive
<1>2. settings'.active = settings.active /\ settings'.profiles = settings.profiles
  BY <1>1 DEF BridgeSetSettings, CodexWritesLive, Settings
<1>3. /\ live'.config.ep = live.config.ep /\ live'.config.tok = live.config.tok
      /\ live'.auth \in {live.auth, Login}
  BY <1>1 DEF BridgeSetSettings, CodexWritesLive, LiveFiles, ConfigText
<1>4. \A p \in Profiles : /\ ConfigFits(p, live.config) => ConfigFits(p, live'.config)
                          /\ AuthFits(p, live.auth) => AuthFits(p, live'.auth)
  BY <1>3 DEF ConfigFits, AuthFits
<1>5. ASSUME NEW m \in Managers, pc[m] \in LockedSteps, OwnerPath(pc[m], job[m], live)
      PROVE  OwnerPath(pc[m], job[m], live')
  <2>1. job[m].target \in Profiles /\ job[m].start.settings.active \in Profiles
    BY <1>5, HolderPath, JobFields
  <2> QED
    BY <1>4, <1>5, <2>1 DEF OwnerPath, LiveFits
<1>6. settings.active \in Profiles
  BY <1>1 DEF Settings
<1>7. ~tainted => UnmixedCopies'
  BY <1>1, <1>2 DEF OwnerInv, UnmixedCopies
<1>8. ~tainted /\ lock = None => LiveFits(settings'.active, live')
  BY <1>2, <1>4, <1>6 DEF OwnerInv, LiveFits
<1>9. \A m \in Managers : ImportOK(m)'
  BY <1>1, <1>2 DEF OwnerInv, ImportOK
<1> QED
  BY <1>1, <1>5, <1>7, <1>8, <1>9 DEF OwnerInv

LEMMA NextOwner == ASSUME ImportsAlone, PathInv, OwnerInv, [Next]_vars PROVE OwnerInv'
<1>1. CASE UNCHANGED vars
  <2>1. /\ UnmixedCopies => UnmixedCopies'
        /\ \A m \in Managers : ImportOK(m) => ImportOK(m)'
    BY <1>1 DEF vars, UnmixedCopies, ImportOK
  <2> QED
    BY <1>1, <2>1 DEF OwnerInv, vars
<1>2. ASSUME NEW m \in Managers, Step(m) PROVE OwnerInv'
  <2>1. CASE pc[m] \in LockedSteps
    BY <1>2, <2>1, LockedStepOwner
  <2>2. CASE pc[m] \notin LockedSteps
    <3>1. StoreDocument(m)
      BY <1>2, <2>2
         DEF Step, SnapshotAndBackfill, SaveSelection, SelectFiles, WriteAuth, WriteConfig,
             UndoWrite, CheckWritten, RestoreSettings, RestoreAuth, RestoreConfig,
             VerifyRollback, CompareLive, StoreBackfill, SaveProviderSyncTarget,
             LockedSteps, WriteSteps, RollbackSteps
    <3> QED
      BY <3>1, StoreDocumentOwner
  <2> QED BY <2>1, <2>2
<1>3. CASE Crash
  BY <1>3 DEF Crash, OwnerInv, ImportOK
<1> QED
  BY <1>1, <1>2, <1>3, RequestOwner, ForeignOwner DEF Next

LEMMA InitOwner == Init => OwnerInv
<1> SUFFICES ASSUME Init PROVE OwnerInv
  OBVIOUS
<1>1. PICK a \in Installed : settings = InitialSettings(a) /\ live = InitialLive(a)
  BY DEF Init
<1>2. /\ \A m \in Managers : pc[m] = "idle" /\ guard[m].provider.profiles = settings.profiles
      /\ settings.profiles = [p \in Profiles |-> NewProfile(p)] /\ settings.active = a
      /\ a \in Profiles
  BY <1>1 DEF Init, InitialSettings, ProviderRevision
<1>3. Unmixed(settings.profiles)
  BY <1>2, NewProfileUnmixed DEF Unmixed
<1>4. UnmixedCopies
  BY <1>2, <1>3, StepsApart DEF UnmixedCopies
<1>5. LiveFits(a, live)
  <2> DEFINE empty == [config |-> EmptyConfig, auth |-> NoAuth]
             prof  == NewProfile(a)
             texts == SelectedFiles(a, prof, empty)
  <2>1. empty \in LiveFiles /\ empty.auth = NoAuth
    BY EmptyConfigType DEF LiveFiles, AuthText
  <2>2. /\ texts.config # None /\ ConfigFits(a, texts.config)
        /\ AuthFits(a, IF texts.auth = None THEN empty.auth ELSE texts.auth)
    <3>1. /\ a \in Profiles /\ prof \in RelayProfile /\ KeepsKind(a, prof)
          /\ Owned(a, prof) /\ (Mode[a] = "official" => prof.auth \notin Profiles)
      BY <1>2, NewProfileType, NewProfileKept, NewProfileUnmixed
    <3> HIDE DEF empty, prof
    <3> QED
      BY <2>1, <3>1, SelectedFits
  <2>3. texts \in Texts
    BY <1>2, <2>1, NewProfileType, SelectedFilesType
  <2>4. live = IF texts.auth = None THEN [texts EXCEPT !.auth = NoAuth] ELSE texts
    BY <1>1 DEF InitialLive
  <2> HIDE DEF texts
  <2>5. /\ live.config = texts.config
        /\ live.auth = IF texts.auth = None THEN empty.auth ELSE texts.auth
    BY <2>1, <2>3, <2>4 DEF Texts
  <2> QED
    BY <2>2, <2>5 DEF LiveFits
<1> QED
  BY <1>2, <1>4, <1>5, StepsApart DEF OwnerInv, ImportOK

(* The whole invariant: where an operation has brought the files at each of *)
(* its steps, and whose they are.                                           *)
THEOREM HistoryInvariance == ASSUME ImportsAlone PROVE Spec => []HistoryInv
<1>1. PathInv /\ OwnerInv /\ [Next]_vars => OwnerInv'
  BY NextOwner
<1>2. PathInv /\ OwnerInv => HistoryInv
  BY DEF HistoryInv
<1> QED
  BY <1>1, <1>2, InitOwner, Waypoints, PTL DEF Spec

(* While no crash, import link or failed rollback has come between, a       *)
(* stored profile never holds the endpoint or the key of another one.       *)
THEOREM ProvidersStayApart ==
  ASSUME ImportsAlone PROVE Spec => []ProfilesKeepTheirProvider
<1>1. ASSUME PathInv, OwnerInv PROVE ProfilesKeepTheirProvider
  <2>1. settings.present \subseteq Profiles
    BY <1>1 DEF PathInv, IInv, TypeOK, Settings
  <2> QED
    BY <1>1, <2>1 DEF OwnerInv, UnmixedCopies, Unmixed, ProfilesKeepTheirProvider
<1>2. HistoryInv => ProfilesKeepTheirProvider
  BY <1>1 DEF HistoryInv
<1> QED
  BY <1>2, HistoryInvariance, PTL

(* And whenever no operation is under way, the live files hold only what is *)
(* the active profile's.                                                    *)
THEOREM LiveFollowsActive ==
  ASSUME ImportsAlone PROVE Spec => []LiveBelongsToActive
<1>1. HistoryInv => LiveBelongsToActive
  BY DEF HistoryInv, OwnerInv, LiveBelongsToActive, LiveFits, ConfigFits, AuthFits, LiveOwned
<1> QED
  BY <1>1, HistoryInvariance, PTL

(* A switch that reports success has selected the target and made the live  *)
(* files serve it, whatever the injected page changed meanwhile.            *)
THEOREM SwitchWorks == ASSUME ImportsAlone PROVE Spec => SwitchTakesEffect
<1> DEFINE Works ==
      \A m \in Managers :
        EndsWith(m, {"ok"}) /\ IsSwitch(m) /\ "live" \notin foreign /\ ~tainted =>
          LET p == job[m].target
          IN  settings'.active = p /\ Serves(p, settings'.profiles[p], live')
<1>1. ASSUME HistoryInv, [Next]_vars PROVE [Works]_vars
  <2> SUFFICES ASSUME NEW m \in Managers, EndsWith(m, {"ok"}), IsSwitch(m), "live" \notin foreign,
                      ~tainted
               PROVE  /\ settings'.active = job[m].target
                      /\ Serves(job[m].target, settings'.profiles[job[m].target], live')
    OBVIOUS
  <2> DEFINE j == job[m]
             p == j.target
  <2>1. PathInv /\ OwnerInv
    BY <1>1 DEF HistoryInv
  <2>2. pc[m] = "check" /\ pc[m] \in LockedSteps /\ UNCHANGED <<settings, live>>
    BY <1>1, <2>1, SuccessChecked
  <2>3. /\ SettingsPath("check", j, settings, foreign) /\ LivePath("check", j, live, foreign)
        /\ j \in Job /\ Switching(j) /\ settings \in Settings /\ Kept(settings.profiles)
    BY <2>1, <2>2, HolderPath DEF IsSwitch, Switching
  <2>4. p \in Profiles /\ j.start.live \in LiveFiles
    BY <2>3, JobFields
  <2>5. settings.active = p
    <3>1. settings.active = Leaving(j.start.settings, p, j.orig.live).active
      BY <2>3 DEF SettingsPath, SameProvider, WriteSteps
    <3> QED
      BY <2>3, <2>4, <3>1, JobFields DEF Leaving, Settings
  <2>6. live = Overwritten(j.start.live, SelectedFiles(p, settings.profiles[p], j.start.live))
    BY <2>3 DEF SettingsPath, LivePath, SameProvider, WriteSteps
  <2>7. /\ settings.profiles[p] \in RelayProfile /\ KeepsKind(p, settings.profiles[p])
        /\ Mode[p] = "official" => settings.profiles[p].auth \notin Profiles
    BY <2>1, <2>3, <2>4 DEF Kept, Settings, OwnerInv, UnmixedCopies, Unmixed
  <2> HIDE DEF j, p
  <2>8. Serves(p, settings.profiles[p], live)
    BY <2>4, <2>6, <2>7, SelectedServes DEF KeepsKind
  <2> QED
    BY <2>2, <2>5, <2>8 DEF j, p
<1>2. HistoryInv /\ [Next]_vars => [Works]_vars
  BY <1>1
<1> QED
  BY <1>2, HistoryInvariance, PTL DEF Spec, SwitchTakesEffect

-----------------------------------------------------------------------------
(* The operations are atomic.  Seen from outside, the files are those that  *)
(* the holder of the lock found.                                            *)

SeenSettings == IF lock = None THEN settings ELSE job[lock].start.settings
SeenLive     == IF lock = None THEN live ELSE job[lock].start.live

LEMMA SameOperators ==
  /\ Atomic!Settings = Settings /\ Atomic!LiveFiles = LiveFiles
  /\ \A p : Atomic!NewProfile(p) = NewProfile(p)
  /\ \A prof, files : /\ Atomic!Backfilled(prof, files) = Backfilled(prof, files)
                      /\ Atomic!ClearedFiles(prof, files) = ClearedFiles(prof, files)
  /\ \A p, prof, files : Atomic!SelectedFiles(p, prof, files) = SelectedFiles(p, prof, files)
  /\ \A prof : Atomic!Selectable(prof) = Selectable(prof)
  /\ \A doc, p : Atomic!Without(doc, p) = Without(doc, p)
  /\ \A files, texts : Atomic!Overwritten(files, texts) = Overwritten(files, texts)
<1>1. Atomic!Settings = Settings /\ Atomic!LiveFiles = LiveFiles
  BY DEF Atomic!Settings, Settings, Atomic!LiveFiles, LiveFiles, Atomic!ConfigText, ConfigText,
         Atomic!AuthText, AuthText, Atomic!RelayProfile, RelayProfile, Atomic!Modes, Modes
<1>2. ASSUME NEW p PROVE Atomic!NewProfile(p) = NewProfile(p)
  BY DEF Atomic!NewProfile, NewProfile, Atomic!EmptyConfig, EmptyConfig
<1>3. ASSUME NEW prof, NEW files
      PROVE  /\ Atomic!Backfilled(prof, files) = Backfilled(prof, files)
             /\ Atomic!ClearedFiles(prof, files) = ClearedFiles(prof, files)
  BY DEF Atomic!Backfilled, Backfilled, Atomic!ClearedFiles, ClearedFiles, Atomic!ClearedAuth,
         ClearedAuth, Atomic!WithoutProvider, WithoutProvider, Atomic!WithoutKey, WithoutKey
<1>4. ASSUME NEW p, NEW prof, NEW files
      PROVE  Atomic!SelectedFiles(p, prof, files) = SelectedFiles(p, prof, files)
  <2>1. Atomic!AppliedFiles(p, prof, files) = AppliedFiles(p, prof, files)
    BY DEF Atomic!AppliedFiles, AppliedFiles, Atomic!Endpoint, Endpoint, Atomic!ApiKey, ApiKey,
           Atomic!WithoutKey, WithoutKey
  <2> QED
    BY <1>3, <2>1 DEF Atomic!SelectedFiles, SelectedFiles
<1>5. ASSUME NEW prof PROVE Atomic!Selectable(prof) = Selectable(prof)
  BY DEF Atomic!Selectable, Selectable, Atomic!SwitchableFiles, SwitchableFiles,
         Atomic!EmptyConfig, EmptyConfig
<1>6. ASSUME NEW doc, NEW p PROVE Atomic!Without(doc, p) = Without(doc, p)
  BY <1>2 DEF Atomic!Without, Without
<1>7. ASSUME NEW files, NEW texts
      PROVE  Atomic!Overwritten(files, texts) = Overwritten(files, texts)
  BY DEF Atomic!Overwritten, Overwritten
<1> QED
  BY <1>1, <1>2, <1>3, <1>4, <1>5, <1>6, <1>7

(* The atomic actions, for the files as seen. *)
LEMMA SeenVars ==
  UNCHANGED <<SeenSettings, SeenLive, last>> => UNCHANGED Atomic!vars
BY DEF SeenSettings, SeenLive, Atomic!vars

LEMMA SeenFail ==
  ASSUME UNCHANGED <<SeenSettings, SeenLive>>,
         last' \in {"ok", "rejected", "unchanged", "verified"}
  PROVE  Atomic!Next
BY DEF SeenSettings, SeenLive, Atomic!Next, Atomic!Fail, Atomic!Touch

LEMMA SeenDamage ==
  ASSUME SeenSettings' \in Settings, SeenLive' \in LiveFiles, last' \in {"failed", "crashed"}
  PROVE  Atomic!Next
BY SameOperators DEF SeenSettings, SeenLive, Atomic!Next, Atomic!Damage

LEMMA SeenSwitch ==
  ASSUME NEW p \in Profiles, SeenSettings \in Settings,
         SeenSettings.enabled, p \in SeenSettings.present,
         SeenSettings.active \in SeenSettings.present,
         SeenSettings' = Leaving(SeenSettings, p, SeenLive),
         Selectable(SeenSettings'.profiles[p]),
         SeenLive' = Overwritten(SeenLive, SelectedFiles(p, SeenSettings'.profiles[p], SeenLive)),
         last' \in {"ok", "unread"}
  PROVE  Atomic!Next
<1> DEFINE s    == SeenSettings
           left == IF s.active = p \/ s.profiles[s.active].mode = "aggregate" THEN s.profiles
                   ELSE [s.profiles EXCEPT ![s.active] = Backfilled(@, SeenLive)]
<1>1. Atomic!Left(p) = left
  BY SameOperators DEF Atomic!Left, SeenSettings, SeenLive
<1>2. s' = [s EXCEPT !.active = p, !.profiles = left]
  BY DEF Leaving, Settings
<1>3. s'.profiles = left
  BY <1>2 DEF Settings
<1> HIDE DEF left
<1>4. Atomic!Switch(p)
  BY <1>1, <1>2, <1>3, SameOperators DEF Atomic!Switch, SeenSettings, SeenLive
<1> QED
  BY <1>4 DEF Atomic!Next

LEMMA SeenClear ==
  ASSUME SeenSettings.active \in SeenSettings.present, UNCHANGED SeenSettings,
         SeenLive' = Overwritten(SeenLive,
                       ClearedFiles(SeenSettings.profiles[SeenSettings.active], SeenLive)),
         last' \in {"ok", "unread"}
  PROVE  Atomic!Next
BY SameOperators DEF SeenSettings, SeenLive, Atomic!Next, Atomic!Clear

LEMMA SeenEditLive ==
  ASSUME UNCHANGED SeenSettings, last' \in {"ok", "unread"},
         \/ /\ SeenLive.config.tag < MaxTag
            /\ SeenLive' = [SeenLive EXCEPT !.config.tag = @ + 1]
         \/ SeenLive' = [SeenLive EXCEPT !.auth = Login]
  PROVE  Atomic!Next
BY DEF SeenSettings, SeenLive, Atomic!Next, Atomic!EditLive

LEMMA SeenBackfill ==
  ASSUME SeenSettings.profiles[SeenSettings.active].mode # "aggregate",
         SeenSettings' = [SeenSettings EXCEPT !.profiles[SeenSettings.active] =
                            Backfilled(@, SeenLive)],
         UNCHANGED SeenLive, last' \in {"ok", "unread"}
  PROVE  Atomic!Next
BY SameOperators DEF SeenSettings, SeenLive, Atomic!Next, Atomic!Backfill

LEMMA SeenDocument ==
  ASSUME NEW p \in Profiles, UNCHANGED SeenLive, last' = "ok",
         \/ /\ p \in SeenSettings.present /\ SeenSettings.profiles[p].cfg.tag < MaxTag
            /\ SeenSettings' = [SeenSettings EXCEPT !.profiles[p].cfg.tag = @ + 1]
         \/ /\ p \in SeenSettings.present /\ p # SeenSettings.active
            /\ SeenSettings' = Without(SeenSettings, p)
         \/ /\ p \notin SeenSettings.present
            /\ \E a \in {p, SeenSettings.active} :
                 SeenSettings' = [SeenSettings EXCEPT !.present = @ \cup {p}, !.active = a,
                                                      !.profiles[p] = NewProfile(p)]
  PROVE  Atomic!Next
<1>1. Atomic!EditProfile(p) \/ Atomic!RemoveProfile(p) \/ Atomic!Import(p)
  BY SameOperators
     DEF SeenSettings, SeenLive, Atomic!EditProfile, Atomic!RemoveProfile, Atomic!Import
<1> QED
  BY <1>1 DEF Atomic!Next

(* One thread of the manager if documents are stored, which are validated   *)
(* before the lock is taken; and nobody who writes without the lock.        *)
DocumentOps    == {"saveWorkspace", "import", "importCcs"}
DocumentsAlone == Ops \cap DocumentOps # {} => \A m, n \in Managers : m = n
NoOtherWriter  == Ops \cap {"bridge", "codex"} = {}

(* A document made from the view, of the settings the view was read from.   *)
DocumentOf(j, view, a) ==
  \/ j.active = None /\ j.doc \in EditsOf(view)
  \/ /\ j.active = None
     /\ \E p \in view.present : j.doc = Without(view, p)
     /\ a \in view.present => a \in j.doc.present
  \/ \E p \in Profiles :
       /\ p \notin view.present /\ j.active \in {p, a}
       /\ j.doc = [view EXCEPT !.present = @ \cup {p}, !.profiles[p] = NewProfile(p)]

DocumentPath(m) ==
  pc[m] = "document" =>
    /\ Ops \cap DocumentOps # {}
    /\ ProviderRevision(settings) = guard[m].provider =>
         DocumentOf(job[m], guard[m].provider, settings.active)

AloneInv == PathInv /\ foreign = {} /\ \A m \in Managers : DocumentPath(m)

LEMMA StepLeavesDocuments ==
  ASSUME IInv, NEW m \in Managers, Step(m) PROVE pc'[m] # "document" /\ UNCHANGED foreign
<1>1. CASE StoreDocument(m)
  BY <1>1, StepsApart DEF StoreDocument, Done, IInv, TypeOK
<1>2. CASE ~StoreDocument(m)
  BY <1>2, StepsApart
     DEF Step, SnapshotAndBackfill, SaveSelection, SelectFiles, WriteAuth, WriteConfig,
         UndoWrite, CheckWritten, RestoreSettings, RestoreAuth, RestoreConfig,
         VerifyRollback, CompareLive, StoreBackfill, SaveProviderSyncTarget,
         Continue, Done, Goto, AfterFailedWrite, IInv, TypeOK
<1> QED BY <1>1, <1>2

LEMMA ValidateDocument ==
  ASSUME IInv, NEW m \in Managers, ValidateWorkspace(m)
  PROVE  pc'[m] = "document" /\ UNCHANGED foreign /\ DocumentPath(m)'
<1> DEFINE view == guard[m].provider
<1>1. PICK doc \in EditsOf(view) \cup {Without(view, p) : p \in view.present} :
        /\ settings.active \in settings.present => Storable(doc, settings.active)
        /\ job' = [job EXCEPT ![m] = [kind |-> "saveWorkspace", doc |-> doc, active |-> None]]
  BY DEF ValidateWorkspace
<1>2. /\ pc'[m] = "document" /\ UNCHANGED <<settings, guard, foreign>>
      /\ job'[m] = [kind |-> "saveWorkspace", doc |-> doc, active |-> None]
  BY <1>1 DEF ValidateWorkspace, IInv, TypeOK
<1>3. ProviderRevision(settings) = view =>
        (settings.active \in view.present => settings.active \in doc.present)
  BY <1>1 DEF ProviderRevision, Storable
<1>4. ProviderRevision(settings) = view => DocumentOf(job'[m], view, settings.active)
  <2>1. job'[m].active = None /\ job'[m].doc = doc
    BY <1>2
  <2>2. CASE doc \in EditsOf(view)
    BY <2>1, <2>2 DEF DocumentOf
  <2>3. CASE \E p \in view.present : doc = Without(view, p)
    BY <1>3, <2>1, <2>3 DEF DocumentOf
  <2> QED
    BY <1>1, <2>2, <2>3
<1>5. Ops \cap DocumentOps # {}
  BY DEF ValidateWorkspace, DocumentOps
<1> QED
  BY <1>2, <1>4, <1>5 DEF DocumentPath

LEMMA ReadDocument ==
  ASSUME IInv, NEW m \in Managers, NEW kind \in {"import", "importCcs"}, NEW p \in Profiles,
         ReadForImport(m, kind, p)
  PROVE  pc'[m] = "document" /\ UNCHANGED foreign /\ DocumentPath(m)'
<1> DEFINE view == guard[m].provider
           doc  == [view EXCEPT !.present = @ \cup {p}, !.profiles[p] = NewProfile(p)]
           a    == IF kind = "import" THEN p ELSE settings.active
<1>1. /\ pc'[m] = "document" /\ UNCHANGED <<settings, guard, foreign>>
      /\ job'[m] = [kind |-> kind, active |-> a, doc |-> doc]
      /\ p \notin settings.present /\ ProviderRevision(settings) = view
  BY DEF ReadForImport, IInv, TypeOK
<1>2. p \notin view.present
  BY <1>1 DEF ProviderRevision
<1>3. job'[m].active \in {p, settings.active} /\ job'[m].doc = doc
  BY <1>1
<1>4. DocumentOf(job'[m], view, settings.active)
  BY <1>2, <1>3 DEF DocumentOf
<1>5. Ops \cap DocumentOps # {}
  BY DEF ReadForImport, DocumentOps
<1> QED
  BY <1>1, <1>4, <1>5 DEF DocumentPath

LEMMA RequestDocument ==
  ASSUME IInv, foreign = {}, NEW m \in Managers, Request(m)
  PROVE  foreign' = {} /\ DocumentPath(m)'
<1>1. CASE ValidateWorkspace(m)
  BY <1>1, ValidateDocument
<1>2. CASE \E p \in Profiles, kind \in {"import", "importCcs"} : ReadForImport(m, kind, p)
  BY <1>2, ReadDocument
<1>3. CASE LoadLiveWorkspace(m)
  BY <1>3, StepsApart DEF LoadLiveWorkspace, DocumentPath
<1>4. ASSUME NEW kind, NEW target, Reject(m, kind, target) PROVE foreign' = {} /\ DocumentPath(m)'
  BY <1>4 DEF Reject, DocumentPath
<1>5. ASSUME NEW kind, NEW target, NEW sel, NEW new, NEW step \in LockedSteps,
             Begin(m, kind, target, sel, new, step)
      PROVE  foreign' = {} /\ DocumentPath(m)'
  <2>1. pc'[m] = step /\ foreign' = {}
    BY <1>5 DEF Begin, IInv, TypeOK
  <2> QED
    BY <2>1, StepsApart DEF DocumentPath
<1>6. /\ "snapshot" \in LockedSteps /\ "writeAuth" \in LockedSteps
      /\ "storeBackfill" \in LockedSteps /\ "saveTarget" \in LockedSteps
  BY DEF LockedSteps, WriteSteps
<1> QED
  BY <1>1, <1>2, <1>3, <1>4, <1>5, <1>6
     DEF Request, SwitchProvider, ApplyActiveProvider, ClearLiveProvider, SaveLiveFile,
         BackfillActiveProvider, LoadForTarget, Admit

LEMMA AloneStep ==
  ASSUME DocumentsAlone, NoOtherWriter, AloneInv, [Next]_vars PROVE AloneInv'
<1>1. PathInv' /\ IInv
  BY NextPath DEF AloneInv, PathInv
<1>2. CASE UNCHANGED vars
  <2>1. \A m \in Managers : DocumentPath(m) => DocumentPath(m)'
    BY <1>2 DEF vars, DocumentPath
  <2> QED
    BY <1>1, <1>2, <2>1 DEF AloneInv, vars
<1>3. ASSUME NEW m \in Managers, Step(m) PROVE AloneInv'
  <2>1. pc'[m] # "document" /\ UNCHANGED foreign
    BY <1>1, <1>3, StepLeavesDocuments
  <2>2. \A n \in Managers \ {m} : pc'[n] = pc[n]
    BY <1>1, <1>3 DEF Step, SnapshotAndBackfill, SaveSelection, SelectFiles, WriteAuth, WriteConfig,
         UndoWrite, CheckWritten, RestoreSettings, RestoreAuth, RestoreConfig, VerifyRollback,
         CompareLive, StoreBackfill, StoreDocument, SaveProviderSyncTarget, Continue, Goto, Done,
         IInv, TypeOK
  <2>3. \A n \in Managers : pc'[n] # "document"
    BY <2>1, <2>2 DEF AloneInv, DocumentPath, DocumentsAlone
  <2> QED
    BY <1>1, <2>1, <2>3 DEF AloneInv, DocumentPath
<1>4. ASSUME NEW m \in Managers, Request(m) PROVE AloneInv'
  <2>1. foreign' = {} /\ DocumentPath(m)'
    BY <1>1, <1>4, RequestDocument DEF AloneInv
  <2>2. \A n \in Managers \ {m} : pc'[n] = pc[n]
    BY <1>1, <1>4 DEF Request, LoadLiveWorkspace, SwitchProvider, ApplyActiveProvider,
         ClearLiveProvider, SaveLiveFile, BackfillActiveProvider, LoadForTarget, Admit, Begin,
         Reject, ValidateWorkspace, ReadForImport, IInv, TypeOK
  <2>3. \A n \in Managers \ {m} : pc'[n] # "document"
    BY <2>2 DEF AloneInv, DocumentPath, DocumentsAlone
  <2> QED
    BY <1>1, <2>1, <2>3 DEF AloneInv, DocumentPath
<1>5. CASE Crash
  BY <1>1, <1>5 DEF AloneInv, Crash, DocumentPath
<1>6. ~BridgeSetSettings /\ ~CodexWritesLive
  BY DEF NoOtherWriter, BridgeSetSettings, CodexWritesLive
<1> QED
  BY <1>2, <1>3, <1>4, <1>5, <1>6 DEF Next

-----------------------------------------------------------------------------
(* Every step is one of the atomic specification, or leaves what is seen.   *)

LEMMA HolderSees ==
  ASSUME IInv, NEW m \in Managers, pc[m] \in LockedSteps
  PROVE  lock = m /\ SeenSettings = job[m].start.settings /\ SeenLive = job[m].start.live
BY Holder, ManagerAssumption DEF SeenSettings, SeenLive

LEMMA FreeSees ==
  /\ lock = None => SeenSettings = settings /\ SeenLive = live
  /\ lock' = None => SeenSettings' = settings' /\ SeenLive' = live'
BY DEF SeenSettings, SeenLive

LEMMA Onward ==
  ASSUME IInv, NEW m \in Managers, pc[m] \in LockedSteps, UNCHANGED <<lock, last>>,
         job'[m].start = job[m].start
  PROVE  UNCHANGED Atomic!vars
<1>1. lock = m /\ lock' = m /\ m # None
  BY HolderSees, ManagerAssumption
<1>2. UNCHANGED <<SeenSettings, SeenLive>>
  BY <1>1 DEF SeenSettings, SeenLive
<1> QED
  BY <1>2, SeenVars

LEMMA OnwardStep ==
  ASSUME IInv, NEW m \in Managers, pc[m] \in LockedSteps, NEW step, Goto(m, step),
         \/ UNCHANGED job
         \/ job' = Unrestored(m)
         \/ \E files : job' = [job EXCEPT ![m].old = files]
         \/ \E sel, texts : job' = [job EXCEPT ![m].sel = sel, ![m].new = texts]
         \/ \E orig, sel : job' = [job EXCEPT ![m].orig = orig, ![m].sel = sel]
  PROVE  UNCHANGED Atomic!vars
<1>1. job[m] \in Job /\ job \in [Managers -> Job \cup DocumentJob \cup {NoOp}]
  BY Holder DEF IInv, TypeOK
<1>2. CASE UNCHANGED job
  BY <1>2, Onward DEF Goto
<1>3. CASE job' = Unrestored(m)
  BY <1>1, <1>3, Onward DEF Goto, Unrestored, Job
<1>4. ASSUME NEW files, job' = [job EXCEPT ![m].old = files] PROVE UNCHANGED Atomic!vars
  BY <1>1, <1>4, Onward DEF Goto, Job
<1>5. ASSUME NEW sel, NEW texts, job' = [job EXCEPT ![m].sel = sel, ![m].new = texts]
      PROVE  UNCHANGED Atomic!vars
  BY <1>1, <1>5, Onward DEF Goto, Job
<1>6. ASSUME NEW orig, NEW sel, job' = [job EXCEPT ![m].orig = orig, ![m].sel = sel]
      PROVE  UNCHANGED Atomic!vars
  BY <1>1, <1>6, Onward DEF Goto, Job
<1> QED
  BY <1>2, <1>3, <1>4, <1>5, <1>6

(* An operation that ends without success has changed nothing, or says so.  *)
LEMMA EndFails ==
  ASSUME IInv, foreign = {}, NEW m \in Managers, pc[m] \in LockedSteps,
         NEW outcome \in {"ok", "rejected", "unchanged", "verified"}, Done(m, outcome),
         settings' = job[m].start.settings, live' = job[m].start.live
  PROVE  Atomic!Next
BY HolderSees, FreeSees, SeenFail DEF Done

LEMMA EndDamaged ==
  ASSUME IInv, IInv', NEW m \in Managers, Done(m, "failed") PROVE Atomic!Next
BY FreeSees, SeenDamage DEF Done, IInv, TypeOK

(* An operation that wrote the live files and succeeds. *)
LEMMA CheckAtomic ==
  ASSUME AloneInv, NEW m \in Managers, CheckWritten(m)
  PROVE  Atomic!Next \/ UNCHANGED Atomic!vars
<1> DEFINE j == job[m]
           s == j.start.settings
<1>1. pc[m] = "check" /\ pc[m] \in LockedSteps /\ IInv /\ UNCHANGED <<settings, live>>
  BY DEF CheckWritten, LockedSteps, WriteSteps, AloneInv, PathInv
<1>2. CASE Continue(m, "rbSettings")
  BY <1>1, <1>2, OnwardStep DEF Continue
<1>3. ASSUME NEW o \in {"ok", "unread"}, Done(m, o) PROVE Atomic!Next
  <2>1. /\ SeenSettings = s /\ SeenLive = j.start.live /\ last' \in {"ok", "unread"}
        /\ SeenSettings' = settings /\ SeenLive' = live
    BY <1>1, <1>3, HolderSees, FreeSees DEF Done
  <2>2. /\ SettingsPath("check", j, settings, {}) /\ LivePath("check", j, live, {})
        /\ j \in Job /\ (IsSwitch(m) <=> Switching(j)) /\ TraceOK(m)
    BY <1>1, Holder, HolderPath DEF AloneInv
  <2>3. /\ s \in Settings /\ j.start.live \in LiveFiles /\ j.target \in Profiles
        /\ j.start.live.config \in ConfigText /\ j.start.live.auth \in AuthText
    BY <2>2, JobFields DEF LiveFiles
  <2>4. "check" \in WriteSteps /\ "live" \notin {}
    BY DEF WriteSteps
  <2>5. live = Overwritten(j.start.live, j.new)
    BY <2>2, <2>4 DEF LivePath
  <2>6. CASE Switching(j)
    <3>1. /\ s.enabled /\ j.target \in s.present
          /\ s.active \in s.present \/ s.active = j.target
          /\ settings = Leaving(s, j.target, j.start.live)
          /\ j.sel.profiles = settings.profiles /\ Selectable(j.sel.profiles[j.target])
      BY <2>2, <2>4, <2>6 DEF SettingsPath, LivePath, SameProvider
    <3>2. j.new = SelectedFiles(j.target, settings.profiles[j.target], j.start.live)
      BY <2>2, <2>4, <2>6, <3>1 DEF LivePath
    <3> HIDE DEF j, s
    <3> QED
      BY <2>1, <2>3, <2>5, <3>1, <3>2, SeenSwitch
  <2>7. CASE ~Switching(j)
    <3>1. settings = s
      BY <1>1, <2>2, <2>7 DEF TraceOK, AloneInv
    <3>2. Requested(s, j.start.live, j.new)
      BY <2>2, <2>4, <2>7 DEF LivePath
    <3> DEFINE was == j.start.live
    <3>3. ASSUME s.active \in s.present, j.new = ClearedFiles(s.profiles[s.active], was)
          PROVE  Atomic!Next
      BY <2>1, <2>5, <3>1, <3>3, SeenClear
    <3>4. ASSUME was.config.tag < MaxTag,
                 j.new = [config |-> [was.config EXCEPT !.tag = @ + 1], auth |-> None]
          PROVE  Atomic!Next
      <4>1. [was.config EXCEPT !.tag = @ + 1] \in ConfigText
        BY <2>3, <3>4, TagAssumption DEF ConfigText
      <4>2. live = [config |-> [was.config EXCEPT !.tag = @ + 1], auth |-> was.auth]
        BY <2>5, <3>4, <4>1, TextAssumption DEF Overwritten
      <4>3. live = [was EXCEPT !.config.tag = @ + 1]
        BY <2>3, <4>2 DEF LiveFiles
      <4> QED
        BY <2>1, <3>1, <3>4, <4>3, SeenEditLive
    <3>5. ASSUME j.new = [config |-> None, auth |-> Login] PROVE Atomic!Next
      <4>1. live = [config |-> was.config, auth |-> Login]
        BY <2>5, <3>5, TextAssumption DEF Overwritten
      <4>2. live = [was EXCEPT !.auth = Login]
        BY <2>3, <4>1 DEF LiveFiles
      <4> QED
        BY <2>1, <3>1, <4>2, SeenEditLive
    <3> QED
      BY <3>2, <3>3, <3>4, <3>5 DEF Requested
  <2> QED BY <2>6, <2>7
<1> QED
  BY <1>2, <1>3 DEF CheckWritten

LEMMA StoreAtomic ==
  ASSUME AloneInv, NEW m \in Managers, StoreBackfill(m) PROVE Atomic!Next
<1> DEFINE j == job[m]
           s == j.start.settings
<1>1. pc[m] = "storeBackfill" /\ pc[m] \in LockedSteps /\ IInv /\ UNCHANGED live
  BY DEF StoreBackfill, LockedSteps, AloneInv, PathInv
<1>2. /\ SettingsPath("storeBackfill", j, settings, {}) /\ TraceOK(m) /\ j \in Job
      /\ settings = s /\ live = j.start.live
  BY <1>1, Holder, HolderPath DEF AloneInv, TraceOK
<1>3. CASE UNCHANGED settings /\ (Done(m, "unchanged") \/ Done(m, "rejected"))
  BY <1>1, <1>2, <1>3, EndFails DEF AloneInv
<1>4. ASSUME NEW o \in {"ok", "unread"}, Done(m, o),
             settings' = [settings EXCEPT !.profiles = j.sel.profiles]
      PROVE  Atomic!Next
  <2>1. /\ SeenSettings = s /\ SeenLive = j.start.live /\ last' \in {"ok", "unread"}
        /\ SeenSettings' = settings' /\ SeenLive' = live
    BY <1>1, <1>4, HolderSees, FreeSees DEF Done
  <2>2. /\ s.profiles[s.active].mode # "aggregate"
        /\ j.sel = [s EXCEPT !.profiles[s.active] = Backfilled(@, j.start.live)]
    BY <1>2 DEF SettingsPath
  <2>3. s \in Settings
    BY <1>2, JobFields
  <2>4. settings' = [s EXCEPT !.profiles[s.active] = Backfilled(@, j.start.live)]
    BY <1>2, <1>4, <2>2, <2>3 DEF Settings
  <2> QED
    BY <1>2, <2>1, <2>2, <2>4, SeenBackfill
<1> QED
  BY <1>3, <1>4 DEF StoreBackfill

LEMMA DocumentAtomic ==
  ASSUME AloneInv, NEW m \in Managers, StoreDocument(m) PROVE Atomic!Next
<1> DEFINE d    == job[m]
           view == guard[m].provider
<1>1. /\ pc[m] = "document" /\ lock = None /\ IInv /\ settings \in Settings /\ UNCHANGED live
      /\ d \in DocumentJob
  BY DEF StoreDocument, AloneInv, PathInv, IInv, TypeOK, JobOK
<1>2. SeenSettings = settings /\ SeenLive = live
  BY <1>1, FreeSees
<1>3. CASE UNCHANGED settings /\ (Done(m, "unchanged") \/ Done(m, "rejected"))
  <2>1. SeenSettings' = settings /\ SeenLive' = live /\ last' \in {"unchanged", "rejected"}
    BY <1>1, <1>3, FreeSees DEF Done
  <2> QED
    BY <1>2, <2>1, SeenFail
<1>4. ASSUME ProviderRevision(settings) = view, Done(m, "ok"),
             settings' = [settings EXCEPT !.present = d.doc.present, !.profiles = d.doc.profiles,
                                          !.active = IF d.active = None THEN @ ELSE d.active]
      PROVE  Atomic!Next
  <2>1. SeenSettings' = settings' /\ SeenLive' = live /\ last' = "ok"
    BY <1>1, <1>4, FreeSees DEF Done
  <2>2. view.present = settings.present /\ view.profiles = settings.profiles
        /\ view = ProviderRevision(settings)
    BY <1>4 DEF ProviderRevision
  <2>3. DocumentOf(d, view, settings.active)
    BY <1>1, <1>4 DEF AloneInv, DocumentPath
  <2>4. ASSUME d.active = None, d.doc \in EditsOf(view) PROVE Atomic!Next
    <3>1. PICK p \in view.present : /\ view.profiles[p].cfg.tag < MaxTag
                                    /\ d.doc = [view EXCEPT !.profiles[p].cfg.tag = @ + 1]
      BY <2>4 DEF EditsOf
    <3>2. /\ d.doc.present = settings.present
          /\ d.doc.profiles = [settings.profiles EXCEPT ![p].cfg.tag = @ + 1]
      BY <2>2, <3>1 DEF ProviderRevision
    <3>3. settings' = [settings EXCEPT !.profiles[p].cfg.tag = @ + 1]
      BY <1>1, <1>4, <2>4, <3>2 DEF Settings
    <3>4. p \in Profiles /\ p \in settings.present
      BY <1>1, <2>2 DEF Settings
    <3> QED
      BY <1>2, <2>1, <2>2, <3>1, <3>3, <3>4, SeenDocument
  <2>5. ASSUME NEW p \in view.present, d.active = None, d.doc = Without(view, p),
               settings.active \in view.present => settings.active \in d.doc.present
        PROVE  Atomic!Next
    <3>1. /\ d.doc.present = settings.present \ {p}
          /\ d.doc.profiles = [settings.profiles EXCEPT ![p] = NewProfile(p)]
      BY <2>2, <2>5 DEF ProviderRevision, Without
    <3>2. settings' = Without(settings, p)
      BY <1>1, <1>4, <2>5, <3>1 DEF Settings, Without
    <3>3. p \in Profiles /\ p \in settings.present /\ p # settings.active
      BY <1>1, <2>2, <2>5, <3>1 DEF Settings
    <3> QED
      BY <1>2, <2>1, <3>2, <3>3, SeenDocument
  <2>6. ASSUME NEW p \in Profiles, p \notin view.present, d.active \in {p, settings.active},
               d.doc = [view EXCEPT !.present = @ \cup {p}, !.profiles[p] = NewProfile(p)]
        PROVE  Atomic!Next
    <3>1. /\ d.doc.present = settings.present \cup {p}
          /\ d.doc.profiles = [settings.profiles EXCEPT ![p] = NewProfile(p)]
      BY <2>2, <2>6 DEF ProviderRevision
    <3>2. d.active # None
      BY <1>1, <2>6, TextAssumption DEF Settings
    <3>3. settings' = [settings EXCEPT !.present = @ \cup {p}, !.active = d.active,
                                       !.profiles[p] = NewProfile(p)]
      BY <1>1, <1>4, <3>1, <3>2 DEF Settings
    <3> QED
      BY <1>2, <2>1, <2>2, <2>6, <3>3, SeenDocument
  <2> QED
    BY <2>3, <2>4, <2>5, <2>6 DEF DocumentOf
<1> QED
  BY <1>3, <1>4 DEF StoreDocument

LEMMA SwitchStepAtomic ==
  ASSUME AloneInv, NEW m \in Managers,
         SnapshotAndBackfill(m) \/ SaveSelection(m) \/ SelectFiles(m)
  PROVE  Atomic!Next \/ UNCHANGED Atomic!vars
<1>1. pc[m] \in {"snapshot", "save", "select"} /\ pc[m] \in LockedSteps /\ IInv
  BY DEF SnapshotAndBackfill, SaveSelection, SelectFiles, LockedSteps, AloneInv, PathInv
<1>2. pc[m] \in {"snapshot", "save"} =>
        settings = job[m].start.settings /\ live = job[m].start.live
  BY <1>1, Holder DEF TraceOK, AloneInv
<1>3. CASE SnapshotAndBackfill(m)
  <2>1. pc[m] = "snapshot" /\ UNCHANGED <<settings, live>>
    BY <1>3 DEF SnapshotAndBackfill
  <2>2. CASE Done(m, "unchanged")
    BY <1>1, <1>2, <2>1, <2>2, EndFails DEF AloneInv
  <2> DEFINE prev == job[m].start.settings.active
             sel  == job[m].sel
             left == IF prev = job[m].target \/ sel.profiles[prev].mode = "aggregate" THEN sel
                     ELSE [sel EXCEPT !.profiles[prev] = Backfilled(@, live)]
             now  == [settings |-> settings, live |-> live]
  <2>3. CASE job' = [job EXCEPT ![m].orig = now, ![m].sel = left] /\ Goto(m, "save")
    <3> HIDE DEF left, now
    <3>1. \E orig, lft : job' = [job EXCEPT ![m].orig = orig, ![m].sel = lft]
      BY <2>3
    <3> QED
      BY <1>1, <2>3, <3>1, OnwardStep
  <2> QED
    BY <1>3, <2>2, <2>3 DEF SnapshotAndBackfill
<1>4. CASE SaveSelection(m)
  <2>1. CASE Continue(m, "select")
    BY <1>1, <2>1, OnwardStep DEF Continue
  <2>2. CASE Done(m, "unchanged") /\ UNCHANGED settings
    <3>1. pc[m] = "save" /\ UNCHANGED live
      BY <1>4 DEF SaveSelection
    <3> QED
      BY <1>1, <1>2, <2>2, <3>1, EndFails DEF AloneInv
  <2> QED
    BY <1>4, <2>1, <2>2 DEF SaveSelection
<1>5. CASE SelectFiles(m)
  <2>1. CASE Continue(m, "rbSettings")
    BY <1>1, <2>1, OnwardStep DEF Continue
  <2>2. CASE /\ job' = [job EXCEPT ![m].sel = settings,
                          ![m].new = SelectedFiles(settings.active,
                                       settings.profiles[settings.active], live)]
             /\ Goto(m, "writeAuth")
    BY <1>1, <2>2, OnwardStep
  <2> QED
    BY <1>5, <2>1, <2>2 DEF SelectFiles
<1> QED
  BY <1>3, <1>4, <1>5

LEMMA WriteStepAtomic ==
  ASSUME AloneInv, NEW m \in Managers,
         \/ WriteAuth(m) \/ WriteConfig(m) \/ UndoWrite(m)
         \/ RestoreSettings(m) \/ RestoreAuth(m) \/ RestoreConfig(m)
  PROVE  UNCHANGED Atomic!vars
<1>1. pc[m] \in LockedSteps /\ IInv
  BY DEF WriteAuth, WriteConfig, UndoWrite, RestoreSettings, RestoreAuth, RestoreConfig,
         LockedSteps, WriteSteps, RollbackSteps, AloneInv, PathInv
<1>2. \E step : Goto(m, step)
  BY DEF WriteAuth, WriteConfig, UndoWrite, RestoreSettings, RestoreAuth, RestoreConfig, Continue
<1>3. \/ UNCHANGED job \/ job' = Unrestored(m) \/ job' = [job EXCEPT ![m].old = live]
  BY DEF WriteAuth, WriteConfig, UndoWrite, RestoreSettings, RestoreAuth, RestoreConfig, Continue
<1> QED
  BY <1>1, <1>2, <1>3, OnwardStep

LEMMA LastStepAtomic ==
  ASSUME AloneInv, IInv', NEW m \in Managers,
         VerifyRollback(m) \/ CompareLive(m) \/ SaveProviderSyncTarget(m)
  PROVE  Atomic!Next
<1>1. pc[m] \in {"verify", "compare", "saveTarget"} /\ pc[m] \in LockedSteps /\ IInv
  BY DEF VerifyRollback, CompareLive, SaveProviderSyncTarget, LockedSteps, RollbackSteps,
         AloneInv, PathInv
<1>2. TraceOK(m) /\ JobOK(m) /\ foreign = {}
  BY <1>1, Holder DEF AloneInv
<1>3. CASE VerifyRollback(m)
  <2>1. CASE Done(m, "failed")
    BY <1>1, <2>1, EndDamaged
  <2>2. CASE /\ Done(m, "verified")
             /\ settings = job[m].orig.settings /\ live = job[m].orig.live
    <3>1. pc[m] = "verify" /\ IsSwitch(m) /\ UNCHANGED <<settings, live>>
      BY <1>2, <1>3 DEF VerifyRollback, JobOK, RollbackSteps
    <3>2. job[m].orig = job[m].start
      BY <1>2, <3>1 DEF TraceOK, RollbackSteps
    <3> QED
      BY <1>1, <1>2, <2>2, <3>1, <3>2, EndFails
  <2> QED
    BY <1>3, <2>1, <2>2 DEF VerifyRollback
<1>4. CASE CompareLive(m)
  <2>1. CASE Done(m, "failed")
    BY <1>1, <2>1, EndDamaged
  <2>2. CASE Done(m, "verified") /\ live = job[m].start.live
    <3>1. ~IsSwitch(m) /\ UNCHANGED <<settings, live>>
      BY <1>2, <1>4 DEF CompareLive, JobOK
    <3>2. settings = job[m].start.settings
      BY <1>1, <1>2, <3>1 DEF TraceOK
    <3> QED
      BY <1>1, <1>2, <2>2, <3>1, <3>2, EndFails
  <2> QED
    BY <1>4, <2>1, <2>2 DEF CompareLive
<1>5. CASE SaveProviderSyncTarget(m)
  <2>1. pc[m] = "saveTarget" /\ UNCHANGED live
    BY <1>5 DEF SaveProviderSyncTarget
  <2>2. settings = job[m].start.settings /\ live = job[m].start.live
    BY <1>2, <2>1 DEF TraceOK
  <2>3. job[m].sel = job[m].start.settings
    BY <1>1, <2>1, HolderPath DEF SettingsPath, AloneInv
  <2>4. settings' = job[m].start.settings /\ (Done(m, "ok") \/ Done(m, "unchanged"))
    BY <1>5, <2>2, <2>3 DEF SaveProviderSyncTarget
  <2> QED
    BY <1>1, <1>2, <2>1, <2>2, <2>4, EndFails
<1> QED
  BY <1>3, <1>4, <1>5

LEMMA RequestAtomic ==
  ASSUME IInv, NEW m \in Managers, Request(m) PROVE Atomic!Next \/ UNCHANGED Atomic!vars
<1>1. ASSUME NEW kind, NEW target, Reject(m, kind, target) PROVE Atomic!Next
  BY <1>1, FreeSees, SeenFail DEF Reject
<1>2. ASSUME NEW kind, NEW target, NEW sel, NEW new, NEW step,
             Begin(m, kind, target, sel, new, step)
      PROVE  UNCHANGED Atomic!vars
  <2>1. lock' = m /\ m # None /\ UNCHANGED <<settings, live, last>> /\ lock = None
    BY <1>2, ManagerAssumption DEF Begin
  <2>2. job'[m].start = [settings |-> settings, live |-> live]
    BY <1>2 DEF Begin, IInv, TypeOK
  <2>3. UNCHANGED <<SeenSettings, SeenLive>>
    BY <2>1, <2>2 DEF SeenSettings, SeenLive
  <2> QED
    BY <2>1, <2>3, SeenVars
<1>3. CASE LoadLiveWorkspace(m)
  BY <1>3, FreeSees, SeenVars DEF LoadLiveWorkspace
<1>4. ASSUME UNCHANGED <<settings, live, lock, last>>, pc[m] = "idle",
             \A n \in Managers \ {m} : job'[n] = job[n]
      PROVE  UNCHANGED Atomic!vars
  <2>1. lock # m
    BY <1>4, StepsApart DEF IInv, LockOK
  <2>2. UNCHANGED <<SeenSettings, SeenLive>>
    BY <1>4, <2>1 DEF SeenSettings, SeenLive, IInv, TypeOK
  <2> QED
    BY <1>4, <2>2, SeenVars
<1>5. ASSUME \/ ValidateWorkspace(m)
             \/ \E p \in Profiles, kind \in {"import", "importCcs"} : ReadForImport(m, kind, p)
      PROVE  UNCHANGED Atomic!vars
  <2>1. UNCHANGED <<settings, live, lock, last>> /\ pc[m] = "idle"
    BY <1>5 DEF ValidateWorkspace, ReadForImport
  <2>2. \A n \in Managers \ {m} : job'[n] = job[n]
    BY <1>5 DEF ValidateWorkspace, ReadForImport, IInv, TypeOK
  <2> QED
    BY <1>4, <2>1, <2>2
<1> QED
  BY <1>1, <1>2, <1>3, <1>5
     DEF Request, SwitchProvider, ApplyActiveProvider, ClearLiveProvider, SaveLiveFile,
         BackfillActiveProvider, LoadForTarget, Admit

LEMMA NextAtomic ==
  ASSUME NoOtherWriter, AloneInv, [Next]_vars PROVE [Atomic!Next]_Atomic!vars
<1>1. IInv /\ IInv'
  BY NextInv DEF AloneInv, PathInv
<1>2. CASE UNCHANGED vars
  BY <1>2, SeenVars DEF vars, SeenSettings, SeenLive
<1>3. ASSUME NEW m \in Managers, Step(m) PROVE [Atomic!Next]_Atomic!vars
  BY <1>1, <1>3, SwitchStepAtomic, WriteStepAtomic, LastStepAtomic, CheckAtomic, StoreAtomic,
     DocumentAtomic DEF Step
<1>4. CASE Crash
  <2>1. lock' = None /\ settings' \in Settings /\ live' \in LiveFiles /\ last' = "crashed"
    BY <1>1, <1>4 DEF Crash, IInv, TypeOK
  <2> QED
    BY <2>1, FreeSees, SeenDamage
<1>5. ~BridgeSetSettings /\ ~CodexWritesLive
  BY DEF NoOtherWriter, BridgeSetSettings, CodexWritesLive
<1> QED
  BY <1>1, <1>2, <1>3, <1>4, <1>5, RequestAtomic DEF Next

LEMMA InitAtomic == Init => AloneInv /\ Atomic!Init
<1> SUFFICES ASSUME Init PROVE AloneInv /\ Atomic!Init
  OBVIOUS
<1>1. AloneInv
  BY InitPath, StepsApart DEF Init, AloneInv, DocumentPath
<1>2. PICK a \in Installed : settings = InitialSettings(a) /\ live = InitialLive(a)
  BY DEF Init
<1>3. SeenSettings = settings /\ SeenLive = live
  BY FreeSees DEF Init
<1>4. Atomic!InitialSettings(a) = InitialSettings(a)
  BY SameOperators DEF Atomic!InitialSettings, InitialSettings
<1>5. Atomic!InitialLive(a) = InitialLive(a)
  <2> DEFINE empty == [config |-> EmptyConfig, auth |-> NoAuth]
             texts == SelectedFiles(a, NewProfile(a), empty)
  <2>1. empty \in LiveFiles /\ NewProfile(a) \in RelayProfile /\ a \in Profiles
    BY EmptyConfigType, NewProfileType DEF LiveFiles, AuthText
  <2>2. texts \in Texts
    BY <2>1, SelectedFilesType
  <2>3. texts.config # None
    <3>1. CASE NewProfile(a).mode = "official"
      <4>1. texts.config = WithoutProvider(EmptyConfig)
        BY <3>1 DEF SelectedFiles, ClearedFiles
      <4> QED
        BY <4>1, EmptyConfigType DEF WithoutProvider, EmptyConfig
    <3>2. CASE NewProfile(a).mode # "official"
      BY <2>1, <3>2, AppliedFilesType DEF SelectedFiles, LiveFiles
    <3> QED BY <3>1, <3>2
  <2>4. Atomic!InitialLive(a) = Overwritten(empty, texts)
    BY SameOperators DEF Atomic!InitialLive, Atomic!EmptyConfig, EmptyConfig
  <2>5. InitialLive(a) = IF texts.auth = None THEN [texts EXCEPT !.auth = NoAuth] ELSE texts
    BY DEF InitialLive
  <2> HIDE DEF texts
  <2>6. Overwritten(empty, texts)
          = [config |-> texts.config, auth |-> IF texts.auth = None THEN NoAuth ELSE texts.auth]
    BY <2>3 DEF Overwritten
  <2> QED
    BY <2>2, <2>4, <2>5, <2>6 DEF Texts
<1>6. Atomic!Init
  BY <1>2, <1>3, <1>4, <1>5 DEF Atomic!Init, SeenSettings, SeenLive, Init
<1> QED BY <1>1, <1>6

(* Every operation happens in one step or not at all, or reports damage:    *)
(* with nobody who writes without the lock, and one thread if it stores     *)
(* documents, but any faults and crashes, the code implements the atomic    *)
(* specification.                                                           *)
THEOREM Refinement ==
  ASSUME DocumentsAlone, NoOtherWriter PROVE Spec => OperationsAreAtomic
<1>1. AloneInv /\ [Next]_vars => AloneInv' /\ [Atomic!Next]_Atomic!vars
  BY AloneStep, NextAtomic
<1> QED
  BY <1>1, InitAtomic, PTL DEF Spec, OperationsAreAtomic, Atomic!Spec

=============================================================================
