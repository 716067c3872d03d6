-------------------------- MODULE ProviderActivation --------------------------
(***************************************************************************)
(* Provider activation: the manager switches the relay provider of Codex.   *)
(*                                                                          *)
(* Three files are shared: the Codex++ settings file (profiles, the active  *)
(* profile) and Codex's two live files, config.toml and auth.json.  Every   *)
(* manager mutation holds the exclusive lock of the live files for its      *)
(* whole length, and checks the revisions its caller saw (the guard).  A    *)
(* switch copies the live files back into the profile it leaves, saves the  *)
(* settings, rewrites auth.json and then config.toml, and on any failure    *)
(* restores all three and verifies the result.                              *)
(*                                                                          *)
(* Not everybody takes that lock: the injected page updates the settings    *)
(* file through the launcher's bridge under the settings lock alone, and    *)
(* Codex (or an editor) writes the live files under no lock at all.  One    *)
(* action below is one file operation, so those writers may run between     *)
(* any two steps of a switch.                                               *)
(***************************************************************************)
EXTENDS RelayProfiles

CONSTANTS
  Managers,     \* threads of the manager that run provider operations
  Ops,          \* the operations the run exercises
  MaxFaults,    \* bounds the failing file writes
  MaxCrashes    \* bounds the crashes of the manager

AllOps == {"switch", "apply", "clear", "backfill", "saveLive", "saveWorkspace",
           "import", "importCcs", "saveTarget", "bridge", "codex"}

ASSUME OpsAssumption == Ops \subseteq AllOps
ASSUME ManagerAssumption == None \notin Managers
ASSUME BudgetAssumption == MaxFaults \in Nat /\ MaxCrashes \in Nat

VARIABLES
  settings,   \* the settings file
  live,       \* config.toml and auth.json
  lock,       \* holder of the exclusive lock of the live files, or None
  pc,         \* the next step of each manager thread
  job,        \* the locals of each manager thread's operation
  guard,      \* the revisions each manager thread's view was loaded with
  last,       \* how the last operation ended
  faults,     \* write failures so far
  crashes,    \* crashes so far
  foreign,    \* history: what was written without the lock since it was last taken
  tainted     \* history: the live files need not be the active profile's

vars == <<settings, live, lock, pc, job, guard, last, faults, crashes,
          foreign, tainted>>

-----------------------------------------------------------------------------
(* The state before the first operation: the active profile is applied. *)

InitialSettings(a) ==
  [active |-> a, present |-> Installed, profiles |-> [p \in Profiles |-> NewProfile(p)],
   enabled |-> TRUE, testModel |-> 0]

InitialLive(a) ==
  LET files == SelectedFiles(a, NewProfile(a), [config |-> EmptyConfig, auth |-> NoAuth])
  IN  IF files.auth = None THEN [files EXCEPT !.auth = NoAuth] ELSE files

NoOp == [kind |-> "none"]

Init ==
  /\ \E a \in Installed : settings = InitialSettings(a) /\ live = InitialLive(a)
  /\ lock = None
  /\ pc = [m \in Managers |-> "idle"]
  /\ job = [m \in Managers |-> NoOp]
  /\ guard = [m \in Managers |-> [provider |-> ProviderRevision(settings), live |-> live]]
  /\ last = "none"
  /\ faults = 0 /\ crashes = 0
  /\ foreign = {} /\ tainted = FALSE

(* An operation of m ends: the lock is released and the outcome reported.   *)
Done(m, outcome) ==
  /\ lock' = None
  /\ pc' = [pc EXCEPT ![m] = "idle"]
  /\ job' = [job EXCEPT ![m] = NoOp]
  /\ last' = outcome

Goto(m, step) == pc' = [pc EXCEPT ![m] = step] /\ UNCHANGED <<lock, last>>

(* The next step, with the locals unchanged. *)
Continue(m, step) == Goto(m, step) /\ UNCHANGED job

(* A file write either happens or fails, within the budget of faults.       *)
Fault == faults < MaxFaults /\ faults' = faults + 1
NoFault == UNCHANGED faults

-----------------------------------------------------------------------------
(* Loading and guarding *)

(* load_live_workspace: the manager's view is refreshed under the shared lock. *)
LoadLiveWorkspace(m) ==
  /\ pc[m] = "idle" /\ lock = None
  /\ guard' = [guard EXCEPT ![m] = [provider |-> ProviderRevision(settings), live |-> live]]
  /\ UNCHANGED <<settings, live, lock, pc, job, last, faults, crashes, foreign, tainted>>

(* validate_guard *)
GuardHolds(m) ==
  /\ ProviderRevision(settings) = guard[m].provider
  /\ live = guard[m].live

(* What an operation refuses once its guard holds. *)
Refused(kind, target) ==
  \/ kind \in {"switch", "apply"} /\ ~settings.enabled
  \/ kind \in {"switch", "apply", "clear", "backfill"} /\ target \notin settings.present
  \/ kind = "backfill" /\ settings.profiles[target].mode = "aggregate"

(* The operation is turned away under the lock, before anything is written. *)
Reject(m, kind, target) ==
  /\ pc[m] = "idle" /\ lock = None /\ kind \in Ops
  /\ ~GuardHolds(m) \/ Refused(kind, target)
  /\ last' = "rejected"
  /\ UNCHANGED <<settings, live, lock, pc, job, guard, faults, crashes, foreign, tainted>>

(* The operation takes the lock and loads the state.  sel is the copy of    *)
(* the settings it works on, new the live texts it will write, orig what it *)
(* would restore, old the texts its last write replaced; start is history.  *)
Begin(m, kind, target, sel, new, step) ==
  /\ pc[m] = "idle" /\ lock = None /\ kind \in Ops
  /\ lock' = m
  /\ pc' = [pc EXCEPT ![m] = step]
  /\ job' = [job EXCEPT ![m] =
       [kind |-> kind, target |-> target, sel |-> sel, new |-> new, old |-> live,
        orig |-> [settings |-> settings, live |-> live],
        start |-> [settings |-> settings, live |-> live], restored |-> TRUE]]
  /\ foreign' = {}
  /\ UNCHANGED <<settings, live, guard, last, faults, crashes, tainted>>

Admit(m, kind, target, sel, new, step) ==
  /\ GuardHolds(m) /\ ~Refused(kind, target)
  /\ Begin(m, kind, target, sel, new, step)

-----------------------------------------------------------------------------
(* switch_provider and apply_active_provider: switch_relay_profile_in_home *)

(* select_target_profile *)
Selecting(target) == [settings EXCEPT !.active = target]

SwitchProvider(m, target) ==
  Admit(m, "switch", target, Selecting(target), live, "snapshot")

ApplyActiveProvider(m) ==
  Admit(m, "apply", settings.active, settings, live, "snapshot")

(* Mutants: nothing is taken over from the live files; the profile that is  *)
(* about to be selected takes them over.                                    *)
SnapshotOnly(m) ==
  /\ pc[m] = "snapshot"
  /\ job' = [job EXCEPT ![m].orig = [settings |-> settings, live |-> live]]
  /\ Goto(m, "save")
  /\ UNCHANGED <<settings, live, guard, faults, crashes, foreign, tainted>>

SnapshotIntoTarget(m) ==
  /\ pc[m] = "snapshot"
  /\ job' = [job EXCEPT ![m].orig = [settings |-> settings, live |-> live],
                        ![m].sel.profiles[job[m].target] = Backfilled(@, live)]
  /\ Goto(m, "save")
  /\ UNCHANGED <<settings, live, guard, faults, crashes, foreign, tainted>>

(* The settings are read a second time and the live files captured, which   *)
(* is what a rollback restores; the profile being left takes over the live  *)
(* texts, in the copy read first.                                           *)
SnapshotAndBackfill(m) ==
  LET prev == job[m].start.settings.active
      sel  == job[m].sel
      left == IF prev = job[m].target \/ sel.profiles[prev].mode = "aggregate" THEN sel
              ELSE [sel EXCEPT !.profiles[prev] = Backfilled(@, live)]
  IN /\ pc[m] = "snapshot"
     /\ \/ /\ prev \in sel.present \/ prev = job[m].target
           /\ job' = [job EXCEPT ![m].orig = [settings |-> settings, live |-> live],
                                 ![m].sel = left]
           /\ Goto(m, "save")
        \/ /\ prev \notin sel.present /\ prev # job[m].target
           /\ Done(m, "unchanged")
     /\ UNCHANGED <<settings, live, guard, faults, crashes, foreign, tainted>>

(* Mutants: only the active profile is stored; the file is not replaced in  *)
(* one piece, so that a failing save leaves the new contents.               *)
SaveActiveOnly(m) ==
  /\ pc[m] = "save"
  /\ \/ settings' = [settings EXCEPT !.active = job[m].sel.active]
        /\ NoFault /\ Continue(m, "select")
     \/ Fault /\ Done(m, "unchanged") /\ UNCHANGED settings
  /\ UNCHANGED <<live, guard, crashes, foreign, tainted>>

SaveInPlace(m) ==
  /\ pc[m] = "save"
  /\ settings' = job[m].sel
  /\ \/ NoFault /\ Continue(m, "select")
     \/ Fault /\ Done(m, "unchanged")
  /\ UNCHANGED <<live, guard, crashes, foreign, tainted>>

(* store.save overwrites whatever the settings file holds by now. *)
SaveSelection(m) ==
  /\ pc[m] = "save"
  /\ \/ settings' = job[m].sel /\ NoFault /\ Continue(m, "select")
     \/ Fault /\ Done(m, "unchanged") /\ UNCHANGED settings
  /\ UNCHANGED <<live, guard, crashes, foreign, tainted>>

(* The settings are read back, and the selected profile is checked and      *)
(* turned into live texts.  The check, the text conversions and the backup  *)
(* of the old files can fail before anything is written.                    *)
SelectFiles(m) ==
  LET p    == settings.active
      prof == settings.profiles[p]
  IN /\ pc[m] = "select"
     /\ \/ /\ Selectable(prof) /\ NoFault
           /\ job' = [job EXCEPT ![m].sel = settings,
                                 ![m].new = SelectedFiles(p, prof, live)]
           /\ Goto(m, "writeAuth")
        \/ /\ Selectable(prof) /\ Fault
           /\ Continue(m, "rbSettings")
        \/ /\ ~Selectable(prof) /\ NoFault
           /\ Continue(m, "rbSettings")
     /\ UNCHANGED <<settings, live, guard, crashes, foreign, tainted>>

-----------------------------------------------------------------------------
(* write_codex_live_atomic: auth.json first, then config.toml *)

IsSwitch(m) == job[m].kind \in {"switch", "apply"}

AfterFailedWrite(m) == IF IsSwitch(m) THEN "rbSettings" ELSE "compare"

(* Mutant: a text that is to be left alone is written too. *)
WriteAuthAlways(m) ==
  /\ pc[m] = "writeAuth" /\ NoFault
  /\ live' = [live EXCEPT !.auth = job[m].new.auth]
  /\ job' = [job EXCEPT ![m].old = live]
  /\ Goto(m, "writeConfig")
  /\ UNCHANGED <<settings, guard, crashes, foreign, tainted>>

WriteAuth(m) ==
  /\ pc[m] = "writeAuth"
  /\ \/ /\ NoFault
        /\ live' = IF job[m].new.auth = None THEN live
                   ELSE [live EXCEPT !.auth = job[m].new.auth]
        /\ job' = [job EXCEPT ![m].old = live]
        /\ Goto(m, "writeConfig")
     \/ Fault /\ Continue(m, AfterFailedWrite(m)) /\ UNCHANGED live
  /\ UNCHANGED <<settings, guard, crashes, foreign, tainted>>

(* Mutant: the failure to write config.toml is ignored. *)
WriteConfigIgnoring(m) ==
  /\ pc[m] = "writeConfig"
  /\ \/ /\ NoFault
        /\ live' = IF job[m].new.config = None THEN live
                   ELSE [live EXCEPT !.config = job[m].new.config]
     \/ Fault /\ UNCHANGED live
  /\ Continue(m, "check")
  /\ UNCHANGED <<settings, guard, crashes, foreign, tainted>>

WriteConfig(m) ==
  /\ pc[m] = "writeConfig"
  /\ \/ /\ NoFault
        /\ live' = IF job[m].new.config = None THEN live
                   ELSE [live EXCEPT !.config = job[m].new.config]
        /\ Continue(m, "check")
     \/ /\ job[m].new.config # None
        /\ Fault /\ Continue(m, "undo") /\ UNCHANGED live
  /\ UNCHANGED <<settings, guard, crashes, foreign, tainted>>

(* config.toml could not be written: auth.json, if it was, and config.toml  *)
(* are put back as far as that succeeds; the caller is told of the first    *)
(* failure only.                                                            *)
UndoWrite(m) ==
  LET auth == IF job[m].new.auth = None THEN live.auth ELSE job[m].old.auth
      config == job[m].old.config
  IN /\ pc[m] = "undo"
     /\ \/ live' = [config |-> config, auth |-> auth] /\ NoFault
        \/ live' \in {[live EXCEPT !.config = config], [live EXCEPT !.auth = auth]} /\ Fault
     /\ Continue(m, AfterFailedWrite(m))
     /\ UNCHANGED <<settings, guard, crashes, foreign, tainted>>

(* A pure API profile must leave Codex configured; nothing else is checked. *)
(* The answer is then read from the files: when that fails, the caller is   *)
(* told so and not that the operation was done.                             *)
CheckWritten(m) ==
  LET sel == job[m].sel
      bad == IsSwitch(m) /\ sel.profiles[sel.active].mode = "pure" /\ ~Configured(live)
  IN /\ pc[m] = "check"
     /\ \/ bad /\ NoFault /\ Continue(m, "rbSettings")
        \/ ~bad /\ NoFault /\ Done(m, "ok")
        \/ ~bad /\ Fault /\ Done(m, "unread")
     /\ UNCHANGED <<settings, live, guard, crashes, foreign, tainted>>

-----------------------------------------------------------------------------
(* rollback_switch_failure: every restore is attempted, then both verified *)

Unrestored(m) == [job EXCEPT ![m].restored = FALSE]

RestoreSettings(m) ==
  /\ pc[m] = "rbSettings"
  /\ \/ settings' = job[m].orig.settings /\ NoFault /\ UNCHANGED job
     \/ Fault /\ job' = Unrestored(m) /\ UNCHANGED settings
  /\ Goto(m, "rbAuth")
  /\ UNCHANGED <<live, guard, crashes, foreign, tainted>>

RestoreAuth(m) ==
  /\ pc[m] = "rbAuth"
  /\ \/ live' = [live EXCEPT !.auth = job[m].orig.live.auth] /\ NoFault /\ UNCHANGED job
     \/ Fault /\ job' = Unrestored(m) /\ UNCHANGED live
  /\ Goto(m, "rbConfig")
  /\ UNCHANGED <<settings, guard, crashes, foreign, tainted>>

RestoreConfig(m) ==
  /\ pc[m] = "rbConfig"
  /\ \/ live' = [live EXCEPT !.config = job[m].orig.live.config] /\ NoFault /\ UNCHANGED job
     \/ Fault /\ job' = Unrestored(m) /\ UNCHANGED live
  /\ Goto(m, "verify")
  /\ UNCHANGED <<settings, guard, crashes, foreign, tainted>>

(* Mutant: the lock stays with an operation whose rollback failed. *)
VerifyKeepingLock(m) ==
  LET verified == job[m].restored /\ settings = job[m].orig.settings /\ live = job[m].orig.live
  IN /\ pc[m] = "verify"
     /\ IF verified THEN Done(m, "verified")
        ELSE pc' = [pc EXCEPT ![m] = "idle"] /\ last' = "failed" /\ UNCHANGED <<lock, job>>
     /\ tainted' = (tainted \/ ~verified)
     /\ UNCHANGED <<settings, live, guard, faults, crashes, foreign>>

(* Mutant: only the live files are compared. *)
VerifyLiveOnly(m) ==
  LET verified == live = job[m].orig.live
  IN /\ pc[m] = "verify"
     /\ Done(m, IF verified THEN "verified" ELSE "failed")
     /\ tainted' = (tainted \/ ~verified)
     /\ UNCHANGED <<settings, live, guard, faults, crashes, foreign>>

(* Success of both restores and equality of what is on disk now. *)
VerifyRollback(m) ==
  LET verified == /\ job[m].restored
                  /\ settings = job[m].orig.settings
                  /\ live = job[m].orig.live
  IN /\ pc[m] = "verify"
     /\ Done(m, IF verified THEN "verified" ELSE "failed")
     /\ tainted' = (tainted \/ ~verified)
     /\ UNCHANGED <<settings, live, guard, faults, crashes, foreign>>

(* non_switch_failure: nothing is restored, the live revision is compared.  *)
CompareLive(m) ==
  LET same == live = job[m].start.live
  IN /\ pc[m] = "compare"
     /\ Done(m, IF same THEN "verified" ELSE "failed")
     /\ tainted' = (tainted \/ ~same)
     /\ UNCHANGED <<settings, live, guard, faults, crashes, foreign>>

-----------------------------------------------------------------------------
(* The other operations of the manager *)

ClearLiveProvider(m) ==
  LET prof == settings.profiles[settings.active]
  IN  Admit(m, "clear", settings.active, settings, ClearedFiles(prof, live), "writeAuth")

(* The user saves one live file from the editor: config.toml with new lines *)
(* of their own, or auth.json with a login.                                 *)
SaveLiveFile(m) ==
  \/ /\ live.config.tag < MaxTag
     /\ Admit(m, "saveLive", settings.active, settings,
              [config |-> [live.config EXCEPT !.tag = @ + 1], auth |-> None], "writeAuth")
  \/ Admit(m, "saveLive", settings.active, settings,
           [config |-> None, auth |-> Login], "writeAuth")

BackfillActiveProvider(m) ==
  LET a == settings.active
  IN  Admit(m, "backfill", a, [settings EXCEPT !.profiles[a] = Backfilled(@, live)],
            live, "storeBackfill")

(* update_if: the profiles are merged into what the file holds now, if the  *)
(* active profile and the provider revision are still those of the guard.   *)
(* As after a write of the live files, the answer may not be readable.      *)
StoreBackfill(m) ==
  LET fresh == /\ settings.active = job[m].target
               /\ ProviderRevision(settings) = guard[m].provider
  IN /\ pc[m] = "storeBackfill"
     /\ \/ /\ fresh /\ NoFault
           /\ settings' = [settings EXCEPT !.profiles = job[m].sel.profiles]
           /\ Done(m, "ok")
        \/ /\ fresh /\ Fault
           /\ settings' = [settings EXCEPT !.profiles = job[m].sel.profiles]
           /\ Done(m, "unread")
        \/ fresh /\ Fault /\ Done(m, "unchanged") /\ UNCHANGED settings
        \/ ~fresh /\ NoFault /\ Done(m, "rejected") /\ UNCHANGED settings
     /\ UNCHANGED <<live, guard, crashes, foreign, tainted>>

(* save_workspace: a document the user made from the view, by an edit of a  *)
(* profile or without one of them, is validated against the settings as     *)
(* they are now, before any lock is taken.                                  *)
EditsOf(doc) ==
  {[doc EXCEPT !.profiles[p].cfg.tag = @ + 1] :
     p \in {q \in doc.present : /\ doc.profiles[q].mode \in {"pure", "mixed"}
                               /\ doc.profiles[q].cfg.tag < MaxTag}}

ValidateWorkspace(m) ==
  LET view == guard[m].provider
  IN /\ "saveWorkspace" \in Ops
     /\ pc[m] = "idle"
     /\ \E doc \in EditsOf(view) \cup {Without(view, p) : p \in view.present} :
          /\ settings.active \in settings.present => Storable(doc, settings.active)
          /\ job' = [job EXCEPT ![m] = [kind |-> "saveWorkspace", doc |-> doc, active |-> None]]
     /\ pc' = [pc EXCEPT ![m] = "document"]
     /\ UNCHANGED <<settings, live, lock, guard, last, faults, crashes, foreign, tainted>>

(* confirm_pending and import_ccs: a profile is added to the settings as    *)
(* they are now, if the view still matches.  A confirmed import link makes  *)
(* it the active one; an import from cc-switch keeps the active one it saw. *)
ReadForImport(m, kind, p) ==
  /\ kind \in Ops
  /\ pc[m] = "idle" /\ p \notin settings.present
  /\ ProviderRevision(settings) = guard[m].provider
  /\ job' = [job EXCEPT ![m] =
       [kind |-> kind, active |-> IF kind = "import" THEN p ELSE settings.active,
        doc |-> [guard[m].provider EXCEPT !.present = @ \cup {p},
                                          !.profiles[p] = NewProfile(p)]]]
  /\ pc' = [pc EXCEPT ![m] = "document"]
  /\ UNCHANGED <<settings, live, lock, guard, last, faults, crashes, foreign, tainted>>

(* update_settings_if: under the lock, the document replaces the stored     *)
(* profiles if the provider revision is still that of the view; an import   *)
(* stores its active profile too, and leaves the live files as they are.    *)
StoreDocument(m) ==
  LET d     == job[m]
      fresh == ProviderRevision(settings) = guard[m].provider
  IN /\ pc[m] = "document" /\ lock = None
     /\ \/ /\ fresh /\ NoFault
           /\ settings' = [settings EXCEPT !.present = d.doc.present, !.profiles = d.doc.profiles,
                                           !.active = IF d.active = None THEN @ ELSE d.active]
           /\ tainted' = (tainted \/ d.kind = "import")
           /\ Done(m, "ok")
        \/ fresh /\ Fault /\ Done(m, "unchanged") /\ UNCHANGED <<settings, tainted>>
        \/ ~fresh /\ NoFault /\ Done(m, "rejected") /\ UNCHANGED <<settings, tainted>>
     /\ UNCHANGED <<live, guard, crashes, foreign>>

(* save_provider_sync_target: the settings are loaded, one field that is    *)
(* left out here is set, and the copy is saved, all under the live lock.    *)
LoadForTarget(m) ==
  Begin(m, "saveTarget", settings.active, settings, live, "saveTarget")

SaveProviderSyncTarget(m) ==
  /\ pc[m] = "saveTarget"
  /\ \/ settings' = job[m].sel /\ NoFault /\ Done(m, "ok")
     \/ Fault /\ Done(m, "unchanged") /\ UNCHANGED settings
  /\ UNCHANGED <<live, guard, crashes, foreign, tainted>>

-----------------------------------------------------------------------------
(* Writers that do not take the lock of the live files, and crashes *)

(* set_settings of the bridge: fields merged into the stored settings under *)
(* the settings lock.                                                       *)
BridgeSetSettings ==
  /\ "bridge" \in Ops
  /\ \/ /\ settings.testModel < MaxModel
        /\ settings' = [settings EXCEPT !.testModel = @ + 1]
     \/ \E on \in BOOLEAN : settings' = [settings EXCEPT !.enabled = on]
  /\ foreign' = foreign \cup {"settings"}
  /\ UNCHANGED <<live, lock, pc, job, guard, last, faults, crashes, tainted>>

(* Codex, or the user's editor, changes lines of config.toml or logs in.    *)
CodexWritesLive ==
  /\ "codex" \in Ops
  /\ \/ /\ live.config.tag < MaxTag
        /\ live' = [live EXCEPT !.config.tag = @ + 1]
     \/ live.auth # Login /\ live' = [live EXCEPT !.auth = Login]
  /\ foreign' = foreign \cup {"live"}
  /\ UNCHANGED <<settings, lock, pc, job, guard, last, faults, crashes, tainted>>

(* The manager dies: its threads stop where they are, the operating system  *)
(* releases the lock, and no one rolls anything back.                       *)
Crash ==
  /\ crashes < MaxCrashes /\ lock # None
  /\ crashes' = crashes + 1
  /\ lock' = None
  /\ pc' = [m \in Managers |-> "idle"]
  /\ job' = [m \in Managers |-> NoOp]
  /\ tainted' = TRUE /\ last' = "crashed"
  /\ UNCHANGED <<settings, live, guard, faults, foreign>>

-----------------------------------------------------------------------------
Step(m) ==
  \/ SnapshotAndBackfill(m) \/ SaveSelection(m) \/ SelectFiles(m)
  \/ WriteAuth(m) \/ WriteConfig(m) \/ UndoWrite(m) \/ CheckWritten(m)
  \/ RestoreSettings(m) \/ RestoreAuth(m) \/ RestoreConfig(m) \/ VerifyRollback(m)
  \/ CompareLive(m) \/ StoreBackfill(m) \/ StoreDocument(m)
  \/ SaveProviderSyncTarget(m)

Request(m) ==
  \/ LoadLiveWorkspace(m)
  \/ \E p \in Profiles : SwitchProvider(m, p) \/ Reject(m, "switch", p)
  \/ ApplyActiveProvider(m) \/ ClearLiveProvider(m)
  \/ SaveLiveFile(m) \/ BackfillActiveProvider(m)
  \/ \E kind \in {"apply", "clear", "saveLive", "backfill"} :
       Reject(m, kind, settings.active)
  \/ ValidateWorkspace(m) \/ LoadForTarget(m)
  \/ \E p \in Profiles, kind \in {"import", "importCcs"} : ReadForImport(m, kind, p)

Next ==
  \/ \E m \in Managers : Step(m) \/ Request(m)
  \/ BridgeSetSettings \/ CodexWritesLive \/ Crash

(* Nothing keeps the user from stopping, but an admitted operation runs on: *)
(* its thread takes its next step unless the manager dies.                  *)
Spec == Init /\ [][Next]_vars /\ \A m \in Managers : WF_vars(Step(m))

-----------------------------------------------------------------------------
(* Properties *)

FreeSteps == {"idle", "document"}
RollbackSteps == {"rbSettings", "rbAuth", "rbConfig", "verify"}
WriteSteps == {"writeAuth", "writeConfig", "undo", "check"}
LockedSteps == {"snapshot", "save", "select", "compare", "storeBackfill", "saveTarget"}
                 \cup WriteSteps \cup RollbackSteps

Outcomes == {"none", "ok", "unread", "rejected", "unchanged", "verified", "failed", "crashed"}

Texts    == [config : ConfigText \cup {None}, auth : AuthText \cup {None}]
Snapshot == [settings : Settings, live : LiveFiles]

Job == [kind : AllOps, target : Profiles, sel : Settings, new : Texts, old : LiveFiles,
        orig : Snapshot, start : Snapshot, restored : BOOLEAN]
DocumentJob == [kind : {"saveWorkspace", "import", "importCcs"}, doc : ProviderDocument,
                active : Profiles \cup {None}]

(* The shape of the shared state and of every thread's locals. *)
TypeOK ==
  /\ settings \in Settings
  /\ live \in LiveFiles
  /\ lock \in Managers \cup {None}
  /\ pc \in [Managers -> FreeSteps \cup LockedSteps]
  /\ job \in [Managers -> Job \cup DocumentJob \cup {NoOp}]
  /\ guard \in [Managers -> [provider : ProviderDocument, live : LiveFiles]]
  /\ last \in Outcomes
  /\ faults \in Nat /\ crashes \in Nat
  /\ foreign \subseteq {"settings", "live"} /\ tainted \in BOOLEAN

(* m's operation ends in this step with one of these outcomes. *)
EndsWith(m, outcomes) ==
  pc[m] # "idle" /\ pc'[m] = "idle" /\ last' \in outcomes

(* An operation that fails and does not report a failed rollback leaves the *)
(* settings and both live files exactly as they were when it took the lock, *)
(* whichever of its writes failed - provided no unlocked writer came in.    *)
FailureLeavesNoTrace ==
  [][\A m \in Managers :
       EndsWith(m, {"rejected", "unchanged", "verified"}) /\ lock = m /\ foreign = {} =>
         settings' = job[m].start.settings /\ live' = job[m].start.live]_vars

(* Why that holds: only the holder of the lock is past the free steps.  It  *)
(* has touched nothing until it saves, it never touches the settings unless *)
(* it switches, and a switch rolls back to what it found.                   *)
LockOK == \A m \in Managers : lock = m <=> pc[m] \in LockedSteps

JobOK(m) ==
  /\ pc[m] \in LockedSteps => job[m] \in Job
  /\ pc[m] = "document" => job[m] \in DocumentJob
  /\ pc[m] \in RollbackSteps \cup {"snapshot", "save", "select"} => IsSwitch(m)
  /\ pc[m] \in {"compare", "storeBackfill", "saveTarget"} => ~IsSwitch(m)

TraceOK(m) ==
  foreign = {} =>
    /\ pc[m] \in {"snapshot", "save", "storeBackfill", "saveTarget"} =>
         settings = job[m].start.settings /\ live = job[m].start.live
    /\ pc[m] \in {"save", "select"} \cup WriteSteps \cup RollbackSteps /\ IsSwitch(m) =>
         job[m].orig = job[m].start
    /\ pc[m] \in LockedSteps /\ ~IsSwitch(m) => settings = job[m].start.settings

IInv == TypeOK /\ LockOK /\ \A m \in Managers : JobOK(m) /\ TraceOK(m)

(* The live files select what the profile says. *)
Serves(p, prof, files) ==
  IF prof.mode = "official" THEN files.config.ep = None /\ files.auth \notin Profiles
  ELSE /\ files.config.ep = Endpoint(p, prof)
       /\ prof.mode = "pure" => Configured(files)
       /\ prof.mode # "pure" => files.auth \notin Profiles

(* A switch that reports success has stored the target as the active        *)
(* profile and made the live files serve it, even when the settings were    *)
(* updated behind its back while it ran.  (A damaged profile may not work.) *)
SwitchTakesEffect ==
  [][\A m \in Managers :
       EndsWith(m, {"ok"}) /\ IsSwitch(m) /\ "live" \notin foreign /\ ~tainted =>
         LET p == job[m].target
         IN  settings'.active = p /\ Serves(p, settings'.profiles[p], live')]_vars

(* A successful switch keeps what the user wrote into config.toml: it is    *)
(* in the profile that was left; and it changes no third profile.           *)
SwitchKeepsLiveEdits ==
  [][\A m \in Managers :
       EndsWith(m, {"ok"}) /\ job[m].kind = "switch" /\ foreign = {} =>
         LET s    == job[m].start.settings
             prev == s.active
         IN /\ \A q \in Profiles \ {prev} : settings'.profiles[q] = s.profiles[q]
            /\ prev # job[m].target /\ s.profiles[prev].mode # "aggregate" =>
                 settings'.profiles[prev].cfg.tag = job[m].start.live.config.tag]_vars

(* A stored profile holds its own endpoint and key, or none. *)
Owned(p, prof) ==
  /\ prof.cfg.ep \in {p, None} /\ prof.cfg.tok \in {p, None}
  /\ prof.apiKey \in {p, None} /\ prof.auth \in {p, Login, NoAuth}

LiveOwned(p, files) ==
  /\ files.config.ep \in {p, None} /\ files.config.tok \in {p, None}
  /\ files.auth \in {p, Login, NoAuth}

(* No profile ever takes over another provider's endpoint or key, in the    *)
(* settings file or in the copy a running switch is about to save.          *)
ProfilesKeepTheirProvider ==
  ~tainted => \A p \in settings.present : Owned(p, settings.profiles[p])

(* Whenever the lock is free, the live files belong to the active profile.  *)
LiveBelongsToActive == ~tainted /\ lock = None => LiveOwned(settings.active, live)

(* A running switch keeps every line the user wrote into config.toml in a   *)
(* file: until the profile it leaves has them, config.toml still does, so a *)
(* crash at any step loses none.                                            *)
EditsAlwaysStored ==
  \A m \in Managers :
    lock = m /\ job[m].kind = "switch" /\ foreign = {} =>
      LET s == job[m].start
      IN  \/ s.settings.active = job[m].target
          \/ s.settings.profiles[s.settings.active].mode = "aggregate"
          \/ live.config = s.live.config
          \/ settings.profiles[s.settings.active].cfg.tag = s.live.config.tag

(* Why these hold.  A profile keeps its kind: an API profile has a key and   *)
(* a pure one an auth text that holds one, so that a switch to it leaves    *)
(* Codex configured.  And while nothing went wrong, it is Owned.            *)
KeepsKind(p, prof) ==
  /\ prof.mode = "official" <=> Mode[p] = "official"
  /\ prof.mode = "aggregate" <=> Mode[p] = "aggregate"
  /\ prof.mode \in {"pure", "mixed"} => prof.apiKey # None
  /\ prof.mode = "pure" => prof.auth \in Profiles

Kept(profiles)   == \A p \in Profiles : KeepsKind(p, profiles[p])
Unmixed(profiles) ==
  \A p \in Profiles :
    /\ Owned(p, profiles[p])
    /\ Mode[p] = "official" => profiles[p].auth \notin Profiles

(* All copies of the profiles that may yet be stored are like that. *)
KeptCopies ==
  /\ Kept(settings.profiles)
  /\ \A m \in Managers :
       /\ Kept(guard[m].provider.profiles)
       /\ pc[m] = "document" => Kept(job[m].doc.profiles)
       /\ pc[m] \in LockedSteps =>
            /\ Kept(job[m].sel.profiles)
            /\ Kept(job[m].orig.settings.profiles)
            /\ Kept(job[m].start.settings.profiles)

UnmixedCopies ==
  /\ Unmixed(settings.profiles)
  /\ \A m \in Managers :
       /\ Unmixed(guard[m].provider.profiles)
       /\ pc[m] = "document" => Unmixed(job[m].doc.profiles)
       /\ pc[m] \in LockedSteps =>
            /\ Unmixed(job[m].sel.profiles)
            /\ Unmixed(job[m].orig.settings.profiles)
            /\ Unmixed(job[m].start.settings.profiles)

(* The settings s once p is selected and the profile left has taken over    *)
(* the live files; what the writers outside the lock leave alone; and the   *)
(* live files with the texts that are not None put in their place.          *)
Leaving(s, p, files) ==
  IF s.active = p \/ s.profiles[s.active].mode = "aggregate" THEN [s EXCEPT !.active = p]
  ELSE [s EXCEPT !.active = p, !.profiles[s.active] = Backfilled(@, files)]

SameProvider(s, t) == s.active = t.active /\ s.present = t.present /\ s.profiles = t.profiles

Overwritten(files, texts) ==
  [config |-> IF texts.config = None THEN files.config ELSE texts.config,
   auth   |-> IF texts.auth = None THEN files.auth ELSE texts.auth]

(* Where an operation at a step, with locals j, has brought the settings.   *)
Switching(j) == j.kind \in {"switch", "apply"}

SettingsPath(step, j, now, writers) ==
  LET s    == j.start.settings
      left == Leaving(s, j.target, j.orig.live)
  IN /\ ~Switching(j) => j.target = s.active /\ SameProvider(now, s)
     /\ step \in {"snapshot", "save"} => SameProvider(now, s)
     /\ step = "snapshot" => j.sel = [s EXCEPT !.active = j.target]
     /\ step = "save" => j.sel = left
     /\ step = "saveTarget" => j.sel = s
     /\ step = "storeBackfill" =>
          /\ s.profiles[s.active].mode # "aggregate"
          /\ j.sel = [s EXCEPT !.profiles[s.active] = Backfilled(@, j.start.live)]
     /\ Switching(j) =>
          /\ s.enabled /\ j.target \in s.present /\ SameProvider(j.orig.settings, s)
          /\ step # "snapshot" => s.active \in s.present \/ s.active = j.target
          /\ step \in {"select"} \cup WriteSteps =>
               SameProvider(now, left) /\ (writers = {} => now = left)
          /\ step \in WriteSteps => SameProvider(j.sel, now) /\ Selectable(j.sel.profiles[j.target])

(* The texts that an operation other than a switch may write. *)
Requested(s, files, new) ==
  \/ s.active \in s.present /\ new = ClearedFiles(s.profiles[s.active], files)
  \/ /\ files.config.tag < MaxTag
     /\ new = [config |-> [files.config EXCEPT !.tag = @ + 1], auth |-> None]
  \/ new = [config |-> None, auth |-> Login]

(* Where it has brought the live files, unless Codex wrote them meanwhile.  *)
BeforeWrites == {"snapshot", "save", "select", "writeAuth", "storeBackfill", "saveTarget"}

LivePath(step, j, files, writers) ==
  LET was == j.start.live
  IN "live" \notin writers =>
     /\ j.orig.live = was
     /\ step \in BeforeWrites => files = was
     /\ step \in WriteSteps =>
          IF Switching(j) THEN j.new = SelectedFiles(j.target, j.sel.profiles[j.target], was)
          ELSE Requested(j.start.settings, was, j.new)
     /\ step \in {"writeConfig", "undo"} =>
          /\ j.old = was
          /\ files = [Overwritten(was, j.new) EXCEPT !.config = was.config]
     /\ step = "check" => files = Overwritten(was, j.new)
     /\ step \in RollbackSteps => files.config = was.config

(* Whose the live files are on the way, while nothing went wrong.           *)
ConfigFits(p, cfg) ==
  cfg.ep \in {p, None} /\ cfg.tok \in {p, None} /\ (Mode[p] = "official" => cfg.tok = None)

AuthFits(p, auth) == auth \in {p, Login, NoAuth} /\ (Mode[p] = "official" => auth # p)

LiveFits(p, files) == ConfigFits(p, files.config) /\ AuthFits(p, files.auth)

OwnerPath(step, j, files) ==
  LET a == j.start.settings.active
  IN /\ LiveFits(a, j.start.live) /\ LiveFits(a, j.orig.live)
     /\ step \in BeforeWrites => LiveFits(a, files)
     /\ step \in {"writeAuth", "writeConfig"} =>
          /\ j.new.config = None => ~Switching(j)
          /\ j.new.config # None => ConfigFits(j.target, j.new.config)
          /\ ConfigFits(a, files.config)
     /\ step = "writeAuth" =>
          AuthFits(j.target, IF j.new.auth = None THEN files.auth ELSE j.new.auth)
     /\ step = "writeConfig" => AuthFits(j.target, files.auth)
     /\ step = "check" => LiveFits(j.target, files)

(* An import from cc-switch finds the active profile it saw. *)
ImportOK(m) ==
  pc[m] = "document" =>
    /\ job[m].kind = "saveWorkspace" => job[m].active = None
    /\ job[m].kind = "importCcs" => "importCcs" \in Ops /\ job[m].active = settings.active

PathInv ==
  /\ IInv /\ KeptCopies
  /\ \A m \in Managers : pc[m] \in LockedSteps =>
       /\ SettingsPath(pc[m], job[m], settings, foreign)
       /\ LivePath(pc[m], job[m], live, foreign)

OwnerInv ==
  /\ \A m \in Managers : ImportOK(m)
  /\ ~tainted =>
       /\ UnmixedCopies
       /\ lock = None => LiveFits(settings.active, live)
       /\ \A m \in Managers : pc[m] \in LockedSteps => OwnerPath(pc[m], job[m], live)

HistoryInv == PathInv /\ OwnerInv

(* Every operation is atomic: seen through its holder of the lock, the      *)
(* files change when it succeeds and then to what it was asked for, or not  *)
(* at all, or the damage is reported.                                       *)
Atomic == INSTANCE AtomicActivation WITH
  settings <- IF lock = None THEN settings ELSE job[lock].start.settings,
  live <- IF lock = None THEN live ELSE job[lock].start.live,
  outcome <- last

OperationsAreAtomic == Atomic!Spec

(* An admitted operation ends, and the lock is released. *)
OperationsEnd == \A m \in Managers : lock = m ~> lock # m

=============================================================================
