-------------------------- MODULE AtomicActivation --------------------------
(***************************************************************************)
(* What provider activation promises: each operation happens in one step or *)
(* not at all.  The settings file and the two live files change together,   *)
(* from the state the operation found to the state it was asked for, or the *)
(* caller learns that they did not change.  The exceptions are a crash and  *)
(* a rollback reported as failed, which may leave anything on disk.         *)
(***************************************************************************)
EXTENDS RelayProfiles

VARIABLES
  settings, live,
  outcome         \* what the last operation reported

vars == <<settings, live, outcome>>

(* files with the texts that are not None put in their place. *)
Overwritten(files, texts) ==
  [config |-> IF texts.config = None THEN files.config ELSE texts.config,
   auth   |-> IF texts.auth = None THEN files.auth ELSE texts.auth]

InitialSettings(a) ==
  [active |-> a, present |-> Installed, profiles |-> [p \in Profiles |-> NewProfile(p)],
   enabled |-> TRUE, testModel |-> 0]

InitialLive(a) ==
  Overwritten([config |-> EmptyConfig, auth |-> NoAuth],
              SelectedFiles(a, NewProfile(a), [config |-> EmptyConfig, auth |-> NoAuth]))

Init ==
  /\ \E a \in Installed : settings = InitialSettings(a) /\ live = InitialLive(a)
  /\ outcome = "none"

(* The profiles once the active one, about to be left for p, has taken over *)
(* the live files.                                                          *)
Left(p) ==
  LET prev == settings.active
  IN  IF prev = p \/ settings.profiles[prev].mode = "aggregate" THEN settings.profiles
      ELSE [settings.profiles EXCEPT ![prev] = Backfilled(@, live)]

(* To switch to the active profile is to apply it again. *)
Switch(p) ==
  /\ settings.enabled /\ p \in settings.present
  /\ settings.active \in settings.present
  /\ Selectable(Left(p)[p])
  /\ settings' = [settings EXCEPT !.active = p, !.profiles = Left(p)]
  /\ live' = Overwritten(live, SelectedFiles(p, Left(p)[p], live))
  /\ outcome' \in {"ok", "unread"}

Clear ==
  /\ settings.active \in settings.present
  /\ live' = Overwritten(live, ClearedFiles(settings.profiles[settings.active], live))
  /\ outcome' \in {"ok", "unread"} /\ UNCHANGED settings

EditLive ==
  /\ \/ live.config.tag < MaxTag /\ live' = [live EXCEPT !.config.tag = @ + 1]
     \/ live' = [live EXCEPT !.auth = Login]
  /\ outcome' \in {"ok", "unread"} /\ UNCHANGED settings

Backfill ==
  /\ settings.profiles[settings.active].mode # "aggregate"
  /\ settings' = [settings EXCEPT !.profiles[settings.active] = Backfilled(@, live)]
  /\ outcome' \in {"ok", "unread"} /\ UNCHANGED live

EditProfile(p) ==
  /\ p \in settings.present /\ settings.profiles[p].cfg.tag < MaxTag
  /\ settings' = [settings EXCEPT !.profiles[p].cfg.tag = @ + 1]
  /\ outcome' = "ok" /\ UNCHANGED live

RemoveProfile(p) ==
  /\ p \in settings.present /\ p # settings.active
  /\ settings' = Without(settings, p)
  /\ outcome' = "ok" /\ UNCHANGED live

(* An imported profile becomes the active one, or not; the live files stay. *)
Import(p) ==
  /\ p \notin settings.present
  /\ \E a \in {p, settings.active} :
       settings' = [settings EXCEPT !.present = @ \cup {p}, !.active = a,
                                    !.profiles[p] = NewProfile(p)]
  /\ outcome' = "ok" /\ UNCHANGED live

(* The provider sync target, not modelled here, was stored. *)
Touch == outcome' = "ok" /\ UNCHANGED <<settings, live>>

Fail == outcome' \in {"rejected", "unchanged", "verified"} /\ UNCHANGED <<settings, live>>

Damage ==
  /\ settings' \in Settings /\ live' \in LiveFiles
  /\ outcome' \in {"failed", "crashed"}

Next ==
  \/ \E p \in Profiles : Switch(p) \/ EditProfile(p) \/ RemoveProfile(p) \/ Import(p)
  \/ Clear \/ EditLive \/ Backfill \/ Touch
  \/ Fail \/ Damage

Spec == Init /\ [][Next]_vars

=============================================================================
