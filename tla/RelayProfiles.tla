---------------------------- MODULE RelayProfiles ----------------------------
(***************************************************************************)
(* The relay profiles of the settings file, Codex's live files config.toml  *)
(* and auth.json, and the conversions between them that switching uses.     *)
(*                                                                          *)
(* A text is kept only as far as the properties look into it.  A config is  *)
(* the provider endpoint it selects, the bearer token in that provider's    *)
(* table (both named by the profile they came from) and the version of the  *)
(* lines the user owns.  An auth text is the profile whose API key it       *)
(* holds, or Login (a ChatGPT login), or NoAuth (missing or empty).         *)
(***************************************************************************)
EXTENDS Integers

CONSTANTS
  Profiles,     \* profile ids
  Installed,    \* the profiles stored at the start
  Mode,         \* the mode each profile is created with
  None, Login, NoAuth,
  MaxTag,       \* bounds the user's edits of config.toml
  MaxModel      \* bounds the updates of the other settings

Modes == {"official", "mixed", "pure", "aggregate"}

ASSUME ModeAssumption == Mode \in [Profiles -> Modes]
ASSUME InstalledAssumption == Installed \subseteq Profiles /\ Installed # {}
ASSUME TagAssumption == MaxTag \in Nat /\ MaxModel \in Nat

ConfigText == [ep : Profiles \cup {None}, tok : Profiles \cup {None}, tag : 0..MaxTag]
AuthText   == Profiles \cup {Login, NoAuth}
LiveFiles  == [config : ConfigText, auth : AuthText]

ASSUME TextAssumption ==
  /\ None \notin Profiles \cup ConfigText
  /\ Login \notin Profiles \cup {None}
  /\ NoAuth \notin Profiles \cup {None, Login}

RelayProfile == [mode : Modes, cfg : ConfigText, auth : AuthText,
                 apiKey : Profiles \cup {None}]
Settings == [active : Profiles, present : SUBSET Profiles,
             profiles : [Profiles -> RelayProfile],
             enabled : BOOLEAN, testModel : 0..MaxModel]

EmptyConfig == [ep |-> None, tok |-> None, tag |-> 0]

(* The API key of an auth text is removed; a login has none to remove. *)
WithoutKey(auth) == IF auth \in Profiles THEN NoAuth ELSE auth

(* The provider table and its root keys are removed, the user's lines stay. *)
WithoutProvider(cfg) == [ep |-> None, tok |-> None, tag |-> cfg.tag]

Configured(files) ==
  files.config.ep # None /\ (files.config.tok # None \/ files.auth \in Profiles)

(* A profile as its owner entered it, or as an import link brought it. *)
NewProfile(p) ==
  CASE Mode[p] = "official"  -> [mode |-> "official", cfg |-> EmptyConfig,
                                 auth |-> Login, apiKey |-> None]
    [] Mode[p] = "mixed"     -> [mode |-> "mixed", cfg |-> [ep |-> p, tok |-> p, tag |-> 0],
                                 auth |-> NoAuth, apiKey |-> p]
    [] Mode[p] = "pure"      -> [mode |-> "pure", cfg |-> [ep |-> p, tok |-> None, tag |-> 0],
                                 auth |-> p, apiKey |-> p]
    [] Mode[p] = "aggregate" -> [mode |-> "aggregate", cfg |-> EmptyConfig,
                                 auth |-> NoAuth, apiKey |-> None]

(* The endpoint in the profile's own config wins over its base_url field,   *)
(* which the program never changes; an aggregate points at the local proxy. *)
Endpoint(p, prof) ==
  IF prof.mode # "aggregate" /\ prof.cfg.ep # None THEN prof.cfg.ep
  ELSE IF Mode[p] = "official" THEN None ELSE p

ApiKey(p, prof) ==
  IF prof.mode = "aggregate" THEN p
  ELSE IF prof.cfg.tok # None THEN prof.cfg.tok ELSE prof.apiKey

(* backfill_relay_profile_from_home_with_common: the profile takes over the *)
(* live texts; a bearer token moves to where its mode keeps the key; and    *)
(* the mode of an API profile follows where the key was found.              *)
Backfilled(prof, files) ==
  LET tok    == files.config.tok
      key    == IF tok = None THEN prof.apiKey ELSE tok
      auth   == IF tok = None THEN files.auth
                ELSE IF prof.mode = "mixed" THEN WithoutKey(files.auth)
                ELSE IF files.auth = NoAuth THEN tok
                ELSE files.auth
      keeps  == prof.mode = "mixed" \/ files.auth = Login
      cfg    == IF keeps THEN files.config ELSE [files.config EXCEPT !.tok = None]
      mode   == IF prof.mode = "official" THEN "official"
                ELSE IF auth \in Profiles THEN "pure"
                ELSE IF cfg.ep # None \/ key # None THEN "mixed"
                ELSE prof.mode
  IN [mode |-> mode, cfg |-> cfg, auth |-> auth, apiKey |-> key]

(* Mutant: clearing leaves auth.json alone. *)
ClearedAuthKept(prof, files) == None

(* clear_relay_config_to_home...: what the two files become.  Here and in   *)
(* every pair of texts to write, None stands for a file left alone.         *)
ClearedAuth(prof, files) ==
  IF prof.mode = "official" /\ prof.auth # NoAuth THEN prof.auth
  ELSE IF files.auth \in Profiles THEN NoAuth ELSE None

ClearedFiles(prof, files) ==
  [config |-> WithoutProvider(files.config), auth |-> ClearedAuth(prof, files)]

(* validate_switch_profile_files *)
SwitchableFiles(prof) ==
  /\ prof.mode # "aggregate" => prof.cfg # EmptyConfig
  /\ prof.mode = "mixed" => prof.auth \notin Profiles

(* Mutant: a provider already selected in config.toml is not replaced. *)
AppliedKeepingEndpoint(p, prof, files) ==
  [config |-> [ep  |-> IF files.config.ep # None THEN files.config.ep ELSE Endpoint(p, prof),
               tok |-> IF prof.mode = "pure" THEN None ELSE ApiKey(p, prof),
               tag |-> prof.cfg.tag],
   auth   |-> IF prof.mode = "pure" THEN prof.auth
              ELSE WithoutKey(IF prof.auth = NoAuth THEN files.auth ELSE prof.auth)]

(* apply_relay_profile_to_home_with_switch_rules... *)
AppliedFiles(p, prof, files) ==
  [config |-> [ep  |-> Endpoint(p, prof),
               tok |-> IF prof.mode = "pure" THEN None ELSE ApiKey(p, prof),
               tag |-> prof.cfg.tag],
   auth   |-> IF prof.mode = "pure" THEN prof.auth
              ELSE WithoutKey(IF prof.auth = NoAuth THEN files.auth ELSE prof.auth)]

(* The dispatch of apply_selected_relay_profile. *)
SelectedFiles(p, prof, files) ==
  IF prof.mode = "official" THEN ClearedFiles(prof, files)
  ELSE AppliedFiles(p, prof, files)

Selectable(prof) == prof.mode = "official" \/ SwitchableFiles(prof)

(* What the manager's provider view shows and its revision covers: not the  *)
(* active profile, and not the switch that enables provider profiles.       *)
ProviderDocument == [present : SUBSET Profiles, profiles : [Profiles -> RelayProfile],
                     testModel : 0..MaxModel]

ProviderRevision(s) ==
  [present |-> s.present, profiles |-> s.profiles, testModel |-> s.testModel]

(* A profile that is not stored has no contents of its own. *)
Without(doc, p) ==
  [doc EXCEPT !.present = @ \ {p}, !.profiles[p] = NewProfile(p)]

(* validate_provider_document, for a document that lost profiles: the       *)
(* active one stays, and so do an ordinary one and the members of each      *)
(* aggregate, which are the ordinary profiles installed at the start.       *)
Members == {p \in Installed : Mode[p] # "aggregate"}

Storable(doc, active) ==
  /\ active \in doc.present
  /\ \E p \in doc.present : doc.profiles[p].mode # "aggregate"
  /\ \A p \in doc.present : doc.profiles[p].mode = "aggregate" => Members \subseteq doc.present

=============================================================================
