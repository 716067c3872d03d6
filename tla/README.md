# Codex++ in TLA+

Codex++ is a companion of the Codex desktop application.  A *launcher* starts
Codex with a debugging port, injects scripts into its page, answers the page's
requests over a bridge and runs an HTTP proxy that translates the Responses
protocol for relays that only speak chat completions.  A *manager* edits the
settings file and Codex's own `config.toml` and `auth.json`, among much else.
A *mobile relay* forwards frames between a desktop and phones.

This directory holds TLA+ models of the parts of Codex++ where the order of
steps decides whether files, requests and answers stay right, TLC configurations
that check them, and proofs of the facts that matter most.  Paths below are
relative to the repository root, which `src/` stands for.

| module | kind | models |
|---|---|---|
| `RelayProfiles` | operators | profiles, live files and the conversions between them |
| `ProviderActivation` | state machine | every writer of the settings and of the live files |
| `AtomicActivation` | abstract specification | what an operation of provider activation promises |
| `ProviderActivationProofs` | proofs | inductive invariants, types, no trace of a failed operation, where an operation has brought the files, edits survive, whose the files are, what a switch achieves, refinement of `AtomicActivation` |
| `RelayRotation` | state machine | choice of a relay for each request, and the failover |
| `RelayRotationProofs` | proofs | inductive invariants, candidates, members serve, fair shares, conversations stay, failover |
| `ResponsesStream` | abstract specification | what the Responses API promises of a stream of events |
| `ChatStream` | state machine | the conversion of a chat stream into response events |
| `ChatStreamProofs` | proofs | failures are told, refinement of `ResponsesStream`, the streamed answer is the whole one |
| `ProviderSync` | state machine | a rewrite of all stored conversations, with its lock, backup and roll-back |
| `ProviderSyncProofs` | proofs | inductive invariants, mutual exclusion, backup, what a failure restores and what a success means |
| `ProviderPage` | state machine | the manager's provider page: document, draft, operations on worker lanes, dialogs |
| `ProviderPageProofs` | proofs | inductive invariant, tests of the draft, late answers, foreign changes stay |
| `MobileRelay` | state machine | rooms with a host and a client, forwarding, replacement |
| `MobileRelayProofs` | proofs | inductive invariants, the count of connections, who keeps its place, what is heard in which order |
| `ManagerInstance` | state machine | one manager at a time, hand-over of links, the import page and its worker |
| `ManagerInstanceProofs` | proofs | inductive invariants, whose the record is, what gets imported, no link is forgotten |
| `Launcher` | state machine | the guard with its recovery, launch, injection, clean-up, watchdog, second launcher |
| `LauncherProofs` | proofs | inductive invariant, single instance, which Codex a failure spares |
| `MC_*` | instances | small constants for TLC |

## 1. The system

### Components

**Provider activation** (`crates/codex-plus-core/src/relay_switch.rs`,
`relay_config.rs`, `crates/codex-plus-manager-service/src/provider_activation.rs`).
State: the settings file (profiles, the active profile, other settings),
`config.toml` and `auth.json`.  Operations: load a view; switch to a profile;
apply the active one again; clear the provider from the live files; save one live
file from the editor; backfill the active profile from the live files.  Each
mutation takes an exclusive file lock, checks the revisions its caller saw,
writes several files one after the other, and rolls back on a failure.  Hard: a
failing write between two files, also in the rollback; a crash; writers that do
not take the lock.  Correct when an operation is atomic or reports that it is
not, when no profile ever gets another provider's endpoint or key, and when the
user's own lines in `config.toml` are never lost.

**Provider workspace, provider import, settings store**
(`crates/codex-plus-manager-service/src/provider.rs`, `provider_import.rs`,
`provider_system.rs`, `crates/codex-plus-core/src/settings.rs`, `ccs_import.rs`).
The other writers of the settings file: the document of all profiles that the
manager's editor stores, a profile that an import link or cc-switch brings, one
field of the sync target.  They are optimistic: they read, validate, and store
if a *provider revision* is unchanged.  Hard: that revision does not cover the
active profile.  Correct when a document is never stored over a state it was not
validated against.

**Bridge routes** (`crates/codex-plus-core/src/routes.rs`, `bridge.rs`, `cdp.rs`).
Requests of the injected page; `set_settings` merges fields into the settings
file under the settings lock, not the lock of the live files.  It can come
between any two steps of a switch.

**Relay rotation** (`crates/codex-plus-core/src/relay_rotation.rs`).  State: one
selector per process, behind a mutex, for the active aggregate: the indices of
four strategies and the members assigned to conversations.  Hard: requests read
settings, select, and report their outcomes at three different times, and other
requests and the user come in between.  Correct when a request goes to candidates
of its own settings, to each once, fails only when all did, and the strategies
keep what they say.

**Protocol proxy** (`crates/codex-plus-core/src/protocol_proxy.rs`,
`launcher.rs`).  Converts requests and answers between two protocols; an answer
is converted while it streams.  State per answer: the converter (items and their
output indexes, the text held back as a possible think tag, tool calls under
construction, whether it completed or failed).  Hard: a tag cut between two
deltas, items that interleave, an error in the middle, the connection that
breaks, bytes that stop without an end.  Correct when the client reads a legal
stream that says the same as the answer converted whole and that always ends.

**Provider sync** (`crates/codex-plus-data/src/provider_sync.rs`).  State: a lock
directory, session files (rollouts), SQLite rows, `.codex-global-state.json`,
backups.  One operation, run by the launcher before it starts Codex or by the
manager, rewrites all of them so that every conversation belongs to one provider.
Hard: one of many writes failing; a crash that leaves the lock; Codex appending to
a file meanwhile.  Correct when one sync works at a time, when whatever it changed
can be found in a backup, when a failure puts the session files back, and when a
success means that everything names the target.

**Mobile relay** (`apps/codex-plus-mobile-relay/src/main.rs`).  State: rooms with
a slot per role, a channel per peer, counters of connections.  Operations:
register, forward, unregister.  Hard: a peer that reconnects before its old
connection is gone; a channel used after the mutex was released; an error return
that skips clean-up.  Correct when a peer is in the room until it is replaced or
leaves, and what it is sent comes in order.

**Launcher** (`crates/codex-plus-core/src/launcher.rs`, `status.rs`, `ports.rs`,
`process_monitor.rs`, `apps/codex-plus-launcher/src/main.rs`).  State: the guard (a
lock file and a listening port), the ports, the helper server, Codex as it was
launched, the watchdog of the page's bridge.  Operations: take the guard, recover
it from a launcher that hangs, launch and inject, wait, clean up; activate what
another launcher launched.  Hard: several launchers at once, each allowed to kill
the others; a failure after Codex was launched or merely activated; a page that is
reloaded.  Correct when one launcher goes past the guard, Codex gets started, a
failure ends no Codex the user had, and a watched page keeps a bridge.

**Manager instance** (`crates/codex-plus-core/src/manager_instance.rs`,
`coordination_lock.rs`, `apps/codex-plus-manager/src/main.rs`, `desktop_host.rs`).
State: the owner's lock, the endpoint record, a listener.  A second process sends
what it was started for to the owner and ends.  Hard: owners that quit or crash
while others look for them; links that arrive while one is being confirmed.
Correct when one process owns the manager, no link is forgotten between two
processes, and what is imported was confirmed.

**Context tools** (`crates/codex-plus-manager-service/src/context_tools.rs`,
`crates/codex-plus-core/src/context_ownership.rs`).  Entries stored by the
manager are synced into `config.toml` with a manifest of the keys that are its
own.

**Manager state** (`apps/codex-plus-manager/src/state.rs`, `runtime.rs`, `app.rs` and
the modules below them, `crates/codex-plus-manager-service/src/revision_ledger.rs`).
State: for each page what it shows, the user's draft, and numbered operations on
worker threads.  Hard: answers that come late, across lanes, or after a discard;
workers that die.  Correct when unsaved edits survive and operations end.

**Session storage** (`crates/codex-plus-data/src/storage.rs`, `backup.rs`).
Deletion of sessions with undo.

The other components (views, user scripts, plugin marketplace, computer-use
guard, Zed remote, model lists, maintenance and the injected pages) are listed
in `PROJECT.json` with the reason why each is left out.

### How they interact

```
 manager UI --requests--> manager services ---lock of live files---+
                              |   settings lock                    v
 injected page --bridge--> launcher ------------> settings.json   config.toml, auth.json <-- Codex
                              |                        |
 Codex --HTTP request--> protocol proxy --loads--------+
                              |--selector (mutex)--> relay rotation
                              +--HTTP--> upstream relay --chat stream--> converter --events--> Codex
```

The settings file is shared by all; the lock of the live files binds only the
manager, the settings lock every writer of the settings for one load or one
save.  The proxy reads the settings once per request and keeps that copy.

## 2. Provider activation

### State and actions

A text is reduced to what the properties look into.  `config.toml` is
`[ep, tok, tag]`: the provider endpoint it selects and the bearer token in that
provider's table, each named by the profile it came from, and the version `tag`
of the lines the user owns.  `auth.json` is the profile whose API key it holds,
`Login` (a ChatGPT login) or `NoAuth`.  The TOML and JSON edits are modelled as
what they do to these: `Backfilled` moves a token to where the profile's mode
keeps its key, `ClearedFiles` removes the provider, `AppliedFiles` writes it.

| variable | code |
|---|---|
| `settings` | the settings file, `BackendSettings` |
| `live` | `config.toml` and `auth.json` of the Codex home |
| `lock` | the exclusive file lock taken by `with_live_mutation` |
| `pc`, `job` | the program counter and the locals of each manager thread |
| `guard` | the revisions the thread's view was loaded with |
| `last` | the outcome reported: ok, unread, rejected, unchanged, rollback verified, rollback failed |
| `faults`, `crashes` | budgets of the environment |
| `foreign`, `tainted` | history: who wrote without the lock; whether the live files may legitimately be another's |

One action is one file operation.  A switch is `SwitchProvider`,
`SnapshotAndBackfill`, `SaveSelection`, `SelectFiles`, `WriteAuth`, `WriteConfig`,
`CheckWritten`; a failure goes through `UndoWrite` and then `RestoreSettings`,
`RestoreAuth`, `RestoreConfig`, `VerifyRollback`.  Clear and live-file edits share
the write steps and end in `CompareLive`, for nothing is restored there.  The
optimistic writers are a read-and-validate step (`ValidateWorkspace`,
`ReadForImport`) and a store step (`StoreDocument`).  `BridgeSetSettings`,
`CodexWritesLive` and `Crash` are the environment.

The document of all profiles is one value: a profile not in `present` has no
contents.  A write either happens or leaves the file as it was, which is what
`atomic_write` (temporary file and rename) gives; two writers that share the same
temporary file are not modelled.

### Properties

* `HistoryInv`: the inductive invariant, `PathInv` and `OwnerInv`.  `PathInv` has
  the types (`IInv`) and says, for each step an operation can be at, what it has
  made so far of the settings and live files it found; `OwnerInv` says whose the
  copies of the profiles and the live files are on the way.
* `FailureLeavesNoTrace`: an operation that failed and did not report a failed
  rollback leaves the three files as it found them.
* `OperationsAreAtomic`: the whole implements `AtomicActivation`, in which each
  operation is one step.  The refinement mapping hides what the holder of the
  lock has done so far: `settings` and `live` are those of its start.
* `ProfilesKeepTheirProvider`, `LiveBelongsToActive`: keys and endpoints never
  move to another provider's profile, nor stay in the live files of another.
* `SwitchTakesEffect`, `SwitchKeepsLiveEdits`: what a reported success means.
* `EditsAlwaysStored`: at every step of a switch the user's lines are in some
  file, so that a crash loses none.
* `OperationsEnd`: who holds the lock releases it.

### Fairness

`WF_vars(Step(m))` for every manager thread: an operation that was admitted runs
on its own thread to its end and waits for nothing but file operations, each of
which returns.  Requests of the user, the bridge, Codex, faults and crashes have
no fairness.  `OperationsEnd` is the only property that uses it.

### Runs

| run | bounds | shows |
|---|---|---|
| `pa_live` | 1 manager, a pure API profile and the official one, 2 faults, 1 crash, 1 user edit | switch, apply and clear while Codex writes its files at any step; two faults let both a write and a restore of the rollback fail |
| `pa_atomic` | 1 manager, a pure and a mixed profile of which one comes by import, 1 fault | every writer but the unlocked ones; the refinement |
| `pa_managers` | 2 managers, an API profile and an aggregate, the bridge, 1 fault | an optimistic writer next to a locked one; termination |

Two profiles are enough for a switch: one is left, one is entered, and a third
one only has to stay unchanged, which `SwitchKeepsLiveEdits` says of any that
exists.  The four modes of a profile are covered by the
pairs.  Two faults are needed for a failed rollback and a third one adds none: a
restore that failed is remembered by one flag.  Two managers are enough since
the lock lets one be inside and an optimistic writer does not see a third.
`MaxTag` 1 gives old and new lines; `MaxModel` 1 one update by the bridge.
Deadlock is not checked: when the budgets are used up and the user asks for
nothing, the system may stop.

### What is proved

In `ProviderActivationProofs`, for every set of managers and profiles, every
assignment of modes, every budget:

* `Invariance`: `Spec => []IInv`, and from it `TypeCorrectness`;
* `NoTraceOfFailure`: `Spec => FailureLeavesNoTrace`.

In its second part:

* `Waypoints`: `Spec => []PathInv`, and from it `EditsSurvive`
  (`EditsAlwaysStored`) and `EditsAreKept` (`SwitchKeepsLiveEdits`);
* under `ImportsAlone`: `HistoryInvariance` (`[]HistoryInv`), and from it
  `ProvidersStayApart` (`ProfilesKeepTheirProvider`), `LiveFollowsActive`
  (`LiveBelongsToActive`) and `SwitchWorks` (`SwitchTakesEffect`);
* under `DocumentsAlone` and `NoOtherWriter`: `Refinement`
  (`OperationsAreAtomic`), every step is one of `AtomicActivation` or leaves what
  is seen from outside the lock.

`ImportsAlone` says that there is one manager thread if imports from cc-switch are
among the operations.  It is needed: such an import stores the active profile it
saw before it took the lock, so that a switch of another thread in between is
undone in the settings but not in the live files, which then belong to another
profile than the active one.

`DocumentsAlone` says that there is one thread if documents are stored (saved
workspaces, imports), which are validated before the lock is taken: a switch of
another thread in between lets the document remove the profile that has become
active, or an import from cc-switch select one that no longer is.
`NoOtherWriter` leaves out the bridge and Codex, whose writes during an operation
no atomic step explains: a switch stores its own copy of the settings over them.
Faults and crashes are not restricted.

Assumptions: those named in `RelayProfiles` and `ProviderActivation`
(`ModeAssumption`, `InstalledAssumption`, `TagAssumption`, `TextAssumption`,
`OpsAssumption`, `ManagerAssumption`, `BudgetAssumption`): constants have their
types, and the markers `None`, `Login`, `NoAuth` differ from profiles and from
each other.

`TypeOK` alone is not inductive, for the locals' type depends on the step
(`JobOK`), and `FailureLeavesNoTrace` is a property of the last step only: it
needs that before the save nothing was touched, that a switch restores what it
found at its start (`orig = start`, although the settings are read twice), and
that the other operations never touch the settings (`TraceOK`), all of it for
the holder of the lock, who is alone (`LockOK`).  Lemmas on the operators of
`RelayProfiles` give the types of the conversions; `OthersFree`, `DoneInv`,
`GotoInv` and `ContinueInv` state once how a step that ends or goes on keeps
the invariant, and there is then one lemma per action.

`PathInv` is needed because the last step of a switch looks at nothing but
`config.toml` and `auth.json`: that the settings name the target, hold the edits of
the profile left and changed no other one follows only from what was read, in
which order, and from what each writer outside the lock leaves alone
(`SameProvider`).  It needs no assumption on writers: what they may spoil is
excepted step by step (`writers`).  `OwnerInv` is stated on conversions
(`SelectedFits`, `BackfilledUnmixed`): a profile keeps its kind (`Kept`), so that a
pure one always has an auth text with its key and the check of a switch cannot
fail on profiles alone.

## 3. Relay rotation

`settings` is the active profile and the relays that have an endpoint and a key;
`selector` is `GLOBAL_SELECTOR`; `req[r]` a request in flight with the copy of the
settings it loaded, its list of relays and the attempt it is at.  `turn` counts
the answers of a conversation, from which the key of a request follows; `picks`
and `home` are history.

`Load`, `SelectRegular`/`SelectMember` and each attempt (`Serve`, `FailOver`,
`Refuse`) are separate steps, since the mutex is taken for a selection and for
the record of an outcome and released in between.  A time-out is a `FailOver`.
`Probe` is the request for the list of models.  `SetSettings` is the user.  The
weighted schedule, a list with every member repeated by its weight, is kept as a
member and its repetition.

Properties: `AvailableMemberServes`, `OnlyCandidatesAreTried` (proved, and checked as
a part of `IInv`), `FairShares` (for
both rotations by request, in any interleaving, no member is ahead of another by
more than one turn of its weight), `FailoverFollowsRequests` (what the failover
index means for a request nobody interfered with), `ConversationKeepsMember`, and
`IInv`, the inductive invariant they all follow from.  Liveness: none; a request ends when its upstream
answers, which is the time-out's business and not modelled.

Runs: `rr_rotation` has two requests and two conversations, three relays and an
aggregate for each strategy, the failover one also with a member less, a weighted
one with a weight of 0, a relay without key, and a plain relay to turn to and
back.  `OneStrategy` keeps a behaviour within one strategy (another one starts
with a new selector, as a changed aggregate does, which the failover pair
covers), `TurnsBound` gives more than one answer only to conversations; `MaxPicks`
6 is one round of the weighted schedule (2 + 1 + 3), so every member is picked as
often as it weighs, and the wrap-around happens.  Two requests suffice for every
race: an outcome recorded between another's selection and outcome.  Requests and
conversations are symmetric.

Proved for every set of relays, aggregates, requests and conversations and every
weight (assumptions: members of an aggregate are distinct relays, the settings are
well formed, the bounds are numbers, `None` is none of the values it stands in
for): all five properties of the run.  `RelayRotationProofs` has `BaseInvariance`,
`OnlyCandidates` and `MembersServe`.  `Base` says that a request under way
has *all* candidates of its own settings before it, each once (`Planned`), that it
gave up at the last, and that one request at a time counts a conversation's answers
(so that keys stay in the domain of the assignments).  The lemma `FallbacksCover`
shows that wrapping around from the picked member meets every other member
exactly once.

Its second half is about what the selector owes to the past, and proves
`Invariance`, `SharesAreFair`, `ConversationsStay` and `FailoverFollows`.
`FairShares` compares members pairwise and is not inductive; `SharesOK` says that
there is one number of whole turns that every member has had, plus what the index
has passed of the turn under way (`Ahead`), and `PickAccounted` that a pick keeps
it, also where the index wraps.  `HomesOK` ties the history of a conversation to
the selector's assignment (`ConversationsStay` assumes that all conversations
carry an id: the others change their key with every answer).  `AloneOK` says that
what a request has still to try are the members from the failover index on, as
long as nobody else moved it; both move by one when an attempt fails
(`FailOverFollows`).

## 4. Chat stream

`sent` are the blocks of the upstream's answer, `wire` those on their way, `buffer`
those read and not handled, `loop` the proxy's loop (`launcher.rs`), `conv` the
converter `ChatSseToResponsesConverter` with `conv.out`, the events written to the
client.  The methods of the converter are operators from converter to converter,
in the order of the calls in the code.  Text is a sequence of atoms: the two
halves of each think tag, a blank, words; so a tag can be cut where the code has
to cope with it.  Actions: the upstream sends a block, ends or breaks; the proxy
reads a piece of any number of blocks, handles one block, finishes or fails.

`ResponsesStream` is the abstract specification: a log of events that grows by
legal events (an item is announced once, its deltas come while it is open and add
up to its content, completion tells every item, nothing follows the end).
`ResponsesProtocol` is the refinement.  `StreamedAsWhole` compares the streamed
answer with the conversion of the whole message (`chat_completion_to_response`),
which is the reference definition of the converter; it leaves out thinking that is
given in both ways and a think block that never ends or that a tool call interrupts,
where the two conversions differ.  `Inv` is the
types of the converter's state and `FailureIsTold`, that a failed answer is never
told as completed; `ResponseEnds` is about the end.

The upstream is external.  `InOrder` states what the converter relies on and does
not check: nothing follows the end, thinking precedes the answer, a tool call is
named once.  What an upstream that breaks these makes of an answer is not modelled.

Fairness: the proxy's task runs as long as it can, which is WF of `Proxy`; its
ENABLED is written out as `CanRun`, since TLC would evaluate the whole chain of
converter operators to find it.  The upstream may be silent for ever.

Runs: `cs_stream` is every answer of up to five blocks out of content that spells
a think block cut inside both tags, a reasoning field, a function call in two
deltas, a custom tool without an id, an early finish, an error and `[DONE]`, in
pieces of one or two blocks.  Five blocks hold a think block cut in three, a tool
call in between and the end.

Proved in `ChatStreamProofs`, for any contents, tools and bounds, of an upstream that
does not break after the end of its answer (`~ BreaksAfterEnd`; with it the code writes
two terminal events, see section 10): `AnswerInvariance` is `Spec => []Inv`,
`ProtocolKept` the refinement, `Spec => ResponsesProtocol`, and `WholeAnswer` is
`Spec => []StreamedAsWhole`.  The argument has four layers.

1. Logs.  What one more event does to the announced and the ended items of a log, to
   what the deltas of an item make together (`AssembledGrows`) and to its being over.
   `Grows` is a stretch of legal events; it composes (`GrowsOn`), and `GrowthIsLegal`
   says that it is a step of `ResponsesStream`.
2. The converter.  `Whole` ties its state to the log it has written: an item has an
   index exactly if it was announced, under the kind and identity it would be ended
   with (`Announced`, `Identities`); the items that are done are those the log ended
   (`Concluded`); and what the deltas of an open item made is its text (`Told`), or
   nothing for a custom tool, whose input comes with its end.  Every operator, from
   `AddItem` to `HandleBlock`, keeps `Whole` and grows the log legally, and changes no
   item but its own (`Step`).  `FinalizeTools` is a recursive function over the tools'
   indexes; `FinalizeToolsStep` is an induction over it, by the least index at which
   it would fail.
3. The loop.  `AnswerInv` relates the converter to the blocks it was given: text mode
   means that content or a tool came, so no reasoning follows; an announced tool means
   that its identified delta came, so its name and id stay; completed means that the end
   or an error came.  That gives each call of `HandleBlock` what it relies on
   (`Expected`).  `AnswerInv` but for `Whole` (whose quantifiers have no bound) was
   checked by TLC on the instance of `cs_stream` before it was proved.
4. The answer.  `WholeInv` adds to `AnswerInv` that, until the stream completes, the
   converter `Reflects` the blocks it has handled (`Handled`, those of `sent` that are
   neither on the wire nor in the buffer).  Of the texts (`Mirrors`), in each mode: what
   is still held back, what the items have and what they were ended with, as a function
   of all the content and reasoning so far.  Of each call (`MirrorsTool`): its name, its
   identity and its arguments are those of the deltas with its index.  Three kinds of
   lemmas carry it: what a flattened list of pieces gains with one more piece; that what
   a text decides about a think tag it still decides when it goes on, so that a cut
   inside a tag is settled as in the whole text; and one lemma per operator of the
   converter.  `FinalizeIsWhole` then compares the events of `Finalize` with the whole
   message.  `Reflects` was checked by TLC on `cs_stream` before it was proved.

What the proofs take from the upstream is `InOrder`; from the constants, that contents,
the reasoning field and arguments are sequences, no content or reasoning empty, that
tools' indexes are none of the two texts' keys, and that no custom tool has the empty
name (`StreamAssumption`), which `build_codex_tool_context` filters.  `ResponseEnds` is
model-checked only.

## 5. Provider sync

`home` is the Codex home on disk: for each session file the providers its
`session_meta` lines name and the number of its user events; for each database
the row of each thread, whose `seen` is `has_user_event` and whose `own` says that
it has the working directory of its session; the global state file, which may
have paths in the wrong form (`raw`) or be cut short (`broken`).  `lock` is the
directory `tmp/provider-sync.lock`, `backups` those in
`backups_state/provider-sync`, `pc` and `job` the step and the locals of each
process, `foreign` (history) the session files that Codex wrote since the lock was
taken.

One action is one file operation of `run_provider_sync_with_target`:
`RunProviderSync` makes the directory and `WriteOwner` writes its owner's file;
`CollectSessionChange` reads one session file, `PlanUpdates` the rest;
`CreateBackup`; `ApplySessionChange` rewrites one file, `ApplySqliteUpdate` one
database in a transaction, `ApplyGlobalStateUpdate` the state file;
`PruneBackups`; `RestoreSessionChange` puts one file back; `ReleaseLock`.  A
session file is written in place, so a write that fails or is cut off by a crash
may leave it empty.  A locked file is passed over, any other error ends the sync.
`Crash` stops a process between or within its operations, and `CodexAppends` is
Codex, which knows of no lock.

Properties:

* `SyncInv`: types, `OneSyncAtATime`, what the next ones rest on (together `IInv`), and
  that the sync under way is on course (`Aligned`).
* `ChangesAreBackedUp`: what a sync changed is in a finished backup, also after it
  failed or died, and pruning does not remove it.
* `LockLeftByFailure`: without a fault or a crash no path leaves the directory
  behind.  With one it stays, and every later sync is skipped (nobody recovers it).
* `LaterFailureRestores`: a sync that fails after the session files restores them.
* `SyncedMeansAligned`: what a reported success means for files, rows and state.
* `SyncEnds`: a sync that began ends or dies.

Run: `ps_sync` has two processes and two syncs (one that left
its lock or its backup behind, and one that comes later), two session files (one
written and one not, in either order; one names one provider, the other two; one
belongs to no project), two databases with a row each (one committed, one not),
two providers to turn to and back, one backup kept, so that pruning happens at the
second sync, one fault, one crash, one event of Codex for the file that has none.
A restore may fail beyond that bound, since only a fault leads to one; two
independent faults in one sync add nothing, because the first ends it.  Fairness is `WF_vars(Step(s))`
for each process: it
runs on its own thread (`spawn_blocking` in the launcher, a worker of the manager) and
waits for file operations only; only `SyncEnds` uses it.  Deadlock is not checked,
since the syncs are bounded.

Order by name stands for the order of backups in time: the names are local times
to the second with a suffix, so an hour that comes twice (daylight saving) would
put a newer backup before an older one.  The databases are changed by syncs only
in the model; a backup copies them file by file, and what Codex writes between two
of these copies is not modelled.

Proved in `ProviderSyncProofs` for every set of processes, session files,
databases and providers, every start and every bound (assumptions: the homes are
well formed and there is a database, at least one backup is kept, `None` is none
of the values it stands in for, bounds are numbers): `Invariance`, from it
`TypeCorrectness`, `MutualExclusion` and `BackedUp`, `FailureRestores` for
`LaterFailureRestores`, and `LockReleased` for `LockLeftByFailure`.  `ChangesAreBackedUp` is not inductive: it needs that
nothing is written before the backup (`Untouched`), that the backup covers every
file that will be rewritten and not only those that were (`HasBackup`), and that
it is the newest, so that pruning keeps it (`OwnBackupKept`).  For the roll-back,
`AtRisk` says at each step which files may differ from what they were: those Codex
wrote, and those rewritten and not yet put back.  `ActorStep` reduces each step to
the part of the invariant about the process that has the lock; `BackupKept`,
`RestoreKept` and `RestoreWritten` say when the two halves are kept; there is one
lemma per action.

`SyncedIsAligned` is `SyncedMeansAligned`, from `CourseKept`: `SyncInv` is inductive.
At the end of a sync its locals say what it read, not what the disk holds now, and
Codex writes in between; so `Aligned` follows it from step to step.  A file that was
not opened as a session was locked or is none (`PassedOver`); each file names the
target if it was rewritten and what it named before if not, which Codex never
changes, and has the events that were read unless Codex wrote it (`OnCourse`); the
files to rewrite are still to come, rewritten or locked; a database the sync is past
is as an update leaves it, and an update of that changes nothing (`UpdatedTwice`);
the state file is in form once it was written.  Both ways to a success, through
the writes and through `UpToDate`, end in the same facts.  `SyncEnds` is liveness and
is model-checked only.

## 6. Provider page

`ProviderPage` is the manager's side of provider activation: what the window holds
(`page`, the fields of `ProviderViewState` and the application's flags about it),
and the queues between the window and the workers (`lanes`).  The service behind a
worker takes one step (`Outcomes`), which is what `OperationsAreAtomic` of section 2
allows.  A document is the set of what it holds: ids and one mark per edit, so
that it is visible whose edit survives.  A revision is a hash of the document and
is modelled as the document.

Actions are the user's commands with the conditions under which the page offers
them (`Edit`, `Delete`, `Select`, `Save`, `Extract`, `Reload`, `RequestMutation` and
`Confirm`, `EditLive`, the three buttons of the dialog about unsaved work), the
workers (`Serve`, `ServeTest`, `ServeSide`, `Die`), another program (`Foreign`), and
the reducers of the answers (`ReduceStore`, `ReduceActivation`, `ReduceTest`,
`ReduceSide`, `ReduceStopped`).  A handler is an operator from page and lanes before
to those after, so that `TransitionCompleted` can go on from any of them, as
`complete_pending_provider_transition` does.  The three network operations of a
profile work alike and one of them, the connection test, is modelled.

* `EditsAreSafeWhenIdle`: with no operation of the page running, no late answer
  touches a draft with unsaved edits.
* `PageInv`: what the page and the queues hold, and why the other properties hold.  It
  implies `Inv`: the fields of the page fit each other, and the result of a test that
  is shown is about the profile as drafted now (`ShownTestIsOfDraft`).
* `NothingForeignIsLost`: a mixed-up answer never makes the page store a document
  over somebody else's change.
* `OperationsEnd`: every operation ends, also when its worker dies.
* `ShownIsStored` is violated, see section 10.

Runs: `pp_lanes` lets a worker die; `pp_page` lets answers cross and another
program write.  Each uses the parts of the page its properties are about
(`Uses`), for all parts together are too many; between them all are used.  Two
profiles are the active one and one to select; three commands are an operation,
one that makes it stale and one that takes its place; one edit is enough, since a
draft is either dirty or not.  Fairness: a worker serves its queue or dies, and the
window reduces answers on every frame; the user is never forced.  The proviso of
`OperationsEnd` about loads is the code's: a worker's death that was told by a
failed send is not told again.

Proved in `ProviderPageProofs`, for any list of profiles, any edits, all parts of the
page in use and any number of commands:

* `PageInvariance`: `PageInv` is an invariant, and inductive.  Its parts are
  `PageTyped` and `LaneTyped` (what the page and the queues may hold), `Numbered`,
  `TestsKnown` and `ForeignKept`.
* `ShownTestsAreOfTheDraft`: `Inv`.  A test's answer carries its number, its profile
  and its generation, and none of the three is enough: the generation starts again at
  zero with every new document.  What does it is that everything that changes the
  draft also forgets which profile the test is for (`TestsKnown`; `Moved` says it of
  every helper).
* `EditsAreSafe`: `EditsAreSafeWhenIdle`.  Loads and mutations share one counter, so
  their lane is in the order of the numbers and no number comes twice; an answer
  whose number is the current one finds its operation running (`Numbered`).
* `ForeignChangesStay`: `NothingForeignIsLost`, where extractions are not used
  (`"extract" \notin Uses`, as in `pp_page`).  `ForeignKept`: a draft has what its
  baseline has of others, since the one is made from the other and an edit takes
  nothing of others away; a save's base is the baseline, its document the draft, and
  the service stores only over its base.

The hypothesis of the last one is needed.  TLC finds, with the extraction in use
beside answers of another page or a discarded save, that a draft loses what its
baseline has.  `apply_common_config_extraction_response` (`state/provider.rs:712`)
keeps a draft that changed while the extraction ran and replaces the baseline under
it.  It takes it that the user made the change; but it may also come from another
page's older answer (`state.rs:181`), or from a save's answer that was taken for that
of a later save, since `discard_draft` starts the numbers again (`state/provider.rs:539`).
The draft is then older than its new baseline, and the next save, whose revision is
right, stores it over what somebody else had added.

The proofs go through turns: `Moved` says what an assignment of the page keeps and is
transitive, `IsTurn` that a page with its lanes is right, and each handler
(`LoadKeeps`, `SaveKeeps`, `TransitionKeeps`, `LoadAnswerKeeps`, ...) maps one to
another; then one lemma per action.  `Takes` says that the request a worker takes
exists, and `Remaining` and `Shorter` what is left of a queue.  `OperationsEnd` is
liveness and model-checked only.

## 7. Mobile relay

Every peer is a task that registers and reads, and a writer that empties the
peer's channel into its socket.  `slot` and `token` are the rooms, under the mutex;
`queue` the channels, which outlive a place in the room because other tasks hold
clones; `target` the channel found by `forward_message` and used after the mutex was
released.  `Register`, `Read`, `Forward`, `Write`, `Leave`, `Unregister`, `ReadError` are
the steps of the code between two uses of the mutex or of a channel; `Drop` is the
network.

* `UnreplacedKeepsItsPlace`: who was not told to close is who the room forwards to,
  in whatever order older connections leave.
* `ConnectionsAreCounted`: which connections the counter counts.  It counts those
  refused for their token and those whose read failed, for ever; that is what the
  code does, and it is never too small, so the subtraction is safe.
* `HeardInOrder`: what a peer hears from another is a stretch of what that said.
* `ReplacedLeaves`: a peer that lost its place is gone in the end.
* `StreamInv`: types, the first two of these, who can hold a place (together `IInv`),
  and why `HeardInOrder` holds (`StreamOK`, `SenderOK`).

Run `mr_relay`: two hosts, one of which has another token, and two clients of which
the network may drop one; one host speaks twice.  Two of a role make a replacement,
and with the token a refusal or, after the room was removed, a new room.  One
sender that speaks twice shows order, since senders share nothing but the
receiver's channel.  Fairness: tasks and writers run, a dead socket is noticed, and
a peer answers a Close, as WebSocket peers do; a peer that does not would stay.

Proved in `MobileRelayProofs`, for any finite set of connections, any rooms, tokens
and numbers of messages: `Invariance`, `CountersAreRight`, `PlacesAreKept`.
`PlacesAreTaken` is the strengthening: the holder of a place registered for it with
the token the room has, and a room exists exactly while a place is taken; without it
an old connection could find itself in a room that was removed and made again.

`StreamInvariance` and from it `HearingInOrder`, for `HeardInOrder`.  Neither what a
peer heard nor what waits in its channel can be reasoned about alone, so the
invariant is about the two joined (`Stream`), which only grows at its end
(`StreamGrows`), does not change when the writer takes a message (`StreamMoves`), and
falls back to what was heard when the writer ends (`StreamEnds`).  `SenderOK` says
where in it each sender is: as long as a sender can reach the peer, the last of its
messages there is the last it said, or the last but one if it has looked up the
channel and not yet used it; a peer that lost its place is never reached again, so
nobody can leave a gap and go on.  There is a lemma per action.  `LargestBelow`, that
a set of earlier positions has a last one, comes from well-foundedness.
`ReplacedLeaves` is liveness and model-checked only.

## 8. Manager instance and the import page

A process saves the link it was started with (`Prepare`), tries the lock, and then
is the owner (`ClearRecord`, `Publish`, `StartApp`) or asks the owner (`FindOwner`,
`Send`, `TimesOut`).  The owner's activation worker (`Accept`), window (`ReduceEvent`,
`ReduceAnswer`, the user's actions) and import worker (`ServeLoad`, `ServeConfirm`
with `ClearPending`, `ServeDismiss`) run beside each other, and so does a process
that is on its way out: `Quit`, `Shutdown`, `Unlock` and `Exit` are four steps, and the
listener outlives the lock.  `pending` is the file of the pending link, `holder` its
lock, `settings` the profiles that came from links.  `approved` and `missed` are
history: what the user confirmed, and whether something was lost that the code
mends when the window is focused (a load that failed, a frame that came too late, a
second process that died before it sent).

Four things are one step where the code has two, each time because nothing can
come in between that the other process sees: reading the record and probing the
address (the address is what is probed), binding and publishing (nobody knows the
address before), the window's death at `Quit` (a window that quits takes no event),
and the loads queued at that time (nobody reads their answers).

* `HandoverInv`: types, `OneOwner`, `RecordOfOwner`, the facts about requests that the
  next two rest on (together `IInv`), and where records lead and in which order a
  window is answered, which the last one rests on.
* `OnlyApproved`, `ImportedOnce`: what is imported was shown and confirmed, though
  another process may replace the pending link in between, and once, though the
  owner may die between storing and clearing.
* `ShownIsPending`: the running window shows what is pending, or is loading it, or
  somebody is on the way to tell it, or something was `missed`.

Run `mi_import`: three processes, two of which bring links to the same provider.
Three are an owner that leaves, one that takes over and one that is between
reading the record and sending.  Two clicks confirm one link twice or confirm and
dismiss; one event is a fault, a crash or a focus at any one place.  The two
processes with links are symmetric with their links.  No fairness and no liveness:
the user need not come, and the second process has a time-out that the model lets
expire whenever nobody answers.

Proved in `ManagerInstanceProofs`, for any processes, links and bounds:
`Invariance`, and from it `RecordNamesOwner`, `ImportsAreApproved`,
`ImportsAreSingle`.  The three are not inductive alone: the record can be trusted
only because its writer still had the lock when it removed it (`OneOwner`), and an
import because every request in the lane of any process, also of one that is
quitting, is one the user made (`AskedForApproved`) and the holder of the file's
lock is serving one (`HolderConfirms`).  The proof has one lemma per action for
the types, and one per part of the state for the rest.

`HandoverInvariance` is `Spec => []HandoverInv`, and `LinksAreNotForgotten` follows:
`Spec => []ShownIsPending`.  That needs two more facts.  First, a record leads to who
published it (`RecordsLead`): whoever listens at its address while its process runs is
that process, because the preferred port is bound at most once and the other
addresses are the processes' own; so a frame whose nonce the
listener refuses was meant for an owner that is gone.  Second, a
window is answered in order (`QueuesOK`): at most one confirmation or dismissal is
under way, in front of all loads, and of the loads the last queued one is the one
whose answer is still awaited.  Then the last answer to come decides what will be
shown (`WillShow`), and either that is what is pending, or somebody carries a "reload"
for this very owner (`WillBeTold`), or something was `missed`.  The proof follows
`NotForgotten` through each action, and `ShownIsPending` is its weakening to a window
that is quiet.  `NamesAssumption` says that the names are distinct and that no record is
`None`, both of which hold of model values.

## 9. Launcher

Every launcher is a process with a place (`at`) in `main`.  `Lock` and `Bind` take the
guard, `Check` and `Stop` are the recovery, in which the lock is free and which kills
every other launcher on Windows, and `Lock` and `Bind` again its second try.  `Select`
to `Save` are `launch_and_inject_with_hooks`, `Wait` and `Close` the `LaunchHandle`,
`Fail` and `Terminate` the clean-up of a failed launch, `Unlock` and `Exit` the end, where
the lock goes before the listener.  `ActivateCodex`, `Assist` and `Join` are the second
launcher.  `Reinject` is the watchdog.  A launch is two steps on macOS, where the code
looks whether Codex runs (`Look`) before it opens it.

Codex and its user are external: Codex is one instance, launching it again activates
that instance and returns its process, its debug port is the one of the launch that
started it, and it listens there some time later (`CodexListens`).  The user may start
Codex without a port, quit it, and close or reload its page.  A page may have the
bridges of several launchers, for the protocol of the debug port tells a call to every
session that asked for the binding; a bridge ends with its process or with the page.
`system` is the platform and the two settings that change the sequence;
`listener` may at the start be an old launcher, another program, or a socket that
accepts nobody.

* `IInv`: types; `OneOwner`; `HelperStands`, that a launcher that goes on has its helper
  where it will tell the page, at the proxy's port if Codex is configured for the proxy,
  and shares it with nobody; `RunningIsSpared`, what is known of an instance that ran
  when the ports were selected.
* `UsersCodexSurvives`: a failed launch ends no such instance.  On Windows that is so
  because the debug port was taken or the instance has none, hence it is not injected
  into, hence it is kept; on macOS because of the look.  An instance that another
  launcher started and that does not listen yet is not one of these.
* `SomebodyLaunches`: however launchers drop the guard, end each other and activate what
  the other launches, Codex is started unless something fails.
* `PageIsServed`: a watched page gets a bridge again.

Run `la_launch`: two launchers, one fault or crash, two acts of the user, four kinds of
initial `listener`, and both platforms, with the proxy on Windows and without
enhancements on macOS.  Two launchers are an owner and one that recovers,
joins or takes over; the killing is by name, so a third is killed like the second.  One
fault ends a launch, and a second would need a second launch by the same process.  Two
acts are a page closed after a quit, or a start and a quit.  Fairness: a launcher that
was started runs its main task on, and its watchdog ticks; the user and Codex have none.

Proved in `LauncherProofs`, for any number of launchers, bounds and occupants:
`Invariance`, `SingleInstance`, `CodexSurvives`.  The strengthening is `NothingAhead`, that
nothing is set before its time and a free port is its launcher's own: without it a
launcher could come to `Select` with an instance that listens where it will inject.

Not modelled: portable installations on Windows, whose process is a child; the killing
as a sequence of kills (two recoveries that end each other in the same moment); the
computer-use guard after the launch, the pet overlay, helper-only mode, the text of the
status file, and the helper's routes.

## 10. Findings

The violation run states what a test of the repository says; `PROJECT.json` quotes it.

* `pp_shown` (`ShownIsStored`): a load of the provider page is read before a save and
  answered after it; its id is current, so the page goes back to the document from
  before the save and shows it as stored.

Other losses are in the models and have no run of their own:

* A workspace save of a second manager deletes a profile that a concurrent switch
  has just made active: the provider revision does not cover the active profile
  (`provider.rs:353`); within one manager the two cannot overlap.
* A cc-switch import stores the active profile it read before the lock
  (`ReadForImport`, `StoreDocument`).
* Every failure moves the failover index, whichever member failed, so two requests
  that fail on one member skip the next (`Recorded`); `FailoverFollowsRequests` is
  about requests that nobody interfered with.
* A conversation known only by the id of its last answer gets a new member with
  every request; the run gives conversations an explicit key (`Explicit`).
* `response.failed` may follow `response.completed` when the connection breaks after
  `[DONE]`; the run has an upstream that does not (`BreaksAfterEnd`).
* A session file that cannot be written ends the sync outside the closure whose
  failure is rolled back, so the files rewritten before it keep the new provider;
  `LaterFailureRestores` is about the failures after that.
* An update by the bridge between the start of a switch and its save is
  overwritten (`SaveSelection` writes the copy read at the start,
  `relay_switch.rs:107`).
* A second launcher that finds the usual helper port free injects that port into the
  page and ends; the owner's bridge still answers the health check, so the page names a
  helper that has gone (`Join`, `launcher.rs:1814`).
* A launch that could not inject starts no watchdog, so it stays degraded although
  `tests/launcher.rs:1185` is called "enters degraded mode and retries"; and one that
  fails to write that status keeps Codex but closes its helper and proxy (`Fail`).
* A refused peer of the mobile relay is counted for ever, and one whose read fails
  keeps its place (`ReadError`).

## 11. What is not modelled

Within the modelled parts: the wording of errors and logs, ids and usage figures
of responses, the conversion of requests, model lists, migration of old settings,
presets, the merging of common configuration, the client closing its connection,
the cut of a block or of a character between two reads (folded into the pieces:
the buffer is drained by whole blocks).  An array of several tool calls in one
chunk is the same as successive chunks.  Session titles, views and other data
conversions have no state that a property would be about.

## 12. Plan

`ContextTools`, and deletion of sessions with undo, would come next.

Model-checked only: liveness (`OperationsEnd`, `ResponseEnds`, `SyncEnds`,
`ReplacedLeaves`, `SomebodyLaunches`, `PageIsServed`), which the provers cannot treat
under fairness.  Every invariant and action property of the runs, and every refinement,
is proved.
