---------------------------- MODULE ProviderPage ----------------------------
(***************************************************************************)
(* The provider page of the manager: the document it shows, the user's      *)
(* draft of it, the operations it runs on worker threads ("lanes"), and the *)
(* dialogs that guard unsaved work.                                         *)
(*                                                                          *)
(* A document is the set of what it holds: profile ids and marks, one mark  *)
(* per edit of the user, for a foreign change ("ext"), for the extracted    *)
(* common configuration and for a backfill.  Its revision is a hash of its  *)
(* contents, here the set itself.  The live files hold a profile's texts,   *)
(* none ("cleared") or texts somebody typed ("edited").  An operation of    *)
(* the service takes one step: that is what AtomicActivation promises.      *)
(***************************************************************************)
EXTENDS Naturals, Sequences

CONSTANTS
  Order,        \* the profile ids in the order of the list
  Referenced,   \* those an aggregate routes to: deleting one asks first
  Edits,        \* the marks of the user's edits, in the order they are made
  Uses,         \* the parts of the page the user of this instance uses
  MaxCalls,     \* bounds the commands that may start an operation
  MaxForeign,   \* bounds the changes made by other programs
  Mortal,       \* the lanes whose worker may die
  None

Parts == {"edit", "delete", "select", "save", "discard", "extract", "reload", "mutate",
          "live", "test", "leave", "stay", "side"}
Lanes == {"store", "activation", "test", "side"}

ASSUME InstanceAssumption ==
  /\ Uses \subseteq Parts /\ Mortal \subseteq {"store", "activation"}
  /\ MaxCalls \in Nat /\ MaxForeign \in Nat

VARIABLES
  stored,       \* what is on disk: [doc, active, files]
  page,         \* ProviderViewState, and the application's flags about it
  lanes,        \* the queues of requests and answers, and which worker lives
  calls, edits, foreign     \* commands, edits and foreign changes so far

vars == <<stored, page, lanes, calls, edits, foreign>>

Profiles == {Order[i] : i \in DOMAIN Order}
Marks    == {Edits[i] : i \in DOMAIN Edits} \cup {"ext", "common", "backfill"}

Maybe(S)   == S \cup {None}
Documents  == SUBSET (Profiles \cup Marks)
Files      == Profiles \cup {"cleared", "edited"}
Views      == {v \in [doc : Documents, active : Profiles] : v.active \in v.doc}
Workspaces == {w \in [doc : Documents, active : Profiles, files : Files] : w.active \in w.doc}

(* The document starts with its active profile, marks are not profiles, and *)
(* None is none of the values it stands in for.                             *)
ASSUME NamesAssumption ==
  /\ Order \in Seq(Profiles) /\ Order # <<>> /\ Edits \in Seq(Marks)
  /\ "ext" \notin Profiles /\ None \notin Profiles \cup Marks
  /\ \A d \in Documents : d # None
  /\ \A v \in Views \cup Workspaces : v # None

(* The first profile of a document, and the neighbour a deletion selects. *)
First(doc) == Order[CHOOSE i \in DOMAIN Order :
                      Order[i] \in doc /\ \A j \in 1..(i - 1) : Order[j] \notin doc]
Neighbour(doc, p) ==
  LET at == CHOOSE i \in DOMAIN Order : Order[i] = p
      after == {i \in DOMAIN Order : i > at /\ Order[i] \in doc}
  IN  IF after = {} THEN Order[CHOOSE i \in DOMAIN Order :
                           Order[i] \in doc /\ \A j \in DOMAIN Order : Order[j] \in doc => j <= i]
      ELSE Order[CHOOSE i \in after : \A j \in after : i <= j]

-----------------------------------------------------------------------------
(* The page. *)

IdleOperation == [phase |-> "idle", id |-> 0]
NoTest == [phase |-> "idle", id |-> 0, profile |-> None, gen |-> 0, about |-> None]

NewPage ==
  [route |-> "other", baseline |-> None, draft |-> {}, selected |-> None, gen |-> 0,
   save |-> IdleOperation, extraction |-> IdleOperation, submitted |-> None, test |-> NoTest,
   load |-> IdleOperation, mutation |-> IdleOperation, nextId |-> 0,
   workspace |-> None, confirmation |-> None, kind |-> None, liveEdited |-> FALSE,
   guard |-> None, guardSave |-> None, deleteAsked |-> FALSE,
   pendingRoute |-> FALSE, pendingReload |-> FALSE, told |-> {}]

Init ==
  /\ stored = [doc |-> Profiles, active |-> Order[1], files |-> Order[1]]
  /\ page = NewPage
  /\ lanes = [l \in Lanes |-> [requests |-> <<>>, answers |-> <<>>, up |-> TRUE]]
  /\ calls = 0 /\ edits = 0 /\ foreign = 0

Running(op) == op.phase = "running"

Dirty(pg)     == pg.baseline # None /\ pg.draft # pg.baseline.doc
LiveDirty(pg) == pg.liveEdited
Unsaved(pg)   == Dirty(pg) \/ LiveDirty(pg)

(* reset_secret_and_operations, for the one network operation kept. *)
WithoutResults(pg) ==
  [pg EXCEPT !.test = [@ EXCEPT !.phase = "idle", !.profile = None, !.about = None],
             !.deleteAsked = FALSE]

(* mark_edited *)
MarkEdited(pg) ==
  [pg EXCEPT !.gen = @ + 1,
             !.test = [@ EXCEPT !.phase = "idle", !.profile = None, !.about = None]]

(* The document of ws becomes baseline and draft. *)
Replaced(pg, ws, otherwise) ==
  WithoutResults([pg EXCEPT !.draft = ws.doc, !.gen = 0,
                            !.baseline = [doc |-> ws.doc, active |-> ws.active],
                            !.selected = IF @ \in ws.doc THEN @ ELSE otherwise])

(* clear_result, which leaves an extraction that runs alone. *)
ExtractionCleared(pg) ==
  IF Running(pg.extraction) THEN pg
  ELSE [pg EXCEPT !.extraction.phase = "idle", !.submitted = None]

(* begin_load and apply_load_response, run at once for a workspace another  *)
(* page of the manager received.                                            *)
Installed(pg, ws) ==
  ExtractionCleared([Replaced(pg, ws, ws.active) EXCEPT !.guard = None, !.guardSave = None])

(* install_live_workspace *)
InstalledLive(pg, ws) ==
  [Replaced(pg, ws, ws.active) EXCEPT !.workspace = ws, !.liveEdited = FALSE]

(* sync_live_provider_workspace *)
Synced(pg) ==
  IF pg.workspace = None THEN pg
  ELSE [pg EXCEPT !.workspace = [doc |-> pg.baseline.doc, active |-> pg.baseline.active,
                                 files |-> @.files]]

(* apply_selection, and apply_guard_target, whose target is a profile to    *)
(* select or "reload".                                                      *)
SelectedNow(pg, p)  == WithoutResults([pg EXCEPT !.selected = p])
TargetApplied(pg, target) == IF target \in Profiles THEN SelectedNow(pg, target) ELSE pg

(* discard_draft: the save that may still run is forgotten, its id too. *)
Discarded(pg) ==
  ExtractionCleared(WithoutResults(
    [pg EXCEPT !.draft = pg.baseline.doc, !.gen = 0, !.save = IdleOperation,
               !.selected = IF @ \in pg.baseline.doc THEN @ ELSE First(pg.baseline.doc),
               !.guard = None, !.guardSave = None]))

(* leave_provider_route *)
Left(pg) == [pg EXCEPT !.route = "other", !.confirmation = None, !.liveEdited = FALSE]

-----------------------------------------------------------------------------
(* Handlers: from the page and the lanes before to those after.             *)

Turn == [page |-> page, lanes |-> lanes]
Becomes(t) == page' = t.page /\ lanes' = t.lanes
With(t, pg) == [t EXCEPT !.page = pg]

(* What the page does when an operation fails, also when its worker turns   *)
(* out to be gone.  A failed load or mutation leaves the documents alone.   *)
SaveFailed(pg)    == [pg EXCEPT !.save.phase = "error", !.guardSave = None]
ExtractFailed(pg) == [pg EXCEPT !.extraction.phase = "error", !.submitted = None]
LoadFailed(pg)    == [pg EXCEPT !.load.phase = "error"]
MutationFailed(pg) == [pg EXCEPT !.mutation.phase = "error", !.guardSave = None]
TestFailed(pg)    == [pg EXCEPT !.test.phase = "error"]

Failed(pg, kind) ==
  CASE kind = "save"    -> SaveFailed(pg)
    [] kind = "extract" -> ExtractFailed(pg)
    [] kind = "load"    -> LoadFailed(pg)
    [] kind = "mutate"  -> MutationFailed(pg)
    [] kind = "test"    -> TestFailed(pg)

(* Mutant: nobody looks whether the request could be sent. *)
SentToNobody(t, lane, request) ==
  IF t.lanes[lane].up THEN [t EXCEPT !.lanes[lane].requests = Append(@, request)] ELSE t

(* A request goes to the lane's queue; to a worker that is gone it fails,   *)
(* and the page has been told.                                              *)
Sent(t, lane, request) ==
  IF t.lanes[lane].up
  THEN [t EXCEPT !.lanes[lane].requests = Append(@, request)]
  ELSE With(t, [Failed(t.page, request.kind) EXCEPT !.told = @ \cup {lane}])

(* begin_live_load and its dispatch *)
LoadProviders(t) ==
  LET pg == t.page
      id == pg.nextId + 1
  IN  IF Unsaved(pg) \/ Running(pg.mutation) \/ Running(pg.extraction) THEN t
      ELSE Sent(With(t, [pg EXCEPT !.nextId = id, !.load = [phase |-> "running", id |-> id]]),
                "activation", [kind |-> "load", id |-> id])

(* begin_save and its dispatch *)
SaveProviders(t) ==
  LET pg == t.page
      id == pg.save.id + 1
  IN  IF Running(pg.save) \/ Running(pg.extraction) THEN t
      ELSE Sent(With(t, [pg EXCEPT !.save = [phase |-> "running", id |-> id]]), "store",
                [kind |-> "save", id |-> id, base |-> pg.baseline.doc, doc |-> pg.draft])

(* complete_pending_provider_transition *)
TransitionCompleted(t) ==
  LET left == IF t.page.pendingRoute
              THEN With(t, [Left(t.page) EXCEPT !.pendingRoute = FALSE]) ELSE t
  IN  IF t.page.pendingReload
      THEN LoadProviders(With(left, [left.page EXCEPT !.pendingReload = FALSE])) ELSE left

(* request_live_mutation: the dialog opens, or the request is refused. *)
MutationRequested(pg, kind) ==
  IF \/ Running(pg.mutation) \/ Running(pg.extraction)
     \/ pg.confirmation # None \/ pg.workspace = None \/ Dirty(pg)
     \/ kind = "file" /\ ~LiveDirty(pg)
     \/ kind # "file" /\ LiveDirty(pg)
     \/ kind \in Profiles /\ (pg.workspace.active = kind \/ kind \notin pg.workspace.doc)
  THEN pg
  ELSE [pg EXCEPT !.confirmation = kind]

-----------------------------------------------------------------------------
(* The user.  A page whose extraction runs is disabled, its dialogs are not. *)

Uses1(part) == part \in Uses /\ UNCHANGED <<stored, foreign>>
Calls == calls < MaxCalls /\ calls' = calls + 1

Shown   == page.route = "providers" /\ page.baseline # None
Enabled == Shown /\ ~Running(page.extraction)

(* ProviderAction::Edit and the other changes of the selected profile. *)
Edit ==
  /\ Uses1("edit") /\ Enabled /\ edits < Len(Edits)
  /\ page.selected \in page.draft
  /\ page' = MarkEdited([page EXCEPT !.draft = @ \cup {Edits[edits + 1]}])
  /\ edits' = edits + 1 /\ UNCHANGED <<lanes, calls>>

(* The active profile and the last ordinary one cannot be deleted. *)
Deletable ==
  /\ page.selected \in page.draft /\ page.selected # page.baseline.active
  /\ \E p \in Profiles : p \in page.draft /\ p # page.selected

(* ProviderAction::Delete, with the dialog that asks about references. *)
AskDelete ==
  /\ Uses1("delete") /\ Enabled /\ Deletable
  /\ page.selected \in Referenced /\ ~page.deleteAsked
  /\ page' = [page EXCEPT !.deleteAsked = TRUE]
  /\ UNCHANGED <<lanes, calls, edits>>

CancelDelete ==
  /\ Uses1("delete") /\ Shown /\ page.deleteAsked
  /\ page' = [page EXCEPT !.deleteAsked = FALSE]
  /\ UNCHANGED <<lanes, calls, edits>>

Delete ==
  /\ Uses1("delete") /\ Shown /\ Deletable
  /\ IF page.selected \in Referenced THEN page.deleteAsked ELSE Enabled
  /\ LET doc == page.draft \ {page.selected}
     IN page' = WithoutResults(MarkEdited([page EXCEPT !.draft = doc,
                                           !.selected = Neighbour(doc, @)]))
  /\ UNCHANGED <<lanes, calls, edits>>

(* ProviderAction::Select and request_selection *)
Select(p) ==
  /\ Uses1("select") /\ Enabled /\ p \in page.draft /\ p # page.selected
  /\ LET pg == [page EXCEPT !.pendingRoute = FALSE, !.pendingReload = FALSE]
     IN page' = IF Dirty(page) THEN [pg EXCEPT !.guard = p] ELSE SelectedNow(pg, p)
  /\ UNCHANGED <<lanes, calls, edits>>

Save ==
  /\ Uses1("save") /\ Enabled /\ Dirty(page) /\ ~Running(page.save) /\ Calls
  /\ Becomes(SaveProviders(Turn)) /\ UNCHANGED edits

Discard ==
  /\ Uses1("discard") /\ Enabled /\ Dirty(page)
  /\ page' = Discarded([page EXCEPT !.pendingRoute = FALSE, !.pendingReload = FALSE])
  /\ UNCHANGED <<lanes, calls, edits>>

(* begin_common_config_extraction *)
Extract ==
  /\ Uses1("extract") /\ Enabled /\ Calls
  /\ ~Running(page.save) /\ ~Running(page.mutation) /\ ~Running(page.load)
  /\ page.confirmation = None /\ page.selected \in page.draft
  /\ LET id == page.extraction.id + 1
         pg == [page EXCEPT !.extraction = [phase |-> "running", id |-> id],
                            !.submitted = page.draft]
     IN Becomes(Sent(With(Turn, pg), "store",
                     [kind |-> "extract", id |-> id, base |-> page.baseline.doc,
                      doc |-> page.draft]))
  /\ UNCHANGED edits

(* The page is opened, and loads what was never loaded. *)
Open ==
  /\ page.route = "other" /\ UNCHANGED <<stored, foreign, calls, edits>>
  /\ LET t == With(Turn, [page EXCEPT !.route = "providers", !.pendingRoute = FALSE])
     IN Becomes(IF page.load.phase = "idle" /\ page.baseline = None THEN LoadProviders(t) ELSE t)

(* navigate to another page: unsaved work opens the dialog. *)
Leave ==
  /\ Uses1("leave") /\ page.route = "providers"
  /\ page' = IF Unsaved(page)
             THEN [page EXCEPT !.pendingRoute = TRUE, !.pendingReload = FALSE,
                               !.guard = "reload"]
             ELSE [Left(page) EXCEPT !.pendingRoute = FALSE]
  /\ UNCHANGED <<lanes, calls, edits>>

(* request_provider_reload, from the toolbar or from the live strip. *)
Reload ==
  /\ Uses1("reload") /\ page.route = "providers" /\ Calls /\ UNCHANGED edits
  /\ IF Unsaved(page)
     THEN page' = [page EXCEPT !.pendingRoute = FALSE, !.pendingReload = TRUE,
                               !.guard = "reload"] /\ UNCHANGED lanes
     ELSE Becomes(LoadProviders(Turn))

(* The guard's three buttons, resolve_guard. *)
Stay ==
  /\ Uses1("stay") /\ Shown /\ page.guard # None
  /\ page' = [page EXCEPT !.guard = None, !.guardSave = None,
                          !.pendingRoute = FALSE, !.pendingReload = FALSE]
  /\ UNCHANGED <<lanes, calls, edits>>

DiscardAndContinue ==
  /\ Uses1("discard") /\ Shown /\ page.guard # None /\ Calls /\ UNCHANGED edits
  /\ LET pg == TargetApplied([Discarded(page) EXCEPT !.liveEdited = FALSE], page.guard)
     IN Becomes(TransitionCompleted(With(Turn, pg)))

SaveAndContinue ==
  /\ Uses1("save") /\ Shown /\ page.guard # None /\ Calls /\ UNCHANGED edits
  /\ IF Dirty(page) THEN Becomes(SaveProviders(With(Turn, [page EXCEPT !.guardSave = "provider"])))
     ELSE IF LiveDirty(page)
     THEN page' = MutationRequested([page EXCEPT !.guardSave = "live"], "file")
          /\ UNCHANGED lanes
     ELSE Becomes(TransitionCompleted(
            With(Turn, TargetApplied([page EXCEPT !.guard = None], page.guard))))

(* The live strip's buttons: activate or reapply the selected profile,      *)
(* backfill, clear.                                                         *)
RequestMutation(kind) ==
  /\ Uses1("mutate") /\ Enabled /\ ~Unsaved(page) /\ ~Running(page.mutation)
  /\ page.confirmation = None /\ page.workspace # None
  /\ kind \in Profiles => kind = page.selected /\ kind # page.baseline.active
  /\ kind \in {"reapply", "backfill"} => page.selected = page.baseline.active
  /\ kind = "clear" => page.workspace.files # "cleared"
  /\ page' = MutationRequested(page, kind)
  /\ UNCHANGED <<lanes, calls, edits>>

(* confirm_live_mutation: the guard holds what the page shows now. *)
Confirm ==
  /\ Uses1("mutate") /\ Shown /\ page.confirmation # None /\ Calls /\ UNCHANGED edits
  /\ ~Running(page.mutation) /\ ~Running(page.extraction) /\ ~Dirty(page)
  /\ LET id == page.nextId + 1
         pg == [page EXCEPT !.nextId = id, !.mutation = [phase |-> "running", id |-> id],
                            !.kind = page.confirmation, !.confirmation = None]
     IN Becomes(Sent(With(Turn, pg), "activation",
                     [kind |-> "mutate", id |-> id, what |-> page.confirmation,
                      doc |-> page.workspace.doc, files |-> page.workspace.files]))

CancelConfirm ==
  /\ Uses1("mutate") /\ Shown /\ page.confirmation # None
  /\ page' = [page EXCEPT !.confirmation = None]
  /\ UNCHANGED <<lanes, calls, edits>>

(* begin_live_file_edit and edit_live_file, in one step; the save button;   *)
(* cancel_live_file_edit.  One live file is edited at a time.               *)
EditLive ==
  /\ Uses1("live") /\ Enabled /\ page.workspace # None /\ ~LiveDirty(page)
  /\ ~Dirty(page) /\ ~Running(page.mutation)
  /\ page' = [page EXCEPT !.liveEdited = TRUE]
  /\ UNCHANGED <<lanes, calls, edits>>

SaveLive ==
  /\ Uses1("live") /\ Enabled /\ LiveDirty(page) /\ ~Running(page.mutation)
  /\ page' = MutationRequested(page, "file")
  /\ UNCHANGED <<lanes, calls, edits>>

CancelLiveEdit ==
  /\ Uses1("live") /\ Enabled /\ LiveDirty(page)
  /\ page' = [page EXCEPT !.liveEdited = FALSE,
                          !.guardSave = IF @ = "live" THEN None ELSE @]
  /\ UNCHANGED <<lanes, calls, edits>>

(* begin_network_operation: a test of the selected profile as it is now     *)
(* drafted; the request for its models and the diagnosis work the same way. *)
Test ==
  /\ Uses1("test") /\ Enabled /\ page.selected \in page.draft /\ Calls /\ UNCHANGED edits
  /\ LET id == page.test.id + 1
         pg == [page EXCEPT !.test = [phase |-> "running", id |-> id, profile |-> page.selected,
                                      gen |-> page.gen, about |-> None]]
     IN Becomes(Sent(With(Turn, pg), "test",
                     [kind |-> "test", id |-> id, profile |-> page.selected,
                      gen |-> page.gen, doc |-> page.draft]))

(* An import on this page or an operation of the context page, which both   *)
(* refuse to start on a dirty draft.                                        *)
StartSide ==
  /\ Uses1("side") /\ Calls /\ ~Dirty(page) /\ UNCHANGED edits
  /\ lanes["side"].requests = <<>> /\ lanes["side"].answers = <<>>
  /\ \E kind \in IF Shown THEN {"import"} ELSE IF page.route = "other" THEN {"context"} ELSE {} :
       lanes' = [lanes EXCEPT !["side"].requests = <<[kind |-> kind]>>]
  /\ UNCHANGED page

User ==
  \/ Edit \/ AskDelete \/ CancelDelete \/ Delete
  \/ \E p \in Profiles : Select(p)
  \/ Save \/ Discard \/ Extract \/ Test \/ StartSide
  \/ Open \/ Leave \/ Reload \/ Stay \/ DiscardAndContinue \/ SaveAndContinue
  \/ \E kind \in Profiles \cup {"reapply", "backfill", "clear"} : RequestMutation(kind)
  \/ Confirm \/ CancelConfirm
  \/ EditLive \/ SaveLive \/ CancelLiveEdit

-----------------------------------------------------------------------------
(* The workers.  An outcome of a request is what is stored after it and     *)
(* the answer it gets.                                                      *)

Answer(request, ok, ws) == [kind |-> request.kind, id |-> request.id, ok |-> ok, ws |-> ws]
Refused(s, request) == [stored |-> s, answer |-> Answer(request, FALSE, None)]
Done(s, request)    == [stored |-> s, answer |-> Answer(request, TRUE, s)]

(* Mutant: the revision of the page's document is not compared. *)
SavedUnchecked(s, request, doc) ==
  IF s.active \in doc THEN {Refused(s, request), Done([s EXCEPT !.doc = doc], request)}
  ELSE {Refused(s, request)}

(* save_workspace: the active profile must be there, the stored document    *)
(* must be the one the draft was made from, and the file must be writable.  *)
SaveOutcomes(s, request, doc) ==
  IF s.active \in doc /\ s.doc = request.base
  THEN {Refused(s, request), Done([s EXCEPT !.doc = doc], request)}
  ELSE {Refused(s, request)}

(* extract_common_config *)
ExtractOutcomes(s, request) ==
  IF s.doc # request.base THEN {Refused(s, request)}
  ELSE IF "common" \in request.doc
  THEN {[stored |-> s, answer |-> Answer(request, TRUE, None)]}
  ELSE SaveOutcomes(s, request, request.doc \cup {"common"})

(* The five live mutations, once the guard matched. *)
Mutated(s, what) ==
  LET kept == IF s.files = "edited" THEN s.doc \cup {"backfill"} ELSE s.doc
  IN CASE what \in Profiles  -> [doc |-> kept, active |-> what, files |-> what]
       [] what = "reapply"   -> [s EXCEPT !.files = s.active]
       [] what = "backfill"  -> [s EXCEPT !.doc = kept]
       [] what = "clear"     -> [s EXCEPT !.files = "cleared"]
       [] what = "file"      -> [s EXCEPT !.files = "edited"]

MutateOutcomes(s, request) ==
  IF \/ s.doc # request.doc \/ s.files # request.files
     \/ request.what \in Profiles /\ request.what \notin s.doc
  THEN {Refused(s, request)}
  ELSE {Refused(s, request), Done(Mutated(s, request.what), request)}

Outcomes(s, request) ==
  CASE request.kind = "save"    -> SaveOutcomes(s, request, request.doc)
    [] request.kind = "extract" -> ExtractOutcomes(s, request)
    [] request.kind = "load"    -> {Refused(s, request), Done(s, request)}
    [] request.kind = "mutate"  -> MutateOutcomes(s, request)

(* The worker takes a load together with the loads queued right behind it. *)
Taken(requests) ==
  LET n == CHOOSE k \in DOMAIN requests :
             /\ \A i \in 1..k : k > 1 => requests[i].kind = "load"
             /\ k = Len(requests) \/ requests[k].kind # "load" \/ requests[k + 1].kind # "load"
  IN  [request |-> requests[n], rest |-> SubSeq(requests, n + 1, Len(requests))]

Serve(lane) ==
  /\ lane \in {"store", "activation"} /\ lanes[lane].up /\ lanes[lane].requests # <<>>
  /\ LET taken == Taken(lanes[lane].requests)
     IN \E o \in Outcomes(stored, taken.request) :
          /\ stored' = o.stored
          /\ lanes' = [lanes EXCEPT ![lane].requests = taken.rest,
                                    ![lane].answers = Append(@, o.answer)]
  /\ UNCHANGED <<page, calls, edits, foreign>>

ServeTest ==
  /\ lanes["test"].requests # <<>>
  /\ lanes' = [lanes EXCEPT !["test"].answers = Append(@, Head(lanes["test"].requests)),
                            !["test"].requests = Tail(@)]
  /\ UNCHANGED <<stored, page, calls, edits, foreign>>

(* The context page's operation reads the stored document, an import adds   *)
(* to it.                                                                   *)
ServeSide ==
  /\ lanes["side"].requests # <<>>
  /\ LET kind == Head(lanes["side"].requests).kind
         s == IF kind = "import" THEN [stored EXCEPT !.doc = @ \cup {"ext"}] ELSE stored
     IN /\ stored' = s
        /\ lanes' = [lanes EXCEPT !["side"].requests = <<>>,
                                  !["side"].answers = <<[kind |-> kind, ws |-> s]>>]
  /\ UNCHANGED <<page, calls, edits, foreign>>

(* A worker dies of a panic, before or after the request took effect; what  *)
(* is queued is never served.  One worker dies at most.                     *)
Die(lane) ==
  /\ lane \in Mortal /\ \A l \in Lanes : lanes[l].up
  /\ stored' \in {stored} \cup
       (IF lanes[lane].requests = <<>> THEN {}
        ELSE {o.stored : o \in Outcomes(stored, Taken(lanes[lane].requests).request)})
  /\ lanes' = [lanes EXCEPT ![lane].up = FALSE, ![lane].requests = <<>>]
  /\ UNCHANGED <<page, calls, edits, foreign>>

(* Another program changes the stored profiles, or the live files. *)
Foreign ==
  /\ foreign < MaxForeign /\ foreign' = foreign + 1
  /\ stored' \in {[stored EXCEPT !.doc = @ \cup {"ext"}], [stored EXCEPT !.files = "edited"]}
  /\ UNCHANGED <<page, lanes, calls, edits>>

-----------------------------------------------------------------------------
(* The answers, reduced one by one on every frame and on every route.       *)

Popped(lane) == [Turn EXCEPT !.lanes[lane].answers = Tail(@)]

(* apply_save_response; a save asked for by the guard goes on to its target. *)
SaveAnswered(t, answer) ==
  LET pg   == t.page
      kept == Synced([Replaced(pg, answer.ws, First(answer.ws.doc)) EXCEPT !.save.phase = "ready"])
      next == IF pg.guardSave = "provider"
              THEN TargetApplied([kept EXCEPT !.guard = None, !.guardSave = None], pg.guard)
              ELSE kept
  IN  CASE answer.id # pg.save.id -> t
        [] answer.id = pg.save.id /\ answer.ok  -> TransitionCompleted(With(t, next))
        [] answer.id = pg.save.id /\ ~answer.ok -> With(t, SaveFailed(pg))

(* apply_common_config_extraction_response: a draft changed since then      *)
(* stays, over a baseline that has the extracted configuration.             *)
ExtractAnswered(t, answer) ==
  LET pg   == [t.page EXCEPT !.extraction.phase = "ready", !.submitted = None]
      same == t.page.draft = t.page.submitted
      kept == IF same THEN Replaced(pg, answer.ws, First(answer.ws.doc))
              ELSE [pg EXCEPT !.baseline = [doc |-> answer.ws.doc, active |-> answer.ws.active]]
  IN  CASE answer.id # t.page.extraction.id \/ ~Running(t.page.extraction) -> t
        [] OTHER -> With(t, IF ~answer.ok THEN ExtractFailed(pg)
                            ELSE IF answer.ws = None THEN pg ELSE Synced(kept))

(* apply_live_load_response *)
LoadAnswered(t, answer) ==
  LET pg == t.page
  IN  IF answer.id # pg.load.id THEN t
      ELSE With(t, IF answer.ok
                   THEN [InstalledLive(pg, answer.ws) EXCEPT
                           !.load.phase = "ready", !.guard = None, !.guardSave = None]
                   ELSE LoadFailed(pg))

(* apply_live_mutation_response *)
MutationAnswered(t, answer) ==
  LET pg     == t.page
      done   == [InstalledLive(pg, answer.ws) EXCEPT !.mutation.phase = "ready"]
      chosen == IF pg.kind \in Profiles /\ pg.kind \in done.draft
                THEN SelectedNow(done, pg.kind) ELSE done
      next   == IF pg.guardSave = "live"
                THEN TargetApplied([chosen EXCEPT !.guard = None, !.guardSave = None], pg.guard)
                ELSE chosen
  IN  IF answer.id # pg.mutation.id THEN t
      ELSE IF answer.ok THEN TransitionCompleted(With(t, next))
      ELSE With(t, MutationFailed(pg))

ReduceStore ==
  /\ lanes["store"].answers # <<>>
  /\ LET answer == Head(lanes["store"].answers)
     IN Becomes(IF answer.kind = "save" THEN SaveAnswered(Popped("store"), answer)
                ELSE ExtractAnswered(Popped("store"), answer))
  /\ UNCHANGED <<stored, calls, edits, foreign>>

ReduceActivation ==
  /\ lanes["activation"].answers # <<>>
  /\ LET answer == Head(lanes["activation"].answers)
     IN Becomes(IF answer.kind = "load" THEN LoadAnswered(Popped("activation"), answer)
                ELSE MutationAnswered(Popped("activation"), answer))
  /\ UNCHANGED <<stored, calls, edits, foreign>>

(* Mutant: the token's request id is not compared. *)
AcceptedByProfile(pg, token) ==
  /\ token.profile = pg.test.profile /\ token.gen = pg.test.gen
  /\ pg.selected = token.profile /\ pg.gen = token.gen

(* apply_network_response *)
Accepted(pg, token) ==
  /\ token.id = pg.test.id /\ token.profile = pg.test.profile /\ token.gen = pg.test.gen
  /\ pg.selected = token.profile /\ pg.gen = token.gen

ReduceTest ==
  /\ lanes["test"].answers # <<>>
  /\ LET token == Head(lanes["test"].answers)
         t     == Popped("test")
     IN IF Accepted(page, token)
        THEN Becomes(With(t, [page EXCEPT !.test.phase = "ready", !.test.about = token.doc]))
        ELSE Becomes(t)
  /\ UNCHANGED <<stored, calls, edits, foreign>>

(* Mutant: the answer replaces a dirty draft too. *)
SideTakenDirty(pg) == TRUE

(* reject_context_success_when_provider_is_dirty, and the import's check. *)
SideTaken(pg) == ~Dirty(pg)

(* Answers of the context page and of imports; after an import the live     *)
(* workspace is loaded again.                                               *)
ReduceSide ==
  /\ lanes["side"].answers # <<>>
  /\ LET answer == Head(lanes["side"].answers)
         t      == Popped("side")
         next   == With(t, Installed(page, answer.ws))
     IN Becomes(IF ~SideTaken(page) THEN t
                ELSE IF answer.kind = "import" THEN LoadProviders(next) ELSE next)
  /\ UNCHANGED <<stored, calls, edits, foreign>>

(* The worker is found gone: what it was asked for has failed, unless a     *)
(* failed send told the page before.                                        *)
ReduceStopped(lane) ==
  /\ lane \in {"store", "activation"} /\ ~lanes[lane].up /\ lanes[lane].answers = <<>>
  /\ lane \notin page.told
  /\ LET kinds == IF lane = "store" THEN <<"save", "extract">> ELSE <<"load", "mutate">>
         op(pg, kind) == CASE kind = "save" -> pg.save [] kind = "extract" -> pg.extraction
                           [] kind = "load" -> pg.load [] kind = "mutate" -> pg.mutation
         fail(pg, kind) == IF Running(op(pg, kind)) THEN Failed(pg, kind) ELSE pg
     IN page' = fail(fail([page EXCEPT !.told = @ \cup {lane}], kinds[1]), kinds[2])
  /\ UNCHANGED <<stored, lanes, calls, edits, foreign>>

Worker == (\E lane \in {"store", "activation"} : Serve(lane) \/ Die(lane))
          \/ ServeTest \/ ServeSide
Reduce == \/ ReduceStore \/ ReduceActivation \/ ReduceTest \/ ReduceSide
          \/ \E lane \in {"store", "activation"} : ReduceStopped(lane)

Next == User \/ Worker \/ Foreign \/ Reduce

(* Workers run while they live, and the window reduces what they answered;  *)
(* nobody has to click.                                                     *)
Fairness ==
  /\ WF_vars(Serve("store") \/ ReduceStore \/ ReduceStopped("store"))
  /\ WF_vars(Serve("activation") \/ ReduceActivation \/ ReduceStopped("activation"))

Spec == Init /\ [][Next]_vars /\ Fairness

-----------------------------------------------------------------------------
(* Properties. *)

Operation(phases) == [phase : phases, id : Nat]
Phases == {"idle", "running", "ready", "error"}

(* The page holds documents of known contents, a draft only over a          *)
(* baseline, a live workspace only with it, and phases it knows.            *)
TypeOK ==
  /\ page.draft \subseteq Profiles \cup Marks
  /\ page.baseline = None => page.draft = {} /\ page.workspace = None
  /\ page.baseline # None => page.baseline.doc \subseteq Profiles \cup Marks
  /\ page.save \in Operation(Phases) /\ page.extraction \in Operation(Phases)
  /\ page.load \in Operation(Phases) /\ page.mutation \in Operation(Phases)
  /\ Running(page.extraction) <=> page.submitted # None
  /\ stored.active \in stored.doc

(* Something that runs on the page may replace the draft when it ends. *)
Quiet(pg) == ~Running(pg.save) /\ ~Running(pg.extraction) /\ ~Running(pg.load)
             /\ ~Running(pg.mutation)

ReducesOther == \E l \in Lanes :
  /\ Len(lanes'[l].answers) < Len(lanes[l].answers)
  /\ l = "store" => Head(lanes[l].answers).kind = "extract"

(* While no operation of the page runs, no answer that comes in late changes *)
(* a draft with unsaved edits: not one of a forgotten load, mutation, test   *)
(* or extraction, nor of another page.  A save's answer is excepted, since   *)
(* discard_draft lets a later save have the number of an earlier one.        *)
EditsAreSafeWhenIdle ==
  [][ReducesOther /\ Quiet(page) /\ Dirty(page) => page'.draft = page.draft]_vars

(* What another program or another page stored is never removed again by a  *)
(* save or an extraction made from an older document: the revision makes it *)
(* fail, whatever answers the page has mixed up.                            *)
NothingForeignIsLost == []["ext" \in stored.doc => "ext" \in stored'.doc]_vars

(* With nothing in flight the page's baseline is the stored document, but   *)
(* for foreign changes it has not loaded yet.                               *)
ShownIsStored ==
  (/\ \A l \in Lanes : lanes[l].up /\ lanes[l].requests = <<>> /\ lanes[l].answers = <<>>
   /\ page.baseline # None)
  => page.baseline.doc \ {"ext"} = stored.doc \ {"ext"}

(* The result of a connection test the page shows is about the selected     *)
(* profile as it is drafted now, not as it was when the test started.       *)
ShownTestIsOfDraft == page.test.phase = "ready" => page.test.about = page.draft

Inv == TypeOK /\ ShownTestIsOfDraft

(* A save, an extraction and a mutation end, also when their worker dies;   *)
(* so does a load, unless a failed send had reported the death before.      *)
OperationsEnd ==
  /\ Running(page.save) ~> ~Running(page.save)
  /\ Running(page.extraction) ~> ~Running(page.extraction)
  /\ Running(page.mutation) ~> ~Running(page.mutation)
  /\ Running(page.load) ~> (~Running(page.load) \/ "activation" \in page.told)


(* Why they hold.  What the page and the queues may hold. *)
Kinds == Profiles \cup {"reapply", "backfill", "clear", "file"}

PageTyped(pg) ==
  /\ DOMAIN pg = DOMAIN NewPage
  /\ pg.draft \in Documents /\ pg.baseline \in Maybe(Views) /\ pg.workspace \in Maybe(Workspaces)
  /\ pg.baseline = None => pg.draft = {} /\ pg.workspace = None
  /\ pg.selected \in Maybe(Profiles) /\ pg.gen \in Nat
  /\ pg.save \in Operation(Phases) /\ pg.extraction \in Operation(Phases)
  /\ pg.load \in Operation(Phases) /\ pg.mutation \in Operation(Phases)
  /\ pg.submitted \in Maybe(Documents) /\ (Running(pg.extraction) <=> pg.submitted # None)
  /\ pg.nextId \in Nat /\ pg.load.id <= pg.nextId /\ pg.mutation.id <= pg.nextId
  /\ pg.confirmation \in Maybe(Kinds) /\ (pg.confirmation # None => pg.workspace # None)
  /\ pg.test \in [phase : Phases, id : Nat, profile : Maybe(Profiles \cup Marks), gen : Nat,
                  about : Maybe(Documents)]

Answers(kinds) ==
  {a \in [kind : kinds, id : Nat, ok : BOOLEAN, ws : Maybe(Workspaces)] :
     a.ok /\ a.kind # "extract" => a.ws \in Workspaces}
TestTokens == [kind : {"test"}, id : Nat, profile : Profiles \cup Marks, gen : Nat, doc : Documents]
RequestsOf(lane) ==
  CASE lane = "store"      -> [kind : {"save", "extract"}, id : Nat, base : Documents, doc : Documents]
    [] lane = "activation" -> [kind : {"load"}, id : Nat] \cup
                              [kind : {"mutate"}, id : Nat, what : Kinds, doc : Documents, files : Files]
    [] lane = "test"       -> TestTokens
    [] lane = "side"       -> [kind : {"import", "context"}]
AnswersOf(lane) ==
  CASE lane = "store"      -> Answers({"save", "extract"})
    [] lane = "activation" -> Answers({"load", "mutate"})
    [] lane = "test"       -> TestTokens
    [] lane = "side"       -> [kind : {"import", "context"}, ws : Workspaces]
LaneTyped(lane, l) ==
  /\ lane \in [requests : Seq(RequestsOf(l)), answers : Seq(AnswersOf(l)), up : BOOLEAN]
  /\ ~lane.up => lane.requests = <<>> /\ l \in Mortal

(* Loads and mutations are answered in the order of their numbers, each at  *)
(* most once, and one that is still to be answered is known to run.         *)
Expected(pg, m) ==
  /\ m.id <= pg.nextId
  /\ m.kind = "load" /\ m.id = pg.load.id => Running(pg.load)
  /\ m.kind = "mutate" /\ m.id = pg.mutation.id => Running(pg.mutation)
Ascending(s) == \A i, j \in DOMAIN s : i < j => s[i].id < s[j].id
Numbered(pg, lane) ==
  /\ Ascending(lane.requests) /\ Ascending(lane.answers)
  /\ \A i \in DOMAIN lane.answers, j \in DOMAIN lane.requests :
       lane.answers[i].id < lane.requests[j].id
  /\ \A i \in DOMAIN lane.requests : Expected(pg, lane.requests[i])
  /\ \A i \in DOMAIN lane.answers : Expected(pg, lane.answers[i])

(* A test that has still a profile to be about is of the draft there is.    *)
OfDraft(pg, token) ==
  /\ token.id <= pg.test.id
  /\ token.id = pg.test.id /\ pg.test.profile # None => token.doc = pg.draft
TestsKnown(pg, lane) ==
  /\ \A i \in DOMAIN lane.requests : OfDraft(pg, lane.requests[i])
  /\ \A i \in DOMAIN lane.answers : OfDraft(pg, lane.answers[i])
  /\ pg.test.phase = "ready" => pg.test.about = pg.draft

(* Without extractions a draft has what its baseline has of others.         *)
ForeignKept(pg, lane) ==
  "extract" \notin Uses =>
    /\ ~Running(pg.extraction)
    /\ pg.baseline # None /\ "ext" \in pg.baseline.doc => "ext" \in pg.draft
    /\ \A i \in DOMAIN lane.requests :
         "ext" \in lane.requests[i].base => "ext" \in lane.requests[i].doc

TurnInv(pg, ls) ==
  /\ PageTyped(pg) /\ DOMAIN ls = Lanes /\ \A l \in Lanes : LaneTyped(ls[l], l)
  /\ Numbered(pg, ls["activation"]) /\ TestsKnown(pg, ls["test"])
  /\ ForeignKept(pg, ls["store"])

PageInv == TurnInv(page, lanes) /\ stored \in Workspaces /\ edits \in Nat

=============================================================================
