------------------------- MODULE ProviderPageProofs -------------------------
(***************************************************************************)
(* Proofs about the provider page.  The handlers are functions of a turn     *)
(* (the page and the lanes), so the proofs are about turns: what a helper    *)
(* does to a page (Moved), what a request or a phase does to a turn, and     *)
(* then one lemma per action.                                                *)
(***************************************************************************)
EXTENDS ProviderPage, SequenceTheorems, WellFoundedInduction, TLAPS

-----------------------------------------------------------------------------
(* Numbers and names. *)

LEMMA Least ==
  ASSUME NEW T, T \subseteq Nat, T # {}
  PROVE  \E x \in T : \A y \in T : x <= y
<1> DEFINE R == OpToRel(<, Nat)
<1>1. IsWellFoundedOn(R, Nat)
  BY NatLessThanWellFounded
<1>2. \A x \in Nat, y \in Nat : x < y => <<x, y>> \in R
  BY DEF OpToRel
<1> HIDE DEF R
<1>3. PICK x \in T : \A y \in T : ~(<<y, x>> \in R)
  BY <1>1, WFMin
<1>4. ASSUME NEW y \in T PROVE x <= y
  <2>1. x \in Nat /\ y \in Nat /\ ~(y < x)
    BY <1>2, <1>3
  <2> QED BY <2>1
<1> QED BY <1>4

LEMMA OrderKnown ==
  /\ Len(Order) \in Nat \ {0} /\ DOMAIN Order = 1..Len(Order)
  /\ \A i \in DOMAIN Order : Order[i] \in Profiles
  /\ \A p \in Profiles : \E i \in DOMAIN Order : Order[i] = p
BY NamesAssumption, EmptySeq, LenProperties DEF Profiles

LEMMA FirstKnown ==
  ASSUME NEW doc, \E p \in Profiles : p \in doc
  PROVE  First(doc) \in Profiles /\ First(doc) \in doc
<1> DEFINE T == {i \in DOMAIN Order : Order[i] \in doc}
           P(i) == Order[i] \in doc /\ \A j \in 1..(i - 1) : Order[j] \notin doc
<1>1. T \subseteq Nat /\ T # {}
  BY OrderKnown
<1>2. PICK i \in T : \A j \in T : i <= j
  <2> HIDE DEF T
  <2> QED BY <1>1, Least
<1>3. \A j \in 1..(i - 1) : j \in DOMAIN Order /\ ~(i <= j)
  BY <1>1, OrderKnown
<1>4. P(i) /\ i \in DOMAIN Order
  BY <1>2, <1>3
<1> HIDE DEF P
<1>5. DEFINE k == CHOOSE j \in DOMAIN Order : P(j)
<1>6. k \in DOMAIN Order /\ P(k)
  BY <1>4
<1>7. First(doc) = Order[k]
  BY DEF First, P
<1> QED BY <1>6, <1>7, OrderKnown DEF P

(* The neighbour of a profile, in a list that has one. *)
LEMMA NeighbourKnown ==
  ASSUME NEW doc, \E q \in Profiles : q \in doc, NEW p \in Profiles
  PROVE  Neighbour(doc, p) \in Profiles
<1> DEFINE at == CHOOSE i \in DOMAIN Order : Order[i] = p
           T == {i \in DOMAIN Order : Order[i] \in doc}
           after == {i \in DOMAIN Order : i > at /\ Order[i] \in doc}
           last(i) == Order[i] \in doc /\ \A j \in DOMAIN Order : Order[j] \in doc => j <= i
           m == CHOOSE i \in DOMAIN Order : last(i)
           n == CHOOSE i \in after : \A j \in after : i <= j
<1>1. Neighbour(doc, p) = IF after = {} THEN Order[m] ELSE Order[n]
  BY DEF Neighbour
<1>2. after # {} => n \in DOMAIN Order
  <2>1. after \subseteq Nat /\ after \subseteq DOMAIN Order
    <3>1. 1..Len(Order) \subseteq Nat /\ DOMAIN Order = 1..Len(Order)
      BY OrderKnown
    <3>2. after \subseteq DOMAIN Order
      OBVIOUS
    <3> HIDE DEF after
    <3> QED BY <3>1, <3>2
  <2> HIDE DEF after
  <2>2. after # {} => n \in after
    BY <2>1, Least
  <2> QED BY <2>1, <2>2
<1>3. m \in DOMAIN Order
  <2> DEFINE D == {Len(Order) - i : i \in T}
  <2>1. T # {} /\ \A i \in T : i \in Nat /\ Len(Order) - i \in Nat
    <3>1. PICK q \in Profiles : q \in doc
      OBVIOUS
    <3>2. T # {}
      BY <3>1, OrderKnown
    <3>3. \A i \in 1..Len(Order) : i \in Nat /\ Len(Order) - i \in Nat
      BY OrderKnown
    <3> QED BY <3>2, <3>3, OrderKnown
  <2>2. D \subseteq Nat /\ D # {}
    BY <2>1
  <2>3. PICK d \in D : \A e \in D : d <= e
    <3> HIDE DEF D
    <3> QED BY <2>2, Least
  <2>4. PICK i \in T : d = Len(Order) - i
    BY <2>3
  <2>5. \A j \in T : Len(Order) - i <= Len(Order) - j
    BY <2>3, <2>4
  <2>6. ASSUME NEW j \in T PROVE j <= i
    <3>1. i \in Nat /\ j \in Nat /\ Len(Order) \in Nat /\ Len(Order) - i <= Len(Order) - j
      BY <2>1, <2>5, OrderKnown
    <3> QED BY <3>1
  <2>7. i \in DOMAIN Order /\ last(i)
    BY <2>4, <2>6
  <2> HIDE DEF last
  <2> QED BY <2>7
<1> HIDE DEF after, m, n
<1> QED BY <1>1, <1>2, <1>3, OrderKnown

(* What stays of a page when some of its fields are assigned. *)
LEMMA ResultsGone ==
  ASSUME NEW pg, PageTyped(pg)
  PROVE  LET q == WithoutResults(pg) IN
         /\ PageTyped(q)
         /\ q.draft = pg.draft /\ q.baseline = pg.baseline /\ q.load = pg.load /\ q.mutation = pg.mutation
         /\ q.extraction = pg.extraction /\ q.nextId = pg.nextId /\ q.submitted = pg.submitted
         /\ q.test.id = pg.test.id /\ q.test.profile = None /\ q.test.phase = "idle"
BY DEF PageTyped, WithoutResults, NewPage, Maybe, Phases

(* Without extractions, the draft has what its baseline has of others. *)
DraftKeeps(pg) ==
  "extract" \notin Uses =>
    /\ ~Running(pg.extraction)
    /\ pg.baseline # None /\ "ext" \in pg.baseline.doc => "ext" \in pg.draft

(* What a change of the page keeps: what is running in the activation lane,  *)
(* and the draft with its test, or no test.                                  *)
Moved(pg, q) ==
  /\ PageTyped(q) /\ (DraftKeeps(pg) => DraftKeeps(q))
  /\ q.nextId = pg.nextId /\ q.load = pg.load /\ q.mutation = pg.mutation
  /\ \/ q.draft = pg.draft /\ q.test = pg.test
     \/ q.test.id = pg.test.id /\ q.test.profile = None /\ q.test.phase = "idle"

LEMMA MovedTwice ==
  ASSUME NEW pg, NEW q, NEW r, Moved(pg, q), Moved(q, r)
  PROVE  Moved(pg, r)
BY DEF Moved

LEMMA Edited ==
  ASSUME NEW pg, PageTyped(pg)
  PROVE  LET q == MarkEdited(pg) IN
         /\ Moved(pg, q)
         /\ q.draft = pg.draft /\ q.baseline = pg.baseline
         /\ q.extraction = pg.extraction /\ q.submitted = pg.submitted
         /\ q.test.id = pg.test.id /\ q.test.profile = None /\ q.test.phase = "idle"
<1> DEFINE q == MarkEdited(pg)
           T == [phase : Phases, id : Nat, profile : Maybe(Profiles \cup Marks), gen : Nat,
                 about : Maybe(Documents)]
<1>1. /\ DOMAIN q = DOMAIN NewPage
      /\ q.gen = pg.gen + 1
      /\ q.test = [pg.test EXCEPT !.phase = "idle", !.profile = None, !.about = None]
      /\ \A f \in DOMAIN NewPage \ {"gen", "test"} : q[f] = pg[f]
  BY DEF PageTyped, MarkEdited, NewPage
<1>2. pg.test \in T /\ pg.gen \in Nat
  BY DEF PageTyped
<1>3. q.test \in T /\ q.test.id = pg.test.id /\ q.test.profile = None /\ q.test.phase = "idle"
  BY <1>1, <1>2 DEF Phases, Maybe
<1> HIDE DEF q
<1>4. PageTyped(q)
  BY <1>1, <1>2, <1>3 DEF PageTyped, NewPage
<1> QED BY <1>1, <1>3, <1>4 DEF Moved, DraftKeeps, NewPage, q

(* The active profile of a workspace is one of its profiles. *)
LEMMA ReplacedMoves ==
  ASSUME NEW pg, PageTyped(pg), NEW ws \in Workspaces, NEW p \in Profiles
  PROVE  LET q == Replaced(pg, ws, p) IN
         /\ Moved(pg, q)
         /\ q.draft = ws.doc /\ q.baseline.doc = ws.doc
         /\ q.extraction = pg.extraction /\ q.submitted = pg.submitted /\ q.save = pg.save
         /\ q.test.id = pg.test.id /\ q.test.profile = None /\ q.test.phase = "idle"
<1> DEFINE m == [pg EXCEPT !.draft = ws.doc, !.gen = 0,
                           !.baseline = [doc |-> ws.doc, active |-> ws.active],
                           !.selected = IF @ \in ws.doc THEN @ ELSE p]
<1>1. [doc |-> ws.doc, active |-> ws.active] \in Views
  BY DEF Workspaces, Views
<1>2. /\ PageTyped(m) /\ m.draft = ws.doc /\ m.baseline = [doc |-> ws.doc, active |-> ws.active]
      /\ m.load = pg.load /\ m.mutation = pg.mutation /\ m.nextId = pg.nextId
      /\ m.extraction = pg.extraction /\ m.submitted = pg.submitted /\ m.test = pg.test
      /\ m.save = pg.save
  BY <1>1, NamesAssumption DEF PageTyped, NewPage, Maybe, Workspaces
<1> HIDE DEF m
<1>3. Replaced(pg, ws, p) = WithoutResults(m)
  BY DEF Replaced, m
<1>4. WithoutResults(m).save = m.save
  BY <1>2 DEF WithoutResults, PageTyped, NewPage
<1> QED BY <1>2, <1>3, <1>4, ResultsGone DEF Moved, DraftKeeps

LEMMA ExtractionClears ==
  ASSUME NEW pg, PageTyped(pg)
  PROVE  LET q == ExtractionCleared(pg) IN
         /\ Moved(pg, q) /\ q.draft = pg.draft /\ q.baseline = pg.baseline /\ q.test = pg.test
         /\ Running(q.extraction) <=> Running(pg.extraction)
<1>1. CASE Running(pg.extraction)
  BY <1>1 DEF ExtractionCleared, Moved, DraftKeeps
<1>2. CASE ~Running(pg.extraction)
  <2>1. PageTyped(ExtractionCleared(pg))
    BY <1>2 DEF ExtractionCleared, PageTyped, NewPage, Maybe, Phases, Running, Operation
  <2> QED BY <1>2, <2>1 DEF ExtractionCleared, Moved, DraftKeeps, PageTyped, NewPage, Running, Operation
<1> QED BY <1>1, <1>2

(* The document of a workspace another page received. *)
LEMMA InstalledMoves ==
  ASSUME NEW pg, PageTyped(pg), NEW ws \in Workspaces
  PROVE  LET q == Installed(pg, ws) IN
         /\ Moved(pg, q) /\ q.draft = ws.doc /\ q.baseline.doc = ws.doc
         /\ Running(q.extraction) <=> Running(pg.extraction)
         /\ q.test.id = pg.test.id /\ q.test.profile = None /\ q.test.phase = "idle"
<1> DEFINE r == Replaced(pg, ws, ws.active)
           m == [r EXCEPT !.guard = None, !.guardSave = None]
<1>1. ws.active \in Profiles
  BY DEF Workspaces
<1>2. /\ Moved(pg, r) /\ r.draft = ws.doc /\ r.baseline.doc = ws.doc
      /\ r.extraction = pg.extraction
      /\ r.test.id = pg.test.id /\ r.test.profile = None /\ r.test.phase = "idle"
  BY <1>1, ReplacedMoves
<1> HIDE DEF r
<1>3. /\ PageTyped(m) /\ m.draft = r.draft /\ m.baseline = r.baseline
      /\ m.extraction = r.extraction /\ m.test = r.test
      /\ m.nextId = r.nextId /\ m.load = r.load /\ m.mutation = r.mutation
  BY <1>2 DEF Moved, PageTyped, NewPage
<1> HIDE DEF m
<1>4. Installed(pg, ws) = ExtractionCleared(m)
  BY DEF Installed, m, r
<1> QED BY <1>2, <1>3, <1>4, ExtractionClears DEF Moved, DraftKeeps

(* Fields that say nothing about drafts, operations or answers. *)
Outer == {"route", "kind", "liveEdited", "guard", "guardSave", "deleteAsked",
          "pendingRoute", "pendingReload", "told"}

(* q differs from pg in such fields only, or in those of S. *)
But(pg, q, S) ==
  DOMAIN q = DOMAIN pg /\ \A f \in DOMAIN NewPage \ (Outer \cup S) : q[f] = pg[f]

LEMMA Unnoticed ==
  ASSUME NEW pg, PageTyped(pg), NEW q, But(pg, q, {"confirmation", "selected"}),
         q.confirmation \in Maybe(Kinds), q.selected \in Maybe(Profiles),
         q.confirmation # None => pg.workspace # None
  PROVE  Moved(pg, q) /\ q.draft = pg.draft /\ q.baseline = pg.baseline /\ q.test = pg.test
         /\ q.extraction = pg.extraction /\ q.workspace = pg.workspace /\ q.save = pg.save
         /\ q.submitted = pg.submitted
<1>1. \A f \in DOMAIN NewPage \ (Outer \cup {"confirmation", "selected"}) : q[f] = pg[f]
  BY DEF But
<1>2. /\ q.draft = pg.draft /\ q.baseline = pg.baseline /\ q.test = pg.test
      /\ q.extraction = pg.extraction /\ q.workspace = pg.workspace /\ q.save = pg.save
      /\ q.submitted = pg.submitted /\ q.load = pg.load /\ q.mutation = pg.mutation
      /\ q.nextId = pg.nextId /\ q.gen = pg.gen
  BY <1>1 DEF NewPage, Outer
<1>3. PageTyped(q)
  BY <1>2 DEF PageTyped, But
<1> QED BY <1>2, <1>3 DEF Moved, DraftKeeps

(* install_live_workspace *)
LEMMA LiveInstalled ==
  ASSUME NEW pg, PageTyped(pg), NEW ws \in Workspaces
  PROVE  LET q == InstalledLive(pg, ws) IN
         /\ Moved(pg, q) /\ q.draft = ws.doc /\ q.baseline.doc = ws.doc /\ q.extraction = pg.extraction
         /\ q.test.id = pg.test.id /\ q.test.profile = None /\ q.test.phase = "idle"
<1> DEFINE r == Replaced(pg, ws, ws.active)
<1>1. ws.active \in Profiles
  BY DEF Workspaces
<1>2. /\ Moved(pg, r) /\ r.draft = ws.doc /\ r.baseline.doc = ws.doc
      /\ r.extraction = pg.extraction
      /\ r.test.id = pg.test.id /\ r.test.profile = None /\ r.test.phase = "idle"
  BY <1>1, ReplacedMoves
<1> HIDE DEF r
<1>3. r.baseline # None
  BY <1>2, NamesAssumption DEF Moved, PageTyped, Maybe, Views, Workspaces, Documents
<1> DEFINE m == [r EXCEPT !.workspace = ws, !.liveEdited = FALSE]
<1>4. /\ DOMAIN m = DOMAIN NewPage /\ m.workspace = ws
      /\ \A f \in DOMAIN NewPage \ {"workspace", "liveEdited"} : m[f] = r[f]
  BY <1>2 DEF Moved, PageTyped, NewPage
<1>5. InstalledLive(pg, ws) = m
  BY DEF InstalledLive, r
<1> HIDE DEF m
<1>6. /\ m.draft = r.draft /\ m.baseline = r.baseline
      /\ m.extraction = r.extraction /\ m.test = r.test /\ m.save = r.save
      /\ m.nextId = r.nextId /\ m.load = r.load /\ m.mutation = r.mutation
      /\ m.gen = r.gen /\ m.selected = r.selected /\ m.confirmation = r.confirmation
      /\ m.submitted = r.submitted
  BY <1>4 DEF NewPage
<1>7. PageTyped(m)
  <2>1. PageTyped(r) /\ m.workspace \in Maybe(Workspaces) /\ m.workspace # None
    BY <1>2, <1>4, NamesAssumption DEF Moved, Maybe
  <2> QED BY <1>3, <1>4, <1>6, <2>1 DEF PageTyped
<1> QED BY <1>2, <1>5, <1>6, <1>7 DEF Moved, DraftKeeps

LEMMA SyncedMoves ==
  ASSUME NEW pg, PageTyped(pg)
  PROVE  LET q == Synced(pg) IN
         /\ Moved(pg, q) /\ q.draft = pg.draft /\ q.baseline = pg.baseline
         /\ q.extraction = pg.extraction /\ q.test = pg.test /\ q.save = pg.save
<1>1. CASE pg.workspace = None
  BY <1>1 DEF Synced, Moved
<1>2. CASE pg.workspace # None
  <2> DEFINE w == [doc |-> pg.baseline.doc, active |-> pg.baseline.active,
                   files |-> pg.workspace.files]
             m == [pg EXCEPT !.workspace = w]
  <2>1. Synced(pg) = m
    BY <1>2 DEF Synced
  <2>2. pg.workspace \in Workspaces /\ pg.baseline # None /\ pg.baseline \in Views
    BY <1>2 DEF PageTyped, Maybe
  <2>3. w \in Workspaces
    BY <2>2 DEF Workspaces, Views
  <2> HIDE DEF w
  <2>4. /\ DOMAIN m = DOMAIN NewPage /\ m.workspace = w
        /\ \A f \in DOMAIN NewPage \ {"workspace"} : m[f] = pg[f]
    BY DEF PageTyped, NewPage
  <2> HIDE DEF m
  <2>5. /\ m.draft = pg.draft /\ m.baseline = pg.baseline
        /\ m.extraction = pg.extraction /\ m.test = pg.test /\ m.save = pg.save
        /\ m.nextId = pg.nextId /\ m.load = pg.load /\ m.mutation = pg.mutation
    BY <2>4 DEF NewPage
  <2>6. PageTyped(m)
    BY <2>2, <2>3, <2>4, NamesAssumption DEF PageTyped, NewPage, Maybe
  <2> QED BY <2>1, <2>5, <2>6 DEF Moved, DraftKeeps
<1> QED BY <1>1, <1>2

LEMMA SelectionMoves ==
  ASSUME NEW pg, PageTyped(pg), NEW p \in Profiles
  PROVE  Moved(pg, SelectedNow(pg, p))
<1> DEFINE m == [pg EXCEPT !.selected = p]
<1>1. But(pg, m, {"confirmation", "selected"}) /\ m.selected = p /\ m.confirmation = pg.confirmation
  BY DEF But, PageTyped, NewPage
<1>2. pg.confirmation \in Maybe(Kinds) /\ p \in Maybe(Profiles)
  BY DEF PageTyped, Maybe
<1> HIDE DEF m
<1>3. Moved(pg, m)
  BY <1>1, <1>2, Unnoticed DEF PageTyped
<1>4. Moved(m, WithoutResults(m))
  BY <1>3, ResultsGone DEF Moved, DraftKeeps
<1> QED BY <1>3, <1>4, MovedTwice DEF SelectedNow, m

LEMMA TargetMoves ==
  ASSUME NEW pg, PageTyped(pg), NEW target
  PROVE  Moved(pg, TargetApplied(pg, target))
BY SelectionMoves DEF TargetApplied, Moved

(* Only what the invariant does not speak of. *)
LEMMA OuterMoves ==
  ASSUME NEW pg, PageTyped(pg), NEW q, But(pg, q, {})
  PROVE  Moved(pg, q) /\ q.draft = pg.draft /\ q.baseline = pg.baseline /\ q.test = pg.test
         /\ q.extraction = pg.extraction /\ q.workspace = pg.workspace /\ q.save = pg.save
         /\ q.submitted = pg.submitted
<1>1. q.confirmation = pg.confirmation /\ q.selected = pg.selected
  BY DEF But, NewPage, Outer
<1>2. But(pg, q, {"confirmation", "selected"})
  BY DEF But
<1> QED BY <1>1, <1>2, Unnoticed DEF PageTyped

LEMMA DiscardMoves ==
  ASSUME NEW pg, PageTyped(pg), pg.baseline # None
  PROVE  Moved(pg, Discarded(pg))
<1> DEFINE first == First(pg.baseline.doc)
           m == [pg EXCEPT !.draft = pg.baseline.doc, !.gen = 0, !.save = IdleOperation,
                           !.selected = IF @ \in pg.baseline.doc THEN @ ELSE first,
                           !.guard = None, !.guardSave = None]
           r == WithoutResults(m)
<1>1. pg.baseline \in Views
  BY DEF PageTyped, Maybe
<1>2. first \in Profiles
  BY <1>1, FirstKnown DEF Views
<1> HIDE DEF first
<1>3. /\ DOMAIN m = DOMAIN NewPage
      /\ m.draft = pg.baseline.doc /\ m.gen = 0 /\ m.save = IdleOperation
      /\ m.selected \in {pg.selected, first}
      /\ \A f \in DOMAIN NewPage \ (Outer \cup {"draft", "gen", "save", "selected"}) : m[f] = pg[f]
  BY DEF PageTyped, NewPage, Outer
<1> HIDE DEF m
<1>4. /\ m.baseline = pg.baseline /\ m.extraction = pg.extraction /\ m.test = pg.test
      /\ m.nextId = pg.nextId /\ m.load = pg.load /\ m.mutation = pg.mutation
      /\ m.workspace = pg.workspace /\ m.submitted = pg.submitted /\ m.confirmation = pg.confirmation
  BY <1>3 DEF NewPage, Outer
<1>5. PageTyped(m)
  BY <1>1, <1>2, <1>3, <1>4 DEF PageTyped, Views, Operation, IdleOperation, Phases, Maybe
<1>6. Moved(pg, r)
  BY <1>3, <1>4, <1>5, ResultsGone DEF Moved, DraftKeeps
<1> HIDE DEF r
<1>7. Discarded(pg) = ExtractionCleared(r)
  BY DEF Discarded, m, r, first
<1> QED BY <1>6, <1>7, ExtractionClears, MovedTwice DEF Moved

LEMMA LeftMoves ==
  ASSUME NEW pg, PageTyped(pg)
  PROVE  Moved(pg, Left(pg)) /\ Left(pg).baseline = pg.baseline
<1>1. But(pg, Left(pg), {"confirmation", "selected"}) /\ Left(pg).selected = pg.selected
      /\ Left(pg).confirmation = None
  BY DEF But, Left, PageTyped, NewPage, Outer
<1>2. None \in Maybe(Kinds) /\ pg.selected \in Maybe(Profiles)
  BY DEF PageTyped, Maybe
<1> QED BY <1>1, <1>2, Unnoticed

(* What an operation does when it begins or fails. *)
LEMMA SaveMoves ==
  ASSUME NEW pg, PageTyped(pg), NEW q, NEW o \in Operation(Phases), q.save = o,
         But(pg, q, {"save"})
  PROVE  Moved(pg, q) /\ q.draft = pg.draft /\ q.baseline = pg.baseline /\ q.extraction = pg.extraction
         /\ q.test = pg.test
<1>1. \A f \in DOMAIN NewPage \ (Outer \cup {"save"}) : q[f] = pg[f]
  BY DEF But
<1>2. /\ q.draft = pg.draft /\ q.baseline = pg.baseline /\ q.test = pg.test
      /\ q.extraction = pg.extraction /\ q.workspace = pg.workspace
      /\ q.submitted = pg.submitted /\ q.load = pg.load /\ q.mutation = pg.mutation
      /\ q.nextId = pg.nextId /\ q.gen = pg.gen /\ q.confirmation = pg.confirmation
      /\ q.selected = pg.selected
  BY <1>1 DEF NewPage, Outer
<1>3. PageTyped(q)
  BY <1>2 DEF PageTyped, But
<1> QED BY <1>2, <1>3 DEF Moved, DraftKeeps

LEMMA ExtractMoves ==
  ASSUME NEW pg, PageTyped(pg), NEW q, NEW o \in Operation(Phases), q.extraction = o,
         But(pg, q, {"extraction", "submitted"}), q.submitted \in Maybe(Documents),
         Running(o) <=> q.submitted # None, "extract" \notin Uses => ~Running(o)
  PROVE  Moved(pg, q) /\ q.draft = pg.draft /\ q.baseline = pg.baseline /\ q.test = pg.test
<1>1. \A f \in DOMAIN NewPage \ (Outer \cup {"extraction", "submitted"}) : q[f] = pg[f]
  BY DEF But
<1>2. /\ q.draft = pg.draft /\ q.baseline = pg.baseline /\ q.test = pg.test
      /\ q.save = pg.save /\ q.workspace = pg.workspace
      /\ q.load = pg.load /\ q.mutation = pg.mutation
      /\ q.nextId = pg.nextId /\ q.gen = pg.gen /\ q.confirmation = pg.confirmation
      /\ q.selected = pg.selected
  BY <1>1 DEF NewPage, Outer
<1>3. PageTyped(q)
  BY <1>2 DEF PageTyped, But
<1> QED BY <1>2, <1>3 DEF Moved, DraftKeeps

-----------------------------------------------------------------------------
(* Turns. *)

IsTurn(t) ==
  /\ DOMAIN t = {"page", "lanes"} /\ t = [page |-> t.page, lanes |-> t.lanes]
  /\ TurnInv(t.page, t.lanes)

LEMMA MovedKeeps ==
  ASSUME NEW pg, NEW ls, TurnInv(pg, ls), NEW q, Moved(pg, q)
  PROVE  TurnInv(q, ls)
<1>1. \A m : Expected(pg, m) => Expected(q, m)
  BY DEF Moved, Expected
<1>2. Numbered(q, ls["activation"])
  BY <1>1 DEF TurnInv, Numbered
<1>3. TestsKnown(q, ls["test"])
  BY DEF TurnInv, TestsKnown, OfDraft, Moved
<1>4. ForeignKept(q, ls["store"])
  BY DEF TurnInv, ForeignKept, Moved, DraftKeeps
<1> QED BY <1>2, <1>3, <1>4 DEF TurnInv, Moved

LEMMA WithMoved ==
  ASSUME NEW t, IsTurn(t), NEW q, Moved(t.page, q)
  PROVE  IsTurn(With(t, q)) /\ With(t, q).page = q /\ With(t, q).lanes = t.lanes
<1>1. TurnInv(q, t.lanes)
  BY MovedKeeps DEF IsTurn
<1>2. With(t, q) = [page |-> q, lanes |-> t.lanes]
  BY DEF With, IsTurn
<1> QED BY <1>1, <1>2 DEF IsTurn

LEMMA TurnPage ==
  ASSUME NEW t, IsTurn(t)
  PROVE  PageTyped(t.page) /\ (\A l \in Lanes : LaneTyped(t.lanes[l], l)) /\ DOMAIN t.lanes = Lanes
BY DEF IsTurn, TurnInv

(* A request that is put at the end of a queue. *)
Queued(t, l, request) == [t EXCEPT !.lanes[l].requests = Append(@, request)]

LEMMA QueuedTyped ==
  ASSUME NEW t, IsTurn(t), NEW l \in Lanes, t.lanes[l].up, NEW request \in RequestsOf(l)
  PROVE  LET q == Queued(t, l, request)
             n == Len(t.lanes[l].requests)
             s == q.lanes[l].requests IN
         /\ q = [page |-> t.page, lanes |-> q.lanes]
         /\ DOMAIN q.lanes = Lanes /\ (\A k \in Lanes \ {l} : q.lanes[k] = t.lanes[k])
         /\ \A k \in Lanes : LaneTyped(q.lanes[k], k)
         /\ q.lanes[l].answers = t.lanes[l].answers
         /\ n \in Nat /\ DOMAIN s = 1..(n + 1) /\ DOMAIN t.lanes[l].requests = 1..n
         /\ s[n + 1] = request /\ \A i \in 1..n : s[i] = t.lanes[l].requests[i]
<1> DEFINE r == t.lanes[l].requests
           n == Len(r)
           s == Append(r, request)
           L == [t.lanes EXCEPT ![l].requests = s]
<1>1. /\ DOMAIN t = {"page", "lanes"} /\ t = [page |-> t.page, lanes |-> t.lanes]
      /\ DOMAIN t.lanes = Lanes /\ \A k \in Lanes : LaneTyped(t.lanes[k], k)
  BY TurnPage DEF IsTurn
<1>2. t.lanes[l] \in [requests : Seq(RequestsOf(l)), answers : Seq(AnswersOf(l)), up : BOOLEAN]
      /\ r \in Seq(RequestsOf(l))
  BY <1>1 DEF LaneTyped
<1>3. /\ s \in Seq(RequestsOf(l)) /\ Len(s) = n + 1
      /\ s[n + 1] = request /\ \A i \in 1..n : s[i] = r[i]
  BY <1>2, AppendProperties
<1>4. n \in Nat /\ DOMAIN s = 1..(n + 1) /\ DOMAIN r = 1..n
  BY <1>2, <1>3, LenProperties
<1>5. Queued(t, l, request) = [page |-> t.page, lanes |-> L]
  <2>1. Queued(t, l, request) = [t EXCEPT !.lanes = L]
    BY DEF Queued
  <2> HIDE DEF L
  <2> QED BY <1>1, <2>1
<1> HIDE DEF s
<1>6. /\ DOMAIN L = Lanes /\ (\A k \in Lanes \ {l} : L[k] = t.lanes[k])
      /\ L[l] = [t.lanes[l] EXCEPT !.requests = s]
  BY <1>1
<1>7. LaneTyped(L[l], l) /\ L[l].requests = s /\ L[l].answers = t.lanes[l].answers
  BY <1>2, <1>3, <1>6 DEF LaneTyped
<1> HIDE DEF r, n, L
<1>8. \A k \in Lanes : LaneTyped(L[k], k)
  BY <1>1, <1>6, <1>7
<1> DEFINE q == Queued(t, l, request)
<1>9. q.page = t.page /\ q.lanes = L /\ q = [page |-> t.page, lanes |-> q.lanes]
  BY <1>5
<1> HIDE DEF q
<1>10. /\ q.lanes[l].requests = s /\ q.lanes[l].answers = t.lanes[l].answers
       /\ \A k \in Lanes \ {l} : q.lanes[k] = t.lanes[k]
  BY <1>6, <1>7, <1>9
<1> QED BY <1>3, <1>4, <1>6, <1>8, <1>9, <1>10 DEF r, n, q

(* Every number in the activation lane is smaller than n. *)
Below(lane, n) ==
  /\ \A i \in DOMAIN lane.requests : lane.requests[i].id < n
  /\ \A i \in DOMAIN lane.answers : lane.answers[i].id < n

(* None of them is n. *)
Without(lane, n) ==
  /\ \A i \in DOMAIN lane.requests : lane.requests[i].id # n
  /\ \A i \in DOMAIN lane.answers : lane.answers[i].id # n

(* A load or a mutation ends that no message of its lane is about. *)
LEMMA Ended ==
  ASSUME NEW t, IsTurn(t), NEW q, But(t.page, q, {"load", "mutation"}), NEW n,
         NEW phase \in Phases \ {"running"},
         \/ /\ n = t.page.load.id /\ q.load = [t.page.load EXCEPT !.phase = phase]
            /\ q.mutation = t.page.mutation
         \/ /\ n = t.page.mutation.id /\ q.mutation = [t.page.mutation EXCEPT !.phase = phase]
            /\ q.load = t.page.load,
         Without(t.lanes["activation"], n)
  PROVE  IsTurn(With(t, q)) /\ With(t, q).page = q /\ With(t, q).lanes = t.lanes
<1> DEFINE pg == t.page
<1>1. PageTyped(pg)
  BY TurnPage
<1>2. /\ q.draft = pg.draft /\ q.baseline = pg.baseline /\ q.test = pg.test
      /\ q.extraction = pg.extraction /\ q.workspace = pg.workspace
      /\ q.submitted = pg.submitted /\ q.save = pg.save
      /\ q.nextId = pg.nextId /\ q.gen = pg.gen /\ q.confirmation = pg.confirmation
      /\ q.selected = pg.selected
  BY DEF But, NewPage, Outer
<1>3. /\ pg.load \in Operation(Phases) /\ pg.mutation \in Operation(Phases)
      /\ q.load \in Operation(Phases) /\ q.load.id = pg.load.id
      /\ q.mutation \in Operation(Phases) /\ q.mutation.id = pg.mutation.id
      /\ q.load # pg.load => n = pg.load.id /\ q.mutation = pg.mutation
      /\ q.mutation # pg.mutation => n = pg.mutation.id /\ q.load = pg.load
  BY <1>1 DEF PageTyped, Operation
<1>4. PageTyped(q)
  BY <1>1, <1>2, <1>3 DEF PageTyped, But
<1>5. \A m : Expected(pg, m) /\ m.id # n => Expected(q, m)
  BY <1>2, <1>3 DEF Expected
<1>6. Numbered(q, t.lanes["activation"])
  BY <1>5 DEF Numbered, Without, IsTurn, TurnInv
<1>7. TestsKnown(q, t.lanes["test"]) /\ ForeignKept(q, t.lanes["store"])
  BY <1>2 DEF IsTurn, TurnInv, TestsKnown, OfDraft, ForeignKept
<1>8. TurnInv(q, t.lanes)
  BY <1>4, <1>6, <1>7 DEF TurnInv, IsTurn
<1>9. With(t, q) = [page |-> q, lanes |-> t.lanes]
  BY DEF With, IsTurn
<1> QED BY <1>8, <1>9 DEF IsTurn

LEMMA LoadEnded ==
  ASSUME NEW t, IsTurn(t), NEW q, But(t.page, q, {"load", "mutation"}),
         NEW phase \in {"ready", "error"},
         q.load = [t.page.load EXCEPT !.phase = phase], q.mutation = t.page.mutation,
         Without(t.lanes["activation"], t.page.load.id)
  PROVE  IsTurn(With(t, q)) /\ With(t, q).page = q /\ With(t, q).lanes = t.lanes
<1>1. phase \in Phases \ {"running"}
  BY DEF Phases
<1> DEFINE n == t.page.load.id
<1>2. Without(t.lanes["activation"], n) /\ n = t.page.load.id
  OBVIOUS
<1> HIDE DEF n
<1> QED BY <1>1, <1>2, Ended

LEMMA MutationEnded ==
  ASSUME NEW t, IsTurn(t), NEW q, But(t.page, q, {"load", "mutation"}),
         NEW phase \in {"ready", "error"},
         q.mutation = [t.page.mutation EXCEPT !.phase = phase], q.load = t.page.load,
         Without(t.lanes["activation"], t.page.mutation.id)
  PROVE  IsTurn(With(t, q)) /\ With(t, q).page = q /\ With(t, q).lanes = t.lanes
<1>1. phase \in Phases \ {"running"}
  BY DEF Phases
<1> DEFINE n == t.page.mutation.id
<1>2. Without(t.lanes["activation"], n) /\ n = t.page.mutation.id
  OBVIOUS
<1> HIDE DEF n
<1> QED BY <1>1, <1>2, Ended

(* What the page does when a request could not be sent. *)
LEMMA FailedActivation ==
  ASSUME NEW t, IsTurn(t), NEW kind \in {"load", "mutate"}, Below(t.lanes["activation"], t.page.nextId),
         kind = "load" => t.page.load.id = t.page.nextId,
         kind = "mutate" => t.page.mutation.id = t.page.nextId
  PROVE  IsTurn(With(t, [Failed(t.page, kind) EXCEPT !.told = @ \cup {"activation"}]))
<1> DEFINE pg == t.page
           q == [Failed(pg, kind) EXCEPT !.told = @ \cup {"activation"}]
<1>1. PageTyped(pg) /\ "error" \in Phases \ {"running"} /\ pg.nextId \in Nat
  BY TurnPage DEF Phases, PageTyped
<1>2. /\ But(pg, q, {"load", "mutation"})
      /\ kind = "load" => q.load = [pg.load EXCEPT !.phase = "error"] /\ q.mutation = pg.mutation
      /\ kind = "mutate" => q.mutation = [pg.mutation EXCEPT !.phase = "error"] /\ q.load = pg.load
  <2>1. CASE kind = "load"
    BY <1>1, <2>1 DEF Failed, LoadFailed, But, PageTyped, NewPage, Outer
  <2>2. CASE kind = "mutate"
    BY <1>1, <2>2 DEF Failed, MutationFailed, But, PageTyped, NewPage, Outer
  <2> QED BY <2>1, <2>2
<1> HIDE DEF q
<1>3. Without(t.lanes["activation"], pg.nextId)
  BY <1>1 DEF Below, Without
<1>4. IsTurn(With(t, q))
  BY <1>1, <1>2, <1>3, Ended
<1> QED BY <1>4 DEF q

LEMMA SentToActivation ==
  ASSUME NEW t, IsTurn(t), NEW request \in RequestsOf("activation"),
         Below(t.lanes["activation"], t.page.nextId),
         request.id = t.page.nextId, Expected(t.page, request),
         request.kind = "load" => t.page.load.id = t.page.nextId,
         request.kind = "mutate" => t.page.mutation.id = t.page.nextId
  PROVE  IsTurn(Sent(t, "activation", request))
<1> DEFINE l == "activation"
           q == Queued(t, l, request)
           s == q.lanes[l].requests
           n == Len(t.lanes[l].requests)
<1>0. l \in Lanes /\ request.kind \in {"load", "mutate"}
  BY DEF Lanes, RequestsOf
<1>1. CASE ~t.lanes[l].up
  <2>1. Sent(t, l, request)
          = With(t, [Failed(t.page, request.kind) EXCEPT !.told = @ \cup {"activation"}])
    BY <1>1 DEF Sent
  <2> QED BY <1>0, <2>1, FailedActivation
<1>2. CASE t.lanes[l].up
  <2>1. Sent(t, l, request) = q
    BY <1>2 DEF Sent, Queued
  <2>2. /\ q = [page |-> t.page, lanes |-> q.lanes]
        /\ DOMAIN q.lanes = Lanes /\ (\A k \in Lanes \ {l} : q.lanes[k] = t.lanes[k])
        /\ \A k \in Lanes : LaneTyped(q.lanes[k], k)
        /\ q.lanes[l].answers = t.lanes[l].answers
        /\ n \in Nat /\ DOMAIN s = 1..(n + 1) /\ DOMAIN t.lanes[l].requests = 1..n
        /\ s[n + 1] = request /\ \A i \in 1..n : s[i] = t.lanes[l].requests[i]
    BY <1>0, <1>2, QueuedTyped
  <2> HIDE DEF q, s, n
  <2>3. Numbered(t.page, t.lanes[l])
    BY DEF IsTurn, TurnInv
  <2>4. \A i \in DOMAIN s : i \in 1..n \/ i = n + 1
    BY <2>2
  <2>5. \A i \in 1..n : s[i].id < request.id /\ Expected(t.page, s[i])
    BY <2>2, <2>3 DEF Below, Numbered
  <2>6. Ascending(s)
    <3> SUFFICES ASSUME NEW i \in DOMAIN s, NEW j \in DOMAIN s, i < j PROVE s[i].id < s[j].id
      BY DEF Ascending
    <3>1. i \in 1..n /\ (j \in 1..n \/ j = n + 1)
      BY <2>2, <2>4
    <3>2. CASE j \in 1..n
      BY <2>2, <2>3, <3>1, <3>2 DEF Numbered, Ascending
    <3>3. CASE j = n + 1
      BY <2>2, <2>5, <3>1, <3>3
    <3> QED BY <3>1, <3>2, <3>3
  <2>7. /\ Ascending(t.lanes[l].answers)
        /\ \A i \in DOMAIN t.lanes[l].answers, j \in DOMAIN s : t.lanes[l].answers[i].id < s[j].id
        /\ \A i \in DOMAIN s : Expected(t.page, s[i])
        /\ \A i \in DOMAIN t.lanes[l].answers : Expected(t.page, t.lanes[l].answers[i])
    BY <2>2, <2>3, <2>4, <2>5 DEF Numbered, Below
  <2>8. q.lanes[l].requests = s
    BY DEF s
  <2>9. Numbered(t.page, q.lanes[l])
    BY <2>2, <2>6, <2>7, <2>8 DEF Numbered
  <2>10. q.lanes["test"] = t.lanes["test"] /\ q.lanes["store"] = t.lanes["store"]
    BY <2>2 DEF Lanes
  <2>11. TurnInv(t.page, q.lanes)
    BY <2>2, <2>9, <2>10 DEF IsTurn, TurnInv
  <2>12. q.page = t.page /\ DOMAIN q = {"page", "lanes"}
    BY <2>2
  <2> QED BY <2>1, <2>2, <2>11, <2>12 DEF IsTurn
<1> QED BY <1>1, <1>2

(* A load or a mutation begins, with a number of its own. *)
LEMMA Begins ==
  ASSUME NEW t, IsTurn(t), NEW q, But(t.page, q, {"nextId", "load", "mutation", "confirmation"}),
         q.nextId = t.page.nextId + 1, q.confirmation \in {None, t.page.confirmation},
         \/ q.load = [phase |-> "running", id |-> q.nextId] /\ q.mutation = t.page.mutation
         \/ q.load = t.page.load /\ q.mutation = [phase |-> "running", id |-> q.nextId]
  PROVE  LET u == With(t, q) IN
         /\ IsTurn(u) /\ u.page = q /\ u.lanes = t.lanes
         /\ Below(t.lanes["activation"], q.nextId)
<1> DEFINE pg == t.page
           id == q.nextId
           lane == t.lanes["activation"]
<1>1. PageTyped(pg)
  BY TurnPage
<1>2. pg.nextId \in Nat /\ id \in Nat /\ pg.nextId < id /\ pg.load.id <= id /\ pg.mutation.id <= id
  <2>1. /\ pg.nextId \in Nat /\ pg.load.id \in Nat /\ pg.mutation.id \in Nat
        /\ pg.load.id <= pg.nextId /\ pg.mutation.id <= pg.nextId
    BY <1>1 DEF PageTyped, Operation
  <2> QED BY <2>1
<1>3. /\ q.draft = pg.draft /\ q.baseline = pg.baseline /\ q.test = pg.test
      /\ q.extraction = pg.extraction /\ q.workspace = pg.workspace
      /\ q.submitted = pg.submitted /\ q.save = pg.save
      /\ q.gen = pg.gen /\ q.selected = pg.selected
  BY DEF But, NewPage, Outer
<1>4. /\ [phase |-> "running", id |-> id] \in Operation(Phases)
      /\ Running([phase |-> "running", id |-> id])
  BY <1>2 DEF Operation, Phases, Running
<1>5. PageTyped(q)
  BY <1>1, <1>2, <1>3, <1>4 DEF PageTyped, But, Maybe
<1>6. \A m : Expected(pg, m) /\ m.id \in Nat => Expected(q, m) /\ m.id < id
  BY <1>2, <1>4 DEF Expected
<1>7. /\ \A i \in DOMAIN lane.requests : lane.requests[i].id \in Nat
      /\ \A i \in DOMAIN lane.answers : lane.answers[i].id \in Nat
  <2>1. lane.requests \in Seq(RequestsOf("activation")) /\ lane.answers \in Seq(AnswersOf("activation"))
    BY TurnPage DEF LaneTyped, Lanes
  <2>2. \A r \in RequestsOf("activation") : r.id \in Nat
    BY DEF RequestsOf
  <2>3. \A a \in AnswersOf("activation") : a.id \in Nat
    BY DEF AnswersOf, Answers
  <2> QED BY <2>1, <2>2, <2>3
<1>8. Numbered(q, lane) /\ Below(lane, id)
  BY <1>6, <1>7 DEF Numbered, Below, IsTurn, TurnInv
<1>9. TestsKnown(q, t.lanes["test"]) /\ ForeignKept(q, t.lanes["store"])
  BY <1>3 DEF IsTurn, TurnInv, TestsKnown, OfDraft, ForeignKept
<1>10. TurnInv(q, t.lanes)
  BY <1>5, <1>8, <1>9 DEF TurnInv, IsTurn
<1>11. With(t, q) = [page |-> q, lanes |-> t.lanes]
  BY DEF With, IsTurn
<1> QED BY <1>8, <1>10, <1>11 DEF IsTurn

LEMMA LoadKeeps ==
  ASSUME NEW t, IsTurn(t)
  PROVE  IsTurn(LoadProviders(t))
<1> DEFINE pg == t.page
           id == pg.nextId + 1
           q == [pg EXCEPT !.nextId = id, !.load = [phase |-> "running", id |-> id]]
           u == With(t, q)
           request == [kind |-> "load", id |-> id]
<1>1. LoadProviders(t) = t \/ LoadProviders(t) = Sent(u, "activation", request)
  BY DEF LoadProviders
<1>2. PageTyped(pg)
  BY TurnPage
<1>3. id \in Nat
  BY <1>2 DEF PageTyped
<1>4. /\ But(pg, q, {"nextId", "load", "mutation", "confirmation"}) /\ q.nextId = id
      /\ q.confirmation = pg.confirmation
      /\ q.load = [phase |-> "running", id |-> id] /\ q.mutation = pg.mutation
  BY <1>2 DEF But, PageTyped, NewPage, Outer
<1>5. request \in RequestsOf("activation") /\ request.id = id /\ request.kind = "load"
  BY <1>3 DEF RequestsOf
<1>6. id = pg.nextId + 1
  OBVIOUS
<1> HIDE DEF q, id, request
<1>7. IsTurn(u) /\ u.page = q /\ u.lanes = t.lanes /\ Below(t.lanes["activation"], id)
  BY <1>4, <1>6, Begins
<1>8. Expected(q, request) /\ q.load.id = id
  BY <1>3, <1>4, <1>5 DEF Expected, Running
<1> HIDE DEF u
<1>9. IsTurn(Sent(u, "activation", request))
  BY <1>4, <1>5, <1>7, <1>8, SentToActivation
<1> QED BY <1>1, <1>9 DEF u, q, request, id

(* A request of the store lane. *)
LEMMA SentToStore ==
  ASSUME NEW t, IsTurn(t), NEW request \in RequestsOf("store"),
         "extract" \notin Uses => ("ext" \in request.base => "ext" \in request.doc)
  PROVE  IsTurn(Sent(t, "store", request))
<1> DEFINE l == "store"
           q == Queued(t, l, request)
           s == q.lanes[l].requests
           n == Len(t.lanes[l].requests)
<1>0. l \in Lanes /\ request.kind \in {"save", "extract"}
  BY DEF Lanes, RequestsOf
<1>1. CASE ~t.lanes[l].up
  <2> DEFINE m == [Failed(t.page, request.kind) EXCEPT !.told = @ \cup {l}]
  <2>1. Sent(t, l, request) = With(t, m)
    BY <1>1 DEF Sent
  <2>2. PageTyped(t.page)
    BY TurnPage
  <2>3. Moved(t.page, m)
    <3>1. CASE request.kind = "save"
      <4>1. But(t.page, m, {"save"}) /\ m.save = [t.page.save EXCEPT !.phase = "error"]
        BY <2>2, <3>1 DEF Failed, SaveFailed, But, PageTyped, NewPage, Outer
      <4>2. m.save \in Operation(Phases)
        BY <2>2, <4>1 DEF PageTyped, Operation, Phases
      <4> HIDE DEF m
      <4> QED BY <2>2, <4>1, <4>2, SaveMoves
    <3>2. CASE request.kind = "extract"
      <4>1. /\ But(t.page, m, {"extraction", "submitted"}) /\ m.submitted = None
            /\ m.extraction = [t.page.extraction EXCEPT !.phase = "error"]
        BY <2>2, <3>2 DEF Failed, ExtractFailed, But, PageTyped, NewPage, Outer
      <4>2. m.extraction \in Operation(Phases) /\ ~Running(m.extraction) /\ None \in Maybe(Documents)
        BY <2>2, <4>1 DEF PageTyped, Operation, Phases, Running, Maybe
      <4> HIDE DEF m
      <4> QED BY <2>2, <4>1, <4>2, ExtractMoves
    <3> QED BY <1>0, <3>1, <3>2
  <2> HIDE DEF m
  <2> QED BY <2>1, <2>3, WithMoved
<1>2. CASE t.lanes[l].up
  <2>1. Sent(t, l, request) = q
    BY <1>2 DEF Sent, Queued
  <2>2. /\ q = [page |-> t.page, lanes |-> q.lanes]
        /\ DOMAIN q.lanes = Lanes /\ (\A k \in Lanes \ {l} : q.lanes[k] = t.lanes[k])
        /\ \A k \in Lanes : LaneTyped(q.lanes[k], k)
        /\ n \in Nat /\ DOMAIN s = 1..(n + 1) /\ DOMAIN t.lanes[l].requests = 1..n
        /\ s[n + 1] = request /\ \A i \in 1..n : s[i] = t.lanes[l].requests[i]
    BY <1>0, <1>2, QueuedTyped
  <2>3. q.lanes[l].requests = s
    OBVIOUS
  <2> HIDE DEF q, s, n
  <2>4. \A i \in DOMAIN s : i \in 1..n \/ i = n + 1
    BY <2>2
  <2>5. ForeignKept(t.page, q.lanes[l])
    BY <2>2, <2>3, <2>4 DEF IsTurn, TurnInv, ForeignKept
  <2>6. q.lanes["test"] = t.lanes["test"] /\ q.lanes["activation"] = t.lanes["activation"]
    BY <2>2 DEF Lanes
  <2>7. TurnInv(t.page, q.lanes)
    BY <2>2, <2>5, <2>6 DEF IsTurn, TurnInv
  <2>8. q.page = t.page /\ DOMAIN q = {"page", "lanes"}
    BY <2>2
  <2> QED BY <2>1, <2>2, <2>7, <2>8 DEF IsTurn
<1> QED BY <1>1, <1>2

LEMMA SaveKeeps ==
  ASSUME NEW t, IsTurn(t), t.page.baseline # None
  PROVE  IsTurn(SaveProviders(t))
<1> DEFINE pg == t.page
           id == pg.save.id + 1
           o == [phase |-> "running", id |-> id]
           q == [pg EXCEPT !.save = o]
           request == [kind |-> "save", id |-> id, base |-> pg.baseline.doc, doc |-> pg.draft]
<1>1. SaveProviders(t) = t \/ SaveProviders(t) = Sent(With(t, q), "store", request)
  BY DEF SaveProviders
<1>2. PageTyped(pg) /\ pg.save \in Operation(Phases) /\ pg.baseline \in Views /\ pg.draft \in Documents
  BY TurnPage DEF PageTyped, Maybe
<1>3. o \in Operation(Phases) /\ id \in Nat
  BY <1>2 DEF Operation, Phases
<1>4. q.save = o /\ But(pg, q, {"save"})
  BY <1>2 DEF But, PageTyped, NewPage, Outer
<1>5. request \in RequestsOf("store")
  BY <1>2, <1>3 DEF RequestsOf, Views
<1>6. "extract" \notin Uses => ("ext" \in request.base => "ext" \in request.doc)
  BY <1>2, NamesAssumption DEF IsTurn, TurnInv, ForeignKept
<1> HIDE DEF q, o, request, id
<1>7. Moved(pg, q)
  BY <1>2, <1>3, <1>4, SaveMoves
<1>8. IsTurn(With(t, q))
  BY <1>7, WithMoved
<1>9. IsTurn(Sent(With(t, q), "store", request))
  BY <1>5, <1>6, <1>8, SentToStore
<1> QED BY <1>1, <1>9 DEF q, o, request, id

LEMMA TransitionKeeps ==
  ASSUME NEW t, IsTurn(t)
  PROVE  IsTurn(TransitionCompleted(t))
<1> DEFINE q == [Left(t.page) EXCEPT !.pendingRoute = FALSE]
           left == IF t.page.pendingRoute THEN With(t, q) ELSE t
           r == [left.page EXCEPT !.pendingReload = FALSE]
<1>1. PageTyped(t.page) /\ Moved(t.page, Left(t.page))
  BY TurnPage, LeftMoves
<1>2. IsTurn(left)
  <2>1. But(Left(t.page), q, {})
    BY <1>1 DEF Moved, But, PageTyped, NewPage, Outer
  <2> HIDE DEF q
  <2>2. Moved(t.page, q)
    BY <1>1, <2>1, OuterMoves, MovedTwice DEF Moved
  <2> QED BY <2>2, WithMoved
<1> HIDE DEF left
<1>3. IsTurn(With(left, r))
  <2>1. PageTyped(left.page)
    BY <1>2, TurnPage
  <2>2. But(left.page, r, {})
    BY <2>1 DEF But, PageTyped, NewPage, Outer
  <2> HIDE DEF r
  <2> QED BY <1>2, <2>1, <2>2, OuterMoves, WithMoved
<1> HIDE DEF r
<1>4. TransitionCompleted(t)
        = IF t.page.pendingReload THEN LoadProviders(With(left, r)) ELSE left
  BY DEF TransitionCompleted, left, q, r
<1> QED BY <1>2, <1>3, <1>4, LoadKeeps

(* The dialog about a mutation opens or does not. *)
LEMMA RequestMoves ==
  ASSUME NEW pg, PageTyped(pg), NEW kind \in Kinds
  PROVE  Moved(pg, MutationRequested(pg, kind))
<1> DEFINE q == [pg EXCEPT !.confirmation = kind]
<1>1. \/ MutationRequested(pg, kind) = pg
      \/ MutationRequested(pg, kind) = q /\ pg.workspace # None
  BY DEF MutationRequested
<1>2. But(pg, q, {"confirmation", "selected"}) /\ q.confirmation = kind /\ q.selected = pg.selected
  BY DEF But, PageTyped, NewPage, Outer
<1>3. kind \in Maybe(Kinds) /\ pg.selected \in Maybe(Profiles)
  BY DEF PageTyped, Maybe
<1> HIDE DEF q
<1>4. pg.workspace # None => Moved(pg, q)
  BY <1>2, <1>3, Unnoticed
<1>5. Moved(pg, pg)
  BY DEF Moved
<1> QED BY <1>1, <1>4, <1>5

-----------------------------------------------------------------------------
(* What the user does. *)

LEMMA ThisTurn ==
  ASSUME PageInv
  PROVE  IsTurn(Turn) /\ Turn.page = page /\ Turn.lanes = lanes /\ PageTyped(page)
<1>1. Turn = [page |-> page, lanes |-> lanes] /\ TurnInv(page, lanes)
  BY DEF PageInv, Turn
<1> HIDE DEF Turn
<1>2. Turn.page = page /\ Turn.lanes = lanes /\ DOMAIN Turn = {"page", "lanes"}
  BY <1>1
<1> QED BY <1>1, <1>2 DEF IsTurn, TurnInv

LEMMA PageMoves ==
  ASSUME PageInv, Moved(page, page'), lanes' = lanes
  PROVE  TurnInv(page', lanes')
BY MovedKeeps DEF PageInv

LEMMA Becoming ==
  ASSUME NEW t, IsTurn(t), Becomes(t)
  PROVE  TurnInv(page', lanes')
BY DEF Becomes, IsTurn

LEMMA OuterStep ==
  ASSUME PageInv, NEW q, But(page, q, {})
  PROVE  Moved(page, q) /\ q.baseline = page.baseline /\ PageTyped(q)
BY ThisTurn, OuterMoves DEF Moved

LEMMA EditStep ==
  ASSUME PageInv, Edit
  PROVE  TurnInv(page', lanes')
<1> DEFINE m == [page EXCEPT !.draft = @ \cup {Edits[edits + 1]}]
<1>1. /\ page' = MarkEdited(m) /\ lanes' = lanes
      /\ page.baseline # None /\ edits \in Nat /\ edits < Len(Edits) /\ PageTyped(page)
  BY ThisTurn DEF Edit, Enabled, Shown, PageInv
<1>2. Edits[edits + 1] \in Marks
  <2>1. Len(Edits) \in Nat /\ Edits \in [1..Len(Edits) -> Marks]
    BY NamesAssumption, LenProperties
  <2>2. edits + 1 \in 1..Len(Edits)
    BY <1>1, <2>1
  <2> QED BY <2>1, <2>2
<1>3. /\ DOMAIN m = DOMAIN NewPage /\ m.draft = page.draft \cup {Edits[edits + 1]}
      /\ \A f \in DOMAIN NewPage \ {"draft"} : m[f] = page[f]
  BY <1>1 DEF PageTyped, NewPage
<1> HIDE DEF m
<1>4. m.draft \in Documents
  BY <1>1, <1>2, <1>3 DEF PageTyped, Documents
<1>5. /\ m.baseline = page.baseline /\ m.extraction = page.extraction /\ m.test = page.test
      /\ m.nextId = page.nextId /\ m.load = page.load /\ m.mutation = page.mutation
  BY <1>3 DEF NewPage
<1>6. PageTyped(m)
  BY <1>1, <1>3, <1>4 DEF PageTyped, NewPage
<1>7. Moved(page, page')
  BY <1>1, <1>3, <1>5, <1>6, Edited DEF Moved, DraftKeeps
<1> QED BY <1>1, <1>7, PageMoves

LEMMA DeleteStep ==
  ASSUME PageInv, Delete
  PROVE  TurnInv(page', lanes')
<1> DEFINE p == page.selected
           doc == page.draft \ {p}
           next == Neighbour(doc, p)
           m == [page EXCEPT !.draft = doc, !.selected = next]
           r == MarkEdited(m)
<1>1. /\ page' = WithoutResults(r) /\ lanes' = lanes
      /\ page.baseline # None /\ PageTyped(page) /\ p \in page.draft
      /\ \E q \in Profiles : q \in doc
  BY ThisTurn DEF Delete, Shown, Deletable
<1>2. p \in Profiles /\ p # "ext"
  <2>1. page.draft \subseteq Profiles \cup Marks /\ p \in Maybe(Profiles)
    BY <1>1 DEF PageTyped, Documents
  <2>2. p # None
    BY <1>1, <2>1, NamesAssumption
  <2> QED BY <2>1, <2>2, NamesAssumption DEF Maybe
<1>3. next \in Profiles
  BY <1>1, <1>2, NeighbourKnown
<1> HIDE DEF next
<1>4. /\ DOMAIN m = DOMAIN NewPage /\ m.draft = doc /\ m.selected = next
      /\ \A f \in DOMAIN NewPage \ {"draft", "selected"} : m[f] = page[f]
  BY <1>1 DEF PageTyped, NewPage
<1>5. m.draft \in Documents
  BY <1>1, <1>4 DEF PageTyped, Documents
<1>6. "ext" \in page.draft => "ext" \in m.draft
  BY <1>2, <1>4
<1> HIDE DEF m, doc
<1>7. /\ m.baseline = page.baseline /\ m.extraction = page.extraction /\ m.test = page.test
      /\ m.nextId = page.nextId /\ m.load = page.load /\ m.mutation = page.mutation
  BY <1>4 DEF NewPage
<1>8. PageTyped(m)
  BY <1>1, <1>3, <1>4, <1>5 DEF PageTyped, NewPage, Maybe
<1>9. Moved(page, r)
  BY <1>1, <1>4, <1>6, <1>7, <1>8, Edited DEF Moved, DraftKeeps
<1> HIDE DEF r
<1>10. Moved(r, WithoutResults(r))
  BY <1>9, ResultsGone DEF Moved, DraftKeeps
<1> QED BY <1>1, <1>9, <1>10, MovedTwice, PageMoves

LEMMA SelectStep ==
  ASSUME PageInv, NEW p \in Profiles, Select(p)
  PROVE  TurnInv(page', lanes')
<1> DEFINE pg == [page EXCEPT !.pendingRoute = FALSE, !.pendingReload = FALSE]
           g == [pg EXCEPT !.guard = p]
<1>1. But(page, pg, {}) /\ But(page, g, {})
  BY ThisTurn DEF But, PageTyped, NewPage, Outer
<1>2. page' \in {g, SelectedNow(pg, p)} /\ lanes' = lanes
  BY DEF Select
<1> HIDE DEF pg, g
<1>3. Moved(page, g) /\ Moved(page, pg) /\ PageTyped(pg)
  BY <1>1, OuterStep
<1>4. Moved(page, SelectedNow(pg, p))
  BY <1>3, SelectionMoves, MovedTwice
<1> QED BY <1>2, <1>3, <1>4, PageMoves

LEMMA DiscardStep ==
  ASSUME PageInv, Discard
  PROVE  TurnInv(page', lanes')
<1> DEFINE pg == [page EXCEPT !.pendingRoute = FALSE, !.pendingReload = FALSE]
<1>1. But(page, pg, {})
  BY ThisTurn DEF But, PageTyped, NewPage, Outer
<1>2. page' = Discarded(pg) /\ lanes' = lanes /\ page.baseline # None
  BY DEF Discard, Enabled, Shown
<1> HIDE DEF pg
<1>3. Moved(page, pg) /\ PageTyped(pg) /\ pg.baseline # None
  BY <1>1, <1>2, OuterStep
<1>4. Moved(page, Discarded(pg))
  BY <1>3, DiscardMoves, MovedTwice
<1> QED BY <1>2, <1>4, PageMoves

LEMMA ExtractStep ==
  ASSUME PageInv, Extract
  PROVE  TurnInv(page', lanes')
<1> DEFINE id == page.extraction.id + 1
           o == [phase |-> "running", id |-> id]
           q == [page EXCEPT !.extraction = o, !.submitted = page.draft]
           request == [kind |-> "extract", id |-> id, base |-> page.baseline.doc, doc |-> page.draft]
<1>1. /\ Becomes(Sent(With(Turn, q), "store", request)) /\ "extract" \in Uses
      /\ page.baseline # None /\ PageTyped(page)
  BY ThisTurn DEF Extract, Enabled, Shown, Uses1
<1>2. /\ page.extraction \in Operation(Phases) /\ page.baseline \in Views /\ page.draft \in Documents
      /\ page.draft # None
  BY <1>1, NamesAssumption DEF PageTyped, Maybe
<1>3. id \in Nat /\ o \in Operation(Phases) /\ Running(o)
  BY <1>2 DEF Operation, Phases, Running
<1>4. request \in RequestsOf("store")
  BY <1>2, <1>3 DEF RequestsOf, Views
<1>5. /\ q.extraction = o /\ q.submitted = page.draft
      /\ But(page, q, {"extraction", "submitted"})
  BY <1>1 DEF But, PageTyped, NewPage, Outer
<1> HIDE DEF q, o, request, id
<1>6. Moved(page, q)
  BY <1>1, <1>2, <1>3, <1>5, ExtractMoves DEF Maybe
<1>7. IsTurn(With(Turn, q))
  BY <1>6, ThisTurn, WithMoved
<1>8. IsTurn(Sent(With(Turn, q), "store", request))
  BY <1>1, <1>4, <1>7, SentToStore
<1> QED BY <1>1, <1>8, Becoming DEF q, o, request, id

(* Steps that only open and close dialogs and pages. *)
LEMMA DialogSteps ==
  ASSUME PageInv, AskDelete \/ CancelDelete \/ Stay \/ EditLive \/ CancelLiveEdit
  PROVE  TurnInv(page', lanes')
<1>1. PageTyped(page)
  BY ThisTurn
<1>2. But(page, page', {}) /\ lanes' = lanes
  <2>1. CASE AskDelete
    BY <1>1, <2>1 DEF AskDelete, But, PageTyped, NewPage, Outer
  <2>2. CASE CancelDelete
    BY <1>1, <2>2 DEF CancelDelete, But, PageTyped, NewPage, Outer
  <2>3. CASE Stay
    BY <1>1, <2>3 DEF Stay, But, PageTyped, NewPage, Outer
  <2>4. CASE EditLive
    BY <1>1, <2>4 DEF EditLive, But, PageTyped, NewPage, Outer
  <2>5. CASE CancelLiveEdit
    BY <1>1, <2>5 DEF CancelLiveEdit, But, PageTyped, NewPage, Outer
  <2> QED BY <2>1, <2>2, <2>3, <2>4, <2>5
<1> QED BY <1>2, OuterStep, PageMoves

LEMMA OpenStep ==
  ASSUME PageInv, Open
  PROVE  TurnInv(page', lanes')
<1> DEFINE q == [page EXCEPT !.route = "providers", !.pendingRoute = FALSE]
           t == With(Turn, q)
<1>1. But(page, q, {})
  BY ThisTurn DEF But, PageTyped, NewPage, Outer
<1>2. Becomes(LoadProviders(t)) \/ Becomes(t)
  BY DEF Open
<1> HIDE DEF q
<1>3. IsTurn(t)
  BY <1>1, OuterStep, ThisTurn, WithMoved
<1> HIDE DEF t
<1> QED BY <1>2, <1>3, LoadKeeps, Becoming

LEMMA LeaveStep ==
  ASSUME PageInv, Leave
  PROVE  TurnInv(page', lanes')
<1> DEFINE q == [page EXCEPT !.pendingRoute = TRUE, !.pendingReload = FALSE, !.guard = "reload"]
           r == [Left(page) EXCEPT !.pendingRoute = FALSE]
<1>1. page' \in {q, r} /\ lanes' = lanes
  BY DEF Leave
<1>2. But(page, q, {})
  BY ThisTurn DEF But, PageTyped, NewPage, Outer
<1>3. PageTyped(Left(page)) /\ Moved(page, Left(page))
  BY ThisTurn, LeftMoves DEF Moved
<1>4. But(Left(page), r, {})
  BY <1>3 DEF But, PageTyped, NewPage, Outer
<1> HIDE DEF q, r
<1>5. Moved(page, q) /\ Moved(page, r)
  BY <1>2, <1>3, <1>4, OuterStep, OuterMoves, MovedTwice
<1> QED BY <1>1, <1>5, PageMoves

LEMMA ReloadStep ==
  ASSUME PageInv, Reload
  PROVE  TurnInv(page', lanes')
<1> DEFINE q == [page EXCEPT !.pendingRoute = FALSE, !.pendingReload = TRUE, !.guard = "reload"]
<1>1. (page' = q /\ lanes' = lanes) \/ Becomes(LoadProviders(Turn))
  BY DEF Reload
<1>2. But(page, q, {})
  BY ThisTurn DEF But, PageTyped, NewPage, Outer
<1> HIDE DEF q
<1>3. Moved(page, q)
  BY <1>2, OuterStep
<1> QED BY <1>1, <1>3, PageMoves, ThisTurn, LoadKeeps, Becoming

LEMMA SavingSteps ==
  ASSUME PageInv, Save \/ SaveAndContinue
  PROVE  TurnInv(page', lanes')
<1> DEFINE q == [page EXCEPT !.guardSave = "provider"]
           r == [page EXCEPT !.guardSave = "live"]
           s == [page EXCEPT !.guard = None]
           u == TargetApplied(s, page.guard)
<1>1. \/ Becomes(SaveProviders(Turn))
      \/ Becomes(SaveProviders(With(Turn, q)))
      \/ page' = MutationRequested(r, "file") /\ lanes' = lanes
      \/ Becomes(TransitionCompleted(With(Turn, u)))
  BY DEF Save, SaveAndContinue
<1>2. page.baseline # None
  BY DEF Save, SaveAndContinue, Enabled, Shown
<1>3. But(page, q, {}) /\ But(page, r, {}) /\ But(page, s, {})
  BY ThisTurn DEF But, PageTyped, NewPage, Outer
<1> HIDE DEF q, r, s
<1>4. /\ Moved(page, q) /\ Moved(page, r) /\ Moved(page, s)
      /\ PageTyped(r) /\ PageTyped(s) /\ q.baseline = page.baseline
  BY <1>3, OuterStep
<1>5. CASE Becomes(SaveProviders(Turn))
  BY <1>2, <1>5, ThisTurn, SaveKeeps, Becoming
<1>6. CASE Becomes(SaveProviders(With(Turn, q)))
  <2>1. IsTurn(With(Turn, q)) /\ With(Turn, q).page = q
    BY <1>4, ThisTurn, WithMoved
  <2> QED BY <1>2, <1>4, <1>6, <2>1, SaveKeeps, Becoming
<1>7. CASE page' = MutationRequested(r, "file") /\ lanes' = lanes
  <2>1. "file" \in Kinds
    BY DEF Kinds
  <2>2. Moved(page, MutationRequested(r, "file"))
    BY <1>4, <2>1, RequestMoves, MovedTwice
  <2> QED BY <1>7, <2>2, PageMoves
<1>8. CASE Becomes(TransitionCompleted(With(Turn, u)))
  <2>1. Moved(page, u)
    BY <1>4, TargetMoves, MovedTwice
  <2> HIDE DEF u
  <2>2. IsTurn(With(Turn, u))
    BY <2>1, ThisTurn, WithMoved
  <2> QED BY <1>8, <2>2, TransitionKeeps, Becoming
<1> QED BY <1>1, <1>5, <1>6, <1>7, <1>8

LEMMA DiscardContinueStep ==
  ASSUME PageInv, DiscardAndContinue
  PROVE  TurnInv(page', lanes')
<1> DEFINE d == Discarded(page)
           q == [d EXCEPT !.liveEdited = FALSE]
           u == TargetApplied(q, page.guard)
<1>1. Becomes(TransitionCompleted(With(Turn, u))) /\ page.baseline # None
  BY DEF DiscardAndContinue, Shown
<1>2. Moved(page, d) /\ PageTyped(d)
  BY <1>1, ThisTurn, DiscardMoves DEF Moved
<1> HIDE DEF d
<1>3. But(d, q, {})
  BY <1>2 DEF But, PageTyped, NewPage, Outer
<1> HIDE DEF q
<1>4. Moved(page, q) /\ PageTyped(q)
  BY <1>2, <1>3, OuterMoves, MovedTwice DEF Moved
<1>5. Moved(page, u)
  BY <1>4, TargetMoves, MovedTwice
<1> HIDE DEF u
<1>6. IsTurn(With(Turn, u))
  BY <1>5, ThisTurn, WithMoved
<1> QED BY <1>1, <1>6, TransitionKeeps, Becoming

LEMMA RequestSteps ==
  ASSUME PageInv, SaveLive \/ CancelConfirm
                  \/ \E kind \in Profiles \cup {"reapply", "backfill", "clear"} : RequestMutation(kind)
  PROVE  TurnInv(page', lanes')
<1>1. PageTyped(page)
  BY ThisTurn
<1>2. CASE CancelConfirm
  <2>1. /\ But(page, page', {"confirmation", "selected"}) /\ lanes' = lanes
        /\ page'.confirmation = None /\ page'.selected = page.selected
    BY <1>1, <1>2 DEF CancelConfirm, But, PageTyped, NewPage, Outer
  <2>2. None \in Maybe(Kinds) /\ page.selected \in Maybe(Profiles)
    BY <1>1 DEF PageTyped, Maybe
  <2> QED BY <1>1, <2>1, <2>2, Unnoticed, PageMoves
<1>3. CASE ~CancelConfirm
  <2>1. PICK kind \in Kinds : page' = MutationRequested(page, kind) /\ lanes' = lanes
    BY <1>3 DEF SaveLive, RequestMutation, Kinds
  <2> QED BY <1>1, <2>1, RequestMoves, PageMoves
<1> QED BY <1>2, <1>3

LEMMA ConfirmStep ==
  ASSUME PageInv, Confirm
  PROVE  TurnInv(page', lanes')
<1> DEFINE id == page.nextId + 1
           q == [page EXCEPT !.nextId = id, !.mutation = [phase |-> "running", id |-> id],
                             !.kind = page.confirmation, !.confirmation = None]
           u == With(Turn, q)
           request == [kind |-> "mutate", id |-> id, what |-> page.confirmation,
                       doc |-> page.workspace.doc, files |-> page.workspace.files]
<1>1. /\ Becomes(Sent(u, "activation", request)) /\ page.confirmation # None
      /\ PageTyped(page) /\ IsTurn(Turn) /\ Turn.page = page /\ Turn.lanes = lanes
  BY ThisTurn DEF Confirm
<1>2. id \in Nat /\ page.confirmation \in Kinds /\ page.workspace \in Workspaces
  BY <1>1 DEF PageTyped, Maybe
<1>3. request \in RequestsOf("activation") /\ request.id = id /\ request.kind = "mutate"
  BY <1>2 DEF RequestsOf, Workspaces
<1>4. /\ But(page, q, {"nextId", "load", "mutation", "confirmation"}) /\ q.nextId = id
      /\ q.confirmation = None
      /\ q.mutation = [phase |-> "running", id |-> id] /\ q.load = page.load
  BY <1>1 DEF But, PageTyped, NewPage, Outer
<1>5. id = page.nextId + 1
  OBVIOUS
<1> HIDE DEF q, id, request
<1>6. IsTurn(u) /\ u.page = q /\ u.lanes = lanes /\ Below(lanes["activation"], id)
  BY <1>1, <1>4, <1>5, Begins
<1>7. Expected(q, request) /\ q.mutation.id = id
  BY <1>2, <1>3, <1>4 DEF Expected, Running
<1> HIDE DEF u
<1>8. IsTurn(Sent(u, "activation", request))
  BY <1>3, <1>4, <1>6, <1>7, SentToActivation
<1> QED BY <1>1, <1>8, Becoming DEF u, q, request, id

LEMMA TestStep ==
  ASSUME PageInv, Test
  PROVE  TurnInv(page', lanes')
<1> DEFINE id == page.test.id + 1
           test == [phase |-> "running", id |-> id, profile |-> page.selected,
                    gen |-> page.gen, about |-> None]
           q == [page EXCEPT !.test = test]
           u == With(Turn, q)
           request == [kind |-> "test", id |-> id, profile |-> page.selected,
                       gen |-> page.gen, doc |-> page.draft]
           T == [phase : Phases, id : Nat, profile : Maybe(Profiles \cup Marks), gen : Nat,
                 about : Maybe(Documents)]
<1>1. /\ Becomes(Sent(u, "test", request)) /\ page.selected \in page.draft
      /\ PageTyped(page) /\ IsTurn(Turn) /\ Turn.page = page /\ Turn.lanes = lanes
  BY ThisTurn DEF Test
<1>2. /\ page.test.id \in Nat /\ id \in Nat /\ page.test.id < id
      /\ page.selected \in Profiles \cup Marks /\ page.gen \in Nat /\ page.draft \in Documents
  <2>1. page.test.id \in Nat
    BY <1>1 DEF PageTyped
  <2> QED BY <1>1, <2>1 DEF PageTyped, Documents
<1>3. request \in RequestsOf("test") /\ request.id = id /\ request.doc = page.draft
  BY <1>2 DEF RequestsOf, TestTokens
<1>4. test \in T /\ test.id = id /\ test.phase = "running"
  BY <1>2 DEF Phases, Maybe
<1>5. /\ But(page, q, {"test"}) /\ q.test = test
  BY <1>1 DEF But, PageTyped, NewPage, Outer
<1> HIDE DEF q, test, request
<1>6. /\ q.draft = page.draft /\ q.baseline = page.baseline
      /\ q.extraction = page.extraction /\ q.workspace = page.workspace
      /\ q.submitted = page.submitted /\ q.save = page.save /\ q.load = page.load
      /\ q.mutation = page.mutation /\ q.nextId = page.nextId
      /\ q.gen = page.gen /\ q.selected = page.selected /\ q.confirmation = page.confirmation
  BY <1>5 DEF But, NewPage, Outer
<1>7. PageTyped(q)
  BY <1>1, <1>4, <1>5, <1>6 DEF PageTyped, But
<1> HIDE DEF id
<1>8. \A token : OfDraft(page, token) /\ token.id \in Nat => OfDraft(q, token)
  BY <1>2, <1>4, <1>5 DEF OfDraft
<1>9. \A l \in Lanes : LaneTyped(lanes[l], l)
  BY <1>1, TurnPage
<1>10. /\ \A i \in DOMAIN lanes["test"].requests : lanes["test"].requests[i].id \in Nat
       /\ \A i \in DOMAIN lanes["test"].answers : lanes["test"].answers[i].id \in Nat
  <2>1. /\ lanes["test"].requests \in Seq(RequestsOf("test"))
        /\ lanes["test"].answers \in Seq(AnswersOf("test"))
    BY <1>9 DEF LaneTyped, Lanes
  <2>2. \A r \in RequestsOf("test") : r.id \in Nat
    BY DEF RequestsOf, TestTokens
  <2>3. \A r \in AnswersOf("test") : r.id \in Nat
    BY DEF AnswersOf, TestTokens
  <2> QED BY <2>1, <2>2, <2>3
<1>11. TestsKnown(q, lanes["test"])
  BY <1>4, <1>5, <1>8, <1>10 DEF TestsKnown, PageInv, TurnInv
<1>12. ForeignKept(q, lanes["store"]) /\ Numbered(q, lanes["activation"])
  BY <1>6 DEF ForeignKept, Numbered, Expected, PageInv, TurnInv
<1>13. TurnInv(q, lanes)
  BY <1>7, <1>11, <1>12 DEF TurnInv, PageInv
<1>14. u = [page |-> q, lanes |-> lanes]
  BY <1>1 DEF With, IsTurn
<1>15. IsTurn(u) /\ u.page = q /\ u.lanes = lanes
  BY <1>13, <1>14 DEF IsTurn
<1> HIDE DEF u
<1>16. OfDraft(q, request)
  BY <1>2, <1>3, <1>4, <1>5, <1>6 DEF OfDraft
<1>17. CASE lanes["test"].up
  <2> DEFINE v == Queued(u, "test", request)
             s == v.lanes["test"].requests
             n == Len(lanes["test"].requests)
  <2>1. Sent(u, "test", request) = v
    BY <1>15, <1>17 DEF Sent, Queued
  <2>2. "test" \in Lanes
    BY DEF Lanes
  <2>3. /\ v = [page |-> u.page, lanes |-> v.lanes]
        /\ DOMAIN v.lanes = Lanes /\ (\A k \in Lanes \ {"test"} : v.lanes[k] = lanes[k])
        /\ \A k \in Lanes : LaneTyped(v.lanes[k], k)
        /\ v.lanes["test"].answers = lanes["test"].answers
        /\ n \in Nat /\ DOMAIN s = 1..(n + 1) /\ DOMAIN lanes["test"].requests = 1..n
        /\ s[n + 1] = request /\ \A i \in 1..n : s[i] = lanes["test"].requests[i]
    BY <1>3, <1>15, <1>17, <2>2, QueuedTyped
  <2>4. v.lanes["test"].requests = s
    OBVIOUS
  <2> HIDE DEF v, s, n
  <2>5. \A i \in DOMAIN s : i \in 1..n \/ i = n + 1
    BY <2>3
  <2>6. TestsKnown(q, v.lanes["test"])
    BY <1>11, <1>16, <2>3, <2>4, <2>5 DEF TestsKnown
  <2>7. v.lanes["store"] = lanes["store"] /\ v.lanes["activation"] = lanes["activation"]
    BY <2>3 DEF Lanes
  <2>8. TurnInv(q, v.lanes)
    BY <1>13, <2>3, <2>6, <2>7 DEF TurnInv
  <2>9. v.page = q /\ DOMAIN v = {"page", "lanes"}
    BY <1>15, <2>3
  <2> QED BY <1>1, <2>1, <2>8, <2>9 DEF Becomes
<1>18. CASE ~lanes["test"].up
  <2> DEFINE m == [Failed(q, "test") EXCEPT !.told = @ \cup {"test"}]
             r == [q.test EXCEPT !.phase = "error"]
  <2>1. Sent(u, "test", request) = With(u, m)
    BY <1>15, <1>18 DEF Sent, request
  <2>2. But(q, m, {"test"}) /\ m.test = r
    BY <1>7 DEF Failed, TestFailed, But, PageTyped, NewPage, Outer
  <2>3. r \in T /\ r.id = q.test.id /\ r.profile = q.test.profile /\ r.phase = "error"
    BY <1>4, <1>5 DEF Phases
  <2> HIDE DEF m, r
  <2>4. /\ m.draft = q.draft /\ m.baseline = q.baseline
        /\ m.extraction = q.extraction /\ m.workspace = q.workspace
        /\ m.submitted = q.submitted /\ m.save = q.save /\ m.load = q.load
        /\ m.mutation = q.mutation /\ m.nextId = q.nextId
        /\ m.gen = q.gen /\ m.selected = q.selected /\ m.confirmation = q.confirmation
    BY <2>2 DEF But, NewPage, Outer
  <2>5. PageTyped(m)
    BY <1>7, <2>2, <2>3, <2>4 DEF PageTyped, But
  <2>6. TestsKnown(m, lanes["test"]) /\ ForeignKept(m, lanes["store"]) /\ Numbered(m, lanes["activation"])
    BY <1>13, <2>2, <2>3, <2>4 DEF TurnInv, TestsKnown, OfDraft, ForeignKept, Numbered, Expected
  <2>7. TurnInv(m, lanes)
    BY <1>13, <2>5, <2>6 DEF TurnInv
  <2>8. With(u, m) = [page |-> m, lanes |-> lanes]
    BY <1>15 DEF With, IsTurn
  <2> QED BY <1>1, <2>1, <2>7, <2>8 DEF Becomes
<1> QED BY <1>17, <1>18

(* One lane changes, the page does not. *)
LEMMA LaneStep ==
  ASSUME PageInv, page' = page, NEW l \in Lanes, NEW lane, lanes' = [lanes EXCEPT ![l] = lane],
         LaneTyped(lane, l), l = "activation" => Numbered(page, lane),
         l = "test" => TestsKnown(page, lane), l = "store" => ForeignKept(page, lane)
  PROVE  TurnInv(page', lanes')
<1>1. /\ DOMAIN lanes' = Lanes /\ lanes'[l] = lane /\ \A k \in Lanes \ {l} : lanes'[k] = lanes[k]
  BY DEF PageInv, TurnInv
<1>2. \A k \in Lanes : LaneTyped(lanes'[k], k)
  BY <1>1 DEF PageInv, TurnInv
<1>3. {"activation", "test", "store"} \subseteq Lanes
  BY DEF Lanes
<1>4. Numbered(page, lanes'["activation"]) /\ TestsKnown(page, lanes'["test"])
      /\ ForeignKept(page, lanes'["store"])
  BY <1>1, <1>3 DEF PageInv, TurnInv
<1> QED BY <1>1, <1>2, <1>4 DEF PageInv, TurnInv

LEMMA StartSideStep ==
  ASSUME PageInv, StartSide
  PROVE  TurnInv(page', lanes')
<1>1. PICK kind \in {"import", "context"} :
        lanes' = [lanes EXCEPT !["side"].requests = <<[kind |-> kind]>>]
  BY DEF StartSide
<1> DEFINE s == <<[kind |-> kind]>>
           lane == [lanes["side"] EXCEPT !.requests = s]
<1>2. page' = page /\ lanes' = [lanes EXCEPT !["side"] = lane]
  BY <1>1 DEF StartSide
<1>3. s \in Seq(RequestsOf("side"))
  BY DEF RequestsOf
<1> HIDE DEF s
<1>4. LaneTyped(lanes["side"], "side") /\ "side" \in Lanes
  BY DEF PageInv, TurnInv, Lanes
<1>5. lanes["side"].up
  BY <1>4, InstanceAssumption DEF LaneTyped
<1>6. LaneTyped(lane, "side")
  BY <1>3, <1>4, <1>5 DEF LaneTyped
<1> HIDE DEF lane
<1> QED BY <1>2, <1>4, <1>6, LaneStep

-----------------------------------------------------------------------------
(* What the workers do. *)

LEMMA Takes ==
  ASSUME NEW S, NEW requests \in Seq(S), requests # <<>>
  PROVE  \E n \in 1..Len(requests) :
           /\ Taken(requests).request = requests[n]
           /\ Taken(requests).rest = SubSeq(requests, n + 1, Len(requests))
<1> DEFINE last(k) == k = Len(requests) \/ requests[k].kind # "load" \/ requests[k + 1].kind # "load"
           P(k) == (\A i \in 1..k : k > 1 => requests[i].kind = "load") /\ last(k)
           T == {k \in 1..Len(requests) : last(k)}
<1>1. Len(requests) \in Nat \ {0} /\ DOMAIN requests = 1..Len(requests)
  BY EmptySeq, LenProperties
<1>2. T \subseteq Nat /\ Len(requests) \in T
  <2>1. Len(requests) \in 1..Len(requests) /\ 1..Len(requests) \subseteq Nat
    BY <1>1
  <2>2. last(Len(requests))
    OBVIOUS
  <2> HIDE DEF last
  <2> QED BY <2>1, <2>2
<1>3. PICK x \in T : \A y \in T : x <= y
  <2> HIDE DEF T
  <2> QED BY <1>2, Least
<1>4. x \in 1..Len(requests) /\ last(x) /\ x \in Nat /\ x <= Len(requests)
  <2>1. x \in 1..Len(requests) /\ last(x)
    <3> HIDE DEF last
    <3> QED BY <1>3
  <2>2. Len(requests) \in Nat
    BY <1>1
  <2> HIDE DEF T, last
  <2>3. x \in Nat /\ x <= Len(requests)
    BY <2>1, <2>2
  <2> QED BY <2>1, <2>3
<1>5. \A y \in 1..(x - 1) : y \in 1..Len(requests) /\ ~(x <= y)
  <2> HIDE DEF T
  <2>1. Len(requests) \in Nat /\ x \in Nat /\ x <= Len(requests)
    BY <1>1, <1>4
  <2> QED BY <2>1
<1>6. \A y \in 1..(x - 1) : requests[y].kind = "load" /\ requests[y + 1].kind = "load"
  BY <1>3, <1>5
<1>7. ASSUME x > 1, NEW i \in 1..x PROVE requests[i].kind = "load"
  <2>1. i \in 1..(x - 1) \/ (i = x /\ x - 1 \in 1..(x - 1) /\ (x - 1) + 1 = x)
    BY <1>4, <1>7
  <2>2. CASE i \in 1..(x - 1)
    BY <1>6, <2>2
  <2>3. CASE i = x /\ x - 1 \in 1..(x - 1) /\ (x - 1) + 1 = x
    <3>1. requests[(x - 1) + 1].kind = "load"
      BY <1>6, <2>3
    <3> QED BY <2>3, <3>1
  <2> QED BY <2>1, <2>2, <2>3
<1>8. P(x)
  BY <1>4, <1>7
<1> DEFINE n == CHOOSE k \in DOMAIN requests : P(k)
<1>9. Taken(requests) = [request |-> requests[n], rest |-> SubSeq(requests, n + 1, Len(requests))]
  BY DEF Taken
<1> HIDE DEF P
<1>10. n \in DOMAIN requests
  BY <1>1, <1>4, <1>8
<1> HIDE DEF n
<1>11. Taken(requests).request = requests[n]
       /\ Taken(requests).rest = SubSeq(requests, n + 1, Len(requests))
  <2>1. \A t, a, b : t = [request |-> a, rest |-> b] => t.request = a /\ t.rest = b
    OBVIOUS
  <2> QED BY <1>9, <2>1, Zenon
<1> QED BY <1>1, <1>10, <1>11

(* What the n-th request of a queue leaves behind. *)
LEMMA Remaining ==
  ASSUME NEW S, NEW s \in Seq(S), NEW n \in 1..Len(s)
  PROVE  LET r == SubSeq(s, n + 1, Len(s)) IN
         /\ r \in Seq(S)
         /\ \A i \in DOMAIN r : i \in Nat /\ n + i \in DOMAIN s /\ n < n + i /\ r[i] = s[n + i]
<1> DEFINE r == SubSeq(s, n + 1, Len(s))
<1>1. Len(s) \in Nat /\ DOMAIN s = 1..Len(s) /\ n \in Nat /\ n <= Len(s)
  BY LenProperties
<1>2. n + 1 \in Int /\ Len(s) \in Int /\ \A i \in (n + 1)..Len(s) : s[i] \in S
  <2>1. \A i \in (n + 1)..Len(s) : i \in 1..Len(s)
    BY <1>1
  <2> QED BY <1>1, <2>1, ElementOfSeq
<1>3. /\ r \in Seq(S)
      /\ Len(r) = IF n + 1 <= Len(s) THEN Len(s) - (n + 1) + 1 ELSE 0
      /\ \A i \in 1..(Len(s) - (n + 1) + 1) : r[i] = s[(n + 1) + i - 1]
  BY <1>2, SubSeqProperties
<1> HIDE DEF r
<1>4. Len(r) = Len(s) - n /\ DOMAIN r = 1..Len(r) /\ Len(s) - (n + 1) + 1 = Len(s) - n
  <2>1. DOMAIN r = 1..Len(r)
    BY <1>3, LenProperties
  <2>2. Len(r) = IF n + 1 <= Len(s) THEN Len(s) - (n + 1) + 1 ELSE 0
    BY <1>3
  <2>3. Len(s) \in Nat /\ n \in Nat /\ n <= Len(s)
    BY <1>1
  <2>4. Len(r) = Len(s) - n /\ Len(s) - (n + 1) + 1 = Len(s) - n
    BY <2>2, <2>3
  <2> QED BY <2>1, <2>4
<1>5. ASSUME NEW i \in DOMAIN r
      PROVE  i \in Nat /\ n + i \in DOMAIN s /\ n < n + i /\ r[i] = s[n + i]
  <2>1. i \in 1..(Len(s) - n) /\ i \in Nat /\ (n + 1) + i - 1 = n + i
    BY <1>1, <1>4
  <2>2. n + i \in 1..Len(s) /\ n < n + i
    BY <1>1, <2>1
  <2>3. r[i] = s[(n + 1) + i - 1]
    BY <1>3, <1>4, <2>1
  <2> QED BY <1>1, <2>1, <2>2, <2>3
<1> QED BY <1>3, <1>5 DEF r

(* What the operations of the service store and answer. *)
LEMMA Stores ==
  ASSUME NEW s \in Workspaces, NEW l \in {"store", "activation"}, NEW request \in RequestsOf(l),
         NEW o \in Outcomes(s, request)
  PROVE  /\ o.stored \in Workspaces /\ o.answer \in AnswersOf(l)
         /\ o.answer.kind = request.kind /\ o.answer.id = request.id
         /\ (l = "store" => ("ext" \in request.base => "ext" \in request.doc))
              => ("ext" \in s.doc => "ext" \in o.stored.doc)
<1> DEFINE kinds == IF l = "store" THEN {"save", "extract"} ELSE {"load", "mutate"}
           Good(p, doc) == /\ p.stored \in Workspaces /\ p.answer \in Answers(kinds)
                           /\ p.answer.kind = request.kind /\ p.answer.id = request.id
                           /\ p.stored = s \/ p.stored.doc = doc \/ s.doc \subseteq p.stored.doc
<1>1. request.kind \in kinds /\ request.id \in Nat
  BY DEF RequestsOf
<1>2. AnswersOf(l) = Answers(kinds)
  BY DEF AnswersOf
<1>3. ASSUME NEW doc PROVE Good(Refused(s, request), doc)
  BY <1>1 DEF Refused, Answer, Answers, Maybe
<1>4. ASSUME NEW u \in Workspaces, NEW doc, u.doc = doc \/ s.doc \subseteq u.doc
      PROVE  Good(Done(u, request), doc) /\ Done(u, request).stored = u
  BY <1>1, <1>4 DEF Done, Answer, Answers, Maybe
<1>5. ASSUME NEW doc \in Documents, NEW p \in SaveOutcomes(s, request, doc)
      PROVE  Good(p, doc) /\ (p.stored = s \/ s.doc = request.base)
  <2> DEFINE u == [s EXCEPT !.doc = doc]
  <2>1. p = Refused(s, request) \/ (s.active \in doc /\ s.doc = request.base /\ p = Done(u, request))
    BY <1>5 DEF SaveOutcomes
  <2>2. s.active \in doc => u \in Workspaces /\ u.doc = doc
    BY <1>5 DEF Workspaces
  <2> HIDE DEF u, Good
  <2>3. Refused(s, request).stored = s
    BY DEF Refused
  <2> QED BY <1>3, <1>4, <1>5, <2>1, <2>2, <2>3
<1>6. CASE request.kind = "save"
  <2>1. l = "store" /\ request.doc \in Documents
    BY <1>6 DEF RequestsOf
  <2>2. o \in SaveOutcomes(s, request, request.doc)
    BY <1>6 DEF Outcomes
  <2> QED BY <1>2, <1>5, <2>1, <2>2
<1>7. CASE request.kind = "extract"
  <2> DEFINE doc == request.doc \cup {"common"}
  <2>1. l = "store" /\ request.doc \in Documents /\ doc \in Documents
    BY <1>7 DEF RequestsOf, Documents, Marks
  <2>2. \/ o = Refused(s, request)
        \/ o = [stored |-> s, answer |-> Answer(request, TRUE, None)]
        \/ o \in SaveOutcomes(s, request, doc)
    BY <1>7 DEF Outcomes, ExtractOutcomes
  <2>3. CASE o = Refused(s, request)
    <3>1. o.stored = s
      BY <2>3 DEF Refused
    <3> QED BY <1>2, <1>3, <2>3, <3>1
  <2>4. CASE o = [stored |-> s, answer |-> Answer(request, TRUE, None)]
    BY <1>1, <1>2, <1>7, <2>4 DEF Answer, Answers, Maybe
  <2>5. CASE o \in SaveOutcomes(s, request, doc)
    BY <1>2, <1>5, <2>1, <2>5
  <2> QED BY <2>2, <2>3, <2>4, <2>5
<1>8. CASE request.kind = "load"
  <2>1. o = Refused(s, request) \/ o = Done(s, request)
    BY <1>8 DEF Outcomes
  <2>2. Refused(s, request).stored = s /\ Done(s, request).stored = s
    BY DEF Refused, Done
  <2> QED BY <1>2, <1>3, <1>4, <2>1, <2>2
<1>9. CASE request.kind = "mutate"
  <2> DEFINE u == Mutated(s, request.what)
  <2>1. /\ request.what \in Kinds
        /\ \/ o = Refused(s, request)
           \/ o = Done(u, request) /\ (request.what \in Profiles => request.what \in s.doc)
    BY <1>9 DEF Outcomes, MutateOutcomes, RequestsOf
  <2>2. ASSUME request.what \in Profiles => request.what \in s.doc
        PROVE  u \in Workspaces /\ s.doc \subseteq u.doc
    <3> DEFINE kept == IF s.files = "edited" THEN s.doc \cup {"backfill"} ELSE s.doc
               w == request.what
    <3>1. kept \in Documents /\ s.doc \subseteq kept
      BY DEF Workspaces, Documents, Marks
    <3>2. /\ s.doc \in Documents /\ s.active \in Profiles /\ s.files \in Files /\ s.active \in s.doc
          /\ s = [doc |-> s.doc, active |-> s.active, files |-> s.files]
      BY DEF Workspaces
    <3>3. u = CASE w \in Profiles  -> [doc |-> kept, active |-> w, files |-> w]
                [] w = "reapply"   -> [s EXCEPT !.files = s.active]
                [] w = "backfill"  -> [s EXCEPT !.doc = kept]
                [] w = "clear"     -> [s EXCEPT !.files = "cleared"]
                [] w = "file"      -> [s EXCEPT !.files = "edited"]
      BY DEF Mutated
    <3> HIDE DEF kept, u
    <3>4. CASE w \in Profiles
      <4>1. u = [doc |-> kept, active |-> w, files |-> w] \/ (w \in {"reapply", "backfill", "clear", "file"})
        BY <3>3, <3>4
      <4>2. \/ u = [doc |-> kept, active |-> w, files |-> w]
            \/ u = [s EXCEPT !.files = s.active] \/ u = [s EXCEPT !.doc = kept]
            \/ u = [s EXCEPT !.files = "cleared"] \/ u = [s EXCEPT !.files = "edited"]
        BY <3>3, <3>4
      <4> QED BY <2>2, <3>1, <3>2, <3>4, <4>2 DEF Workspaces, Files
    <3>5. CASE w \notin Profiles
      <4>1. w \in {"reapply", "backfill", "clear", "file"}
        BY <2>1, <3>5 DEF Kinds
      <4>2. \/ u = [s EXCEPT !.files = s.active] \/ u = [s EXCEPT !.doc = kept]
            \/ u = [s EXCEPT !.files = "cleared"] \/ u = [s EXCEPT !.files = "edited"]
        BY <3>3, <3>5, <4>1
      <4> QED BY <3>1, <3>2, <4>2 DEF Workspaces, Files
    <3> QED BY <3>4, <3>5
  <2> HIDE DEF u
  <2>3. CASE o = Refused(s, request)
    <3>1. o.stored = s
      BY <2>3 DEF Refused
    <3> QED BY <1>2, <1>3, <2>3, <3>1
  <2>4. CASE o = Done(u, request) /\ (request.what \in Profiles => request.what \in s.doc)
    BY <1>2, <1>4, <2>2, <2>4
  <2> QED BY <2>1, <2>3, <2>4
<1> QED BY <1>1, <1>6, <1>7, <1>8, <1>9

LEMMA LaneKnown ==
  ASSUME PageInv, NEW l \in Lanes
  PROVE  /\ LaneTyped(lanes[l], l)
         /\ lanes[l].requests \in Seq(RequestsOf(l)) /\ lanes[l].answers \in Seq(AnswersOf(l))
         /\ lanes[l].up \in BOOLEAN
         /\ lanes[l] \in [requests : Seq(RequestsOf(l)), answers : Seq(AnswersOf(l)), up : BOOLEAN]
         /\ \A i \in DOMAIN lanes[l].requests : lanes[l].requests[i] \in RequestsOf(l)
         /\ \A i \in DOMAIN lanes[l].answers : lanes[l].answers[i] \in AnswersOf(l)
<1>1. LaneTyped(lanes[l], l)
  BY DEF PageInv, TurnInv
<1>2. /\ lanes[l].requests \in Seq(RequestsOf(l)) /\ lanes[l].answers \in Seq(AnswersOf(l))
      /\ lanes[l].up \in BOOLEAN
      /\ lanes[l] \in [requests : Seq(RequestsOf(l)), answers : Seq(AnswersOf(l)), up : BOOLEAN]
  BY <1>1 DEF LaneTyped
<1>3. ASSUME NEW S, NEW s \in Seq(S) PROVE \A i \in DOMAIN s : s[i] \in S
  BY LenProperties, ElementOfSeq
<1> QED BY <1>1, <1>2, <1>3

(* The n-th request of a lane is answered and leaves with those before it. *)
LEMMA ServedLane ==
  ASSUME PageInv, NEW l \in {"store", "activation"}, lanes[l].up, lanes[l].requests # <<>>,
         NEW n \in 1..Len(lanes[l].requests), NEW a \in AnswersOf(l),
         a.kind = lanes[l].requests[n].kind, a.id = lanes[l].requests[n].id,
         page' = page,
         lanes' = [lanes EXCEPT ![l].requests = SubSeq(@, n + 1, Len(@)),
                                ![l].answers = Append(@, a)]
  PROVE  TurnInv(page', lanes')
<1> DEFINE r == lanes[l].requests
           s == lanes[l].answers
           rest == SubSeq(r, n + 1, Len(r))
           more == Append(s, a)
           lane == [lanes[l] EXCEPT !.requests = rest, !.answers = more]
           m == Len(s)
<1>1. l \in Lanes
  BY DEF Lanes
<1>2. /\ r \in Seq(RequestsOf(l)) /\ s \in Seq(AnswersOf(l)) /\ lanes[l].up
      /\ lanes[l] \in [requests : Seq(RequestsOf(l)), answers : Seq(AnswersOf(l)), up : BOOLEAN]
      /\ \A i \in DOMAIN r : r[i] \in RequestsOf(l)
      /\ \A i \in DOMAIN s : s[i] \in AnswersOf(l)
  BY <1>1, LaneKnown
<1>3. /\ rest \in Seq(RequestsOf(l))
      /\ \A i \in DOMAIN rest : i \in Nat /\ n + i \in DOMAIN r /\ n < n + i /\ rest[i] = r[n + i]
  <2> DEFINE S == RequestsOf(l)
  <2>1. r \in Seq(S) /\ n \in 1..Len(r)
    BY <1>2
  <2> HIDE DEF r, S
  <2>2. /\ rest \in Seq(S)
        /\ \A i \in DOMAIN rest : i \in Nat /\ n + i \in DOMAIN r /\ n < n + i /\ rest[i] = r[n + i]
    BY <2>1, Remaining
  <2> QED BY <2>2 DEF S
<1>4. /\ more \in Seq(AnswersOf(l))
      /\ Len(more) = m + 1 /\ more[m + 1] = a /\ \A i \in 1..m : more[i] = s[i]
  BY <1>2, AppendProperties
<1>5. m \in Nat /\ DOMAIN more = 1..(m + 1) /\ DOMAIN s = 1..m
      /\ n \in Nat /\ n \in DOMAIN r
  <2>1. DOMAIN more = 1..Len(more) /\ m \in Nat /\ DOMAIN s = 1..m /\ DOMAIN r = 1..Len(r)
        /\ Len(r) \in Nat
    BY <1>2, <1>4, LenProperties
  <2> QED BY <1>4, <2>1
<1>6. lanes' = [lanes EXCEPT ![l] = lane]
  OBVIOUS
<1>7. lanes[l].requests = r /\ lanes[l].answers = s /\ lane.requests = rest /\ lane.answers = more
      /\ a.kind = r[n].kind /\ a.id = r[n].id
      /\ lane = [lanes[l] EXCEPT !.requests = rest, !.answers = more]
  BY <1>2
<1> HIDE DEF rest, more, r, s, m, lane
<1>8. LaneTyped(lane, l)
  BY <1>2, <1>3, <1>4, <1>7 DEF LaneTyped
<1>9. ASSUME l = "activation" PROVE Numbered(page, lane)
  <2>1. Numbered(page, lanes[l])
    BY <1>9 DEF PageInv, TurnInv
  <2>2. /\ Ascending(r) /\ Ascending(s)
        /\ \A i \in DOMAIN s, j \in DOMAIN r : s[i].id < r[j].id
        /\ \A i \in DOMAIN r : Expected(page, r[i])
        /\ \A i \in DOMAIN s : Expected(page, s[i])
    BY <1>7, <2>1 DEF Numbered
  <2>3. /\ \A i \in DOMAIN r : r[i].id \in Nat
        /\ \A i \in DOMAIN s : s[i].id \in Nat
        /\ a.id \in Nat
    <3>1. (\A q \in RequestsOf(l) : q.id \in Nat) /\ \A q \in AnswersOf(l) : q.id \in Nat
      BY <1>9 DEF RequestsOf, AnswersOf, Answers
    <3> QED BY <1>2, <3>1
  <2>4. \A i \in DOMAIN rest : a.id < rest[i].id /\ Expected(page, rest[i])
    <3> SUFFICES ASSUME NEW i \in DOMAIN rest PROVE a.id < rest[i].id /\ Expected(page, rest[i])
      OBVIOUS
    <3>1. n + i \in DOMAIN r /\ n < n + i /\ rest[i] = r[n + i]
      BY <1>3
    <3>2. r[n].id < r[n + i].id
      BY <1>5, <2>2, <3>1 DEF Ascending
    <3> QED BY <1>7, <2>2, <3>1, <3>2
  <2>5. \A i \in DOMAIN more : (i \in DOMAIN s /\ more[i] = s[i]) \/ (i = m + 1 /\ more[i] = a)
    BY <1>4, <1>5
  <2>6. Expected(page, a)
    BY <1>5, <1>7, <2>2 DEF Expected
  <2>7. \A i \in DOMAIN s : s[i].id < a.id
    BY <1>5, <1>7, <2>2
  <2>8. Ascending(rest)
    <3> SUFFICES ASSUME NEW i \in DOMAIN rest, NEW j \in DOMAIN rest, i < j PROVE rest[i].id < rest[j].id
      BY DEF Ascending
    <3>1. /\ n + i \in DOMAIN r /\ rest[i] = r[n + i] /\ i \in Nat
          /\ n + j \in DOMAIN r /\ rest[j] = r[n + j] /\ j \in Nat
      BY <1>3
    <3>2. n + i < n + j
      BY <1>5, <3>1
    <3> QED BY <2>2, <3>1, <3>2 DEF Ascending
  <2>9. Ascending(more)
    <3> SUFFICES ASSUME NEW i \in DOMAIN more, NEW j \in DOMAIN more, i < j PROVE more[i].id < more[j].id
      BY DEF Ascending
    <3>1. i \in DOMAIN s /\ more[i] = s[i]
      <4>1. i # m + 1
        BY <1>5
      <4> QED BY <2>5, <4>1
    <3>2. CASE j \in DOMAIN s /\ more[j] = s[j]
      BY <2>2, <3>1, <3>2 DEF Ascending
    <3>3. CASE more[j] = a
      BY <2>7, <3>1, <3>3
    <3> QED BY <2>5, <3>2, <3>3
  <2>10. \A i \in DOMAIN more, j \in DOMAIN rest : more[i].id < rest[j].id
    <3> SUFFICES ASSUME NEW i \in DOMAIN more, NEW j \in DOMAIN rest PROVE more[i].id < rest[j].id
      OBVIOUS
    <3>1. CASE more[i] = a
      BY <2>4, <3>1
    <3>2. CASE i \in DOMAIN s /\ more[i] = s[i]
      BY <1>3, <2>2, <3>2
    <3> QED BY <2>5, <3>1, <3>2
  <2> QED BY <1>7, <2>2, <2>4, <2>5, <2>6, <2>8, <2>9, <2>10 DEF Numbered
<1>10. ASSUME l = "store" PROVE ForeignKept(page, lane)
  BY <1>3, <1>7, <1>10 DEF PageInv, TurnInv, ForeignKept
<1> QED BY <1>1, <1>6, <1>8, <1>9, <1>10, LaneStep

LEMMA ServeStep ==
  ASSUME PageInv, NEW l \in {"store", "activation"}, Serve(l)
  PROVE  TurnInv(page', lanes') /\ stored' \in Workspaces
<1> DEFINE r == lanes[l].requests
<1>1. /\ r \in Seq(RequestsOf(l)) /\ r # <<>> /\ lanes[l].up /\ stored \in Workspaces
      /\ \A i \in DOMAIN r : r[i] \in RequestsOf(l)
  BY LaneKnown DEF Serve, Lanes, PageInv
<1>2. PICK n \in 1..Len(r) : /\ Taken(r).request = r[n]
                             /\ Taken(r).rest = SubSeq(r, n + 1, Len(r))
  BY <1>1, Takes
<1>3. PICK o \in Outcomes(stored, Taken(r).request) :
        /\ stored' = o.stored /\ page' = page
        /\ lanes' = [lanes EXCEPT ![l].requests = Taken(r).rest, ![l].answers = Append(@, o.answer)]
  BY DEF Serve
<1>4. r[n] \in RequestsOf(l) /\ o \in Outcomes(stored, r[n])
  BY <1>1, <1>2, <1>3, LenProperties
<1>5. /\ o.stored \in Workspaces /\ o.answer \in AnswersOf(l)
      /\ o.answer.kind = r[n].kind /\ o.answer.id = r[n].id
  BY <1>1, <1>4, Stores
<1>6. lanes' = [lanes EXCEPT ![l].requests = SubSeq(@, n + 1, Len(@)), ![l].answers = Append(@, o.answer)]
  BY <1>2, <1>3
<1>7. TurnInv(page', lanes')
  BY <1>1, <1>3, <1>5, <1>6, ServedLane
<1> QED BY <1>3, <1>5, <1>7

LEMMA DieStep ==
  ASSUME PageInv, NEW l \in {"store", "activation"}, Die(l)
  PROVE  TurnInv(page', lanes') /\ stored' \in Workspaces
<1> DEFINE r == lanes[l].requests
           lane == [lanes[l] EXCEPT !.up = FALSE, !.requests = <<>>]
<1>1. /\ r \in Seq(RequestsOf(l)) /\ stored \in Workspaces /\ LaneTyped(lanes[l], l) /\ l \in Lanes
      /\ lanes[l] \in [requests : Seq(RequestsOf(l)), answers : Seq(AnswersOf(l)), up : BOOLEAN]
      /\ \A i \in DOMAIN r : r[i] \in RequestsOf(l)
  BY LaneKnown DEF Lanes, PageInv
<1>2. stored' \in Workspaces
  <2>1. CASE stored' = stored
    BY <1>1, <2>1
  <2>2. CASE stored' # stored
    <3>1. PICK o \in Outcomes(stored, Taken(r).request) : stored' = o.stored /\ r # <<>>
      BY <2>2 DEF Die
    <3>2. PICK n \in 1..Len(r) : Taken(r).request = r[n]
      BY <1>1, <3>1, Takes
    <3>3. r[n] \in RequestsOf(l) /\ o \in Outcomes(stored, r[n])
      BY <1>1, <3>1, <3>2, LenProperties
    <3> QED BY <1>1, <3>1, <3>3, Stores
  <2> QED BY <2>1, <2>2
<1>3. l \in Mortal /\ page' = page /\ lanes' = [lanes EXCEPT ![l] = lane]
  BY DEF Die
<1>4. /\ lane.requests = <<>> /\ lane.answers = lanes[l].answers /\ lane.up = FALSE
      /\ lane \in [requests : Seq(RequestsOf(l)), answers : Seq(AnswersOf(l)), up : BOOLEAN]
  <2>1. <<>> \in Seq(RequestsOf(l))
    BY EmptySeq
  <2> QED BY <1>1, <2>1
<1> HIDE DEF lane
<1>5. LaneTyped(lane, l)
  BY <1>3, <1>4 DEF LaneTyped
<1>6. DOMAIN lane.requests = {}
  BY <1>4
<1>7. l = "activation" => Numbered(page, lane)
  BY <1>4, <1>6 DEF PageInv, TurnInv, Numbered, Ascending
<1>8. l = "store" => ForeignKept(page, lane)
  BY <1>6 DEF PageInv, TurnInv, ForeignKept
<1>9. TurnInv(page', lanes')
  BY <1>1, <1>3, <1>5, <1>7, <1>8, LaneStep
<1> QED BY <1>2, <1>9

(* The rest of a lane's answers, once the first is reduced. *)
LEMMA Shorter ==
  ASSUME NEW S, NEW s \in Seq(S), s # <<>>
  PROVE  /\ Head(s) \in S /\ Head(s) = s[1] /\ 1 \in DOMAIN s /\ Tail(s) \in Seq(S)
         /\ \A i \in DOMAIN Tail(s) : i \in Nat /\ i + 1 \in DOMAIN s /\ 1 < i + 1 /\ Tail(s)[i] = s[i + 1]
<1> DEFINE r == Tail(s)
<1>1. Len(s) \in Nat \ {0} /\ DOMAIN s = 1..Len(s)
  BY EmptySeq, LenProperties
<1>2. /\ Head(s) \in S /\ r \in Seq(S) /\ Len(r) = Len(s) - 1
      /\ \A i \in 1..Len(r) : r[i] = s[i + 1]
  BY HeadTailProperties
<1>3. DOMAIN r = 1..Len(r)
  BY <1>2, LenProperties
<1>4. Head(s) = s[1]
  OBVIOUS
<1> HIDE DEF r
<1>5. 1 \in DOMAIN s /\ \A i \in DOMAIN r : i \in Nat /\ i + 1 \in DOMAIN s /\ 1 < i + 1
  <2>1. Len(s) \in Nat \ {0} /\ Len(r) = Len(s) - 1 /\ DOMAIN s = 1..Len(s) /\ DOMAIN r = 1..Len(r)
    BY <1>1, <1>2, <1>3
  <2> QED BY <2>1
<1> QED BY <1>2, <1>3, <1>4, <1>5 DEF r

LEMMA ServeTestStep ==
  ASSUME PageInv, ServeTest
  PROVE  TurnInv(page', lanes') /\ stored' \in Workspaces
<1> DEFINE l == "test"
           r == lanes[l].requests
           s == lanes[l].answers
           more == Append(s, Head(r))
           rest == Tail(r)
           lane == [lanes[l] EXCEPT !.answers = more, !.requests = rest]
           m == Len(s)
<1>1. /\ r \in Seq(RequestsOf(l)) /\ s \in Seq(RequestsOf(l)) /\ RequestsOf(l) = AnswersOf(l)
      /\ LaneTyped(lanes[l], l) /\ l \in Lanes /\ r # <<>>
      /\ lanes[l] \in [requests : Seq(RequestsOf(l)), answers : Seq(AnswersOf(l)), up : BOOLEAN]
  BY LaneKnown DEF Lanes, ServeTest, RequestsOf, AnswersOf
<1>2. page' = page /\ lanes' = [lanes EXCEPT ![l] = lane] /\ stored' \in Workspaces
  BY DEF ServeTest, PageInv
<1>3. /\ Head(r) \in RequestsOf(l) /\ Head(r) = r[1] /\ 1 \in DOMAIN r /\ rest \in Seq(RequestsOf(l))
      /\ \A i \in DOMAIN rest : i + 1 \in DOMAIN r /\ rest[i] = r[i + 1]
  BY <1>1, Shorter
<1>4. /\ more \in Seq(RequestsOf(l)) /\ Len(more) = m + 1
      /\ more[m + 1] = r[1] /\ \A i \in 1..m : more[i] = s[i]
  BY <1>1, <1>3, AppendProperties
<1>5. /\ lane.requests = rest /\ lane.answers = more /\ lane.up = lanes[l].up
      /\ lane \in [requests : Seq(RequestsOf(l)), answers : Seq(AnswersOf(l)), up : BOOLEAN]
  BY <1>1, <1>3, <1>4
<1>6. DOMAIN more = 1..(m + 1) /\ DOMAIN s = 1..m /\ m \in Nat
  BY <1>1, <1>4, LenProperties
<1>7. lanes[l].up
  BY <1>1, InstanceAssumption DEF LaneTyped
<1> HIDE DEF lane, more, rest, m
<1>8. LaneTyped(lane, l)
  BY <1>5, <1>7 DEF LaneTyped
<1>9. TestsKnown(page, lanes[l])
  BY DEF PageInv, TurnInv
<1>10. \A i \in DOMAIN more : (i \in DOMAIN s /\ more[i] = s[i]) \/ more[i] = r[1]
  BY <1>4, <1>6
<1>11. TestsKnown(page, lane)
  BY <1>3, <1>5, <1>9, <1>10 DEF TestsKnown
<1>12. TurnInv(page', lanes')
  BY <1>1, <1>2, <1>8, <1>11, LaneStep
<1> QED BY <1>2, <1>12

LEMMA ServeSideStep ==
  ASSUME PageInv, ServeSide
  PROVE  /\ TurnInv(page', lanes') /\ stored' \in Workspaces
         /\ "ext" \in stored.doc => "ext" \in stored'.doc
<1> DEFINE l == "side"
           kind == Head(lanes[l].requests).kind
           s == IF kind = "import" THEN [stored EXCEPT !.doc = @ \cup {"ext"}] ELSE stored
           a == <<[kind |-> kind, ws |-> s]>>
           lane == [lanes[l] EXCEPT !.requests = <<>>, !.answers = a]
<1>1. /\ lanes[l].requests \in Seq(RequestsOf(l)) /\ lanes[l].requests # <<>>
      /\ LaneTyped(lanes[l], l) /\ l \in Lanes
      /\ lanes[l] \in [requests : Seq(RequestsOf(l)), answers : Seq(AnswersOf(l)), up : BOOLEAN]
  BY LaneKnown DEF Lanes, ServeSide
<1>2. page' = page /\ lanes' = [lanes EXCEPT ![l] = lane] /\ stored' = s
  BY DEF ServeSide
<1>3. kind \in {"import", "context"}
  <2>1. Head(lanes[l].requests) \in RequestsOf(l)
    BY <1>1, Shorter
  <2> QED BY <2>1 DEF RequestsOf
<1> HIDE DEF kind
<1>4. s \in Workspaces /\ ("ext" \in stored.doc => "ext" \in s.doc)
  BY DEF PageInv, Workspaces, Documents, Marks
<1> HIDE DEF s
<1>5. a \in Seq(AnswersOf(l))
  BY <1>3, <1>4 DEF AnswersOf
<1> HIDE DEF a
<1>6. lanes[l].up
  BY <1>1, InstanceAssumption DEF LaneTyped
<1>7. <<>> \in Seq(RequestsOf(l))
  BY EmptySeq
<1>8. LaneTyped(lane, l)
  BY <1>1, <1>5, <1>6, <1>7 DEF LaneTyped
<1> HIDE DEF lane
<1>9. TurnInv(page', lanes')
  BY <1>1, <1>2, <1>8, LaneStep
<1> QED BY <1>2, <1>4, <1>9

LEMMA ForeignStep ==
  ASSUME PageInv, Foreign
  PROVE  /\ TurnInv(page', lanes') /\ stored' \in Workspaces
         /\ "ext" \in stored.doc => "ext" \in stored'.doc
<1>1. /\ stored' \in {[stored EXCEPT !.doc = @ \cup {"ext"}], [stored EXCEPT !.files = "edited"]}
      /\ page' = page /\ lanes' = lanes /\ stored \in Workspaces
  BY DEF Foreign, PageInv
<1>2. stored' \in Workspaces /\ ("ext" \in stored.doc => "ext" \in stored'.doc)
  BY <1>1 DEF Workspaces, Documents, Marks, Files
<1> QED BY <1>1, <1>2 DEF PageInv

-----------------------------------------------------------------------------
(* What the page makes of the answers. *)

LEMMA PoppedLanes ==
  ASSUME PageInv, NEW l \in Lanes, lanes[l].answers # <<>>
  PROVE  LET lane == [lanes[l] EXCEPT !.answers = Tail(lanes[l].answers)] IN
         /\ Popped(l) = [page |-> page, lanes |-> [lanes EXCEPT ![l] = lane]]
         /\ DOMAIN Popped(l) = {"page", "lanes"}
         /\ Popped(l).lanes = [lanes EXCEPT ![l] = lane]
<1> DEFINE s == lanes[l].answers
           r == Tail(s)
           lane == [lanes[l] EXCEPT !.answers = r]
           L == [lanes EXCEPT ![l] = lane]
           t == Popped(l)
<1>1. t = [page |-> page, lanes |-> L]
  BY DEF Popped, Turn
<1> HIDE DEF t, L
<1>2. DOMAIN t = {"page", "lanes"} /\ t.lanes = L
  BY <1>1
<1> QED BY <1>1, <1>2 DEF t, L

(* A lane without its first answer. *)
LEMMA PoppedTurn ==
  ASSUME PageInv, NEW l \in Lanes, lanes[l].answers # <<>>
  PROVE  LET t == Popped(l)
             a == Head(lanes[l].answers) IN
         /\ IsTurn(t) /\ t.page = page /\ a \in AnswersOf(l)
         /\ l = "activation" => Expected(page, a) /\ Without(t.lanes[l], a.id)
         /\ l = "test" => OfDraft(page, a)
<1> DEFINE s == lanes[l].answers
           r == Tail(s)
           a == Head(s)
           lane == [lanes[l] EXCEPT !.answers = r]
           L == [lanes EXCEPT ![l] = lane]
           t == Popped(l)
<1>1. /\ LaneTyped(lanes[l], l) /\ s \in Seq(AnswersOf(l)) /\ s # <<>>
      /\ lanes[l] \in [requests : Seq(RequestsOf(l)), answers : Seq(AnswersOf(l)), up : BOOLEAN]
      /\ \A i \in DOMAIN lanes[l].requests : lanes[l].requests[i] \in RequestsOf(l)
      /\ \A i \in DOMAIN s : s[i] \in AnswersOf(l)
  BY LaneKnown
<1>2. /\ a \in AnswersOf(l) /\ a = s[1] /\ 1 \in DOMAIN s /\ r \in Seq(AnswersOf(l))
      /\ \A i \in DOMAIN r : i \in Nat /\ i + 1 \in DOMAIN s /\ 1 < i + 1 /\ r[i] = s[i + 1]
  BY <1>1, Shorter
<1>3. t = [page |-> page, lanes |-> L]
  BY PoppedLanes
<1> HIDE DEF t
<1>4. t.page = page /\ t.lanes = L /\ DOMAIN t = {"page", "lanes"}
  BY <1>3
<1> HIDE DEF r, a
<1>5. /\ lane.requests = lanes[l].requests /\ lane.answers = r /\ lane.up = lanes[l].up
      /\ lane \in [requests : Seq(RequestsOf(l)), answers : Seq(AnswersOf(l)), up : BOOLEAN]
  BY <1>1, <1>2
<1> HIDE DEF lane
<1>6. DOMAIN L = Lanes /\ L[l] = lane /\ \A k \in Lanes \ {l} : L[k] = lanes[k]
  BY DEF PageInv, TurnInv
<1> HIDE DEF L
<1>7. LaneTyped(lane, l)
  BY <1>1, <1>5 DEF LaneTyped
<1>8. ASSUME l = "activation"
      PROVE  Numbered(page, lane) /\ Expected(page, a) /\ Without(lane, a.id)
  <2>1. Numbered(page, lanes[l])
    BY <1>8 DEF PageInv, TurnInv
  <2>2. /\ Ascending(s) /\ \A i \in DOMAIN s : Expected(page, s[i])
        /\ \A i \in DOMAIN s, j \in DOMAIN lane.requests : s[i].id < lane.requests[j].id
    BY <1>5, <2>1 DEF Numbered
  <2>3. Ascending(r)
    <3> SUFFICES ASSUME NEW i \in DOMAIN r, NEW j \in DOMAIN r, i < j PROVE r[i].id < r[j].id
      BY DEF Ascending
    <3>1. /\ i + 1 \in DOMAIN s /\ r[i] = s[i + 1] /\ i \in Nat
          /\ j + 1 \in DOMAIN s /\ r[j] = s[j + 1] /\ j \in Nat
      BY <1>2
    <3>2. i + 1 < j + 1
      BY <3>1
    <3> QED BY <2>2, <3>1, <3>2 DEF Ascending
  <2>4. \A q \in RequestsOf(l) : q.id \in Nat
    BY <1>8 DEF RequestsOf
  <2>5. \A q \in AnswersOf(l) : q.id \in Nat
    BY <1>8 DEF AnswersOf, Answers
  <2>6. \A i \in DOMAIN r : a.id < r[i].id
    BY <1>2, <2>2 DEF Ascending
  <2>7. \A j \in DOMAIN lane.requests : a.id < lane.requests[j].id
    BY <1>2, <2>2
  <2>8. \A x, y \in Nat : x < y => y # x
    OBVIOUS
  <2>9. /\ \A i \in DOMAIN r : r[i].id \in Nat
        /\ \A j \in DOMAIN lane.requests : lane.requests[j].id \in Nat
        /\ a.id \in Nat
    BY <1>1, <1>2, <1>5, <2>4, <2>5
  <2>10. Without(lane, a.id)
    BY <1>5, <2>6, <2>7, <2>8, <2>9 DEF Without
  <2>11. Expected(page, a) /\ \A i \in DOMAIN r : Expected(page, r[i])
    BY <1>2, <2>2
  <2>12. \A i \in DOMAIN r, j \in DOMAIN lane.requests : r[i].id < lane.requests[j].id
    BY <1>2, <2>2
  <2>13. Numbered(page, lane)
    BY <1>5, <2>1, <2>3, <2>11, <2>12 DEF Numbered
  <2> QED BY <2>10, <2>11, <2>13
<1>9. ASSUME l = "test" PROVE TestsKnown(page, lane) /\ OfDraft(page, a)
  <2>1. TestsKnown(page, lanes[l])
    BY <1>9 DEF PageInv, TurnInv
  <2> QED BY <1>2, <1>5, <2>1 DEF TestsKnown
<1>10. l = "store" => ForeignKept(page, lane)
  BY <1>5 DEF PageInv, TurnInv, ForeignKept
<1>11. {"activation", "test", "store"} \subseteq Lanes
  BY DEF Lanes
<1>12. \A k \in Lanes : LaneTyped(L[k], k)
  BY <1>6, <1>7 DEF PageInv, TurnInv
<1>13. Numbered(page, L["activation"]) /\ TestsKnown(page, L["test"]) /\ ForeignKept(page, L["store"])
  BY <1>6, <1>8, <1>9, <1>10, <1>11 DEF PageInv, TurnInv
<1>14. TurnInv(page, L)
  BY <1>6, <1>12, <1>13 DEF PageInv, TurnInv
<1>15. IsTurn(t)
  BY <1>3, <1>4, <1>14 DEF IsTurn
<1> QED BY <1>2, <1>4, <1>6, <1>8, <1>9, <1>15 DEF t, a

LEMMA SaveAnswerKeeps ==
  ASSUME NEW t, IsTurn(t), NEW a \in Answers({"save", "extract"}), a.kind = "save"
  PROVE  IsTurn(SaveAnswered(t, a))
<1> DEFINE pg == t.page
           first == First(a.ws.doc)
           r == Replaced(pg, a.ws, first)
           m == [r EXCEPT !.save.phase = "ready"]
           kept == Synced(m)
           u == [kept EXCEPT !.guard = None, !.guardSave = None]
           next == IF pg.guardSave = "provider" THEN TargetApplied(u, pg.guard) ELSE kept
           f == SaveFailed(pg)
<1>1. PageTyped(pg) /\ pg.save \in Operation(Phases)
  BY TurnPage DEF PageTyped
<1>2. \/ SaveAnswered(t, a) = t
      \/ a.ok /\ SaveAnswered(t, a) = TransitionCompleted(With(t, next))
      \/ SaveAnswered(t, a) = With(t, f)
  BY DEF SaveAnswered, Answers
<1>3. Moved(pg, f)
  <2>1. But(pg, f, {"save"}) /\ f.save = [pg.save EXCEPT !.phase = "error"]
    BY <1>1 DEF SaveFailed, But, PageTyped, NewPage, Outer
  <2>2. f.save \in Operation(Phases)
    BY <1>1, <2>1 DEF Operation, Phases
  <2> HIDE DEF f
  <2> QED BY <1>1, <2>1, <2>2, SaveMoves
<1>4. ASSUME a.ok PROVE Moved(pg, next)
  <2>1. a.ws \in Workspaces
    BY <1>4 DEF Answers
  <2>2. first \in Profiles
    BY <2>1, FirstKnown DEF Workspaces
  <2> HIDE DEF first
  <2>3. Moved(pg, r) /\ PageTyped(r) /\ r.save = pg.save
    BY <1>1, <2>1, <2>2, ReplacedMoves DEF Moved
  <2> HIDE DEF r
  <2>4. But(r, m, {"save"}) /\ m.save = [pg.save EXCEPT !.phase = "ready"]
    BY <2>3 DEF But, PageTyped, NewPage, Outer
  <2>5. m.save \in Operation(Phases)
    BY <1>1, <2>4 DEF Operation, Phases
  <2> HIDE DEF m
  <2>6. Moved(r, m) /\ PageTyped(m)
    BY <2>3, <2>4, <2>5, SaveMoves DEF Moved
  <2>7. Moved(pg, kept) /\ PageTyped(kept)
    BY <2>3, <2>6, SyncedMoves, MovedTwice DEF Moved
  <2> HIDE DEF kept
  <2>8. But(kept, u, {})
    BY <2>7 DEF But, PageTyped, NewPage, Outer
  <2> HIDE DEF u
  <2>9. Moved(pg, u) /\ PageTyped(u)
    BY <2>7, <2>8, OuterMoves, MovedTwice DEF Moved
  <2>10. Moved(pg, TargetApplied(u, pg.guard))
    BY <2>9, TargetMoves, MovedTwice
  <2> QED BY <2>7, <2>10
<1> HIDE DEF next, f
<1> QED BY <1>2, <1>3, <1>4, WithMoved, TransitionKeeps

LEMMA ExtractAnswerKeeps ==
  ASSUME NEW t, IsTurn(t), NEW a \in Answers({"save", "extract"})
  PROVE  IsTurn(ExtractAnswered(t, a))
<1> DEFINE old == t.page
           pg == [old EXCEPT !.extraction.phase = "ready", !.submitted = None]
           first == First(a.ws.doc)
           r == Replaced(pg, a.ws, first)
           w == [doc |-> a.ws.doc, active |-> a.ws.active]
           b == [pg EXCEPT !.baseline = w]
           f == ExtractFailed(pg)
<1>1. PageTyped(old) /\ old.extraction \in Operation(Phases)
  BY TurnPage DEF PageTyped
<1>2. CASE a.id # old.extraction.id \/ ~Running(old.extraction)
  <2>1. ExtractAnswered(t, a) = t
    BY <1>2 DEF ExtractAnswered
  <2> QED BY <2>1
<1>3. CASE ~(a.id # old.extraction.id \/ ~Running(old.extraction))
  <2>1. "extract" \in Uses
    BY <1>3 DEF IsTurn, TurnInv, ForeignKept
  <2>2. \/ ExtractAnswered(t, a) = With(t, f)
        \/ ExtractAnswered(t, a) = With(t, pg)
        \/ a.ws # None /\ ExtractAnswered(t, a) = With(t, Synced(r))
        \/ a.ws # None /\ ExtractAnswered(t, a) = With(t, Synced(b))
    BY <1>3 DEF ExtractAnswered
  <2>3. /\ But(old, pg, {"extraction", "submitted"}) /\ pg.submitted = None
        /\ pg.extraction = [old.extraction EXCEPT !.phase = "ready"]
    BY <1>1 DEF But, PageTyped, NewPage, Outer
  <2>4. pg.extraction \in Operation(Phases) /\ ~Running(pg.extraction) /\ None \in Maybe(Documents)
    BY <1>1, <2>3 DEF Operation, Phases, Running, Maybe
  <2> HIDE DEF pg
  <2>5. Moved(old, pg) /\ PageTyped(pg)
    BY <1>1, <2>3, <2>4, ExtractMoves DEF Moved
  <2>6. Moved(pg, f)
    <3>1. /\ But(pg, f, {"extraction", "submitted"}) /\ f.submitted = None
          /\ f.extraction = [pg.extraction EXCEPT !.phase = "error"]
      BY <2>5 DEF ExtractFailed, But, PageTyped, NewPage, Outer
    <3>2. f.extraction \in Operation(Phases) /\ ~Running(f.extraction)
      BY <2>4, <3>1 DEF Operation, Phases, Running
    <3> HIDE DEF f
    <3> QED BY <2>4, <2>5, <3>1, <3>2, ExtractMoves
  <2>7. ASSUME a.ws # None PROVE Moved(pg, r) /\ PageTyped(r)
    <3>1. a.ws \in Workspaces
      BY <2>7 DEF Answers, Maybe
    <3>2. first \in Profiles
      BY <3>1, FirstKnown DEF Workspaces
    <3> HIDE DEF first
    <3> QED BY <2>5, <3>1, <3>2, ReplacedMoves DEF Moved
  <2>8. ASSUME a.ws # None PROVE Moved(pg, b) /\ PageTyped(b)
    <3>1. w \in Views
      BY <2>8 DEF Answers, Maybe, Workspaces, Views
    <3> HIDE DEF w
    <3>2. But(pg, b, {"baseline"}) /\ b.baseline = w
      BY <2>5 DEF But, PageTyped, NewPage, Outer
    <3> HIDE DEF b
    <3>3. /\ b.draft = pg.draft /\ b.test = pg.test
          /\ b.extraction = pg.extraction /\ b.workspace = pg.workspace
          /\ b.submitted = pg.submitted /\ b.save = pg.save /\ b.load = pg.load
          /\ b.mutation = pg.mutation /\ b.nextId = pg.nextId
          /\ b.gen = pg.gen /\ b.selected = pg.selected /\ b.confirmation = pg.confirmation
      BY <3>2 DEF But, NewPage, Outer
    <3>4. PageTyped(b)
      BY <2>5, <3>1, <3>2, <3>3, NamesAssumption DEF PageTyped, But, Maybe
    <3> QED BY <2>1, <3>3, <3>4 DEF Moved, DraftKeeps
  <2> HIDE DEF r, b, f
  <2>9. Moved(old, f) /\ (a.ws # None => Moved(old, Synced(r)) /\ Moved(old, Synced(b)))
    BY <2>5, <2>6, <2>7, <2>8, SyncedMoves, MovedTwice
  <2> QED BY <2>2, <2>5, <2>9, WithMoved
<1> QED BY <1>2, <1>3

LEMMA WithTwice ==
  ASSUME NEW t, IsTurn(t), NEW p, NEW q
  PROVE  With(With(t, p), q) = With(t, q)
<1>1. \A x : With(t, x) = [page |-> x, lanes |-> t.lanes]
  BY DEF With, IsTurn
<1>2. With(With(t, p), q) = [With(t, p) EXCEPT !.page = q]
  BY DEF With
<1> QED BY <1>1, <1>2

LEMMA LoadAnswerKeeps ==
  ASSUME NEW t, IsTurn(t), NEW a \in AnswersOf("activation"), a.kind = "load",
         Without(t.lanes["activation"], a.id)
  PROVE  IsTurn(LoadAnswered(t, a))
<1> DEFINE pg == t.page
           r == InstalledLive(pg, a.ws)
           q == [r EXCEPT !.load.phase = "ready", !.guard = None, !.guardSave = None]
           f == LoadFailed(pg)
<1>1. PageTyped(pg)
  BY TurnPage
<1>2. \/ LoadAnswered(t, a) = t
      \/ a.id = pg.load.id /\ a.ok /\ LoadAnswered(t, a) = With(t, q)
      \/ a.id = pg.load.id /\ LoadAnswered(t, a) = With(t, f)
  BY DEF LoadAnswered
<1>3. ASSUME a.id = pg.load.id PROVE IsTurn(With(t, f))
  <2>1. But(pg, f, {"load", "mutation"}) /\ f.load = [pg.load EXCEPT !.phase = "error"]
        /\ f.mutation = pg.mutation
    BY <1>1 DEF LoadFailed, But, PageTyped, NewPage, Outer
  <2> HIDE DEF f
  <2> QED BY <1>1, <1>3, <2>1, LoadEnded
<1>4. ASSUME a.id = pg.load.id, a.ok PROVE IsTurn(With(t, q))
  <2>1. a.ws \in Workspaces
    BY <1>4 DEF AnswersOf, Answers
  <2>2. Moved(pg, r) /\ PageTyped(r) /\ r.load = pg.load /\ r.mutation = pg.mutation
    BY <1>1, <2>1, LiveInstalled DEF Moved
  <2> HIDE DEF r
  <2>3. But(r, q, {"load", "mutation"}) /\ q.load = [pg.load EXCEPT !.phase = "ready"]
        /\ q.mutation = pg.mutation
    BY <2>2 DEF But, PageTyped, NewPage, Outer
  <2> HIDE DEF q
  <2> DEFINE u == With(t, r)
  <2>4. IsTurn(u) /\ u.page = r /\ u.lanes = t.lanes
    BY <2>2, WithMoved
  <2>5. With(u, q) = With(t, q)
    BY WithTwice
  <2> HIDE DEF u
  <2>6. IsTurn(With(u, q))
    <3>1. /\ But(u.page, q, {"load", "mutation"}) /\ q.mutation = u.page.mutation
          /\ q.load = [u.page.load EXCEPT !.phase = "ready"]
          /\ Without(u.lanes["activation"], u.page.load.id)
      BY <1>4, <2>2, <2>3, <2>4
    <3> QED BY <2>4, <3>1, LoadEnded
  <2> QED BY <2>5, <2>6
<1> HIDE DEF q, f
<1> QED BY <1>2, <1>3, <1>4

LEMMA MutationAnswerKeeps ==
  ASSUME NEW t, IsTurn(t), NEW a \in AnswersOf("activation"), a.kind = "mutate",
         Without(t.lanes["activation"], a.id)
  PROVE  IsTurn(MutationAnswered(t, a))
<1> DEFINE pg == t.page
           r == InstalledLive(pg, a.ws)
           done == [r EXCEPT !.mutation.phase = "ready"]
           chosen == IF pg.kind \in Profiles /\ pg.kind \in done.draft
                     THEN SelectedNow(done, pg.kind) ELSE done
           u == [chosen EXCEPT !.guard = None, !.guardSave = None]
           next == IF pg.guardSave = "live" THEN TargetApplied(u, pg.guard) ELSE chosen
           f == MutationFailed(pg)
<1>1. PageTyped(pg)
  BY TurnPage
<1>2. \/ MutationAnswered(t, a) = t
      \/ a.id = pg.mutation.id /\ a.ok /\ MutationAnswered(t, a) = TransitionCompleted(With(t, next))
      \/ a.id = pg.mutation.id /\ MutationAnswered(t, a) = With(t, f)
  BY DEF MutationAnswered
<1>3. ASSUME a.id = pg.mutation.id PROVE IsTurn(With(t, f))
  <2>1. But(pg, f, {"load", "mutation"}) /\ f.mutation = [pg.mutation EXCEPT !.phase = "error"]
        /\ f.load = pg.load
    BY <1>1 DEF MutationFailed, But, PageTyped, NewPage, Outer
  <2> HIDE DEF f
  <2> QED BY <1>1, <1>3, <2>1, MutationEnded
<1>4. ASSUME a.id = pg.mutation.id, a.ok PROVE IsTurn(With(t, next))
  <2>1. a.ws \in Workspaces
    BY <1>4 DEF AnswersOf, Answers
  <2>2. Moved(pg, r) /\ PageTyped(r) /\ r.load = pg.load /\ r.mutation = pg.mutation
    BY <1>1, <2>1, LiveInstalled DEF Moved
  <2> HIDE DEF r
  <2>3. But(r, done, {"load", "mutation"}) /\ done.mutation = [pg.mutation EXCEPT !.phase = "ready"]
        /\ done.load = pg.load
    BY <2>2 DEF But, PageTyped, NewPage, Outer
  <2> HIDE DEF done
  <2> DEFINE v == With(t, r)
             w == With(v, done)
  <2>4. IsTurn(v) /\ v.page = r /\ v.lanes = t.lanes
    BY <2>2, WithMoved
  <2> HIDE DEF v
  <2>5. IsTurn(w) /\ w.page = done
    <3>1. /\ But(v.page, done, {"load", "mutation"}) /\ done.load = v.page.load
          /\ done.mutation = [v.page.mutation EXCEPT !.phase = "ready"]
          /\ Without(v.lanes["activation"], v.page.mutation.id)
      BY <1>4, <2>2, <2>3, <2>4
    <3> QED BY <2>4, <3>1, MutationEnded
  <2>6. With(w, next) = With(t, next)
    BY <2>4, WithTwice DEF v
  <2> HIDE DEF w
  <2>7. PageTyped(done) /\ Moved(done, done)
    BY <2>5, TurnPage DEF Moved
  <2>8. Moved(done, chosen) /\ PageTyped(chosen)
    BY <2>7, SelectionMoves DEF Moved
  <2> HIDE DEF chosen
  <2>9. But(chosen, u, {})
    BY <2>8 DEF But, PageTyped, NewPage, Outer
  <2> HIDE DEF u
  <2>10. Moved(done, u) /\ PageTyped(u)
    BY <2>8, <2>9, OuterMoves, MovedTwice DEF Moved
  <2>11. Moved(done, TargetApplied(u, pg.guard))
    BY <2>10, TargetMoves, MovedTwice
  <2>12. Moved(done, next)
    BY <2>8, <2>11
  <2> HIDE DEF next
  <2>13. IsTurn(With(w, next))
    BY <2>5, <2>12, WithMoved
  <2> QED BY <2>6, <2>13
<1> HIDE DEF next, f
<1> QED BY <1>2, <1>3, <1>4, TransitionKeeps

LEMMA ReduceStoreStep ==
  ASSUME PageInv, ReduceStore
  PROVE  TurnInv(page', lanes')
<1> DEFINE l == "store"
           a == Head(lanes[l].answers)
           t == Popped(l)
<1>1. IsTurn(t) /\ a \in Answers({"save", "extract"})
  BY PoppedTurn DEF ReduceStore, Lanes, AnswersOf
<1>2. (a.kind = "save" /\ Becomes(SaveAnswered(t, a))) \/ Becomes(ExtractAnswered(t, a))
  BY DEF ReduceStore
<1> HIDE DEF t, a
<1> QED BY <1>1, <1>2, SaveAnswerKeeps, ExtractAnswerKeeps, Becoming

LEMMA ReduceActivationStep ==
  ASSUME PageInv, ReduceActivation
  PROVE  TurnInv(page', lanes')
<1> DEFINE l == "activation"
           a == Head(lanes[l].answers)
           t == Popped(l)
<1>1. IsTurn(t) /\ a \in AnswersOf(l) /\ Without(t.lanes[l], a.id)
  BY PoppedTurn DEF ReduceActivation, Lanes
<1>2. a.kind \in {"load", "mutate"}
  BY <1>1 DEF AnswersOf, Answers
<1>3. Becomes(IF a.kind = "load" THEN LoadAnswered(t, a) ELSE MutationAnswered(t, a))
  BY DEF ReduceActivation
<1> HIDE DEF t, a
<1>4. CASE a.kind = "load"
  BY <1>1, <1>3, <1>4, LoadAnswerKeeps, Becoming
<1>5. CASE a.kind = "mutate"
  BY <1>1, <1>3, <1>5, MutationAnswerKeeps, Becoming
<1> QED BY <1>2, <1>4, <1>5

LEMMA ReduceTestStep ==
  ASSUME PageInv, ReduceTest
  PROVE  TurnInv(page', lanes')
<1> DEFINE l == "test"
           token == Head(lanes[l].answers)
           t == Popped(l)
           q == [page EXCEPT !.test.phase = "ready", !.test.about = token.doc]
           T == [phase : Phases, id : Nat, profile : Maybe(Profiles \cup Marks), gen : Nat,
                 about : Maybe(Documents)]
<1>1. IsTurn(t) /\ t.page = page /\ token \in TestTokens /\ OfDraft(page, token)
  BY PoppedTurn DEF ReduceTest, Lanes, AnswersOf
<1>2. (Accepted(page, token) /\ Becomes(With(t, q))) \/ Becomes(t)
  BY DEF ReduceTest
<1>3. ASSUME Accepted(page, token) PROVE IsTurn(With(t, q))
  <2>1. /\ PageTyped(page) /\ page.test \in T /\ token.doc \in Documents
        /\ token.profile \in Profiles \cup Marks
    BY <1>1, TurnPage DEF PageTyped, TestTokens
  <2>2. token.doc = page.draft
    BY <1>1, <1>3, <2>1, NamesAssumption DEF OfDraft, Accepted
  <2>3. /\ But(page, q, {"test"})
        /\ q.test = [page.test EXCEPT !.phase = "ready", !.about = token.doc]
    BY <2>1 DEF But, PageTyped, NewPage, Outer
  <2> HIDE DEF q, token
  <2>4. /\ q.test \in T /\ q.test.id = page.test.id /\ q.test.profile = page.test.profile
        /\ q.test.about = page.draft
    BY <2>1, <2>2, <2>3 DEF Phases, Maybe
  <2>5. /\ q.draft = page.draft /\ q.baseline = page.baseline
        /\ q.extraction = page.extraction /\ q.workspace = page.workspace
        /\ q.submitted = page.submitted /\ q.save = page.save /\ q.load = page.load
        /\ q.mutation = page.mutation /\ q.nextId = page.nextId
        /\ q.gen = page.gen /\ q.selected = page.selected /\ q.confirmation = page.confirmation
    BY <2>3 DEF But, NewPage, Outer
  <2>6. PageTyped(q)
    BY <2>1, <2>3, <2>4, <2>5 DEF PageTyped, But
  <2>7. /\ TestsKnown(q, t.lanes["test"]) /\ ForeignKept(q, t.lanes["store"])
        /\ Numbered(q, t.lanes["activation"])
    <3>1. TestsKnown(q, t.lanes["test"])
      BY <1>1, <2>4, <2>5 DEF IsTurn, TurnInv, TestsKnown, OfDraft
    <3>2. ForeignKept(q, t.lanes["store"])
      BY <1>1, <2>5 DEF IsTurn, TurnInv, ForeignKept
    <3>3. Numbered(q, t.lanes["activation"])
      BY <1>1, <2>5 DEF IsTurn, TurnInv, Numbered, Expected
    <3> QED BY <3>1, <3>2, <3>3
  <2>8. TurnInv(q, t.lanes)
    BY <1>1, <2>6, <2>7 DEF IsTurn, TurnInv
  <2>9. With(t, q) = [page |-> q, lanes |-> t.lanes]
    BY <1>1 DEF With, IsTurn
  <2> QED BY <2>8, <2>9 DEF IsTurn
<1> HIDE DEF t, q
<1> QED BY <1>1, <1>2, <1>3, Becoming

LEMMA ReduceSideStep ==
  ASSUME PageInv, ReduceSide
  PROVE  TurnInv(page', lanes')
<1> DEFINE l == "side"
           a == Head(lanes[l].answers)
           t == Popped(l)
           next == With(t, Installed(page, a.ws))
<1>1. IsTurn(t) /\ t.page = page /\ a.ws \in Workspaces /\ PageTyped(page)
  BY PoppedTurn, ThisTurn DEF ReduceSide, Lanes, AnswersOf
<1>2. Becomes(t) \/ Becomes(LoadProviders(next)) \/ Becomes(next)
  BY DEF ReduceSide
<1> HIDE DEF t, a
<1>3. IsTurn(next)
  BY <1>1, InstalledMoves, WithMoved
<1> HIDE DEF next
<1> QED BY <1>1, <1>2, <1>3, LoadKeeps, Becoming

LEMMA ReduceStoppedStep ==
  ASSUME PageInv, NEW l \in {"store", "activation"}, ReduceStopped(l)
  PROVE  TurnInv(page', lanes')
<1> DEFINE pg == [page EXCEPT !.told = @ \cup {l}]
           op(p, kind) == CASE kind = "save" -> p.save [] kind = "extract" -> p.extraction
                            [] kind = "load" -> p.load [] kind = "mutate" -> p.mutation
           fail(p, kind) == IF Running(op(p, kind)) THEN Failed(p, kind) ELSE p
<1>1. /\ lanes' = lanes /\ ~lanes[l].up /\ lanes[l].answers = <<>>
      /\ l = "store" => page' = fail(fail(pg, "save"), "extract")
      /\ l = "activation" => page' = fail(fail(pg, "load"), "mutate")
  BY DEF ReduceStopped
<1>2. /\ IsTurn(Turn) /\ Turn.page = page /\ Turn.lanes = lanes /\ PageTyped(page)
      /\ LaneTyped(lanes[l], l)
  BY ThisTurn, LaneKnown DEF Lanes
<1>3. lanes[l].requests = <<>>
  BY <1>1, <1>2 DEF LaneTyped
<1>4. But(page, pg, {})
  BY <1>2 DEF But, PageTyped, NewPage, Outer
<1> HIDE DEF pg
<1>5. Moved(page, pg) /\ PageTyped(pg)
  BY <1>4, OuterStep
<1>6. CASE l = "store"
  <2> DEFINE r == fail(pg, "save")
             q == fail(r, "extract")
  <2>1. Moved(page, r) /\ PageTyped(r)
    <3> DEFINE f == SaveFailed(pg)
    <3>1. r = pg \/ r = f
      BY DEF Failed
    <3>2. But(pg, f, {"save"}) /\ f.save = [pg.save EXCEPT !.phase = "error"]
      BY <1>5 DEF SaveFailed, But, PageTyped, NewPage, Outer
    <3>3. f.save \in Operation(Phases)
      BY <1>5, <3>2 DEF PageTyped, Operation, Phases
    <3> HIDE DEF f, r
    <3>4. Moved(page, f) /\ PageTyped(f)
      BY <1>5, <3>2, <3>3, SaveMoves, MovedTwice DEF Moved
    <3> QED BY <1>5, <3>1, <3>4
  <2> HIDE DEF r
  <2>2. Moved(page, q)
    <3> DEFINE f == ExtractFailed(r)
    <3>1. q = r \/ q = f
      BY DEF Failed
    <3>2. /\ But(r, f, {"extraction", "submitted"}) /\ f.submitted = None
          /\ f.extraction = [r.extraction EXCEPT !.phase = "error"]
      BY <2>1 DEF ExtractFailed, But, PageTyped, NewPage, Outer
    <3>3. f.extraction \in Operation(Phases) /\ ~Running(f.extraction) /\ None \in Maybe(Documents)
      BY <2>1, <3>2 DEF PageTyped, Operation, Phases, Running, Maybe
    <3> HIDE DEF f, q
    <3>4. Moved(page, f)
      BY <2>1, <3>2, <3>3, ExtractMoves, MovedTwice
    <3> QED BY <2>1, <3>1, <3>4
  <2>3. page' = q
    BY <1>1, <1>6 DEF r
  <2> QED BY <1>1, <2>2, <2>3, PageMoves
<1>7. CASE l = "activation"
  <2> DEFINE r == fail(pg, "load")
             q == fail(r, "mutate")
             t == With(Turn, pg)
             u == With(t, r)
             v == With(u, q)
  <2>1. \A n : Without(lanes["activation"], n)
    <3>1. DOMAIN lanes["activation"].requests = {} /\ DOMAIN lanes["activation"].answers = {}
      BY <1>1, <1>3, <1>7
    <3> QED BY <3>1 DEF Without
  <2>2. IsTurn(t) /\ t.page = pg /\ t.lanes = lanes
    BY <1>2, <1>5, WithMoved
  <2> HIDE DEF t
  <2>3. IsTurn(u) /\ u.page = r /\ u.lanes = lanes
    <3> DEFINE f == LoadFailed(pg)
    <3>1. r = pg \/ r = f
      BY DEF Failed
    <3>2. But(pg, f, {"load", "mutation"}) /\ f.load = [pg.load EXCEPT !.phase = "error"]
          /\ f.mutation = pg.mutation
      BY <1>5 DEF LoadFailed, But, PageTyped, NewPage, Outer
    <3> HIDE DEF f, r
    <3>3. CASE r = pg
      BY <2>2, <3>3, <1>5, WithMoved DEF Moved
    <3>4. CASE r = f
      BY <2>1, <2>2, <3>2, <3>4, LoadEnded
    <3> QED BY <3>1, <3>3, <3>4
  <2> HIDE DEF u, r
  <2>4. IsTurn(v) /\ v.page = q /\ v.lanes = lanes
    <3> DEFINE f == MutationFailed(r)
    <3>1. q = r \/ q = f
      BY DEF Failed
    <3>2. PageTyped(r)
      BY <2>3, TurnPage
    <3>3. But(r, f, {"load", "mutation"}) /\ f.mutation = [r.mutation EXCEPT !.phase = "error"]
          /\ f.load = r.load
      BY <3>2 DEF MutationFailed, But, PageTyped, NewPage, Outer
    <3> HIDE DEF f, q
    <3>4. CASE q = r
      BY <2>3, <3>2, <3>4, WithMoved DEF Moved
    <3>5. CASE q = f
      BY <2>1, <2>3, <3>3, <3>5, MutationEnded
    <3> QED BY <3>1, <3>4, <3>5
  <2>5. page' = q
    BY <1>1, <1>7 DEF r
  <2> HIDE DEF v, q
  <2> QED BY <1>1, <2>4, <2>5 DEF IsTurn
<1> QED BY <1>6, <1>7

-----------------------------------------------------------------------------
(* The invariant. *)

LEMMA InitHolds == Init => PageInv
<1> SUFFICES ASSUME Init PROVE PageInv
  OBVIOUS
<1> DEFINE empty == [requests |-> <<>>, answers |-> <<>>, up |-> TRUE]
<1>1. stored = [doc |-> Profiles, active |-> Order[1], files |-> Order[1]] /\ edits = 0 /\ page = NewPage
  BY DEF Init
<1>2. stored \in Workspaces
  <2>1. 1 \in DOMAIN Order
    <3>1. Len(Order) \in Nat \ {0} /\ DOMAIN Order = 1..Len(Order)
      BY OrderKnown
    <3> QED BY <3>1
  <2>2. Order[1] \in Profiles
    BY <2>1, OrderKnown
  <2> QED BY <1>1, <2>2 DEF Workspaces, Documents, Files
<1>3. PageTyped(page)
  BY <1>1 DEF PageTyped, NewPage, NoTest, IdleOperation, Operation, Phases, Maybe, Documents, Running
<1>4. DOMAIN lanes = Lanes /\ \A l \in Lanes : lanes[l] = empty
  BY DEF Init
<1>5. empty.requests = <<>> /\ empty.answers = <<>> /\ empty.up = TRUE
      /\ DOMAIN empty.requests = {} /\ DOMAIN empty.answers = {}
  OBVIOUS
<1>6. ASSUME NEW l \in Lanes PROVE LaneTyped(empty, l)
  <2>1. <<>> \in Seq(RequestsOf(l)) /\ <<>> \in Seq(AnswersOf(l))
    BY EmptySeq
  <2> QED BY <2>1 DEF LaneTyped
<1> HIDE DEF empty
<1>7. {"activation", "test", "store"} \subseteq Lanes
  BY DEF Lanes
<1>8. Numbered(page, empty)
  BY <1>5 DEF Numbered, Ascending
<1>9. TestsKnown(page, empty)
  BY <1>1, <1>5 DEF TestsKnown, NewPage, NoTest
<1>10. ForeignKept(page, empty)
  BY <1>1, <1>5 DEF ForeignKept, NewPage, IdleOperation, Running
<1>11. TurnInv(page, lanes)
  BY <1>3, <1>4, <1>6, <1>7, <1>8, <1>9, <1>10 DEF TurnInv
<1> QED BY <1>1, <1>2, <1>11 DEF PageInv

LEMMA UserKeeps ==
  ASSUME PageInv, User
  PROVE  TurnInv(page', lanes') /\ stored' = stored /\ edits' \in Nat
<1>1. TurnInv(page', lanes')
  BY EditStep, DeleteStep, SelectStep, DiscardStep, ExtractStep, DialogSteps, OpenStep, LeaveStep,
     ReloadStep, SavingSteps, DiscardContinueStep, RequestSteps, ConfirmStep, TestStep, StartSideStep
     DEF User
<1>2. stored' = stored
  BY DEF User, Edit, AskDelete, CancelDelete, Delete, Select, Save, Discard, Extract, Test, StartSide,
         Open, Leave, Reload, Stay, DiscardAndContinue, SaveAndContinue, RequestMutation, Confirm,
         CancelConfirm, EditLive, SaveLive, CancelLiveEdit, Uses1
<1>3. edits' = edits \/ edits' = edits + 1
  BY DEF User, Edit, AskDelete, CancelDelete, Delete, Select, Save, Discard, Extract, Test, StartSide,
         Open, Leave, Reload, Stay, DiscardAndContinue, SaveAndContinue, RequestMutation, Confirm,
         CancelConfirm, EditLive, SaveLive, CancelLiveEdit
<1>4. edits \in Nat
  BY DEF PageInv
<1>5. edits' \in Nat
  BY <1>3, <1>4
<1> QED BY <1>1, <1>2, <1>5

LEMMA WorkerKeeps ==
  ASSUME PageInv, Worker \/ Foreign
  PROVE  TurnInv(page', lanes') /\ stored' \in Workspaces /\ edits' = edits /\ page' = page
<1>1. TurnInv(page', lanes') /\ stored' \in Workspaces
  BY ServeStep, DieStep, ServeTestStep, ServeSideStep, ForeignStep DEF Worker
<1>2. edits' = edits /\ page' = page
  BY DEF Worker, Foreign, Serve, Die, ServeTest, ServeSide
<1> QED BY <1>1, <1>2

LEMMA ReduceKeeps ==
  ASSUME PageInv, Reduce
  PROVE  TurnInv(page', lanes') /\ stored' = stored /\ edits' = edits
<1>1. TurnInv(page', lanes')
  BY ReduceStoreStep, ReduceActivationStep, ReduceTestStep, ReduceSideStep, ReduceStoppedStep DEF Reduce
<1>2. stored' = stored /\ edits' = edits
  BY DEF Reduce, ReduceStore, ReduceActivation, ReduceTest, ReduceSide, ReduceStopped
<1> QED BY <1>1, <1>2

LEMMA NextKeeps ==
  ASSUME PageInv, [Next]_vars
  PROVE  PageInv'
<1>1. CASE UNCHANGED vars
  BY <1>1 DEF vars, PageInv, TurnInv, PageTyped, LaneTyped, Numbered, TestsKnown, ForeignKept,
              Expected, OfDraft
<1>2. CASE Next
  <2>1. TurnInv(page', lanes') /\ stored' \in Workspaces /\ edits' \in Nat
    BY <1>2, UserKeeps, WorkerKeeps, ReduceKeeps DEF Next, PageInv
  <2> QED BY <2>1 DEF PageInv
<1> QED BY <1>1, <1>2

(* What the page and its queues hold is what the code that reads them takes *)
(* for granted: a draft and a workspace only over a baseline, requests and   *)
(* answers of their lane's kinds, loads and mutations answered in the order  *)
(* of their numbers and each still running on the page until it is, and a    *)
(* test result only of the draft that is there.                              *)
THEOREM PageInvariance == Spec => []PageInv
<1>1. PageInv /\ [Next]_vars => PageInv'
  BY NextKeeps
<1> QED BY <1>1, InitHolds, PTL DEF Spec

(* The phases and documents of the page fit each other, and a test's result  *)
(* that is shown is about the draft as it is now: MarkEdited and every       *)
(* replacement of the draft forget which profile the running test was for.   *)
THEOREM ShownTestsAreOfTheDraft == Spec => []Inv
<1>1. PageInv => Inv
  <2> SUFFICES ASSUME PageInv PROVE Inv
    OBVIOUS
  <2>1. PageTyped(page) /\ stored \in Workspaces /\ TestsKnown(page, lanes["test"])
    BY DEF PageInv, TurnInv
  <2>2. ShownTestIsOfDraft
    BY <2>1 DEF TestsKnown, ShownTestIsOfDraft
  <2>3. TypeOK
    BY <2>1 DEF TypeOK, PageTyped, Maybe, Documents, Views, Workspaces
  <2> QED BY <2>2, <2>3 DEF Inv
<1> QED BY <1>1, PageInvariance, PTL

-----------------------------------------------------------------------------
(* Late answers. *)

(* The lanes of a turn have the answers of ls. *)
AnswersAre(ls, t) ==
  /\ DOMAIN t = {"page", "lanes"} /\ DOMAIN t.lanes = Lanes
  /\ \A k \in Lanes : DOMAIN t.lanes[k] = {"requests", "answers", "up"}
                      /\ t.lanes[k].answers = ls[k].answers

LEMMA AnswersStay ==
  ASSUME NEW ls, NEW t, AnswersAre(ls, t)
  PROVE  /\ \A q : AnswersAre(ls, With(t, q))
         /\ \A l \in Lanes : \A request : AnswersAre(ls, Sent(t, l, request))
<1>1. ASSUME NEW q PROVE AnswersAre(ls, With(t, q))
  <2>1. DOMAIN With(t, q) = {"page", "lanes"} /\ With(t, q).lanes = t.lanes
    BY DEF With, AnswersAre
  <2> QED BY <2>1 DEF AnswersAre
<1>2. ASSUME NEW l \in Lanes, NEW request PROVE AnswersAre(ls, Sent(t, l, request))
  <2> DEFINE lane == [t.lanes[l] EXCEPT !.requests = Append(@, request)]
             L == [t.lanes EXCEPT ![l] = lane]
             u == [t EXCEPT !.lanes = L]
  <2>1. AnswersAre(ls, Sent(t, l, request)) \/ Sent(t, l, request) = u
    BY <1>1 DEF Sent
  <2>2. DOMAIN u = {"page", "lanes"} /\ u.lanes = L /\ DOMAIN L = Lanes
    BY DEF AnswersAre
  <2>3. DOMAIN lane = {"requests", "answers", "up"} /\ lane.answers = t.lanes[l].answers
    BY DEF AnswersAre
  <2> HIDE DEF u, lane
  <2>4. \A k \in Lanes : DOMAIN L[k] = {"requests", "answers", "up"} /\ L[k].answers = ls[k].answers
    BY <2>3 DEF AnswersAre
  <2> HIDE DEF L
  <2>5. AnswersAre(ls, u)
    BY <2>2, <2>4 DEF AnswersAre
  <2> QED BY <2>1, <2>5
<1> QED BY <1>1, <1>2

LEMMA OperationsAnswerNothing ==
  ASSUME NEW ls, NEW t, AnswersAre(ls, t)
  PROVE  /\ AnswersAre(ls, LoadProviders(t)) /\ AnswersAre(ls, SaveProviders(t))
         /\ AnswersAre(ls, TransitionCompleted(t))
<1>1. {"activation", "store"} \subseteq Lanes
  BY DEF Lanes
<1>2. ASSUME NEW u, AnswersAre(ls, u) PROVE AnswersAre(ls, LoadProviders(u))
  <2>1. \/ LoadProviders(u) = u
        \/ \E q, request : LoadProviders(u) = Sent(With(u, q), "activation", request)
    BY DEF LoadProviders
  <2> QED BY <1>1, <1>2, <2>1, AnswersStay
<1>3. \/ SaveProviders(t) = t
      \/ \E q, request : SaveProviders(t) = Sent(With(t, q), "store", request)
  BY DEF SaveProviders
<1>4. AnswersAre(ls, SaveProviders(t))
  BY <1>1, <1>3, AnswersStay
<1>5. AnswersAre(ls, TransitionCompleted(t))
  <2> DEFINE left == IF t.page.pendingRoute
                     THEN With(t, [Left(t.page) EXCEPT !.pendingRoute = FALSE]) ELSE t
  <2>1. AnswersAre(ls, left)
    BY AnswersStay
  <2>2. \/ TransitionCompleted(t) = left
        \/ \E q : TransitionCompleted(t) = LoadProviders(With(left, q))
    BY DEF TransitionCompleted
  <2> HIDE DEF left
  <2> QED BY <1>2, <2>1, <2>2, AnswersStay
<1> QED BY <1>2, <1>4, <1>5

LEMMA ThisTurnAnswers ==
  ASSUME PageInv
  PROVE  AnswersAre(lanes, Turn) /\ \A l \in Lanes : Len(lanes[l].answers) \in Nat
<1>1. Turn.lanes = lanes /\ DOMAIN Turn = {"page", "lanes"} /\ DOMAIN lanes = Lanes
  BY DEF Turn, PageInv, TurnInv
<1>2. \A l \in Lanes : DOMAIN lanes[l] = {"requests", "answers", "up"}
                      /\ Len(lanes[l].answers) \in Nat
  BY LaneKnown, LenProperties
<1> QED BY <1>1, <1>2 DEF AnswersAre

(* The user takes no answer from a lane. *)
LEMMA UserAnswersNothing ==
  ASSUME PageInv, User
  PROVE  page' = page \/ \A l \in Lanes : lanes'[l].answers = lanes[l].answers
<1>1. {"activation", "test", "store"} \subseteq Lanes
  BY DEF Lanes
<1>2. AnswersAre(lanes, Turn)
  BY ThisTurnAnswers
<1>3. ASSUME NEW t, AnswersAre(lanes, t), Becomes(t)
      PROVE  \A l \in Lanes : lanes'[l].answers = lanes[l].answers
  BY <1>3 DEF AnswersAre, Becomes
<1>4. CASE Save
  <2>1. Becomes(SaveProviders(Turn))
    BY <1>4 DEF Save
  <2> QED BY <1>2, <1>3, <2>1, OperationsAnswerNothing
<1>5. CASE Extract \/ Confirm \/ Test
  <2>1. \E l \in {"activation", "test", "store"} : \E q, request : Becomes(Sent(With(Turn, q), l, request))
    <3>1. CASE Extract
      <4> DEFINE id == page.extraction.id + 1
                 q == [page EXCEPT !.extraction = [phase |-> "running", id |-> id],
                                   !.submitted = page.draft]
                 request == [kind |-> "extract", id |-> id, base |-> page.baseline.doc,
                             doc |-> page.draft]
      <4>1. Becomes(Sent(With(Turn, q), "store", request))
        BY <3>1 DEF Extract
      <4> HIDE DEF q, request
      <4> QED BY <4>1
    <3>2. CASE Confirm
      <4> DEFINE id == page.nextId + 1
                 q == [page EXCEPT !.nextId = id, !.mutation = [phase |-> "running", id |-> id],
                                   !.kind = page.confirmation, !.confirmation = None]
                 request == [kind |-> "mutate", id |-> id, what |-> page.confirmation,
                             doc |-> page.workspace.doc, files |-> page.workspace.files]
      <4>1. Becomes(Sent(With(Turn, q), "activation", request))
        BY <3>2 DEF Confirm
      <4> HIDE DEF q, request
      <4> QED BY <4>1
    <3>3. CASE Test
      <4> DEFINE id == page.test.id + 1
                 q == [page EXCEPT !.test = [phase |-> "running", id |-> id, profile |-> page.selected,
                                             gen |-> page.gen, about |-> None]]
                 request == [kind |-> "test", id |-> id, profile |-> page.selected,
                             gen |-> page.gen, doc |-> page.draft]
      <4>1. Becomes(Sent(With(Turn, q), "test", request))
        BY <3>3 DEF Test
      <4> HIDE DEF q, request
      <4> QED BY <4>1
    <3> QED BY <1>5, <3>1, <3>2, <3>3
  <2> QED BY <1>1, <1>2, <1>3, <2>1, AnswersStay
<1>6. CASE Open \/ Reload
  <2>1. \/ lanes' = lanes \/ Becomes(LoadProviders(Turn))
        \/ \E q : Becomes(LoadProviders(With(Turn, q))) \/ Becomes(With(Turn, q))
    BY <1>6 DEF Open, Reload
  <2> QED BY <1>2, <1>3, <2>1, AnswersStay, OperationsAnswerNothing
<1>7. CASE DiscardAndContinue \/ SaveAndContinue
  <2>1. \/ lanes' = lanes
        \/ \E q : \/ Becomes(TransitionCompleted(With(Turn, q)))
                  \/ Becomes(SaveProviders(With(Turn, q)))
    BY <1>7 DEF DiscardAndContinue, SaveAndContinue
  <2> QED BY <1>2, <1>3, <2>1, AnswersStay, OperationsAnswerNothing
<1>8. CASE ~(Save \/ Extract \/ Confirm \/ Test \/ Open \/ Reload \/ DiscardAndContinue \/ SaveAndContinue)
  <2>1. page' = page \/ lanes' = lanes
    BY <1>8 DEF User, Edit, AskDelete, CancelDelete, Delete, Select, Discard, StartSide,
         Leave, Stay, RequestMutation, CancelConfirm, EditLive, SaveLive, CancelLiveEdit
  <2> QED BY <2>1
<1> QED BY <1>4, <1>5, <1>6, <1>7, <1>8

(* Nor does the answer of an operation that nobody waits for change a draft. *)
LEMMA LateAnswers ==
  ASSUME PageInv, Reduce, ReducesOther, Quiet(page), Dirty(page)
  PROVE  page'.draft = page.draft
<1>1. /\ IsTurn(Turn) /\ PageTyped(page) /\ AnswersAre(lanes, Turn)
      /\ \A l \in Lanes : Len(lanes[l].answers) \in Nat
  BY ThisTurn, ThisTurnAnswers
<1>2. /\ ~Running(page.save) /\ ~Running(page.extraction)
      /\ ~Running(page.load) /\ ~Running(page.mutation)
  BY DEF Quiet
<1>3. \A l \in Lanes : lanes[l].answers # <<>> => Popped(l).page = page
  BY PoppedTurn
<1>4. PICK m \in Lanes : /\ Len(lanes'[m].answers) < Len(lanes[m].answers)
                         /\ m = "store" => Head(lanes[m].answers).kind = "extract"
  BY DEF ReducesOther
<1>5. CASE ReduceStore
  <2> DEFINE l == "store"
             a == Head(lanes[l].answers)
             t == Popped(l)
  <2>1. t.page = page /\ l \in Lanes /\ a.kind \in {"save", "extract"}
    BY <1>5, PoppedTurn DEF ReduceStore, Lanes, AnswersOf, Answers
  <2>2. CASE a.kind = "extract"
    <3>1. Becomes(ExtractAnswered(t, a))
      BY <1>5, <2>2 DEF ReduceStore
    <3>2. ExtractAnswered(t, a) = t
      BY <1>2, <2>1 DEF ExtractAnswered
    <3> QED BY <2>1, <3>1, <3>2 DEF Becomes
  <2>3. CASE a.kind = "save"
    <3>1. m # l /\ Becomes(SaveAnswered(t, a))
      BY <1>4, <1>5, <2>3 DEF ReduceStore
    <3>2. AnswersAre(t.lanes, t) /\ t.lanes[m].answers = lanes[m].answers
      <4> DEFINE lane == [lanes[l] EXCEPT !.answers = Tail(lanes[l].answers)]
                 L == [lanes EXCEPT ![l] = lane]
      <4>1. DOMAIN t = {"page", "lanes"} /\ t.lanes = L
        BY <1>5, <2>1, PoppedLanes DEF ReduceStore
      <4> HIDE DEF t
      <4>2. DOMAIN lanes = Lanes /\ \A k \in Lanes : DOMAIN lanes[k] = {"requests", "answers", "up"}
        <5>1. Turn.lanes = lanes
          BY DEF Turn
        <5> QED BY <1>1, <5>1 DEF AnswersAre
      <4>3. DOMAIN lane = {"requests", "answers", "up"}
        BY <2>1, <4>2
      <4> HIDE DEF lane
      <4>4. DOMAIN L = Lanes /\ L[m] = lanes[m]
            /\ \A k \in Lanes : DOMAIN L[k] = {"requests", "answers", "up"}
        BY <3>1, <4>2, <4>3
      <4> HIDE DEF L
      <4> QED BY <4>1, <4>4 DEF AnswersAre
    <3>4. AnswersAre(t.lanes, SaveAnswered(t, a))
      <4>1. \/ SaveAnswered(t, a) = t
            \/ \E q : \/ SaveAnswered(t, a) = TransitionCompleted(With(t, q))
                      \/ SaveAnswered(t, a) = With(t, q)
        <5>1. a \in Answers({"save", "extract"})
          BY <1>5, PoppedTurn DEF ReduceStore, Lanes, AnswersOf
        <5>2. a.ok \in BOOLEAN
          BY <5>1 DEF Answers
        <5> HIDE DEF a, t
        <5> QED BY <5>2 DEF SaveAnswered
      <4> HIDE DEF t, a
      <4> QED BY <3>2, <4>1, AnswersStay, OperationsAnswerNothing
    <3>5. lanes'[m].answers = lanes[m].answers
      <4> HIDE DEF t, a
      <4> QED BY <3>1, <3>2, <3>4 DEF AnswersAre, Becomes
    <3> QED BY <1>1, <1>4, <3>5
  <2> QED BY <2>1, <2>2, <2>3
<1>6. CASE ReduceActivation
  <2> DEFINE l == "activation"
             a == Head(lanes[l].answers)
             t == Popped(l)
  <2>1. t.page = page /\ Expected(page, a) /\ a \in AnswersOf(l)
    BY <1>6, PoppedTurn DEF ReduceActivation, Lanes
  <2>2. a.kind \in {"load", "mutate"}
    BY <2>1 DEF AnswersOf, Answers
  <2>3. Becomes(IF a.kind = "load" THEN LoadAnswered(t, a) ELSE MutationAnswered(t, a))
    BY <1>6 DEF ReduceActivation
  <2> HIDE DEF t, a
  <2>4. CASE a.kind = "load"
    <3>1. a.id # page.load.id
      BY <1>2, <2>1, <2>4 DEF Expected
    <3>2. LoadAnswered(t, a) = t
      BY <2>1, <3>1 DEF LoadAnswered
    <3> QED BY <2>1, <2>3, <2>4, <3>2 DEF Becomes
  <2>5. CASE a.kind = "mutate"
    <3>1. a.id # page.mutation.id
      BY <1>2, <2>1, <2>5 DEF Expected
    <3>2. MutationAnswered(t, a) = t
      BY <2>1, <3>1 DEF MutationAnswered
    <3> QED BY <2>1, <2>3, <2>5, <3>2 DEF Becomes
  <2> QED BY <2>2, <2>4, <2>5
<1>7. CASE ReduceTest
  <2> DEFINE token == Head(lanes["test"].answers)
             t == Popped("test")
             q == [page EXCEPT !.test.phase = "ready", !.test.about = token.doc]
  <2>1. t.page = page /\ IsTurn(t)
    BY <1>7, PoppedTurn DEF ReduceTest, Lanes
  <2>2. Becomes(With(t, q)) \/ Becomes(t)
    BY <1>7 DEF ReduceTest
  <2>3. q.draft = page.draft
    BY <1>1 DEF PageTyped, NewPage
  <2> HIDE DEF q, t
  <2>4. With(t, q).page = q
    BY <2>1 DEF With, IsTurn
  <2> QED BY <2>1, <2>2, <2>3, <2>4 DEF Becomes
<1>8. CASE ReduceSide
  <2>1. Becomes(Popped("side")) /\ Popped("side").page = page
    BY <1>3, <1>8 DEF ReduceSide, SideTaken, Lanes
  <2> QED BY <2>1 DEF Becomes
<1>9. CASE \E l \in {"store", "activation"} : ReduceStopped(l)
  <2>1. lanes' = lanes
    BY <1>9 DEF ReduceStopped
  <2> QED BY <1>1, <1>4, <2>1
<1> QED BY <1>5, <1>6, <1>7, <1>8, <1>9 DEF Reduce

(* While no operation of the page runs, an answer that comes in changes no    *)
(* draft with unsaved edits, but a save's: apply_live_load_response and       *)
(* apply_live_mutation_response compare the number of the operation that was  *)
(* begun last, an extraction's answer needs one that runs, and an answer of   *)
(* another page is refused over a dirty draft.                                *)
THEOREM EditsAreSafe == Spec => EditsAreSafeWhenIdle
<1> DEFINE A == ReducesOther /\ Quiet(page) /\ Dirty(page) => page'.draft = page.draft
<1>1. PageInv /\ [Next]_vars => [A]_vars
  <2> SUFFICES ASSUME PageInv, Next, ReducesOther, Quiet(page), Dirty(page)
               PROVE  page'.draft = page.draft
    OBVIOUS
  <2>1. CASE User
    <3>1. CASE page' = page
      BY <3>1
    <3>2. CASE page' # page
      <4>1. \A l \in Lanes : lanes'[l].answers = lanes[l].answers /\ Len(lanes[l].answers) \in Nat
        BY <2>1, <3>2, UserAnswersNothing, ThisTurnAnswers
      <4>2. PICK m \in Lanes : Len(lanes'[m].answers) < Len(lanes[m].answers)
        BY DEF ReducesOther
      <4>3. lanes'[m].answers = lanes[m].answers /\ Len(lanes[m].answers) \in Nat
        BY <4>1
      <4> QED BY <4>2, <4>3
    <3> QED BY <3>1, <3>2
  <2>2. CASE Worker \/ Foreign
    BY <2>2, WorkerKeeps
  <2>3. CASE Reduce
    BY <2>3, LateAnswers
  <2> QED BY <2>1, <2>2, <2>3 DEF Next
<1>2. [][A]_vars => EditsAreSafeWhenIdle
  BY DEF EditsAreSafeWhenIdle
<1> QED BY <1>1, <1>2, PageInvariance, PTL DEF Spec

(* Without extractions, no operation of the page removes what another program *)
(* or another page has stored: save_workspace compares the revision of the    *)
(* document the draft was made from, and a draft has what that document had.  *)
THEOREM ForeignChangesStay ==
  ASSUME "extract" \notin Uses
  PROVE  Spec => NothingForeignIsLost
<1> DEFINE A == "ext" \in stored.doc => "ext" \in stored'.doc
<1>1. PageInv /\ [Next]_vars => [A]_vars
  <2> SUFFICES ASSUME PageInv, Next PROVE A
    OBVIOUS
  <2>1. CASE User
    BY <2>1, UserKeeps
  <2>2. CASE Reduce
    BY <2>2, ReduceKeeps
  <2>3. CASE Foreign
    BY <2>3, ForeignStep
  <2>4. CASE ServeTest \/ ServeSide
    BY <2>4, ServeSideStep DEF ServeTest
  <2>5. ASSUME NEW l \in {"store", "activation"}, Serve(l) \/ Die(l) PROVE A
    <3> DEFINE r == lanes[l].requests
    <3>1. /\ r \in Seq(RequestsOf(l)) /\ stored \in Workspaces /\ l \in Lanes
          /\ \A i \in DOMAIN r : r[i] \in RequestsOf(l)
      BY LaneKnown DEF Lanes, PageInv
    <3>2. CASE stored' = stored
      BY <3>2
    <3>3. CASE stored' # stored
      <4>1. PICK o \in Outcomes(stored, Taken(r).request) : stored' = o.stored /\ r # <<>>
        BY <2>5, <3>3 DEF Serve, Die
      <4>2. PICK n \in 1..Len(r) : Taken(r).request = r[n]
        BY <3>1, <4>1, Takes
      <4>3. n \in DOMAIN r /\ r[n] \in RequestsOf(l) /\ o \in Outcomes(stored, r[n])
        BY <3>1, <4>1, <4>2, LenProperties
      <4>4. l = "store" => ("ext" \in r[n].base => "ext" \in r[n].doc)
        BY <4>3 DEF PageInv, TurnInv, ForeignKept
      <4>5. "ext" \in stored.doc => "ext" \in o.stored.doc
        BY <3>1, <4>3, <4>4, Stores
      <4> QED BY <4>1, <4>5
    <3> QED BY <3>2, <3>3
  <2> QED BY <2>1, <2>2, <2>3, <2>4, <2>5 DEF Next, Worker
<1>2. [][A]_vars => NothingForeignIsLost
  BY DEF NothingForeignIsLost
<1> QED BY <1>1, <1>2, PageInvariance, PTL DEF Spec

=============================================================================
