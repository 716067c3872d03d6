---------------------------- MODULE RelayRotation ----------------------------
(***************************************************************************)
(* The protocol proxy of the launcher forwards each request of Codex to an *)
(* upstream relay.  When the active profile is an aggregate, the selector,  *)
(* one for the process and behind a mutex, picks the member to try first    *)
(* and the request falls back to the other members in turn.                 *)
(*                                                                         *)
(* Requests run concurrently, each on the settings it loaded when it came   *)
(* in; the selector is read and moved at two points of a request only: when *)
(* it selects, and when it records how an attempt ended.                    *)
(***************************************************************************)
EXTENDS Naturals, Sequences, FiniteSets

CONSTANTS
  Relays,         \* the API profiles
  Aggregates,     \* the aggregates the user may activate
  Conversations,
  Explicit,       \* the conversations whose requests carry a conversation id
  Requests,       \* requests in flight
  SettingsInUse,  \* the settings the user may store
  None,
  MaxTurns,       \* bound on the answers one conversation gets
  MaxPicks        \* bound on the picks of one member by one selector

Strategies == {"failover", "conversationRoundRobin", "requestRoundRobin", "weightedRoundRobin"}

Member == [relay : Relays, weight : Nat]

AggregateRelayProfile == [id : STRING, strategy : Strategies, members : Seq(Member)]

Settings == [active : Aggregates \cup Relays, capable : SUBSET Relays]

(* The editor stores no aggregate that has a member twice. *)
ASSUME AggregateAssumption ==
  /\ Aggregates \subseteq AggregateRelayProfile
  /\ \A a \in Aggregates : \A i, j \in DOMAIN a.members :
       a.members[i].relay = a.members[j].relay => i = j
ASSUME NoneAssumption == None \notin Relays \cup Aggregates
ASSUME DisjointAssumption == Relays \cap Aggregates = {}
ASSUME SettingsAssumption == SettingsInUse \subseteq Settings
ASSUME BoundsAssumption == MaxTurns \in Nat /\ MaxPicks \in Nat

VARIABLES
  settings,       \* the active profile, and the relays with an endpoint and a key
  selector,       \* GLOBAL_SELECTOR
  req,            \* the requests
  turn,           \* conversation -> the answers it got
  picks,          \* history: relay -> how often a selector by request picked it
  home            \* history: conversation -> the member a selector by conversation
                  \* sent it to first

vars == <<settings, selector, req, turn, picks, home>>

-----------------------------------------------------------------------------
(* Members *)

RelaysOf(a) == {a.members[i].relay : i \in DOMAIN a.members}

(* What a request may be sent to under the settings s. *)
Candidates(s) == IF s.active \in Aggregates THEN RelaysOf(s.active) ELSE {s.active}

(* validate_aggregate_members: one member without endpoint or key, or that   *)
(* is no profile any more, makes the aggregate unusable.                    *)
Valid(s) ==
  /\ s.active \in Aggregates
  /\ s.active.members # <<>>
  /\ RelaysOf(s.active) \subseteq s.capable

Position(a, relay) == CHOOSE i \in DOMAIN a.members : a.members[i].relay = relay

(* fallback_relays_after: the other members, from the one after relay on,   *)
(* wrapping around.                                                         *)
Fallbacks(a, relay) ==
  LET i == Position(a, relay)
      n == Len(a.members)
  IN  [k \in 1 .. n - 1 |-> a.members[IF i + k <= n THEN i + k ELSE i + k - n].relay]

-----------------------------------------------------------------------------
(* RelayRotationSelector *)

(* conversation_id_from_responses_request: a conversation id, or else the id *)
(* of the previous answer, which a first request does not have.             *)
Key(c) ==
  CASE c \in Explicit -> <<c, 0>>
    [] c \notin Explicit /\ turn[c] > 0 -> <<c, turn[c]>>
    [] OTHER -> None

Keys == Conversations \X (0 .. MaxTurns)

ASSUME KeyAssumption == None \notin Keys

(* from_settings.  weighted_index runs over the members, each repeated as    *)
(* often as it weighs: it is kept as a member and its repetition.           *)
Fresh(a) ==
  [aggregate |-> a, failover |-> 1, request |-> 1,
   weighted |-> [member |-> 1, repetition |-> 1],
   assigned |-> [k \in Keys |-> None]]

(* Mutant: the index runs past the last member. *)
Unwrapped(sel, i) == i + 1

Next1(sel, i) == IF i < Len(sel.aggregate.members) THEN i + 1 ELSE 1

Weight(a, i) == IF a.members[i].weight = 0 THEN 1 ELSE a.members[i].weight

(* Mutant: the last repetition of a member is left out. *)
NextWeightedShort(sel) ==
  IF sel.weighted.repetition + 1 < Weight(sel.aggregate, sel.weighted.member)
  THEN [sel.weighted EXCEPT !.repetition = @ + 1]
  ELSE [member |-> Next1(sel, sel.weighted.member), repetition |-> 1]

NextWeighted(sel) ==
  IF sel.weighted.repetition < Weight(sel.aggregate, sel.weighted.member)
  THEN [sel.weighted EXCEPT !.repetition = @ + 1]
  ELSE [member |-> Next1(sel, sel.weighted.member), repetition |-> 1]

Assigned(sel, key) == key # None /\ sel.assigned[key] # None

(* select: the member picked, and the selector that has picked it. *)
Picked(sel, key) ==
  LET at(i) == sel.aggregate.members[i].relay
  IN  CASE sel.aggregate.strategy = "failover" -> at(sel.failover)
        [] sel.aggregate.strategy = "requestRoundRobin" -> at(sel.request)
        [] sel.aggregate.strategy = "weightedRoundRobin" -> at(sel.weighted.member)
        [] OTHER -> IF Assigned(sel, key) THEN sel.assigned[key] ELSE at(sel.request)

(* Mutant: the member of a conversation is not kept. *)
HavingForgotten(sel, key) ==
  IF sel.aggregate.strategy \in {"requestRoundRobin", "conversationRoundRobin"}
  THEN [sel EXCEPT !.request = Next1(sel, @)] ELSE sel

HavingPicked(sel, key) ==
  CASE sel.aggregate.strategy = "failover" -> sel
    [] sel.aggregate.strategy = "requestRoundRobin" -> [sel EXCEPT !.request = Next1(sel, @)]
    [] sel.aggregate.strategy = "weightedRoundRobin" -> [sel EXCEPT !.weighted = NextWeighted(sel)]
    [] OTHER ->
         IF Assigned(sel, key) THEN sel
         ELSE [sel EXCEPT !.request = Next1(sel, @),
                          !.assigned = [k \in Keys |-> IF k = key THEN Picked(sel, key) ELSE @[k]]]

(* Mutant: every outcome moves on. *)
RecordedAlways(sel, failed) ==
  IF sel.aggregate.strategy = "failover"
  THEN [sel EXCEPT !.failover = Next1(sel, @)] ELSE sel

(* record_event: only the failover strategy heeds failures. *)
Recorded(sel, failed) ==
  IF failed /\ sel.aggregate.strategy = "failover"
  THEN [sel EXCEPT !.failover = Next1(sel, @)] ELSE sel

(* The selector for the active aggregate of s: it is replaced by a new one   *)
(* when that aggregate is not the one it was made for.                      *)
Current(s) ==
  IF selector # None /\ selector.aggregate = s.active THEN selector ELSE Fresh(s.active)

-----------------------------------------------------------------------------

(* No request, or one that was answered or refused. *)
Idle == [pc |-> "idle"]

Init ==
  /\ settings \in SettingsInUse
  /\ selector = None
  /\ req = [r \in Requests |-> Idle]
  /\ turn = [c \in Conversations |-> 0]
  /\ picks = [m \in Relays |-> 0]
  /\ home = [c \in Conversations |-> None]

(* The history variables start anew with a selector. *)
Renewed == selector' = None \/ selector = None \/ selector'.aggregate # selector.aggregate

(* Another request than r moved or replaced the selector that r relies on. *)
Disturbed ==
  \/ selector' = None \/ selector = None
  \/ selector'.aggregate # selector.aggregate
  \/ selector'.failover # selector.failover

(* The new state of r, the others being told when the selector was changed. *)
Becomes(r, new) ==
  req' = [q \in Requests |->
            IF q = r THEN new
            ELSE IF req[q].pc = "trying" THEN [req[q] EXCEPT !.alone = @ /\ ~Disturbed]
            ELSE req[q]]

(* A request of a conversation comes in and loads the settings.  Codex sends *)
(* the next request of a conversation when it has the answer to the last.   *)
Load(r, c) ==
  /\ req[r].pc \in {"idle", "failed"}
  /\ turn[c] < MaxTurns
  /\ \A q \in Requests : req[q].pc \in {"loaded", "trying"} => req[q].conv # c
  /\ req' = [req EXCEPT ![r] = [pc |-> "loaded", conv |-> c, settings |-> settings]]
  /\ UNCHANGED <<settings, selector, turn, picks, home>>

Trying(r, relays) ==
  [pc |-> "trying", conv |-> req[r].conv, settings |-> req[r].settings,
   relays |-> relays, attempt |-> 1, alone |-> TRUE]

(* select_relay_for_request, for a profile that is no aggregate. *)
SelectRegular(r) ==
  LET s == req[r].settings
  IN /\ req[r].pc = "loaded" /\ s.active \in Relays
     /\ selector' = None
     /\ Becomes(r, Trying(r, <<s.active>>))
     /\ picks' = [m \in Relays |-> 0]
     /\ home' = [c \in Conversations |-> None]
     /\ UNCHANGED <<settings, turn>>

(* select_relay_for_request and fallback_relays_after for an aggregate.  An  *)
(* unusable one fails the request before the selector is touched.           *)
SelectMember(r) ==
  LET s == req[r].settings
      c == req[r].conv
      current == Current(s)
      picked == Picked(current, Key(c))
      count == IF Renewed THEN 0 ELSE picks[picked]
      byRequest == s.active.strategy \in {"requestRoundRobin", "weightedRoundRobin"}
      byConversation == s.active.strategy = "conversationRoundRobin"
  IN /\ req[r].pc = "loaded" /\ s.active \in Aggregates
     /\ \/ /\ ~Valid(s)
           /\ req' = [req EXCEPT ![r] = Idle]
           /\ UNCHANGED <<selector, picks, home>>
        \/ /\ Valid(s)
           /\ selector' = HavingPicked(current, Key(c))
           /\ byRequest => count < MaxPicks
           /\ Becomes(r, Trying(r, <<picked>> \o Fallbacks(s.active, picked)))
           /\ picks' = [m \in Relays |->
                          IF m = picked /\ byRequest THEN count + 1
                          ELSE IF Renewed THEN 0 ELSE picks[m]]
           /\ home' = [d \in Conversations |->
                         LET old == IF Renewed THEN None ELSE home[d]
                         IN  IF d = c /\ old = None /\ byConversation THEN picked ELSE old]
     /\ UNCHANGED <<settings, turn>>

(* select_relay_for_probe, for a request of the list of models: it makes a   *)
(* selector as a request does, and picks nothing from it.                   *)
Probe ==
  /\ \/ settings.active \in Relays /\ selector' = None
     \/ Valid(settings) /\ selector' = Current(settings)
  /\ req' = [q \in Requests |->
               IF req[q].pc = "trying" THEN [req[q] EXCEPT !.alone = @ /\ ~Disturbed] ELSE req[q]]
  /\ picks' = IF Renewed THEN [m \in Relays |-> 0] ELSE picks
  /\ home' = IF Renewed THEN [c \in Conversations |-> None] ELSE home
  /\ UNCHANGED <<settings, turn>>

(* record_relay_request_event, by a request that runs on the settings s. *)
Record(s, failed) ==
  selector' = IF s.active \in Relays \/ selector = None THEN None
              ELSE Recorded(selector, failed)

Relay(r) == req[r].relays[req[r].attempt]

(* Mutant: the last candidate is left out. *)
HasEnoughCandidates(r) == req[r].attempt + 1 < Len(req[r].relays)

HasMoreCandidates(r) == req[r].attempt < Len(req[r].relays)

(* One attempt.  The relay is not complete, or the request cannot be         *)
(* translated for it: Codex gets the error, and nobody is told.             *)
Refuse(r) ==
  /\ req[r].pc = "trying"
  /\ req' = [req EXCEPT ![r] = Idle]
  /\ UNCHANGED <<settings, selector, turn, picks, home>>

(* The relay has answered with a 2xx status. *)
Serve(r) ==
  /\ req[r].pc = "trying" /\ Relay(r) \in req[r].settings.capable
  /\ Record(req[r].settings, FALSE)
  /\ Becomes(r, Idle)
  /\ turn' = [turn EXCEPT ![req[r].conv] = @ + 1]
  /\ picks' = IF Renewed THEN [m \in Relays |-> 0] ELSE picks
  /\ home' = IF Renewed THEN [c \in Conversations |-> None] ELSE home
  /\ UNCHANGED settings

(* It has answered with another status, failed, or not answered in time: the *)
(* next candidate is tried.  After the last, Codex gets its error or status. *)
FailOver(r) ==
  /\ req[r].pc = "trying" /\ Relay(r) \in req[r].settings.capable
  /\ Record(req[r].settings, TRUE)
  /\ Becomes(r, IF HasMoreCandidates(r) THEN [req[r] EXCEPT !.attempt = @ + 1]
                ELSE [req[r] EXCEPT !.pc = "failed"])
  /\ picks' = IF Renewed THEN [m \in Relays |-> 0] ELSE picks
  /\ home' = IF Renewed THEN [c \in Conversations |-> None] ELSE home
  /\ UNCHANGED <<settings, turn>>

(* The user activates another profile or edits the relays. *)
SetSettings(s) ==
  /\ settings' = s
  /\ UNCHANGED <<selector, req, turn, picks, home>>

Next ==
  \/ \E r \in Requests :
       \/ \E c \in Conversations : Load(r, c)
       \/ SelectRegular(r) \/ SelectMember(r)
       \/ Refuse(r) \/ Serve(r) \/ FailOver(r)
  \/ Probe
  \/ \E s \in SettingsInUse : SetSettings(s)

Spec == Init /\ [][Next]_vars

-----------------------------------------------------------------------------
(* Properties *)

SelectorOf(a) ==
  [aggregate : {a}, failover : DOMAIN a.members, request : DOMAIN a.members,
   weighted : [member : DOMAIN a.members, repetition : Nat \ {0}],
   assigned : [Keys -> RelaysOf(a) \cup {None}]]

SelectorOK ==
  selector = None \/ \E a \in Aggregates : a.members # <<>> /\ selector \in SelectorOf(a)

Loaded == [pc : {"loaded"}, conv : Conversations, settings : Settings]

Underway ==
  [pc : {"trying", "failed"}, conv : Conversations, settings : Settings,
   relays : Seq(Relays), attempt : Nat \ {0}, alone : BOOLEAN]

Jobs == {Idle} \cup Loaded \cup Underway

(* Every piece of state is of its type; the indices of the selector always   *)
(* point into the members of the aggregate it was made for.                 *)
TypeOK ==
  /\ settings \in Settings
  /\ SelectorOK
  /\ req \in [Requests -> Jobs]
  /\ turn \in [Conversations -> 0 .. MaxTurns]
  /\ picks \in [Relays -> Nat]
  /\ home \in [Conversations -> Relays \cup {None}]

InFlight(r) == req[r].pc \in {"trying", "failed"}

(* A request is sent to the active relay of the settings it loaded, or to    *)
(* members of the active aggregate, to each at most once, whatever the other *)
(* requests and the user do to the selector and the settings meanwhile.     *)
OnlyCandidatesAreTried ==
  \A r \in Requests : InFlight(r) =>
    /\ \A k \in DOMAIN req[r].relays : req[r].relays[k] \in Candidates(req[r].settings)
    /\ \A j, k \in DOMAIN req[r].relays : req[r].relays[j] = req[r].relays[k] => j = k
    /\ req[r].attempt \in DOMAIN req[r].relays

(* What makes the two properties inductive: a request under way has the      *)
(* candidates of its settings before it, each once, and gave up only at the  *)
(* last; and the answers of a conversation are counted by one request at a   *)
(* time, so that its key stays one of Keys.                                 *)
Planned(j) ==
  j.pc \in {"trying", "failed"} =>
    /\ \A k \in DOMAIN j.relays : j.relays[k] \in Candidates(j.settings)
    /\ \A m \in Candidates(j.settings) : \E k \in DOMAIN j.relays : j.relays[k] = m
    /\ \A i, k \in DOMAIN j.relays : j.relays[i] = j.relays[k] => i = k
    /\ j.attempt \in DOMAIN j.relays
    /\ j.pc = "failed" => j.attempt = Len(j.relays)

Busy(j) == j.pc \in {"loaded", "trying"}

RequestsOK ==
  /\ \A r \in Requests : Planned(req[r])
  /\ \A r \in Requests : Busy(req[r]) => turn[req[r].conv] < MaxTurns
  /\ \A q, r \in Requests : Busy(req[q]) /\ Busy(req[r]) /\ q # r => req[q].conv # req[r].conv

Base == TypeOK /\ RequestsOK

(* Why the rotations by request are fair: every member has had the same     *)
(* number of whole turns, and of the turn under way what the index passed.  *)
ByRequest == {"requestRoundRobin", "weightedRoundRobin"}

Share(a, i) == IF a.strategy = "weightedRoundRobin" THEN Weight(a, i) ELSE 1

Ahead(sel, i) ==
  LET w == sel.weighted
  IN  IF sel.aggregate.strategy = "requestRoundRobin"
      THEN IF i < sel.request THEN 1 ELSE 0
      ELSE IF i < w.member THEN Weight(sel.aggregate, i)
      ELSE IF i = w.member THEN w.repetition - 1 ELSE 0

Accounted(sel, p) ==
  LET a == sel.aggregate
  IN  a.strategy \in ByRequest =>
        /\ sel.weighted.repetition <= Weight(a, sel.weighted.member)
        /\ \E turns \in 0 .. p[a.members[1].relay] : \A i \in DOMAIN a.members :
             p[a.members[i].relay] = turns * Share(a, i) + Ahead(sel, i)

SharesOK == selector # None => Accounted(selector, picks)

(* Why conversations stay: the selector knows the member of each one that    *)
(* carries an id.                                                           *)
HomesOK ==
  selector # None /\ selector.aggregate.strategy = "conversationRoundRobin" =>
    \A c \in Conversations \cap Explicit : home[c] = selector.assigned[<<c, 0>>]

(* Why failover follows a request that is alone: what it has still to try    *)
(* are the members from the selector's index on.                            *)
Following(j, sel) ==
  LET a == sel.aggregate
      n == Len(a.members)
  IN  /\ j.settings.active = a
      /\ a.strategy = "failover" =>
           /\ Len(j.relays) = n
           /\ \A k \in j.attempt .. n :
                LET i == sel.failover + k - j.attempt
                IN  j.relays[k] = a.members[IF i <= n THEN i ELSE i - n].relay

AloneOK ==
  \A r \in Requests :
    selector # None /\ req[r].pc = "trying" /\ req[r].alone => Following(req[r], selector)

IInv == Base /\ SharesOK /\ HomesOK /\ AloneOK

(* A request fails only when every member of the aggregate was tried and     *)
(* failed: one that works serves it.                                        *)
AvailableMemberServes ==
  \A r \in Requests : req[r].pc = "failed" =>
    \A m \in Candidates(req[r].settings) :
      \E k \in 1 .. req[r].attempt : req[r].relays[k] = m

(* The failover strategy, for a request no other one interfered with: the    *)
(* member that served it is the one tried first from then on, and one that   *)
(* failed is not, if there are others.                                      *)
FailoverFollowsRequests ==
  [][\A r \in Requests :
       LET x == Relay(r)
           heeds == req[r].alone /\ selector # None /\ selector.aggregate.strategy = "failover"
       IN  /\ Serve(r) /\ heeds => Picked(selector', None) = x
           /\ FailOver(r) /\ heeds /\ Len(selector.aggregate.members) > 1 =>
                Picked(selector', None) # x]_vars

(* The two rotations by request give every member its share: whatever the    *)
(* interleaving of requests, no member is ahead of another by more than one  *)
(* turn of as many requests as it weighs.                                   *)
FairShares ==
  selector # None =>
    LET a == selector.aggregate
        n(i) == picks[a.members[i].relay]
    IN  a.strategy \in ByRequest =>
          \A i, j \in DOMAIN a.members :
            n(i) * Share(a, j) <= n(j) * Share(a, i) + Share(a, i) * Share(a, j)

(* The rotation by conversation sends every request of a conversation first  *)
(* to the member that got the conversation's first request, until the        *)
(* selector is replaced.                                                    *)
ConversationKeepsMember ==
  [][\A r \in Requests :
       /\ SelectMember(r) /\ selector # None /\ selector' # None
       /\ selector'.aggregate = selector.aggregate
       /\ selector.aggregate.strategy = "conversationRoundRobin"
       /\ req'[r].pc = "trying" /\ home[req[r].conv] # None
       => req'[r].relays[1] = home[req[r].conv]]_vars

=============================================================================
