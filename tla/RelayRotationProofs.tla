------------------------- MODULE RelayRotationProofs -------------------------
(***************************************************************************)
(* Proofs about RelayRotation, for any number of relays, aggregates,        *)
(* conversations and concurrent requests.                                   *)
(***************************************************************************)
EXTENDS RelayRotation, SequenceTheorems, TLAPS

(* What a request to the aggregate a sets out to try: each member, once. *)
EachOnce(a, sent) ==
  /\ sent \in Seq(Relays) /\ 1 \in DOMAIN sent
  /\ \A k \in DOMAIN sent : sent[k] \in RelaysOf(a)
  /\ \A m \in RelaysOf(a) : \E k \in DOMAIN sent : sent[k] = m
  /\ \A j, k \in DOMAIN sent : sent[j] = sent[k] => j = k

(* The fallbacks of a member are the other members, each once. *)
LEMMA FallbacksCover ==
  ASSUME NEW a \in Aggregates, NEW first \in RelaysOf(a)
  PROVE  EachOnce(a, <<first>> \o Fallbacks(a, first))
<1>0. PICK i \in DOMAIN a.members : first = a.members[i].relay
  BY DEF RelaysOf
<1> DEFINE m == a.members
           n == Len(m)
           relay == m[i].relay
           others == Fallbacks(a, relay)
           tried == <<relay>> \o others
           at(k) == IF i + k <= n + 1 THEN i + k - 1 ELSE i + k - 1 - n
<1>1. /\ n \in Nat /\ DOMAIN m = 1 .. n /\ i \in 1 .. n
      /\ \A k \in 1 .. n : m[k].relay \in Relays
      /\ \A j, k \in 1 .. n : m[j].relay = m[k].relay => j = k
  <2>1. m \in Seq(Member)
    BY AggregateAssumption DEF AggregateRelayProfile
  <2>2. \A j, k \in DOMAIN m : m[j].relay = m[k].relay => j = k
    BY AggregateAssumption
  <2>3. n \in Nat /\ DOMAIN m = 1 .. n
    BY <2>1
  <2>4. \A k \in 1 .. n : m[k] \in Member
    BY <2>1, ElementOfSeq
  <2>5. \A k \in 1 .. n : m[k].relay \in Relays
    BY <2>4 DEF Member
  <2> QED BY <2>2, <2>3, <2>5
<1>2. Position(a, relay) = i
  BY <1>1 DEF Position
<1> HIDE DEF n
<1>3. /\ \A k \in 1 .. n : at(k) \in 1 .. n
      /\ \A j, k \in 1 .. n : at(j) = at(k) => j = k
      /\ \A k \in 1 .. n : \E j \in 1 .. n : at(j) = k
  <2> HIDE DEF m
  <2>0. n \in Nat /\ i \in 1 .. n
    BY <1>1
  <2>1. /\ \A k \in 1 .. n : at(k) \in 1 .. n
        /\ \A j, k \in 1 .. n : at(j) = at(k) => j = k
    <3>1. ASSUME NEW j \in 1 .. n, NEW k \in 1 .. n, at(j) = at(k) PROVE j = k
      BY <2>0, <3>1
    <3>2. ASSUME NEW k \in 1 .. n PROVE at(k) \in 1 .. n
      BY <2>0
    <3> HIDE DEF at
    <3> QED BY <3>1, <3>2
  <2>2. ASSUME NEW k \in 1 .. n PROVE \E j \in 1 .. n : at(j) = k
    <3>1. CASE k >= i
      <4>1. k - i + 1 \in 1 .. n /\ at(k - i + 1) = k
        BY <3>1, <2>0
      <4> QED BY <4>1
    <3>2. CASE k < i
      <4>1. k - i + 1 + n \in 1 .. n /\ at(k - i + 1 + n) = k
        BY <3>2, <2>0
      <4> QED BY <4>1
    <3> QED BY <3>1, <3>2, <2>0
  <2> QED BY <2>1, <2>2
<1>4. others = [k \in 1 .. n - 1 |-> m[at(k + 1)].relay]
  BY <1>1, <1>2 DEF Fallbacks, n
<1>5. others \in Seq(Relays) /\ Len(others) = n - 1
  <2> HIDE DEF at
  <2>1. ASSUME NEW k \in 1 .. n - 1 PROVE m[at(k + 1)].relay \in Relays
    <3>1. k + 1 \in 1 .. n
      BY <1>1
    <3>2. at(k + 1) \in 1 .. n
      BY <3>1, <1>3
    <3> QED BY <3>2, <1>1
  <2>2. n - 1 \in Nat
    BY <1>1
  <2> HIDE DEF others, at
  <2> QED BY <1>4, <2>1, <2>2
<1>6. /\ tried \in Seq(Relays) /\ DOMAIN tried = 1 .. n
      /\ \A k \in 1 .. n : tried[k] = m[at(k)].relay
  <2>1. at(1) = i /\ relay \in Relays
    BY <1>1
  <2>2. \A k \in 2 .. n : others[k - 1] = m[at(k)].relay
    <3> HIDE DEF others, at
    <3>1. \A k \in 2 .. n : k - 1 \in 1 .. n - 1 /\ (k - 1) + 1 = k
      BY <1>1
    <3> QED BY <3>1, <1>4
  <2> HIDE DEF others, at
  <2>3. /\ tried \in Seq(Relays) /\ Len(tried) = n
        /\ tried[1] = relay
        /\ \A k \in 2 .. n : tried[k] = others[k - 1]
    BY <1>1, <1>5, <2>1
  <2> QED BY <1>1, <2>1, <2>2, <2>3
<1> HIDE DEF at, tried
<1>7. /\ \A k \in DOMAIN tried : tried[k] \in RelaysOf(a)
      /\ \A j, k \in DOMAIN tried : tried[j] = tried[k] => j = k
      /\ \A x \in RelaysOf(a) : \E k \in DOMAIN tried : tried[k] = x
  <2> HIDE DEF m
  <2>1. RelaysOf(a) = {m[k].relay : k \in 1 .. n}
    BY <1>1 DEF RelaysOf, m
  <2>2. \A k \in DOMAIN tried : tried[k] \in RelaysOf(a)
    BY <1>3, <1>6, <2>1
  <2>3. ASSUME NEW j \in DOMAIN tried, NEW k \in DOMAIN tried, tried[j] = tried[k]
        PROVE  j = k
    <3>1. j \in 1 .. n /\ k \in 1 .. n
      BY <1>6
    <3>2. m[at(j)].relay = m[at(k)].relay
      BY <3>1, <1>6, <2>3
    <3>3. at(j) \in 1 .. n /\ at(k) \in 1 .. n
      BY <3>1, <1>3
    <3>4. at(j) = at(k)
      BY <3>2, <3>3, <1>1
    <3> QED BY <3>1, <3>4, <1>3
  <2>4. ASSUME NEW x \in RelaysOf(a) PROVE \E k \in DOMAIN tried : tried[k] = x
    <3>1. PICK k \in 1 .. n : x = m[k].relay
      BY <2>1
    <3>2. PICK j \in 1 .. n : at(j) = k
      BY <1>3
    <3> QED BY <3>1, <3>2, <1>6
  <2> QED BY <2>2, <2>3, <2>4
<1>8. 1 \in DOMAIN tried
  BY <1>1, <1>6
<1>9. EachOnce(a, tried)
  BY <1>6, <1>7, <1>8 DEF EachOnce
<1> QED BY <1>0, <1>9 DEF tried

-----------------------------------------------------------------------------
(* The selector *)

LEMMA MembersType ==
  ASSUME NEW a \in Aggregates
  PROVE  /\ a.members \in Seq(Member) /\ Len(a.members) \in Nat
         /\ DOMAIN a.members = 1 .. Len(a.members)
         /\ \A i \in DOMAIN a.members : a.members[i] \in Member
         /\ RelaysOf(a) \subseteq Relays /\ None \notin RelaysOf(a)
         /\ a.members # <<>> => 1 \in DOMAIN a.members
<1>1. a.members \in Seq(Member)
  BY AggregateAssumption DEF AggregateRelayProfile
<1>2. Len(a.members) \in Nat /\ DOMAIN a.members = 1 .. Len(a.members)
  BY <1>1
<1>3. \A i \in DOMAIN a.members : a.members[i] \in Member
  BY <1>1, <1>2, ElementOfSeq
<1>4. RelaysOf(a) \subseteq Relays
  BY <1>3 DEF RelaysOf, Member
<1>5. a.members # <<>> => 1 \in DOMAIN a.members
  BY <1>1, <1>2, EmptySeq
<1> QED BY <1>1, <1>2, <1>3, <1>4, <1>5, NoneAssumption

LEMMA FreshType ==
  ASSUME NEW a \in Aggregates, a.members # <<>>
  PROVE  Fresh(a) \in SelectorOf(a)
BY MembersType DEF Fresh, SelectorOf

LEMMA Next1Type ==
  ASSUME NEW a \in Aggregates, NEW sel, sel.aggregate = a, NEW i \in DOMAIN a.members
  PROVE  Next1(sel, i) \in DOMAIN a.members
BY MembersType DEF Next1

LEMMA NextWeightedType ==
  ASSUME NEW a \in Aggregates, NEW sel \in SelectorOf(a)
  PROVE  NextWeighted(sel) \in [member : DOMAIN a.members, repetition : Nat \ {0}]
<1>1. /\ sel.aggregate = a /\ sel.weighted.member \in DOMAIN a.members
      /\ sel.weighted.repetition \in Nat \ {0}
      /\ sel.weighted \in [member : DOMAIN a.members, repetition : Nat \ {0}]
  BY DEF SelectorOf
<1>2. Next1(sel, sel.weighted.member) \in DOMAIN a.members
  BY <1>1, Next1Type
<1> QED BY <1>1, <1>2 DEF NextWeighted

LEMMA PickedType ==
  ASSUME NEW a \in Aggregates, NEW sel \in SelectorOf(a), NEW key \in Keys \cup {None}
  PROVE  /\ Picked(sel, key) \in RelaysOf(a)
         /\ \E i \in DOMAIN a.members : Picked(sel, key) = a.members[i].relay
         /\ HavingPicked(sel, key) \in SelectorOf(a)
<1>1. /\ sel.aggregate = a
      /\ sel.failover \in DOMAIN a.members /\ sel.request \in DOMAIN a.members
      /\ sel.weighted.member \in DOMAIN a.members
      /\ sel.assigned \in [Keys -> RelaysOf(a) \cup {None}]
  BY DEF SelectorOf
<1>2. Assigned(sel, key) => sel.assigned[key] \in RelaysOf(a)
  BY <1>1 DEF Assigned
<1>3. Picked(sel, key) \in RelaysOf(a)
  BY <1>1, <1>2 DEF Picked, RelaysOf
<1>4. Next1(sel, sel.request) \in DOMAIN a.members
  BY <1>1, Next1Type
<1>5. HavingPicked(sel, key) \in SelectorOf(a)
  <2>1. [sel EXCEPT !.request = Next1(sel, @)] \in SelectorOf(a)
    BY <1>4 DEF SelectorOf
  <2>2. [sel EXCEPT !.weighted = NextWeighted(sel)] \in SelectorOf(a)
    BY NextWeightedType DEF SelectorOf
  <2>3. [sel EXCEPT !.request = Next1(sel, @),
                    !.assigned = [k \in Keys |-> IF k = key THEN Picked(sel, key) ELSE @[k]]]
          \in SelectorOf(a)
    BY <1>1, <1>3, <1>4 DEF SelectorOf
  <2> QED BY <2>1, <2>2, <2>3 DEF HavingPicked
<1> QED BY <1>3, <1>5 DEF RelaysOf

LEMMA RecordedType ==
  ASSUME NEW a \in Aggregates, NEW sel \in SelectorOf(a), NEW failed
  PROVE  Recorded(sel, failed) \in SelectorOf(a)
<1>1. sel.aggregate = a /\ sel.failover \in DOMAIN a.members
  BY DEF SelectorOf
<1>2. Next1(sel, sel.failover) \in DOMAIN a.members
  BY <1>1, Next1Type
<1> QED BY <1>2 DEF Recorded, SelectorOf

LEMMA CurrentType ==
  ASSUME SelectorOK, NEW s \in Settings, Valid(s)
  PROVE  Current(s) \in SelectorOf(s.active)
<1>1. s.active \in Aggregates /\ s.active.members # <<>>
  BY DEF Valid
<1>2. CASE selector # None /\ selector.aggregate = s.active
  <2>1. PICK a \in Aggregates : selector \in SelectorOf(a)
    BY <1>2 DEF SelectorOK
  <2>2. a = s.active
    BY <1>2, <2>1 DEF SelectorOf
  <2> QED BY <1>2, <2>1, <2>2 DEF Current
<1>3. CASE ~(selector # None /\ selector.aggregate = s.active)
  BY <1>1, <1>3, FreshType DEF Current
<1> QED BY <1>2, <1>3

-----------------------------------------------------------------------------
(* The requests *)

LEMMA JobFields ==
  ASSUME NEW j \in Jobs
  PROVE  /\ j.pc = "trying" => j \in Underway
         /\ j.pc = "loaded" => j \in Loaded
         /\ j.pc \in {"idle", "loaded", "trying", "failed"}
BY DEF Jobs, Idle, Loaded, Underway

LEMMA IdleJob == Idle \in Jobs /\ Planned(Idle) /\ ~Busy(Idle)
BY DEF Jobs, Idle, Planned, Busy

LEMMA ToldJob ==
  ASSUME NEW j \in Jobs, j.pc = "trying", Planned(j), NEW b \in BOOLEAN
  PROVE  LET k == [j EXCEPT !.alone = b]
         IN  k \in Jobs /\ Planned(k) /\ Busy(k) /\ k.conv = j.conv
<1> DEFINE k == [j EXCEPT !.alone = b]
<1>1. j \in Underway
  BY JobFields
<1>2. k \in Underway /\ k.pc = j.pc /\ k.conv = j.conv /\ k.settings = j.settings
      /\ k.relays = j.relays /\ k.attempt = j.attempt
  BY <1>1 DEF Underway
<1> QED BY <1>2 DEF Planned, Busy, Jobs

(* What the others notice of a step of r: nothing, or that the selector     *)
(* was disturbed.                                                           *)
Others(r) ==
  \A q \in Requests : q # r =>
    /\ req'[q] \in Jobs /\ Planned(req'[q])
    /\ Busy(req'[q]) => Busy(req[q]) /\ req'[q].conv = req[q].conv

LEMMA BecomesOthers ==
  ASSUME Base, NEW r \in Requests, NEW new \in Jobs, Becomes(r, new)
  PROVE  req' \in [Requests -> Jobs] /\ req'[r] = new /\ Others(r)
<1>1. ASSUME NEW q \in Requests, q # r
      PROVE  /\ req'[q] \in Jobs /\ Planned(req'[q])
             /\ Busy(req'[q]) => Busy(req[q]) /\ req'[q].conv = req[q].conv
  <2>1. req[q] \in Jobs /\ Planned(req[q])
    BY DEF Base, TypeOK, RequestsOK
  <2>2. CASE req[q].pc = "trying"
    <3> DEFINE b == req[q].alone /\ ~Disturbed
    <3>1. b \in BOOLEAN
      OBVIOUS
    <3>2. req'[q] = [req[q] EXCEPT !.alone = b]
      BY <1>1, <2>2 DEF Becomes
    <3> HIDE DEF b
    <3> QED BY <2>1, <2>2, <3>1, <3>2, ToldJob DEF Busy
  <2>3. CASE req[q].pc # "trying"
    BY <1>1, <2>1, <2>3 DEF Becomes
  <2> QED BY <2>2, <2>3
<1>2. req'[r] = new
  BY DEF Becomes
<1>3. req' \in [Requests -> Jobs]
  <2>1. req' = [q \in Requests |-> req'[q]]
    BY DEF Becomes
  <2>2. \A q \in Requests : req'[q] \in Jobs
    BY <1>1, <1>2
  <2> QED BY <2>1, <2>2
<1> QED BY <1>1, <1>2, <1>3 DEF Others

LEMMA ExceptOthers ==
  ASSUME Base, NEW r \in Requests, NEW new \in Jobs, req' = [req EXCEPT ![r] = new]
  PROVE  req' \in [Requests -> Jobs] /\ req'[r] = new /\ Others(r)
BY DEF Base, TypeOK, RequestsOK, Others

(* A step of r keeps the requests in order if its own new state is: either   *)
(* r was busy with that conversation before, or nobody is.                  *)
LEMMA RequestsStep ==
  ASSUME Base, NEW r \in Requests, req' \in [Requests -> Jobs], Others(r),
         Planned(req'[r]),
         turn' \in [Conversations -> 0 .. MaxTurns],
         \A c \in Conversations : turn'[c] # turn[c] =>
           ~Busy(req'[r]) /\ Busy(req[r]) /\ c = req[r].conv,
         Busy(req'[r]) =>
           /\ req'[r].conv \in Conversations /\ turn[req'[r].conv] < MaxTurns
           /\ \A q \in Requests : q # r /\ Busy(req[q]) => req[q].conv # req'[r].conv
  PROVE  RequestsOK'
<1>1. ASSUME NEW q \in Requests PROVE Planned(req'[q])
  BY DEF Others
<1>2. ASSUME NEW q \in Requests, Busy(req'[q])
      PROVE  turn'[req'[q].conv] < MaxTurns
  <2>1. CASE q = r
    BY <1>2, <2>1
  <2>2. CASE q # r
    <3>1. Busy(req[q]) /\ req'[q].conv = req[q].conv
      BY <1>2, <2>2 DEF Others
    <3>2. turn[req[q].conv] < MaxTurns /\ req[q].conv \in Conversations
      BY <3>1, JobFields DEF Base, TypeOK, RequestsOK, Busy, Loaded, Underway
    <3>3. Busy(req[r]) => req[q].conv # req[r].conv
      BY <2>2, <3>1 DEF Base, RequestsOK
    <3> QED BY <3>1, <3>2, <3>3
  <2> QED BY <2>1, <2>2
<1>3. ASSUME NEW p \in Requests, NEW q \in Requests, Busy(req'[p]), Busy(req'[q]), p # q
      PROVE  req'[p].conv # req'[q].conv
  <2>1. CASE p # r /\ q # r
    BY <1>3, <2>1 DEF Others, Base, RequestsOK
  <2>2. CASE p = r
    BY <1>3, <2>2 DEF Others
  <2>3. CASE q = r
    BY <1>3, <2>3 DEF Others
  <2> QED BY <2>1, <2>2, <2>3
<1> QED BY <1>1, <1>2, <1>3 DEF RequestsOK

-----------------------------------------------------------------------------
(* The steps *)

LEMMA KeyType ==
  ASSUME turn \in [Conversations -> 0 .. MaxTurns], NEW c \in Conversations
  PROVE  Key(c) \in Keys \cup {None}
BY BoundsAssumption DEF Key, Keys

(* Fields of a request that is loaded or tried. *)
LEMMA BusyFields ==
  ASSUME Base, NEW r \in Requests, Busy(req[r])
  PROVE  /\ req[r] \in Jobs /\ Planned(req[r])
         /\ req[r].conv \in Conversations /\ req[r].settings \in Settings
         /\ turn[req[r].conv] < MaxTurns
         /\ \A q \in Requests : q # r /\ Busy(req[q]) => req[q].conv # req[r].conv
<1>1. req[r] \in Jobs
  BY DEF Base, TypeOK
<1>2. req[r].conv \in Conversations /\ req[r].settings \in Settings
  BY <1>1, JobFields DEF Busy, Loaded, Underway
<1> QED BY <1>1, <1>2 DEF Base, RequestsOK

LEMMA LoadStep ==
  ASSUME Base, NEW r \in Requests, NEW c \in Conversations, Load(r, c)
  PROVE  Base'
<1> DEFINE new == [pc |-> "loaded", conv |-> c, settings |-> settings]
<1>1. new \in Jobs /\ Planned(new)
  BY DEF Base, TypeOK, Jobs, Loaded, Planned
<1>2. req' \in [Requests -> Jobs] /\ req'[r] = new /\ Others(r)
  BY <1>1, ExceptOthers DEF Load
<1>3. /\ turn' = turn /\ turn \in [Conversations -> 0 .. MaxTurns] /\ turn[c] < MaxTurns
      /\ \A q \in Requests : Busy(req[q]) => req[q].conv # c
  BY DEF Load, Busy, Base, TypeOK
<1>4. RequestsOK'
  BY <1>1, <1>2, <1>3, RequestsStep
<1> QED BY <1>2, <1>4 DEF Base, TypeOK, Load, SelectorOK

(* Trying(r, relays) is in order for relays that are the candidates. *)
LEMMA TryingPlanned ==
  ASSUME Base, NEW r \in Requests, req[r].pc = "loaded",
         NEW relays \in Seq(Relays), 1 \in DOMAIN relays,
         \A k \in DOMAIN relays : relays[k] \in Candidates(req[r].settings),
         \A m \in Candidates(req[r].settings) : \E k \in DOMAIN relays : relays[k] = m,
         \A i, k \in DOMAIN relays : relays[i] = relays[k] => i = k
  PROVE  Trying(r, relays) \in Jobs /\ Planned(Trying(r, relays))
<1>1. Busy(req[r])
  BY DEF Busy
<1>2. Trying(r, relays) \in Jobs
  BY <1>1, BusyFields DEF Trying, Jobs, Underway
<1> QED BY <1>2 DEF Trying, Planned

LEMMA SelectRegularStep ==
  ASSUME Base, NEW r \in Requests, SelectRegular(r)
  PROVE  Base'
<1> DEFINE s == req[r].settings
           new == Trying(r, <<s.active>>)
<1>1. req[r].pc = "loaded" /\ Busy(req[r]) /\ s.active \in Relays
  BY DEF SelectRegular, Busy
<1>2. Candidates(s) = {s.active}
  BY <1>1, DisjointAssumption DEF Candidates
<1>3. new \in Jobs /\ Planned(new)
  <2>1. <<s.active>> \in Seq(Relays) /\ DOMAIN <<s.active>> = {1} /\ <<s.active>>[1] = s.active
    BY <1>1
  <2> QED BY <1>1, <1>2, <2>1, TryingPlanned
<1>4. req' \in [Requests -> Jobs] /\ req'[r] = new /\ Others(r)
  BY <1>3, BecomesOthers DEF SelectRegular
<1>5. turn' = turn /\ turn \in [Conversations -> 0 .. MaxTurns] /\ new.conv = req[r].conv
  BY DEF SelectRegular, Base, TypeOK, Trying
<1>6. RequestsOK'
  BY <1>1, <1>3, <1>4, <1>5, BusyFields, RequestsStep
<1> QED BY <1>4, <1>5, <1>6 DEF Base, TypeOK, SelectRegular, SelectorOK

LEMMA SelectMemberStep ==
  ASSUME Base, NEW r \in Requests, SelectMember(r)
  PROVE  Base'
<1> DEFINE s == req[r].settings
           c == req[r].conv
           current == Current(s)
           picked == Picked(current, Key(c))
           relays == <<picked>> \o Fallbacks(s.active, picked)
           count == IF Renewed THEN 0 ELSE picks[picked]
           byRequest == s.active.strategy \in {"requestRoundRobin", "weightedRoundRobin"}
           byConversation == s.active.strategy = "conversationRoundRobin"
<1>1. /\ req[r].pc = "loaded" /\ Busy(req[r]) /\ s.active \in Aggregates
      /\ s \in Settings /\ c \in Conversations
      /\ turn' = turn /\ turn \in [Conversations -> 0 .. MaxTurns] /\ settings' = settings
  BY BusyFields DEF SelectMember, Busy, Base, TypeOK
<1>2. CASE ~Valid(s)
  <2> DEFINE new == Idle
  <2>1. UNCHANGED <<selector, picks, home>> /\ req' = [req EXCEPT ![r] = new]
    BY <1>2 DEF SelectMember
  <2>2. new \in Jobs /\ Planned(new) /\ ~Busy(new)
    BY IdleJob
  <2>3. req' \in [Requests -> Jobs] /\ req'[r] = new /\ Others(r)
    BY <2>1, <2>2, ExceptOthers
  <2>4. RequestsOK'
    BY <1>1, <2>2, <2>3, RequestsStep
  <2> QED BY <1>1, <2>1, <2>3, <2>4 DEF Base, TypeOK, SelectorOK
<1>3. CASE Valid(s)
  <2> DEFINE new == Trying(r, relays)
  <2>1. /\ selector' = HavingPicked(current, Key(c))
        /\ Becomes(r, new)
        /\ picks' = [m \in Relays |->
                       IF m = picked /\ byRequest THEN count + 1
                       ELSE IF Renewed THEN 0 ELSE picks[m]]
        /\ home' = [d \in Conversations |->
                      LET old == IF Renewed THEN None ELSE home[d]
                      IN  IF d = c /\ old = None /\ byConversation THEN picked ELSE old]
    BY <1>3 DEF SelectMember
  <2>2. current \in SelectorOf(s.active) /\ s.active.members # <<>>
    BY <1>1, <1>3, CurrentType DEF Base, TypeOK, Valid
  <2>3. /\ picked \in RelaysOf(s.active) /\ picked \in Relays
        /\ selector' \in SelectorOf(s.active)
        /\ \E i \in DOMAIN s.active.members : picked = s.active.members[i].relay
    BY <1>1, <2>1, <2>2, KeyType, PickedType, MembersType
  <2>4. /\ relays \in Seq(Relays) /\ 1 \in DOMAIN relays
        /\ \A k \in DOMAIN relays : relays[k] \in RelaysOf(s.active)
        /\ \A m \in RelaysOf(s.active) : \E k \in DOMAIN relays : relays[k] = m
        /\ \A i, k \in DOMAIN relays : relays[i] = relays[k] => i = k
    <3>1. EachOnce(s.active, relays)
      BY <1>1, <2>3, FallbacksCover
    <3> HIDE DEF relays
    <3> QED BY <3>1 DEF EachOnce
  <2>5. Candidates(s) = RelaysOf(s.active)
    BY <1>1 DEF Candidates
  <2> HIDE DEF relays, picked, current
  <2>6. new \in Jobs /\ Planned(new)
    BY <1>1, <2>4, <2>5, TryingPlanned
  <2>7. req' \in [Requests -> Jobs] /\ req'[r] = new /\ Others(r)
    BY <2>1, <2>6, BecomesOthers
  <2>8. new.conv = req[r].conv
    BY DEF Trying
  <2>9. RequestsOK'
    BY <1>1, <2>6, <2>7, <2>8, BusyFields, RequestsStep
  <2>10. picks' \in [Relays -> Nat]
    <3>1. picks \in [Relays -> Nat]
      BY DEF Base, TypeOK
    <3>2. count \in Nat
      BY <2>3, <3>1
    <3> HIDE DEF count
    <3> QED BY <2>1, <3>1, <3>2
  <2>11. home' \in [Conversations -> Relays \cup {None}]
    <3>1. home \in [Conversations -> Relays \cup {None}]
      BY DEF Base, TypeOK
    <3> QED BY <2>1, <2>3, <3>1
  <2>12. SelectorOK'
    BY <1>1, <2>2, <2>3 DEF SelectorOK
  <2> QED BY <1>1, <2>7, <2>9, <2>10, <2>11, <2>12 DEF Base, TypeOK
<1> QED BY <1>2, <1>3

(* The history variables after a step that may replace the selector. *)
LEMMA HistoryStep ==
  ASSUME Base,
         picks' = IF Renewed THEN [m \in Relays |-> 0] ELSE picks,
         home' = IF Renewed THEN [c \in Conversations |-> None] ELSE home
  PROVE  picks' \in [Relays -> Nat] /\ home' \in [Conversations -> Relays \cup {None}]
BY DEF Base, TypeOK

LEMMA RecordStep ==
  ASSUME Base, NEW s, NEW failed, Record(s, failed)
  PROVE  SelectorOK'
<1>1. CASE selector' = None
  BY <1>1 DEF SelectorOK
<1>2. CASE selector # None /\ selector' = Recorded(selector, failed)
  BY <1>2, RecordedType DEF SelectorOK, Base, TypeOK
<1> QED BY <1>1, <1>2 DEF Record

LEMMA ProbeStep ==
  ASSUME Base, Probe
  PROVE  Base'
<1>1. SelectorOK'
  <2>1. CASE selector' = None
    BY <2>1 DEF SelectorOK
  <2>2. CASE Valid(settings) /\ selector' = Current(settings)
    BY <2>2, CurrentType DEF SelectorOK, Base, TypeOK, Valid
  <2> QED BY <2>1, <2>2 DEF Probe
<1>2. ASSUME NEW q \in Requests
      PROVE  /\ req'[q] \in Jobs /\ Planned(req'[q])
             /\ Busy(req'[q]) => Busy(req[q]) /\ req'[q].conv = req[q].conv
  <2>1. req[q] \in Jobs /\ Planned(req[q])
    BY DEF Base, TypeOK, RequestsOK
  <2>2. CASE req[q].pc = "trying"
    <3> DEFINE b == req[q].alone /\ ~Disturbed
    <3>1. b \in BOOLEAN
      OBVIOUS
    <3>2. req'[q] = [req[q] EXCEPT !.alone = b]
      BY <2>2 DEF Probe
    <3> HIDE DEF b
    <3> QED BY <2>1, <2>2, <3>1, <3>2, ToldJob DEF Busy
  <2>3. CASE req[q].pc # "trying"
    BY <2>1, <2>3 DEF Probe
  <2> QED BY <2>2, <2>3
<1>3. req' \in [Requests -> Jobs]
  <2>1. req' = [q \in Requests |-> req'[q]]
    BY DEF Probe
  <2> QED BY <1>2, <2>1
<1>4. turn' = turn /\ settings' = settings
  BY DEF Probe
<1>5. RequestsOK'
  BY <1>2, <1>4 DEF RequestsOK, Base
<1>6. picks' \in [Relays -> Nat] /\ home' \in [Conversations -> Relays \cup {None}]
  BY HistoryStep DEF Probe
<1> QED BY <1>1, <1>3, <1>4, <1>5, <1>6 DEF Base, TypeOK

LEMMA RefuseStep ==
  ASSUME Base, NEW r \in Requests, Refuse(r)
  PROVE  Base'
<1> DEFINE new == Idle
<1>1. /\ Busy(req[r]) /\ req[r].pc = "trying" /\ req' = [req EXCEPT ![r] = new]
      /\ UNCHANGED <<settings, selector, turn, picks, home>>
  BY DEF Refuse, Busy
<1>2. new \in Jobs /\ Planned(new) /\ ~Busy(new)
  BY IdleJob
<1>3. req' \in [Requests -> Jobs] /\ req'[r] = new /\ Others(r)
  BY <1>1, <1>2, ExceptOthers
<1>4. turn \in [Conversations -> 0 .. MaxTurns]
  BY DEF Base, TypeOK
<1>5. RequestsOK'
  BY <1>1, <1>2, <1>3, <1>4, RequestsStep
<1> QED BY <1>1, <1>3, <1>5 DEF Base, TypeOK, SelectorOK

LEMMA ServeStep ==
  ASSUME Base, NEW r \in Requests, Serve(r)
  PROVE  Base'
<1> DEFINE new == Idle
           c == req[r].conv
<1>1. /\ req[r].pc = "trying" /\ Busy(req[r]) /\ Becomes(r, new)
      /\ turn' = [turn EXCEPT ![c] = @ + 1] /\ settings' = settings
  BY DEF Serve, Busy
<1>2. new \in Jobs /\ Planned(new) /\ ~Busy(new)
  BY IdleJob
<1>3. req' \in [Requests -> Jobs] /\ req'[r] = new /\ Others(r)
  BY <1>1, <1>2, BecomesOthers
<1>4. turn' \in [Conversations -> 0 .. MaxTurns]
  <2>1. turn \in [Conversations -> 0 .. MaxTurns] /\ c \in Conversations /\ turn[c] < MaxTurns
    BY <1>1, BusyFields DEF Base, TypeOK
  <2>2. turn[c] + 1 \in 0 .. MaxTurns
    BY <2>1, BoundsAssumption
  <2> QED BY <1>1, <2>1, <2>2
<1>5. \A d \in Conversations : turn'[d] # turn[d] => d = c
  BY <1>1 DEF Base, TypeOK
<1>6. RequestsOK'
  BY <1>1, <1>2, <1>3, <1>4, <1>5, RequestsStep
<1>7. SelectorOK' /\ picks' \in [Relays -> Nat] /\ home' \in [Conversations -> Relays \cup {None}]
  BY RecordStep, HistoryStep DEF Serve
<1> QED BY <1>1, <1>3, <1>4, <1>6, <1>7 DEF Base, TypeOK

LEMMA FailOverStep ==
  ASSUME Base, NEW r \in Requests, FailOver(r)
  PROVE  Base'
<1> DEFINE new == IF HasMoreCandidates(r) THEN [req[r] EXCEPT !.attempt = @ + 1]
                  ELSE [req[r] EXCEPT !.pc = "failed"]
<1>1. /\ req[r].pc = "trying" /\ Busy(req[r]) /\ Becomes(r, new)
      /\ turn' = turn /\ settings' = settings /\ turn \in [Conversations -> 0 .. MaxTurns]
  BY DEF FailOver, Busy, Base, TypeOK
<1>2. new \in Jobs /\ Planned(new) /\ new.conv = req[r].conv
  <2>1. /\ req[r] \in Underway /\ Planned(req[r])
        /\ req[r].relays \in Seq(Relays) /\ req[r].attempt \in Nat \ {0}
    BY <1>1, BusyFields, JobFields DEF Underway
  <2>2. req[r].attempt \in 1 .. Len(req[r].relays) /\ Len(req[r].relays) \in Nat
    BY <1>1, <2>1 DEF Planned
  <2>3. CASE HasMoreCandidates(r)
    <3>1. req[r].attempt + 1 \in DOMAIN req[r].relays
      BY <2>1, <2>2, <2>3 DEF HasMoreCandidates
    <3>2. /\ new = [req[r] EXCEPT !.attempt = @ + 1] /\ new \in Underway
          /\ new.pc = "trying" /\ new.relays = req[r].relays /\ new.settings = req[r].settings
          /\ new.attempt = req[r].attempt + 1 /\ new.conv = req[r].conv
      BY <1>1, <2>1, <2>3 DEF Underway
    <3> HIDE DEF new
    <3> QED BY <1>1, <2>1, <3>1, <3>2 DEF Jobs, Planned
  <2>4. CASE ~HasMoreCandidates(r)
    <3>1. req[r].attempt = Len(req[r].relays)
      BY <2>2, <2>4 DEF HasMoreCandidates
    <3>2. /\ new = [req[r] EXCEPT !.pc = "failed"] /\ new \in Underway
          /\ new.pc = "failed" /\ new.relays = req[r].relays /\ new.settings = req[r].settings
          /\ new.attempt = req[r].attempt /\ new.conv = req[r].conv
      BY <1>1, <2>1, <2>4 DEF Underway
    <3> HIDE DEF new
    <3> QED BY <1>1, <2>1, <3>1, <3>2 DEF Jobs, Planned
  <2> QED BY <2>3, <2>4
<1> HIDE DEF new
<1>3. req' \in [Requests -> Jobs] /\ req'[r] = new /\ Others(r)
  BY <1>1, <1>2, BecomesOthers
<1>4. RequestsOK'
  BY <1>1, <1>2, <1>3, BusyFields, RequestsStep
<1>5. SelectorOK' /\ picks' \in [Relays -> Nat] /\ home' \in [Conversations -> Relays \cup {None}]
  BY RecordStep, HistoryStep DEF FailOver
<1> QED BY <1>1, <1>3, <1>4, <1>5 DEF Base, TypeOK

LEMMA SetSettingsStep ==
  ASSUME Base, NEW s \in SettingsInUse, SetSettings(s)
  PROVE  Base'
BY SettingsAssumption DEF SetSettings, Base, TypeOK, SelectorOK, RequestsOK

-----------------------------------------------------------------------------

LEMMA InitInvariant == Init => Base
<1> SUFFICES ASSUME Init PROVE Base
  OBVIOUS
<1>1. \A r \in Requests : req[r] = Idle /\ ~Busy(req[r]) /\ Planned(req[r])
  BY DEF Init, Idle, Busy, Planned
<1>2. TypeOK
  BY SettingsAssumption, BoundsAssumption DEF Init, TypeOK, SelectorOK, Jobs
<1> QED BY <1>1, <1>2 DEF Base, RequestsOK

LEMMA NextInvariant == Base /\ [Next]_vars => Base'
<1> SUFFICES ASSUME Base, [Next]_vars PROVE Base'
  OBVIOUS
<1>1. CASE UNCHANGED vars
  BY <1>1 DEF vars, Base, TypeOK, SelectorOK, RequestsOK
<1>2. ASSUME NEW r \in Requests, NEW c \in Conversations, Load(r, c) PROVE Base'
  BY <1>2, LoadStep
<1>3. ASSUME NEW r \in Requests, SelectRegular(r) PROVE Base'
  BY <1>3, SelectRegularStep
<1>4. ASSUME NEW r \in Requests, SelectMember(r) PROVE Base'
  BY <1>4, SelectMemberStep
<1>5. ASSUME NEW r \in Requests, Refuse(r) \/ Serve(r) \/ FailOver(r) PROVE Base'
  BY <1>5, RefuseStep, ServeStep, FailOverStep
<1>6. CASE Probe
  BY <1>6, ProbeStep
<1>7. ASSUME NEW s \in SettingsInUse, SetSettings(s) PROVE Base'
  BY <1>7, SetSettingsStep
<1> QED BY <1>1, <1>2, <1>3, <1>4, <1>5, <1>6, <1>7 DEF Next

(* The types and the requests are in order in every reachable state. *)
THEOREM BaseInvariance == Spec => []Base
BY InitInvariant, NextInvariant, PTL DEF Spec

(* A request is only ever sent to the candidates of the settings it loaded,  *)
(* to each at most once, however selection and recording interleave.        *)
THEOREM OnlyCandidates == Spec => []OnlyCandidatesAreTried
<1>1. Base => OnlyCandidatesAreTried
  BY DEF Base, RequestsOK, Planned, OnlyCandidatesAreTried, InFlight
<1> QED BY <1>1, BaseInvariance, PTL

(* A request that failed has tried every candidate: a single member that     *)
(* works is enough.                                                         *)
THEOREM MembersServe == Spec => []AvailableMemberServes
<1>1. Base => AvailableMemberServes
  <2> SUFFICES ASSUME Base, NEW r \in Requests, req[r].pc = "failed",
                      NEW m \in Candidates(req[r].settings)
               PROVE  \E k \in 1 .. req[r].attempt : req[r].relays[k] = m
    BY DEF AvailableMemberServes
  <2>1. /\ req[r].attempt = Len(req[r].relays) /\ req[r].attempt \in DOMAIN req[r].relays
        /\ \E k \in DOMAIN req[r].relays : req[r].relays[k] = m
    BY DEF Base, RequestsOK, Planned
  <2>2. req[r] \in Underway
    BY DEF Base, TypeOK, Jobs, Idle, Loaded
  <2>3. DOMAIN req[r].relays = 1 .. Len(req[r].relays)
    BY <2>2 DEF Underway
  <2> QED BY <2>1, <2>3
<1> QED BY <1>1, BaseInvariance, PTL

-----------------------------------------------------------------------------
(* What the selector owes to the past: the rotations are fair, conversations *)
(* keep their member and failover follows the requests, for any              *)
(* interleaving of them.                                                     *)

(* Arithmetic of turns *)

LEMMA Multiples ==
  ASSUME NEW x \in Nat, NEW y \in Nat, NEW z \in Nat
  PROVE  /\ x * y \in Nat /\ x * y = y * x
         /\ (x + y) * z = x * z + y * z
         /\ (x * y) * z = (x * z) * y
         /\ x <= y => x * z <= y * z
OBVIOUS

(* Members that have had the same number of whole turns, and of one more at  *)
(* most their share, are at most one turn apart.                            *)
LEMMA TurnsAreFair ==
  ASSUME NEW b \in Nat, NEW u \in Nat, NEW v \in Nat, NEW d \in Nat, NEW e \in Nat, d <= u
  PROVE  (b * u + d) * v <= (b * v + e) * u + u * v
<1>1. (b * u + d) * v = (b * u) * v + d * v /\ (b * v + e) * u = (b * v) * u + e * u
  BY Multiples
<1>2. (b * u) * v = (b * v) * u /\ d * v <= u * v
  BY Multiples
<1>3. (b * v) * u \in Nat /\ d * v \in Nat /\ u * v \in Nat /\ e * u \in Nat
  BY Multiples
<1> QED BY <1>1, <1>2, <1>3

LEMMA OneMoreTurn ==
  ASSUME NEW b \in Nat, NEW u \in Nat \ {0}, NEW d \in Nat
  PROVE  b * u + u = (b + 1) * u /\ b \in 0 .. (b * u + d)
<1>1. (b + 1) * u = b * u + 1 * u /\ 1 * u = u /\ 1 * b <= u * b /\ u * b = b * u /\ b * u \in Nat
  BY Multiples
<1> QED BY <1>1

(* What the member i has had of the turn under way, after a pick of x or of  *)
(* the repetition c of m, and before.                                       *)
LEMMA RequestTurn ==
  ASSUME NEW n \in Nat, NEW x \in 1 .. n, NEW i \in 1 .. n, NEW bs \in Nat,
         NEW y, y = IF x < n THEN x + 1 ELSE 1
  PROVE  bs + (IF i < x THEN 1 ELSE 0) + (IF i = x THEN 1 ELSE 0)
           = (IF x = n THEN bs + 1 ELSE bs) + (IF i < y THEN 1 ELSE 0)
OBVIOUS

LEMMA WeightedTurn ==
  ASSUME NEW n \in Nat, NEW m \in 1 .. n, NEW i \in 1 .. n, NEW bs \in Nat,
         NEW u \in Nat, NEW c \in Nat, i = m => c = u,
         NEW k, k = IF m < n THEN m + 1 ELSE 1
  PROVE  bs + (IF i < m THEN u ELSE IF i = m THEN c - 1 ELSE 0) + (IF i = m THEN 1 ELSE 0)
           = (IF m = n THEN bs + u ELSE bs)
             + (IF i < k THEN u ELSE IF i = k THEN 1 - 1 ELSE 0)
OBVIOUS

-----------------------------------------------------------------------------
(* The rotations by request *)

LEMMA SelectorFields ==
  ASSUME NEW a \in Aggregates, NEW sel \in SelectorOf(a)
  PROVE  /\ sel.aggregate = a /\ sel.failover \in DOMAIN a.members
         /\ sel.request \in DOMAIN a.members
         /\ sel.weighted.member \in DOMAIN a.members
         /\ sel.weighted.repetition \in Nat \ {0}
         /\ sel.assigned \in [Keys -> RelaysOf(a) \cup {None}]
         /\ DOMAIN a.members = 1 .. Len(a.members) /\ Len(a.members) \in Nat \ {0}
         /\ 1 \in DOMAIN a.members
         /\ a.members[1].relay \in Relays
         /\ \A i \in DOMAIN a.members : a.members[i].relay \in RelaysOf(a) \cap Relays
<1>1. /\ sel.aggregate = a /\ sel.failover \in DOMAIN a.members
      /\ sel.request \in DOMAIN a.members
      /\ sel.weighted.member \in DOMAIN a.members
      /\ sel.weighted.repetition \in Nat \ {0}
      /\ sel.assigned \in [Keys -> RelaysOf(a) \cup {None}]
  BY DEF SelectorOf
<1>2. DOMAIN a.members = 1 .. Len(a.members) /\ Len(a.members) \in Nat
  BY MembersType
<1>3. \A i \in DOMAIN a.members : a.members[i].relay \in RelaysOf(a) \cap Relays
  BY MembersType DEF RelaysOf, Member
<1> QED BY <1>1, <1>2, <1>3

LEMMA ShareType ==
  ASSUME NEW a \in Aggregates, NEW i \in DOMAIN a.members
  PROVE  Weight(a, i) \in Nat \ {0} /\ Share(a, i) \in Nat \ {0}
<1>1. a.members[i].weight \in Nat
  BY MembersType DEF Member
<1> QED BY <1>1 DEF Weight, Share

LEMMA AheadType ==
  ASSUME NEW a \in Aggregates, NEW sel \in SelectorOf(a), a.strategy \in ByRequest,
         sel.weighted.repetition <= Weight(a, sel.weighted.member),
         NEW i \in DOMAIN a.members
  PROVE  Ahead(sel, i) \in Nat /\ Ahead(sel, i) <= Share(a, i)
<1>1. sel.aggregate = a /\ i \in Nat /\ sel.request \in Nat /\ sel.weighted.member \in Nat
      /\ sel.weighted.repetition \in Nat \ {0}
  BY SelectorFields
<1>2. Weight(a, i) \in Nat \ {0} /\ Share(a, i) \in Nat \ {0}
  BY ShareType
<1>3. CASE a.strategy = "requestRoundRobin"
  BY <1>1, <1>2, <1>3 DEF Ahead, Share
<1>4. CASE a.strategy = "weightedRoundRobin"
  BY <1>1, <1>2, <1>4 DEF Ahead, Share
<1> QED BY <1>3, <1>4 DEF ByRequest

Nothing == [m \in Relays |-> 0]

LEMMA FreshAccounted ==
  ASSUME NEW a \in Aggregates, a.members # <<>>
  PROVE  Accounted(Fresh(a), Nothing)
<1> DEFINE sel == Fresh(a)
<1>1. sel \in SelectorOf(a)
  BY FreshType
<1>2. /\ sel.aggregate = a /\ sel.request = 1 /\ sel.weighted.member = 1
      /\ sel.weighted.repetition = 1
  BY DEF Fresh
<1> HIDE DEF sel
<1>3. /\ DOMAIN a.members = 1 .. Len(a.members) /\ 1 \in DOMAIN a.members
      /\ \A i \in DOMAIN a.members : a.members[i].relay \in Relays
  BY <1>1, SelectorFields
<1>4. \A i \in DOMAIN a.members : Nothing[a.members[i].relay] = 0
  BY <1>3 DEF Nothing
<1>5. \A i \in DOMAIN a.members : Ahead(sel, i) = 0 /\ 0 * Share(a, i) = 0
  BY <1>2, <1>3, ShareType DEF Ahead
<1>6. 1 <= Weight(a, 1)
  BY <1>3, ShareType
<1> QED BY <1>2, <1>3, <1>4, <1>5, <1>6 DEF Accounted, sel

(* A pick adds one to the member picked and moves the index past it. *)
LEMMA PickAccounted ==
  ASSUME NEW a \in Aggregates, NEW sel \in SelectorOf(a), a.strategy \in ByRequest,
         NEW p \in [Relays -> Nat], Accounted(sel, p),
         NEW key, NEW q \in [Relays -> Nat],
         q = [m \in Relays |-> IF m = Picked(sel, key) THEN p[m] + 1 ELSE p[m]]
  PROVE  Accounted(HavingPicked(sel, key), q)
<1> DEFINE n == Len(a.members)
           new == HavingPicked(sel, key)
           w == sel.weighted
           relay(i) == a.members[i].relay
<1>1. /\ sel.aggregate = a /\ sel.request \in 1 .. n /\ w.member \in 1 .. n
      /\ w.repetition \in Nat \ {0} /\ DOMAIN a.members = 1 .. n /\ n \in Nat \ {0}
      /\ \A i \in 1 .. n : relay(i) \in Relays
      /\ \A i, j \in 1 .. n : relay(i) = relay(j) => i = j
  BY SelectorFields, AggregateAssumption
<1>2. PICK b \in Nat :
        \A i \in 1 .. n : p[relay(i)] = b * Share(a, i) + Ahead(sel, i)
  <2>1. p[a.members[1].relay] \in Nat
    BY <1>1
  <2>2. PICK b \in 0 .. p[a.members[1].relay] :
          \A i \in DOMAIN a.members : p[a.members[i].relay] = b * Share(a, i) + Ahead(sel, i)
    BY <1>1, Zenon DEF Accounted
  <2>3. b \in Nat
    BY <2>1
  <2> QED BY <1>1, <2>2, <2>3, Zenon
<1>3. w.repetition <= Weight(a, w.member)
  BY <1>1 DEF Accounted
<1>4. \A i \in 1 .. n : /\ Weight(a, i) \in Nat \ {0} /\ Share(a, i) \in Nat \ {0}
                        /\ Ahead(sel, i) \in Nat /\ b * Share(a, i) \in Nat
                        /\ b * Share(a, i) + Share(a, i) = (b + 1) * Share(a, i)
  BY <1>1, <1>3, ShareType, AheadType, Multiples, OneMoreTurn
<1> DEFINE at == IF a.strategy = "requestRoundRobin" THEN sel.request ELSE w.member
<1>5. at \in 1 .. n /\ Picked(sel, key) = relay(at)
  BY <1>1 DEF Picked, ByRequest
<1>6. \A i \in 1 .. n : q[relay(i)] = p[relay(i)] + (IF i = at THEN 1 ELSE 0)
  <2> HIDE DEF at
  <2>1. ASSUME NEW i \in 1 .. n
        PROVE  q[relay(i)] = p[relay(i)] + (IF i = at THEN 1 ELSE 0)
    <3>1. relay(i) \in Relays /\ p[relay(i)] \in Nat /\ (relay(i) = Picked(sel, key) <=> i = at)
      BY <1>1, <1>5
    <3> QED BY <3>1
  <2> QED BY <2>1
<1>7. /\ new.aggregate = a
      /\ a.strategy = "requestRoundRobin" =>
           new.request = (IF sel.request < n THEN sel.request + 1 ELSE 1) /\ new.weighted = w
      /\ a.strategy = "weightedRoundRobin" =>
           /\ w.repetition < Weight(a, w.member) =>
                new.weighted.member = w.member /\ new.weighted.repetition = w.repetition + 1
           /\ ~(w.repetition < Weight(a, w.member)) =>
                /\ new.weighted.member = (IF w.member < n THEN w.member + 1 ELSE 1)
                /\ new.weighted.repetition = 1
  <2>1. CASE a.strategy = "requestRoundRobin"
    <3>1. new = [sel EXCEPT !.request = Next1(sel, @)]
      BY <1>1, <2>1 DEF HavingPicked
    <3> QED BY <1>1, <2>1, <3>1 DEF Next1, SelectorOf
  <2>2. CASE a.strategy = "weightedRoundRobin"
    <3>1. new = [sel EXCEPT !.weighted = NextWeighted(sel)]
      BY <1>1, <2>2 DEF HavingPicked
    <3>2. new.weighted = NextWeighted(sel) /\ new.aggregate = a
      BY <1>1, <3>1 DEF SelectorOf
    <3>3. w \in [member : DOMAIN a.members, repetition : Nat \ {0}]
      BY DEF SelectorOf
    <3> QED BY <1>1, <2>2, <3>2, <3>3 DEF NextWeighted, Next1
  <2> QED BY <2>1, <2>2 DEF ByRequest
<1> HIDE DEF new, w, relay, n
<1> DEFINE wraps == IF a.strategy = "requestRoundRobin" THEN sel.request = n
                    ELSE w.member = n /\ ~(w.repetition < Weight(a, w.member))
           b1 == IF wraps THEN b + 1 ELSE b
<1>8. new.weighted.repetition <= Weight(a, new.weighted.member)
  <2>1. CASE a.strategy = "requestRoundRobin"
    BY <1>3, <1>7, <2>1, Zenon
  <2>2. CASE a.strategy = "weightedRoundRobin" /\ w.repetition < Weight(a, w.member)
    <3>0. w.repetition \in Nat /\ Weight(a, w.member) \in Nat
      BY <1>1, <1>4
    <3>1. w.repetition + 1 <= Weight(a, w.member)
      BY <2>2, <3>0
    <3> QED BY <1>7, <2>2, <3>1, Zenon
  <2>3. CASE a.strategy = "weightedRoundRobin" /\ ~(w.repetition < Weight(a, w.member))
    <3>1. new.weighted.member \in 1 .. n /\ new.weighted.repetition = 1
      BY <1>1, <1>7, <2>3
    <3> QED BY <1>4, <3>1
  <2> QED BY <2>1, <2>2, <2>3 DEF ByRequest
<1>9. \A i \in 1 .. n : q[relay(i)] = b1 * Share(a, i) + Ahead(new, i)
  <2> SUFFICES ASSUME NEW i \in 1 .. n PROVE q[relay(i)] = b1 * Share(a, i) + Ahead(new, i)
    OBVIOUS
  <2> DEFINE bs == b * Share(a, i)
  <2>1. q[relay(i)] = bs + Ahead(sel, i) + (IF i = at THEN 1 ELSE 0)
    BY <1>2, <1>6
  <2>2. bs \in Nat /\ (b + 1) * Share(a, i) = bs + Share(a, i)
        /\ Weight(a, i) \in Nat \ {0}
    BY <1>4
  <2>3. b1 * Share(a, i) = IF wraps THEN bs + Share(a, i) ELSE bs
    BY <2>2
  <2> HIDE DEF bs
  <2>4. CASE a.strategy = "requestRoundRobin"
    <3>1. Share(a, i) = 1 /\ at = sel.request
      BY <2>4 DEF Share
    <3>2. Ahead(sel, i) = (IF i < sel.request THEN 1 ELSE 0)
      BY <1>1, <2>4 DEF Ahead
    <3>3. Ahead(new, i) = (IF i < new.request THEN 1 ELSE 0)
      BY <1>7, <2>4 DEF Ahead
    <3>4. wraps <=> sel.request = n
      BY <2>4
    <3>5. bs + (IF i < sel.request THEN 1 ELSE 0) + (IF i = sel.request THEN 1 ELSE 0)
            = (IF sel.request = n THEN bs + 1 ELSE bs) + (IF i < new.request THEN 1 ELSE 0)
      <4>1. /\ new.request = (IF sel.request < n THEN sel.request + 1 ELSE 1)
            /\ n \in Nat /\ sel.request \in 1 .. n
        BY <1>1, <1>7, <2>4
      <4> QED BY <2>2, <4>1, RequestTurn
    <3> HIDE DEF b1, wraps, at
    <3> QED BY <2>1, <2>3, <3>1, <3>2, <3>3, <3>4, <3>5
  <2>5. CASE a.strategy = "weightedRoundRobin"
    <3>1. Share(a, i) = Weight(a, i) /\ at = w.member
      BY <2>5 DEF Share
    <3>2. Ahead(sel, i) = (IF i < w.member THEN Weight(a, i)
                           ELSE IF i = w.member THEN w.repetition - 1 ELSE 0)
      BY <1>1, <2>5 DEF Ahead, w
    <3>3. Ahead(new, i) = (IF i < new.weighted.member THEN Weight(a, i)
                           ELSE IF i = new.weighted.member THEN new.weighted.repetition - 1 ELSE 0)
      BY <1>7, <2>5 DEF Ahead
    <3>4. wraps <=> w.member = n /\ ~(w.repetition < Weight(a, w.member))
      BY <2>5
    <3> HIDE DEF b1, wraps, at
    <3>5. CASE w.repetition < Weight(a, w.member)
      <4>1. new.weighted.member = w.member /\ new.weighted.repetition = w.repetition + 1
        BY <1>7, <2>5, <3>5
      <4>2. b1 * Share(a, i) = bs
        BY <2>3, <3>4, <3>5
      <4>3. i \in Nat /\ w.member \in Nat /\ w.repetition \in Nat
        BY <1>1
      <4> QED BY <2>1, <2>2, <3>1, <3>2, <3>3, <4>1, <4>2, <4>3
    <3>6. CASE ~(w.repetition < Weight(a, w.member))
      <4>1. w.repetition = Weight(a, w.member)
        <5>1. w.repetition \in Nat /\ Weight(a, w.member) \in Nat
          BY <1>1, <1>4
        <5> QED BY <1>3, <3>6, <5>1
      <4>2. /\ new.weighted.member = (IF w.member < n THEN w.member + 1 ELSE 1)
            /\ new.weighted.repetition = 1
        BY <1>7, <2>5, <3>6
      <4>3. bs + (IF i < w.member THEN Weight(a, i)
                  ELSE IF i = w.member THEN w.repetition - 1 ELSE 0)
               + (IF i = w.member THEN 1 ELSE 0)
              = (IF w.member = n THEN bs + Weight(a, i) ELSE bs)
                + (IF i < new.weighted.member THEN Weight(a, i)
                   ELSE IF i = new.weighted.member THEN 1 - 1 ELSE 0)
        BY <1>1, <2>2, <4>1, <4>2, WeightedTurn
      <4> QED BY <2>1, <2>3, <3>1, <3>2, <3>3, <3>4, <3>6, <4>2, <4>3
    <3> QED BY <3>5, <3>6
  <2> QED BY <2>4, <2>5 DEF ByRequest
<1>10. b1 \in 0 .. q[relay(1)]
  <2>1. b1 \in Nat /\ 1 \in 1 .. n
    BY <1>1
  <2>2. new \in SelectorOf(a)
    BY <1>1, <1>7, NextWeightedType, Next1Type DEF HavingPicked, SelectorOf, new, ByRequest
  <2>3. Ahead(new, 1) \in Nat /\ Share(a, 1) \in Nat \ {0}
    BY <1>1, <1>4, <1>8, <2>1, <2>2, AheadType
  <2> HIDE DEF b1
  <2> QED BY <1>9, <2>1, <2>3, OneMoreTurn
<1> QED
  <2>1. \A i \in DOMAIN a.members :
          q[a.members[i].relay] = b1 * Share(a, i) + Ahead(new, i)
    BY <1>1, <1>9 DEF relay
  <2>2. b1 \in 0 .. q[a.members[1].relay]
    BY <1>10 DEF relay
  <2> HIDE DEF b1
  <2>3. Accounted(new, q)
    BY <1>7, <1>8, <2>1, <2>2, Zenon DEF Accounted
  <2> QED BY <2>3 DEF new

-----------------------------------------------------------------------------
(* What a request still has to try *)

(* The fallbacks of a member are the members after it, then those before. *)
LEMMA FallbacksFollow ==
  ASSUME NEW a \in Aggregates, NEW x \in DOMAIN a.members
  PROVE  LET n == Len(a.members)
             relays == <<a.members[x].relay>> \o Fallbacks(a, a.members[x].relay)
         IN  /\ Len(relays) = n
             /\ \A k \in 1 .. n :
                  LET i == x + k - 1
                  IN  relays[k] = a.members[IF i <= n THEN i ELSE i - n].relay
<1> DEFINE n == Len(a.members)
           relay == a.members[x].relay
           others == Fallbacks(a, relay)
           relays == <<relay>> \o others
           at(j) == IF x + j <= n THEN x + j ELSE x + j - n
<1>1. /\ n \in Nat \ {0} /\ x \in 1 .. n /\ DOMAIN a.members = 1 .. n
      /\ \A i \in 1 .. n : a.members[i].relay \in Relays
  BY MembersType DEF Member
<1>2. Position(a, relay) = x
  BY AggregateAssumption DEF Position
<1>3. others = [k \in 1 .. n - 1 |-> a.members[at(k)].relay]
  BY <1>2 DEF Fallbacks
<1>4. \A k \in 1 .. n - 1 : at(k) \in 1 .. n
  BY <1>1
<1> HIDE DEF n, at, others
<1>5. others \in Seq(Relays) /\ Len(others) = n - 1
  <2>1. \A k \in 1 .. n - 1 : a.members[at(k)].relay \in Relays
    BY <1>1, <1>4
  <2>2. n - 1 \in Nat
    BY <1>1
  <2> QED BY <1>3, <2>1, <2>2
<1>6. /\ Len(relays) = n /\ relays[1] = relay
      /\ \A k \in 2 .. n : relays[k] = others[k - 1]
  <2>1. relay \in Relays
    BY <1>1
  <2> HIDE DEF relay
  <2> QED BY <1>1, <1>5, <2>1
<1> HIDE DEF relays
<1>7. ASSUME NEW k \in 1 .. n
      PROVE  LET i == x + k - 1
             IN  relays[k] = a.members[IF i <= n THEN i ELSE i - n].relay
  <2>1. CASE k = 1
    <3>1. x + k - 1 = x /\ x <= n
      BY <1>1, <2>1
    <3> QED BY <1>6, <2>1, <3>1 DEF relay
  <2>2. CASE k # 1
    <3>1. k \in 2 .. n /\ k - 1 \in 1 .. n - 1
      BY <1>1, <2>2
    <3>2. relays[k] = a.members[at(k - 1)].relay
      BY <1>3, <1>6, <3>1
    <3>3. at(k - 1) = IF x + k - 1 <= n THEN x + k - 1 ELSE (x + k - 1) - n
      BY <1>1, <3>1 DEF at
    <3> QED BY <3>2, <3>3
  <2> QED BY <2>1, <2>2
<1> QED BY <1>6, <1>7 DEF n, relays, others, relay

LEMMA FallbacksType ==
  ASSUME NEW a \in Aggregates, NEW m \in RelaysOf(a)
  PROVE  Fallbacks(a, m) \in Seq(Relays)
<1> DEFINE n == Len(a.members)
           at(k) == IF Position(a, m) + k <= n THEN Position(a, m) + k ELSE Position(a, m) + k - n
<1>1. /\ n \in Nat \ {0} /\ DOMAIN a.members = 1 .. n
      /\ \A i \in 1 .. n : a.members[i].relay \in Relays
  BY MembersType DEF Member, RelaysOf
<1>2. Position(a, m) \in 1 .. n
  BY <1>1 DEF Position, RelaysOf
<1>3. Fallbacks(a, m) = [k \in 1 .. n - 1 |-> a.members[at(k)].relay]
  BY DEF Fallbacks
<1> HIDE DEF n
<1>4. \A k \in 1 .. n - 1 : at(k) \in 1 .. n
  BY <1>1, <1>2
<1> HIDE DEF at
<1>5. \A k \in 1 .. n - 1 : a.members[at(k)].relay \in Relays
  BY <1>1, <1>4
<1>6. n - 1 \in Nat
  BY <1>1
<1> QED BY <1>3, <1>5, <1>6

(* What the others notice of a step keeps those that are alone in line. *)
LEMMA OthersFollow ==
  ASSUME Base, AloneOK, NEW q \in Requests,
         req'[q] = IF req[q].pc = "trying" THEN [req[q] EXCEPT !.alone = @ /\ ~Disturbed]
                   ELSE req[q],
         selector' # None, req'[q].pc = "trying", req'[q].alone
  PROVE  Following(req'[q], selector')
<1>1. req[q].pc = "trying" /\ req'[q] = [req[q] EXCEPT !.alone = @ /\ ~Disturbed]
  OBVIOUS
<1>2. req[q] \in Underway
  BY <1>1, JobFields DEF Base, TypeOK
<1>3. /\ req'[q].settings = req[q].settings /\ req'[q].relays = req[q].relays
      /\ req'[q].attempt = req[q].attempt
      /\ req[q].alone /\ ~Disturbed
  BY <1>1, <1>2 DEF Underway
<1>4. /\ selector # None /\ selector'.aggregate = selector.aggregate
      /\ selector'.failover = selector.failover
  BY <1>3 DEF Disturbed
<1>5. Following(req[q], selector)
  BY <1>1, <1>3, <1>4 DEF AloneOK
<1> QED BY <1>3, <1>4, <1>5 DEF Following

(* A step that becomes one request keeps all in line if it keeps that one. *)
LEMMA BecomesFollows ==
  ASSUME Base, AloneOK, NEW r \in Requests, NEW new, Becomes(r, new),
         selector' # None /\ new.pc = "trying" /\ new.alone => Following(new, selector')
  PROVE  AloneOK'
<1> SUFFICES ASSUME NEW q \in Requests, selector' # None, req'[q].pc = "trying", req'[q].alone
             PROVE  Following(req'[q], selector')
  BY DEF AloneOK
<1>1. CASE q = r
  BY <1>1 DEF Becomes
<1>2. CASE q # r
  <2>1. req'[q] = IF req[q].pc = "trying" THEN [req[q] EXCEPT !.alone = @ /\ ~Disturbed]
                  ELSE req[q]
    BY <1>2 DEF Becomes
  <2> QED BY <2>1, OthersFollow
<1> QED BY <1>1, <1>2

(* The next candidate of a request that failed is the member the selector    *)
(* moves to.                                                               *)
LEMMA FailOverFollows ==
  ASSUME NEW a \in Aggregates, NEW sel \in SelectorOf(a), NEW j \in Underway,
         Following(j, sel), j.attempt < Len(j.relays)
  PROVE  Following([j EXCEPT !.attempt = @ + 1], Recorded(sel, TRUE))
<1> DEFINE k == [j EXCEPT !.attempt = @ + 1]
           new == Recorded(sel, TRUE)
           n == Len(a.members)
<1>1. sel.aggregate = a /\ sel.failover \in 1 .. n /\ n \in Nat
  BY SelectorFields
<1>2. /\ k.settings = j.settings /\ k.relays = j.relays /\ k.attempt = j.attempt + 1
      /\ j.attempt \in Nat
  BY DEF Underway
<1>3. new.aggregate = a
  BY <1>1 DEF Recorded, SelectorOf
<1>4. CASE a.strategy # "failover"
  BY <1>1, <1>2, <1>3, <1>4 DEF Following
<1>5. CASE a.strategy = "failover"
  <2>1. new.failover = IF sel.failover < n THEN sel.failover + 1 ELSE 1
    BY <1>1, <1>5 DEF Recorded, Next1, SelectorOf
  <2>2. /\ j.settings.active = a /\ Len(j.relays) = n
        /\ \A x \in j.attempt .. n :
             LET i == sel.failover + x - j.attempt
             IN  j.relays[x] = a.members[IF i <= n THEN i ELSE i - n].relay
    BY <1>1, <1>5 DEF Following
  <2> HIDE DEF k, new, n
  <2>3. ASSUME NEW x \in k.attempt .. n
        PROVE  LET i == new.failover + x - k.attempt
               IN  k.relays[x] = a.members[IF i <= n THEN i ELSE i - n].relay
    <3> DEFINE i == new.failover + x - k.attempt
               h == sel.failover + x - j.attempt
    <3>1. x \in j.attempt .. n /\ x \in Nat
      BY <1>1, <1>2
    <3>2. (IF i <= n THEN i ELSE i - n) = (IF h <= n THEN h ELSE h - n)
      BY <1>1, <1>2, <2>1, <3>1
    <3>3. j.relays[x] = a.members[IF h <= n THEN h ELSE h - n].relay
      BY <2>2, <3>1
    <3> QED BY <1>2, <3>2, <3>3
  <2>4. Len(a.members) = n
    BY DEF n
  <2>5. Following(k, new)
    BY <1>2, <1>3, <2>2, <2>3, <2>4, Zenon DEF Following
  <2> QED BY <2>5 DEF k, new
<1> QED BY <1>4, <1>5

-----------------------------------------------------------------------------
(* The steps.  Most of them leave the selector, drop it, make a new one or    *)
(* record an outcome in it.                                                *)

HistoryOK == SharesOK /\ HomesOK /\ AloneOK

Moves ==
  \/ selector' = None
  \/ selector # None /\ \E failed \in BOOLEAN : selector' = Recorded(selector, failed)
  \/ \E s \in Settings : Valid(s) /\ selector' = Current(s)

LEMMA RecordedFields ==
  ASSUME NEW a \in Aggregates, NEW sel \in SelectorOf(a), NEW failed \in BOOLEAN
  PROVE  LET new == Recorded(sel, failed)
         IN  /\ new.aggregate = sel.aggregate /\ new.request = sel.request
             /\ new.weighted = sel.weighted /\ new.assigned = sel.assigned
BY DEF Recorded, SelectorOf

LEMMA MovesKeep ==
  ASSUME Base, SharesOK, HomesOK, Moves,
         picks' = IF Renewed THEN [m \in Relays |-> 0] ELSE picks,
         home' = IF Renewed THEN [c \in Conversations |-> None] ELSE home
  PROVE  SharesOK' /\ HomesOK'
<1>1. CASE selector' = None
  BY <1>1 DEF SharesOK, HomesOK
<1>2. ASSUME selector' # None, selector # None,
             selector'.aggregate = selector.aggregate,
             selector'.request = selector.request,
             selector'.weighted = selector.weighted,
             selector'.assigned = selector.assigned
      PROVE  SharesOK' /\ HomesOK'
  <2>1. picks' = picks /\ home' = home
    BY <1>2 DEF Renewed
  <2>2. Accounted(selector', picks) <=> Accounted(selector, picks)
    BY <1>2 DEF Accounted, Ahead
  <2>3. SharesOK'
    BY <1>2, <2>1, <2>2 DEF SharesOK
  <2>4. HomesOK'
    BY <1>2, <2>1 DEF HomesOK
  <2> QED BY <2>3, <2>4
<1>3. ASSUME selector' # None, NEW a \in Aggregates, a.members # <<>>, selector' = Fresh(a),
             ~(selector # None /\ selector.aggregate = a)
      PROVE  SharesOK' /\ HomesOK'
  <2>1. selector'.aggregate = a /\ selector'.assigned = [k \in Keys |-> None]
    BY <1>3 DEF Fresh
  <2>2. Renewed
    BY <1>3, <2>1 DEF Renewed
  <2>3. picks' = Nothing /\ home' = [c \in Conversations |-> None]
    BY <2>2 DEF Nothing
  <2>4. Accounted(selector', picks')
    BY <1>3, <2>3, FreshAccounted
  <2>5. \A c \in Conversations : <<c, 0>> \in Keys
    BY BoundsAssumption DEF Keys
  <2> QED BY <2>1, <2>3, <2>4, <2>5 DEF SharesOK, HomesOK
<1>4. CASE selector' # None /\ selector # None
           /\ \E failed \in BOOLEAN : selector' = Recorded(selector, failed)
  <2>1. \E a \in Aggregates : selector \in SelectorOf(a)
    BY <1>4 DEF Base, TypeOK, SelectorOK
  <2> QED BY <1>2, <1>4, <2>1, RecordedFields
<1>5. CASE selector' # None /\ \E s \in Settings : Valid(s) /\ selector' = Current(s)
  <2>1. PICK s \in Settings : Valid(s) /\ selector' = Current(s)
    BY <1>5
  <2>2. s.active \in Aggregates /\ s.active.members # <<>>
    BY <2>1 DEF Valid
  <2>3. CASE selector # None /\ selector.aggregate = s.active
    BY <1>2, <1>5, <2>1, <2>3 DEF Current
  <2>4. CASE ~(selector # None /\ selector.aggregate = s.active)
    BY <1>3, <1>5, <2>1, <2>2, <2>4 DEF Current
  <2> QED BY <2>3, <2>4
<1> QED BY <1>1, <1>4, <1>5 DEF Moves

LEMMA QuietStep ==
  ASSUME HistoryOK, NEW r \in Requests, NEW new, req' = [req EXCEPT ![r] = new],
         Base, new.pc # "trying", UNCHANGED <<selector, picks, home>>
  PROVE  HistoryOK'
<1>1. SharesOK' /\ HomesOK'
  BY DEF HistoryOK, SharesOK, HomesOK
<1>2. ASSUME NEW q \in Requests, req'[q].pc = "trying" PROVE req'[q] = req[q]
  BY <1>2 DEF Base, TypeOK
<1>3. AloneOK'
  BY <1>2 DEF HistoryOK, AloneOK
<1> QED BY <1>1, <1>3 DEF HistoryOK

LEMMA RecordMoves ==
  ASSUME NEW s, NEW failed \in BOOLEAN, Record(s, failed)
  PROVE  Moves
BY DEF Record, Moves

LEMMA SelectRegularHistory ==
  ASSUME Base, HistoryOK, NEW r \in Requests, SelectRegular(r)
  PROVE  HistoryOK'
BY DEF SelectRegular, HistoryOK, SharesOK, HomesOK, AloneOK

LEMMA ServeHistory ==
  ASSUME Base, HistoryOK, NEW r \in Requests, Serve(r)
  PROVE  HistoryOK'
<1>1. SharesOK' /\ HomesOK'
  BY RecordMoves, MovesKeep DEF Serve, HistoryOK
<1>2. AloneOK'
  BY BecomesFollows DEF Serve, HistoryOK, Idle
<1> QED BY <1>1, <1>2 DEF HistoryOK

LEMMA FailOverHistory ==
  ASSUME Base, HistoryOK, NEW r \in Requests, FailOver(r)
  PROVE  HistoryOK'
<1>1. SharesOK' /\ HomesOK'
  BY RecordMoves, MovesKeep DEF FailOver, HistoryOK
<1> DEFINE next == [req[r] EXCEPT !.attempt = @ + 1]
           last == [req[r] EXCEPT !.pc = "failed"]
           new == IF HasMoreCandidates(r) THEN next ELSE last
<1>2. req[r].pc = "trying" /\ Becomes(r, new) /\ req[r] \in Underway
  BY JobFields DEF FailOver, Base, TypeOK
<1>3. ASSUME selector' # None, new.pc = "trying", new.alone
      PROVE  Following(new, selector')
  <2>1. selector # None /\ selector' = Recorded(selector, TRUE)
    BY <1>3 DEF FailOver, Record
  <2>2. PICK a \in Aggregates : selector \in SelectorOf(a)
    BY <2>1 DEF Base, TypeOK, SelectorOK
  <2>3. last.pc = "failed" /\ next.alone = req[r].alone
    BY <1>2 DEF Underway
  <2>4. HasMoreCandidates(r) /\ new = next /\ req[r].alone
    BY <1>3, <2>3
  <2>5. Following(req[r], selector)
    BY <1>2, <2>1, <2>4 DEF HistoryOK, AloneOK
  <2> QED BY <1>2, <2>1, <2>2, <2>4, <2>5, FailOverFollows DEF HasMoreCandidates
<1> HIDE DEF new
<1>4. AloneOK'
  BY <1>2, <1>3, BecomesFollows DEF HistoryOK
<1> QED BY <1>1, <1>4 DEF HistoryOK

LEMMA ProbeHistory ==
  ASSUME Base, HistoryOK, Probe
  PROVE  HistoryOK'
<1>1. Moves
  <2>1. settings \in Settings
    BY DEF Base, TypeOK
  <2> QED BY <2>1 DEF Probe, Moves
<1>2. SharesOK' /\ HomesOK'
  BY <1>1, MovesKeep DEF Probe, HistoryOK
<1>3. ASSUME NEW q \in Requests, selector' # None, req'[q].pc = "trying", req'[q].alone
      PROVE  Following(req'[q], selector')
  <2>1. req'[q] = IF req[q].pc = "trying" THEN [req[q] EXCEPT !.alone = @ /\ ~Disturbed]
                  ELSE req[q]
    BY DEF Probe
  <2> QED BY <1>3, <2>1, OthersFollow DEF HistoryOK
<1>4. AloneOK'
  BY <1>3 DEF AloneOK
<1> QED BY <1>2, <1>4 DEF HistoryOK

-----------------------------------------------------------------------------
(* A request selects a member of the aggregate. *)

Pick(r, s, c, picked) ==
  LET current == Current(s)
      byConversation == s.active.strategy = "conversationRoundRobin"
  IN  /\ picked = Picked(current, Key(c))
      /\ selector' = HavingPicked(current, Key(c))
      /\ Becomes(r, Trying(r, <<picked>> \o Fallbacks(s.active, picked)))
      /\ picks' = [m \in Relays |->
                     IF m = picked /\ s.active.strategy \in ByRequest
                     THEN (IF Renewed THEN 0 ELSE picks[picked]) + 1
                     ELSE IF Renewed THEN 0 ELSE picks[m]]
      /\ home' = [d \in Conversations |->
                    LET old == IF Renewed THEN None ELSE home[d]
                    IN  IF d = c /\ old = None /\ byConversation THEN picked ELSE old]

LEMMA SelectMemberPicks ==
  ASSUME Base, NEW r \in Requests, SelectMember(r), Valid(req[r].settings)
  PROVE  LET s == req[r].settings
             c == req[r].conv
         IN  /\ s \in Settings /\ s.active \in Aggregates /\ s.active.members # <<>>
             /\ c \in Conversations /\ Key(c) \in Keys \cup {None}
             /\ Current(s) \in SelectorOf(s.active)
             /\ selector' \in SelectorOf(s.active)
             /\ Pick(r, s, c, Picked(Current(s), Key(c)))
<1> DEFINE s == req[r].settings
           c == req[r].conv
<1>1. /\ req[r].pc = "loaded" /\ Busy(req[r]) /\ s \in Settings /\ s.active \in Aggregates
      /\ c \in Conversations /\ s.active.members # <<>>
  BY BusyFields DEF SelectMember, Busy, Valid
<1>2. Key(c) \in Keys \cup {None}
  BY <1>1, KeyType DEF Base, TypeOK
<1>3. Current(s) \in SelectorOf(s.active)
  BY <1>1, CurrentType DEF Base, TypeOK
<1>4. Pick(r, s, c, Picked(Current(s), Key(c)))
  BY DEF SelectMember, Pick, ByRequest
<1>5. selector' \in SelectorOf(s.active)
  BY <1>1, <1>2, <1>3, <1>4, PickedType DEF Pick
<1> QED BY <1>1, <1>2, <1>3, <1>4, <1>5

(* The selector a pick is made from, and what it has to account for. *)
Past == IF Renewed THEN Nothing ELSE picks

LEMMA PickedFrom ==
  ASSUME Base, HistoryOK, NEW s \in Settings, s.active \in Aggregates, s.active.members # <<>>,
         Current(s) \in SelectorOf(s.active), selector' \in SelectorOf(s.active),
         selector' # None
  PROVE  /\ Accounted(Current(s), Past) /\ Past \in [Relays -> Nat]
         /\ s.active.strategy = "conversationRoundRobin" =>
              \A c \in Conversations \cap Explicit :
                Current(s).assigned[<<c, 0>>] = IF Renewed THEN None ELSE home[c]
         /\ ~Renewed => selector # None /\ Current(s) = selector
<1>1. selector'.aggregate = s.active
  BY DEF SelectorOf
<1>2. picks \in [Relays -> Nat]
  BY DEF Base, TypeOK
<1>3. CASE Renewed
  <2>1. Current(s) = Fresh(s.active)
    BY <1>1, <1>3 DEF Renewed, Current
  <2>2. \A c \in Conversations : <<c, 0>> \in Keys
    BY BoundsAssumption DEF Keys
  <2> QED BY <1>3, <2>1, <2>2, FreshAccounted DEF Past, Nothing, Fresh
<1>4. CASE ~Renewed
  <2>1. selector # None /\ Current(s) = selector /\ selector.aggregate = s.active
    BY <1>1, <1>4 DEF Renewed, Current
  <2>2. Accounted(selector, picks)
    BY <2>1 DEF HistoryOK, SharesOK
  <2> QED BY <1>2, <1>4, <2>1, <2>2 DEF Past, HistoryOK, HomesOK
<1> QED BY <1>3, <1>4

LEMMA SelectMemberHistory ==
  ASSUME Base, HistoryOK, NEW r \in Requests, SelectMember(r)
  PROVE  HistoryOK'
<1> DEFINE s == req[r].settings
           c == req[r].conv
           a == s.active
           old == Current(s)
           picked == Picked(old, Key(c))
<1>1. CASE ~Valid(s)
  <2>1. req' = [req EXCEPT ![r] = Idle] /\ UNCHANGED <<selector, picks, home>>
    BY <1>1 DEF SelectMember
  <2>2. Idle.pc # "trying"
    BY DEF Idle
  <2> QED BY <2>1, <2>2, QuietStep
<1>2. CASE Valid(s) /\ selector' = None
  BY <1>2, SelectMemberPicks DEF HistoryOK, SharesOK, HomesOK, AloneOK
<1>3. CASE Valid(s) /\ selector' # None
  <2>1. /\ s \in Settings /\ a \in Aggregates /\ a.members # <<>>
        /\ c \in Conversations /\ Key(c) \in Keys \cup {None}
        /\ old \in SelectorOf(a) /\ selector' \in SelectorOf(a) /\ Pick(r, s, c, picked)
    BY <1>3, SelectMemberPicks
  <2>2. /\ Accounted(old, Past) /\ Past \in [Relays -> Nat]
        /\ a.strategy = "conversationRoundRobin" =>
             \A d \in Conversations \cap Explicit :
               old.assigned[<<d, 0>>] = IF Renewed THEN None ELSE home[d]
    BY <1>3, <2>1, PickedFrom
  <2>3. /\ selector' = HavingPicked(old, Key(c))
        /\ old.aggregate = a /\ selector'.aggregate = a
    BY <2>1 DEF Pick, SelectorOf
  <2> HIDE DEF s, c, old, picked
  <2>4. SharesOK'
    <3>1. CASE a.strategy \in ByRequest
      <4>1. \A m \in Relays : Past[m] = IF Renewed THEN 0 ELSE picks[m]
        BY DEF Past, Nothing
      <4>2. picked \in Relays
        BY <2>1, PickedType, MembersType DEF picked
      <4>3. picks' = [m \in Relays |-> IF m = picked THEN Past[m] + 1 ELSE Past[m]]
        BY <2>1, <3>1, <4>1, <4>2 DEF Pick
      <4>4. picks' \in [Relays -> Nat]
        BY <2>2, <4>3
      <4>5. Accounted(selector', picks')
        BY <2>1, <2>2, <2>3, <3>1, <4>3, <4>4, PickAccounted DEF picked
      <4> QED BY <4>5 DEF SharesOK
    <3>2. CASE a.strategy \notin ByRequest
      BY <2>3, <3>2 DEF SharesOK, Accounted
    <3> QED BY <3>1, <3>2
  <2>5. HomesOK'
    <3> SUFFICES ASSUME a.strategy = "conversationRoundRobin",
                        NEW d \in Conversations \cap Explicit
                 PROVE  home'[d] = selector'.assigned[<<d, 0>>]
      BY <2>3 DEF HomesOK
    <3>1. /\ old.assigned[<<d, 0>>] = IF Renewed THEN None ELSE home[d]
          /\ <<d, 0>> \in Keys /\ <<d, 0>> # None
      <4>1. <<d, 0>> \in Keys
        BY BoundsAssumption DEF Keys
      <4> QED BY <2>2, <4>1, KeyAssumption
    <3>2. home'[d] = IF d = c /\ old.assigned[<<d, 0>>] = None THEN picked
                     ELSE old.assigned[<<d, 0>>]
      BY <2>1, <3>1 DEF Pick
    <3>3. selector' = IF Assigned(old, Key(c)) THEN old
                      ELSE [old EXCEPT !.request = Next1(old, @),
                              !.assigned = [k \in Keys |-> IF k = Key(c) THEN picked ELSE @[k]]]
      BY <2>3 DEF HavingPicked, picked
    <3>4. old.assigned \in [Keys -> RelaysOf(a) \cup {None}]
      BY <2>1 DEF SelectorOf
    <3>5. CASE d = c
      <4>1. Key(c) = <<d, 0>>
        BY <3>5 DEF Key
      <4>2. Assigned(old, Key(c)) <=> old.assigned[<<d, 0>>] # None
        BY <3>1, <4>1 DEF Assigned
      <4> QED BY <2>1, <3>1, <3>2, <3>3, <3>4, <3>5, <4>1, <4>2 DEF SelectorOf
    <3>6. CASE d # c
      <4>1. Key(c) # <<d, 0>>
        BY <3>1, <3>6 DEF Key
      <4> QED BY <2>1, <3>1, <3>2, <3>3, <3>4, <3>6, <4>1 DEF SelectorOf
    <3> QED BY <3>5, <3>6
  <2>6. AloneOK'
    <3> DEFINE relays == <<picked>> \o Fallbacks(a, picked)
               new == Trying(r, relays)
    <3>1. new.settings = s /\ new.relays = relays /\ new.attempt = 1
      BY DEF Trying, s
    <3>2. CASE a.strategy = "failover"
      <4>1. selector' = old /\ picked = a.members[old.failover].relay
        BY <2>3, <3>2 DEF HavingPicked, Picked, picked
      <4>2. old.failover \in DOMAIN a.members /\ DOMAIN a.members = 1 .. Len(a.members)
        BY <2>1, SelectorFields
      <4>3. /\ Len(relays) = Len(a.members)
            /\ \A k \in 1 .. Len(a.members) :
                 LET h == old.failover + k - 1
                 IN  relays[k] = a.members[IF h <= Len(a.members) THEN h
                                           ELSE h - Len(a.members)].relay
        BY <2>1, <4>1, <4>2, FallbacksFollow
      <4> HIDE DEF relays, new
      <4>4. Following(new, selector')
        <5> DEFINE n == Len(a.members)
        <5>1. ASSUME NEW k \in new.attempt .. n
              PROVE  LET i == selector'.failover + k - new.attempt
                     IN  new.relays[k] = a.members[IF i <= n THEN i ELSE i - n].relay
          <6> DEFINE h == old.failover + k - 1
                     i == selector'.failover + k - new.attempt
          <6>1. k \in 1 .. n
            BY <3>1
          <6>2. relays[k] = a.members[IF h <= n THEN h ELSE h - n].relay
            BY <4>3, <6>1, Zenon
          <6>3. i = h
            BY <3>1, <4>1, Zenon
          <6> HIDE DEF h, i
          <6>4. new.relays[k] = a.members[IF i <= n THEN i ELSE i - n].relay
            BY <3>1, <6>2, <6>3
          <6> QED BY <6>4 DEF i
        <5> HIDE DEF n
        <5>2. Len(a.members) = n /\ Len(new.relays) = n /\ new.settings.active = a
          BY <3>1, <4>3 DEF n
        <5> QED BY <2>3, <5>1, <5>2, Zenon DEF Following
      <4>5. Becomes(r, new)
        BY <2>1 DEF Pick, new, relays
      <4> QED BY <4>4, <4>5, BecomesFollows DEF HistoryOK
    <3>3. CASE a.strategy # "failover"
      <4> HIDE DEF relays, new
      <4>1. Following(new, selector')
        BY <2>3, <3>1, <3>3 DEF Following
      <4>2. Becomes(r, new)
        BY <2>1 DEF Pick, new, relays
      <4> QED BY <4>1, <4>2, BecomesFollows DEF HistoryOK
    <3> QED BY <3>2, <3>3
  <2> QED BY <2>4, <2>5, <2>6 DEF HistoryOK
<1> QED BY <1>1, <1>2, <1>3

-----------------------------------------------------------------------------
(* The theorems *)

LEMMA InitHistory == Init => HistoryOK
BY DEF Init, HistoryOK, SharesOK, HomesOK, AloneOK

LEMMA NextHistory == Base /\ HistoryOK /\ [Next]_vars => HistoryOK'
<1> SUFFICES ASSUME Base, HistoryOK, [Next]_vars PROVE HistoryOK'
  OBVIOUS
<1>1. CASE UNCHANGED vars
  BY <1>1 DEF vars, HistoryOK, SharesOK, HomesOK, AloneOK
<1>2. ASSUME NEW r \in Requests, NEW c \in Conversations, Load(r, c) PROVE HistoryOK'
  <2> DEFINE new == [pc |-> "loaded", conv |-> c, settings |-> settings]
  <2>1. new.pc # "trying" /\ req' = [req EXCEPT ![r] = new]
    BY <1>2 DEF Load
  <2> HIDE DEF new
  <2> QED BY <1>2, <2>1, QuietStep DEF Load
<1>3. ASSUME NEW r \in Requests, SelectRegular(r) PROVE HistoryOK'
  BY <1>3, SelectRegularHistory
<1>4. ASSUME NEW r \in Requests, SelectMember(r) PROVE HistoryOK'
  BY <1>4, SelectMemberHistory
<1>5. ASSUME NEW r \in Requests, Refuse(r) PROVE HistoryOK'
  <2>1. Idle.pc # "trying"
    BY DEF Idle
  <2> QED BY <1>5, <2>1, QuietStep DEF Refuse
<1>6. ASSUME NEW r \in Requests, Serve(r) \/ FailOver(r) PROVE HistoryOK'
  BY <1>6, ServeHistory, FailOverHistory
<1>7. CASE Probe
  BY <1>7, ProbeHistory
<1>8. ASSUME NEW s \in SettingsInUse, SetSettings(s) PROVE HistoryOK'
  BY <1>8 DEF SetSettings, HistoryOK, SharesOK, HomesOK, AloneOK
<1> QED BY <1>1, <1>2, <1>3, <1>4, <1>5, <1>6, <1>7, <1>8 DEF Next

(* The selector and the requests agree in every reachable state: on what was *)
(* picked, on the member of each conversation, on what is tried next.       *)
THEOREM Invariance == Spec => []IInv
<1>1. IInv <=> Base /\ HistoryOK
  BY DEF IInv, HistoryOK
<1>2. Init => IInv
  BY <1>1, InitInvariant, InitHistory
<1>3. IInv /\ [Next]_vars => IInv'
  <2>1. Base' /\ HistoryOK' => IInv'
    BY DEF IInv, HistoryOK
  <2> QED BY <1>1, <2>1, NextInvariant, NextHistory
<1> QED BY <1>2, <1>3, PTL DEF Spec

(* select gives every member of a rotation by request its share, for any      *)
(* number of members and weights and any interleaving of requests.          *)
THEOREM SharesAreFair == Spec => []FairShares
<1>1. IInv => FairShares
  <2> SUFFICES ASSUME IInv, selector # None, selector.aggregate.strategy \in ByRequest,
                      NEW i \in DOMAIN selector.aggregate.members,
                      NEW j \in DOMAIN selector.aggregate.members
               PROVE  LET a == selector.aggregate
                          n(k) == picks[a.members[k].relay]
                      IN  n(i) * Share(a, j) <= n(j) * Share(a, i) + Share(a, i) * Share(a, j)
    BY Zenon DEF FairShares
  <2> DEFINE a == selector.aggregate
             n(k) == picks[a.members[k].relay]
  <2>1. PICK b \in Aggregates : selector \in SelectorOf(b)
    BY DEF IInv, Base, TypeOK, SelectorOK
  <2>2. a = b /\ a \in Aggregates /\ selector \in SelectorOf(a)
    BY <2>1, SelectorFields
  <2>3. Accounted(selector, picks)
    BY DEF IInv, SharesOK
  <2>4. picks[a.members[1].relay] \in Nat
    BY <2>2, SelectorFields DEF IInv, Base, TypeOK
  <2>5. PICK turns \in 0 .. picks[a.members[1].relay] :
          \A k \in DOMAIN a.members : n(k) = turns * Share(a, k) + Ahead(selector, k)
    BY <2>3, Zenon DEF Accounted
  <2>6. \A k \in {i, j} :
          Ahead(selector, k) \in Nat /\ Ahead(selector, k) <= Share(a, k) /\ Share(a, k) \in Nat
    BY <2>2, <2>3, AheadType, ShareType DEF Accounted
  <2>7. /\ n(i) = turns * Share(a, i) + Ahead(selector, i)
        /\ n(j) = turns * Share(a, j) + Ahead(selector, j)
        /\ turns \in Nat
    BY <2>4, <2>5
  <2> HIDE DEF a, n
  <2>8. n(i) * Share(a, j) <= n(j) * Share(a, i) + Share(a, i) * Share(a, j)
    BY <2>6, <2>7, TurnsAreFair
  <2> QED BY <2>8 DEF a, n
<1> QED BY <1>1, Invariance, PTL

(* A conversation that carries an id stays with the member it was given, as  *)
(* long as the selector is not replaced.                                    *)
THEOREM ConversationsStay ==
  ASSUME Conversations \subseteq Explicit
  PROVE  Spec => ConversationKeepsMember
<1> DEFINE Kept(r) ==
      /\ SelectMember(r) /\ selector # None /\ selector' # None
      /\ selector'.aggregate = selector.aggregate
      /\ selector.aggregate.strategy = "conversationRoundRobin"
      /\ req'[r].pc = "trying" /\ home[req[r].conv] # None
      => req'[r].relays[1] = home[req[r].conv]
<1>1. ASSUME IInv, NEW r \in Requests, SelectMember(r), selector # None, selector' # None,
             selector'.aggregate = selector.aggregate,
             selector.aggregate.strategy = "conversationRoundRobin",
             req'[r].pc = "trying", home[req[r].conv] # None
      PROVE  req'[r].relays[1] = home[req[r].conv]
  <2> DEFINE s == req[r].settings
             c == req[r].conv
             picked == Picked(Current(s), Key(c))
  <2>1. Base /\ HistoryOK
    BY <1>1 DEF IInv, HistoryOK
  <2>2. Valid(s)
    <3>1. Idle.pc # "trying"
      BY DEF Idle
    <3>2. req \in [Requests -> Jobs]
      BY <2>1 DEF Base, TypeOK
    <3>3. ~Valid(s) => req' = [req EXCEPT ![r] = Idle]
      BY <1>1 DEF SelectMember
    <3> QED BY <1>1, <3>1, <3>2, <3>3
  <2>3. /\ s \in Settings /\ s.active \in Aggregates /\ s.active.members # <<>>
        /\ c \in Conversations
        /\ Current(s) \in SelectorOf(s.active) /\ selector' \in SelectorOf(s.active)
        /\ Pick(r, s, c, picked)
    BY <1>1, <2>1, <2>2, SelectMemberPicks
  <2>4. ~Renewed /\ Current(s) = selector /\ s.active.strategy = "conversationRoundRobin"
    BY <1>1, <2>1, <2>3, PickedFrom DEF Renewed, SelectorOf
  <2>5. Key(c) = <<c, 0>> /\ <<c, 0>> # None
    <3>1. <<c, 0>> \in Keys
      BY <2>3, BoundsAssumption DEF Keys
    <3> QED BY <2>3, <3>1, KeyAssumption DEF Key
  <2>6. selector.assigned[<<c, 0>>] = home[c]
    BY <1>1, <2>3, <2>1 DEF HistoryOK, HomesOK
  <2>7. picked = home[c]
    BY <1>1, <2>4, <2>5, <2>6 DEF Picked, Assigned
  <2>8. req'[r] = Trying(r, <<picked>> \o Fallbacks(s.active, picked))
    BY <2>3 DEF Pick, Becomes
  <2>9. (<<picked>> \o Fallbacks(s.active, picked))[1] = picked
    <3>1. picked \in RelaysOf(s.active)
      BY <2>1, <2>3, KeyType, PickedType DEF Base, TypeOK
    <3>2. Fallbacks(s.active, picked) \in Seq(Relays)
      BY <2>3, <3>1, FallbacksType
    <3>3. picked \in Relays
      BY <2>3, <3>1, MembersType
    <3> HIDE DEF picked
    <3> QED BY <3>2, <3>3
  <2> QED BY <2>7, <2>8, <2>9 DEF Trying
<1>2. IInv /\ [Next]_vars => [\A r \in Requests : Kept(r)]_vars
  BY <1>1
<1> QED BY <1>2, Invariance, PTL DEF Spec, ConversationKeepsMember

(* With the failover strategy a request that no other one interfered with     *)
(* leaves the selector at the member that served it, and not at one that    *)
(* failed it.                                                              *)
THEOREM FailoverFollows == Spec => FailoverFollowsRequests
<1> DEFINE Heeds(r) == /\ req[r].alone /\ selector # None
                       /\ selector.aggregate.strategy = "failover"
           Followed(r) ==
             /\ Serve(r) /\ Heeds(r) => Picked(selector', None) = Relay(r)
             /\ FailOver(r) /\ Heeds(r) /\ Len(selector.aggregate.members) > 1 =>
                  Picked(selector', None) # Relay(r)
<1>1. ASSUME IInv, NEW r \in Requests, Serve(r) \/ FailOver(r), Heeds(r)
      PROVE  Followed(r)
  <2> DEFINE a == selector.aggregate
             n == Len(a.members)
             i == selector.failover
  <2>1. PICK b \in Aggregates : selector \in SelectorOf(b)
    BY <1>1 DEF IInv, Base, TypeOK, SelectorOK
  <2>2. /\ a \in Aggregates /\ selector \in SelectorOf(a) /\ i \in 1 .. n
        /\ n \in Nat /\ DOMAIN a.members = 1 .. n
    BY <2>1, SelectorFields
  <2>3. Following(req[r], selector) /\ req[r].pc = "trying"
    BY <1>1 DEF IInv, AloneOK, Serve, FailOver
  <2>4. req[r].settings.active = a /\ a \notin Relays
    BY <2>2, <2>3, DisjointAssumption DEF Following
  <2>5. Relay(r) = a.members[i].relay
    <3>1. /\ req[r].attempt \in DOMAIN req[r].relays /\ req[r].relays \in Seq(Relays)
      <4>1. req[r] \in Underway /\ Planned(req[r])
        BY <1>1, <2>3, JobFields DEF IInv, Base, TypeOK, RequestsOK
      <4> QED BY <2>3, <4>1 DEF Planned, Underway
    <3>2. /\ Len(req[r].relays) = n
          /\ \A k \in req[r].attempt .. n :
               LET x == i + k - req[r].attempt
               IN  req[r].relays[k] = a.members[IF x <= n THEN x ELSE x - n].relay
      BY <1>1, <2>3 DEF Following
    <3> HIDE DEF a, n, i
    <3>3. /\ req[r].attempt \in req[r].attempt .. n
          /\ i + req[r].attempt - req[r].attempt = i /\ i <= n
      BY <2>2, <3>1, <3>2
    <3> QED BY <3>2, <3>3 DEF Relay
  <2>6. ASSUME Serve(r) PROVE Picked(selector', None) = Relay(r)
    <3>1. selector' = selector
      BY <1>1, <2>4, <2>6 DEF Serve, Record, Recorded
    <3> QED BY <1>1, <2>5, <3>1 DEF Picked
  <2>7. ASSUME FailOver(r), n > 1 PROVE Picked(selector', None) # Relay(r)
    <3>1. selector' = [selector EXCEPT !.failover = Next1(selector, i)]
      BY <1>1, <2>4, <2>7 DEF FailOver, Record, Recorded
    <3>2. /\ selector'.aggregate = a /\ selector'.failover = Next1(selector, i)
      BY <2>2, <3>1 DEF SelectorOf
    <3>3. Next1(selector, i) \in 1 .. n /\ Next1(selector, i) # i
      BY <2>2, <2>7 DEF Next1
    <3>4. Picked(selector', None) = a.members[Next1(selector, i)].relay
      BY <1>1, <3>2 DEF Picked
    <3>5. a.members[Next1(selector, i)].relay # a.members[i].relay
      BY <2>2, <3>3, AggregateAssumption
    <3> QED BY <2>5, <3>4, <3>5
  <2> QED BY <2>6, <2>7
<1> DEFINE AllFollowed ==
      \A r \in Requests :
        LET x == Relay(r)
            heeds == req[r].alone /\ selector # None /\ selector.aggregate.strategy = "failover"
        IN  /\ Serve(r) /\ heeds => Picked(selector', None) = x
            /\ FailOver(r) /\ heeds /\ Len(selector.aggregate.members) > 1 =>
                 Picked(selector', None) # x
<1>2. ASSUME IInv PROVE AllFollowed
  BY <1>1, <1>2, Zenon
<1>3. IInv /\ [Next]_vars => [AllFollowed]_vars
  BY <1>2
<1> QED BY <1>3, Invariance, PTL DEF Spec, FailoverFollowsRequests
=============================================================================
