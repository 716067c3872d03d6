-------------------------- MODULE MobileRelayProofs --------------------------
(* The inductive invariants of the mobile relay, for any number of          *)
(* connections, rooms, tokens and messages: the rooms first, then what the  *)
(* peers of a room hear of each other.                                      *)
EXTENDS MobileRelay, FiniteSetTheorems, SequenceTheorems, WellFoundedInduction, TLAPS

(* Putting a message into a channel changes that channel only, and keeps    *)
(* what was in it.                                                          *)
LEMMA QueuedIsAppended ==
  ASSUME NEW q \in [Conns -> Seq(Messages)], NEW c \in Conns \cup {None},
         NEW m \in Messages
  PROVE  /\ Queued(q, c, m) \in [Conns -> Seq(Messages)]
         /\ \A d \in Conns : d # c => Queued(q, c, m)[d] = q[d]
         /\ \A d \in Conns : \A k \in DOMAIN q[d] :
              k \in DOMAIN Queued(q, c, m)[d] /\ Queued(q, c, m)[d][k] = q[d][k]
         /\ c # None /\ writer[c] # "off" =>
              \E k \in DOMAIN Queued(q, c, m)[c] : Queued(q, c, m)[c][k] = m
<1>1. CASE c = None \/ writer[c] = "off"
  BY <1>1 DEF Queued
<1>2. CASE c # None /\ writer[c] # "off"
  <2> DEFINE r == Queued(q, c, m)
  <2>1. c \in Conns /\ r = [q EXCEPT ![c] = Append(@, m)]
    BY <1>2 DEF Queued
  <2>2. r[c] = Append(q[c], m) /\ \A d \in Conns : d # c => r[d] = q[d]
    BY <2>1
  <2>3. /\ q[c] \in Seq(Messages) /\ Append(q[c], m) \in Seq(Messages)
        /\ Len(Append(q[c], m)) = Len(q[c]) + 1
        /\ Append(q[c], m)[Len(q[c]) + 1] = m
        /\ \A k \in 1..Len(q[c]) : Append(q[c], m)[k] = q[c][k]
    BY <2>1
  <2>4. r \in [Conns -> Seq(Messages)]
    BY <2>1, <2>3
  <2>5. Len(q[c]) + 1 \in DOMAIN r[c] /\ r[c][Len(q[c]) + 1] = m
    BY <2>2, <2>3
  <2>6. ASSUME NEW d \in Conns, NEW k \in DOMAIN q[d]
        PROVE  k \in DOMAIN r[d] /\ r[d][k] = q[d][k]
    <3>1. CASE d = c
      BY <3>1, <2>2, <2>3
    <3>2. CASE d # c
      BY <3>2, <2>2
    <3> QED BY <3>1, <3>2
  <2> QED BY <2>2, <2>4, <2>5, <2>6
<1> QED BY <1>1, <1>2

(* Who is replaced is told to close, if anybody is. *)
LEMMA CloseIsQueued ==
  ASSUME NEW q \in [Conns -> Seq(Messages)], NEW p \in Conns \cup {None}
  PROVE  /\ Queued(q, p, Close) \in [Conns -> Seq(Messages)]
         /\ \A d \in Conns : \A k \in DOMAIN q[d] :
              k \in DOMAIN Queued(q, p, Close)[d] /\ Queued(q, p, Close)[d][k] = q[d][k]
         /\ p # None /\ writer[p] # "off" =>
              \E k \in DOMAIN Queued(q, p, Close)[p] : Queued(q, p, Close)[p][k] = Close
<1> DEFINE m == Close
<1>1. m \in Messages
  BY DEF Messages
<1> HIDE DEF m
<1>2. /\ Queued(q, p, m) \in [Conns -> Seq(Messages)]
      /\ \A d \in Conns : \A k \in DOMAIN q[d] :
           k \in DOMAIN Queued(q, p, m)[d] /\ Queued(q, p, m)[d][k] = q[d][k]
      /\ p # None /\ writer[p] # "off" =>
           \E k \in DOMAIN Queued(q, p, m)[p] : Queued(q, p, m)[p][k] = m
  BY <1>1, QueuedIsAppended
<1> QED BY <1>2 DEF m

(* The initial state satisfies the invariant. *)
LEMMA Initial == Init => IInv
<1> SUFFICES ASSUME Init PROVE IInv
  OBVIOUS
<1> USE ConnsAssumption, RegistrationAssumption DEF Init
<1>1. TypeOK
  BY DEF TypeOK, Places, Messages, Roles
<1>2. ConnectionsAreCounted
  <2>1. Counted = {} /\ Arrived = {}
    BY DEF Counted, Arrived, Known
  <2> QED BY <2>1, FS_EmptySet DEF ConnectionsAreCounted
<1>3. PlacesAreTaken
  BY DEF PlacesAreTaken
<1>4. UnreplacedKeepsItsPlace
  BY DEF UnreplacedKeepsItsPlace, Present
<1> QED BY <1>1, <1>2, <1>3, <1>4 DEF IInv

-----------------------------------------------------------------------------
(* Registering. *)

LEMMA RegisterKeeps ==
  ASSUME IInv, NEW c \in Conns, Register(c)
  PROVE  IInv'
<1> USE ConnsAssumption, RegistrationAssumption
<1>0. TypeOK /\ ConnectionsAreCounted /\ PlacesAreTaken /\ UnreplacedKeepsItsPlace
  BY DEF IInv
<1> DEFINE r == RoomOf[c]
           role == RoleOf[c]
<1>1. r \in Rooms /\ role \in Roles /\ TokenOf[c] \in Tokens /\ TokenOf[c] # None
  OBVIOUS
<1>2. ConnectionsAreCounted' /\ active' \in Nat /\ total' \in Nat
  <2>1. IsFiniteSet(Counted) /\ IsFiniteSet(Arrived)
    BY FS_Subset DEF Counted, Arrived
  <2>2. c \notin Counted /\ c \notin Arrived
    BY DEF Register, Counted, Arrived, Known
  <2>3. Counted' = Counted \cup {c} /\ Arrived' = Arrived \cup {c}
    BY <1>0 DEF Register, Counted, Arrived, Known, TypeOK
  <2>4. Cardinality(Counted') = Cardinality(Counted) + 1
        /\ Cardinality(Arrived') = Cardinality(Arrived) + 1
    BY <2>1, <2>2, <2>3, FS_AddElement
  <2>5. active' = active + 1 /\ total' = total + 1
    BY DEF Register
  <2> QED BY <1>0, <2>4, <2>5 DEF ConnectionsAreCounted, TypeOK
<1>3. CASE token[r] \notin {None, TokenOf[c]}
  <2>1. at' = [at EXCEPT ![c] = "refused"] /\ UNCHANGED <<token, slot, queue>>
        /\ UNCHANGED <<link, writer, heard, said, target>> /\ at[c] = "away"
    BY <1>3 DEF Register
  <2>2. TypeOK'
    BY <1>0, <1>2, <2>1 DEF TypeOK, Places
  <2>3. PlacesAreTaken'
    BY <1>0, <2>1 DEF PlacesAreTaken, TypeOK, Known
  <2>4. UnreplacedKeepsItsPlace'
    BY <1>0, <2>1 DEF UnreplacedKeepsItsPlace, ToldToClose, Slot, Present, TypeOK
  <2> QED BY <1>2, <2>2, <2>3, <2>4 DEF IInv
<1>4. CASE token[r] \in {None, TokenOf[c]}
  <2> DEFINE q1 == Queued(queue, Slot(c), Close)
  <2>1. /\ at[c] = "away" /\ at' = [at EXCEPT ![c] = "open"]
        /\ token' = [token EXCEPT ![r] = TokenOf[c]]
        /\ slot' = [slot EXCEPT ![r][role] = c]
        /\ queue' = Queued(q1, c, Registered)
        /\ UNCHANGED <<link, writer, heard, said, target>>
    BY <1>4 DEF Register, SetSender
  <2>2. Slot(c) \in Conns \cup {None} /\ Close \in Messages /\ Registered \in Messages
    BY <1>0, <1>1 DEF TypeOK, Slot, Messages
  <2>3. queue \in [Conns -> Seq(Messages)]
    BY <1>0 DEF TypeOK
  <2>4. /\ q1 \in [Conns -> Seq(Messages)]
        /\ \A d \in Conns : \A k \in DOMAIN queue[d] :
             k \in DOMAIN q1[d] /\ q1[d][k] = queue[d][k]
        /\ Slot(c) # None /\ writer[Slot(c)] # "off" =>
             \E k \in DOMAIN q1[Slot(c)] : q1[Slot(c)][k] = Close
    <3> DEFINE p == Slot(c)
    <3>1. p \in Conns \cup {None}
      BY <2>2
    <3> HIDE DEF p
    <3>2. /\ Queued(queue, p, Close) \in [Conns -> Seq(Messages)]
          /\ \A d \in Conns : \A k \in DOMAIN queue[d] :
               k \in DOMAIN Queued(queue, p, Close)[d]
               /\ Queued(queue, p, Close)[d][k] = queue[d][k]
          /\ p # None /\ writer[p] # "off" =>
               \E k \in DOMAIN Queued(queue, p, Close)[p] :
                 Queued(queue, p, Close)[p][k] = Close
      BY <2>3, <3>1, CloseIsQueued
    <3> QED BY <3>2 DEF p
  <2> HIDE DEF q1
  <2>5. /\ queue' \in [Conns -> Seq(Messages)]
        /\ \A d \in Conns : \A k \in DOMAIN q1[d] :
             k \in DOMAIN queue'[d] /\ queue'[d][k] = q1[d][k]
    BY <2>1, <2>2, <2>4, QueuedIsAppended
  <2>6. /\ slot' \in [Rooms -> [Roles -> Conns \cup {None}]] /\ slot'[r][role] = c
        /\ \A s \in Rooms, o \in Roles :
             s # r \/ o # role => slot'[s][o] = slot[s][o]
    BY <1>0, <1>1, <2>1 DEF TypeOK
  <2>7. TypeOK'
    BY <1>0, <1>1, <1>2, <2>1, <2>5, <2>6 DEF TypeOK, Places
  <2>8. PlacesAreTaken'
    <3>1. ASSUME NEW s \in Rooms, NEW o \in Roles, slot'[s][o] # None
          PROVE  /\ at'[slot'[s][o]] \in Known
                 /\ RoomOf[slot'[s][o]] = s /\ RoleOf[slot'[s][o]] = o
                 /\ token'[s] = TokenOf[slot'[s][o]]
      <4>1. CASE s = r /\ o = role
        BY <4>1, <1>0, <1>1, <2>1, <2>6 DEF TypeOK, Known
      <4>2. CASE s # r \/ o # role
        <5>1. slot'[s][o] = slot[s][o] /\ slot[s][o] \in Conns
          BY <4>2, <2>6, <3>1, <1>0 DEF TypeOK
        <5>2. /\ at[slot[s][o]] \in Known
              /\ RoomOf[slot[s][o]] = s /\ RoleOf[slot[s][o]] = o
              /\ token[s] = TokenOf[slot[s][o]]
          BY <5>1, <3>1, <1>0 DEF PlacesAreTaken
        <5>3. at'[slot[s][o]] \in Known
          BY <5>1, <5>2, <2>1, <1>0 DEF Known, TypeOK
        <5>4. token'[s] = token[s]
          BY <5>1, <5>2, <1>0, <1>4, <2>1 DEF TypeOK
        <5> QED BY <5>1, <5>2, <5>3, <5>4
      <4> QED BY <4>1, <4>2
    <3>2. ASSUME NEW s \in Rooms
          PROVE  token'[s] = None <=> \A o \in Roles : slot'[s][o] = None
      <4>1. CASE s = r
        BY <4>1, <1>0, <1>1, <2>1, <2>6 DEF TypeOK
      <4>2. CASE s # r
        BY <4>2, <1>0, <2>1, <2>6 DEF TypeOK, PlacesAreTaken
      <4> QED BY <4>1, <4>2
    <3> QED BY <3>1, <3>2 DEF PlacesAreTaken
  <2>9. UnreplacedKeepsItsPlace'
    <3> SUFFICES ASSUME NEW d \in Conns, at'[d] \in Present, ~ToldToClose(d)'
                 PROVE  slot'[RoomOf[d]][RoleOf[d]] = d
      BY DEF UnreplacedKeepsItsPlace, Slot
    <3>1. CASE d = c
      BY <3>1, <2>6
    <3>2. CASE d # c
      <4>1. at[d] \in Present
        BY <3>2, <2>1, <1>0 DEF TypeOK
      <4>2. writer[d] = "on" /\ \A k \in DOMAIN queue'[d] : queue'[d][k] # Close
        BY <2>1 DEF ToldToClose
      <4>3. \A k \in DOMAIN queue[d] : queue[d][k] # Close
        BY <4>2, <2>4, <2>5
      <4>4. slot[RoomOf[d]][RoleOf[d]] = d
        BY <4>1, <4>2, <4>3, <1>0 DEF UnreplacedKeepsItsPlace, ToldToClose, Slot
      <4>5. RoomOf[d] # r \/ RoleOf[d] # role
        <5> SUFFICES ASSUME RoomOf[d] = r, RoleOf[d] = role PROVE FALSE
          OBVIOUS
        <5>1. Slot(c) = d
          BY <4>4 DEF Slot
        <5>2. \E k \in DOMAIN q1[d] : q1[d][k] = Close
          BY <5>1, <4>2, <2>4
        <5> QED BY <5>2, <4>2, <2>5
      <4> QED BY <4>4, <4>5, <2>6
    <3> QED BY <3>1, <3>2
  <2> QED BY <1>2, <2>7, <2>8, <2>9 DEF IInv
<1> QED BY <1>3, <1>4

-----------------------------------------------------------------------------
(* Unregistering. *)

LEMMA UnregisterKeeps ==
  ASSUME IInv, NEW c \in Conns, Unregister(c)
  PROVE  IInv'
<1> USE ConnsAssumption, RegistrationAssumption
<1>0. TypeOK /\ ConnectionsAreCounted /\ PlacesAreTaken /\ UnreplacedKeepsItsPlace
  BY DEF IInv
<1> DEFINE r == RoomOf[c]
           role == RoleOf[c]
           left == LeftBy(c)
<1>1. r \in Rooms /\ role \in Roles
  OBVIOUS
<1>2. /\ at[c] = "leaving" /\ at' = [at EXCEPT ![c] = "gone"]
      /\ active' = active - 1
      /\ slot' = [slot EXCEPT ![r] = left]
      /\ token' = IF Empty(left) THEN [token EXCEPT ![r] = None] ELSE token
      /\ writer' = [writer EXCEPT ![c] = "off"] /\ queue' = [queue EXCEPT ![c] = <<>>]
      /\ UNCHANGED <<link, heard, said, target, total>>
  BY DEF Unregister, Unregistered
<1>3. /\ left \in [Roles -> Conns \cup {None}]
      /\ \A o \in Roles : left[o] = slot[r][o] \/ left[o] = None
      /\ \A o \in Roles : slot[r][o] # c => left[o] = slot[r][o]
      /\ left[role] # c
  BY <1>0, <1>1 DEF LeftBy, Slot, TypeOK
<1> HIDE DEF left
<1>4. /\ slot' \in [Rooms -> [Roles -> Conns \cup {None}]] /\ slot'[r] = left
      /\ \A s \in Rooms : s # r => slot'[s] = slot[s]
  BY <1>0, <1>1, <1>2, <1>3 DEF TypeOK
<1>5. ConnectionsAreCounted' /\ active' \in Nat
  <2>1. IsFiniteSet(Counted)
    BY FS_Subset DEF Counted
  <2>2. c \in Counted
    BY <1>2 DEF Counted, Known
  <2>3. Counted' = Counted \ {c} /\ Arrived' = Arrived
    BY <1>0, <1>2 DEF Counted, Arrived, Known, TypeOK
  <2>4. Cardinality(Counted') = Cardinality(Counted) - 1
        /\ Cardinality(Counted) \in Nat /\ Cardinality(Counted') \in Nat
    BY <2>1, <2>2, <2>3, FS_RemoveElement, FS_CardinalityType
  <2>5. total' = total
    BY <1>2
  <2> QED BY <1>0, <1>2, <2>3, <2>4, <2>5 DEF ConnectionsAreCounted
<1>6. TypeOK'
  <2>1. queue' \in [Conns -> Seq(Messages)]
    BY <1>0, <1>2 DEF TypeOK
  <2> QED BY <1>0, <1>1, <1>2, <1>4, <1>5, <2>1 DEF TypeOK, Places
<1>7. PlacesAreTaken'
  <2>1. ASSUME NEW s \in Rooms, NEW o \in Roles, slot'[s][o] # None
        PROVE  /\ at'[slot'[s][o]] \in Known
               /\ RoomOf[slot'[s][o]] = s /\ RoleOf[slot'[s][o]] = o
               /\ token'[s] = TokenOf[slot'[s][o]]
    <3>1. slot'[s][o] = slot[s][o] /\ slot[s][o] \in Conns /\ slot[s][o] # None
      <4>1. slot'[s][o] = slot[s][o]
        <5>1. CASE s = r
          BY <5>1, <2>1, <1>3, <1>4
        <5>2. CASE s # r
          BY <5>2, <1>4
        <5> QED BY <5>1, <5>2
      <4>2. slot[s][o] \in Conns \cup {None}
        BY <1>0 DEF TypeOK
      <4> QED BY <4>1, <4>2, <2>1
    <3>2. /\ at[slot[s][o]] \in Known
          /\ RoomOf[slot[s][o]] = s /\ RoleOf[slot[s][o]] = o
          /\ token[s] = TokenOf[slot[s][o]]
      BY <3>1, <1>0 DEF PlacesAreTaken
    <3>3. slot[s][o] # c
      <4> SUFFICES ASSUME slot[s][o] = c PROVE FALSE
        OBVIOUS
      <4>1. s = r /\ o = role
        BY <3>2
      <4> QED BY <4>1, <3>1, <1>3, <1>4
    <3>4. at'[slot[s][o]] \in Known
      BY <3>1, <3>2, <3>3, <1>0, <1>2 DEF TypeOK
    <3>5. token'[s] = token[s]
      <4>1. CASE s # r
        BY <4>1, <1>0, <1>2 DEF TypeOK
      <4>2. CASE s = r
        <5>1. ~Empty(left)
          BY <4>2, <3>1, <1>4 DEF Empty
        <5> QED BY <5>1, <1>2
      <4> QED BY <4>1, <4>2
    <3> QED BY <3>1, <3>2, <3>4, <3>5
  <2>2. ASSUME NEW s \in Rooms
        PROVE  token'[s] = None <=> \A o \in Roles : slot'[s][o] = None
    <3>1. CASE s # r
      BY <3>1, <1>0, <1>2, <1>4 DEF TypeOK, PlacesAreTaken
    <3>2. CASE s = r /\ Empty(left)
      BY <3>2, <1>0, <1>2, <1>4 DEF TypeOK, Empty
    <3>3. CASE s = r /\ ~Empty(left)
      <4>1. token'[s] = token[s] /\ slot'[s] = left
        BY <3>3, <1>2, <1>4
      <4>2. PICK o \in Roles : left[o] # None
        BY <3>3 DEF Empty
      <4>3. slot[s][o] # None
        BY <4>2, <3>3, <1>3
      <4>4. token[s] # None
        BY <4>3, <1>0 DEF PlacesAreTaken
      <4> QED BY <4>1, <4>2, <4>4
    <3> QED BY <3>1, <3>2, <3>3
  <2> QED BY <2>1, <2>2 DEF PlacesAreTaken
<1>8. UnreplacedKeepsItsPlace'
  <2> SUFFICES ASSUME NEW d \in Conns, at'[d] \in Present, ~ToldToClose(d)'
               PROVE  slot'[RoomOf[d]][RoleOf[d]] = d
    BY DEF UnreplacedKeepsItsPlace, Slot
  <2>1. d # c
    BY <1>0, <1>2 DEF Present, TypeOK
  <2>2. at[d] \in Present /\ ~ToldToClose(d)
    BY <2>1, <1>0, <1>2 DEF TypeOK, ToldToClose
  <2>3. slot[RoomOf[d]][RoleOf[d]] = d
    BY <2>2, <1>0 DEF UnreplacedKeepsItsPlace, Slot
  <2>4. CASE RoomOf[d] = r
    BY <2>4, <2>1, <2>3, <1>3, <1>4
  <2>5. CASE RoomOf[d] # r
    BY <2>5, <2>3, <1>4
  <2> QED BY <2>4, <2>5
<1> QED BY <1>5, <1>6, <1>7, <1>8 DEF IInv

-----------------------------------------------------------------------------
(* The other steps leave rooms and counters alone. *)

(* A step that leaves rooms, counters and registrations alone, makes no     *)
(* connection known or unknown and takes no Close back keeps the invariant. *)
LEMMA QuietStepKeeps ==
  ASSUME IInv, TypeOK', UNCHANGED <<token, slot, active, total>>,
         \A d \in Conns : at[d] \in Known <=> at'[d] \in Known,
         \A d \in Conns : at[d] = "refused" <=> at'[d] = "refused",
         \A d \in Conns : at[d] = "away" <=> at'[d] = "away",
         \A d \in Conns : at'[d] \in Present => at[d] \in Present,
         \A d \in Conns : ToldToClose(d) => ToldToClose(d)'
  PROVE  IInv'
<1>1. ConnectionsAreCounted'
  <2>1. Counted' = Counted /\ Arrived' = Arrived
    BY DEF Counted, Arrived
  <2> QED BY <2>1 DEF IInv, ConnectionsAreCounted
<1>2. PlacesAreTaken'
  <2>1. \A r \in Rooms, role \in Roles : slot[r][role] # None => slot[r][role] \in Conns
    BY DEF IInv, TypeOK
  <2> QED BY <2>1 DEF IInv, PlacesAreTaken
<1>3. UnreplacedKeepsItsPlace'
  BY DEF IInv, UnreplacedKeepsItsPlace, Slot
<1> QED BY <1>1, <1>2, <1>3 DEF IInv

LEMMA ReadKeeps ==
  ASSUME IInv, NEW c \in Conns, Read(c)
  PROVE  IInv'
<1> USE RegistrationAssumption
<1>0. TypeOK
  BY DEF IInv
<1> DEFINE to == slot[RoomOf[c]][Other(RoleOf[c])]
<1>1. Other(RoleOf[c]) \in Roles
  BY DEF Other, Roles
<1>2. to \in Conns \cup {None}
  BY <1>0, <1>1 DEF TypeOK
<1>3. /\ at[c] = "open" /\ said' = [said EXCEPT ![c] = @ + 1]
      /\ at' = at \/ at' = [at EXCEPT ![c] = "sending"]
      /\ target' = target \/ target' = [target EXCEPT ![c] = to]
      /\ UNCHANGED <<link, token, slot, queue, writer, heard, active, total>>
  BY DEF Read
<1>4. TypeOK'
  <2>1. at' \in [Conns -> Places]
    BY <1>0, <1>3 DEF TypeOK, Places
  <2>3. said' \in [Conns -> Nat]
    BY <1>0, <1>3 DEF TypeOK
  <2>2. target' \in [Conns -> Conns \cup {None}]
    BY <1>0, <1>2, <1>3 DEF TypeOK
  <2> QED BY <1>0, <1>3, <2>1, <2>2, <2>3 DEF TypeOK
<1>5. \A d \in Conns : ToldToClose(d) => ToldToClose(d)'
  BY <1>3 DEF ToldToClose
<1>6. \A d \in Conns : at'[d] = at[d] \/ (at[d] = "open" /\ at'[d] = "sending")
  BY <1>0, <1>3 DEF TypeOK
<1> QED BY <1>3, <1>4, <1>5, <1>6, QuietStepKeeps DEF Known, Present

LEMMA ForwardKeeps ==
  ASSUME IInv, NEW c \in Conns, Forward(c)
  PROVE  IInv'
<1>0. TypeOK
  BY DEF IInv
<1> DEFINE m == <<c, said[c]>>
           to == target[c]
<1>1. /\ at[c] = "sending" /\ at' = [at EXCEPT ![c] = "open"]
      /\ queue' = Queued(queue, to, m)
      /\ target' = [target EXCEPT ![c] = None]
      /\ UNCHANGED <<link, token, slot, writer, heard, said, active, total>>
  BY DEF Forward
<1>2. m \in Messages /\ to \in Conns \cup {None} /\ queue \in [Conns -> Seq(Messages)]
  BY <1>0 DEF TypeOK, Messages
<1> HIDE DEF m, to
<1>3. /\ queue' \in [Conns -> Seq(Messages)]
      /\ \A d \in Conns : \A k \in DOMAIN queue[d] :
           k \in DOMAIN queue'[d] /\ queue'[d][k] = queue[d][k]
  <2>1. /\ Queued(queue, to, m) \in [Conns -> Seq(Messages)]
        /\ \A d \in Conns : \A k \in DOMAIN queue[d] :
             k \in DOMAIN Queued(queue, to, m)[d]
             /\ Queued(queue, to, m)[d][k] = queue[d][k]
    BY <1>2, QueuedIsAppended
  <2> QED BY <1>1, <2>1
<1>4. TypeOK'
  BY <1>0, <1>1, <1>3 DEF TypeOK, Places
<1>5. \A d \in Conns : ToldToClose(d) => ToldToClose(d)'
  BY <1>1, <1>3 DEF ToldToClose
<1>6. \A d \in Conns : at'[d] = at[d] \/ (at[d] = "sending" /\ at'[d] = "open")
  BY <1>0, <1>1 DEF TypeOK
<1> QED BY <1>1, <1>4, <1>5, <1>6, QuietStepKeeps DEF Known, Present

LEMMA WriteKeeps ==
  ASSUME IInv, NEW c \in Conns, Write(c)
  PROVE  IInv'
<1>0. TypeOK
  BY DEF IInv
<1>1. /\ writer[c] # "off" /\ queue[c] # <<>>
      /\ UNCHANGED <<at, link, token, slot, said, target, active, total>>
  BY DEF Write
<1>2. queue[c] \in Seq(Messages) /\ heard[c] \in Seq(Messages)
  BY <1>0 DEF TypeOK
<1>3. CASE link[c] = "dead" \/ writer[c] = "closed"
  <2>1. /\ writer' = [writer EXCEPT ![c] = "off"] /\ queue' = [queue EXCEPT ![c] = <<>>]
        /\ UNCHANGED heard
    BY <1>3 DEF Write
  <2>2. TypeOK'
    BY <1>0, <1>1, <2>1 DEF TypeOK
  <2>3. \A d \in Conns : ToldToClose(d) => ToldToClose(d)'
    BY <1>0, <2>1 DEF ToldToClose, TypeOK
  <2> QED BY <1>1, <2>2, <2>3, QuietStepKeeps
<1>4. CASE ~(link[c] = "dead" \/ writer[c] = "closed")
  <2> DEFINE w == IF Head(queue[c]) = Close THEN "closed" ELSE writer[c]
  <2>1. /\ writer' = [writer EXCEPT ![c] = w]
        /\ queue' = [queue EXCEPT ![c] = Tail(queue[c])]
        /\ heard' = [heard EXCEPT ![c] = Append(heard[c], Head(queue[c]))]
    BY <1>4 DEF Write
  <2>2. /\ Head(queue[c]) \in Messages /\ Head(queue[c]) = queue[c][1]
        /\ Tail(queue[c]) \in Seq(Messages)
        /\ Len(queue[c]) \in Nat \ {0} /\ Len(Tail(queue[c])) = Len(queue[c]) - 1
        /\ \A k \in 2..Len(queue[c]) : Tail(queue[c])[k - 1] = queue[c][k]
    BY <1>1, <1>2
  <2>3. Append(heard[c], Head(queue[c])) \in Seq(Messages)
    BY <1>2, <2>2
  <2>4. TypeOK'
    BY <1>0, <1>1, <2>1, <2>2, <2>3 DEF TypeOK
  <2>5. ASSUME NEW d \in Conns, ToldToClose(d) PROVE ToldToClose(d)'
    <3>1. CASE d # c
      BY <3>1, <2>1, <2>5 DEF ToldToClose
    <3>2. CASE d = c /\ writer[c] # "on"
      BY <3>2, <1>0, <1>1, <1>4 DEF TypeOK
    <3>3. CASE d = c /\ writer[c] = "on"
      <4>1. PICK k \in DOMAIN queue[c] : queue[c][k] = Close
        BY <3>3, <2>5 DEF ToldToClose
      <4>2. CASE k = 1
        <5>1. writer'[c] = "closed"
          BY <4>1, <4>2, <2>1, <2>2, <1>0 DEF TypeOK
        <5> QED BY <5>1, <3>3 DEF ToldToClose
      <4>3. CASE k # 1
        <5>1. k \in 2..Len(queue[c]) /\ k - 1 \in 1..Len(Tail(queue[c]))
          BY <4>1, <4>3, <1>2, <2>2
        <5>2. Tail(queue[c])[k - 1] = Close
          BY <4>1, <5>1, <2>2
        <5>3. queue'[c] = Tail(queue[c])
          BY <2>1, <1>0 DEF TypeOK
        <5>4. k - 1 \in DOMAIN queue'[c] /\ queue'[c][k - 1] = Close
          BY <5>1, <5>2, <5>3, <2>2
        <5> QED BY <5>4, <3>3 DEF ToldToClose
      <4> QED BY <4>2, <4>3
    <3> QED BY <3>1, <3>2, <3>3
  <2> QED BY <1>1, <2>4, <2>5, QuietStepKeeps
<1> QED BY <1>3, <1>4

LEMMA EndKeeps ==
  ASSUME IInv, NEW c \in Conns, Leave(c) \/ Drop(c) \/ ReadError(c)
  PROVE  IInv'
<1>0. TypeOK
  BY DEF IInv
<1>1. /\ at' = at \/ (at[c] = "open" /\ at' \in {[at EXCEPT ![c] = "leaving"],
                                                 [at EXCEPT ![c] = "broken"]})
      /\ link' = link \/ link' = [link EXCEPT ![c] = "dead"]
      /\ UNCHANGED <<token, slot, queue, writer, heard, said, target, active, total>>
  BY DEF Leave, Drop, ReadError
<1>2. TypeOK'
  BY <1>0, <1>1 DEF TypeOK, Places
<1>3. \A d \in Conns : ToldToClose(d) => ToldToClose(d)'
  BY <1>1 DEF ToldToClose
<1>4. \A d \in Conns :
        at'[d] = at[d] \/ (at[d] = "open" /\ at'[d] \in {"leaving", "broken"})
  BY <1>0, <1>1 DEF TypeOK
<1> QED BY <1>1, <1>2, <1>3, <1>4, QuietStepKeeps DEF Known, Present

-----------------------------------------------------------------------------
(* Theorems. *)

(* The invariant holds in every reachable state of the relay: whatever      *)
(* register_peer, forward_message and unregister_peer interleave.           *)
THEOREM Invariance == Spec => []IInv
<1>1. IInv /\ [Next]_vars => IInv'
  <2> SUFFICES ASSUME IInv, [Next]_vars PROVE IInv'
    OBVIOUS
  <2>1. CASE UNCHANGED vars
    BY <2>1 DEF vars, IInv, TypeOK, ConnectionsAreCounted, Counted, Arrived, PlacesAreTaken,
                UnreplacedKeepsItsPlace, ToldToClose, Slot
  <2>2. CASE Next
    <3>1. PICK c \in Conns : Step(c)
      BY <2>2 DEF Next
    <3> QED BY <3>1, RegisterKeeps, ReadKeeps, ForwardKeeps, WriteKeeps, UnregisterKeeps,
               EndKeeps DEF Step
  <2> QED BY <2>1, <2>2
<1> QED BY <1>1, Initial, PTL DEF Spec

(* The status page's counters are those of the connections' tasks. *)
THEOREM CountersAreRight == Spec => []ConnectionsAreCounted
<1>1. IInv => ConnectionsAreCounted
  BY DEF IInv
<1> QED BY <1>1, Invariance, PTL

(* Nobody is taken out of a room by another peer's disconnection. *)
THEOREM PlacesAreKept == Spec => []UnreplacedKeepsItsPlace
<1>1. IInv => UnreplacedKeepsItsPlace
  BY DEF IInv
<1> QED BY <1>1, Invariance, PTL

-----------------------------------------------------------------------------
(* What is said and heard. *)

LEMMA OneMessageMore ==
  ASSUME NEW t \in Seq(Messages), NEW m \in Messages
  PROVE  LET u == Append(t, m)
         IN /\ u \in Seq(Messages) /\ Len(u) = Len(t) + 1 /\ Len(t) \in Nat
            /\ DOMAIN u = 1..(Len(t) + 1) /\ DOMAIN t = 1..Len(t)
            /\ u[Len(t) + 1] = m /\ \A i \in DOMAIN t : u[i] = t[i]
BY AppendProperties, LenProperties

LEMMA FromMore ==
  ASSUME NEW t \in Seq(Messages), NEW m \in Messages, NEW s \in Conns
  PROVE  /\ From(t, s) \subseteq Nat
         /\ \A i \in From(t, s) : i <= Len(t) /\ i \in From(Append(t, m), s)
         /\ \A i \in From(Append(t, m), s) :
              i \in From(t, s) \/ (i = Len(t) + 1 /\ m \in {s} \X Nat)
         /\ m \in {s} \X Nat => Len(t) + 1 \in From(Append(t, m), s)
<1> DEFINE u == Append(t, m)
<1>1. /\ Len(t) \in Nat /\ DOMAIN u = 1..(Len(t) + 1) /\ DOMAIN t = 1..Len(t)
      /\ u[Len(t) + 1] = m /\ \A i \in DOMAIN t : u[i] = t[i]
  BY OneMessageMore
<1> HIDE DEF u
<1>2. /\ \A i \in DOMAIN t : i \in DOMAIN u /\ u[i] = t[i]
      /\ \A i \in DOMAIN u : i \in DOMAIN t \/ i = Len(t) + 1
      /\ Len(t) + 1 \in DOMAIN u /\ DOMAIN t \subseteq Nat /\ \A i \in DOMAIN t : i <= Len(t)
  BY <1>1
<1> QED BY <1>1, <1>2 DEF From, u

(* A message in its turn leaves the stretch unbroken, and is its end. *)
LEMMA NextInTurn ==
  ASSUME NEW t \in Seq(Messages), NEW m \in Messages, NEW s \in Conns,
         Unbroken(t, s), m \in {s} \X Nat => EndsAt(t, s, m[2] - 1)
  PROVE  Unbroken(Append(t, m), s)
<1> DEFINE u == Append(t, m)
           n == Len(t) + 1
<1>1. /\ Len(t) \in Nat /\ u[n] = m /\ \A i \in DOMAIN t : u[i] = t[i]
  BY OneMessageMore
<1>2. /\ From(t, s) \subseteq Nat
      /\ \A i \in From(t, s) : i <= Len(t) /\ i \in From(u, s)
      /\ \A i \in From(u, s) : i \in From(t, s) \/ (i = n /\ m \in {s} \X Nat)
  BY FromMore
<1>3. \A i \in From(t, s) : u[i] = t[i]
  BY <1>1 DEF From
<1> HIDE DEF u
<1>4. SUFFICES ASSUME NEW i \in From(u, s), NEW j \in From(u, s), i < j,
                      \A k \in From(u, s) : k <= i \/ j <= k
               PROVE  u[j][2] = u[i][2] + 1
  BY DEF Unbroken, u
<1>5. i \in From(t, s)
  BY <1>1, <1>2, <1>4
<1>6. CASE j \in From(t, s)
  BY <1>2, <1>3, <1>4, <1>5, <1>6 DEF Unbroken
<1>7. CASE j = n /\ m \in {s} \X Nat
  <2>1. \A k \in From(t, s) : k <= i
    BY <1>1, <1>2, <1>4, <1>5, <1>7
  <2>2. t[i][2] = m[2] - 1
    BY <1>5, <1>7, <2>1 DEF EndsAt
  <2>3. u[j] = m /\ u[i] = t[i] /\ m[2] \in Nat
    BY <1>1, <1>3, <1>5, <1>7
  <2> QED BY <2>2, <2>3
<1> QED BY <1>2, <1>6, <1>7

LEMMA EndMoves ==
  ASSUME NEW t \in Seq(Messages), NEW m \in Messages, NEW s \in Conns, m \in {s} \X Nat
  PROVE  EndsAt(Append(t, m), s, m[2])
<1> DEFINE u == Append(t, m)
           n == Len(t) + 1
<1>1. Len(t) \in Nat /\ u[n] = m
  BY OneMessageMore
<1>2. /\ From(t, s) \subseteq Nat /\ n \in From(u, s)
      /\ \A i \in From(t, s) : i <= Len(t)
      /\ \A i \in From(u, s) : i \in From(t, s) \/ i = n
  BY FromMore
<1> HIDE DEF u
<1> SUFFICES ASSUME NEW i \in From(u, s), \A k \in From(u, s) : k <= i
             PROVE  u[i][2] = m[2]
  BY DEF EndsAt, u
<1>3. i = n
  BY <1>1, <1>2
<1> QED BY <1>1, <1>3

LEMMA EndStays ==
  ASSUME NEW t \in Seq(Messages), NEW m \in Messages, NEW s \in Conns, NEW n,
         m \notin {s} \X Nat, EndsAt(t, s, n)
  PROVE  EndsAt(Append(t, m), s, n)
<1> DEFINE u == Append(t, m)
<1>1. From(u, s) = From(t, s) /\ \A i \in From(t, s) : u[i] = t[i]
  BY FromMore, OneMessageMore DEF From
<1> HIDE DEF u
<1> QED BY <1>1 DEF EndsAt, u

(* Nothing in a stream of other messages. *)
LEMMA NobodyIn ==
  ASSUME NEW t, NEW s \in Conns, NEW n, \A i \in DOMAIN t : t[i] \notin {s} \X Nat
  PROVE  Unbroken(t, s) /\ EndsAt(t, s, n)
BY DEF Unbroken, EndsAt, From

(* The start of an unbroken stream is unbroken. *)
LEMMA StartUnbroken ==
  ASSUME NEW t \in Seq(Messages), NEW u \in Seq(Messages), NEW s \in Conns,
         Unbroken(t \o u, s)
  PROVE  Unbroken(t, s)
<1> DEFINE v == t \o u
<1>1. /\ Len(t) \in Nat /\ Len(u) \in Nat /\ DOMAIN t = 1..Len(t)
      /\ DOMAIN v = 1..(Len(t) + Len(u))
      /\ \A i \in 1..Len(t) : v[i] = t[i]
  BY ConcatProperties, LenProperties
<1> HIDE DEF v
<1>2. \A i \in DOMAIN t : i \in DOMAIN v /\ v[i] = t[i]
  BY <1>1
<1>3. /\ From(t, s) \subseteq From(v, s) /\ From(t, s) \subseteq 1..Len(t)
      /\ From(v, s) \subseteq 1..(Len(t) + Len(u))
      /\ \A i \in From(v, s) : i \in From(t, s) \/ Len(t) < i
      /\ \A i \in From(t, s) : v[i] = t[i]
  BY <1>1, <1>2 DEF From
<1> SUFFICES ASSUME NEW i \in From(t, s), NEW j \in From(t, s), i < j,
                    \A k \in From(t, s) : k <= i \/ j <= k
             PROVE  t[j][2] = t[i][2] + 1
  BY DEF Unbroken
<1>4. \A k \in From(v, s) : k <= i \/ j <= k
  BY <1>1, <1>3
<1>5. v[j][2] = v[i][2] + 1
  BY <1>3, <1>4 DEF Unbroken, v
<1> QED BY <1>3, <1>5

-----------------------------------------------------------------------------
(* How a step changes the stream of a peer. *)

LEMMA StreamType ==
  ASSUME TypeOK, NEW c \in Conns
  PROVE  /\ heard[c] \in Seq(Messages) /\ queue[c] \in Seq(Messages)
         /\ Stream(c) \in Seq(Messages)
         /\ queue[c] = <<>> => Stream(c) = heard[c]
         /\ heard[c] = <<>> => Stream(c) = queue[c]
BY ConcatProperties, ConcatEmptySeq DEF TypeOK, Stream

(* What is joined is joined in whatever order. *)
LEMMA Joined ==
  ASSUME NEW t \in Seq(Messages), NEW u \in Seq(Messages), NEW v \in Seq(Messages)
  PROVE  (t \o u) \o v = t \o (u \o v)
BY ConcatAssociative

LEMMA StreamGrows ==
  ASSUME TypeOK, NEW c \in Conns, NEW m \in Messages, heard'[c] = heard[c],
         queue'[c] = Append(queue[c], m)
  PROVE  Stream(c)' = Append(Stream(c), m)
<1> DEFINE h == heard[c]
           q == queue[c]
           e == <<m>>
<1>1. h \in Seq(Messages) /\ q \in Seq(Messages) /\ h \o q \in Seq(Messages)
  BY StreamType DEF Stream
<1>2. e \in Seq(Messages)
  OBVIOUS
<1>3. Append(q, m) = q \o e /\ Append(h \o q, m) = (h \o q) \o e
  BY <1>1, AppendIsConcat
<1> HIDE DEF h, q, e
<1>4. (h \o q) \o e = h \o (q \o e)
  BY <1>1, <1>2, Joined
<1>5. Append(h \o q, m) = h \o Append(q, m)
  BY <1>3, <1>4, Zenon
<1> QED BY <1>5, Zenon DEF Stream, h, q

LEMMA StreamMoves ==
  ASSUME TypeOK, NEW c \in Conns, queue[c] # <<>>,
         heard'[c] = Append(heard[c], Head(queue[c])), queue'[c] = Tail(queue[c])
  PROVE  Stream(c)' = Stream(c)
<1> DEFINE h == heard[c]
           q == queue[c]
           m == Head(q)
<1>1. h \in Seq(Messages) /\ q \in Seq(Messages)
  BY StreamType
<1>2. m \in Messages /\ Tail(q) \in Seq(Messages) /\ <<m>> \in Seq(Messages)
  BY <1>1, HeadTailProperties
<1>3. Append(h, m) = h \o <<m>>
  BY <1>1, <1>2, AppendIsConcat
<1>4. (h \o <<m>>) \o Tail(q) = h \o (<<m>> \o Tail(q))
  <2> DEFINE e == <<m>>
             r == Tail(q)
  <2>1. e \in Seq(Messages) /\ r \in Seq(Messages)
    BY <1>2
  <2> HIDE DEF e, r, h, m
  <2>2. (h \o e) \o r = h \o (e \o r)
    BY <1>1, <2>1, Joined
  <2> QED BY <2>2, Zenon DEF e, r
<1>5. q = <<m>> \o Tail(q)
  <2>1. Len(q) \in Nat \ {0} /\ q = SubSeq(q, 1, Len(q))
    BY <1>1, EmptySeq, SubSeqFull
  <2>2. 1 \in 1..Len(q) /\ Len(q) \in 1..Len(q)
    BY <2>1
  <2>3. SubSeq(q, 1, Len(q)) = <<q[1]>> \o SubSeq(q, 2, Len(q))
    BY <1>1, <2>2, SubSeqRecursiveFirst
  <2>4. Tail(q) = SubSeq(q, 2, Len(q)) /\ Head(q) = q[1]
    BY <1>1, TailIsSubSeq
  <2> QED BY <2>1, <2>3, <2>4
<1> QED BY <1>3, <1>4, <1>5 DEF Stream

(* A stream that nothing touches stays in order. *)
LEMMA StreamStays ==
  ASSUME NEW c \in Conns, StreamOK(c), heard'[c] = heard[c], queue'[c] = queue[c],
         writer'[c] = writer[c], at[c] \in Unheard <=> at'[c] \in Unheard
  PROVE  StreamOK(c)'
<1>1. Stream(c)' = Stream(c)
  BY DEF Stream
<1>2. \A s \in Conns : Unbroken(Stream(c), s)'
  BY <1>1 DEF StreamOK, Unbroken, From
<1> QED BY <1>1, <1>2 DEF StreamOK

(* When the writer ends, what was sent is what is left of the stream. *)
LEMMA StreamEnds ==
  ASSUME TypeOK, NEW c \in Conns, StreamOK(c), heard'[c] = heard[c], queue'[c] = <<>>,
         writer'[c] = "off", at[c] \in Unheard <=> at'[c] \in Unheard
  PROVE  StreamOK(c)'
<1> DEFINE h == heard[c]
           q == queue[c]
<1>1. h \in Seq(Messages) /\ q \in Seq(Messages)
  BY StreamType
<1>2. Stream(c) = h \o q /\ Stream(c)' = h
  BY <1>1, ConcatEmptySeq DEF Stream
<1> HIDE DEF h, q
<1>3. \A i \in DOMAIN h : i \in DOMAIN (h \o q) /\ (h \o q)[i] = h[i]
  <2>1. /\ Len(h) \in Nat /\ Len(q) \in Nat /\ DOMAIN h = 1..Len(h)
        /\ DOMAIN (h \o q) = 1..(Len(h) + Len(q))
        /\ \A i \in 1..Len(h) : (h \o q)[i] = h[i]
    BY <1>1, ConcatProperties, LenProperties
  <2> QED BY <2>1
<1>4. \A s \in Conns : Unbroken(h, s)
  BY <1>1, <1>2, StartUnbroken DEF StreamOK
<1>5. \A i \in DOMAIN h : i = 1 <=> h[i] = Registered
  BY <1>2, <1>3 DEF StreamOK
<1>6. /\ at'[c] \in Unheard => h = <<>>
      /\ \A i \in DOMAIN h : h[i] = Close => i = Len(h)
  BY DEF StreamOK, h
<1>7. heard'[c] = h
  BY DEF h
<1>8. \A s \in Conns : Unbroken(Stream(c), s)'
  BY <1>2, <1>4 DEF Unbroken, From
<1> QED BY <1>2, <1>5, <1>6, <1>7, <1>8 DEF StreamOK

(* A message that is not the first and, if somebody said it, is the next,   *)
(* leaves the stream it is put into in order.                               *)
LEMMA StreamGoesOn ==
  ASSUME TypeOK, NEW c \in Conns, StreamOK(c), NEW m \in Messages, m # Registered,
         \A s \in Conns : m \in {s} \X Nat => EndsAt(Stream(c), s, m[2] - 1),
         writer[c] # "off", at[c] \notin Unheard, at'[c] \notin Unheard,
         heard'[c] = heard[c], queue'[c] = Append(queue[c], m), writer'[c] = writer[c]
  PROVE  StreamOK(c)'
<1> DEFINE t == Stream(c)
           u == Append(t, m)
<1>1. Stream(c)' = u
  BY StreamGrows
<1>2. t \in Seq(Messages) /\ t # <<>>
  BY StreamType DEF StreamOK
<1>3. \A s \in Conns : Unbroken(t, s)
  BY DEF StreamOK
<1>4. \A i \in DOMAIN t : i = 1 <=> t[i] = Registered
  BY DEF StreamOK
<1>5. \A s \in Conns : m \in {s} \X Nat => EndsAt(t, s, m[2] - 1)
  OBVIOUS
<1> HIDE DEF t
<1>6. \A s \in Conns : Unbroken(u, s)
  BY <1>2, <1>3, <1>5, NextInTurn
<1>7. \A i \in DOMAIN u : i = 1 <=> u[i] = Registered
  <2>1. /\ Len(t) \in Nat /\ DOMAIN u = 1..(Len(t) + 1) /\ DOMAIN t = 1..Len(t)
        /\ u[Len(t) + 1] = m /\ \A i \in DOMAIN t : u[i] = t[i]
    BY <1>2, OneMessageMore
  <2>2. Len(t) # 0
    BY <1>2, EmptySeq
  <2> HIDE DEF u
  <2> QED BY <2>1, <2>2, <1>4
<1>8. u # <<>>
  BY <1>2, AppendProperties
<1> HIDE DEF u
<1>9. \A s \in Conns : Unbroken(Stream(c), s)'
  BY <1>1, <1>6 DEF Unbroken, From
<1> QED BY <1>1, <1>7, <1>8, <1>9 DEF StreamOK

(* Who is at the end of a stream that does not change stays there. *)
LEMMA SenderStays ==
  ASSUME NEW s \in Conns, NEW c \in Conns, SenderOK(s, c), Stream(c)' = Stream(c),
         writer'[c] = writer[c], said'[s] = said[s], Sending(s, c)' <=> Sending(s, c),
         at'[c] \in Unheard => at[c] \in Unheard, Reaches(s, c)' => Reaches(s, c)
  PROVE  SenderOK(s, c)'
<1> DEFINE n == said[s]
<1>1. \A k : EndsAt(Stream(c), s, k) => EndsAt(Stream(c)', s, k)
  BY Zenon
<1>2. writer[c] # "off" /\ Sending(s, c) => EndsAt(Stream(c), s, said[s] - 1)'
  BY <1>1 DEF SenderOK, EndsAt, From
<1>3. writer[c] # "off" /\ Reaches(s, c) /\ ~Sending(s, c) => EndsAt(Stream(c), s, said[s])'
  BY <1>1 DEF SenderOK, EndsAt, From
<1> QED BY <1>2, <1>3 DEF SenderOK

(* Nobody is bound by the stream of a peer whose writer ended. *)
LEMMA SenderFree ==
  ASSUME NEW s \in Conns, NEW c \in Conns, SenderOK(s, c), writer'[c] = "off",
         Sending(s, c)' => Sending(s, c), at'[c] \in Unheard => at[c] \in Unheard
  PROVE  SenderOK(s, c)'
BY DEF SenderOK

(* What another says, or the relay, leaves a sender where it was. *)
LEMMA SenderWaits ==
  ASSUME TypeOK, NEW s \in Conns, NEW c \in Conns, SenderOK(s, c), NEW m \in Messages,
         m \notin {s} \X Nat, Stream(c)' = Append(Stream(c), m),
         writer'[c] = writer[c], said'[s] = said[s], Sending(s, c)' <=> Sending(s, c),
         at'[c] \in Unheard => at[c] \in Unheard, Reaches(s, c)' => Reaches(s, c)
  PROVE  SenderOK(s, c)'
<1> DEFINE t == Stream(c)
           u == Append(t, m)
<1>1. t \in Seq(Messages)
  BY StreamType
<1> HIDE DEF t
<1>2. \A k : EndsAt(t, s, k) => EndsAt(u, s, k)
  BY <1>1, EndStays
<1>3. Stream(c)' = u
  BY DEF t
<1> HIDE DEF u
<1>4. writer[c] # "off" /\ Sending(s, c) => EndsAt(Stream(c), s, said[s] - 1)'
  <2>1. writer[c] # "off" /\ Sending(s, c) => EndsAt(u, s, said[s] - 1)
    BY <1>2 DEF SenderOK, t
  <2> QED BY <1>3, <2>1 DEF EndsAt, From
<1>5. writer[c] # "off" /\ Reaches(s, c) /\ ~Sending(s, c) => EndsAt(Stream(c), s, said[s])'
  <2>1. writer[c] # "off" /\ Reaches(s, c) /\ ~Sending(s, c) => EndsAt(u, s, said[s])
    BY <1>2 DEF SenderOK, t
  <2> QED BY <1>3, <2>1 DEF EndsAt, From
<1> QED BY <1>4, <1>5 DEF SenderOK

-----------------------------------------------------------------------------
(* The steps and the streams. *)

(* Sending and reaching are between connections. *)
LEMMA WhomItReaches ==
  ASSUME IInv, NEW s \in Conns, NEW c \in Conns, Reaches(s, c)
  PROVE  at[c] \in Known
<1> DEFINE r == RoomOf[s]
           o == Other(RoleOf[s])
<1>1. r \in Rooms /\ o \in Roles
  BY RegistrationAssumption DEF Other, Roles
<1>2. slot[r][o] = c /\ slot[r][o] # None
  BY ConnsAssumption DEF Reaches
<1> HIDE DEF r, o
<1> QED BY <1>1, <1>2 DEF IInv, PlacesAreTaken

LEMMA InitialStreams == Init => StreamInv
<1> SUFFICES ASSUME Init PROVE StreamInv
  OBVIOUS
<1>1. IInv
  BY Initial
<1>2. TypeOK
  BY <1>1 DEF IInv
<1>3. ASSUME NEW c \in Conns
      PROVE  /\ heard[c] = <<>> /\ queue[c] = <<>> /\ at[c] = "away" /\ writer[c] = "on"
             /\ Stream(c) = <<>>
  <2>1. heard[c] = <<>> /\ queue[c] = <<>> /\ at[c] = "away" /\ writer[c] = "on"
    BY DEF Init
  <2> QED BY <1>2, <2>1, StreamType
<1>4. \A t, s, n : t = <<>> => Unbroken(t, s) /\ EndsAt(t, s, n)
  BY DEF Unbroken, EndsAt, From
<1>5. ASSUME NEW c \in Conns PROVE StreamOK(c)
  BY <1>3, <1>4 DEF StreamOK, Unheard
<1>6. ASSUME NEW c \in Conns, NEW s \in Conns PROVE SenderOK(s, c)
  BY <1>3, <1>4 DEF SenderOK, Unheard, Sending
<1> QED BY <1>1, <1>5, <1>6 DEF StreamInv

LEMMA QuietKeepsStreams ==
  ASSUME StreamInv, NEW c \in Conns, Leave(c) \/ Drop(c) \/ ReadError(c)
  PROVE  StreamInv'
<1>0. IInv /\ TypeOK
  BY DEF StreamInv, IInv
<1>1. /\ at' = at \/ (at[c] = "open" /\ at' \in {[at EXCEPT ![c] = "leaving"],
                                                 [at EXCEPT ![c] = "broken"]})
      /\ UNCHANGED <<slot, queue, writer, heard, said, target>>
  BY DEF Leave, Drop, ReadError
<1>2. \A d \in Conns : /\ at[d] \in Unheard <=> at'[d] \in Unheard
                       /\ at[d] = "sending" <=> at'[d] = "sending"
  BY <1>0, <1>1 DEF TypeOK, Unheard
<1>3. \A d \in Conns : StreamOK(d)'
  <2> TAKE d \in Conns
  <2> QED BY <1>1, <1>2, StreamStays DEF StreamInv
<1>4. \A d \in Conns : \A s \in Conns : SenderOK(s, d)'
  <2> TAKE d \in Conns
  <2> TAKE s \in Conns
  <2>1. Stream(d)' = Stream(d) /\ (Reaches(s, d)' <=> Reaches(s, d))
    BY <1>1 DEF Stream, Reaches
  <2>2. Sending(s, d)' <=> Sending(s, d)
    BY <1>1, <1>2 DEF Sending
  <2>3. SenderOK(s, d) /\ writer'[d] = writer[d] /\ said'[s] = said[s]
    BY <1>1 DEF StreamInv
  <2> QED BY <1>2, <2>1, <2>2, <2>3, SenderStays
<1> QED BY <1>0, <1>3, <1>4, EndKeeps DEF StreamInv

LEMMA WriteKeepsStreams ==
  ASSUME StreamInv, NEW c \in Conns, Write(c)
  PROVE  StreamInv'
<1>0. IInv /\ TypeOK /\ StreamOK(c)
  BY DEF StreamInv, IInv
<1>1. /\ writer[c] # "off" /\ queue[c] # <<>>
      /\ UNCHANGED <<at, slot, said, target>>
      /\ \A d \in Conns : d # c => /\ writer'[d] = writer[d] /\ queue'[d] = queue[d]
                                   /\ heard'[d] = heard[d]
  BY <1>0 DEF Write, TypeOK
<1>2. \A d \in Conns : d # c => StreamOK(d)'
  <2> SUFFICES ASSUME NEW d \in Conns, d # c PROVE StreamOK(d)'
    OBVIOUS
  <2> QED BY <1>1, StreamStays DEF StreamInv
<1>3. \A d \in Conns, s \in Conns : /\ Sending(s, d)' <=> Sending(s, d)
                                    /\ Reaches(s, d)' <=> Reaches(s, d)
                                    /\ SenderOK(s, d)
  BY <1>1 DEF Sending, Reaches, StreamInv
<1>4. \A d \in Conns, s \in Conns : d # c => SenderOK(s, d)'
  <2> SUFFICES ASSUME NEW d \in Conns, NEW s \in Conns, d # c PROVE SenderOK(s, d)'
    OBVIOUS
  <2>1. Stream(d)' = Stream(d)
    BY <1>1 DEF Stream
  <2> QED BY <1>1, <1>3, <2>1, SenderStays
<1>5. StreamOK(c)' /\ \A s \in Conns : SenderOK(s, c)'
  <2>1. CASE link[c] = "dead" \/ writer[c] = "closed"
    <3>1. writer'[c] = "off" /\ queue'[c] = <<>> /\ heard'[c] = heard[c]
      BY <1>0, <2>1 DEF Write, TypeOK
    <3>2. StreamOK(c)'
      BY <1>0, <1>1, <3>1, StreamEnds
    <3>3. \A s \in Conns : SenderOK(s, c)'
      BY <1>1, <1>3, <3>1, SenderFree
    <3> QED BY <3>2, <3>3
  <2>2. CASE ~(link[c] = "dead" \/ writer[c] = "closed")
    <3> DEFINE m == Head(queue[c])
               h == heard[c]
    <3>1. /\ writer'[c] = (IF m = Close THEN "closed" ELSE writer[c])
          /\ queue'[c] = Tail(queue[c]) /\ heard'[c] = Append(h, m)
          /\ writer[c] = "on"
      BY <1>0, <1>1, <2>2 DEF Write, TypeOK
    <3>2. Stream(c)' = Stream(c)
      BY <1>0, <1>1, <3>1, StreamMoves
    <3>3. h \in Seq(Messages) /\ m \in Messages
      BY <1>0, <1>1, StreamType, HeadTailProperties
    <3> HIDE DEF m, h
    <3>4. /\ Len(h) \in Nat /\ DOMAIN heard'[c] = 1..(Len(h) + 1) /\ DOMAIN h = 1..Len(h)
          /\ heard'[c][Len(h) + 1] = m /\ Len(heard'[c]) = Len(h) + 1
          /\ \A i \in DOMAIN h : heard'[c][i] = h[i]
      BY <3>1, <3>3, OneMessageMore
    <3>5. \A i \in DOMAIN h : h[i] # Close
      BY <1>0, <3>1 DEF StreamOK, h
    <3>6. \A i \in DOMAIN heard'[c] :
            heard'[c][i] = Close => i = Len(heard'[c]) /\ writer'[c] # "on"
      BY <3>1, <3>4, <3>5
    <3>7. at'[c] \notin Unheard /\ writer'[c] # "off"
      BY <1>0, <1>1, <3>1 DEF StreamOK
    <3>8. \A s \in Conns : Unbroken(Stream(c), s)'
      BY <1>0, <3>2 DEF StreamOK, Unbroken, From
    <3>9. StreamOK(c)'
      BY <1>0, <1>1, <3>2, <3>6, <3>7, <3>8 DEF StreamOK
    <3>10. ASSUME NEW s \in Conns PROVE SenderOK(s, c)'
      <4>1. writer'[c] # "off" /\ writer[c] # "off"
        BY <1>1, <3>7
      <4>3. SenderOK(s, c) /\ said' = said /\ at' = at
        BY <1>1, <1>3
      <4>4. EndsAt(Stream(c), s, said[s]) => EndsAt(Stream(c), s, said[s])'
        BY <3>2, <4>3 DEF EndsAt, From
      <4>5. EndsAt(Stream(c), s, said[s] - 1) => EndsAt(Stream(c), s, said[s] - 1)'
        BY <3>2, <4>3 DEF EndsAt, From
      <4> QED BY <1>3, <4>1, <4>3, <4>4, <4>5 DEF SenderOK
    <3> QED BY <3>9, <3>10
  <2> QED BY <2>1, <2>2
<1> QED BY <1>0, <1>2, <1>4, <1>5, WriteKeeps DEF StreamInv

LEMMA UnregisterKeepsStreams ==
  ASSUME StreamInv, NEW c \in Conns, Unregister(c)
  PROVE  StreamInv'
<1>0. IInv /\ TypeOK
  BY DEF StreamInv, IInv
<1>1. /\ at[c] = "leaving" /\ at' = [at EXCEPT ![c] = "gone"]
      /\ slot' = [slot EXCEPT ![RoomOf[c]] = LeftBy(c)]
      /\ writer' = [writer EXCEPT ![c] = "off"] /\ queue' = [queue EXCEPT ![c] = <<>>]
      /\ UNCHANGED <<heard, said, target>>
  BY DEF Unregister, Unregistered
<1>2. /\ writer'[c] = "off" /\ queue'[c] = <<>>
      /\ \A d \in Conns : /\ at[d] \in Unheard <=> at'[d] \in Unheard
                          /\ at[d] = "sending" <=> at'[d] = "sending"
                          /\ d # c => writer'[d] = writer[d] /\ queue'[d] = queue[d]
  BY <1>0, <1>1 DEF TypeOK, Unheard
<1>3. \A d \in Conns : StreamOK(d)'
  <2> TAKE d \in Conns
  <2>1. StreamOK(d)
    BY DEF StreamInv
  <2>2. CASE d = c
    BY <1>0, <1>1, <1>2, <2>1, <2>2, StreamEnds
  <2>3. CASE d # c
    BY <1>1, <1>2, <2>1, <2>3, StreamStays
  <2> QED BY <2>2, <2>3
<1>4. \A r \in Rooms, o \in Roles : slot'[r][o] # slot[r][o] => slot'[r][o] = None
  <2> SUFFICES ASSUME NEW r \in Rooms, NEW o \in Roles, slot'[r][o] # slot[r][o]
               PROVE  slot'[r][o] = None
    OBVIOUS
  <2>1. r = RoomOf[c] /\ slot'[r] = LeftBy(c)
    BY <1>0, <1>1 DEF TypeOK
  <2>2. LeftBy(c) = [slot[r] EXCEPT ![RoleOf[c]] = None] \/ LeftBy(c) = slot[r]
    BY <2>1 DEF LeftBy
  <2>3. slot[r] \in [Roles -> Conns \cup {None}]
    BY <1>0 DEF TypeOK
  <2>4. \A f : f = [slot[r] EXCEPT ![RoleOf[c]] = None] => f[o] \in {slot[r][o], None}
    BY <2>3
  <2> QED BY <2>1, <2>2, <2>4
<1>5. ASSUME NEW s \in Conns, NEW d \in Conns, Reaches(s, d)' PROVE Reaches(s, d)
  <2>1. RoomOf[s] \in Rooms /\ Other(RoleOf[s]) \in Roles /\ d # None
    BY RegistrationAssumption, ConnsAssumption DEF Other, Roles
  <2> QED BY <1>4, <1>5, <2>1 DEF Reaches
<1>6. \A d \in Conns : \A s \in Conns : SenderOK(s, d)'
  <2> TAKE d \in Conns
  <2> TAKE s \in Conns
  <2>1. SenderOK(s, d) /\ (Sending(s, d)' <=> Sending(s, d)) /\ said'[s] = said[s]
    BY <1>1, <1>2 DEF StreamInv, Sending
  <2>2. CASE d = c
    BY <1>2, <2>1, <2>2, SenderFree
  <2>3. CASE d # c
    <3>1. Stream(d)' = Stream(d)
      BY <1>1, <1>2, <2>3 DEF Stream
    <3> QED BY <1>2, <1>5, <2>1, <2>3, <3>1, SenderStays
  <2> QED BY <2>2, <2>3
<1> QED BY <1>0, <1>3, <1>6, UnregisterKeeps DEF StreamInv

LEMMA ReadKeepsStreams ==
  ASSUME StreamInv, NEW c \in Conns, Read(c)
  PROVE  StreamInv'
<1>0. IInv /\ TypeOK
  BY DEF StreamInv, IInv
<1> DEFINE to == slot[RoomOf[c]][Other(RoleOf[c])]
<1>1. /\ at[c] = "open" /\ said' = [said EXCEPT ![c] = @ + 1]
      /\ \/ to = None /\ UNCHANGED <<at, target>>
         \/ /\ to # None /\ at' = [at EXCEPT ![c] = "sending"]
            /\ target' = [target EXCEPT ![c] = to]
      /\ UNCHANGED <<slot, queue, writer, heard>>
  BY DEF Read
<1>2. /\ said'[c] = said[c] + 1 /\ said[c] \in Nat
      /\ \A d \in Conns : /\ at[d] \in Unheard <=> at'[d] \in Unheard
                          /\ d # c => /\ said'[d] = said[d] /\ at'[d] = at[d]
                                      /\ target'[d] = target[d]
  BY <1>0, <1>1 DEF TypeOK, Unheard
<1>3. \A d \in Conns : StreamOK(d)'
  <2> TAKE d \in Conns
  <2> QED BY <1>1, <1>2, StreamStays DEF StreamInv
<1>4. ASSUME NEW d \in Conns, NEW s \in Conns PROVE SenderOK(s, d)'
  <2>1. SenderOK(s, d) /\ Stream(d)' = Stream(d) /\ (Reaches(s, d)' <=> Reaches(s, d))
    BY <1>1 DEF StreamInv, Stream, Reaches
  <2>2. CASE s # c
    <3>1. Sending(s, d)' <=> Sending(s, d)
      BY <1>2, <2>2 DEF Sending
    <3> QED BY <1>1, <1>2, <2>1, <2>2, <3>1, SenderStays
  <2>3. CASE s = c /\ d # to
    <3>1. ~Reaches(s, d) /\ ~Reaches(s, d)'
      BY <1>1, <2>3 DEF Reaches
    <3>2. ~Sending(s, d)'
      BY <1>0, <1>1, <2>3 DEF Sending, TypeOK
    <3> QED BY <3>1, <3>2 DEF SenderOK
  <2>4. CASE s = c /\ d = to
    <3>1. Reaches(s, d) /\ ~Sending(s, d) /\ d # None
      BY <1>1, <2>4, ConnsAssumption DEF Reaches, Sending
    <3>2. Sending(s, d)'
      BY <1>0, <1>1, <2>4, <3>1 DEF Sending, TypeOK
    <3>3. at[d] \in Known
      BY <1>0, <3>1, WhomItReaches
    <3>4. at'[d] \notin Unheard
      BY <1>2, <3>3 DEF Known, Unheard
    <3>5. writer[d] # "off" => EndsAt(Stream(d), s, said[s])
      BY <2>1, <3>1 DEF SenderOK
    <3>6. said'[s] - 1 = said[s]
      BY <1>2, <2>4
    <3>7. writer'[d] # "off" => EndsAt(Stream(d), s, said[s] - 1)'
      BY <1>1, <2>1, <3>5, <3>6 DEF EndsAt, From
    <3> QED BY <3>2, <3>4, <3>7 DEF SenderOK
  <2> QED BY <2>2, <2>3, <2>4
<1> QED BY <1>0, <1>3, <1>4, ReadKeeps DEF StreamInv

LEMMA ForwardKeepsStreams ==
  ASSUME StreamInv, NEW c \in Conns, Forward(c)
  PROVE  StreamInv'
<1>0. IInv /\ TypeOK
  BY DEF StreamInv, IInv
<1> DEFINE m == <<c, said[c]>>
           to == target[c]
<1>1. /\ at[c] = "sending" /\ at' = [at EXCEPT ![c] = "open"]
      /\ queue' = Queued(queue, to, m) /\ target' = [target EXCEPT ![c] = None]
      /\ UNCHANGED <<slot, writer, heard, said>>
  BY DEF Forward
<1>2. /\ m \in Messages /\ m # Registered /\ m[2] = said[c] /\ m \in {c} \X Nat
      /\ \A s \in Conns : s # c => m \notin {s} \X Nat
      /\ to \in Conns \cup {None} /\ said[c] \in Nat
  BY <1>0, MessagesAssumption DEF TypeOK, Messages
<1>3. /\ at'[c] = "open" /\ target'[c] = None
      /\ \A d \in Conns : /\ at[d] \in Unheard <=> at'[d] \in Unheard
                          /\ d # c => at'[d] = at[d] /\ target'[d] = target[d]
  BY <1>0, <1>1 DEF TypeOK, Unheard
<1>4. \A d \in Conns : d # to \/ writer[d] = "off" => queue'[d] = queue[d]
  BY <1>0, <1>1, <1>2 DEF Queued, TypeOK
<1>5. to # None /\ writer[to] # "off" => queue'[to] = Append(queue[to], m)
  BY <1>0, <1>1, <1>2 DEF Queued, TypeOK
<1>6. \A d \in Conns : Sending(c, d) <=> d = to
  BY <1>1 DEF Sending
<1>7. \A d \in Conns, s \in Conns : StreamOK(d) /\ SenderOK(s, d)
  BY DEF StreamInv
<1>8. \A s \in Conns : to = None \/ s = to => s # None
  BY ConnsAssumption
<1> HIDE DEF m, to
<1>9. ASSUME NEW d \in Conns PROVE StreamOK(d)'
  <2>1. CASE d # to \/ writer[d] = "off"
    BY <1>1, <1>3, <1>4, <1>7, <2>1, StreamStays
  <2>2. CASE d = to /\ writer[d] # "off"
    <3>1. at[d] \notin Unheard /\ EndsAt(Stream(d), c, said[c] - 1)
      BY <1>6, <1>7, <2>2 DEF SenderOK
    <3>2. \A s \in Conns : m \in {s} \X Nat => EndsAt(Stream(d), s, m[2] - 1)
      BY <1>2, <3>1
    <3>3. queue'[d] = Append(queue[d], m)
      BY <1>5, <1>8, <2>2
    <3> QED BY <1>0, <1>1, <1>2, <1>3, <1>7, <2>2, <3>1, <3>2, <3>3, StreamGoesOn
  <2> QED BY <2>1, <2>2
<1>10. ASSUME NEW d \in Conns, NEW s \in Conns PROVE SenderOK(s, d)'
  <2>1. SenderOK(s, d) /\ (Reaches(s, d)' <=> Reaches(s, d)) /\ said'[s] = said[s]
        /\ writer'[d] = writer[d]
    BY <1>1, <1>7 DEF Reaches
  <2>2. s # c => (Sending(s, d)' <=> Sending(s, d))
    BY <1>3 DEF Sending
  <2>3. ~Sending(c, d)'
    BY <1>3 DEF Sending
  <2>4. CASE writer[d] = "off"
    BY <1>3, <2>1, <2>2, <2>3, <2>4, SenderFree
  <2>5. CASE d # to
    <3>1. Stream(d)' = Stream(d)
      BY <1>1, <1>4, <2>5 DEF Stream
    <3>2. ~Sending(c, d)
      BY <1>6, <2>5
    <3> QED BY <1>3, <2>1, <2>2, <2>3, <3>1, <3>2, SenderStays
  <2>6. CASE d = to /\ writer[d] # "off"
    <3>1. Stream(d) \in Seq(Messages)
      BY <1>0, StreamType
    <3>2. Stream(d)' = Append(Stream(d), m)
      BY <1>0, <1>1, <1>2, <1>5, <1>8, <2>6, StreamGrows
    <3>3. CASE s # c
      BY <1>0, <1>2, <1>3, <2>1, <2>2, <3>2, <3>3, SenderWaits
    <3>4. CASE s = c
      <4> DEFINE t == Stream(d)
      <4>1. t \in Seq(Messages)
        BY <3>1
      <4> HIDE DEF t
      <4>2. EndsAt(Append(t, m), c, m[2])
        BY <1>2, <4>1, EndMoves
      <4>3. EndsAt(Stream(d)', s, said'[s])
        BY <1>2, <2>1, <3>2, <3>4, <4>2 DEF t
      <4>4. EndsAt(Stream(d), s, said[s])'
        BY <4>3 DEF EndsAt, From
      <4> QED BY <2>3, <3>4, <4>4 DEF SenderOK
    <3> QED BY <3>3, <3>4
  <2> QED BY <2>4, <2>5, <2>6
<1> QED BY <1>0, <1>9, <1>10, ForwardKeeps DEF StreamInv

(* Registering when the token is the room's: who had the place is told to   *)
(* close, then the peer is told that it is registered.                      *)
LEMMA EnteringKeepsStreams ==
  ASSUME StreamInv, NEW c \in Conns, Register(c), token[RoomOf[c]] \in {None, TokenOf[c]}
  PROVE  \A d \in Conns : StreamOK(d)' /\ \A s \in Conns : SenderOK(s, d)'
<1>0. IInv /\ TypeOK
  BY DEF StreamInv, IInv
<1> DEFINE p == Slot(c)
           q == Queued(queue, p, Close)
<1>1. /\ at[c] = "away" /\ at' = [at EXCEPT ![c] = "open"]
      /\ slot' = [slot EXCEPT ![RoomOf[c]][RoleOf[c]] = c]
      /\ queue' = Queued(q, c, Registered)
      /\ UNCHANGED <<writer, heard, said, target>>
  BY DEF Register, SetSender
<1>2. /\ Close \in Messages /\ Registered \in Messages /\ Close # Registered
      /\ \A s \in Conns : Close \notin {s} \X Nat /\ Registered \notin {s} \X Nat
  BY MessagesAssumption DEF Messages
<1>3. p \in Conns \cup {None} /\ (p # None => at[p] \in Known)
  <2>1. RoomOf[c] \in Rooms /\ RoleOf[c] \in Roles
    BY RegistrationAssumption
  <2> QED BY <1>0, <2>1 DEF Slot, TypeOK, IInv, PlacesAreTaken
<1>4. p # c /\ (p # None => at[p] \notin Unheard)
  BY <1>1, <1>3, ConnsAssumption DEF Known, Unheard
<1>5. /\ at'[c] = "open" /\ at[c] \in Unheard
      /\ \A d \in Conns : d # c => at'[d] = at[d]
  BY <1>0, <1>1 DEF TypeOK, Unheard
<1> HIDE DEF p
<1>6. /\ q \in [Conns -> Seq(Messages)]
      /\ \A d \in Conns : d # p \/ writer[d] = "off" => q[d] = queue[d]
      /\ p # None /\ writer[p] # "off" => q[p] = Append(queue[p], Close)
  BY <1>0, <1>2, <1>3 DEF Queued, TypeOK
<1> HIDE DEF q
<1>7. /\ \A d \in Conns : d # c => queue'[d] = q[d]
      /\ writer[c] = "off" => queue'[c] = q[c]
      /\ writer[c] # "off" => queue'[c] = Append(q[c], Registered)
  BY <1>1, <1>2, <1>6, ConnsAssumption DEF Queued
<1>8. \A d \in Conns, s \in Conns : StreamOK(d) /\ SenderOK(s, d)
  BY DEF StreamInv
<1>9. \A d \in Conns : d # c => at[d] \in Unheard <=> at'[d] \in Unheard
  BY <1>5
<1>10. ASSUME NEW d \in Conns, NEW s \in Conns
       PROVE  (Sending(s, d)' <=> Sending(s, d)) /\ said'[s] = said[s]
  BY <1>1, <1>5 DEF Sending
<1>11. ASSUME NEW d \in Conns, NEW s \in Conns, d # c, Reaches(s, d)'
       PROVE  Reaches(s, d)
  <2>1. RoomOf[s] \in Rooms /\ Other(RoleOf[s]) \in Roles
    BY RegistrationAssumption DEF Other, Roles
  <2>2. \A r \in Rooms, o \in Roles : slot'[r][o] = slot[r][o] \/ slot'[r][o] = c
    BY <1>0, <1>1 DEF TypeOK
  <2> QED BY <1>11, <2>1, <2>2 DEF Reaches
<1>12. ASSUME NEW d \in Conns, d # c PROVE StreamOK(d)' /\ \A s \in Conns : SenderOK(s, d)'
  <2>1. CASE d # p \/ writer[d] = "off"
    <3>1. queue'[d] = queue[d]
      BY <1>6, <1>7, <1>12, <2>1
    <3>2. StreamOK(d)'
      BY <1>1, <1>8, <1>9, <1>12, <3>1, StreamStays
    <3>3. Stream(d)' = Stream(d)
      BY <1>1, <3>1 DEF Stream
    <3>4. ASSUME NEW s \in Conns PROVE SenderOK(s, d)'
      BY <1>1, <1>8, <1>9, <1>10, <1>11, <1>12, <3>3, SenderStays
    <3> QED BY <3>2, <3>4
  <2>2. CASE d = p /\ writer[d] # "off"
    <3>1. queue'[d] = Append(queue[d], Close) /\ at[d] \notin Unheard
      BY <1>4, <1>6, <1>7, <1>12, <2>2, ConnsAssumption
    <3>2. StreamOK(d)'
      BY <1>0, <1>1, <1>2, <1>8, <1>9, <1>12, <2>2, <3>1, StreamGoesOn
    <3>3. Stream(d)' = Append(Stream(d), Close)
      BY <1>0, <1>1, <1>2, <3>1, StreamGrows
    <3>4. ASSUME NEW s \in Conns PROVE SenderOK(s, d)'
      BY <1>0, <1>1, <1>2, <1>8, <1>9, <1>10, <1>11, <1>12, <3>3, SenderWaits
    <3> QED BY <3>2, <3>4
  <2> QED BY <2>1, <2>2
<1>13. StreamOK(c)' /\ \A s \in Conns : SenderOK(s, c)'
  <2>1. heard[c] = <<>> /\ q[c] = <<>> /\ heard'[c] = <<>>
    BY <1>1, <1>4, <1>5, <1>6, <1>8 DEF StreamOK
  <2>2. at'[c] \notin Unheard /\ \A s \in Conns : ~Sending(s, c)'
    BY <1>5, <1>8, <1>10 DEF Unheard, SenderOK
  <2>3. /\ queue'[c] = (IF writer[c] = "off" THEN <<>> ELSE <<Registered>>)
        /\ writer'[c] = writer[c]
    BY <1>1, <1>7, <2>1
  <2>4. Stream(c)' = queue'[c]
    <3>1. <<Registered>> \in Seq(Messages) /\ <<>> \in Seq(Messages)
      BY <1>2
    <3>2. queue'[c] \in Seq(Messages)
      BY <2>3, <3>1
    <3> QED BY <2>1, <3>2, ConcatEmptySeq DEF Stream
  <2>5. \A t : t \in {<<>>, <<Registered>>} =>
          /\ \A i \in DOMAIN t : i = 1 <=> t[i] = Registered
          /\ \A s \in Conns : \A n : Unbroken(t, s) /\ EndsAt(t, s, n)
    BY <1>2 DEF Unbroken, EndsAt, From
  <2>6. Stream(c)' \in {<<>>, <<Registered>>}
    BY <2>3, <2>4
  <2>7. \A s \in Conns : Unbroken(Stream(c), s)'
    BY <2>5, <2>6 DEF Unbroken, From
  <2>8. \A i \in DOMAIN Stream(c)' : i = 1 <=> Stream(c)'[i] = Registered
    BY <2>5, <2>6
  <2>9. writer'[c] # "off" => Stream(c)' # <<>>
    BY <2>3, <2>4
  <2>10. StreamOK(c)'
    BY <2>1, <2>2, <2>3, <2>4, <2>7, <2>8, <2>9 DEF StreamOK
  <2>11. ASSUME NEW s \in Conns PROVE EndsAt(Stream(c), s, said[s])'
    <3>1. EndsAt(Stream(c)', s, said'[s])
      BY <2>5, <2>6
    <3> QED BY <3>1 DEF EndsAt, From
  <2> QED BY <2>2, <2>10, <2>11 DEF SenderOK
<1> QED BY <1>12, <1>13

LEMMA RegisterKeepsStreams ==
  ASSUME StreamInv, NEW c \in Conns, Register(c)
  PROVE  StreamInv'
<1>0. IInv /\ TypeOK
  BY DEF StreamInv, IInv
<1>1. CASE token[RoomOf[c]] \notin {None, TokenOf[c]}
  <2>1. /\ at[c] = "away" /\ at' = [at EXCEPT ![c] = "refused"]
        /\ UNCHANGED <<slot, queue, writer, heard, said, target>>
    BY <1>1 DEF Register
  <2>2. \A d \in Conns : /\ at[d] \in Unheard <=> at'[d] \in Unheard
                         /\ at[d] = "sending" <=> at'[d] = "sending"
    BY <1>0, <2>1 DEF TypeOK, Unheard
  <2>3. \A d \in Conns : StreamOK(d)'
    <3> TAKE d \in Conns
    <3> QED BY <2>1, <2>2, StreamStays DEF StreamInv
  <2>4. \A d \in Conns : \A s \in Conns : SenderOK(s, d)'
    <3> TAKE d \in Conns
    <3> TAKE s \in Conns
    <3>1. Stream(d)' = Stream(d) /\ (Reaches(s, d)' <=> Reaches(s, d))
      BY <2>1 DEF Stream, Reaches
    <3>2. Sending(s, d)' <=> Sending(s, d)
      BY <2>1, <2>2 DEF Sending
    <3>3. SenderOK(s, d) /\ writer'[d] = writer[d] /\ said'[s] = said[s]
      BY <2>1 DEF StreamInv
    <3> QED BY <2>2, <3>1, <3>2, <3>3, SenderStays
  <2> QED BY <1>0, <2>3, <2>4, RegisterKeeps DEF StreamInv
<1>2. CASE token[RoomOf[c]] \in {None, TokenOf[c]}
  BY <1>0, <1>2, EnteringKeepsStreams, RegisterKeeps DEF StreamInv
<1> QED BY <1>1, <1>2

-----------------------------------------------------------------------------
(* Theorems on what is heard. *)

(* The streams of all peers stay in order, with the rooms in order.         *)
THEOREM StreamInvariance == Spec => []StreamInv
<1>1. StreamInv /\ [Next]_vars => StreamInv'
  <2> SUFFICES ASSUME StreamInv, [Next]_vars PROVE StreamInv'
    OBVIOUS
  <2>1. CASE UNCHANGED vars
    <3>1. IInv'
      BY <2>1 DEF StreamInv, vars, IInv, TypeOK, ConnectionsAreCounted, Counted, Arrived,
                  PlacesAreTaken, UnreplacedKeepsItsPlace, ToldToClose, Slot
    <3>2. ASSUME NEW c \in Conns PROVE StreamOK(c)' /\ \A s \in Conns : SenderOK(s, c)'
      <4>1. StreamOK(c)'
        BY <2>1, StreamStays DEF StreamInv, vars
      <4>2. ASSUME NEW s \in Conns PROVE SenderOK(s, c)'
        BY <2>1, SenderStays DEF StreamInv, vars, Stream, Sending, Reaches
      <4> QED BY <4>1, <4>2
    <3> QED BY <3>1, <3>2 DEF StreamInv
  <2>2. CASE Next
    <3>1. PICK c \in Conns : Step(c)
      BY <2>2 DEF Next
    <3> QED BY <3>1, RegisterKeepsStreams, ReadKeepsStreams, ForwardKeepsStreams,
               WriteKeepsStreams, UnregisterKeepsStreams, QuietKeepsStreams DEF Step
  <2> QED BY <2>1, <2>2
<1> QED BY <1>1, InitialStreams, PTL DEF Spec

(* Among numbers below a bound there is a largest. *)
LEMMA LargestBelow ==
  ASSUME NEW n \in Nat, NEW W, W \subseteq 0..n, W # {}
  PROVE  \E j \in W : \A k \in W : k <= j
<1> DEFINE R == OpToRel(<, Nat)
           T == {d \in 0..n : n - d \in W}
<1>1. T \subseteq Nat /\ T # {}
  <2>1. PICK j \in W : TRUE
    OBVIOUS
  <2>2. j \in Nat /\ n - j \in 0..n /\ n - (n - j) = j
    BY <2>1
  <2>3. n - j \in T
    BY <2>1, <2>2
  <2>4. T \subseteq 0..n
    OBVIOUS
  <2> HIDE DEF T
  <2> QED BY <2>3, <2>4
<1>2. IsWellFoundedOn(R, Nat)
  BY NatLessThanWellFounded
<1>3. \A x \in Nat, y \in Nat : x < y => <<x, y>> \in R
  BY DEF OpToRel
<1> HIDE DEF R, T
<1>4. PICK d \in T : \A e \in T : ~(<<e, d>> \in R)
  BY <1>1, <1>2, WFMin
<1>5. d \in 0..n /\ n - d \in W /\ \A e \in T : ~(e < d)
  BY <1>1, <1>3, <1>4 DEF T
<1>6. ASSUME NEW k \in W PROVE k <= n - d
  <2>1. k \in 0..n /\ n - k \in 0..n /\ n - (n - k) = k
    OBVIOUS
  <2>2. n - k \in T
    BY <2>1 DEF T
  <2> QED BY <1>5, <2>1, <2>2
<1> QED BY <1>5, <1>6

(* A peer hears the other side in the order it spoke in, without gap or     *)
(* repetition, from "registered" to the Close: forward_message and          *)
(* set_sender together give what each of them alone cannot.                 *)
THEOREM HearingInOrder == Spec => []HeardInOrder
<1>1. StreamInv => HeardInOrder
  <2> SUFFICES ASSUME StreamInv, NEW c \in Conns, NEW i \in DOMAIN heard[c]
               PROVE
                 /\ i = 1 <=> heard[c][i] = Registered
                 /\ heard[c][i] = Close => i = Len(heard[c])
                 /\ \A s \in Conns : LET from == {j \in 1..i : heard[c][j] \in {s} \X Nat}
                    IN i \in from /\ from # {i} =>
                         heard[c][i][2] = 1 + heard[c][CHOOSE j \in from \ {i} :
                                                \A k \in from \ {i} : k <= j][2]
    BY DEF HeardInOrder
  <2> DEFINE h == heard[c]
             q == queue[c]
  <2>1. TypeOK /\ StreamOK(c)
    BY DEF StreamInv, IInv
  <2>2. h \in Seq(Messages) /\ q \in Seq(Messages)
    BY <2>1, StreamType
  <2>3. Stream(c) = h \o q /\ i \in DOMAIN h
    BY DEF Stream
  <2>4. h[i] = Close => i = Len(h)
    BY <2>1 DEF StreamOK
  <2> HIDE DEF h, q
  <2>5. Len(h) \in Nat /\ DOMAIN h = 1..Len(h) /\ i \in 1..Len(h)
    BY <2>2, <2>3, LenProperties
  <2>6. i \in DOMAIN (h \o q) /\ (h \o q)[i] = h[i]
    <3>1. /\ Len(q) \in Nat /\ DOMAIN (h \o q) = 1..(Len(h) + Len(q))
          /\ (h \o q)[i] = h[i]
      BY <2>2, <2>5, ConcatProperties, LenProperties
    <3> QED BY <2>5, <3>1
  <2>7. i = 1 <=> h[i] = Registered
    BY <2>1, <2>3, <2>6 DEF StreamOK
  <2>8. ASSUME NEW s \in Conns
        PROVE  LET from == {j \in 1..i : h[j] \in {s} \X Nat}
               IN i \in from /\ from # {i} =>
                    h[i][2] = 1 + h[CHOOSE j \in from \ {i} : \A k \in from \ {i} : k <= j][2]
    <3> DEFINE from == {j \in 1..i : h[j] \in {s} \X Nat}
               W == from \ {i}
               Last(j) == j \in W /\ \A k \in W : k <= j
               j0 == CHOOSE j \in W : \A k \in W : k <= j
    <3> SUFFICES ASSUME i \in from, from # {i} PROVE h[i][2] = 1 + h[j0][2]
      OBVIOUS
    <3>1. W \subseteq 0..i /\ W # {} /\ i \in Nat
      BY <2>5
    <3>2. \E j \in W : \A k \in W : k <= j
      <4> HIDE DEF W
      <4> QED BY <3>1, LargestBelow
    <3>3. j0 \in W /\ \A k \in W : k <= j0
      <4> HIDE DEF W
      <4> QED BY <3>2
    <3> HIDE DEF j0
    <3>4. Unbroken(h, s)
      BY <2>1, <2>2, <2>3, StartUnbroken DEF StreamOK
    <3>5. i \in From(h, s) /\ j0 \in From(h, s) /\ j0 < i
      BY <2>5, <3>3 DEF From
    <3>6. \A k \in From(h, s) : k <= j0 \/ i <= k
      <4> SUFFICES ASSUME NEW k \in From(h, s), ~(i <= k) PROVE k <= j0
        OBVIOUS
      <4>1. k \in W
        BY <2>5 DEF From
      <4> QED BY <3>3, <4>1
    <3>7. h[i][2] = h[j0][2] + 1
      BY <3>4, <3>5, <3>6 DEF Unbroken
    <3>8. h[j0][2] \in Nat
      BY <3>5 DEF From
    <3> QED BY <3>7, <3>8
  <2> QED BY <2>4, <2>7, <2>8 DEF h
<1> QED BY <1>1, StreamInvariance, PTL
=============================================================================
