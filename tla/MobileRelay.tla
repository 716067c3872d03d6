----------------------------- MODULE MobileRelay -----------------------------
(***************************************************************************)
(* The relay between the Codex++ host and the user's phone: a room has one  *)
(* place for a host and one for a client, and what one of them says goes to *)
(* the other.                                                               *)
(*                                                                          *)
(* A connection is a task that registers and then reads, and a writer that  *)
(* takes messages from the connection's unbounded channel to its socket.    *)
(* The mutex of RelayState makes registering, looking up the other side and *)
(* unregistering atomic; a message is put in the other side's channel after *)
(* the mutex was released.  Counters that are only shown are left out.      *)
(***************************************************************************)
EXTENDS Naturals, Sequences, FiniteSets

CONSTANTS
  Conns,          \* the connections, each made once: reconnecting is another
  Rooms, Tokens,
  RoleOf, RoomOf, TokenOf,   \* the registration each connection sends
  Says,           \* bounds how many messages the peer of a connection says
  Lossy,          \* the connections the network may drop
  None, Registered, Close

Roles == {"host", "client"}

ASSUME RegistrationAssumption ==
  /\ RoleOf \in [Conns -> Roles] /\ RoomOf \in [Conns -> Rooms]
  /\ TokenOf \in [Conns -> Tokens]
ASSUME ConnsAssumption == IsFiniteSet(Conns) /\ None \notin Conns /\ None \notin Tokens
ASSUME MessagesAssumption ==
  /\ Says \in [Conns -> Nat] /\ Lossy \subseteq Conns /\ Registered # Close
  /\ Registered \notin Conns \X Nat /\ Close \notin Conns \X Nat

VARIABLES
  at,       \* where the task of a connection is
  link,     \* is the socket still alive?
  token,    \* RoomState.token, None where there is no room
  slot,     \* RoomState.host and RoomState.client: whose channel it is
  queue,    \* the channel of a connection
  writer,   \* its writer: "on", "closed" once it sent a Close, or "off"
  heard,    \* what the writer sent to the peer
  said,     \* the number of messages read from the peer
  target,   \* whose channel the message just read goes to
  active,   \* active_connections
  total     \* total_connections

vars == <<at, link, token, slot, queue, writer, heard, said, target, active, total>>

Places == {"away", "open", "sending", "leaving", "gone", "refused", "broken"}
Messages == {Registered, Close} \cup (Conns \X Nat)

Other(role) == IF role = "host" THEN "client" ELSE "host"
Slot(c) == slot[RoomOf[c]][RoleOf[c]]

Init ==
  /\ at = [c \in Conns |-> "away"] /\ link = [c \in Conns |-> "up"]
  /\ token = [r \in Rooms |-> None]
  /\ slot = [r \in Rooms |-> [role \in Roles |-> None]]
  /\ queue = [c \in Conns |-> <<>>] /\ writer = [c \in Conns |-> "on"]
  /\ heard = [c \in Conns |-> <<>>] /\ said = [c \in Conns |-> 0]
  /\ target = [c \in Conns |-> None]
  /\ active = 0 /\ total = 0

-----------------------------------------------------------------------------
(* A channel whose writer has gone takes nothing. *)
Queued(q, c, message) ==
  IF c = None \/ writer[c] = "off" THEN q ELSE [q EXCEPT ![c] = Append(@, message)]

(* Mutant: who had the place is not told. *)
SetSenderQuietly(c) ==
  /\ slot'  = [slot EXCEPT ![RoomOf[c]][RoleOf[c]] = c]
  /\ queue' = Queued(queue, c, Registered)

(* set_sender: who had the place is sent a Close. *)
SetSender(c) ==
  /\ slot'  = [slot EXCEPT ![RoomOf[c]][RoleOf[c]] = c]
  /\ queue' = Queued(Queued(queue, Slot(c), Close), c, Registered)

(* register_peer: the connection is counted before its token is compared,   *)
(* and a room is made by the first to register.                             *)
Register(c) ==
  /\ at[c] = "away"
  /\ active' = active + 1 /\ total' = total + 1
  /\ IF token[RoomOf[c]] \in {None, TokenOf[c]}
     THEN /\ at' = [at EXCEPT ![c] = "open"]
          /\ token' = [token EXCEPT ![RoomOf[c]] = TokenOf[c]]
          /\ SetSender(c)
     ELSE at' = [at EXCEPT ![c] = "refused"] /\ UNCHANGED <<token, slot, queue>>
  /\ UNCHANGED <<link, writer, heard, said, target>>

(* The first half of forward_message: the other side is looked up. *)
Read(c) ==
  /\ at[c] = "open" /\ link[c] = "up" /\ said[c] < Says[c]
  /\ said' = [said EXCEPT ![c] = @ + 1]
  /\ LET to == slot[RoomOf[c]][Other(RoleOf[c])]
     IN IF to = None THEN UNCHANGED <<at, target>>
        ELSE at' = [at EXCEPT ![c] = "sending"] /\ target' = [target EXCEPT ![c] = to]
  /\ UNCHANGED <<link, token, slot, queue, writer, heard, active, total>>

(* The second half: the message goes into the channel that was found. *)
Forward(c) ==
  /\ at[c] = "sending"
  /\ queue' = Queued(queue, target[c], <<c, said[c]>>)
  /\ at' = [at EXCEPT ![c] = "open"] /\ target' = [target EXCEPT ![c] = None]
  /\ UNCHANGED <<link, token, slot, writer, heard, said, active, total>>

(* Mutant: the writer takes the newest message. *)
WriteNewest(c) ==
  /\ writer[c] # "off" /\ queue[c] # <<>>
  /\ IF link[c] = "dead" \/ writer[c] = "closed"
     THEN /\ writer' = [writer EXCEPT ![c] = "off"] /\ queue' = [queue EXCEPT ![c] = <<>>]
          /\ UNCHANGED heard
     ELSE /\ writer' = [writer EXCEPT ![c] = IF queue[c][Len(queue[c])] = Close
                                                   THEN "closed" ELSE @]
          /\ queue' = [queue EXCEPT ![c] = SubSeq(@, 1, Len(@) - 1)]
          /\ heard' = [heard EXCEPT ![c] = Append(@, queue[c][Len(queue[c])])]
  /\ UNCHANGED <<at, link, token, slot, said, target, active, total>>

(* The writer sends the next message; on a dead socket, or after a Close, it *)
(* cannot and ends.                                                          *)
Write(c) ==
  /\ writer[c] # "off" /\ queue[c] # <<>>
  /\ IF link[c] = "dead" \/ writer[c] = "closed"
     THEN /\ writer' = [writer EXCEPT ![c] = "off"] /\ queue' = [queue EXCEPT ![c] = <<>>]
          /\ UNCHANGED heard
     ELSE /\ writer' = [writer EXCEPT ![c] = IF Head(queue[c]) = Close THEN "closed" ELSE @]
          /\ queue' = [queue EXCEPT ![c] = Tail(@)]
          /\ heard' = [heard EXCEPT ![c] = Append(@, Head(queue[c]))]
  /\ UNCHANGED <<at, link, token, slot, said, target, active, total>>

(* The peer sends a Close, of its own or in answer to one. *)
Leave(c) ==
  /\ at[c] = "open" /\ link[c] = "up"
  /\ at' = [at EXCEPT ![c] = "leaving"]
  /\ UNCHANGED <<link, token, slot, queue, writer, heard, said, target, active, total>>

Unregistered(c, counted, left, removed) ==
  /\ at[c] = "leaving"
  /\ at' = [at EXCEPT ![c] = "gone"]
  /\ active' = IF counted THEN active - 1 ELSE active
  /\ slot' = [slot EXCEPT ![RoomOf[c]] = left]
  /\ token' = IF removed THEN [token EXCEPT ![RoomOf[c]] = None] ELSE token
  /\ writer' = [writer EXCEPT ![c] = "off"] /\ queue' = [queue EXCEPT ![c] = <<>>]
  /\ UNCHANGED <<link, heard, said, target, total>>

(* A place is given up only by who still holds it, and an empty room goes. *)
LeftBy(c) == IF Slot(c) = c THEN [slot[RoomOf[c]] EXCEPT ![RoleOf[c]] = None] ELSE slot[RoomOf[c]]
Empty(places) == \A role \in Roles : places[role] = None

(* Mutants: the place is given up whoever holds it now; the room is never   *)
(* removed.                                                                 *)
UnregisterAnyone(c) ==
  LET left == [slot[RoomOf[c]] EXCEPT ![RoleOf[c]] = None]
  IN  Unregistered(c, TRUE, left, Empty(left))
UnregisterKeepingRoom(c) == Unregistered(c, TRUE, LeftBy(c), FALSE)

(* unregister_peer, and the abort of the writer. *)
Unregister(c) == Unregistered(c, TRUE, LeftBy(c), Empty(LeftBy(c)))

(* The network drops the connection, and the read that notices it leaves    *)
(* the task at once: nothing is unregistered, and the writer stays.         *)
Drop(c) ==
  /\ c \in Lossy /\ at[c] \in {"open", "sending", "leaving"} /\ link[c] = "up"
  /\ link' = [link EXCEPT ![c] = "dead"]
  /\ UNCHANGED <<at, token, slot, queue, writer, heard, said, target, active, total>>

ReadError(c) ==
  /\ at[c] = "open" /\ link[c] = "dead"
  /\ at' = [at EXCEPT ![c] = "broken"]
  /\ UNCHANGED <<link, token, slot, queue, writer, heard, said, target, active, total>>

Step(c) ==
  \/ Register(c) \/ Read(c) \/ Forward(c) \/ Write(c)
  \/ Leave(c) \/ Unregister(c) \/ Drop(c) \/ ReadError(c)

Next == \E c \in Conns : Step(c)

(* The peer was sent a Close. *)
Closed(c) == \E i \in DOMAIN heard[c] : heard[c][i] = Close

(* Tasks and writers run, a peer that was sent a Close answers it, and a    *)
(* dead socket is noticed.                                                  *)
Fairness ==
  \A c \in Conns :
    /\ WF_vars(Forward(c)) /\ WF_vars(Write(c)) /\ WF_vars(Unregister(c))
    /\ WF_vars(ReadError(c)) /\ WF_vars(Closed(c) /\ Leave(c))

Spec == Init /\ [][Next]_vars /\ Fairness

-----------------------------------------------------------------------------
(* Properties. *)

(* The state is of the declared shape, a message has a target while it is   *)
(* forwarded, and nobody who has not registered is known.                   *)
TypeOK ==
  /\ at \in [Conns -> Places] /\ link \in [Conns -> {"up", "dead"}]
  /\ token \in [Rooms -> Tokens \cup {None}]
  /\ slot \in [Rooms -> [Roles -> Conns \cup {None}]]
  /\ queue \in [Conns -> Seq(Messages)] /\ heard \in [Conns -> Seq(Messages)]
  /\ writer \in [Conns -> {"on", "closed", "off"}]
  /\ said \in [Conns -> Nat] /\ target \in [Conns -> Conns \cup {None}]
  /\ active \in Nat /\ total \in Nat

Known == {"open", "sending", "leaving", "broken"}
Present == {"open", "sending", "leaving"}

Counted == {c \in Conns : at[c] \in Known \cup {"refused"}}
Arrived == {c \in Conns : at[c] # "away"}

(* What the status page calls active connections is the number of peers     *)
(* whose task runs, with those that were refused or whose read failed: it   *)
(* is never too small, and never runs below zero.                           *)
ConnectionsAreCounted == active = Cardinality(Counted) /\ total = Cardinality(Arrived)

(* Who holds a place in a room registered there with the room's token and   *)
(* has not unregistered; and a room stands as long as somebody has a place. *)
PlacesAreTaken ==
  /\ \A r \in Rooms, role \in Roles :
       slot[r][role] # None =>
         /\ at[slot[r][role]] \in Known
         /\ RoomOf[slot[r][role]] = r /\ RoleOf[slot[r][role]] = role
         /\ token[r] = TokenOf[slot[r][role]]
  /\ \A r \in Rooms : token[r] = None <=> \A role \in Roles : slot[r][role] = None

(* A Close is on its way to the peer, or was sent; or its writer ended. *)
ToldToClose(c) ==
  writer[c] # "on" \/ \E i \in DOMAIN queue[c] : queue[c][i] = Close

(* A peer whom nobody replaced keeps its place in the room, whatever order  *)
(* older and newer connections of the same role leave in.                   *)
UnreplacedKeepsItsPlace ==
  \A c \in Conns : at[c] \in Present /\ ~ToldToClose(c) => Slot(c) = c

(* A peer hears first that it is registered, nothing after the Close, and   *)
(* from each sender a stretch of what it said without gap or repetition,    *)
(* though the other side is looked up before and used after the mutex.      *)
HeardInOrder ==
  \A c \in Conns : \A i \in DOMAIN heard[c] :
    /\ i = 1 <=> heard[c][i] = Registered
    /\ heard[c][i] = Close => i = Len(heard[c])
    /\ \A s \in Conns : LET from == {j \in 1..i : heard[c][j] \in {s} \X Nat}
       IN i \in from /\ from # {i} =>
            heard[c][i][2] = 1 + heard[c][CHOOSE j \in from \ {i} :
                                            \A k \in from \ {i} : k <= j][2]

(* A peer that lost its place to a newer one is gone in the end. *)
ReplacedLeaves ==
  \A c \in Conns : at[c] \in Present /\ Slot(c) # c ~> at[c] \notin Present

(* The inductive invariant of the rooms. *)
IInv == TypeOK /\ ConnectionsAreCounted /\ PlacesAreTaken /\ UnreplacedKeepsItsPlace

(* Why HeardInOrder holds: what the peer was sent and what waits in its     *)
(* channel are one stream.  What s said is there without gap, and ends with *)
(* the last message as long as s can still reach the peer, which, once lost *)
(* from its place, never comes back to it.                                  *)
Stream(c) == heard[c] \o queue[c]
From(t, s) == {i \in DOMAIN t : t[i] \in {s} \X Nat}
Unbroken(t, s) ==
  \A i, j \in From(t, s) :
    i < j /\ (\A k \in From(t, s) : k <= i \/ j <= k) => t[j][2] = t[i][2] + 1
EndsAt(t, s, n) ==
  \A i \in From(t, s) : (\A k \in From(t, s) : k <= i) => t[i][2] = n

Unheard == {"away", "refused"}
Sending(s, c) == at[s] = "sending" /\ target[s] = c
Reaches(s, c) == slot[RoomOf[s]][Other(RoleOf[s])] = c

StreamOK(c) ==
  /\ writer[c] = "off" => queue[c] = <<>>
  /\ at[c] \in Unheard => heard[c] = <<>> /\ queue[c] = <<>>
  /\ at[c] \notin Unheard /\ writer[c] # "off" => Stream(c) # <<>>
  /\ \A i \in DOMAIN Stream(c) : i = 1 <=> Stream(c)[i] = Registered
  /\ \A i \in DOMAIN heard[c] : heard[c][i] = Close => i = Len(heard[c]) /\ writer[c] # "on"
  /\ \A s \in Conns : Unbroken(Stream(c), s)

SenderOK(s, c) ==
  /\ Sending(s, c) => at[c] \notin Unheard
  /\ writer[c] # "off" =>
       /\ Sending(s, c) => EndsAt(Stream(c), s, said[s] - 1)
       /\ Reaches(s, c) /\ ~Sending(s, c) => EndsAt(Stream(c), s, said[s])

StreamInv == IInv /\ \A c \in Conns : StreamOK(c) /\ \A s \in Conns : SenderOK(s, c)
=============================================================================
