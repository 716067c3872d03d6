------------------------- MODULE MC_RelayRotation -------------------------
(* Instances of RelayRotation for TLC. *)
EXTENDS RelayRotation, TLC

CONSTANTS first, second, third

Of(strategy, members) == [id |-> strategy, strategy |-> strategy, members |-> members]

Two == <<[relay |-> first, weight |-> 1], [relay |-> second, weight |-> 1]>>
Three == Append(Two, [relay |-> third, weight |-> 1])
Weighted == <<[relay |-> first, weight |-> 2], [relay |-> second, weight |-> 0], [relay |-> third, weight |-> 3]>>

(* The same aggregate before and after the user removes a member. *)
Failover == {Of("failover", Two), Of("failover", Three)}
FailoverThree == {Of("failover", Three)}
ByConversation == {Of("conversationRoundRobin", Two)}
Rotations == {Of("requestRoundRobin", Two), Of("weightedRoundRobin", Weighted)}
AllStrategies == Failover \cup ByConversation \cup Rotations

All == {first, second, third}

(* Within a strategy the user may edit the members of the aggregate, empty   *)
(* the endpoint of a relay, or turn to one relay alone, and back.           *)
AllSettings ==
  [active : AllStrategies \cup {second}, capable : {All}]
    \cup {[active |-> Of("weightedRoundRobin", Weighted), capable |-> All \ {third}]}
AggregateSettings == [active : Aggregates, capable : {Relays}]

Strategy(s) ==
  IF s.active \in Aggregates THEN s.active.strategy ELSE "conversationRoundRobin"

(* Within a behaviour the user stays with one strategy: another one starts   *)
(* with a new selector, as a changed aggregate does.                        *)
OneStrategy == Strategy(settings') = Strategy(settings)

(* Only conversations need more than one answer to show what they do. *)
TurnsBound ==
  Strategy(settings) # "conversationRoundRobin" => \A c \in Conversations : turn[c] <= 1

Everybody == Permutations(Requests) \cup Permutations(Conversations)
===========================================================================
