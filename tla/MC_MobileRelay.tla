--------------------------- MODULE MC_MobileRelay ---------------------------
(* Two hosts and two clients of one room; one of the hosts registers with   *)
(* a token of its own.                                                      *)
EXTENDS MobileRelay, TLC

CONSTANTS h1, h2, c1, c2, room, key, otherKey

MCRole  == (h1 :> "host") @@ (h2 :> "host") @@ (c1 :> "client") @@ (c2 :> "client")
MCRoom  == [c \in Conns |-> room]
MCSays  == (h1 :> 2) @@ (h2 :> 0) @@ (c1 :> 0) @@ (c2 :> 0)
MCToken == [c \in Conns |-> IF c = h2 THEN otherKey ELSE key]
=============================================================================
