----------------------- MODULE MC_ProviderActivation -----------------------
(* Instances of ProviderActivation for TLC. *)
EXTENDS ProviderActivation, TLC

CONSTANTS api, relay, own

(* The official login, a pure API provider, and API providers of the other   *)
(* two kinds.                                                               *)
ModesAO == (api :> "pure") @@ (own :> "official")
ModesAB == (api :> "pure") @@ (relay :> "mixed")
ModesAG == (api :> "pure") @@ (relay :> "aggregate")
ModesABO == (api :> "pure") @@ (relay :> "mixed") @@ (own :> "official")
============================================================================
