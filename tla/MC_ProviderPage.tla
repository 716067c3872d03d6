-------------------------- MODULE MC_ProviderPage --------------------------
(* The provider page on a document of two profiles. *)
EXTENDS ProviderPage

MCOrder == <<"p", "q">>
MCReferenced == {"q"}
OneEdit  == <<"e1">>
LaneUses == {"edit", "delete", "select", "save", "extract", "mutate", "leave"}
PageUses == {"edit", "save", "discard", "reload", "mutate", "live", "test", "stay", "side"}
=============================================================================
