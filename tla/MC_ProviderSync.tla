-------------------------- MODULE MC_ProviderSync --------------------------
(* A Codex home with two sessions, one of them used with two providers and  *)
(* one of no project; their rows are in two databases.                      *)
EXTENDS ProviderSync, TLC

CONSTANTS openai, relay, f1, f2, legacy, current

Row1 == [provider |-> openai, seen |-> FALSE, own |-> FALSE]
Row2 == [provider |-> relay, seen |-> FALSE, own |-> FALSE]

MCHomes ==
  {[roll  |-> (f1 :> [meta |-> {openai}, events |-> 0]) @@ (f2 :> [meta |-> {openai, relay}, events |-> 1]),
    db    |-> (legacy :> ((f1 :> Row1) @@ (f2 :> None))) @@ (current :> ((f1 :> None) @@ (f2 :> Row2))),
    state |-> [raw |-> TRUE, broken |-> FALSE, projectless |-> {f1}]]}
============================================================================
