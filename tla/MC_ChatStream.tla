---------------------------- MODULE MC_ChatStream ----------------------------
(***************************************************************************)
(* Small answers for TLC: content that spells a think block cut inside both*)
(* of its tags, a function call in several deltas, and a custom tool's call*)
(* that gets no id.                                                        *)
(***************************************************************************)
EXTENDS ChatStream

MCContent ==
  {<<Blank, ThinkOpen>>, <<TagEnd, "thought", ThinkClose>>, <<TagEnd, Blank>>, <<"word">>}

MCReasoning == <<"thought">>

MCToolIndexes == <<"0", "1">>

MCToolDeltas ==
  {[index |-> "0", id |-> <<"c">>, name |-> "exec", arguments |-> <<>>],
   [index |-> "0", id |-> Absent, name |-> NoName, arguments |-> <<"a">>],
   [index |-> "1", id |-> Absent, name |-> "patch", arguments |-> <<"b">>]}
=============================================================================
