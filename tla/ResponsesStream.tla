--------------------------- MODULE ResponsesStream ---------------------------
(***************************************************************************)
(* What the Responses API promises of a stream of events, as the client of *)
(* the protocol proxy relies on it: the stream is a log that grows by legal*)
(* events, and an event is legal or not after the ones before it.          *)
(*                                                                         *)
(* An event names the item it is about by `index` (its place in the output,*)
(* from 1) and by `id`; `piece` is the text of a delta.                    *)
(***************************************************************************)
EXTENDS Naturals, Sequences, SequencesExt

VARIABLE log

Events(history, type) == {n \in DOMAIN history : history[n].type = type}

Terminal == {"completed", "failed"}

Over(history) == \E n \in DOMAIN history : history[n].type \in Terminal

Added(history) == {history[n].index : n \in Events(history, "added")}

Done(history) == {history[n].index : n \in Events(history, "done")}

\* The event that announced item i, for i in Added(history).
Announcement(history, i) ==
  history[CHOOSE n \in Events(history, "added") : history[n].index = i]

\* What the deltas of item i make together.
Assembled(history, i) ==
  LET made[n \in 0 .. Len(history)] ==
        IF n = 0 THEN <<>>
        ELSE IF history[n].type = "delta" /\ history[n].index = i
        THEN made[n - 1] \o history[n].piece
        ELSE made[n - 1]
  IN  made[Len(history)]

\* An item that was announced under this identity and is not done yet.
IsOpen(history, e) ==
  /\ e.index \in Added(history) \ Done(history)
  /\ Announcement(history, e.index).id = e.id

\* The contents of items in the order of their indexes.
ByIndex(items) ==
  LET sorted == SetToSortSeq(items, LAMBDA a, b : a.index < b.index)
  IN  [n \in DOMAIN sorted |-> sorted[n].content]

Output(history) ==
  ByIndex({[index |-> history[n].index, content |-> history[n].content] :
             n \in Events(history, "done")})

\* An item's content is what its deltas made, or comes whole with its end.
Legal(history, e) ==
  /\ ~ Over(history)
  /\ \/ e.type = "created" /\ history = <<>>
     \/ e.type = "failed" /\ e.output = Output(history)
     \/ /\ history # <<>>
        /\ \/ /\ e.type = "added"
              /\ e.index \notin Added(history)
              /\ \A i \in Added(history) : i < e.index
           \/ e.type = "delta" /\ IsOpen(history, e) /\ e.piece # <<>>
           \/ /\ e.type = "done"
              /\ IsOpen(history, e)
              /\ e.kind = Announcement(history, e.index).kind
              /\ Assembled(history, e.index) \in {<<>>, e.content}
           \/ /\ e.type = "completed"
              /\ Added(history) = Done(history)
              /\ e.output = Output(history)

LegalGrowth ==
  /\ IsPrefix(log, log')
  /\ \A n \in Len(log) + 1 .. Len(log') : Legal(SubSeq(log', 1, n - 1), log'[n])

Init == log = <<>>

Spec == Init /\ [][LegalGrowth]_log
=============================================================================
