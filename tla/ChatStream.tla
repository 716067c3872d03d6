----------------------------- MODULE ChatStream -----------------------------
(***************************************************************************)
(* The protocol proxy answering a Responses request from a chat-completions*)
(* upstream: blocks of the upstream's event stream arrive in pieces of any *)
(* size, the converter of protocol_proxy.rs turns each into response       *)
(* events, and the loop of launcher.rs writes them to the client.          *)
(*                                                                         *)
(* Text is a sequence of atoms: the two halves of each think tag, a blank  *)
(* and words, so that a tag may be cut anywhere between two deltas.        *)
(***************************************************************************)
EXTENDS Naturals, Sequences, SequencesExt

CONSTANTS
  ContentDeltas,  \* the content a chunk may carry, non-empty sequences of atoms
  ReasoningDelta, \* the text of the reasoning field a chunk may carry
  ToolDeltas,     \* the tool-call deltas a chunk may carry
  ToolIndexes,    \* the indexes of tool calls, in increasing order
  CustomTools,    \* the names of the tools the request declared as custom tools
  BreaksAfterEnd, \* whether the connection may break after "[DONE]" or an error
  MaxBlocks,      \* bound: blocks the upstream sends
  MaxPending      \* bound: blocks sent and not handled yet

ThinkOpen == "<think"   \* with TagEnd, the tag opening a think block
ThinkClose == "</think"
TagEnd == ">"
Blank == " "

NoName == ""
NoCall == <<>>
Absent == <<"absent">> \* the id of a delta without one; an empty id is NoCall

ASSUME StreamAssumption ==
  /\ BreaksAfterEnd \in BOOLEAN
  /\ MaxBlocks \in Nat /\ MaxPending \in Nat
  /\ <<>> \notin ContentDeltas /\ ReasoningDelta # <<>>
  /\ ReasoningDelta \in Seq(Range(ReasoningDelta))
  /\ \A piece \in ContentDeltas : piece \in Seq(Range(piece))
  /\ ToolIndexes \in Seq(Range(ToolIndexes))
  /\ Range(ToolIndexes) \cap {"reasoning", "text"} = {}
  /\ \A d \in ToolDeltas :
       d.index \in Range(ToolIndexes) /\ d.arguments \in Seq(Range(d.arguments))
  /\ NoName \notin CustomTools

VARIABLES
  upstream, \* the upstream's connection: "open", "ended" or "broken"
  sent,     \* the blocks it has sent
  wire,     \* those the proxy has not read
  loop,     \* the proxy's loop: "reading", "handling" a piece, or "ended"
  buffer,   \* blocks read and not handled (buffer)
  conv      \* the converter (ChatSseToResponsesConverter) and what it has written

vars == <<upstream, sent, wire, loop, buffer, conv>>

\* What the client reads, as the Responses API has it.
RS == INSTANCE ResponsesStream WITH log <- conv.out

-----------------------------------------------------------------------------
(* Blocks of the upstream's stream.                                        *)

Content(piece) == [type |-> "content", piece |-> piece]
Reasoning == [type |-> "reasoning"]
Tool(delta) == [type |-> "tool", delta |-> delta]
Finish(reason) == [type |-> "finish", reason |-> reason]
CutShort == Finish("length") \* any other reason is told like none
Error == [type |-> "error"]
DoneBlock == [type |-> "[DONE]"]

Blocks ==
  {Content(piece) : piece \in ContentDeltas} \cup {Tool(d) : d \in ToolDeltas}
    \cup {CutShort, Reasoning, Error, DoneBlock}

HasSent(type) == \E n \in DOMAIN sent : sent[n].type = type

-----------------------------------------------------------------------------
(* Think blocks in a text.                                                 *)

TrimLeft(text) ==
  LET inked == {n \in DOMAIN text : text[n] # Blank}
  IN  IF inked = {} THEN <<>>
      ELSE SubSeq(text, CHOOSE n \in inked : \A m \in inked : n <= m, Len(text))

Trim(text) == Reverse(TrimLeft(Reverse(TrimLeft(text))))

OpenTag == <<ThinkOpen, TagEnd>>
CloseTag == <<ThinkClose, TagEnd>>

(* Mutant: the first atoms decide, though they may begin a tag. *)
DecisionAtOnce(text) ==
  IF TrimLeft(text) = <<>> THEN "need_more"
  ELSE IF IsPrefix(OpenTag, TrimLeft(text)) THEN "reasoning"
  ELSE "text"

\* leading_think_prefix_decision
Decision(text) ==
  IF IsPrefix(OpenTag, TrimLeft(text)) THEN "reasoning"
  ELSE IF IsPrefix(TrimLeft(text), OpenTag) THEN "need_more"
  ELSE "text"

ClosesAt(body) ==
  {n \in 3 .. Len(body) - 1 : SubSeq(body, n, n + 1) = CloseTag}

\* split_leading_think_block, when it finds a block.
HasThinkBlock(text) ==
  IsPrefix(OpenTag, TrimLeft(text)) /\ ClosesAt(TrimLeft(text)) # {}

SplitThink(text) ==
  LET body == TrimLeft(text)
      close == CHOOSE n \in ClosesAt(body) : \A m \in ClosesAt(body) : n <= m
  IN  [reasoning |-> Trim(SubSeq(body, 3, close - 1)),
       answer |-> TrimLeft(SubSeq(body, close + 2, Len(body)))]

\* strip_leading_think_open_tag, or the text itself.
WithoutOpenTag(text) ==
  IF IsPrefix(OpenTag, TrimLeft(text))
  THEN Trim(SubSeq(TrimLeft(text), 3, Len(TrimLeft(text)))) ELSE text

-----------------------------------------------------------------------------
(* The converter. An operator on it takes the converter c and returns it   *)
(* as the Rust method leaves it; c.out is everything written so far.       *)

Keys == {"reasoning", "text"} \cup Range(ToolIndexes)

\* An item of the answer: `known` when a tool's delta has named its index,
\* `index` its place in the output, 0 until it is added.
NewItem == [known |-> FALSE, index |-> 0, done |-> FALSE, text |-> <<>>,
            call |-> NoCall, name |-> NoName, id |-> <<>>]

NewConverter ==
  [started |-> FALSE, completed |-> FALSE, failed |-> FALSE, nextIndex |-> 1,
   items |-> [k \in Keys |-> NewItem], mode |-> "detecting", think |-> <<>>,
   outputItems |-> {}, finishReason |-> NoName, out |-> <<>>]

Write(c, event) == [c EXCEPT !.out = Append(@, event)]

\* completed_output_items, which sorts them
CompletedItems(c) == RS!ByIndex(c.outputItems)

EnsureStarted(c) ==
  IF c.started THEN c ELSE Write([c EXCEPT !.started = TRUE], [type |-> "created"])

\* Takes the next output index for item k and announces it.
AddItem(c, k, kind, id) ==
  Write([c EXCEPT !.items[k].index = c.nextIndex, !.items[k].id = id,
                  !.nextIndex = @ + 1],
        [type |-> "added", index |-> c.nextIndex, kind |-> kind, id |-> id])

WriteDelta(c, index, id, piece) ==
  Write(c, [type |-> "delta", index |-> index, id |-> id, piece |-> piece])

WriteDone(c, k, kind, id, content) ==
  LET index == c.items[k].index
  IN  Write([c EXCEPT !.items[k].done = TRUE,
                      !.outputItems = @ \cup {[index |-> index, content |-> content]}],
            [type |-> "done", index |-> index, kind |-> kind, id |-> id,
             content |-> content])

\* push_reasoning_delta_into and push_text_delta_into
PushDelta(c, k, kind, piece) ==
  LET a == IF c.items[k].index = 0 THEN AddItem(c, k, kind, <<kind>>) ELSE c
      b == [a EXCEPT !.items[k].text = @ \o piece]
  IN  WriteDelta(b, b.items[k].index, b.items[k].id, piece)

(* Mutant: an item that is done is finished again. *)
FinalizeAgain(c, k, kind) ==
  IF c.items[k].index = 0 THEN c
  ELSE WriteDone(c, k, kind, c.items[k].id, c.items[k].text)

\* finalize_reasoning_into and finalize_text_into
FinalizeItem(c, k, kind) ==
  LET item == c.items[k]
  IN  IF item.index = 0 \/ item.done THEN c
      ELSE WriteDone(c, k, kind, item.id, item.text)

PushReasoning(c, piece) == PushDelta(c, "reasoning", "reasoning", piece)
FinalizeReasoning(c) == FinalizeItem(c, "reasoning", "reasoning")
PushText(c, piece) == PushDelta(c, "text", "message", piece)
FinalizeText(c) == FinalizeItem(c, "text", "message")

\* The reasoning and the answer of a think block, each unless it is empty.
PushSplit(c, split) ==
  LET a == IF split.reasoning = <<>> THEN c
           ELSE FinalizeReasoning(PushReasoning(c, split.reasoning))
  IN  IF split.answer = <<>> THEN a ELSE PushText(a, split.answer)

\* drain_complete_inline_think_into
DrainThink(c) ==
  IF HasThinkBlock(c.think)
  THEN PushSplit([c EXCEPT !.mode = "text", !.think = <<>>], SplitThink(c.think))
  ELSE c

\* push_content_delta_into
PushContent(c, piece) ==
  LET more == [c EXCEPT !.think = @ \o piece]
  IN  CASE c.mode = "text" -> PushText(FinalizeReasoning(c), piece)
        [] c.mode = "reasoning" -> DrainThink(more)
        [] c.mode = "detecting" ->
             CASE Decision(more.think) = "need_more" -> more
               [] Decision(more.think) = "reasoning" ->
                    DrainThink([more EXCEPT !.mode = "reasoning"])
               [] Decision(more.think) = "text" ->
                    PushText(FinalizeReasoning([more EXCEPT !.mode = "text", !.think = <<>>]),
                             more.think)

\* flush_inline_think_at_boundary_into
FlushThink(c) ==
  LET flushed == [c EXCEPT !.mode = "text", !.think = <<>>]
  IN  CASE c.mode = "text" -> c
        [] c.mode = "detecting" ->
             IF c.think = <<>> THEN flushed
             ELSE PushText(FinalizeReasoning(flushed), c.think)
        [] c.mode = "reasoning" ->
             PushSplit(flushed,
                       IF HasThinkBlock(c.think) THEN SplitThink(c.think)
                       ELSE [reasoning |-> WithoutOpenTag(c.think), answer |-> <<>>])

-----------------------------------------------------------------------------
(* Tool calls.                                                             *)

IsCustom(name) == name \in CustomTools

ToolKind(name) == IF IsCustom(name) THEN "custom_tool_call" ELSE "function_call"

\* The id of a tool call's item, as its added and done events name it.
ToolId(name, call) == <<ToolKind(name)>> \o call

\* call_{index}, the id of a call the upstream gave none.
DefaultCall(k) == <<"call", k>>

\* A custom tool's input, rebuilt from all its arguments at once.
ToolContent(name, arguments) ==
  IF IsCustom(name) THEN <<"input">> \o arguments ELSE arguments

\* The part of push_tool_call_delta_into and finalize_tools_into that fills in
\* what the upstream left out and announces the call.
AddTool(c, k) ==
  LET call == IF c.items[k].call = NoCall THEN DefaultCall(k) ELSE c.items[k].call
      name == IF c.items[k].name = NoName THEN "unknown_tool" ELSE c.items[k].name
      added == AddItem([c EXCEPT !.items[k].call = call, !.items[k].name = name],
                       k, ToolKind(name), ToolId(name, call))
  IN  [added EXCEPT !.items[k].id = <<"function_call">> \o call]

\* push_tool_call_delta_sse: the input of a custom tool is not streamed.
WriteArguments(c, k, arguments) ==
  IF arguments = <<>> \/ IsCustom(c.items[k].name) THEN c
  ELSE WriteDelta(c, c.items[k].index, c.items[k].id, arguments)

\* push_tool_call_delta_into
PushTool(c, delta) ==
  LET k == delta.index
      a == [c EXCEPT
             !.items[k].known = TRUE,
             !.items[k].call = IF delta.id = Absent THEN @ ELSE delta.id,
             !.items[k].name = IF delta.name = NoName THEN @ ELSE delta.name,
             !.items[k].text = @ \o delta.arguments]
      item == a.items[k]
      identified == item.call # NoCall \/ item.name # NoName
  IN  IF item.index # 0 THEN WriteArguments(a, k, delta.arguments)
      ELSE IF identified THEN WriteArguments(AddTool(a, k), k, item.text)
      ELSE a

\* One iteration of finalize_tools_into: the last delta of a custom tool carries
\* its whole input, and the done item is made from the name and id known now.
FinalizeTool(c, k) ==
  IF ~ c.items[k].known \/ c.items[k].done THEN c
  ELSE LET a == IF c.items[k].index = 0 THEN AddTool(c, k) ELSE c
           item == a.items[k]
           id == ToolId(item.name, item.call)
           content == ToolContent(item.name, item.text)
           b == IF IsCustom(item.name)
                THEN WriteDelta(a, item.index, id, content) ELSE a
       IN  WriteDone(b, k, ToolKind(item.name), id, content)

\* finalize_tools_into
FinalizeTools(c) ==
  LET upTo[n \in 0 .. Len(ToolIndexes)] ==
        IF n = 0 THEN c ELSE FinalizeTool(upTo[n - 1], ToolIndexes[n])
  IN  upTo[Len(ToolIndexes)]

-----------------------------------------------------------------------------
(* The end of a response.                                                  *)

ResponseStatus(reason) == IF reason = "length" THEN "incomplete" ELSE "completed"

\* finalize_into
Finalize(c) ==
  IF c.completed THEN c
  ELSE LET all == FinalizeTools(FinalizeText(FinalizeReasoning(FlushThink(EnsureStarted(c)))))
       IN  Write([all EXCEPT !.completed = TRUE],
                 [type |-> "completed", status |-> ResponseStatus(all.finishReason),
                  output |-> CompletedItems(all)])

(* Mutant: a failure does not complete the response. *)
FailedUncompleted(c) ==
  Write([c EXCEPT !.failed = TRUE], [type |-> "failed", output |-> CompletedItems(c)])

\* failed_into, and the flag its two callers set.
FailedInto(c) ==
  Write([c EXCEPT !.completed = TRUE, !.failed = TRUE],
        [type |-> "failed", output |-> CompletedItems(c)])

\* handle_block and handle_chat_chunk_into
HandleBlock(c, block) ==
  LET chunk == EnsureStarted(c)
  IN  CASE block.type = "[DONE]" -> Finalize(c)
        [] block.type = "error" -> FailedInto(c)
        [] block.type = "reasoning" -> PushReasoning(chunk, ReasoningDelta)
        [] block.type = "content" -> PushContent(chunk, block.piece)
        [] block.type = "tool" ->
             PushTool(FinalizeReasoning(FlushThink(chunk)), block.delta)
        [] block.type = "finish" -> [chunk EXCEPT !.finishReason = block.reason]

-----------------------------------------------------------------------------
(* The upstream, external: it sends the blocks of one answer. What the     *)
(* converter relies on and does not check is stated here.                  *)

Identified(d) == d.id # Absent \/ d.name # NoName

InOrder(block) ==
  \* nothing follows the end of the answer, nothing else an error, and the finish
  \* reason is the last the answer says
  /\ ~ HasSent("[DONE]")
  /\ HasSent("error") => block.type = "[DONE]"
  /\ HasSent("finish") => block.type \in {"error", "[DONE]"}
  \* the model has finished thinking when it answers
  /\ block.type = "reasoning" => ~ HasSent("content") /\ ~ HasSent("tool")
  \* the id and the name of a tool call come together and once
  /\ block.type = "tool" /\ Identified(block.delta) =>
       \A n \in DOMAIN sent :
         ~ (/\ sent[n].type = "tool"
            /\ sent[n].delta.index = block.delta.index
            /\ Identified(sent[n].delta))

UpstreamSends(block) ==
  /\ upstream = "open" /\ Len(sent) < MaxBlocks /\ Len(wire \o buffer) < MaxPending
  /\ InOrder(block)
  /\ sent' = Append(sent, block)
  /\ wire' = Append(wire, block)
  /\ UNCHANGED <<upstream, loop, buffer, conv>>

\* The body ends, whether or not "[DONE]" came or its block was terminated: an
\* unterminated last block stays in the converter's buffer and is never handled.
UpstreamEnds ==
  /\ upstream = "open"
  /\ upstream' = "ended"
  /\ UNCHANGED <<sent, wire, loop, buffer, conv>>

UpstreamBreaks ==
  /\ upstream = "open"
  /\ HasSent("[DONE]") \/ HasSent("error") => BreaksAfterEnd
  /\ upstream' = "broken"
  /\ UNCHANGED <<sent, wire, loop, buffer, conv>>

-----------------------------------------------------------------------------
(* The loop of handle_protocol_proxy_connection.                           *)

\* The next piece of the body holds some of the blocks that are on their way.
ReadPiece ==
  /\ loop = "reading" /\ wire # <<>>
  /\ \E n \in 1 .. Len(wire) :
       /\ buffer' = buffer \o SubSeq(wire, 1, n)
       /\ wire' = SubSeq(wire, n + 1, Len(wire))
  /\ loop' = "handling"
  /\ UNCHANGED <<upstream, sent, conv>>

\* One iteration of push_bytes; blocks after a failure stay in the buffer.
PushBytes ==
  /\ loop = "handling"
  /\ conv' = HandleBlock(conv, Head(buffer))
  /\ buffer' = Tail(buffer)
  /\ loop' = IF conv'.failed \/ buffer' = <<>> THEN "reading" ELSE "handling"
  /\ UNCHANGED <<upstream, sent, wire>>

(* Mutant: only "[DONE]" ends the response. *)
FinishSilently ==
  /\ loop = "reading" /\ wire = <<>> /\ upstream = "ended"
  /\ loop' = "ended"
  /\ UNCHANGED <<upstream, sent, wire, buffer, conv>>

\* finish: what is left in the buffer is not handled.
FinishStream ==
  /\ loop = "reading" /\ wire = <<>> /\ upstream = "ended"
  /\ conv' = IF conv.failed THEN conv ELSE Finalize(conv)
  /\ loop' = "ended"
  /\ UNCHANGED <<upstream, sent, wire, buffer>>

\* fail, called with the stream's error whatever was written before.
FailStream ==
  /\ loop = "reading" /\ wire = <<>> /\ upstream = "broken"
  /\ conv' = FailedInto(conv)
  /\ loop' = "ended"
  /\ UNCHANGED <<upstream, sent, wire, buffer>>

Init ==
  /\ upstream = "open" /\ sent = <<>> /\ wire = <<>>
  /\ loop = "reading" /\ buffer = <<>>
  /\ conv = NewConverter

Ended == loop = "ended" /\ UNCHANGED vars

Next ==
  \/ \E block \in Blocks : UpstreamSends(block)
  \/ UpstreamEnds
  \/ UpstreamBreaks
  \/ ReadPiece
  \/ PushBytes
  \/ FinishStream
  \/ FailStream
  \/ Ended

Proxy == ReadPiece \/ PushBytes \/ FinishStream \/ FailStream

\* ENABLED <<Proxy>>_vars
CanRun ==
  \/ loop = "handling"
  \/ loop = "reading" /\ (wire # <<>> \/ upstream # "open")

\* The proxy's task is scheduled as long as it can run, WF_vars(Proxy) with its
\* ENABLED written out; the upstream may stay silent for ever.
Fairness == []<>(~ CanRun) \/ []<><<Proxy>>_vars

Spec == Init /\ [][Next]_vars /\ Fairness

-----------------------------------------------------------------------------
(* The same answer converted whole, as chat_completion_to_response does for *)
(* an upstream that does not stream.                                       *)

ContentOf(blocks) ==
  FlattenSeq([n \in DOMAIN blocks |->
                IF blocks[n].type = "content" THEN blocks[n].piece ELSE <<>>])

ReasoningOf(blocks) ==
  FlattenSeq([n \in DOMAIN blocks |->
                IF blocks[n].type = "reasoning" THEN ReasoningDelta ELSE <<>>])

ArgumentsOf(blocks, k) ==
  FlattenSeq([n \in DOMAIN blocks |->
                IF blocks[n].type = "tool" /\ blocks[n].delta.index = k
                THEN blocks[n].delta.arguments ELSE <<>>])

\* chat_reasoning_text
WholeReasoning(blocks) ==
  IF ReasoningOf(blocks) # <<>> THEN ReasoningOf(blocks)
  ELSE IF HasThinkBlock(ContentOf(blocks)) THEN SplitThink(ContentOf(blocks)).reasoning
  ELSE <<>>

\* The text of chat_message_to_response_output_item.
WholeText(blocks) ==
  IF HasThinkBlock(ContentOf(blocks)) THEN SplitThink(ContentOf(blocks)).answer
  ELSE ContentOf(blocks)

CallId(d) == IF d.id \in {Absent, NoCall} THEN DefaultCall(d.index) ELSE d.id

\* chat_tool_call_to_response_item, for a call that the delta d named.
WholeCall(blocks, d) ==
  [kind |-> ToolKind(d.name), id |-> ToolId(d.name, CallId(d)),
   content |-> ToolContent(d.name, ArgumentsOf(blocks, d.index))]

\* The deltas that name a call.
Naming(blocks) ==
  {n \in DOMAIN blocks : blocks[n].type = "tool" /\ blocks[n].delta.name # NoName}

WholeCalls(blocks) == {WholeCall(blocks, blocks[n].delta) : n \in Naming(blocks)}

-----------------------------------------------------------------------------
(* Properties.                                                             *)

Written(type) == {event \in Range(conv.out) : event.type = type}

TypeOK ==
  /\ upstream \in {"open", "ended", "broken"}
  /\ loop \in {"reading", "handling", "ended"}
  /\ Range(sent) \subseteq Blocks /\ Range(wire \o buffer) \subseteq Range(sent)
  /\ loop = "handling" => buffer # <<>>
  /\ conv.mode \in {"detecting", "reasoning", "text"}
  /\ conv.mode = "text" => conv.think = <<>>
  /\ \A k \in Keys : conv.items[k].index \in 0 .. conv.nextIndex - 1

\* Whatever the pieces the upstream's blocks arrive in, the client reads a
\* stream that follows the Responses protocol: items are announced once, deltas
\* belong to an open item, an item's content is what its deltas made, and
\* nothing follows the event that ends the response.
ResponsesProtocol == RS!Spec

\* The items of one kind the client has whole.
Items(kinds) ==
  {[kind |-> e.kind, id |-> e.id, content |-> e.content] :
     e \in {d \in Written("done") : d.kind \in kinds}}

Item(kind, content) ==
  IF content = <<>> THEN {} ELSE {[kind |-> kind, id |-> <<kind>>, content |-> content]}

\* The content before the first tool call.
Uninterrupted(blocks) ==
  FlattenSeq([n \in DOMAIN blocks |->
                IF blocks[n].type = "content" /\ \A m \in 1 .. n : blocks[m].type # "tool"
                THEN blocks[n].piece ELSE <<>>])

\* The client of a completed stream has the answer that converting the whole
\* message would have given it: the converter decides piece by piece what is
\* reasoning, what is answer and which call an argument belongs to. Where they
\* differ is stated: after a think block the streamed answer may keep blanks,
\* and the property leaves out thinking that is given in both ways and a think
\* block that never ends or that a tool call interrupts.
StreamedAsWhole ==
  LET thinks == IsPrefix(OpenTag, TrimLeft(ContentOf(sent)))
      thought == Item("reasoning", WholeReasoning(sent))
      whole == Item("message", WholeText(sent))
      answer == Items({"message"})
  IN  Written("completed") # {} =>
        /\ \A e \in Written("completed") :
             e.status = IF CutShort \in Range(sent) THEN "incomplete" ELSE "completed"
        /\ ~ thinks => Items({"reasoning"}) = thought /\ answer = whole
        /\ thinks /\ ReasoningOf(sent) = <<>> /\ HasThinkBlock(Uninterrupted(sent)) =>
             /\ Items({"reasoning"}) = thought
             /\ UNION {Item("message", TrimLeft(item.content)) : item \in answer} = whole
        /\ WholeCalls(sent) \subseteq Items({"custom_tool_call", "function_call"})

\* An answer that failed, by an error the upstream reported or by a connection
\* that broke, is never told to the client as completed.
FailureIsTold ==
  HasSent("error") \/ upstream = "broken" => Written("completed") = {}

Inv == TypeOK /\ FailureIsTold

\* Once the upstream's stream is over, the client is told how the response ended.
ResponseEnds ==
  (upstream # "open") ~> (Written("completed") \cup Written("failed") # {})
=============================================================================
