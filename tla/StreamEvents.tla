---------------------------- MODULE StreamEvents ----------------------------
(***************************************************************************)
(* Provider events: the classification of errors, the three wire protocols *)
(* (OpenAI chat completions and responses, Anthropic messages) as parsers  *)
(* from SSE frames to events, and the fold of events into one assistant    *)
(* turn, src/provider/provider.go, conformance.go, openai, anthropic.      *)
(*                                                                         *)
(* Text is a sequence of pieces, a piece is a place in a response body and *)
(* the labels the event that carried it had.                               *)
(***************************************************************************)
EXTENDS Integers, Sequences, FiniteSets, SequencesExt

CONSTANTS
  Items,         \* tool calls of a response: ids and indexes 1..n, 0 is none
  MaxToolCalls   \* MaxToolCallsPerResponse

ASSUME ItemsAssumption == Items \subseteq Nat \ {0} /\ MaxToolCalls \in Nat

Protocols == {"chat", "responses", "messages", "host"}

-----------------------------------------------------------------------------
(* Errors are the sequence of what errors.Is and errors.As meet in them,   *)
(* outermost first; <<>> is nil.                                           *)

Tags == {"server", "refused", "partial", "exhausted", "joined", "eof", "cut", "canceled", "deadline",
         "plain", "limit", "callback", "panic", "veto", "missingTerminal", "manyTerminals",
         "afterTerminal", "duplicateID", "conflict", "missingID", "invalidArguments", "tooManyCalls"}

is(err, tag) == \E i \in DOMAIN err : err[i] = tag

contextRetryStop(err) == is(err, "canceled") \/ is(err, "deadline")

\* Implementations of RetryableError: provider.Error and PartialStreamError.
Marked == {"server", "refused", "partial"}

isRetryableSystemError(err) == is(err, "eof") \/ is(err, "cut")

IsRetryableError(err) ==
  LET marked == {i \in DOMAIN err : err[i] \in Marked}
  IN /\ ~contextRetryStop(err)
     /\ IF marked = {} THEN isRetryableSystemError(err)
        ELSE \E i \in marked : err[i] = "server" /\ \A j \in marked : i <= j

-----------------------------------------------------------------------------
(* Events.                                                                 *)

\* final: the piece completes the arguments of its tool call.
Piece(body, at, id, index, final) ==
  [body |-> body, at |-> at, id |-> id, index |-> index, final |-> final]

NoEvent == [kind |-> "", id |-> 0, index |-> 0, pieces |-> <<>>, stop |-> "", err |-> <<>>]

Text(pieces) == [NoEvent EXCEPT !.kind = "text", !.pieces = pieces]

Thinking(pieces) == [NoEvent EXCEPT !.kind = "thinking", !.pieces = pieces]

ToolCallDelta(id, index, pieces) ==
  [NoEvent EXCEPT !.kind = "delta", !.id = id, !.index = index, !.pieces = pieces]

ToolCall(id, pieces) == [NoEvent EXCEPT !.kind = "call", !.id = id, !.pieces = pieces]

EventDone(stop) == [NoEvent EXCEPT !.kind = "done", !.stop = stop]

EventError(err) == [NoEvent EXCEPT !.kind = "error", !.err = err]

isTerminal(event) == event.kind \in {"done", "error"}

providerEventSize(event) == Len(event.pieces)

-----------------------------------------------------------------------------
(* The wire: one SSE frame to the events it appends.                       *)

\* items: id and hadArgumentDeltas per output index; buffer and inThink are the thinkSplitter's.
NewParser ==
  [pending |-> <<>>, finished |-> FALSE, stop |-> "", buffer |-> <<>>, inThink |-> FALSE,
   items |-> [i \in Items |-> [id |-> 0, deltas |-> FALSE]]]

emit(parser, event) == [parser EXCEPT !.pending = Append(@, event)]

Outcome(parser, err) == [parser |-> parser, err |-> err]

apiError(frame) == IF frame.kind = "failed" THEN <<"server">> ELSE <<"refused">>

\* The kinds of content; mode is that of what a thinkSplitter holds and reads on.
ContentKinds == {"text", "thinking"}

mode(parser) == IF parser.inThink THEN "thinking" ELSE "text"

queue(parser, kind, pieces) ==
  IF pieces = <<>> THEN parser ELSE emit(parser, IF kind = "thinking" THEN Thinking(pieces) ELSE Text(pieces))

\* thinkSplitter.process of one delta, which is either without tags, and perhaps held as what may be the
\* start of a tag, or a tag frame: it has tags in it, text outside them, reasoning inside, or both, and
\* leaves the splitter inside or outside a block.  (A delta with tags and a held tail counts as two; the
\* deltas in which a held tail or a tag arrives as one.)  carries: what the delta itself has of a kind.
carries(parser, frame, kind) ==
  IF frame.kind = "tag" THEN IF kind = "thinking" THEN frame.thinking ELSE frame.text
  ELSE kind = mode(parser) /\ ~frame.held

splitter_process(parser, frame, piece, kind) ==
  (IF kind = mode(parser) THEN parser.buffer ELSE <<>>)
  \o (IF carries(parser, frame, kind) THEN <<piece>> ELSE <<>>)

splitter_after(parser, frame, piece) ==
  [parser EXCEPT !.buffer = IF frame.kind = "text" /\ frame.held THEN <<piece>> ELSE <<>>,
                 !.inThink = IF frame.kind = "tag" THEN frame.inside ELSE @]

\* The reasoning of a delta is queued before its text, whatever their order in it.
processChoiceDelta(parser, frame, piece) ==
  queue(queue(splitter_after(parser, frame, piece),
              "thinking", splitter_process(parser, frame, piece, "thinking")),
        "text", splitter_process(parser, frame, piece, "text"))

\* Fault: a stream that ends inside a held tail forgets it.
handleDoneMarker_noFlush(parser) == [emit(parser, EventDone(parser.stop)) EXCEPT !.finished = TRUE]

handleDoneMarker(parser) ==
  LET flushed == queue(parser, mode(parser), parser.buffer)
  IN [emit(flushed, EventDone(parser.stop)) EXCEPT !.finished = TRUE, !.buffer = <<>>]

\* openAIStream.Recv of one frame.
chat(parser, frame, piece) ==
  CASE frame.kind \in {"text", "tag"} -> Outcome(processChoiceDelta(parser, frame, piece), <<>>)
    [] frame.kind = "call"    -> Outcome(emit(parser, ToolCallDelta(frame.item, frame.item, <<>>)), <<>>)
    [] frame.kind = "args"    -> Outcome(emit(parser, ToolCallDelta(0, frame.item, <<piece>>)), <<>>)
    [] frame.kind = "finish"  -> Outcome([parser EXCEPT !.stop = frame.stop], <<>>)
    [] frame.kind = "end"     -> Outcome(handleDoneMarker(parser), <<>>)
    [] frame.kind \in {"failed", "rejected"} -> Outcome(parser, apiError(frame))
    [] OTHER                  -> Outcome(parser, <<>>)

recordOutputItem(parser, item) == [parser EXCEPT !.items[item].id = item]

outputItemDone(parser, item, piece) ==
  LET recorded == recordOutputItem(parser, item)
  IN IF parser.items[item].deltas THEN recorded
     ELSE emit(recorded, ToolCallDelta(recorded.items[item].id, item, <<piece>>))

\* responsesStream.Recv of one frame and consume.
responses(parser, frame, piece) ==
  CASE frame.kind = "text"     -> Outcome(emit(parser, Text(<<piece>>)), <<>>)
    [] frame.kind = "call"     -> Outcome(recordOutputItem(parser, frame.item), <<>>)
    [] frame.kind = "args"     -> Outcome(emit([parser EXCEPT !.items[frame.item].deltas = TRUE],
                                       ToolCallDelta(parser.items[frame.item].id, frame.item, <<piece>>)), <<>>)
    [] frame.kind = "itemDone" -> Outcome(outputItemDone(parser, frame.item, piece), <<>>)
    [] frame.kind = "end"      -> Outcome([emit(parser, EventDone(frame.stop)) EXCEPT !.finished = TRUE], <<>>)
    [] frame.kind \in {"failed", "rejected"} ->
         Outcome([emit(parser, EventError(apiError(frame))) EXCEPT !.finished = TRUE], <<>>)
    [] frame.kind = "eof"      -> Outcome(parser, <<"cut">>)
    [] OTHER                   -> Outcome(parser, <<>>)

\* anthropicStream.Recv of one frame.
messages(parser, frame, piece) ==
  CASE frame.kind = "text"   -> Outcome(emit(parser, Text(<<piece>>)), <<>>)
    [] frame.kind = "call"   -> Outcome(emit(recordOutputItem(parser, frame.item),
                                             ToolCallDelta(frame.item, 0, <<>>)), <<>>)
    [] frame.kind = "args"   -> Outcome(emit(parser, ToolCallDelta(parser.items[frame.item].id, 0, <<piece>>)), <<>>)
    [] frame.kind = "finish" -> Outcome([parser EXCEPT !.stop = frame.stop], <<>>)
    [] frame.kind = "end"    -> Outcome([emit(parser, EventDone(parser.stop)) EXCEPT !.finished = TRUE], <<>>)
    [] frame.kind \in {"failed", "rejected"} -> Outcome(parser, apiError(frame))
    [] OTHER                 -> Outcome(parser, <<>>)

\* A stream of the host's own: it returns what it likes, after its terminal event too.
host(parser, frame, piece) ==
  CASE frame.kind = "text"  -> Outcome(emit(parser, Text(<<piece>>)), <<>>)
    [] frame.kind = "args"  -> Outcome(emit(parser, ToolCallDelta(frame.id, frame.index, <<piece>>)), <<>>)
    [] frame.kind = "tool"  -> Outcome(emit(parser, ToolCall(frame.item, <<piece>>)), <<>>)
    [] frame.kind = "end"   -> Outcome(emit(parser, EventDone("natural")), <<>>)
    [] frame.kind = "torn"  -> Outcome(emit(parser, Text(<<piece>>)), <<"cut">>)
    [] frame.kind = "endTorn"  -> Outcome(emit(parser, EventDone("natural")), <<"cut">>)
    [] frame.kind = "nilError" -> Outcome(emit(parser, EventError(<<>>)), <<>>)
    [] frame.kind \in {"failed", "rejected"} -> Outcome(emit(parser, EventError(apiError(frame))), <<>>)
    [] OTHER -> Outcome(parser, <<>>)

\* What the body and its parser make of the next frame; a body that ends or breaks is the same to all.
consume(protocol, parser, frame, piece) ==
  CASE frame.kind = "bad"      -> Outcome(parser, <<"plain">>)
    [] frame.kind = "cut"      -> Outcome(parser, <<"cut">>)
    [] frame.kind = "canceled" -> Outcome(parser, <<"canceled">>)
    [] frame.kind = "eof" /\ protocol # "responses" -> Outcome(parser, <<"eof">>)
    [] OTHER ->
         CASE protocol = "chat"      -> chat(parser, frame, piece)
           [] protocol = "responses" -> responses(parser, frame, piece)
           [] protocol = "messages"  -> messages(parser, frame, piece)
           [] protocol = "host"      -> host(parser, frame, piece)

-----------------------------------------------------------------------------
(* normalizeEvents: events to one turn.                                    *)

\* content: text and reasoning, each in order (the parts of one between those of the other are not
\* told apart); calls: tool calls; err: why there is no turn.
EmptyTurn == [content |-> [kind \in ContentKinds |-> <<>>], calls |-> <<>>, stop |-> ""]

validateTerminalSequence(events, requireTerminal) ==
  LET terminals == {i \in DOMAIN events : isTerminal(events[i])}
      broken == {j \in DOMAIN events : \E i \in terminals : i < j}
  IN CASE broken # {} ->
            IF isTerminal(events[CHOOSE j \in broken : \A k \in broken : j <= k])
            THEN <<"manyTerminals">> ELSE <<"afterTerminal">>
       [] requireTerminal /\ terminals = {} -> <<"missingTerminal">>
       [] OTHER -> <<>>

\* builders in order of arrival; ids and indexes: the builder an id or index is bound to, 0 is none.
NoBuilders == [builders |-> <<>>, ids |-> [i \in Items |-> 0], indexes |-> [i \in Items |-> 0],
               duplicate |-> FALSE]

newBuilder(acc, id, index) ==
  LET key == Len(acc.builders) + 1
      builder == [id |-> id, index |-> index, args |-> <<>>, full |-> FALSE, conflict |-> FALSE]
  IN [key |-> key,
      acc |-> [acc EXCEPT !.builders = Append(@, builder),
                          !.ids = IF id = 0 THEN @ ELSE [@ EXCEPT ![id] = key],
                          !.indexes = IF index = 0 THEN @ ELSE [@ EXCEPT ![index] = key]]]

\* Binds index to the builder of an id already known.
bindIndex(acc, key, index) ==
  IF \/ acc.indexes[index] \notin {0, key}
     \/ acc.builders[key].index \notin {0, index}
  THEN [acc EXCEPT !.builders[key].conflict = TRUE]
  ELSE [acc EXCEPT !.builders[key].index = index, !.indexes[index] = key]

\* Binds id, which is not known, to the builder of an index.
bindID(acc, key, id) ==
  IF acc.builders[key].id \notin {0, id}
  THEN [acc EXCEPT !.builders[key].conflict = TRUE]
  ELSE [acc EXCEPT !.builders[key].id = id, !.ids[id] = key]

\* Fault: an index already bound to another call is taken over by this id.
ensureToolCallBuilder_rebinds(acc, id, index) ==
  IF id # 0 /\ acc.ids[id] # 0 THEN [key |-> acc.ids[id], acc |-> acc]
  ELSE IF index # 0 /\ acc.indexes[index] # 0 THEN [key |-> acc.indexes[index], acc |-> acc]
  ELSE newBuilder(acc, id, index)

ensureToolCallBuilder(acc, id, index) ==
  IF id # 0 /\ acc.ids[id] # 0
  THEN [key |-> acc.ids[id], acc |-> IF index = 0 THEN acc ELSE bindIndex(acc, acc.ids[id], index)]
  ELSE IF index # 0 /\ acc.indexes[index] # 0
  THEN [key |-> acc.indexes[index], acc |-> IF id = 0 THEN acc ELSE bindID(acc, acc.indexes[index], id)]
  ELSE newBuilder(acc, id, index)

\* at: the builder of the event, as ensureToolCallBuilder found or made it.
appendFragment(at, event) ==
  [at.acc EXCEPT !.builders[at.key].id = IF event.id = 0 THEN @ ELSE event.id,
                 !.builders[at.key].index = IF event.index = 0 THEN @ ELSE event.index,
                 !.builders[at.key].args = @ \o event.pieces]

setCall(at, event) ==
  [at.acc EXCEPT !.duplicate = @ \/ at.acc.builders[at.key].full,
                 !.builders[at.key].full = TRUE,
                 !.builders[at.key].args = event.pieces]

applyToolCallDeltaEvent(acc, event) == appendFragment(ensureToolCallBuilder(acc, event.id, event.index), event)

applyToolCallEvent(acc, event) == setCall(ensureToolCallBuilder(acc, event.id, 0), event)

applyToolEvent(acc, event) ==
  CASE event.kind = "delta" -> applyToolCallDeltaEvent(acc, event)
    [] event.kind = "call" -> applyToolCallEvent(acc, event)
    [] OTHER -> acc

toolCallBuilders(events) ==
  LET after[n \in 0..Len(events)] == IF n = 0 THEN NoBuilders ELSE applyToolEvent(after[n - 1], events[n])
  IN after[Len(events)]

\* json.Valid: a document is complete with the last of its pieces.
validArguments(args) ==
  args = <<>> \/ {i \in DOMAIN args : args[i].final} = {Len(args)}

builderError(builder) ==
  IF builder.conflict THEN <<"conflict">>
  ELSE IF builder.id = 0 THEN <<"missingID">>
  ELSE IF ~validArguments(builder.args) THEN <<"invalidArguments">>
  ELSE <<>>

finalizeToolCalls(builders) ==
  LET errs == {i \in DOMAIN builders : builderError(builders[i]) # <<>>}
      first == CHOOSE i \in errs : \A j \in errs : i <= j
  IN IF errs # {} /\ first <= MaxToolCalls + 1 THEN builderError(builders[first])
     ELSE IF Len(builders) > MaxToolCalls THEN <<"tooManyCalls">>
     ELSE <<>>

appendContent(content, event, kind) == IF event.kind = kind THEN content \o event.pieces ELSE content

contentPieces(events, kind) ==
  LET after[n \in 0..Len(events)] == IF n = 0 THEN <<>> ELSE appendContent(after[n - 1], events[n], kind)
  IN after[Len(events)]

contentOf(events) == [kind \in ContentKinds |-> contentPieces(events, kind)]

\* The first event of a kind; there is one.
firstOf(events, kind) ==
  LET found == {i \in DOMAIN events : events[i].kind = kind}
  IN events[CHOOSE i \in found : \A j \in found : i <= j]

occurs(events, kind) == \E i \in DOMAIN events : events[i].kind = kind

\* The first error that normalizeEvents meets; acc is toolCallBuilders(events).
normalizeError(events, requireTerminal, acc) ==
  LET sequence == validateTerminalSequence(events, FALSE)
  IN CASE sequence # <<>> -> sequence
       [] sequence = <<>> /\ acc.duplicate -> <<"duplicateID">>
       [] sequence = <<>> /\ ~acc.duplicate /\ occurs(events, "error") ->
            IF firstOf(events, "error").err = <<>> THEN <<"plain">> ELSE firstOf(events, "error").err
       [] OTHER -> IF validateTerminalSequence(events, requireTerminal) # <<>>
                   THEN validateTerminalSequence(events, requireTerminal)
                   ELSE finalizeToolCalls(acc.builders)

normalizedTurn(events, builders) ==
  [content |-> contentOf(events),
   calls |-> [i \in DOMAIN builders |-> [id |-> builders[i].id, args |-> builders[i].args]],
   stop |-> IF occurs(events, "done") THEN firstOf(events, "done").stop ELSE ""]

normalized(events, acc, err) ==
  [err |-> err, turn |-> IF err = <<>> THEN normalizedTurn(events, acc.builders) ELSE EmptyTurn]

normalizeWith(events, requireTerminal, acc) ==
  normalized(events, acc, normalizeError(events, requireTerminal, acc))

normalizeEvents(events, requireTerminal) == normalizeWith(events, requireTerminal, toolCallBuilders(events))

=============================================================================
